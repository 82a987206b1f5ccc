--------------------------- MODULE PromptDelivery ---------------------------
(***************************************************************************)
(* How a prompt travels from its owner to the coding agent's pane          *)
(* (crates/review-thread-service/src/delivery.rs and the worker loop of    *)
(* state.rs): PromptSender -> the worker's PromptQueue -> the Courier's    *)
(* thread -> Herdr, with the PromptGate that PromptHolds close.            *)
(*                                                                         *)
(* Four kinds of threads interleave: the owners of requests (send, drop    *)
(* the cancellation guard), the worker (receive, poll), the courier (take, *)
(* pass the gate, submit, report) and the holders of the gate.  A mutex    *)
(* section of GateState is one step; what happens outside of it is not.    *)
(***************************************************************************)
EXTENDS Naturals, Sequences, FiniteSets

CONSTANTS
    Requests,  \* prompts sent through PromptSender::send_observed
    Observed,  \* the requests whose owner passed a DispatchObserver
    Wakeups,   \* comment notifications, which the worker sends by itself
    Holds,     \* the PromptHold objects; each is created and dropped once
    NoPrompt

ASSUME DeliveryAssumption ==
    /\ Observed \subseteq Requests
    /\ Requests \cap Wakeups = {}
    /\ NoPrompt \notin Requests \cup Wakeups
    /\ IsFiniteSet(Holds)

Prompts == Requests \cup Wakeups

\* What delivering to the agent may answer, PromptError::Cancelled apart.
Answers == {"Ok", "Blocked", "Delivery", "NotStarted", "Unknown"}

\* What an owner may read: "Closed" is the receipt whose sender was dropped.
Results == Answers \cup {"Cancelled", "Closed"}

VARIABLES
    inbox,      \* the requests in the worker's input channel
    waiting,    \* PromptQueue
    batch,      \* the requests poll took out of PromptQueue and has yet to begin
    worker,     \* [pc, prompt]: the worker's place and the prompt it handles
    parcels,    \* the courier's channel
    courier,    \* [pc, prompt, result]
    holds,      \* GateState.holds
    sending,    \* GateState.sending
    queued,     \* GateState.queued
    hold,       \* each PromptHold: not yet created, living, drained, dropped
    withdrawn,  \* the requests whose PromptCancellation was dropped
    receipt,    \* what each prompt's outcome was reported to be
    marked,     \* the requests whose observer committed the attempt marker
    submitted,  \* history: how often each prompt's text reached the agent's pane
    quieted     \* history: requests withdrawn unsubmitted under a drained hold

queues == <<inbox, waiting, batch>>
gate == <<holds, sending, queued>>
owners == <<withdrawn, receipt, marked>>
history == <<submitted, quieted>>
vars == <<queues, worker, parcels, courier, gate, hold, owners, history>>

-----------------------------------------------------------------------------
\* No outcome yet.
Idle == "none"

Init ==
    /\ inbox = <<>> /\ waiting = <<>> /\ batch = <<>> /\ parcels = <<>>
    /\ worker = [pc |-> "recv", prompt |-> NoPrompt]
    /\ courier = [pc |-> "recv", prompt |-> NoPrompt, result |-> "Ok"]
    /\ holds = 0 /\ sending = FALSE /\ queued = 0
    /\ hold = [h \in Holds |-> "new"]
    /\ withdrawn = {} /\ marked = {} /\ quieted = {}
    /\ submitted = [p \in Prompts |-> 0]
    /\ receipt = [p \in Prompts |-> Idle]

\* The elements of a queue.
InSeq(s) == {s[i] : i \in DOMAIN s}

\* PromptRequest::finish: an observer that fails to record the result turns it
\* into Unknown.  A wakeup's outcome only becomes an input of the worker.
Finish(p, result) ==
    \E reported \in {result} \cup (IF p \in Observed THEN {"Unknown"} ELSE {}) :
        receipt' = [receipt EXCEPT ![p] = reported]

\* Dropping a request unfinished closes its receipt.
Close(ps) ==
    receipt' = [p \in Prompts |-> IF p \in ps THEN "Closed" ELSE receipt[p]]

-----------------------------------------------------------------------------
(* Owners. *)

\* A prompt that is under way or has its outcome.
Sent(p) ==
    \/ receipt[p] # Idle
    \/ p \in InSeq(inbox) \cup InSeq(waiting) \cup InSeq(batch) \cup InSeq(parcels)
    \/ p \in {worker.prompt, courier.prompt}

\* PromptSender::send_observed, and its failure once the worker is gone.
SendObserved(p) ==
    /\ ~Sent(p) /\ p \notin withdrawn
    /\ \/ /\ worker.pc # "stopped"
          /\ inbox' = Append(inbox, p)
          /\ UNCHANGED receipt
       \/ /\ worker.pc = "stopped"
          /\ Finish(p, "Delivery")
          /\ UNCHANGED inbox
    /\ UNCHANGED <<waiting, batch, worker, parcels, courier, gate, hold,
                   withdrawn, marked, history>>

\* A hold that drained and has not been dropped.
Quiet == \E h \in Holds : hold[h] = "drained"

\* PromptCancellation::drop.
Withdraw(p) ==
    /\ Sent(p) /\ p \notin withdrawn
    /\ withdrawn' = withdrawn \cup {p}
    /\ quieted' = IF Quiet /\ submitted[p] = 0 THEN quieted \cup {p} ELSE quieted
    /\ UNCHANGED <<queues, worker, parcels, courier, gate, hold, receipt,
                   marked, submitted>>

-----------------------------------------------------------------------------
(* The worker: State::run, and PromptQueue::poll on every turn of its loop. *)

\* Input::Prompt: push, then poll takes the whole queue.
Receive ==
    /\ worker.pc = "recv" /\ inbox # <<>>
    /\ inbox' = Tail(inbox)
    /\ batch' = Append(waiting, Head(inbox))
    /\ waiting' = <<>>
    /\ worker' = [worker EXCEPT !.pc = "poll"]
    /\ UNCHANGED <<parcels, courier, gate, hold, owners, history>>

\* Another input, or RECHECK_INTERVAL went by: poll runs all the same.
Recheck ==
    /\ worker.pc = "recv"
    /\ batch' = waiting
    /\ waiting' = <<>>
    /\ worker' = [worker EXCEPT !.pc = "poll"]
    /\ UNCHANGED <<inbox, parcels, courier, gate, hold, owners, history>>

\* Mutant of Stop: the worker takes the courier's parcels for its own.
StopClosingParcels ==
    /\ worker.pc = "recv"
    /\ worker' = [worker EXCEPT !.pc = "stopped"]
    /\ Close(InSeq(inbox) \cup InSeq(waiting) \cup InSeq(parcels))
    /\ inbox' = <<>> /\ waiting' = <<>>
    /\ UNCHANGED <<batch, parcels, courier, gate, hold, withdrawn, marked,
                   history>>

\* Input::Stop: what the worker still holds is dropped; the courier's is not.
Stop ==
    /\ worker.pc = "recv"
    /\ worker' = [worker EXCEPT !.pc = "stopped"]
    /\ Close(InSeq(inbox) \cup InSeq(waiting))
    /\ inbox' = <<>> /\ waiting' = <<>>
    /\ UNCHANGED <<batch, parcels, courier, gate, hold, withdrawn, marked,
                   history>>

\* PromptRequest::begin until its second look at `cancelled`.
Begin ==
    /\ worker.pc = "poll" /\ batch # <<>>
    /\ batch' = Tail(batch)
    /\ LET p == Head(batch) IN
       \/ /\ p \in withdrawn
          /\ Finish(p, "Cancelled")
          /\ UNCHANGED <<waiting, worker>>
       \/ /\ p \notin withdrawn            \* the pinned agent is gone or another
          /\ Finish(p, "Delivery")
          /\ UNCHANGED <<waiting, worker>>
       \/ /\ p \notin withdrawn            \* not known yet: back to the queue
          /\ waiting' = Append(waiting, p)
          /\ UNCHANGED <<receipt, worker>>
       \/ /\ p \notin withdrawn
          /\ worker' = [pc |-> "attempt", prompt |-> p]
          /\ UNCHANGED <<receipt, waiting>>
    /\ UNCHANGED <<inbox, parcels, courier, gate, hold, withdrawn, marked,
                   history>>

\* Mutant of Attempt: the marker is left to the end of the attempt.
AttemptUnmarked ==
    /\ worker.pc = "attempt"
    /\ worker' = [worker EXCEPT !.pc = "queue"]
    /\ UNCHANGED <<queues, parcels, courier, gate, hold, owners, history>>

\* The end of begin: observer.before_attempt, then agent.seal_attempt; each may
\* refuse, and the seal may refuse after the marker was committed.
Attempt ==
    LET p == worker.prompt
        committed == marked \cup ({p} \cap Observed)
    IN
    /\ worker.pc = "attempt"
    /\ \/ /\ marked' = committed
          /\ worker' = [worker EXCEPT !.pc = "queue"]
          /\ UNCHANGED receipt
       \/ /\ marked' \in {marked, committed}
          /\ Finish(p, "Delivery")
          /\ worker' = [pc |-> "poll", prompt |-> NoPrompt]
    /\ UNCHANGED <<queues, parcels, courier, gate, hold, withdrawn, history>>

\* After the prompts, poll notifies of the pending comments, or is done.
EndPoll ==
    /\ worker.pc = "poll" /\ batch = <<>>
    /\ \/ worker' = [worker EXCEPT !.pc = "recv"]
       \/ \E w \in Wakeups :
            /\ ~Sent(w)
            /\ worker' = [pc |-> "queue", prompt |-> w]
    /\ UNCHANGED <<queues, parcels, courier, gate, hold, owners, history>>

\* Courier::send: count the prompt ...
Queue ==
    /\ worker.pc = "queue"
    /\ queued' = queued + 1
    /\ worker' = [worker EXCEPT !.pc = "hand"]
    /\ UNCHANGED <<queues, parcels, courier, holds, sending, hold, owners,
                   history>>

\* ... and hand it over, unless the courier's thread is gone.
Hand ==
    /\ worker.pc = "hand"
    /\ \/ /\ courier.pc # "dead"
          /\ parcels' = Append(parcels, worker.prompt)
          /\ worker' = [pc |-> "poll", prompt |-> NoPrompt]
          /\ UNCHANGED receipt
       \/ /\ courier.pc = "dead"
          /\ Finish(worker.prompt, "Delivery")
          /\ worker' = [worker EXCEPT !.pc = "unqueue"]
          /\ UNCHANGED parcels
    /\ UNCHANGED <<queues, courier, gate, hold, withdrawn, marked, history>>

\* PromptGate::unqueue.
Unqueue ==
    /\ worker.pc = "unqueue"
    /\ queued' = queued - 1
    /\ worker' = [pc |-> "poll", prompt |-> NoPrompt]
    /\ UNCHANGED <<queues, parcels, courier, holds, sending, hold, owners,
                   history>>

-----------------------------------------------------------------------------
(* The courier's thread. *)

Take ==
    /\ courier.pc = "recv" /\ parcels # <<>>
    /\ parcels' = Tail(parcels)
    /\ courier' = [courier EXCEPT !.pc = "gate", !.prompt = Head(parcels)]
    /\ UNCHANGED <<queues, worker, gate, hold, owners, history>>

\* The worker dropped the sending end, and every parcel was taken.
CourierEnds ==
    /\ courier.pc = "recv" /\ parcels = <<>> /\ worker.pc = "stopped"
    /\ courier' = [courier EXCEPT !.pc = "dead"]
    /\ UNCHANGED <<queues, worker, parcels, gate, hold, owners, history>>

\* Mutant of PassGate: the wait ends, but `sending` is not set with it.
PassGateUnseen ==
    /\ courier.pc = "gate" /\ holds = 0
    /\ courier' = [courier EXCEPT !.pc = "check"]
    /\ UNCHANGED <<queues, worker, parcels, gate, hold, owners, history>>

\* PromptGate::send waits for the holds to end, and is sending from the same
\* critical section on.
PassGate ==
    /\ courier.pc = "gate" /\ holds = 0
    /\ sending' = TRUE
    /\ courier' = [courier EXCEPT !.pc = "check"]
    /\ UNCHANGED <<queues, worker, parcels, holds, queued, hold, owners,
                   history>>

\* Mutant of CheckWithdrawn: the worker's look at `cancelled` is thought enough.
CheckWithdrawnSkipped ==
    /\ courier.pc = "check"
    /\ courier' = [courier EXCEPT !.pc = "submit"]
    /\ UNCHANGED <<queues, worker, parcels, gate, hold, owners, history>>

\* QueuedPrompt::send looks at `cancelled` only now; a wakeup has none.
CheckWithdrawn ==
    /\ courier.pc = "check"
    /\ courier' = IF courier.prompt \in withdrawn
                  THEN [courier EXCEPT !.pc = "report", !.result = "Cancelled"]
                  ELSE [courier EXCEPT !.pc = "submit"]
    /\ UNCHANGED <<queues, worker, parcels, gate, hold, owners, history>>

\* prompt_agent writes the text to the pane; an error of Herdr leaves unknown
\* whether it did.
Submit ==
    LET reached == [submitted EXCEPT ![courier.prompt] = @ + 1] IN
    /\ courier.pc = "submit"
    /\ \/ /\ submitted' = reached
          /\ courier' = [courier EXCEPT !.pc = "await"]
       \/ /\ submitted' \in {submitted, reached}
          /\ courier' = [courier EXCEPT !.pc = "report", !.result = "Unknown"]
    /\ UNCHANGED <<queues, worker, parcels, gate, hold, owners, quieted>>

\* The hooks, or the agent's status, tell within a time limit what became of it.
Await ==
    /\ courier.pc = "await"
    /\ \E answer \in Answers :
         courier' = [courier EXCEPT !.pc = "report", !.result = answer]
    /\ UNCHANGED <<queues, worker, parcels, gate, hold, owners, history>>

\* Mutant of Report: a guard dropped meanwhile overrides what Herdr answered.
ReportCancelled ==
    /\ courier.pc = "report"
    /\ Finish(courier.prompt,
              IF courier.prompt \in withdrawn THEN "Cancelled" ELSE courier.result)
    /\ courier' = [courier EXCEPT !.pc = "sent"]
    /\ UNCHANGED <<queues, worker, parcels, gate, hold, withdrawn, marked,
                   history>>

\* Mutant of Report: a prompt the agent did not start is sent again.
ReportRetrying ==
    /\ courier.pc = "report"
    /\ IF courier.result = "NotStarted"
       THEN courier' = [courier EXCEPT !.pc = "submit"] /\ UNCHANGED receipt
       ELSE Finish(courier.prompt, courier.result) /\ courier' = [courier EXCEPT !.pc = "sent"]
    /\ UNCHANGED <<queues, worker, parcels, gate, hold, withdrawn, marked,
                   history>>

Report ==
    /\ courier.pc = "report"
    /\ Finish(courier.prompt, courier.result)
    /\ courier' = [courier EXCEPT !.pc = "sent"]
    /\ UNCHANGED <<queues, worker, parcels, gate, hold, withdrawn, marked,
                   history>>

\* Mutant of SentDrop: a withdrawn prompt is not counted off.
SentDropCounted ==
    /\ courier.pc = "sent"
    /\ sending' = FALSE
    /\ queued' = IF courier.result = "Cancelled" THEN queued ELSE queued - 1
    /\ courier' = [courier EXCEPT !.pc = "recv", !.prompt = NoPrompt]
    /\ UNCHANGED <<queues, worker, parcels, holds, hold, owners, history>>

\* Mutant of SentDrop: only a delivered prompt ends the sending.
SentDropStillSending ==
    /\ courier.pc = "sent"
    /\ sending' = (courier.result # "Ok")
    /\ queued' = queued - 1
    /\ courier' = [courier EXCEPT !.pc = "recv", !.prompt = NoPrompt]
    /\ UNCHANGED <<queues, worker, parcels, holds, hold, owners, history>>

\* Sent::drop.
SentDrop ==
    /\ courier.pc = "sent"
    /\ sending' = FALSE
    /\ queued' = queued - 1
    /\ courier' = [courier EXCEPT !.pc = "recv", !.prompt = NoPrompt]
    /\ UNCHANGED <<queues, worker, parcels, holds, hold, owners, history>>

\* Sending a prompt panicked: Sent::drop still runs, the outcome is dropped
\* uncalled, and the thread's end drops every parcel left in the channel.
Panic ==
    /\ courier.pc \in {"submit", "await", "report"}
    /\ sending' = FALSE
    /\ queued' = queued - 1
    /\ Close(InSeq(parcels) \cup {courier.prompt})
    /\ parcels' = <<>>
    /\ courier' = [courier EXCEPT !.pc = "dead", !.prompt = NoPrompt]
    /\ UNCHANGED <<queues, worker, holds, hold, withdrawn, marked, history>>

-----------------------------------------------------------------------------
(* The holders of the gate. *)

\* PromptHold::new does not wait for the prompt on its way.
NewHold(h) ==
    /\ hold[h] = "new"
    /\ hold' = [hold EXCEPT ![h] = "living"]
    /\ holds' = holds + 1
    /\ UNCHANGED <<queues, worker, parcels, courier, sending, queued, owners,
                   history>>

\* Drained::wait.
DrainedWait(h) ==
    /\ hold[h] = "living" /\ ~sending
    /\ hold' = [hold EXCEPT ![h] = "drained"]
    /\ UNCHANGED <<queues, worker, parcels, courier, gate, owners, history>>

\* Mutant of DropHold: a hold that drained is not counted off.
DropHoldCounted(h) ==
    /\ hold[h] \in {"living", "drained"}
    /\ hold' = [hold EXCEPT ![h] = "dropped"]
    /\ holds' = IF hold[h] = "drained" THEN holds ELSE holds - 1
    /\ UNCHANGED <<queues, worker, parcels, courier, sending, queued, owners,
                   history>>

\* PromptHold::drop, whether or not its owner waited.
DropHold(h) ==
    /\ hold[h] \in {"living", "drained"}
    /\ hold' = [hold EXCEPT ![h] = "dropped"]
    /\ holds' = holds - 1
    /\ UNCHANGED <<queues, worker, parcels, courier, sending, queued, owners,
                   history>>

-----------------------------------------------------------------------------
Owner == \E p \in Requests : SendObserved(p) \/ Withdraw(p)
Worker == \/ Receive \/ Recheck \/ Stop \/ Begin \/ Attempt \/ EndPoll
          \/ Queue \/ Hand \/ Unqueue
CourierThread == \/ Take \/ CourierEnds \/ PassGate \/ CheckWithdrawn \/ Submit
                 \/ Await \/ Report \/ SentDrop \/ Panic
Holder == \E h \in Holds : NewHold(h) \/ DrainedWait(h) \/ DropHold(h)

Next == Owner \/ Worker \/ CourierThread \/ Holder

Spec == Init /\ [][Next]_vars

\* The worker's and the courier's threads run on, Herdr and the hooks answer
\* within their time limits, and whoever holds the gate waits for it to drain
\* and ends its hold.  Nothing makes an owner withdraw, or the worker stop.
Fairness ==
    /\ WF_vars(Begin \/ Attempt \/ EndPoll \/ Queue \/ Hand \/ Unqueue)
    /\ WF_vars(Receive)
    /\ WF_vars(CourierThread)
    /\ \A h \in Holds : WF_vars(DrainedWait(h))
    /\ \A h \in Holds : WF_vars(hold[h] = "drained" /\ DropHold(h))

FairSpec == Spec /\ Fairness

-----------------------------------------------------------------------------
(* Properties. *)

Submissions == [Prompts -> Nat]

\* The types of the state, the bookkeeping of places included.
TypeOK ==
    /\ inbox \in Seq(Requests) /\ waiting \in Seq(Requests)
    /\ batch \in Seq(Requests) /\ parcels \in Seq(Prompts)
    /\ worker \in [pc : {"recv", "poll", "attempt", "queue", "hand", "unqueue",
                         "stopped"},
                   prompt : Prompts \cup {NoPrompt}]
    /\ courier \in [pc : {"recv", "gate", "check", "submit", "await", "report",
                          "sent", "dead"},
                    prompt : Prompts \cup {NoPrompt},
                    result : Answers \cup {"Cancelled"}]
    /\ holds \in Nat /\ queued \in Nat /\ sending \in BOOLEAN
    /\ hold \in [Holds -> {"new", "living", "drained", "dropped"}]
    /\ withdrawn \subseteq Requests /\ marked \subseteq Observed
    /\ submitted \in Submissions /\ quieted \subseteq Requests
    /\ receipt \in [Prompts -> Results \cup {Idle}]

\* The courier is past the gate with a prompt whose outcome is not settled.
InFlight == courier.pc \in {"check", "submit", "await", "report", "sent"}

\* The holds that live, and what GateState knows of them and of the courier.
Living == {h \in Holds : hold[h] \in {"living", "drained"}}
HoldsCounted == holds = Cardinality(Living)
SendingIsInFlight == sending <=> InFlight

\* A thread has a prompt exactly at the places where it handles one.
PlacesOK ==
    /\ worker.prompt # NoPrompt <=> worker.pc \in {"attempt", "queue", "hand", "unqueue"}
    /\ courier.prompt # NoPrompt <=> courier.pc = "gate" \/ InFlight

\* While a hold that drained lives, no prompt is on its way to an agent: what
\* run-ahead relies on when it switches the agent's session.
QuietWhileDrained == Quiet => ~InFlight

\* A request its owner withdraws under a drained hold, before it was submitted,
\* never reaches the agent, even after the hold ends.
WithdrawnUnderHoldNeverSent == \A p \in quieted : submitted[p] = 0

\* An owner that reads Cancelled may count on the agent not having the text.
CancelledNeverReached ==
    \A p \in Prompts : receipt[p] = "Cancelled" => submitted[p] = 0

\* The durable attempt marker is committed before the text can reach the pane,
\* so that a restart never takes a delivered prompt for an unsent one.
MarkedBeforeSubmitted == \A p \in Observed \ marked : submitted[p] = 0

Count(b) == IF b THEN 1 ELSE 0

\* `queued` counts exactly the prompts handed over and not yet settled, so that
\* neither Sent::drop nor unqueue takes it below zero.  Only the parcels lost
\* with a panicked courier stay counted.
QueuedCountsParcels ==
    LET known == Len(parcels)
                 + Count(courier.prompt # NoPrompt)
                 + Count(worker.pc \in {"hand", "unqueue"})
    IN  IF courier.pc = "dead" THEN queued >= known ELSE queued = known

\* The inductive strengthening of QuietWhileDrained: the gate's three fields
\* agree with the holds, with the courier and with the parcels they stand for.
GateInv ==
    /\ TypeOK
    /\ PlacesOK
    /\ HoldsCounted
    /\ SendingIsInFlight
    /\ QuietWhileDrained
    /\ QueuedCountsParcels

\* A request completes once: no outcome replaces one its owner may have read.
CompletesOnce ==
    [][\A p \in Prompts : receipt[p] # Idle => receipt'[p] = receipt[p]]_vars

\* What Courier::send was called with gets an outcome, whatever becomes of the
\* worker, of the courier or of the holds.
HandedCompletes ==
    \A p \in Prompts :
        (p \in InSeq(parcels) \/ (worker.pc = "queue" /\ worker.prompt = p))
            ~> receipt[p] # Idle

Life == INSTANCE PromptLife WITH
    sent <- {p \in Prompts : Sent(p)}, typed <- submitted, outcome <- receipt,
    quiet <- Quiet, barred <- quieted

\* The threads, queues and the gate keep what PromptLife promises the owners:
\* a prompt is typed at most once, and nothing is typed after its outcome.
ImplementsLife == Life!Spec

\* A hold drains unless its owner drops it first.
HoldDrains == \A h \in Holds : hold[h] = "living" ~> hold[h] # "living"
=============================================================================
