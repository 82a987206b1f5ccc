---------------------------- MODULE ExploreSession ----------------------------
(***************************************************************************)
(* The Explore sessions of the reviewer processes that share one saved     *)
(* round (crates/review-explore-session): the reviewer's turns and their   *)
(* recoveries, the prompts on their way to the agent, the agent's calls,   *)
(* the outcomes that come back late, a round reset by another process, and *)
(* processes that end and start again.                                     *)
(*                                                                         *)
(* Every change of the saved round is one step: SavedRounds takes the      *)
(* review's lock for it.  Between two such steps of a process, the others  *)
(* go on.  Run-ahead, review marks and editor views are left out.          *)
(***************************************************************************)
EXTENDS ExploreRound

CONSTANTS
    Processes,  \* reviewer processes of one workspace, each with its front ends
    MayRestart, \* whether a process may end and start again
    Outcomes    \* bound: what may become of a prompt that is not withdrawn

ASSUME SessionAssumption ==
    /\ MayRestart \in BOOLEAN
    /\ Outcomes \subseteq {"Delivered", "NotStarted", "NotSent", "Unknown"}

VARIABLES
    saved,    \* the round on disk
    made,     \* how many request identities were made; 0 before the round exists
    closed,   \* ExploreHistory: this round is history, on disk
    session,  \* State of each process
    checked,  \* Cancel answer between its check and its update, of each process
    prompts,  \* prompts with the prompt dispatcher and the courier
    failures, \* Input::PromptFinished on its way
    received, \* history: prompts the agent received, which it may answer at any time
    takenBack,\* history: the answers ever cancelled
    told,     \* history: the cancelled answers that requests the agent answered named
    stale     \* history: a turn was accepted from an attempt that was not the latest

vars == <<saved, made, closed, session, checked, prompts, failures, received,
          takenBack, told, stale>>

\* State: access is the prompt that carries the access value in force, <<>> if
\* none does; sending is the implementation request this process sends.
Blank == [shown |-> FALSE, historical |-> FALSE, error |-> FALSE, pending |-> 0,
          access |-> <<>>, sending |-> 0]

\* Cancel: the answer to cancel, whether only the latest may be, and the requests
\* of the answers that go with it.
Idle == [answer |-> 0, latest |-> FALSE, gone |-> {}]

Init ==
    /\ saved = EmptyRound /\ made = 0 /\ closed = FALSE
    /\ session = [p \in Processes |-> Blank]
    /\ checked = [p \in Processes |-> Idle]
    /\ prompts = {} /\ failures = {} /\ received = {}
    /\ takenBack = {} /\ told = {} /\ stale = FALSE

history == <<received, takenBack, told, stale>>

\* A process handles one input at a time.
Ready(p) == checked[p] = Idle

\* The session's own checks, and the one on disk that SavedRounds::update makes.
Works(p) == session[p].shown /\ ~session[p].error /\ ~session[p].historical
Editable(p) == Works(p) /\ ~closed

-----------------------------------------------------------------------------
(* Prompts. *)

Prompt(p, kind, id, attempt) ==
    [kind |-> kind, id |-> id, attempt |-> attempt, by |-> p, stage |-> "queued",
     withdrawn |-> FALSE, began |-> FALSE, outcome |-> "none"]

\* Dropping a PromptCancellation of process p.
Withdrawn(p, kinds) ==
    {IF m.by = p /\ m.kind \in kinds THEN [m EXCEPT !.withdrawn = TRUE] ELSE m : m \in prompts}
WithdrawTurn(p) == Withdrawn(p, {"turn"})
WithdrawAll(p) == Withdrawn(p, {"turn", "implementation"})

\* Mutant of DeliverTurn: the prompt grants the access of the one before.
DeliverTurnSameAccess(p, r, q) ==
    /\ saved' = r
    /\ prompts' = WithdrawAll(p) \cup {Prompt(p, "turn", q, r.turns[q].attempt)}
    /\ session' = [session EXCEPT ![p].pending = q, ![p].sending = 0,
                       ![p].access = IF @ # <<>> /\ @[1] = q THEN @
                                     ELSE <<q, r.turns[q].attempt>>]

\* Mutant of DeliverTurn: a prompt that cannot be prepared is not a failure.
DeliverTurnQuietly(p, r, q) ==
    /\ saved' = r
    /\ \/ prompts' = WithdrawAll(p) \cup {Prompt(p, "turn", q, r.turns[q].attempt)}
       \/ prompts' = WithdrawAll(p)
    /\ session' = [session EXCEPT ![p].pending = q, ![p].sending = 0,
                                  ![p].access = <<q, r.turns[q].attempt>>]

\* ExploreSession::deliver_turn once the turn is saved as r, and send_turn: the
\* prompt before it is withdrawn, and this one grants an access value of its
\* own.  A prompt that cannot be prepared fails at once.
DeliverTurn(p, r, q) ==
    \/ /\ saved' = r
       /\ prompts' = WithdrawAll(p) \cup {Prompt(p, "turn", q, r.turns[q].attempt)}
       /\ session' = [session EXCEPT ![p].pending = q, ![p].sending = 0,
                                     ![p].access = <<q, r.turns[q].attempt>>]
    \/ /\ saved' = StopTurn(r)
       /\ prompts' = WithdrawAll(p)
       /\ session' = [session EXCEPT ![p].pending = q, ![p].sending = 0,
                                     ![p].access = <<>>]

-----------------------------------------------------------------------------
(* The reviewer's commands, from the pane or from the Explore page. *)

\* Start and its kickoff: SavedRounds::create.
Kickoff(p) ==
    /\ Ready(p) /\ made = 0 /\ MaxIds > 0
    /\ made' = 1
    /\ LET s == [session EXCEPT ![p].shown = TRUE]
           r == PostKickoff(EmptyRound, 1)
       IN  \/ /\ saved' = r
              /\ prompts' = {Prompt(p, "turn", 1, 1)}
              /\ session' = [s EXCEPT ![p].pending = 1, ![p].access = <<1, 1>>]
           \/ /\ saved' = StopTurn(r)
              /\ prompts' = {}
              /\ session' = [s EXCEPT ![p].pending = 1]
    /\ UNCHANGED <<closed, checked, failures, history>>

\* Command::Turn with an answer to turn `to`.
Answer(p, to) ==
    /\ Ready(p) /\ Editable(p) /\ made < MaxIds
    /\ MayPost(saved, to)
    /\ made' = made + 1
    /\ DeliverTurn(p, PostAnswer(saved, made + 1, to), made + 1)
    /\ UNCHANGED <<closed, checked, failures, history>>

\* Command::Retry: the turn waits for it, unless this process delivers it.
Retry(p) ==
    LET q == saved.retry IN
    /\ Ready(p) /\ Editable(p) /\ q # 0
    /\ ~(session[p].pending = q /\ saved.outstanding = q)
    /\ MayPostAgain(saved, q) /\ saved.turns[q].attempt < MaxAttempts
    /\ DeliverTurn(p, PostAgain(saved, q), q)
    /\ UNCHANGED <<made, closed, checked, failures, history>>

\* ExploreSession::cancel_record: a round that is history on disk, which this
\* process did not hear of, is taken for a storage error.
CancelRecord(p) ==
    LET asks == session[p].shown /\ ~session[p].historical
    IN  [round |-> IF asks /\ ~closed THEN StopTurn(saved) ELSE saved,
         error |-> session[p].error \/ (asks /\ closed)]

\* Command::Cancel: Stop waiting.
StopWaiting(p) ==
    /\ Ready(p) /\ session[p].shown
    /\ saved' = CancelRecord(p).round
    /\ session' = [session EXCEPT ![p].error = CancelRecord(p).error,
                       ![p].access = <<>>, ![p].pending = 0, ![p].sending = 0]
    /\ prompts' = WithdrawAll(p)
    /\ UNCHANGED <<made, closed, checked, failures, history>>

\* CancelledAnswer::request: those of the answers that the agent answered, or
\* that the pending request carries.  One that a later answer superseded
\* unanswered has none.
RequestsFrom(r, a) ==
    {q \in AnswersFrom(r, a) :
        r.retry = q \/ \E i \in DOMAIN r.conversation : r.conversation[i].answer = q}

\* ExploreSession::cancel_from, of the latest answer from the pane or of any from
\* the page: it first checks against the saved round.
CancelCheck(p, a, latest) ==
    /\ Ready(p) /\ Works(p)
    /\ MayCancelFrom(saved, a)
    /\ latest => Last(saved.answers).id = a
    /\ checked' = [checked EXCEPT ![p] =
           [answer |-> a, latest |-> latest, gone |-> RequestsFrom(saved, a)]]
    /\ UNCHANGED <<saved, made, closed, session, prompts, failures, history>>

\* Review marks given back, it updates the round, which may have moved on.
CancelCommit(p) ==
    /\ ~Ready(p)
    /\ checked' = [checked EXCEPT ![p] = Idle]
    /\ \/ /\ closed
          /\ session' = [session EXCEPT ![p].error = TRUE]
          /\ UNCHANGED <<saved, prompts, takenBack>>
       \/ /\ ~closed /\ ~MayCancelFrom(saved, checked[p].answer)
          /\ UNCHANGED <<saved, session, prompts, takenBack>>
       \/ /\ ~closed /\ MayCancelFrom(saved, checked[p].answer)
          /\ saved' = CancelAnswersFrom(saved, checked[p].answer)
          /\ takenBack' = takenBack \cup AnswersFrom(saved, checked[p].answer)
          /\ IF session[p].pending \in checked[p].gone
             THEN /\ prompts' = WithdrawTurn(p)
                  /\ session' = [session EXCEPT ![p].pending = 0, ![p].access = <<>>]
             ELSE UNCHANGED <<prompts, session>>
    /\ UNCHANGED <<made, closed, failures, received, told, stale>>

\* Command::Implement, of a new request or of a saved one again.
Implement(p, d) ==
    /\ Ready(p) /\ Editable(p)
    /\ d \in Implementations(saved) \/ d = Cardinality(Implementations(saved)) + 1
    /\ saved.implementations[d].attempt < MaxSends
    /\ ~Held(saved, d, session[p].sending # 0)
    /\ MayAuthorize(saved, d)
    /\ saved' = Authorize(saved, d)
    /\ prompts' = Withdrawn(p, {"implementation"})
                    \cup {Prompt(p, "implementation", d, saved'.implementations[d].attempt)}
    /\ session' = [session EXCEPT ![p].sending = d]
    /\ UNCHANGED <<made, closed, checked, failures, history>>

CancelImplementation(p) ==
    /\ Ready(p) /\ session[p].sending # 0
    /\ session' = [session EXCEPT ![p].sending = 0]
    /\ prompts' = Withdrawn(p, {"implementation"})
    /\ UNCHANGED <<saved, made, closed, checked, failures, history>>

\* Command::Reset: the round becomes history.  Starting another round ends
\* this one in the same way.
Reset(p) ==
    /\ Ready(p) /\ session[p].shown
    /\ saved' = CancelRecord(p).round
    /\ closed' = TRUE
    /\ session' = [session EXCEPT ![p] = [Blank EXCEPT !.error = CancelRecord(p).error]]
    /\ prompts' = WithdrawAll(p)
    /\ UNCHANGED <<made, checked, failures, history>>

-----------------------------------------------------------------------------
(* Other inputs. *)

\* Input::StorageChanged: ExploreSession::storage_changed and adopt_new_round.
StorageChanged(p) ==
    /\ Ready(p) /\ made # 0
    /\ IF session[p].shown
       THEN session' = [session EXCEPT ![p].historical = closed]
       ELSE ~closed /\ session' = [session EXCEPT ![p] = [Blank EXCEPT !.shown = TRUE]]
    /\ UNCHANGED <<saved, made, closed, checked, prompts, failures, history>>

\* Input::PromptFinished: ExploreSession::prompt_finished, for the attempt that
\* is still the turn's.
PromptFinished(f) ==
    /\ Ready(f.by)
    /\ failures' = failures \ {f}
    /\ IF /\ session[f.by].pending = f.id /\ session[f.by].shown /\ ~closed
          /\ saved.turns[f.id].attempt = f.attempt /\ saved.outstanding = f.id
       THEN saved' = StopTurn(saved) /\ prompts' = WithdrawTurn(f.by)
       ELSE UNCHANGED <<saved, prompts>>
    /\ UNCHANGED <<made, closed, session, checked, history>>

\* Mutant of Authorized: only what this process knows of the round is checked.
AuthorizedAny(m) ==
    /\ Ready(m.by) /\ Works(m.by)
    /\ session[m.by].access = <<m.id, m.attempt>>

\* ExploreSession::authorize: the access value of prompt m is the one in force.
Authorized(m) ==
    /\ Ready(m.by) /\ Editable(m.by)
    /\ session[m.by].access = <<m.id, m.attempt>>

\* submit_question and submit_conclusion.
Submission(m, question) ==
    /\ Authorized(m) /\ MaySubmit(saved, m.id)
    /\ saved' = Submit(saved, m.id, question)
    /\ told' = told \cup saved.turns[m.id].cancelled
    /\ stale' = (stale \/ m.attempt # saved.turns[m.id].attempt)
    /\ UNCHANGED <<made, closed, session, checked, prompts, failures, received, takenBack>>

\* revise_question.
ReviseQuestion(m) ==
    /\ Authorized(m) /\ MayRevise(saved) /\ made < MaxIds
    /\ made' = made + 1
    /\ saved' = Revise(saved, made')
    /\ UNCHANGED <<closed, session, checked, prompts, failures, history>>

\* The process ends, with the prompts it has not sent, and another starts and
\* restores the round, unless it is closed.
Restart(p) ==
    /\ MayRestart /\ made # 0
    /\ session' = [session EXCEPT ![p] = [Blank EXCEPT !.shown = ~closed]]
    /\ checked' = [checked EXCEPT ![p] = Idle]
    /\ prompts' = {m \in prompts : m.by # p}
    /\ failures' = {f \in failures : f.by # p}
    /\ UNCHANGED <<saved, made, closed, history>>

-----------------------------------------------------------------------------
(* The prompt dispatcher and the courier of a process. *)

Ends(m, outcome) == [m EXCEPT !.stage = "done", !.outcome = outcome]

\* PromptRequest::begin, with DurableDispatch::before_attempt.
Begin(m) ==
    /\ m.stage = "queued"
    /\ \/ /\ m.withdrawn
          /\ prompts' = (prompts \ {m}) \cup {Ends(m, "Cancelled")}
          /\ UNCHANGED saved
       \/ /\ \/ "NotSent" \in Outcomes /\ ~m.withdrawn  \* the agent cannot be reached
             \/ closed \/ ~MayBegin(saved, m)           \* the record refuses
          /\ prompts' = (prompts \ {m}) \cup {Ends(m, "NotSent")}
          /\ UNCHANGED saved
       \/ /\ ~m.withdrawn /\ ~closed /\ MayBegin(saved, m)
          /\ saved' = BeginDispatch(saved, m)
          /\ prompts' = (prompts \ {m})
                          \cup {[m EXCEPT !.stage = "attempting", !.began = TRUE]}
    /\ UNCHANGED <<made, closed, session, checked, failures, history>>

\* QueuedPrompt::send and prompt_agent: what the outcome says of a prompt, and
\* whether the agent received it.
Send(m) ==
    /\ m.stage = "attempting"
    /\ \E outcome \in IF m.withdrawn THEN {"Cancelled"} ELSE Outcomes, arrives \in BOOLEAN :
         /\ outcome = "Delivered" => arrives
         /\ outcome \in {"Cancelled", "NotSent"} => ~arrives
         /\ prompts' = (prompts \ {m}) \cup {Ends(m, outcome)}
         /\ received' = IF arrives
                        THEN received \cup {[kind |-> m.kind, id |-> m.id,
                                             attempt |-> m.attempt, by |-> m.by,
                                             started |-> outcome # "NotStarted"]}
                        ELSE received
    /\ UNCHANGED <<saved, made, closed, session, checked, failures, takenBack, told, stale>>

\* PromptRequest::finish, with DurableDispatch::finished; the receipt of a turn
\* that failed comes back as an input.
Finish(m) ==
    /\ m.stage = "done"
    /\ saved' = FinishDispatch(saved, m, m.began, m.outcome)
    /\ prompts' = prompts \ {m}
    /\ failures' = IF m.kind = "turn" /\ m.outcome # "Delivered"
                   THEN failures \cup {[id |-> m.id, attempt |-> m.attempt, by |-> m.by]}
                   ELSE failures
    /\ UNCHANGED <<made, closed, session, checked, history>>

-----------------------------------------------------------------------------
Reviewer(p) ==
    \/ Kickoff(p) \/ Retry(p) \/ StopWaiting(p) \/ CancelCommit(p)
    \/ CancelImplementation(p) \/ Reset(p)
    \/ \E q \in Ids : Answer(p, q) \/ \E latest \in BOOLEAN : CancelCheck(p, q, latest)
    \/ \E d \in Deliveries : Implement(p, d)

Agent ==
    \E m \in {n \in received : n.kind = "turn"} :
        ReviseQuestion(m) \/ \E question \in BOOLEAN : Submission(m, question)

Delivery == \E m \in prompts : Begin(m) \/ Send(m) \/ Finish(m)

Next ==
    \/ \E p \in Processes : Reviewer(p) \/ StorageChanged(p) \/ Restart(p)
    \/ \E f \in failures : PromptFinished(f)
    \/ Agent \/ Delivery

Spec == Init /\ [][Next]_vars

-----------------------------------------------------------------------------
(* Properties. *)

\* The types of the sessions' state.
TypeOK ==
    /\ saved \in Round /\ made \in 0 .. MaxIds /\ closed \in BOOLEAN
    /\ session \in [Processes ->
           [shown : BOOLEAN, historical : BOOLEAN, error : BOOLEAN,
            pending : {0} \cup Ids, access : {<<>>} \cup (Ids \X Nat),
            sending : {0} \cup Deliveries]]
    /\ checked \in [Processes ->
           [answer : {0} \cup Ids, latest : BOOLEAN, gone : SUBSET Ids]]
    /\ \A m \in prompts :
         /\ m.kind \in {"turn", "implementation"} /\ m.by \in Processes
         /\ m.stage \in {"queued", "attempting", "done"}
         /\ (m.stage = "done") <=> (m.outcome \in DispatchState)
    /\ takenBack \subseteq Ids /\ told \subseteq Ids /\ stale \in BOOLEAN

\* Whatever the reviewer, the agent and other processes do to a round, and
\* wherever a process ends, the saved round is one that can be read again.
SavedRoundLoads == ValidateRestored(saved)

\* DispatchState::undelivered: a record says that the agent cannot have
\* received a prompt, or that it was not sent yet, only when it did not get it.
UndeliveredIsTrue ==
    \A m \in received :
        Current(saved, m) => StateOf(saved, m) \notin {"Queued", "NotSent", "Cancelled"}

\* No cancelled answer that the agent saw is left standing in its conversation:
\* the next request tells it, or the pending one does, or one it answered did.
CancelledIsTold ==
    \A a \in takenBack :
        (\E m \in received : m.kind = "turn" /\ m.id = a) =>
            \/ a \in saved.cancelled \cup told
            \/ saved.retry # 0 /\ a \in saved.turns[saved.retry].cancelled

\* While this process shows a turn as under way, its prompt is on its way, or
\* the agent can answer it, or its failure is: nobody waits for nothing.
WaitingIsJustified ==
    \A p \in Processes :
        LET q == saved.outstanding
            n == saved.turns[q].attempt
        IN  q # 0 /\ session[p].pending = q /\ Editable(p) =>
              \/ \E m \in prompts : m.kind = "turn" /\ m.id = q /\ m.attempt = n
              \/ [id |-> q, attempt |-> n, by |-> p] \in failures
              \/ /\ \E m \in received : m.kind = "turn" /\ m.id = q /\ m.attempt = n
                 /\ session[p].access = <<q, n>>

\* "Each prompt has its own MCP access, so an earlier recipient cannot answer a
\* Retry": the turn accepted answers the latest attempt.
LatestAttemptAnswered == ~stale

\* "A second front end that did not see it yet must not start another
\* implementation": whatever two front ends or two processes do to one
\* implementation request, the agent starts on it at most once.
ImplementedOnce ==
    \A m, n \in received :
        m.kind = "implementation" /\ n.kind = "implementation" /\ m.id = n.id
          /\ m.started /\ n.started => m = n

\* A turn the agent gave is taken out of the conversation only with the answer
\* it followed, and nothing changes a round that is history but the outcome of
\* a prompt already on its way.
HistoryIsKept ==
    [][/\ closed => closed' /\ saved'.conversation = saved.conversation
                    /\ saved'.answers = saved.answers
       /\ \A i \in DOMAIN saved.conversation :
            \/ saved.conversation[i] \in Range(saved'.conversation)
            \/ saved.conversation[i].answer \notin AnswerIds(saved')]_vars

\* The comment on admit: an implementation request is authorized unless another
\* request holds its conclusion, "one this process sends, or one the agent received".
NotImplementedTwice ==
    [][\A d \in Deliveries :
         saved'.implementations[d].attempt > saved.implementations[d].attempt =>
           ~ \E e \in Implementations(saved) \ {d} :
               /\ saved.implementations[e].conclusion = saved'.implementations[d].conclusion
               /\ saved.implementations[e].state = "Delivered"]_vars

-----------------------------------------------------------------------------
(* What the processes do together, told as the lives of the round's requests. *)

\* The requests, of turns and of implementations, without their attempts.
Sends == [kind : {"implementation"}, id : Deliveries]
Requests == [kind : {"turn"}, id : Ids] \cup Sends
RequestOf(m) == [kind |-> m.kind, id |-> m.id]

AttemptOf(r, q) ==
    IF q.kind = "turn" THEN r.turns[q.id].attempt ELSE r.implementations[q.id].attempt

Attempts == [q \in Requests |-> AttemptOf(saved, q)]
States == [q \in Requests |-> IF AttemptOf(saved, q) = 0 THEN "none" ELSE StateOf(saved, q)]
Gone == {q \in Requests : q.kind = "turn" /\ q.id <= made /\ AttemptOf(saved, q) = 0}
Sending == {<<RequestOf(m), m.attempt>> : m \in {n \in prompts : n.stage = "attempting"}}
Got == {[of |-> RequestOf(n), attempt |-> n.attempt, started |-> n.started] : n \in received}

Life == INSTANCE DispatchLife WITH
    Once <- Sends, attempt <- Attempts, state <- States, gone <- Gone,
    sending <- Sending, got <- Got

\* Whatever processes retry, cancel, reset and end, and however late an outcome comes
\* back: what the saved round says of its deliveries is what DispatchLife allows, and
\* the agent receives each attempt once at most.
ImplementsDispatchLife == Life!Spec
=============================================================================
