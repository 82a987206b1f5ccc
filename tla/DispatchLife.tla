---------------------------- MODULE DispatchLife ----------------------------
(***************************************************************************)
(* What the saved round promises of the delivery of its requests, without  *)
(* the processes, prompts and access values that bring it about: each      *)
(* attempt begins once, is on record before it begins and arrives at most  *)
(* once; a record that was Delivered did arrive, and the agent started on  *)
(* it; a record that was not sent or was cancelled did not; a request that *)
(* must not be done twice is attempted again only where the agent did not  *)
(* start on it; and a number taken back is used no more.  ExploreSession   *)
(* implements it, with any number of processes.                            *)
(***************************************************************************)
EXTENDS Naturals

CONSTANTS
    Requests,
    Once     \* those the agent must start on once at most

VARIABLES
    attempt, \* the latest attempt of each request; 0 without a record
    state,   \* DispatchState: what the record says of that attempt; "none" without one
    gone,    \* requests taken back, and numbers never asked
    sending, \* attempts that began and did not end yet
    got      \* what the agent received

vars == <<attempt, state, gone, sending, got>>

Init ==
    /\ attempt = [r \in Requests |-> 0]
    /\ state = [r \in Requests |-> "none"]
    /\ gone = {} /\ sending = {} /\ got = {}

\* DispatchState::may_retry: the agent did not start on the latest attempt.
MayRetry(r) == state[r] \in {"none", "Queued", "NotStarted", "NotSent", "Cancelled"}

\* A new attempt of the request, the first or another.
Ask(r) ==
    /\ r \notin gone
    /\ r \in Once => MayRetry(r)
    /\ attempt' = [attempt EXCEPT ![r] = @ + 1]
    /\ state' = [state EXCEPT ![r] = "Queued"]
    /\ UNCHANGED <<gone, sending, got>>

\* The latest attempt begins: on record first.
Begin(r) ==
    /\ state[r] = "Queued"
    /\ state' = [state EXCEPT ![r] = "Attempting"]
    /\ sending' = sending \cup {<<r, attempt[r]>>}
    /\ UNCHANGED <<attempt, gone, got>>

\* An attempt ends, superseded or not: it arrived, and the agent may have started
\* on it, or it did not arrive.
End(r, n) ==
    /\ <<r, n>> \in sending
    /\ sending' = sending \ {<<r, n>>}
    /\ \/ got' = got
       \/ \E started \in BOOLEAN :
            got' = got \cup {[of |-> r, attempt |-> n, started |-> started]}
    /\ UNCHANGED <<attempt, state, gone>>

\* What came of the latest attempt, as far as the agent's side shows it.
Arrived(r) == \E g \in got : g.of = r /\ g.attempt = attempt[r]
Started(r) == \E g \in got : g.of = r /\ g.attempt = attempt[r] /\ g.started

\* What the record may say of an attempt that ended, or will not begin.
MaySay(r) ==
    IF Started(r) THEN {"Delivered", "Unknown"}
    ELSE IF Arrived(r) THEN {"NotStarted", "Unknown"}
    ELSE {"NotStarted", "NotSent", "Cancelled", "Unknown"}

Record(r) ==
    /\ <<r, attempt[r]>> \notin sending
    /\ \E s \in MaySay(r) :
         /\ \/ state[r] = "Attempting"
            \/ state[r] = "Queued" /\ s \in {"NotSent", "Cancelled"}
         /\ state' = [state EXCEPT ![r] = s]
    /\ UNCHANGED <<attempt, gone, sending, got>>

\* A process ends with what it was sending: the record stays at Attempting.
Lose ==
    /\ sending' \subseteq sending
    /\ UNCHANGED <<attempt, state, gone, got>>

\* Requests go with the answers they carried.
TakeBack(back) ==
    /\ gone' = gone \cup back
    /\ attempt' = [r \in Requests |-> IF r \in back THEN 0 ELSE attempt[r]]
    /\ state' = [r \in Requests |-> IF r \in back THEN "none" ELSE state[r]]
    /\ UNCHANGED <<sending, got>>

Next ==
    \/ Lose
    \/ \E r \in Requests : Ask(r) \/ Begin(r) \/ Record(r)
    \/ \E r \in Requests, n \in {s[2] : s \in sending} : End(r, n)
    \/ \E back \in SUBSET (Requests \ Once) : TakeBack(back)

Spec == Init /\ [][Next]_vars
=============================================================================
