------------------------ MODULE ExploreSessionProofs ------------------------
(***************************************************************************)
(* The saved round of Explore, proved for any number of reviewer           *)
(* processes, requests, retries, answers and implementation requests.      *)
(*                                                                         *)
(* What a record must satisfy to be read again is kept by every operation  *)
(* on it (WellFormed).  A dispatch is one attempt of one request: the      *)
(* record says what became of the latest, and what the agent received of   *)
(* it bounds what the record may say (Dispatched).  The rest follows from  *)
(* these two, whatever the processes know of the round.                    *)
(*                                                                         *)
(* What a process shows is sound only of what it did itself, so a later    *)
(* part takes one process: its pending turn is the one on record, and what *)
(* the agent may answer is the latest attempt (OneProcess).                *)
(*                                                                         *)
(* The same invariant, with what the attempts on their way will report,    *)
(* maps every step of the processes to one of DispatchLife, or to none.    *)
(***************************************************************************)
EXTENDS ExploreSession, ExploreRoundProofs

-----------------------------------------------------------------------------
(* The invariants. *)

\* The record on disk, and how many numbers it has given away.
RoundInv == made \in 0 .. MaxIds /\ WellFormed(saved, made)

-----------------------------------------------------------------------------
(* Prompts. *)

\* What is dispatched: a turn of the round, or an implementation of its conclusion.
Kinds == {"turn", "implementation"}
\* A prompt, and what the agent received of one.
PromptRecords ==
    [kind : Kinds, id : Nat, attempt : Nat \ {0}, by : Processes,
     stage : {"queued", "attempting", "done"}, withdrawn : BOOLEAN, began : BOOLEAN,
     outcome : DispatchState \cup {"none"}]

\* What the agent received: the dispatches, whoever sent them.
Arrivals ==
    [kind : Kinds, id : Nat, attempt : Nat \ {0}, by : Processes, started : BOOLEAN]

\* A turn that its process still believes undelivered.
Failures == [id : Ids, attempt : Nat, by : Processes]

\* A prompt whose attempt was begun had its outcome from Herdr, or has none yet.
Staged(m) ==
    /\ m.stage = "queued" => ~m.began /\ m.outcome = "none"
    /\ m.stage = "attempting" => m.began /\ m.outcome = "none"
    /\ m.stage = "done" => m.outcome \in DispatchState
    /\ m.stage = "done" /\ ~m.began => m.outcome \in {"Cancelled", "NotSent"}

\* The prompts, what arrived of them and what failed.
PromptInv ==
    /\ prompts \subseteq PromptRecords /\ received \subseteq Arrivals
    /\ failures \subseteq Failures
    /\ \A m \in prompts : Staged(m)

\* No attempt was issued that the record does not know of, or did not take back.
IssuedBy(m, r, n) ==
    IF m.kind = "turn"
    THEN m.id \in Ids /\ m.id <= n
         /\ (m.id \in Turns(r) => m.attempt <= r.turns[m.id].attempt)
    ELSE m.id \in Deliveries /\ m.attempt <= r.implementations[m.id].attempt

\* It holds of every prompt, and of all that the agent received.
Issued == \A m \in prompts \cup received : IssuedBy(m, saved, made)

\* The same attempt of the same request.
Same(m, n) == m.kind = n.kind /\ m.id = n.id /\ m.attempt = n.attempt

\* An attempt is begun once, and recorded as attempted until it is finished.
BegunOnce ==
    /\ \A m, n \in prompts : m.began /\ n.began /\ Same(m, n) => m = n
    /\ \A m \in prompts : m.began =>
         /\ Current(saved, m) => StateOf(saved, m) = "Attempting"
         /\ m.kind = "implementation" => Current(saved, m)

\* What the agent received of the latest attempt, its outcome may not deny.
Undenied == {"Attempting", "Delivered", "NotStarted", "Unknown"}

\* Of what the agent received, the record never says that it was not sent.
ReceivedStands ==
    \A n \in received : Current(saved, n) =>
        /\ StateOf(saved, n) \in Undenied
        /\ \A m \in prompts : m.began /\ Same(m, n) =>
             m.stage = "done" /\ m.outcome \in Undenied

\* An implementation that the agent started on is not sent again.
StartedStands ==
    \A n \in received : n.kind = "implementation" /\ n.started =>
        /\ Current(saved, n)
        /\ StateOf(saved, n) \in Undenied \ {"NotStarted"}
        /\ \A m \in prompts : m.began /\ Same(m, n) =>
             m.stage = "done" /\ m.outcome \in Undenied \ {"NotStarted"}

\* The dispatches and what the record says of them.
Dispatched == PromptInv /\ Issued /\ BegunOnce /\ ReceivedStands /\ StartedStands

-----------------------------------------------------------------------------
(* The reviewer's processes. *)

\* What a process keeps of the round besides the record.
Session == [shown : BOOLEAN, historical : BOOLEAN, error : BOOLEAN,
            pending : {0} \cup Ids, access : {<<>>} \cup (Ids \X Nat),
            sending : {0} \cup Deliveries]
Sessions == [Processes -> Session]
Checks == [Processes -> [answer : {0} \cup Ids, latest : BOOLEAN, gone : SUBSET Ids]]

\* Nothing was closed or shown before there was a round.
SessionInv ==
    /\ closed \in BOOLEAN /\ session \in Sessions /\ checked \in Checks
    /\ takenBack \subseteq Ids /\ told \subseteq Ids /\ stale \in BOOLEAN
    /\ \A a \in takenBack : a <= made
    /\ made = 0 => ~closed /\ \A p \in Processes : ~session[p].shown

\* The answers cancelled were told to the agent, or go to it with the next request.
Untold == IF saved.retry = 0 THEN {} ELSE saved.turns[saved.retry].cancelled

\* Answers taken back are on record as such until the agent is told of them.
ToldInv == takenBack \subseteq saved.cancelled \cup told \cup Untold

\* The inductive invariant, whatever the number of processes.
ExploreInv == RoundInv /\ Dispatched /\ SessionInv /\ ToldInv /\ ImplementedOnce

\* Of a workspace with one process: its access value is that of the latest attempt.
AccessIsLatest ==
    \A p \in Processes :
        session[p].access # <<>> /\ saved.outstanding = session[p].access[1] =>
            session[p].access[2] = saved.turns[saved.outstanding].attempt

\* The attempt that the round waits for is on its way, or it arrived, or its failure is
\* on its way to process p.
Evidenced(p) ==
    LET q == saved.outstanding
        n == saved.turns[q].attempt
    IN  \/ closed \/ [id |-> q, attempt |-> n, by |-> p] \in failures
        \/ \E m \in prompts : m.kind = "turn" /\ m.id = q /\ m.attempt = n
        \/ \E m \in received : m.kind = "turn" /\ m.id = q /\ m.attempt = n

\* What it shows as under way is so, with the access value in force.
UnderWay ==
    /\ \A m \in prompts : m.kind = "turn" /\ m.stage = "done" /\ m.outcome = "Delivered" =>
         \E n \in received : Same(m, n)
    /\ \A p \in Processes : session[p].pending # 0 => session[p].shown
    /\ \A p \in Processes :
         LET q == saved.outstanding
         IN  q # 0 /\ session[p].pending = q =>
               session[p].access = <<q, saved.turns[q].attempt>> /\ Evidenced(p)

\* What holds besides when only one process works on the round.
OneProcess == AccessIsLatest /\ UnderWay /\ LatestAttemptAnswered

-----------------------------------------------------------------------------
(* Prompts that go on while the round changes. *)

\* A prompt that is the same but for being withdrawn.
Follows(m, o) ==
    Same(m, o) /\ m.began = o.began /\ m.stage = o.stage /\ m.outcome = o.outcome

\* The prompts in S all go back to prompts there are.
FollowOn(S) ==
    /\ \A m \in S : m \in PromptRecords /\ Staged(m) /\ \E o \in prompts : Follows(m, o)
    /\ \A m, n \in S : m.began /\ n.began /\ Same(m, n) => m = n

\* The record says the same of a dispatch as it did, or takes it for superseded; an
\* implementation that the agent may have started on is never superseded.
StillStands(m) ==
    /\ IssuedBy(m, saved', made')
    /\ Current(saved', m) => Current(saved, m) /\ StateOf(saved', m) = StateOf(saved, m)
    /\ m.kind = "implementation" /\ Current(saved, m)
         /\ StateOf(saved, m) \in Undenied \ {"NotStarted"} => Current(saved', m)

\* Prompts that are dropped leave the others as they were.
LEMMA SomeFollow ==
    ASSUME Dispatched, NEW S \in SUBSET prompts
    PROVE  FollowOn(S)
BY DEF Dispatched, PromptInv, BegunOnce, FollowOn, Follows, Same

\* Withdrawing prompts that have not begun only takes from them.
LEMMA WithdrawnFollow ==
    ASSUME Dispatched, NEW p, NEW kinds
    PROVE  FollowOn(Withdrawn(p, kinds))
<1> DEFINE off(m) == IF m.by = p /\ m.kind \in kinds
                     THEN [m EXCEPT !.withdrawn = TRUE] ELSE m
<1>1. ASSUME NEW m \in prompts
      PROVE  off(m) \in PromptRecords /\ Staged(off(m)) /\ Follows(off(m), m)
  <2>1. m \in PromptRecords /\ Staged(m)
    BY DEF Dispatched, PromptInv
  <2>2. TRUE \in BOOLEAN
    OBVIOUS
  <2>3. [m EXCEPT !.withdrawn = TRUE] \in PromptRecords
    BY <2>1, <2>2 DEF PromptRecords
  <2>4. Follows([m EXCEPT !.withdrawn = TRUE], m) /\ Follows(m, m)
    BY <2>1 DEF PromptRecords, Follows, Same
  <2>5. Staged([m EXCEPT !.withdrawn = TRUE])
    BY <2>1, <2>4 DEF Staged, Follows
  <2> QED
    BY <2>1, <2>3, <2>4, <2>5
<1>2. Withdrawn(p, kinds) = {off(m) : m \in prompts}
  BY DEF Withdrawn
<1> HIDE DEF off
<1>3. ASSUME NEW m \in prompts, NEW n \in prompts,
             off(m).began, off(n).began, Same(off(m), off(n))
      PROVE  off(m) = off(n)
  BY <1>1, <1>3 DEF Dispatched, BegunOnce, Follows, Same
<1> QED
  BY <1>1, <1>2, <1>3 DEF FollowOn

\* New prompts, and those there were, keep to what the record says.
LEMMA GoesOn ==
    ASSUME Dispatched, NEW S, FollowOn(S), NEW N \in SUBSET PromptRecords,
           \A m \in N : Staged(m) /\ ~m.began /\ IssuedBy(m, saved', made'),
           prompts' = S \cup N, received' = received, failures' \in SUBSET Failures,
           \A m \in prompts \cup received : StillStands(m)
    PROVE  Dispatched'
<1>1. ASSUME NEW m, NEW o, Same(m, o)
      PROVE  /\ Current(saved, m) <=> Current(saved, o)
             /\ Current(saved', m) <=> Current(saved', o)
             /\ StateOf(saved', m) = StateOf(saved', o)
             /\ IssuedBy(m, saved', made') <=> IssuedBy(o, saved', made')
  BY <1>1 DEF Same, Current, StateOf, IssuedBy
<1>2. PromptInv'
  BY DEF Dispatched, PromptInv, FollowOn, Staged
<1>3. Issued'
  <2>1. \A m \in S : IssuedBy(m, saved', made')
    BY <1>1 DEF FollowOn, Follows, StillStands
  <2> QED
    BY <2>1 DEF Issued, StillStands
<1>4. \A m \in prompts' : m.began => m \in S
  OBVIOUS
<1>5. BegunOnce'
  <2>1. \A m, n \in prompts' : m.began /\ n.began /\ Same(m, n) => m = n
    BY <1>4 DEF FollowOn
  <2>2. ASSUME NEW m \in prompts', m.began
        PROVE  /\ Current(saved', m) => StateOf(saved', m) = "Attempting"
               /\ m.kind = "implementation" => Current(saved', m)
    <3>1. PICK o \in prompts : Same(m, o) /\ o.began
      BY <1>4, <2>2 DEF FollowOn, Follows
    <3>2. /\ Current(saved, o) => StateOf(saved, o) = "Attempting"
          /\ o.kind = "implementation" => Current(saved, o)
      BY <3>1 DEF Dispatched, BegunOnce
    <3>3. StillStands(o)
      OBVIOUS
    <3>4. m.kind = o.kind
      BY <3>1 DEF Same
    <3> QED
      BY <1>1, <3>1, <3>2, <3>3, <3>4 DEF StillStands, Undenied
  <2> QED
    BY <2>1, <2>2 DEF BegunOnce, Same
<1>6. ReceivedStands'
  <2> SUFFICES ASSUME NEW n \in received, Current(saved', n)
               PROVE  /\ StateOf(saved', n) \in Undenied
                      /\ \A m \in prompts' : m.began /\ Same(m, n) =>
                           m.stage = "done" /\ m.outcome \in Undenied
    BY DEF ReceivedStands, Same, Current, StateOf
  <2>1. Current(saved, n) /\ StateOf(saved', n) = StateOf(saved, n)
    BY DEF StillStands
  <2>2. /\ StateOf(saved, n) \in Undenied
        /\ \A o \in prompts : o.began /\ Same(o, n) => o.stage = "done" /\ o.outcome \in Undenied
    BY <2>1 DEF Dispatched, ReceivedStands
  <2> QED
    BY <1>4, <2>1, <2>2 DEF FollowOn, Follows, Same
<1>7. StartedStands'
  <2> SUFFICES ASSUME NEW n \in received, n.kind = "implementation", n.started
               PROVE  /\ Current(saved', n)
                      /\ StateOf(saved', n) \in Undenied \ {"NotStarted"}
                      /\ \A m \in prompts' : m.began /\ Same(m, n) =>
                           m.stage = "done" /\ m.outcome \in Undenied \ {"NotStarted"}
    BY DEF StartedStands, Same, Current, StateOf
  <2>1. /\ Current(saved, n) /\ StateOf(saved, n) \in Undenied \ {"NotStarted"}
        /\ \A o \in prompts : o.began /\ Same(o, n) =>
             o.stage = "done" /\ o.outcome \in Undenied \ {"NotStarted"}
    BY DEF Dispatched, StartedStands
  <2>2. Current(saved', n) /\ StateOf(saved', n) = StateOf(saved, n)
    BY <2>1 DEF StillStands
  <2> QED
    BY <1>4, <2>1, <2>2 DEF FollowOn, Follows, Same
<1> QED
  BY <1>2, <1>3, <1>5, <1>6, <1>7 DEF Dispatched

\* A change that leaves the deliveries alone.
SameDispatches(r, s) ==
    /\ \A q \in Ids : s.turns[q].attempt = r.turns[q].attempt
                      /\ s.turns[q].state = r.turns[q].state
    /\ \A d \in Deliveries : s.implementations[d].attempt = r.implementations[d].attempt
                             /\ s.implementations[d].state = r.implementations[d].state

\* A record that says the same of every dispatch leaves them all standing.
LEMMA OthersStand ==
    ASSUME RoundInv, Dispatched, SameDispatches(saved, saved'), made' \in Nat, made <= made'
    PROVE  \A m \in prompts \cup received : StillStands(m)
<1> TAKE m \in prompts \cup received
<1>1. IssuedBy(m, saved, made) /\ made \in Nat
  BY DEF Dispatched, Issued, RoundInv
<1>2. m.kind = "turn" => m.id \in Ids /\ m.id \in Nat
  BY <1>1 DEF IssuedBy, Ids
<1>3. m.kind # "turn" => m.id \in Deliveries
  BY <1>1 DEF IssuedBy
<1>4. /\ Current(saved', m) <=> Current(saved, m)
      /\ StateOf(saved', m) = StateOf(saved, m)
  BY <1>2, <1>3 DEF SameDispatches, Current, StateOf
<1>5. IssuedBy(m, saved', made')
  BY <1>1, <1>2, <1>3 DEF SameDispatches, IssuedBy, Turns
<1> QED
  BY <1>4, <1>5 DEF StillStands

\* The same, with one prompt or none that is new.
LEMMA OneMore ==
    ASSUME Dispatched, NEW S, FollowOn(S), NEW m \in PromptRecords, Staged(m), ~m.began,
           IssuedBy(m, saved', made'),
           prompts' = S \cup {m}, received' = received, failures' \in SUBSET Failures,
           \A o \in prompts \cup received : StillStands(o)
    PROVE  Dispatched'
<1> DEFINE N == {m}
<1>1. N \in SUBSET PromptRecords /\ \A o \in N : Staged(o) /\ ~o.began /\ IssuedBy(o, saved', made')
  OBVIOUS
<1>2. prompts' = S \cup N
  OBVIOUS
<1> HIDE DEF N
<1> QED
  BY <1>1, <1>2, GoesOn

\* Dispatches that all stand, and no new one.
LEMMA NoMore ==
    ASSUME Dispatched, FollowOn(prompts'), received' = received,
           failures' \in SUBSET Failures, \A o \in prompts \cup received : StillStands(o)
    PROVE  Dispatched'
<1> DEFINE N == {}
           S == prompts'
<1>1. N \in SUBSET PromptRecords /\ \A o \in N : Staged(o) /\ ~o.began /\ IssuedBy(o, saved', made')
  OBVIOUS
<1>2. prompts' = S \cup N /\ FollowOn(S)
  OBVIOUS
<1> HIDE DEF N, S
<1> QED
  BY <1>1, <1>2, GoesOn

\* A prompt that the dispatcher has not begun with.
LEMMA PromptFields ==
    ASSUME NEW p \in Processes, NEW kind \in Kinds, NEW id \in Nat, NEW attempt \in Nat \ {0}
    PROVE  LET m == Prompt(p, kind, id, attempt)
           IN  /\ m \in PromptRecords /\ Staged(m) /\ ~m.began
               /\ m.kind = kind /\ m.id = id /\ m.attempt = attempt
<1> DEFINE m == Prompt(p, kind, id, attempt)
<1>1. FALSE \in BOOLEAN
  OBVIOUS
<1>2. m \in PromptRecords
  BY <1>1 DEF Prompt, PromptRecords
<1>3. /\ m.kind = kind /\ m.id = id /\ m.attempt = attempt /\ ~m.began
      /\ m.stage = "queued" /\ m.outcome = "none"
  BY DEF Prompt
<1> HIDE DEF m
<1> QED
  BY <1>2, <1>3 DEF m, Staged

\* A new attempt to deliver a turn, of a new request or of the same again.
LEMMA NewTurnStands ==
    ASSUME RoundInv, Dispatched, NEW q \in Ids, NEW p \in Processes,
           made' \in Nat, made <= made', q <= made',
           \A o \in Ids \ {q} : saved'.turns[o].attempt = saved.turns[o].attempt
                                /\ saved'.turns[o].state = saved.turns[o].state,
           \A d \in Deliveries :
               saved'.implementations[d].attempt = saved.implementations[d].attempt
               /\ saved'.implementations[d].state = saved.implementations[d].state,
           \/ made < q /\ saved'.turns[q].attempt = 1
           \/ q \in Turns(saved) /\ saved'.turns[q].attempt = saved.turns[q].attempt + 1
    PROVE  LET m == Prompt(p, "turn", q, saved'.turns[q].attempt)
           IN  /\ \A o \in prompts \cup received : StillStands(o)
               /\ m \in PromptRecords /\ Staged(m) /\ ~m.began
               /\ IssuedBy(m, saved', made')
<1> DEFINE a == saved'.turns[q].attempt
           m == Prompt(p, "turn", q, a)
<1>1. saved \in Round /\ made \in Nat
  BY RoundAssumption DEF RoundInv, WellFormed
<1>2. saved.turns[q].attempt \in Nat /\ a \in Nat \ {0} /\ q \in Nat
  BY <1>1, RecordTypes
<1>3. ASSUME NEW o \in prompts \cup received
      PROVE  StillStands(o)
  <2>1. IssuedBy(o, saved, made)
    BY DEF Dispatched, Issued
  <2>2. o.attempt \in Nat
    BY DEF Dispatched, PromptInv, PromptRecords, Arrivals
  <2>3. CASE o.kind = "turn" /\ o.id = q
    <3>1. q <= made /\ q \in Turns(saved)
      BY <1>1, <1>2, <2>1, <2>3 DEF IssuedBy
    <3>2. o.attempt <= saved.turns[q].attempt /\ a = saved.turns[q].attempt + 1
      BY <1>1, <1>2, <2>1, <2>3, <3>1 DEF IssuedBy
    <3>3. o.attempt <= a /\ o.attempt # a
      BY <1>2, <2>2, <3>2
    <3> HIDE DEF a
    <3>4. IssuedBy(o, saved', made') /\ ~Current(saved', o)
      BY <2>3, <3>3 DEF IssuedBy, Current, a
    <3> QED
      BY <2>3, <3>4 DEF StillStands
  <2>4. CASE o.kind = "turn" /\ o.id # q
    <3>1. o.id \in Ids /\ o.id <= made /\ o.id \in Nat
      BY <2>1, <2>4 DEF IssuedBy, Ids
    <3>2. o.id \in Ids \ {q} /\ o.id <= made'
      BY <1>1, <2>4, <3>1
    <3> QED
      BY <2>1, <2>4, <3>2 DEF IssuedBy, Turns, Current, StateOf, StillStands
  <2>5. CASE o.kind # "turn"
    BY <2>1, <2>5 DEF IssuedBy, Current, StateOf, StillStands
  <2> QED
    BY <2>3, <2>4, <2>5
<1>4. m \in PromptRecords /\ Staged(m) /\ ~m.began
      /\ m.kind = "turn" /\ m.id = q /\ m.attempt = a
  <2>1. "turn" \in Kinds
    BY DEF Kinds
  <2> QED
    BY <1>2, <2>1, PromptFields DEF a
<1> HIDE DEF m
<1>5. IssuedBy(m, saved', made')
  BY <1>2, <1>4 DEF IssuedBy, a
<1> QED
  BY <1>3, <1>4, <1>5 DEF m, a

\* An attempt to deliver an implementation request that is not one under way.
LEMMA NewSendStands ==
    ASSUME RoundInv, Dispatched, NEW d \in Deliveries, NEW p \in Processes, made' = made,
           MayAuthorize(saved, d), saved' = Authorize(saved, d)
    PROVE  LET m == Prompt(p, "implementation", d, saved'.implementations[d].attempt)
           IN  /\ \A o \in prompts \cup received : StillStands(o)
               /\ m \in PromptRecords /\ Staged(m) /\ ~m.began
               /\ IssuedBy(m, saved', made')
<1> DEFINE a == saved'.implementations[d].attempt
           m == Prompt(p, "implementation", d, a)
<1>1. saved \in Round /\ WellFormed(saved, made)
  BY DEF RoundInv, WellFormed
<1>2. saved.implementations[d].attempt \in Nat /\ d \in Nat
  BY <1>1, RecordTypes
<1>3. /\ saved'.turns = saved.turns /\ a = saved.implementations[d].attempt + 1
      /\ \A e \in Deliveries \ {d} : saved'.implementations[e] = saved.implementations[e]
  BY <1>1, AuthorizeIsWellFormed
<1> HIDE DEF a
<1>4. ASSUME NEW o \in prompts \cup received
      PROVE  StillStands(o)
  <2>1. IssuedBy(o, saved, made)
    BY DEF Dispatched, Issued
  <2>2. o.attempt \in Nat \ {0}
    BY DEF Dispatched, PromptInv, PromptRecords, Arrivals
  <2>3. CASE o.kind # "turn" /\ o.id = d
    <3>1. o.attempt <= saved.implementations[d].attempt
      BY <2>1, <2>3 DEF IssuedBy
    <3>2. o.attempt <= a /\ o.attempt # a /\ saved.implementations[d].attempt # 0
      BY <1>2, <1>3, <2>2, <3>1
    <3>3. StateOf(saved, o) \notin Undenied \ {"NotStarted"}
      BY <2>3, <3>2 DEF MayAuthorize, Implementations, StateOf, Undenied
    <3>4. IssuedBy(o, saved', made') /\ ~Current(saved', o)
      BY <2>3, <3>2 DEF IssuedBy, Current, a
    <3> QED
      BY <3>3, <3>4 DEF StillStands
  <2>4. CASE o.kind # "turn" /\ o.id # d
    <3>1. o.id \in Deliveries \ {d}
      BY <2>1, <2>4 DEF IssuedBy
    <3> QED
      BY <1>3, <2>1, <2>4, <3>1 DEF IssuedBy, Current, StateOf, StillStands
  <2>5. CASE o.kind = "turn"
    BY <1>3, <2>1, <2>5 DEF IssuedBy, Turns, Current, StateOf, StillStands
  <2> QED
    BY <2>3, <2>4, <2>5
<1>5. m \in PromptRecords /\ Staged(m) /\ ~m.began
      /\ m.kind = "implementation" /\ m.id = d /\ m.attempt = a
  <2>1. "implementation" \in Kinds
    BY DEF Kinds
  <2>2. a \in Nat \ {0} /\ d \in Nat
    BY <1>2, <1>3 DEF Deliveries
  <2> QED
    BY <2>1, <2>2, PromptFields
<1>6. a <= a
  BY <1>2, <1>3
<1> HIDE DEF m
<1>7. IssuedBy(m, saved', made')
  BY <1>5, <1>6 DEF IssuedBy, a
<1> QED
  BY <1>4, <1>5, <1>7 DEF m, a

\* Deliveries that go with their answers.
LEMMA CancelledStand ==
    ASSUME RoundInv, Dispatched, made' = made, NEW a,
           MayCancelFrom(saved, a), saved' = CancelAnswersFrom(saved, a)
    PROVE  \A o \in prompts \cup received : StillStands(o)
<1> DEFINE gone == AnswersFrom(saved, a)
<1>1. WellFormed(saved, made)
  BY DEF RoundInv
<1>2. /\ Turns(saved') = Turns(saved) \ gone
      /\ \A q \in Ids : saved'.turns[q] = IF q \in gone THEN NoTurn ELSE saved.turns[q]
      /\ saved'.implementations = saved.implementations
  BY <1>1, CancelFields, CancelIsWellFormed
<1> HIDE DEF gone
<1> TAKE o \in prompts \cup received
<1>3. IssuedBy(o, saved, made) /\ o.attempt \in Nat \ {0}
  BY DEF Dispatched, Issued, PromptInv, PromptRecords, Arrivals
<1>4. CASE o.kind = "turn"
  <2>1. o.id \in Ids
    BY <1>3, <1>4 DEF IssuedBy
  <2>2. NoTurn.attempt = 0
    BY DEF NoTurn
  <2>3. CASE o.id \in gone
    BY <1>2, <1>3, <1>4, <2>1, <2>2, <2>3 DEF IssuedBy, Current, StillStands
  <2>4. CASE o.id \notin gone
    BY <1>2, <1>3, <1>4, <2>1, <2>4 DEF IssuedBy, Current, StateOf, StillStands
  <2> QED
    BY <2>3, <2>4
<1>5. CASE o.kind # "turn"
  BY <1>2, <1>3, <1>5 DEF IssuedBy, Current, StateOf, StillStands
<1> QED
  BY <1>4, <1>5

-----------------------------------------------------------------------------
(* The prompt dispatcher and the courier. *)

\* What a prompt, and what arrived of one, is the dispatch of.
LEMMA DispatchTypes ==
    ASSUME Dispatched, NEW m \in prompts \cup received
    PROVE  /\ m.kind \in Kinds /\ m.attempt \in Nat \ {0} /\ m.id \in Nat
           /\ m.kind = "turn" => m.id \in Ids
           /\ m.kind # "turn" => m.id \in Deliveries
<1>1. IssuedBy(m, saved, made)
  BY DEF Dispatched, Issued
<1>2. m.kind \in Kinds /\ m.attempt \in Nat \ {0} /\ m.id \in Nat
  BY DEF Dispatched, PromptInv, PromptRecords, Arrivals
<1> QED
  BY <1>1, <1>2 DEF IssuedBy

\* What is recorded of one dispatch is recorded of no other.
LEMMA OnlyOnRecord ==
    ASSUME RoundInv, Dispatched, NEW m \in prompts, NEW state \in DispatchState,
           Current(saved, m), saved' = WithState(saved, m, state), made' = made
    PROVE  /\ \A o \in prompts \cup received :
                /\ IssuedBy(o, saved', made') /\ (Current(saved', o) <=> Current(saved, o))
                /\ Current(saved, o) =>
                     StateOf(saved', o) = IF Same(o, m) THEN state ELSE StateOf(saved, o)
           /\ RoundInv'
<1>1. m.kind = "turn" => m.id \in Ids
  BY DispatchTypes
<1>2. m.kind # "turn" => m.id \in Deliveries
  BY DispatchTypes
<1>3. WellFormed(saved, made)
  BY DEF RoundInv
<1>4. WellFormed(saved', made')
  BY <1>1, <1>2, <1>3, StateIsWellFormed
<1>5. RoundInv'
  BY <1>4 DEF RoundInv
<1>6. /\ \A q \in Ids :
           /\ saved'.turns[q].attempt = saved.turns[q].attempt
           /\ saved'.turns[q].state = IF m.kind = "turn" /\ q = m.id
                                      THEN state ELSE saved.turns[q].state
      /\ \A d \in Deliveries :
           /\ saved'.implementations[d].attempt = saved.implementations[d].attempt
           /\ saved'.implementations[d].state =
                IF m.kind # "turn" /\ d = m.id THEN state ELSE saved.implementations[d].state
  BY <1>1, <1>2, <1>3, StateIsWellFormed
<1>7. ASSUME NEW o \in prompts \cup received
      PROVE  /\ IssuedBy(o, saved', made') /\ (Current(saved', o) <=> Current(saved, o))
             /\ Current(saved, o) =>
                  StateOf(saved', o) = IF Same(o, m) THEN state ELSE StateOf(saved, o)
  <2>1. IssuedBy(o, saved, made)
    BY DEF Dispatched, Issued
  <2>2. CASE o.kind = "turn"
    <3>1. o.id \in Ids
      BY <2>2, DispatchTypes
    <3>2. IssuedBy(o, saved', made') /\ (Current(saved', o) <=> Current(saved, o))
      BY <1>6, <2>1, <2>2, <3>1 DEF IssuedBy, Turns, Current
    <3>3. Current(saved, o) => (Same(o, m) <=> m.kind = "turn" /\ o.id = m.id)
      BY <2>2 DEF Same, Current
    <3> QED
      BY <1>6, <2>2, <3>1, <3>2, <3>3 DEF StateOf
  <2>3. CASE o.kind # "turn"
    <3>1. o.id \in Deliveries /\ o.kind = "implementation"
      BY <2>3, DispatchTypes DEF Kinds
    <3>2. IssuedBy(o, saved', made') /\ (Current(saved', o) <=> Current(saved, o))
      BY <1>6, <2>1, <2>3, <3>1 DEF IssuedBy, Current
    <3>3. m.kind \in Kinds
      BY DispatchTypes
    <3>4. Current(saved, o) => (Same(o, m) <=> m.kind # "turn" /\ o.id = m.id)
      BY <2>3, <3>1, <3>3 DEF Same, Current, Kinds
    <3> QED
      BY <1>6, <2>3, <3>1, <3>2, <3>4 DEF StateOf
  <2> QED
    BY <2>2, <2>3
<1> QED
  BY <1>5, <1>7

\* A prompt at a later stage.
LEMMA EndsFields ==
    ASSUME NEW m \in PromptRecords, NEW outcome \in DispatchState
    PROVE  /\ Ends(m, outcome) \in PromptRecords /\ Same(Ends(m, outcome), m)
           /\ Ends(m, outcome).stage = "done" /\ Ends(m, outcome).outcome = outcome
           /\ Ends(m, outcome).began = m.began /\ Ends(m, outcome).by = m.by
<1>1. [m EXCEPT !.stage = "done"] \in PromptRecords
  BY DEF PromptRecords
<1>2. Ends(m, outcome) \in PromptRecords
  BY <1>1 DEF PromptRecords, Ends
<1> QED
  BY <1>2 DEF PromptRecords, Ends, Same

\* A prompt that begins is the same dispatch.
LEMMA BegunFields ==
    ASSUME NEW m \in PromptRecords
    PROVE  LET n == [m EXCEPT !.stage = "attempting", !.began = TRUE]
           IN  /\ n \in PromptRecords /\ Same(n, m) /\ n.stage = "attempting"
               /\ n.began /\ n.outcome = m.outcome /\ n.by = m.by
<1> DEFINE n == [m EXCEPT !.stage = "attempting", !.began = TRUE]
<1>1. TRUE \in BOOLEAN
  OBVIOUS
<1>2. [m EXCEPT !.stage = "attempting"] \in PromptRecords
  BY DEF PromptRecords
<1>3. n \in PromptRecords
  BY <1>1, <1>2 DEF PromptRecords
<1>4. Same(n, m) /\ n.stage = "attempting" /\ n.began /\ n.outcome = m.outcome /\ n.by = m.by
  BY DEF PromptRecords, Same
<1> HIDE DEF n
<1> QED
  BY <1>3, <1>4 DEF n

\* Before it sends, a process records that it attempts the dispatch.
LEMMA BeginDispatched ==
    ASSUME RoundInv, Dispatched, NEW m \in prompts, Begin(m)
    PROVE  RoundInv' /\ Dispatched'
<1>1. /\ made' = made /\ received' = received /\ failures' = failures
      /\ m.stage = "queued"
  BY DEF Begin, history
<1>2. m \in PromptRecords /\ Staged(m) /\ ~m.began /\ m.outcome = "none"
      /\ IssuedBy(m, saved, made) /\ failures \in SUBSET Failures
  BY <1>1 DEF Dispatched, PromptInv, Issued, Staged
<1> DEFINE S == prompts \ {m}
<1>3. FollowOn(S)
  BY SomeFollow
<1>4. CASE \E outcome \in {"Cancelled", "NotSent"} :
             prompts' = S \cup {Ends(m, outcome)} /\ saved' = saved
  <2>1. PICK outcome \in {"Cancelled", "NotSent"} : prompts' = S \cup {Ends(m, outcome)}
    BY <1>4
  <2> DEFINE n == Ends(m, outcome)
  <2>2. outcome \in DispatchState
    BY DEF DispatchState
  <2>3. n \in PromptRecords /\ Same(n, m) /\ n.stage = "done" /\ n.outcome = outcome
        /\ n.began = m.began
    BY <1>2, <2>2, EndsFields
  <2> HIDE DEF n
  <2>4. Staged(n) /\ IssuedBy(n, saved', made')
    BY <1>1, <1>2, <1>4, <2>2, <2>3 DEF Staged, Same, IssuedBy
  <2>5. SameDispatches(saved, saved')
    BY <1>4 DEF SameDispatches
  <2>6. made' \in Nat /\ made <= made'
    BY <1>1, RoundAssumption DEF RoundInv
  <2>7. \A o \in prompts \cup received : StillStands(o)
    BY <2>5, <2>6, OthersStand
  <2>8. Dispatched'
    <3>1. prompts' = S \cup {n} /\ ~n.began /\ failures' \in SUBSET Failures
      BY <1>1, <1>2, <2>1, <2>3 DEF n
    <3> HIDE DEF S
    <3> QED
      BY <1>1, <1>3, <2>3, <2>4, <2>7, <3>1, OneMore
  <2>9. RoundInv'
    BY <1>1, <1>4 DEF RoundInv
  <2> QED
    BY <2>8, <2>9
<1>5. CASE /\ MayBegin(saved, m) /\ saved' = BeginDispatch(saved, m)
           /\ prompts' = S \cup {[m EXCEPT !.stage = "attempting", !.began = TRUE]}
  <2> DEFINE n == [m EXCEPT !.stage = "attempting", !.began = TRUE]
  <2>1. Current(saved, m) /\ StateOf(saved, m) = "Queued"
    BY <1>5 DEF MayBegin
  <2>2. saved' = WithState(saved, m, "Attempting") /\ "Attempting" \in DispatchState
    BY <1>5 DEF BeginDispatch, DispatchState
  <2>3. /\ \A o \in prompts \cup received :
             /\ IssuedBy(o, saved', made') /\ (Current(saved', o) <=> Current(saved, o))
             /\ Current(saved, o) =>
                  StateOf(saved', o) = IF Same(o, m) THEN "Attempting" ELSE StateOf(saved, o)
        /\ RoundInv'
    BY <1>1, <2>1, <2>2, OnlyOnRecord
  <2>5. n \in PromptRecords /\ Same(n, m) /\ n.stage = "attempting"
        /\ n.began /\ n.outcome = "none"
    BY <1>2, BegunFields
  <2> HIDE DEF n
  <2>6. /\ Current(saved', n) <=> Current(saved', m)
        /\ StateOf(saved', n) = StateOf(saved', m) /\ n.kind = m.kind
        /\ (IssuedBy(n, saved', made') <=> IssuedBy(m, saved', made'))
    BY <2>5 DEF Same, Current, StateOf, IssuedBy
  <2>7. prompts' = S \cup {n}
    BY <1>5 DEF n
  <2>8. Same(m, m)
    BY DEF Same
  <2>9. \A o \in prompts : o.began => ~Same(o, m)
    BY <2>1 DEF Dispatched, BegunOnce, Same, Current, StateOf
  <2>10. \A o \in received : ~Same(o, m)
    BY <2>1 DEF Dispatched, ReceivedStands, Same, Current, StateOf, Undenied
  <2>11. PromptInv' /\ Issued'
    <3>1. Staged(n)
      BY <2>5 DEF Staged
    <3>2. PromptInv'
      BY <1>1, <2>5, <2>7, <3>1 DEF Dispatched, PromptInv, Staged
    <3>3. Issued'
      BY <1>1, <2>3, <2>6, <2>7 DEF Issued
    <3> QED
      BY <3>2, <3>3
  <2>12. BegunOnce'
    <3>1. \A o, k \in prompts' : o.began /\ k.began /\ Same(o, k) => o = k
      BY <2>5, <2>7, <2>9 DEF Dispatched, BegunOnce, Same
    <3>2. \A o \in prompts' : o.began =>
            /\ Current(saved', o) => StateOf(saved', o) = "Attempting"
            /\ o.kind = "implementation" => Current(saved', o)
      BY <2>1, <2>3, <2>6, <2>7, <2>8, <2>9 DEF Dispatched, BegunOnce
    <3> QED
      BY <3>1, <3>2 DEF BegunOnce, Same
  <2>13. ReceivedStands'
    <3> SUFFICES ASSUME NEW k \in received, Current(saved', k)
                 PROVE  /\ StateOf(saved', k) \in Undenied
                        /\ \A o \in prompts' : o.began /\ Same(o, k) =>
                             o.stage = "done" /\ o.outcome \in Undenied
      BY <1>1 DEF ReceivedStands, Same, Current, StateOf
    <3>1. Current(saved, k) /\ StateOf(saved', k) = StateOf(saved, k)
      BY <2>3, <2>10
    <3>2. ~Same(n, k)
      BY <2>5, <2>10 DEF Same
    <3> QED
      BY <2>7, <3>1, <3>2 DEF Dispatched, ReceivedStands
  <2>14. StartedStands'
    <3> SUFFICES ASSUME NEW k \in received, k.kind = "implementation", k.started
                 PROVE  /\ Current(saved', k)
                        /\ StateOf(saved', k) \in Undenied \ {"NotStarted"}
                        /\ \A o \in prompts' : o.began /\ Same(o, k) =>
                             o.stage = "done" /\ o.outcome \in Undenied \ {"NotStarted"}
      BY <1>1 DEF StartedStands, Same, Current, StateOf
    <3>1. Current(saved, k)
      BY DEF Dispatched, StartedStands
    <3>2. Current(saved', k) /\ StateOf(saved', k) = StateOf(saved, k)
      BY <2>3, <2>10, <3>1
    <3>3. ~Same(n, k)
      BY <2>5, <2>10 DEF Same
    <3> QED
      BY <2>7, <3>2, <3>3 DEF Dispatched, StartedStands
  <2> QED
    BY <2>3, <2>11, <2>12, <2>13, <2>14 DEF Dispatched
<1> QED
  BY <1>4, <1>5 DEF Begin

\* What the agent received of an attempt arrives while it is recorded as attempted.
LEMMA SendDispatched ==
    ASSUME SessionAssumption, RoundInv, Dispatched, ImplementedOnce, NEW m \in prompts, Send(m)
    PROVE  Dispatched' /\ ImplementedOnce'
<1>1. /\ made' = made /\ saved' = saved /\ failures' = failures /\ m.stage = "attempting"
  BY DEF Send
<1> DEFINE S == prompts \ {m}
           k(outcome) == [kind |-> m.kind, id |-> m.id, attempt |-> m.attempt, by |-> m.by,
                          started |-> outcome # "NotStarted"]
<1>2. PICK outcome \in Outcomes \cup {"Cancelled"}, arrives \in BOOLEAN :
        /\ outcome = "Delivered" => arrives
        /\ outcome \in {"Cancelled", "NotSent"} => ~arrives
        /\ prompts' = S \cup {Ends(m, outcome)}
        /\ received' = IF arrives THEN received \cup {k(outcome)} ELSE received
  BY DEF Send
<1> DEFINE n == Ends(m, outcome)
           r == k(outcome)
<1>3. outcome \in DispatchState /\ (arrives => outcome \in Undenied)
  BY <1>2, SessionAssumption DEF DispatchState, Undenied
<1>4. m \in PromptRecords /\ Staged(m) /\ m.began /\ IssuedBy(m, saved, made)
  BY <1>1 DEF Dispatched, PromptInv, Issued, Staged
<1>5. n \in PromptRecords /\ Same(n, m) /\ n.stage = "done" /\ n.outcome = outcome /\ n.began
  <2>1. n \in PromptRecords /\ Same(n, m) /\ n.stage = "done" /\ n.outcome = outcome
        /\ n.began = m.began
    <3>1. outcome \in DispatchState
      BY <1>3
    <3>2. m \in PromptRecords
      BY <1>4
    <3> HIDE DEF r, k, S
    <3> QED
      BY <3>1, <3>2, EndsFields
  <2> HIDE DEF n
  <2> QED
    BY <1>4, <2>1
<1>6. r \in Arrivals /\ Same(r, m) /\ r.started = (outcome # "NotStarted")
      /\ r.kind = m.kind /\ r.id = m.id
  <2>1. (outcome # "NotStarted") \in BOOLEAN
    OBVIOUS
  <2>2. m.kind \in Kinds /\ m.id \in Nat /\ m.attempt \in Nat \ {0} /\ m.by \in Processes
    BY <1>4 DEF PromptRecords
  <2> DEFINE started == outcome # "NotStarted"
  <2> HIDE DEF started
  <2>3. [kind |-> m.kind, id |-> m.id, attempt |-> m.attempt, by |-> m.by,
         started |-> started] \in Arrivals
    BY <2>1, <2>2 DEF Arrivals, started
  <2> QED
    BY <2>3 DEF Same, started
<1> HIDE DEF n, r, k
<1>7. prompts' = S \cup {n} /\ received' \subseteq received \cup {r}
      /\ (~arrives => received' = received)
  BY <1>2 DEF n, r
<1>8. /\ Current(saved, m) => StateOf(saved, m) = "Attempting"
      /\ m.kind = "implementation" => Current(saved, m)
      /\ \A o \in S : o.began => ~Same(o, m)
  BY <1>4 DEF Dispatched, BegunOnce, Same
<1>9. ASSUME NEW o, Same(o, m)
      PROVE  /\ Current(saved, o) <=> Current(saved, m)
             /\ StateOf(saved, o) = StateOf(saved, m) /\ o.kind = m.kind
             /\ IssuedBy(o, saved, made) <=> IssuedBy(m, saved, made)
  BY <1>9 DEF Same, Current, StateOf, IssuedBy
<1>10. \A o \in received : Current(saved, o) => ~Same(o, m)
  BY <1>1, <1>4 DEF Dispatched, ReceivedStands, Same
<1>11. PromptInv' /\ Issued'
  <2>1. Staged(n)
    BY <1>3, <1>5 DEF Staged
  <2>2. PromptInv'
    BY <1>1, <1>5, <1>6, <1>7, <2>1 DEF Dispatched, PromptInv, Staged
  <2>3. Issued'
    BY <1>1, <1>4, <1>5, <1>6, <1>7, <1>9 DEF Dispatched, Issued
  <2> QED
    BY <2>2, <2>3
<1>12. BegunOnce'
  <2>1. \A o, l \in prompts' : o.began /\ l.began /\ Same(o, l) => o = l
    BY <1>5, <1>7, <1>8 DEF Dispatched, BegunOnce, Same
  <2>2. \A o \in prompts' : o.began =>
          /\ Current(saved, o) => StateOf(saved, o) = "Attempting"
          /\ o.kind = "implementation" => Current(saved, o)
    BY <1>5, <1>7, <1>8, <1>9 DEF Dispatched, BegunOnce
  <2> QED
    BY <1>1, <2>1, <2>2 DEF BegunOnce, Same
<1>13. ReceivedStands'
  <2> SUFFICES ASSUME NEW o \in received', Current(saved, o)
               PROVE  /\ StateOf(saved, o) \in Undenied
                      /\ \A l \in prompts' : l.began /\ Same(l, o) =>
                           l.stage = "done" /\ l.outcome \in Undenied
    BY <1>1 DEF ReceivedStands, Same, Current, StateOf
  <2>1. CASE o \in received
    <3>1. ~Same(n, o)
      BY <1>5, <1>10, <2>1 DEF Same
    <3> QED
      BY <1>7, <2>1, <3>1 DEF Dispatched, ReceivedStands
  <2>2. CASE o = r /\ arrives
    <3>1. StateOf(saved, o) \in Undenied
      BY <1>6, <1>8, <1>9, <2>2 DEF Undenied
    <3>2. \A l \in S : l.began => ~Same(l, o)
      BY <1>6, <1>8, <2>2 DEF Same
    <3> QED
      BY <1>3, <1>5, <1>7, <2>2, <3>1, <3>2
  <2> QED
    BY <1>7, <2>1, <2>2
<1>14. StartedStands'
  <2> SUFFICES ASSUME NEW o \in received', o.kind = "implementation", o.started
               PROVE  /\ Current(saved, o)
                      /\ StateOf(saved, o) \in Undenied \ {"NotStarted"}
                      /\ \A l \in prompts' : l.began /\ Same(l, o) =>
                           l.stage = "done" /\ l.outcome \in Undenied \ {"NotStarted"}
    BY <1>1 DEF StartedStands, Same, Current, StateOf
  <2>1. CASE o \in received
    <3>1. /\ Current(saved, o) /\ StateOf(saved, o) \in Undenied \ {"NotStarted"}
          /\ \A l \in prompts : l.began /\ Same(l, o) =>
               l.stage = "done" /\ l.outcome \in Undenied \ {"NotStarted"}
      BY <2>1 DEF Dispatched, StartedStands
    <3>2. ~Same(n, o)
      BY <1>5, <1>10, <2>1, <3>1 DEF Same
    <3> QED
      BY <1>7, <3>1, <3>2
  <2>2. CASE o = r /\ arrives
    <3>1. Current(saved, o) /\ StateOf(saved, o) = "Attempting" /\ outcome # "NotStarted"
      BY <1>6, <1>8, <1>9, <2>2
    <3>2. \A l \in S : l.began => ~Same(l, o)
      BY <1>6, <1>8, <2>2 DEF Same
    <3> QED
      BY <1>3, <1>5, <1>7, <2>2, <3>1, <3>2 DEF Undenied
  <2> QED
    BY <1>7, <2>1, <2>2
<1>15. ImplementedOnce'
  <2>1. ASSUME NEW o \in received, o.kind = "implementation", o.started,
               m.kind = "implementation"
        PROVE  o.id # m.id
    <3>1. Current(saved, o) /\ Current(saved, m)
      BY <1>8, <2>1 DEF Dispatched, StartedStands
    <3>2. o.id = m.id => Same(o, m)
      BY <2>1, <3>1 DEF Current, Same
    <3> QED
      BY <1>10, <3>1, <3>2
  <2>2. \A o \in received' : o \in received \/ o = r
    BY <1>7
  <2> QED
    BY <1>6, <2>1, <2>2 DEF ImplementedOnce
<1> QED
  BY <1>11, <1>12, <1>13, <1>14, <1>15 DEF Dispatched

\* The outcome of an attempt is recorded once, and never denies what arrived of it.
LEMMA FinishDispatched ==
    ASSUME RoundInv, Dispatched, NEW m \in prompts, Finish(m)
    PROVE  RoundInv' /\ Dispatched'
<1>1. /\ made' = made /\ received' = received /\ m.stage = "done"
      /\ prompts' = prompts \ {m} /\ saved' = FinishDispatch(saved, m, m.began, m.outcome)
  BY DEF Finish, history
<1>2. m \in PromptRecords /\ Staged(m) /\ IssuedBy(m, saved, made)
      /\ m.outcome \in DispatchState
      /\ (~m.began => m.outcome \in {"Cancelled", "NotSent"})
  BY <1>1 DEF Dispatched, PromptInv, Issued, Staged
<1>3. failures' \in SUBSET Failures
  <2>1. CASE m.kind = "turn"
    <3>1. m.id \in Ids /\ m.attempt \in Nat /\ m.by \in Processes
      BY <1>2, <2>1 DEF IssuedBy, PromptRecords
    <3>2. [id |-> m.id, attempt |-> m.attempt, by |-> m.by] \in Failures
      BY <3>1 DEF Failures
    <3> QED
      BY <3>2 DEF Finish, Dispatched, PromptInv
  <2>2. CASE m.kind # "turn"
    BY <2>2 DEF Finish, Dispatched, PromptInv
  <2> QED
    BY <2>1, <2>2
<1>4. FollowOn(prompts')
  BY <1>1, SomeFollow
<1>5. made \in Nat
  BY RoundAssumption DEF RoundInv
<1>6. CASE saved' = saved
  <2>1. SameDispatches(saved, saved') /\ made' \in Nat /\ made <= made'
    BY <1>1, <1>5, <1>6 DEF SameDispatches
  <2>2. \A o \in prompts \cup received : StillStands(o)
    BY <2>1, OthersStand
  <2>3. Dispatched'
    BY <1>1, <1>3, <1>4, <2>2, NoMore
  <2>4. RoundInv'
    BY <1>1, <1>6 DEF RoundInv
  <2> QED
    BY <2>3, <2>4
<1>7. CASE /\ Current(saved, m) /\ saved' = WithState(saved, m, m.outcome)
           /\ StateOf(saved, m) = IF m.began THEN "Attempting" ELSE "Queued"
  <2>1. /\ \A o \in prompts \cup received :
             /\ IssuedBy(o, saved', made') /\ (Current(saved', o) <=> Current(saved, o))
             /\ Current(saved, o) =>
                  StateOf(saved', o) = IF Same(o, m) THEN m.outcome ELSE StateOf(saved, o)
        /\ RoundInv'
    BY <1>1, <1>2, <1>7, OnlyOnRecord
  <2>2. \A o \in prompts' : o.began => ~Same(o, m)
    <3>1. CASE m.began
      BY <1>1, <3>1 DEF Dispatched, BegunOnce
    <3>2. CASE ~m.began
      BY <1>1, <1>7, <3>2 DEF Dispatched, BegunOnce, Same, Current, StateOf
    <3> QED
      BY <3>1, <3>2
  <2>3. \A o \in received : Same(o, m) => m.began /\ m.outcome \in Undenied
    <3> TAKE o \in received
    <3>1. Same(o, m) => Current(saved, o) /\ StateOf(saved, o) = StateOf(saved, m) /\ Same(m, o)
      BY <1>7 DEF Same, Current, StateOf
    <3> QED
      BY <1>7, <3>1 DEF Dispatched, ReceivedStands, Undenied
  <2>4. \A o \in received : Same(o, m) /\ o.kind = "implementation" /\ o.started =>
           m.outcome \in Undenied \ {"NotStarted"}
    <3> TAKE o \in received
    <3>1. Same(o, m) => Same(m, o)
      BY DEF Same
    <3> QED
      BY <2>3, <3>1 DEF Dispatched, StartedStands
  <2>5. PromptInv' /\ Issued'
    <3>1. PromptInv'
      BY <1>1, <1>3 DEF Dispatched, PromptInv, Staged
    <3>2. Issued'
      BY <1>1, <2>1 DEF Issued
    <3> QED
      BY <3>1, <3>2
  <2>6. BegunOnce'
    <3>1. \A o \in prompts' : o.began =>
            /\ Current(saved', o) => StateOf(saved', o) = "Attempting"
            /\ o.kind = "implementation" => Current(saved', o)
      BY <1>1, <2>1, <2>2 DEF Dispatched, BegunOnce
    <3> QED
      BY <1>1, <3>1 DEF Dispatched, BegunOnce, Same
  <2>7. ReceivedStands'
    <3> SUFFICES ASSUME NEW o \in received, Current(saved', o)
                 PROVE  /\ StateOf(saved', o) \in Undenied
                        /\ \A l \in prompts' : l.began /\ Same(l, o) =>
                             l.stage = "done" /\ l.outcome \in Undenied
      BY <1>1 DEF ReceivedStands, Same, Current, StateOf
    <3>1. Current(saved, o)
      BY <2>1
    <3> QED
      BY <1>1, <2>1, <2>3, <3>1 DEF Dispatched, ReceivedStands
  <2>8. StartedStands'
    <3> SUFFICES ASSUME NEW o \in received, o.kind = "implementation", o.started
                 PROVE  /\ Current(saved', o)
                        /\ StateOf(saved', o) \in Undenied \ {"NotStarted"}
                        /\ \A l \in prompts' : l.began /\ Same(l, o) =>
                             l.stage = "done" /\ l.outcome \in Undenied \ {"NotStarted"}
      BY <1>1 DEF StartedStands, Same, Current, StateOf
    <3>1. Current(saved, o)
      BY DEF Dispatched, StartedStands
    <3> QED
      BY <1>1, <2>1, <2>4, <3>1 DEF Dispatched, StartedStands
  <2> QED
    BY <2>1, <2>5, <2>6, <2>7, <2>8 DEF Dispatched
<1> QED
  BY <1>1, <1>6, <1>7 DEF FinishDispatch

-----------------------------------------------------------------------------
(* The reviewer's commands, the agent's calls and the other inputs. *)

\* No request was made before the round exists.
LEMMA NothingYet ==
    ASSUME RoundInv, Dispatched, made = 0
    PROVE  /\ prompts = {} /\ received = {}
           /\ saved.conversation = <<>> /\ saved.answers = <<>>
<1>1. saved \in Round /\ WellFormed(saved, 0)
  BY DEF RoundInv, WellFormed
<1>2. saved.conversation = <<>>
  <2>1. \A i \in DOMAIN saved.conversation : saved.conversation[i].request \in Nat \ {0}
    BY <1>1, ConversationTypes, RecordTypes
  <2>2. \A i \in DOMAIN saved.conversation : saved.conversation[i].request <= 0
    BY <1>1 DEF WellFormed, Numbered
  <2>3. DOMAIN saved.conversation = {}
    BY <2>1, <2>2
  <2> DEFINE c == saved.conversation
  <2>4. c \in Seq(ConversationTurn) /\ DOMAIN c = {}
    BY <1>1, <2>3, ConversationTypes
  <2> HIDE DEF c
  <2>5. c = <<>>
    BY <2>4
  <2> QED
    BY <2>5 DEF c
<1>3. saved.answers = <<>>
  <2>1. \A i \in DOMAIN saved.answers : saved.answers[i].id \in Nat \ {0}
    BY <1>1, AnswerTypes, RecordTypes
  <2>2. \A i \in DOMAIN saved.answers : saved.answers[i].id <= 0
    BY <1>1 DEF WellFormed, Numbered
  <2>3. DOMAIN saved.answers = {}
    BY <2>1, <2>2
  <2> DEFINE A == [id : Ids, in_reply_to : Ids]
  <2>4. saved.answers \in Seq(A)
    BY <1>1, AnswerTypes
  <2> HIDE DEF A
  <2> QED
    BY <2>3, <2>4
<1>4. \A d \in Deliveries : saved.implementations[d].attempt = 0
  BY <1>1, <1>2 DEF WellFormed, Concludes, Implementations
<1>5. \A m \in prompts \cup received : FALSE
  <2> TAKE m \in prompts \cup received
  <2>1. IssuedBy(m, saved, made) /\ m.attempt \in Nat \ {0}
    BY DispatchTypes DEF Dispatched, Issued
  <2>2. m.kind = "turn" => m.id \in Nat \ {0} /\ m.id <= 0
    BY <1>1, <2>1, RecordTypes DEF IssuedBy
  <2>3. m.kind # "turn" => m.attempt <= 0
    BY <1>4, <2>1 DEF IssuedBy
  <2> QED
    BY <2>1, <2>2, <2>3
<1> QED
  BY <1>2, <1>3, <1>5

\* A field of one session at a time.
LEMMA SessionFields ==
    ASSUME NEW s \in Sessions, NEW p \in Processes
    PROVE  /\ \A b \in BOOLEAN :
                /\ [s EXCEPT ![p].shown = b] \in Sessions
                /\ [s EXCEPT ![p].historical = b] \in Sessions
                /\ [s EXCEPT ![p].error = b] \in Sessions
           /\ \A q \in {0} \cup Ids : [s EXCEPT ![p].pending = q] \in Sessions
           /\ \A a \in {<<>>} \cup (Ids \X Nat) : [s EXCEPT ![p].access = a] \in Sessions
           /\ \A d \in {0} \cup Deliveries : [s EXCEPT ![p].sending = d] \in Sessions
<1>1. ASSUME NEW x \in Session
      PROVE  [s EXCEPT ![p] = x] \in Sessions
  BY DEF Sessions
<1>2. s[p] \in Session
  BY DEF Sessions
<1>3. \A b \in BOOLEAN : [s[p] EXCEPT !.shown = b] \in Session
  BY <1>2 DEF Session
<1>4. \A b \in BOOLEAN : [s[p] EXCEPT !.historical = b] \in Session
  BY <1>2 DEF Session
<1>5. \A b \in BOOLEAN : [s[p] EXCEPT !.error = b] \in Session
  BY <1>2 DEF Session
<1>6. \A q \in {0} \cup Ids : [s[p] EXCEPT !.pending = q] \in Session
  BY <1>2 DEF Session
<1>7. \A a \in {<<>>} \cup (Ids \X Nat) : [s[p] EXCEPT !.access = a] \in Session
  BY <1>2 DEF Session
<1>8. \A d \in {0} \cup Deliveries : [s[p] EXCEPT !.sending = d] \in Session
  BY <1>2 DEF Session
<1> QED
  BY <1>1, <1>3, <1>4, <1>5, <1>6, <1>7, <1>8

\* A session that shows the round, or none.
LEMMA BlankSession ==
    ASSUME NEW b \in BOOLEAN, NEW p \in Processes, NEW s \in Sessions
    PROVE  /\ [s EXCEPT ![p] = [Blank EXCEPT !.shown = b]] \in Sessions
           /\ [s EXCEPT ![p] = [Blank EXCEPT !.error = b]] \in Sessions
<1>1. Blank \in Session
  <2>1. FALSE \in BOOLEAN
    OBVIOUS
  <2> QED
    BY <2>1 DEF Blank, Session
<1>2. [Blank EXCEPT !.shown = b] \in Session /\ [Blank EXCEPT !.error = b] \in Session
  BY <1>1 DEF Session
<1> QED
  BY <1>2 DEF Sessions

\* A check that is done with.
LEMMA IdleIsChecked ==
    ASSUME checked \in Checks, NEW p \in Processes, checked' = [checked EXCEPT ![p] = Idle]
    PROVE  checked' \in Checks
<1>1. FALSE \in BOOLEAN
  OBVIOUS
<1>2. Idle \in [answer : {0} \cup Ids, latest : BOOLEAN, gone : SUBSET Ids]
  BY <1>1 DEF Idle
<1> QED
  BY <1>2 DEF Checks

\* The turn r has saved goes to the agent, or could not be prepared.
LEMMA TurnGoesOut ==
    ASSUME RoundInv, Dispatched, SessionInv, NEW r, NEW p \in Processes, NEW q \in Ids,
           DeliverTurn(p, r, q), WellFormed(r, made'), r.retry = q,
           made' \in Nat, made' <= MaxIds, made <= made', q <= made',
           \A o \in Ids \ {q} : r.turns[o].attempt = saved.turns[o].attempt
                                /\ r.turns[o].state = saved.turns[o].state,
           r.implementations = saved.implementations,
           \/ made < q /\ r.turns[q].attempt = 1
           \/ q \in Turns(saved) /\ r.turns[q].attempt = saved.turns[q].attempt + 1,
           received' = received, failures' = failures
    PROVE  /\ RoundInv' /\ Dispatched' /\ session' \in Sessions
           /\ saved'.cancelled = r.cancelled /\ saved'.retry = q /\ saved'.turns = r.turns
           /\ saved'.conversation = r.conversation /\ saved'.answers = r.answers
           /\ \A o \in Processes : session'[o].shown = session[o].shown
<1> DEFINE a == r.turns[q].attempt
<1>1. /\ WellFormed(saved', made') /\ saved'.cancelled = r.cancelled /\ saved'.retry = q
      /\ saved'.turns = r.turns /\ saved'.implementations = r.implementations
      /\ saved'.conversation = r.conversation /\ saved'.answers = r.answers
  <2>1. saved' = r \/ saved' = StopTurn(r)
    BY DEF DeliverTurn
  <2>2. CASE saved' = r
    BY <2>2
  <2>3. CASE saved' = StopTurn(r)
    BY <2>3, StoppedIsWellFormed
  <2> QED
    BY <2>1, <2>2, <2>3
<1>2. RoundInv'
  <2>1. made' \in 0 .. MaxIds
    BY RoundAssumption
  <2> QED
    BY <1>1, <2>1 DEF RoundInv
<1> DEFINE m == Prompt(p, "turn", q, saved'.turns[q].attempt)
<1>3. /\ \A o \in prompts \cup received : StillStands(o)
      /\ m \in PromptRecords /\ Staged(m) /\ ~m.began
      /\ IssuedBy(m, saved', made')
  BY <1>1, NewTurnStands
<1>4. FollowOn(WithdrawAll(p))
  BY WithdrawnFollow DEF WithdrawAll
<1>5. \/ prompts' = WithdrawAll(p) \cup {m}
      \/ prompts' = WithdrawAll(p)
  BY <1>1 DEF DeliverTurn
<1>6. failures' \in SUBSET Failures
  BY DEF Dispatched, PromptInv
<1> HIDE DEF m
<1>7. Dispatched'
  <2>1. CASE prompts' = WithdrawAll(p) \cup {m}
    <3> DEFINE S == WithdrawAll(p)
    <3>1. FollowOn(S) /\ prompts' = S \cup {m}
      BY <1>4, <2>1
    <3> HIDE DEF S
    <3> QED
      BY <1>3, <1>6, <3>1, OneMore
  <2>2. CASE prompts' = WithdrawAll(p)
    BY <1>3, <1>4, <1>6, <2>2, NoMore
  <2> QED
    BY <1>5, <2>1, <2>2
<1>8. session \in Sessions /\ a \in Nat
  <2>1. r \in Round
    BY DEF WellFormed
  <2> QED
    BY <2>1, RecordTypes DEF SessionInv
<1>9. <<q, a>> \in {<<>>} \cup (Ids \X Nat)
  BY <1>8
<1> HIDE DEF a
<1>10. ASSUME NEW access \in {<<>>} \cup (Ids \X Nat),
              session' = [session EXCEPT ![p].pending = q, ![p].sending = 0,
                                         ![p].access = access]
       PROVE  /\ session' \in Sessions
              /\ \A o \in Processes : session'[o].shown = session[o].shown
  <2> DEFINE s1 == [session EXCEPT ![p].pending = q]
             s2 == [s1 EXCEPT ![p].sending = 0]
  <2>1. s1 \in Sessions
    BY <1>8, SessionFields
  <2>2. \A o \in Processes : s1[o].shown = session[o].shown
    BY <1>8 DEF Sessions, Session
  <2> HIDE DEF s1
  <2>3. s2 \in Sessions
    BY <2>1, SessionFields
  <2>4. \A o \in Processes : s2[o].shown = s1[o].shown
    BY <2>1 DEF Sessions, Session
  <2> HIDE DEF s2
  <2>5. [s2 EXCEPT ![p].access = access] \in Sessions
    BY <2>3, SessionFields
  <2>6. \A o \in Processes : [s2 EXCEPT ![p].access = access][o].shown = s2[o].shown
    BY <2>3 DEF Sessions, Session
  <2>7. session' = [s2 EXCEPT ![p].access = access]
    BY <1>10 DEF s1, s2
  <2> QED
    BY <2>2, <2>4, <2>5, <2>6, <2>7
<1>11. <<>> \in {<<>>} \cup (Ids \X Nat)
  OBVIOUS
<1>12. /\ session' \in Sessions
       /\ \A o \in Processes : session'[o].shown = session[o].shown
  BY <1>9, <1>10, <1>11 DEF DeliverTurn, a
<1> QED
  BY <1>1, <1>2, <1>7, <1>12

\* The numbers given away are bounded, and the record can be read.
LEMMA MadeIsNat ==
    ASSUME RoundInv
    PROVE  made \in Nat /\ made <= MaxIds /\ saved \in Round /\ WellFormed(saved, made)
BY RoundAssumption DEF RoundInv, WellFormed

\* The actions of the reviewer, one after the other, keep the invariant.
LEMMA KickoffKeeps ==
    ASSUME ExploreInv, NEW p \in Processes, Kickoff(p)
    PROVE  ExploreInv'
<1> DEFINE r == PostKickoff(EmptyRound, 1)
           m == Prompt(p, "turn", 1, 1)
           s == [session EXCEPT ![p].shown = TRUE]
<1>1. /\ made = 0 /\ MaxIds > 0 /\ made' = 1
      /\ closed' = closed /\ checked' = checked /\ failures' = failures /\ received' = received
      /\ takenBack' = takenBack /\ told' = told /\ stale' = stale
  BY DEF Kickoff, history
<1>2. prompts = {} /\ received = {}
  BY <1>1, NothingYet DEF ExploreInv
<1>3. WellFormed(r, 1) /\ WellFormed(StopTurn(r), 1) /\ r.turns[1].attempt = 1
      /\ StopTurn(r).turns = r.turns
  <2>1. WellFormed(r, 1)
    BY <1>1, KickoffIsWellFormed
  <2>2. EmptyRound \in Round /\ 1 \in Ids
    BY <1>1, EmptyIsWellFormed, RoundAssumption DEF WellFormed, Ids
  <2>3. FALSE \in BOOLEAN
    OBVIOUS
  <2>4. Pended(EmptyRound, r, 1)
    BY <2>2, <2>3, PendFields DEF PostKickoff
  <2> QED
    BY <2>1, <2>4, StoppedIsWellFormed DEF Pended
<1>4. /\ saved' = r \/ saved' = StopTurn(r)
      /\ prompts' \subseteq {m}
      /\ \/ session' = [s EXCEPT ![p].pending = 1, ![p].access = <<1, 1>>]
         \/ session' = [s EXCEPT ![p].pending = 1]
  BY DEF Kickoff
<1>5. 1 \in Ids /\ 1 \in Nat /\ 1 \in 0 .. MaxIds /\ 1 <= 1
  BY <1>1, RoundAssumption DEF Ids
<1> HIDE DEF r
<1>6. RoundInv'
  BY <1>1, <1>3, <1>4, <1>5 DEF RoundInv
<1>7. Dispatched'
  <2>1. "turn" \in Kinds /\ 1 \in Nat \ {0}
    BY DEF Kinds
  <2>2. /\ m \in PromptRecords /\ Staged(m) /\ ~m.began
        /\ m.kind = "turn" /\ m.id = 1 /\ m.attempt = 1
    BY <2>1, PromptFields
  <2> HIDE DEF m
  <2>3. IssuedBy(m, saved', made')
    BY <1>1, <1>3, <1>4, <1>5, <2>2 DEF IssuedBy
  <2>4. FollowOn({}) /\ failures' \in SUBSET Failures
    BY <1>1 DEF FollowOn, ExploreInv, Dispatched, PromptInv
  <2> DEFINE N == prompts'
             S == {}
  <2>5. N \in SUBSET PromptRecords /\ prompts' = S \cup N /\ FollowOn(S)
        /\ \A o \in N : Staged(o) /\ ~o.began /\ IssuedBy(o, saved', made')
    BY <1>4, <2>2, <2>3, <2>4
  <2>6. \A o \in prompts \cup received : StillStands(o)
    BY <1>2
  <2> HIDE DEF N, S
  <2> QED
    BY <1>1, <2>4, <2>5, <2>6, GoesOn DEF ExploreInv
<1>8. SessionInv'
  <2>1. session \in Sessions
    BY DEF ExploreInv, SessionInv
  <2>2. TRUE \in BOOLEAN /\ <<1, 1>> \in {<<>>} \cup (Ids \X Nat) /\ 1 \in {0} \cup Ids
    BY <1>5
  <2> DEFINE access == <<1, 1>>
  <2>3. s \in Sessions
    BY <2>1, <2>2, SessionFields
  <2> HIDE DEF s, access
  <2>4. [s EXCEPT ![p].pending = 1] \in Sessions
    BY <2>2, <2>3, SessionFields
  <2> DEFINE t == [s EXCEPT ![p].pending = 1]
  <2> HIDE DEF t
  <2>5. [t EXCEPT ![p].access = access] \in Sessions
    BY <2>2, <2>4, SessionFields DEF t, access
  <2>6. session' \in Sessions
    BY <1>4, <2>4, <2>5 DEF t, access
  <2>7. takenBack = {}
    <3>1. \A a \in takenBack : a \in Nat \ {0} /\ a <= 0
      BY <1>1 DEF ExploreInv, SessionInv, Ids
    <3> QED
      BY <3>1
  <2>8. /\ closed' \in BOOLEAN /\ checked' \in Checks /\ takenBack' \subseteq Ids
        /\ told' \subseteq Ids /\ stale' \in BOOLEAN /\ \A a \in takenBack' : a <= made'
        /\ made' # 0
    BY <1>1, <2>7 DEF ExploreInv, SessionInv
  <2> QED
    BY <2>6, <2>8 DEF SessionInv
<1>9. ToldInv'
  <2>1. takenBack = {}
    <3>1. \A a \in takenBack : a \in Nat \ {0} /\ a <= 0
      BY <1>1 DEF ExploreInv, SessionInv, Ids
    <3> QED
      BY <3>1
  <2> QED
    BY <1>1, <2>1 DEF ToldInv
<1> QED
  BY <1>1, <1>6, <1>7, <1>8, <1>9 DEF ExploreInv, ImplementedOnce

\* An answer, with the turn that it sends out.
LEMMA AnswerKeeps ==
    ASSUME ExploreInv, NEW p \in Processes, NEW to \in Ids, Answer(p, to)
    PROVE  ExploreInv'
<1> DEFINE q == made + 1
           r == PostAnswer(saved, q, to)
<1>1. /\ made < MaxIds /\ MayPost(saved, to) /\ made' = q /\ DeliverTurn(p, r, q)
      /\ closed' = closed /\ checked' = checked /\ failures' = failures /\ received' = received
      /\ takenBack' = takenBack /\ told' = told /\ stale' = stale
  BY DEF Answer, history
<1>2. made \in Nat /\ made <= MaxIds /\ saved \in Round /\ WellFormed(saved, made)
  BY MadeIsNat DEF ExploreInv
<1>3. q \in Ids /\ q \in Nat /\ made < q /\ made <= q /\ q <= q /\ q <= MaxIds /\ q # 0
  BY <1>1, <1>2, RoundAssumption DEF Ids
<1>4. WellFormed(r, q)
  BY <1>1, <1>2, AnswerIsWellFormed
<1>5. Pended(saved, r, q)
  BY <1>2, <1>3, AnswerFields
<1> HIDE DEF r, q
<1>6. /\ RoundInv' /\ Dispatched' /\ session' \in Sessions
      /\ saved'.cancelled = r.cancelled /\ saved'.retry = q /\ saved'.turns = r.turns
  BY <1>1, <1>2, <1>3, <1>4, <1>5, TurnGoesOut DEF ExploreInv, Pended
<1>7. SessionInv'
  <2>1. \A a \in takenBack : a \in Nat /\ a <= made
    BY DEF ExploreInv, SessionInv, Ids
  <2>2. \A a \in takenBack : a <= made'
    BY <1>1, <1>2, <1>3, <2>1
  <2> QED
    BY <1>1, <1>3, <1>6, <2>2 DEF ExploreInv, SessionInv
<1>8. ToldInv'
  BY <1>1, <1>3, <1>5, <1>6 DEF ExploreInv, ToldInv, Untold, Pended, ToTell
<1> QED
  BY <1>1, <1>6, <1>7, <1>8 DEF ExploreInv, ImplementedOnce

\* A turn that is sent again, as an attempt of its own.
LEMMA RetryKeeps ==
    ASSUME ExploreInv, NEW p \in Processes, Retry(p)
    PROVE  ExploreInv'
<1> DEFINE q == saved.retry
           r == PostAgain(saved, q)
<1>1. /\ q # 0 /\ MayPostAgain(saved, q) /\ DeliverTurn(p, r, q) /\ made' = made
      /\ closed' = closed /\ checked' = checked /\ failures' = failures /\ received' = received
      /\ takenBack' = takenBack /\ told' = told /\ stale' = stale
  BY DEF Retry, history
<1>2. made \in Nat /\ made <= MaxIds /\ saved \in Round /\ WellFormed(saved, made)
  BY MadeIsNat DEF ExploreInv
<1>3. q \in Ids /\ q <= made /\ q \in Turns(saved) /\ made <= made
  BY <1>1, <1>2 DEF WellFormed, Numbered, Turns, Round
<1>4. /\ WellFormed(r, made) /\ r.retry = q /\ r.cancelled = saved.cancelled
      /\ r.implementations = saved.implementations
      /\ r.turns[q].attempt = saved.turns[q].attempt + 1
      /\ r.turns[q].cancelled = saved.turns[q].cancelled
      /\ \A o \in Ids \ {q} : r.turns[o] = saved.turns[o]
  BY <1>1, <1>2, <1>3, AgainIsWellFormed
<1> DEFINE id == q
<1> HIDE DEF r, id
<1>5. /\ RoundInv' /\ Dispatched' /\ session' \in Sessions
      /\ saved'.cancelled = r.cancelled /\ saved'.retry = id /\ saved'.turns = r.turns
      /\ \A o \in Processes : session'[o].shown = session[o].shown
  <2>1. /\ id \in Ids /\ DeliverTurn(p, r, id) /\ r.retry = id /\ id <= made'
        /\ id \in Turns(saved) /\ r.turns[id].attempt = saved.turns[id].attempt + 1
        /\ \A o \in Ids \ {id} : r.turns[o].attempt = saved.turns[o].attempt
                                 /\ r.turns[o].state = saved.turns[o].state
    BY <1>1, <1>3, <1>4 DEF id
  <2>2. WellFormed(r, made') /\ made' \in Nat /\ made' <= MaxIds /\ made <= made'
    BY <1>1, <1>2, <1>4
  <2> QED
    BY <1>1, <1>4, <2>1, <2>2, TurnGoesOut DEF ExploreInv
<1>6. SessionInv'
  BY <1>1, <1>5 DEF ExploreInv, SessionInv
<1>7. ToldInv'
  BY <1>1, <1>4, <1>5 DEF ExploreInv, ToldInv, Untold, id
<1> QED
  BY <1>1, <1>5, <1>6, <1>7 DEF ExploreInv, ImplementedOnce

\* A round that is stopped, or left alone, while prompts go on.
LEMMA StopGoesOn ==
    ASSUME RoundInv, Dispatched, saved' = saved \/ saved' = StopTurn(saved), made' = made,
           FollowOn(prompts'), received' = received, failures' \in SUBSET Failures
    PROVE  /\ RoundInv' /\ Dispatched'
           /\ saved'.cancelled = saved.cancelled /\ saved'.retry = saved.retry
           /\ saved'.turns = saved.turns
           /\ saved'.conversation = saved.conversation /\ saved'.answers = saved.answers
<1>1. /\ WellFormed(saved', made) /\ saved'.turns = saved.turns
      /\ saved'.implementations = saved.implementations
      /\ saved'.cancelled = saved.cancelled /\ saved'.retry = saved.retry
      /\ saved'.conversation = saved.conversation /\ saved'.answers = saved.answers
  <2>1. CASE saved' = saved
    BY <2>1, MadeIsNat
  <2>2. CASE saved' = StopTurn(saved)
    BY <2>2, MadeIsNat, StoppedIsWellFormed
  <2> QED
    BY <2>1, <2>2
<1>2. RoundInv'
  BY <1>1 DEF RoundInv
<1>3. \A o \in prompts \cup received : StillStands(o)
  <2>1. SameDispatches(saved, saved')
    BY <1>1 DEF SameDispatches
  <2>2. made' \in Nat /\ made <= made'
    BY MadeIsNat
  <2> QED
    BY <2>1, <2>2, OthersStand
<1>4. Dispatched'
  BY <1>3, NoMore
<1> QED
  BY <1>1, <1>2, <1>4

\* Leaving a turn writes the record with that turn stopped, or not at all.
LEMMA CancelRecordIs ==
    ASSUME SessionInv, NEW p \in Processes
    PROVE  /\ CancelRecord(p).error \in BOOLEAN
           /\ CancelRecord(p).round = saved \/ CancelRecord(p).round = StopTurn(saved)
           /\ closed => CancelRecord(p).round = saved
BY DEF SessionInv, Sessions, Session, CancelRecord

\* A reviewer who stops waiting for the agent.
LEMMA StopWaitingKeeps ==
    ASSUME ExploreInv, NEW p \in Processes, StopWaiting(p)
    PROVE  ExploreInv'
<1> DEFINE error == CancelRecord(p).error
<1>1. /\ saved' = CancelRecord(p).round /\ made' = made /\ prompts' = WithdrawAll(p)
      /\ session' = [session EXCEPT ![p].error = error,
                         ![p].access = <<>>, ![p].pending = 0, ![p].sending = 0]
      /\ closed' = closed /\ checked' = checked /\ failures' = failures /\ received' = received
      /\ takenBack' = takenBack /\ told' = told /\ stale' = stale
      /\ session[p].shown
  BY DEF StopWaiting, history
<1>2. error \in BOOLEAN /\ (saved' = saved \/ saved' = StopTurn(saved))
  BY <1>1, CancelRecordIs DEF ExploreInv
<1>3. FollowOn(prompts') /\ failures' \in SUBSET Failures
  BY <1>1, WithdrawnFollow DEF WithdrawAll, ExploreInv, Dispatched, PromptInv
<1>4. /\ RoundInv' /\ Dispatched'
      /\ saved'.cancelled = saved.cancelled /\ saved'.retry = saved.retry
      /\ saved'.turns = saved.turns
  BY <1>1, <1>2, <1>3, StopGoesOn DEF ExploreInv
<1>5. SessionInv'
  <2> DEFINE s1 == [session EXCEPT ![p].error = error]
             s2 == [s1 EXCEPT ![p].access = <<>>]
             s3 == [s2 EXCEPT ![p].pending = 0]
             s4 == [s3 EXCEPT ![p].sending = 0]
  <2> HIDE DEF error
  <2>1. s1 \in Sessions
    BY <1>2, SessionFields DEF ExploreInv, SessionInv
  <2> HIDE DEF s1
  <2>2. s2 \in Sessions
    <3>1. <<>> \in {<<>>} \cup (Ids \X Nat)
      OBVIOUS
    <3> QED
      BY <2>1, <3>1, SessionFields
  <2> HIDE DEF s2
  <2>3. s3 \in Sessions
    BY <2>2, SessionFields
  <2> HIDE DEF s3
  <2>4. s4 \in Sessions
    BY <2>3, SessionFields
  <2>5. session' = s4
    BY <1>1 DEF s1, s2, s3
  <2> HIDE DEF s4
  <2>6. made # 0
    BY <1>1 DEF ExploreInv, SessionInv
  <2> QED
    BY <1>1, <2>4, <2>5, <2>6 DEF ExploreInv, SessionInv
<1>6. ToldInv'
  BY <1>1, <1>4 DEF ExploreInv, ToldInv, Untold
<1> QED
  BY <1>1, <1>4, <1>5, <1>6 DEF ExploreInv, ImplementedOnce

\* A round that becomes history.
LEMMA ResetKeeps ==
    ASSUME ExploreInv, NEW p \in Processes, Reset(p)
    PROVE  ExploreInv'
<1> DEFINE error == CancelRecord(p).error
<1>1. /\ saved' = CancelRecord(p).round /\ made' = made /\ prompts' = WithdrawAll(p)
      /\ session' = [session EXCEPT ![p] = [Blank EXCEPT !.error = error]]
      /\ closed' = TRUE /\ checked' = checked /\ failures' = failures
      /\ received' = received /\ takenBack' = takenBack /\ told' = told /\ stale' = stale
      /\ session[p].shown
  BY DEF Reset, history
<1>2. error \in BOOLEAN /\ (saved' = saved \/ saved' = StopTurn(saved))
  BY <1>1, CancelRecordIs DEF ExploreInv
<1>3. FollowOn(prompts') /\ failures' \in SUBSET Failures
  BY <1>1, WithdrawnFollow DEF WithdrawAll, ExploreInv, Dispatched, PromptInv
<1>4. /\ RoundInv' /\ Dispatched'
      /\ saved'.cancelled = saved.cancelled /\ saved'.retry = saved.retry
      /\ saved'.turns = saved.turns
  BY <1>1, <1>2, <1>3, StopGoesOn DEF ExploreInv
<1> HIDE DEF error
<1>5. SessionInv'
  <2>1. session' \in Sessions
    BY <1>1, <1>2, BlankSession DEF ExploreInv, SessionInv
  <2>2. made # 0 /\ closed' \in BOOLEAN
    BY <1>1 DEF ExploreInv, SessionInv
  <2> QED
    BY <1>1, <2>1, <2>2 DEF ExploreInv, SessionInv
<1>6. ToldInv'
  BY <1>1, <1>4 DEF ExploreInv, ToldInv, Untold
<1> QED
  BY <1>1, <1>4, <1>5, <1>6 DEF ExploreInv, ImplementedOnce

\* A step of which the round, its prompts and what became of them know nothing.
LEMMA OnlyHere ==
    ASSUME ExploreInv, UNCHANGED <<saved, made, prompts, failures, received, takenBack, told>>
    PROVE  RoundInv' /\ Dispatched' /\ ToldInv' /\ ImplementedOnce'
<1>1. /\ saved' = saved /\ made' = made /\ prompts' = prompts /\ failures' = failures
      /\ received' = received /\ takenBack' = takenBack /\ told' = told
  OBVIOUS
<1>2. RoundInv'
  BY <1>1 DEF ExploreInv, RoundInv
<1>3. FollowOn(prompts') /\ failures' \in SUBSET Failures
  BY <1>1, SomeFollow DEF ExploreInv, Dispatched, PromptInv
<1>4. Dispatched'
  BY <1>1, <1>3, StopGoesOn DEF ExploreInv
<1> QED
  BY <1>1, <1>2, <1>4 DEF ExploreInv, ToldInv, Untold, ImplementedOnce

\* Looking at an answer to take back changes nothing on record.
LEMMA CancelCheckKeeps ==
    ASSUME ExploreInv, NEW p \in Processes, NEW a \in Ids, NEW latest \in BOOLEAN,
           CancelCheck(p, a, latest)
    PROVE  ExploreInv'
<1>1. RoundInv' /\ Dispatched' /\ ToldInv' /\ ImplementedOnce'
  BY OnlyHere DEF CancelCheck, history
<1>2. AnswersFrom(saved, a) \in SUBSET Ids
  <2>1. a \in AnswerIds(saved) /\ saved \in Round /\ WellFormed(saved, made)
    BY MadeIsNat DEF ExploreInv, CancelCheck, MayCancelFrom
  <2> QED
    BY <2>1, AnswersGo, AnswerTypes
<1>3. checked' \in Checks
  BY <1>2 DEF CancelCheck, RequestsFrom, Checks, ExploreInv, SessionInv
<1>4. SessionInv'
  BY <1>3 DEF CancelCheck, history, ExploreInv, SessionInv
<1> QED
  BY <1>1, <1>4 DEF ExploreInv

\* A process that reads what another has stored.
LEMMA StorageChangedKeeps ==
    ASSUME ExploreInv, NEW p \in Processes, StorageChanged(p)
    PROVE  ExploreInv'
<1>1. RoundInv' /\ Dispatched' /\ ToldInv' /\ ImplementedOnce'
  BY OnlyHere DEF StorageChanged, history
<1>2. session' \in Sessions
  <2>1. session \in Sessions /\ closed \in BOOLEAN /\ TRUE \in BOOLEAN
    BY DEF ExploreInv, SessionInv
  <2> QED
    <3>1. CASE session[p].shown
      <4>1. session' = [session EXCEPT ![p].historical = closed]
        BY <3>1 DEF StorageChanged
      <4> QED
        BY <2>1, <4>1, SessionFields
    <3>2. CASE ~session[p].shown
      <4>1. session' = [session EXCEPT ![p] = [Blank EXCEPT !.shown = TRUE]]
        BY <3>2 DEF StorageChanged
      <4> QED
        BY <2>1, <4>1, BlankSession
    <3> QED
      BY <3>1, <3>2
<1>3. SessionInv'
  BY <1>2 DEF StorageChanged, history, ExploreInv, SessionInv
<1> QED
  BY <1>1, <1>3 DEF ExploreInv

\* Answers go from a round, and the turn of the request that goes with them.
LEMMA CancelCommitKeeps ==
    ASSUME ExploreInv, NEW p \in Processes, CancelCommit(p)
    PROVE  ExploreInv'
<1> DEFINE a == checked[p].answer
           gone == AnswersFrom(saved, a)
<1>1. /\ made' = made /\ closed' = closed /\ failures' = failures /\ received' = received
      /\ told' = told /\ stale' = stale /\ checked' = [checked EXCEPT ![p] = Idle]
  BY DEF CancelCommit
<1>2. checked' \in Checks
  BY <1>1, IdleIsChecked DEF ExploreInv, SessionInv
<1>3. WellFormed(saved, made) /\ saved \in Round /\ session \in Sessions
  BY MadeIsNat DEF ExploreInv, SessionInv
<1>4. CASE closed \/ ~MayCancelFrom(saved, a)
  <2>1. /\ saved' = saved /\ prompts' = prompts /\ takenBack' = takenBack
        /\ session' = session \/ (closed /\ session' = [session EXCEPT ![p].error = TRUE])
    BY <1>4 DEF CancelCommit
  <2>2. RoundInv' /\ Dispatched' /\ ToldInv' /\ ImplementedOnce'
    BY <1>1, <2>1, OnlyHere
  <2>3. TRUE \in BOOLEAN
    OBVIOUS
  <2>4. [session EXCEPT ![p].error = TRUE] \in Sessions
    BY <1>3, <2>3, SessionFields
  <2>5. session' \in Sessions
    BY <1>3, <2>1, <2>4
  <2>6. SessionInv'
    BY <1>1, <1>2, <2>1, <2>5 DEF ExploreInv, SessionInv
  <2> QED
    BY <2>2, <2>6 DEF ExploreInv
<1>5. CASE ~closed /\ MayCancelFrom(saved, a)
  <2>1. /\ saved' = CancelAnswersFrom(saved, a) /\ takenBack' = takenBack \cup gone
        /\ \/ /\ prompts' = WithdrawTurn(p)
              /\ session' = [session EXCEPT ![p].pending = 0, ![p].access = <<>>]
           \/ prompts' = prompts /\ session' = session
    BY <1>5 DEF CancelCommit
  <2>2. a \in AnswerIds(saved) /\ gone = {b \in AnswerIds(saved) : b >= a}
    BY <1>3, <1>5, AnswersGo DEF MayCancelFrom
  <2>3. /\ saved'.retry = IF saved.retry \in gone THEN 0 ELSE saved.retry
        /\ saved'.cancelled = saved.cancelled \cup gone
             \cup (IF saved.retry \in gone THEN saved.turns[saved.retry].cancelled ELSE {})
        /\ \A q \in Ids : saved'.turns[q] = IF q \in gone THEN NoTurn ELSE saved.turns[q]
    BY <1>3, <1>5, <2>1, CancelFields
  <2>4. WellFormed(saved', made)
    BY <1>3, <1>5, <2>1, CancelIsWellFormed
  <2> HIDE DEF a, gone
  <2>5. RoundInv'
    BY <1>1, <2>4 DEF ExploreInv, RoundInv
  <2>6. Dispatched'
    <3>1. FollowOn(prompts') /\ failures' \in SUBSET Failures
      BY <1>1, <2>1, WithdrawnFollow, SomeFollow DEF WithdrawTurn, ExploreInv, Dispatched, PromptInv
    <3>2. \A o \in prompts \cup received : StillStands(o)
      BY <1>1, <1>5, <2>1, CancelledStand DEF ExploreInv
    <3> QED
      BY <1>1, <3>1, <3>2, NoMore DEF ExploreInv
  <2>7. session' \in Sessions
    <3> DEFINE s == [session EXCEPT ![p].pending = 0]
    <3>1. s \in Sessions /\ <<>> \in {<<>>} \cup (Ids \X Nat)
      BY <1>3, SessionFields
    <3> HIDE DEF s
    <3>2. [s EXCEPT ![p].access = <<>>] \in Sessions
      BY <3>1, SessionFields
    <3> QED
      BY <1>3, <2>1, <3>2 DEF s
  <2>8. made # 0 /\ gone \subseteq Ids /\ \A b \in gone : b <= made
    <3>1. AnswerIds(saved) \subseteq Ids
      BY <1>3, AnswerTypes
    <3>2. \A b \in AnswerIds(saved) : b <= made
      BY <1>3 DEF WellFormed, Numbered, AnswerIds
    <3>3. \A b \in AnswerIds(saved) : b \in Nat \ {0}
      BY <3>1 DEF Ids
    <3> QED
      BY <2>2, <3>1, <3>2, <3>3
  <2>9. SessionInv'
    BY <1>1, <1>2, <2>1, <2>7, <2>8 DEF ExploreInv, SessionInv
  <2>10. ToldInv'
    <3>1. CASE saved.retry = 0
      <4>1. saved'.retry = 0
        BY <2>3, <3>1
      <4> QED
        BY <1>1, <2>1, <2>3, <3>1, <4>1 DEF ExploreInv, ToldInv, Untold
    <3>2. CASE saved.retry \in gone
      <4>1. saved'.retry = 0
        BY <2>3, <3>2
      <4> QED
        BY <1>1, <2>1, <2>3, <3>2, <4>1 DEF ExploreInv, ToldInv, Untold
    <3>3. CASE saved.retry # 0 /\ saved.retry \notin gone
      <4>1. saved.retry \in Ids
        BY <1>3, <3>3 DEF Round
      <4>2. saved'.retry = saved.retry /\ saved'.turns[saved'.retry] = saved.turns[saved.retry]
        BY <2>3, <3>3, <4>1
      <4> QED
        BY <1>1, <2>1, <2>3, <3>3, <4>2 DEF ExploreInv, ToldInv, Untold
    <3> QED
      BY <3>1, <3>2, <3>3
  <2> QED
    BY <1>1, <2>5, <2>6, <2>9, <2>10 DEF ExploreInv, ImplementedOnce
<1> QED
  BY <1>4, <1>5 DEF CancelCommit

\* A request to implement the conclusion.
LEMMA ImplementKeeps ==
    ASSUME ExploreInv, NEW p \in Processes, NEW d \in Deliveries, Implement(p, d)
    PROVE  ExploreInv'
<1> DEFINE m == Prompt(p, "implementation", d, saved'.implementations[d].attempt)
<1>1. /\ MayAuthorize(saved, d) /\ saved' = Authorize(saved, d)
      /\ prompts' = Withdrawn(p, {"implementation"}) \cup {m}
      /\ session' = [session EXCEPT ![p].sending = d]
      /\ made' = made /\ closed' = closed /\ checked' = checked /\ failures' = failures
      /\ received' = received /\ takenBack' = takenBack /\ told' = told /\ stale' = stale
      /\ session[p].shown
  BY DEF Implement, history, Editable, Works
<1>2. WellFormed(saved, made) /\ session \in Sessions
  BY MadeIsNat DEF ExploreInv, SessionInv
<1>3. /\ WellFormed(saved', made) /\ saved'.turns = saved.turns
      /\ saved'.cancelled = saved.cancelled /\ saved'.retry = saved.retry
  BY <1>1, <1>2, AuthorizeIsWellFormed
<1>4. /\ \A o \in prompts \cup received : StillStands(o)
      /\ m \in PromptRecords /\ Staged(m) /\ ~m.began
      /\ IssuedBy(m, saved', made')
  BY <1>1, NewSendStands DEF ExploreInv
<1> HIDE DEF m
<1>5. RoundInv'
  BY <1>1, <1>3 DEF ExploreInv, RoundInv
<1>6. Dispatched'
  <2> DEFINE S == Withdrawn(p, {"implementation"})
  <2>1. FollowOn(S) /\ prompts' = S \cup {m} /\ failures' \in SUBSET Failures
    BY <1>1, WithdrawnFollow DEF ExploreInv, Dispatched, PromptInv
  <2> HIDE DEF S
  <2> QED
    BY <1>1, <1>4, <2>1, OneMore DEF ExploreInv
<1>7. SessionInv'
  <2>1. session' \in Sessions
    BY <1>1, <1>2, SessionFields
  <2>2. made # 0
    BY <1>1 DEF ExploreInv, SessionInv
  <2> QED
    BY <1>1, <2>1, <2>2 DEF ExploreInv, SessionInv
<1>8. ToldInv'
  BY <1>1, <1>3 DEF ExploreInv, ToldInv, Untold
<1> QED
  BY <1>1, <1>5, <1>6, <1>7, <1>8 DEF ExploreInv, ImplementedOnce

\* An implementation taken back: its prompts are withdrawn.
LEMMA CancelImplementationKeeps ==
    ASSUME ExploreInv, NEW p \in Processes, CancelImplementation(p)
    PROVE  ExploreInv'
<1>1. /\ session' = [session EXCEPT ![p].sending = 0]
      /\ prompts' = Withdrawn(p, {"implementation"})
      /\ saved' = saved /\ made' = made /\ closed' = closed /\ checked' = checked
      /\ failures' = failures /\ received' = received
      /\ takenBack' = takenBack /\ told' = told /\ stale' = stale
  BY DEF CancelImplementation, history
<1>2. FollowOn(prompts') /\ failures' \in SUBSET Failures
  BY <1>1, WithdrawnFollow DEF ExploreInv, Dispatched, PromptInv
<1>3. RoundInv' /\ Dispatched'
  BY <1>1, <1>2, StopGoesOn DEF ExploreInv
<1>4. SessionInv'
  <2>1. session \in Sessions
    BY DEF ExploreInv, SessionInv
  <2>2. session' \in Sessions
    BY <1>1, <2>1, SessionFields
  <2>3. \A o \in Processes : session'[o].shown = session[o].shown
    BY <1>1, <2>1 DEF Sessions, Session
  <2> QED
    BY <1>1, <2>2, <2>3 DEF ExploreInv, SessionInv
<1>5. ToldInv'
  BY <1>1 DEF ExploreInv, ToldInv, Untold
<1> QED
  BY <1>1, <1>3, <1>4, <1>5 DEF ExploreInv, ImplementedOnce

\* A failed turn that its process comes to know of.
LEMMA PromptFinishedKeeps ==
    ASSUME ExploreInv, NEW f \in failures, PromptFinished(f)
    PROVE  ExploreInv'
<1>1. /\ failures' = failures \ {f} /\ made' = made /\ closed' = closed
      /\ session' = session /\ checked' = checked /\ received' = received
      /\ takenBack' = takenBack /\ told' = told /\ stale' = stale
  BY DEF PromptFinished, history
<1>2. /\ saved' = saved \/ saved' = StopTurn(saved)
      /\ prompts' = prompts \/ prompts' = WithdrawTurn(f.by)
  BY DEF PromptFinished
<1>3. FollowOn(prompts') /\ failures' \in SUBSET Failures
  BY <1>1, <1>2, WithdrawnFollow, SomeFollow
     DEF WithdrawTurn, ExploreInv, Dispatched, PromptInv
<1>4. /\ RoundInv' /\ Dispatched'
      /\ saved'.cancelled = saved.cancelled /\ saved'.retry = saved.retry
      /\ saved'.turns = saved.turns
  BY <1>1, <1>2, <1>3, StopGoesOn DEF ExploreInv
<1>5. SessionInv' /\ ToldInv'
  BY <1>1, <1>4 DEF ExploreInv, SessionInv, ToldInv, Untold
<1> QED
  BY <1>1, <1>4, <1>5 DEF ExploreInv, ImplementedOnce

\* The agent can answer what it received of a turn.
LEMMA TurnReceived ==
    ASSUME ExploreInv, NEW m \in received, m.kind = "turn"
    PROVE  m.id \in Ids /\ m.id # 0 /\ m.by \in Processes
<1>1. m.id \in Ids
  BY DispatchTypes DEF ExploreInv
<1>2. m.by \in Processes
  BY DEF ExploreInv, Dispatched, PromptInv, Arrivals
<1> QED
  BY <1>1, <1>2 DEF Ids

\* A question or a conclusion that the agent submits.
LEMMA SubmissionKeeps ==
    ASSUME ExploreInv, NEW m \in received, m.kind = "turn", NEW question \in BOOLEAN,
           Submission(m, question)
    PROVE  ExploreInv'
<1>1. /\ MaySubmit(saved, m.id) /\ saved' = Submit(saved, m.id, question)
      /\ told' = told \cup saved.turns[m.id].cancelled
      /\ stale' = (stale \/ m.attempt # saved.turns[m.id].attempt)
      /\ made' = made /\ closed' = closed /\ session' = session /\ checked' = checked
      /\ prompts' = prompts /\ failures' = failures /\ received' = received
      /\ takenBack' = takenBack
  BY DEF Submission
<1>2. m.id \in Ids /\ m.id # 0 /\ m.by \in Processes
  BY TurnReceived
<1>3. made \in Nat /\ WellFormed(saved, made) /\ saved \in Round
  BY MadeIsNat DEF ExploreInv
<1>4. /\ WellFormed(saved', made) /\ saved'.turns = saved.turns
      /\ saved'.implementations = saved.implementations
      /\ saved'.cancelled = saved.cancelled /\ saved'.retry = 0 /\ saved.retry = m.id
  BY <1>1, <1>2, <1>3, SubmitIsWellFormed
<1>5. RoundInv'
  BY <1>1, <1>4 DEF ExploreInv, RoundInv
<1>6. Dispatched'
  <2>1. SameDispatches(saved, saved') /\ made' \in Nat /\ made <= made'
    BY <1>1, <1>3, <1>4 DEF SameDispatches
  <2>2. \A o \in prompts \cup received : StillStands(o)
    BY <2>1, OthersStand DEF ExploreInv
  <2>3. FollowOn(prompts') /\ failures' \in SUBSET Failures
    BY <1>1, SomeFollow DEF ExploreInv, Dispatched, PromptInv
  <2> QED
    BY <1>1, <2>2, <2>3, NoMore DEF ExploreInv
<1>7. SessionInv'
  <2>1. saved.turns[m.id].cancelled \subseteq Ids
    BY <1>2, <1>3, RecordTypes
  <2>2. stale' \in BOOLEAN
    BY <1>1
  <2> QED
    BY <1>1, <2>1, <2>2 DEF ExploreInv, SessionInv
<1>8. ToldInv'
  BY <1>1, <1>2, <1>4 DEF ExploreInv, ToldInv, Untold
<1> QED
  BY <1>1, <1>5, <1>6, <1>7, <1>8 DEF ExploreInv, ImplementedOnce

\* A question that the agent asks in another way.
LEMMA ReviseQuestionKeeps ==
    ASSUME ExploreInv, NEW m \in received, ReviseQuestion(m)
    PROVE  ExploreInv'
<1>1. /\ MayRevise(saved) /\ made < MaxIds /\ made' = made + 1
      /\ saved' = Revise(saved, made + 1)
      /\ closed' = closed /\ session' = session /\ checked' = checked
      /\ prompts' = prompts /\ failures' = failures /\ received' = received
      /\ takenBack' = takenBack /\ told' = told /\ stale' = stale
  BY DEF ReviseQuestion, history
<1>2. made \in Nat /\ WellFormed(saved, made) /\ saved \in Round
  BY MadeIsNat DEF ExploreInv
<1>3. /\ WellFormed(saved', made + 1) /\ saved'.turns = saved.turns
      /\ saved'.implementations = saved.implementations
      /\ saved'.cancelled = saved.cancelled /\ saved'.retry = saved.retry
  BY <1>1, <1>2, ReviseIsWellFormed
<1>4. RoundInv'
  <2>1. made' \in 0 .. MaxIds
    BY <1>1, <1>2, RoundAssumption
  <2> QED
    BY <1>1, <1>3, <2>1 DEF RoundInv
<1>5. Dispatched'
  <2>1. SameDispatches(saved, saved') /\ made' \in Nat /\ made <= made'
    BY <1>1, <1>2, <1>3 DEF SameDispatches
  <2>2. \A o \in prompts \cup received : StillStands(o)
    BY <2>1, OthersStand DEF ExploreInv
  <2>3. FollowOn(prompts') /\ failures' \in SUBSET Failures
    BY <1>1, SomeFollow DEF ExploreInv, Dispatched, PromptInv
  <2> QED
    BY <1>1, <2>2, <2>3, NoMore DEF ExploreInv
<1>6. SessionInv'
  <2>1. \A a \in takenBack : a \in Nat /\ a <= made
    BY DEF ExploreInv, SessionInv, Ids
  <2>2. (\A a \in takenBack : a <= made') /\ made' # 0
    BY <1>1, <1>2, <2>1
  <2> QED
    BY <1>1, <2>2 DEF ExploreInv, SessionInv
<1>7. ToldInv'
  BY <1>1, <1>3 DEF ExploreInv, ToldInv, Untold
<1> QED
  BY <1>1, <1>4, <1>5, <1>6, <1>7 DEF ExploreInv, ImplementedOnce

\* A process that starts anew on what is stored.
LEMMA RestartKeeps ==
    ASSUME ExploreInv, NEW p \in Processes, Restart(p)
    PROVE  ExploreInv'
<1> DEFINE shown == ~closed
<1>1. /\ session' = [session EXCEPT ![p] = [Blank EXCEPT !.shown = shown]]
      /\ checked' = [checked EXCEPT ![p] = Idle] /\ made # 0
      /\ prompts' = {m \in prompts : m.by # p}
      /\ failures' = {f \in failures : f.by # p}
      /\ saved' = saved /\ made' = made /\ closed' = closed /\ received' = received
      /\ takenBack' = takenBack /\ told' = told /\ stale' = stale
  BY DEF Restart, history
<1>2. FollowOn(prompts')
  <2>1. prompts' \in SUBSET prompts
    BY <1>1
  <2> DEFINE S == prompts'
  <2>2. S \in SUBSET prompts
    BY <2>1
  <2> HIDE DEF S
  <2>3. FollowOn(S)
    BY <2>2, SomeFollow DEF ExploreInv
  <2> QED
    BY <2>3 DEF S
<1>3. failures' \in SUBSET Failures
  BY <1>1 DEF ExploreInv, Dispatched, PromptInv
<1>4. RoundInv' /\ Dispatched'
  BY <1>1, <1>2, <1>3, StopGoesOn DEF ExploreInv
<1>5. SessionInv'
  <2>1. session' \in Sessions
    <3>1. shown \in BOOLEAN
      OBVIOUS
    <3> HIDE DEF shown
    <3> QED
      BY <1>1, <3>1, BlankSession DEF ExploreInv, SessionInv
  <2>2. checked' \in Checks
    BY <1>1, IdleIsChecked DEF ExploreInv, SessionInv
  <2> QED
    BY <1>1, <2>1, <2>2 DEF ExploreInv, SessionInv
<1>6. ToldInv'
  BY <1>1 DEF ExploreInv, ToldInv, Untold
<1> QED
  BY <1>1, <1>4, <1>5, <1>6 DEF ExploreInv, ImplementedOnce

\* The dispatcher and the courier: what a prompt becomes leaves all else alone.
LEMMA DeliveryKeeps ==
    ASSUME SessionAssumption, ExploreInv, NEW m \in prompts,
           Begin(m) \/ Send(m) \/ Finish(m)
    PROVE  ExploreInv'
<1>1. RoundInv' /\ Dispatched'
  <2>1. CASE Begin(m)
    BY <2>1, BeginDispatched DEF ExploreInv
  <2>2. CASE Send(m)
    <3>1. Dispatched' /\ saved' = saved /\ made' = made
      BY <2>2, SendDispatched DEF ExploreInv, Send
    <3> QED
      BY <3>1 DEF ExploreInv, RoundInv
  <2>3. CASE Finish(m)
    BY <2>3, FinishDispatched DEF ExploreInv
  <2> QED
    BY <2>1, <2>2, <2>3
<1>2. ImplementedOnce'
  <2>1. CASE Send(m)
    BY <2>1, SendDispatched DEF ExploreInv
  <2>2. CASE Begin(m) \/ Finish(m)
    BY <2>2 DEF Begin, Finish, history, ExploreInv, ImplementedOnce
  <2> QED
    BY <2>1, <2>2
<1>3. SessionInv'
  BY DEF Begin, Send, Finish, history, ExploreInv, SessionInv
<1>4. /\ takenBack' = takenBack /\ told' = told
      /\ saved'.cancelled = saved.cancelled /\ saved'.retry = saved.retry
      /\ \A q \in Ids : saved'.turns[q].cancelled = saved.turns[q].cancelled
  <2>1. takenBack' = takenBack /\ told' = told
    BY DEF Begin, Send, Finish, history
  <2>2. saved' = saved \/ \E state \in DispatchState : saved' = WithState(saved, m, state)
    <3>1. CASE Begin(m)
      BY <3>1 DEF Begin, BeginDispatch, DispatchState
    <3>2. CASE Send(m)
      BY <3>2 DEF Send
    <3>3. CASE Finish(m)
      <4>1. m.outcome \in DispatchState
        BY <3>3 DEF Finish, ExploreInv, Dispatched, PromptInv, Staged
      <4> QED
        BY <3>3, <4>1 DEF Finish, FinishDispatch
    <3> QED
      BY <3>1, <3>2, <3>3
  <2>3. /\ m.kind = "turn" => m.id \in Ids
        /\ m.kind # "turn" => m.id \in Deliveries
    BY DispatchTypes DEF ExploreInv
  <2>4. WellFormed(saved, made)
    BY MadeIsNat DEF ExploreInv
  <2> QED
    BY <2>1, <2>2, <2>3, <2>4, StateIsWellFormed
<1>5. ToldInv'
  <2>1. saved.retry # 0 => saved.retry \in Ids
    BY MadeIsNat DEF ExploreInv, Round
  <2> QED
    BY <1>4, <2>1 DEF ExploreInv, ToldInv, Untold
<1> QED
  BY <1>1, <1>2, <1>3, <1>5 DEF ExploreInv

-----------------------------------------------------------------------------
(* The invariant, and what follows from it. *)

\* An empty round satisfies the invariant.
LEMMA InitIsSound == Init => ExploreInv
<1> SUFFICES ASSUME Init PROVE ExploreInv
  OBVIOUS
<1>1. /\ saved = EmptyRound /\ made = 0 /\ closed = FALSE
      /\ session = [p \in Processes |-> Blank] /\ checked = [p \in Processes |-> Idle]
      /\ prompts = {} /\ failures = {} /\ received = {}
      /\ takenBack = {} /\ told = {} /\ stale = FALSE
  BY DEF Init
<1>2. FALSE \in BOOLEAN
  OBVIOUS
<1>3. RoundInv
  <2>1. made \in 0 .. MaxIds
    BY <1>1, RoundAssumption
  <2> QED
    BY <1>1, <2>1, EmptyIsWellFormed DEF RoundInv
<1>4. Dispatched /\ ImplementedOnce
  BY <1>1 DEF Dispatched, PromptInv, Issued, BegunOnce, ReceivedStands, StartedStands,
              ImplementedOnce
<1>5. SessionInv
  <2>1. Blank \in Session /\ Blank.shown = FALSE
    BY <1>2 DEF Blank, Session
  <2>2. Idle \in [answer : {0} \cup Ids, latest : BOOLEAN, gone : SUBSET Ids]
    BY <1>2 DEF Idle
  <2>3. session \in Sessions /\ checked \in Checks
    BY <1>1, <2>1, <2>2 DEF Sessions, Checks
  <2>4. \A p \in Processes : ~session[p].shown
    BY <1>1, <2>1
  <2>5. /\ closed \in BOOLEAN /\ takenBack \subseteq Ids /\ told \subseteq Ids
        /\ stale \in BOOLEAN /\ ~closed /\ \A a \in takenBack : a <= made
    BY <1>1, <1>2
  <2> QED
    BY <2>3, <2>4, <2>5 DEF SessionInv
<1>6. ToldInv
  BY <1>1 DEF ToldInv
<1> QED
  BY <1>3, <1>4, <1>5, <1>6 DEF ExploreInv

\* Every step keeps it.
LEMMA NextKeeps == ExploreInv /\ [Next]_vars => ExploreInv'
<1> SUFFICES ASSUME ExploreInv, [Next]_vars PROVE ExploreInv'
  OBVIOUS
<1>1. ASSUME NEW p \in Processes, Reviewer(p)
      PROVE  ExploreInv'
  <2>1. CASE \E q \in Ids : Answer(p, q) \/ \E latest \in BOOLEAN : CancelCheck(p, q, latest)
    BY <2>1, AnswerKeeps, CancelCheckKeeps
  <2>2. CASE \E d \in Deliveries : Implement(p, d)
    BY <2>2, ImplementKeeps
  <2>3. CASE Kickoff(p)
    BY <2>3, KickoffKeeps
  <2>4. CASE Retry(p)
    BY <2>4, RetryKeeps
  <2>5. CASE StopWaiting(p)
    BY <2>5, StopWaitingKeeps
  <2>6. CASE CancelCommit(p)
    BY <2>6, CancelCommitKeeps
  <2>7. CASE CancelImplementation(p)
    BY <2>7, CancelImplementationKeeps
  <2>8. CASE Reset(p)
    BY <2>8, ResetKeeps
  <2> QED
    BY <1>1, <2>1, <2>2, <2>3, <2>4, <2>5, <2>6, <2>7, <2>8 DEF Reviewer
<1>2. ASSUME NEW p \in Processes, StorageChanged(p) \/ Restart(p)
      PROVE  ExploreInv'
  BY <1>2, StorageChangedKeeps, RestartKeeps
<1>3. ASSUME NEW f \in failures, PromptFinished(f)
      PROVE  ExploreInv'
  BY <1>3, PromptFinishedKeeps
<1>4. CASE Agent
  <2>1. PICK m \in received : m.kind = "turn" /\
                (ReviseQuestion(m) \/ \E question \in BOOLEAN : Submission(m, question))
    BY <1>4 DEF Agent
  <2> QED
    BY <2>1, ReviseQuestionKeeps, SubmissionKeeps
<1>5. CASE Delivery
  BY <1>5, SessionAssumption, DeliveryKeeps DEF Delivery
<1>6. CASE UNCHANGED vars
  <2>1. RoundInv' /\ Dispatched' /\ ToldInv' /\ ImplementedOnce'
    BY <1>6, OnlyHere DEF vars
  <2>2. SessionInv'
    BY <1>6 DEF vars, ExploreInv, SessionInv
  <2> QED
    BY <2>1, <2>2 DEF ExploreInv
<1> QED
  BY <1>1, <1>2, <1>3, <1>4, <1>5, <1>6 DEF Next

\* What Explore keeps whatever the reviewers, the agent and the processes do.
THEOREM ExploreInvariant == Spec => []ExploreInv
<1>1. Init => ExploreInv
  BY InitIsSound
<1>2. ExploreInv /\ [Next]_vars => ExploreInv'
  BY NextKeeps
<1> QED
  BY <1>1, <1>2, PTL DEF Spec

\* The state of the sessions and of the round has its type: what review-explore and the
\* session of every process keep in memory and on disk.
THEOREM SessionTypesHold == Spec => []TypeOK
<1>1. ExploreInv => TypeOK
  <2> SUFFICES ASSUME ExploreInv PROVE TypeOK
    OBVIOUS
  <2>1. saved \in Round /\ made \in 0 .. MaxIds
    BY DEF ExploreInv, RoundInv, WellFormed
  <2>2. /\ closed \in BOOLEAN /\ session \in Sessions /\ checked \in Checks
        /\ takenBack \subseteq Ids /\ told \subseteq Ids /\ stale \in BOOLEAN
    BY DEF ExploreInv, SessionInv
  <2>3. \A m \in prompts :
          /\ m.kind \in {"turn", "implementation"} /\ m.by \in Processes
          /\ m.stage \in {"queued", "attempting", "done"}
          /\ (m.stage = "done") <=> (m.outcome \in DispatchState)
    BY DEF ExploreInv, Dispatched, PromptInv, PromptRecords, Kinds, Staged, DispatchState
  <2> QED
    BY <2>1, <2>2, <2>3 DEF TypeOK, Sessions, Session, Checks
<1> QED
  BY <1>1, ExploreInvariant, PTL

\* Whatever the processes, the reviewer and the agent do to a round, and wherever a
\* process ends, the saved round can be read again: validate_restored of
\* recovery.rs accepts it.
THEOREM RoundStaysReadable == Spec => []SavedRoundLoads
<1>1. ExploreInv => SavedRoundLoads
  <2> SUFFICES ASSUME ExploreInv PROVE ValidateRestored(saved)
    BY DEF SavedRoundLoads
  <2> DEFINE turn(q) == CHOOSE i \in DOMAIN saved.conversation :
                            saved.conversation[i].request = q
  <2>1. WellFormed(saved, made) /\ saved \in Round
    BY MadeIsNat DEF ExploreInv
  <2>2. ASSUME NEW q, Concludes(saved, q)
        PROVE  InConversation(saved, q) /\ ~saved.conversation[turn(q)].next
    <3>1. PICK i \in DOMAIN saved.conversation :
                 saved.conversation[i].request = q /\ ~saved.conversation[i].next
      BY <2>2 DEF Concludes
    <3>2. turn(q) \in DOMAIN saved.conversation /\ saved.conversation[turn(q)].request = q
      BY <3>1
    <3> HIDE DEF turn
    <3>3. turn(q) = i
      BY <2>1, <3>1, <3>2 DEF WellFormed, Conversed
    <3> QED
      BY <3>1, <3>3 DEF InConversation
  <2> HIDE DEF turn
  <2>3. /\ \A i, j \in DOMAIN saved.conversation :
             saved.conversation[i].request = saved.conversation[j].request => i = j
        /\ \A i \in DOMAIN saved.conversation :
             saved.conversation[i].answer \in {0} \cup AnswerIds(saved)
    BY <2>1 DEF WellFormed, Conversed
  <2>4. \A i, j \in DOMAIN saved.answers :
          saved.answers[i].id = saved.answers[j].id => i = j
    <3> SUFFICES ASSUME NEW i \in DOMAIN saved.answers, NEW j \in DOMAIN saved.answers,
                        saved.answers[i].id = saved.answers[j].id
                 PROVE  i = j
      OBVIOUS
    <3>1. saved.answers[i].id \in Nat /\ saved.answers[j].id \in Nat /\ i \in Nat /\ j \in Nat
      BY <2>1, AnswerTypes
    <3>2. ~(i < j) /\ ~(j < i)
      BY <2>1, <3>1 DEF WellFormed, Numbered
    <3> QED
      BY <3>1, <3>2
  <2>5. \A i \in DOMAIN saved.answers : InConversation(saved, saved.answers[i].in_reply_to)
    BY <2>1 DEF WellFormed, Replied, InConversation
  <2>6. \A q \in {saved.outstanding, saved.retry} \cup Turns(saved) :
          q # 0 => (saved.turns[q].answer => q \in AnswerIds(saved))
    <3>1. saved.outstanding \in {0} \cup Ids /\ saved.retry \in {0} \cup Ids
          /\ Turns(saved) \subseteq Ids
      BY <2>1 DEF Round, Turns
    <3> QED
      BY <2>1, <3>1 DEF WellFormed
  <2>7. /\ saved.completion # 0 => Concludes(saved, saved.completion)
        /\ \A d \in Implementations(saved) :
             Concludes(saved, saved.implementations[d].conclusion)
    BY <2>1 DEF WellFormed
  <2>8. /\ saved.completion # 0 => /\ InConversation(saved, saved.completion)
                                   /\ ~saved.conversation[turn(saved.completion)].next
        /\ \A d \in Implementations(saved) :
             LET c == saved.implementations[d].conclusion
             IN  InConversation(saved, c) /\ ~saved.conversation[turn(c)].next
    BY <2>2, <2>7
  <2> QED
    BY <2>3, <2>4, <2>5, <2>6, <2>8 DEF ValidateRestored, turn
<1> QED
  BY <1>1, ExploreInvariant, PTL

\* A record denies the arrival of a prompt (DispatchState::undelivered of durable.rs), or
\* has it wait, only when the agent did not get it.
THEOREM UndeliveredHolds == Spec => []UndeliveredIsTrue
<1>1. ExploreInv => UndeliveredIsTrue
  BY DEF ExploreInv, Dispatched, ReceivedStands, Undenied, UndeliveredIsTrue
<1> QED
  BY <1>1, ExploreInvariant, PTL

\* Every answer cancelled (cancel.rs) is told to the agent by a request it answered, or
\* by the next: none that it saw is left standing.
THEOREM CancelledAreTold == Spec => []CancelledIsTold
<1>1. ExploreInv => CancelledIsTold
  BY DEF ExploreInv, ToldInv, Untold, CancelledIsTold
<1> QED
  BY <1>1, ExploreInvariant, PTL

\* The agent starts at most once on one implementation request, whichever processes and
\* front ends send it (implementation.rs, durable.rs).
THEOREM StartedOnce == Spec => []ImplementedOnce
<1>1. ExploreInv => ImplementedOnce
  BY DEF ExploreInv
<1> QED
  BY <1>1, ExploreInvariant, PTL

\* What a step does to the agent's turns and to the answers.
HistoryStep ==
    /\ closed => closed' /\ saved'.conversation = saved.conversation
                 /\ saved'.answers = saved.answers
    /\ \A i \in DOMAIN saved.conversation :
         \/ saved.conversation[i] \in Range(saved'.conversation)
         \/ saved.conversation[i].answer \notin AnswerIds(saved')

\* A step that leaves the conversation alone, or adds one turn to it.
LEMMA SameConversation ==
    ASSUME saved'.conversation = saved.conversation,
           closed => closed' /\ saved'.answers = saved.answers
    PROVE  HistoryStep
BY DEF HistoryStep, Range

\* One turn more, of a round that is not closed.
LEMMA LongerConversation ==
    ASSUME saved \in Round, ~closed, NEW t \in ConversationTurn,
           saved'.conversation = Append(saved.conversation, t)
    PROVE  HistoryStep
<1>1. saved.conversation \in Seq(ConversationTurn)
  BY ConversationTypes
<1>2. \A i \in DOMAIN saved.conversation :
        i \in DOMAIN saved'.conversation /\ saved'.conversation[i] = saved.conversation[i]
  BY <1>1, Appended
<1> QED
  BY <1>2 DEF HistoryStep, Range

\* What the reviewer does keeps the history of the round.
LEMMA ReviewerKeepsHistory ==
    ASSUME ExploreInv, NEW p \in Processes, Reviewer(p)
    PROVE  HistoryStep
<1>1. WellFormed(saved, made) /\ saved \in Round /\ made \in Nat
  BY MadeIsNat DEF ExploreInv
<1>2. CASE Kickoff(p)
  <2>1. saved.conversation = <<>> /\ ~closed
    BY <1>2, NothingYet DEF Kickoff, ExploreInv, SessionInv
  <2> QED
    BY <2>1 DEF HistoryStep
<1>3. ASSUME NEW q \in Ids, Answer(p, q)
      PROVE  HistoryStep
  <2> DEFINE id == made + 1
             r == PostAnswer(saved, id, q)
  <2>1. ~closed /\ DeliverTurn(p, r, id) /\ id \in Ids
    BY <1>1, <1>3, RoundAssumption DEF Answer, Editable, Ids
  <2>2. r.conversation = saved.conversation /\ r \in Round
    <3>1. Pended(saved, r, id)
      BY <1>1, <2>1, AnswerFields
    <3> HIDE DEF r, id
    <3> QED
      BY <3>1 DEF Pended
  <2> HIDE DEF r
  <2>3. saved'.conversation = r.conversation
    BY <2>1, <2>2 DEF DeliverTurn, StopTurn, Round
  <2> QED
    BY <2>1, <2>2, <2>3, SameConversation
<1>4. CASE Retry(p)
  <2> DEFINE q == saved.retry
             r == PostAgain(saved, q)
  <2>1. ~closed /\ DeliverTurn(p, r, q) /\ MayPostAgain(saved, q) /\ q \in Ids
    BY <1>1, <1>4 DEF Retry, Editable, MayPostAgain, Turns
  <2>2. r.conversation = saved.conversation /\ r \in Round
    <3>1. WellFormed(r, made) /\ r.conversation = saved.conversation
      BY <1>1, <2>1, AgainIsWellFormed
    <3> HIDE DEF r
    <3> QED
      BY <3>1 DEF WellFormed
  <2> HIDE DEF r
  <2>3. saved'.conversation = r.conversation
    BY <2>1, <2>2 DEF DeliverTurn, StopTurn, Round
  <2> QED
    BY <2>1, <2>2, <2>3, SameConversation
<1>5. CASE StopWaiting(p) \/ Reset(p)
  <2>1. saved' = saved \/ saved' = StopTurn(saved)
    BY <1>5, CancelRecordIs DEF StopWaiting, Reset, ExploreInv
  <2>2. saved'.conversation = saved.conversation /\ saved'.answers = saved.answers
    BY <1>1, <2>1, StoppedIsWellFormed
  <2>3. closed => closed'
    BY <1>5 DEF StopWaiting, Reset
  <2> QED
    BY <2>2, <2>3, SameConversation
<1>6. CASE CancelCommit(p)
  <2> DEFINE a == checked[p].answer
             gone == AnswersFrom(saved, a)
  <2>1. closed' = closed
    BY <1>6 DEF CancelCommit
  <2>2. CASE closed \/ ~MayCancelFrom(saved, a)
    <3>1. saved' = saved
      BY <1>6, <2>2 DEF CancelCommit
    <3> QED
      BY <2>1, <3>1, SameConversation
  <2>3. CASE ~closed /\ MayCancelFrom(saved, a)
    <3>1. saved' = CancelAnswersFrom(saved, a)
      BY <1>6, <2>3 DEF CancelCommit
    <3>2. saved'.conversation = KeptTurns(saved, gone)
      BY <1>1, <2>3, <3>1, CancelFields
    <3>3. AnswerIds(saved') = AnswerIds(saved) \ gone
      BY <1>1, <2>3, <3>1, CancelIsWellFormed
    <3>4. \A i \in DOMAIN saved.conversation : saved.conversation[i].answer \notin gone =>
            /\ i \in DOMAIN saved'.conversation
            /\ saved'.conversation[i] = saved.conversation[i]
      BY <1>1, <2>3, <3>2, KeptAreFirst DEF MayCancelFrom
    <3> HIDE DEF gone
    <3> QED
      BY <2>3, <3>3, <3>4 DEF HistoryStep, Range
  <2> QED
    BY <2>2, <2>3
<1>7. CASE CancelImplementation(p) \/ \E q \in Ids, latest \in BOOLEAN : CancelCheck(p, q, latest)
  <2>1. saved' = saved /\ closed' = closed
    BY <1>7 DEF CancelImplementation, CancelCheck
  <2> QED
    BY <2>1, SameConversation
<1>8. ASSUME NEW d \in Deliveries, Implement(p, d)
      PROVE  HistoryStep
  <2>1. ~closed /\ MayAuthorize(saved, d) /\ saved' = Authorize(saved, d)
    BY <1>8 DEF Implement, Editable
  <2>2. saved'.conversation = saved.conversation
    BY <1>1, <2>1, AuthorizeIsWellFormed
  <2> QED
    BY <2>1, <2>2, SameConversation
<1> QED
  BY <1>2, <1>3, <1>4, <1>5, <1>6, <1>7, <1>8 DEF Reviewer

\* So does what the agent submits.
LEMMA AgentKeepsHistory ==
    ASSUME ExploreInv, Agent
    PROVE  HistoryStep
<1>1. WellFormed(saved, made) /\ saved \in Round /\ made \in Nat
  BY MadeIsNat DEF ExploreInv
<1>2. PICK m \in received : m.kind = "turn" /\
              (ReviseQuestion(m) \/ \E question \in BOOLEAN : Submission(m, question))
  BY DEF Agent
<1>3. ~closed
  BY <1>2 DEF ReviseQuestion, Submission, Authorized, Editable
<1>4. CASE ReviseQuestion(m)
  <2>1. MayRevise(saved) /\ made < MaxIds /\ saved' = Revise(saved, made + 1)
    BY <1>4 DEF ReviseQuestion
  <2>2. \E t \in ConversationTurn : saved'.conversation = Append(saved.conversation, t)
    BY <1>1, <2>1, ReviseIsWellFormed
  <2> QED
    BY <1>1, <1>3, <2>2, LongerConversation
<1>5. ASSUME NEW question \in BOOLEAN, Submission(m, question)
      PROVE  HistoryStep
  <2>1. MaySubmit(saved, m.id) /\ saved' = Submit(saved, m.id, question) /\ m.id \in Ids
    BY <1>2, <1>5, TurnReceived DEF Submission
  <2>2. \E t \in ConversationTurn : saved'.conversation = Append(saved.conversation, t)
    BY <1>1, <2>1, SubmitIsWellFormed
  <2> QED
    BY <1>1, <1>3, <2>2, LongerConversation
<1> QED
  BY <1>2, <1>4, <1>5

\* So does the delivery of a prompt.
LEMMA DeliveryKeepsHistory ==
    ASSUME ExploreInv, NEW m \in prompts, Begin(m) \/ Send(m) \/ Finish(m)
    PROVE  HistoryStep
<1>1. WellFormed(saved, made)
  BY MadeIsNat DEF ExploreInv
<1>2. /\ m.kind = "turn" => m.id \in Ids
      /\ m.kind # "turn" => m.id \in Deliveries
  BY DispatchTypes DEF ExploreInv
<1>3. closed' = closed
  BY DEF Begin, Send, Finish
<1>4. saved' = saved \/ \E state \in DispatchState : saved' = WithState(saved, m, state)
  <2>1. CASE Begin(m)
    BY <2>1 DEF Begin, BeginDispatch, DispatchState
  <2>2. CASE Send(m)
    BY <2>2 DEF Send
  <2>3. CASE Finish(m)
    <3>1. m.outcome \in DispatchState
      BY <2>3 DEF Finish, ExploreInv, Dispatched, PromptInv, Staged
    <3> QED
      BY <2>3, <3>1 DEF Finish, FinishDispatch
  <2> QED
    BY <2>1, <2>2, <2>3
<1>5. saved'.conversation = saved.conversation /\ saved'.answers = saved.answers
  BY <1>1, <1>2, <1>4, StateIsWellFormed
<1> QED
  BY <1>3, <1>5, SameConversation

\* So does everything else that happens.
LEMMA OthersKeepHistory ==
    ASSUME ExploreInv,
           \/ \E p \in Processes : StorageChanged(p) \/ Restart(p)
           \/ \E f \in failures : PromptFinished(f)
           \/ UNCHANGED vars
    PROVE  HistoryStep
<1>1. saved' = saved \/ saved' = StopTurn(saved)
  BY DEF StorageChanged, Restart, PromptFinished, vars
<1>2. closed' = closed
  BY DEF StorageChanged, Restart, PromptFinished, vars
<1>3. saved'.conversation = saved.conversation /\ saved'.answers = saved.answers
  BY <1>1, MadeIsNat, StoppedIsWellFormed DEF ExploreInv
<1> QED
  BY <1>2, <1>3, SameConversation

\* A turn of the agent goes only with the answer it followed (cancel.rs), and a round that
\* is history keeps its turns and its answers.
THEOREM HistoryStands == Spec => HistoryIsKept
<1>1. ExploreInv /\ [Next]_vars => HistoryStep
  BY ReviewerKeepsHistory, AgentKeepsHistory, DeliveryKeepsHistory, OthersKeepHistory
     DEF Next, Delivery
<1>2. Spec => [][HistoryStep]_vars
  BY <1>1, ExploreInvariant, PTL DEF Spec
<1> QED
  BY <1>2, PTL DEF HistoryIsKept, HistoryStep

-----------------------------------------------------------------------------
(* A workspace with one process. *)

\* A step that gives process p nothing new to wait for.
LEMMA CalmStep ==
    ASSUME NEW p, Processes = {p}, ExploreInv, OneProcess, stale' = stale,
           \/ /\ session'[p].access = session[p].access
              /\ session'[p].pending = session[p].pending
              /\ session[p].shown => session'[p].shown
           \/ session'[p].access = <<>> /\ session'[p].pending = 0,
           \/ saved'.outstanding = 0
           \/ /\ saved'.outstanding = saved.outstanding
              /\ saved'.turns[saved.outstanding].attempt = saved.turns[saved.outstanding].attempt,
           \A m \in prompts' :
               m.kind = "turn" /\ m.stage = "done" /\ m.outcome = "Delivered" =>
                 \E n \in received' : Same(m, n),
           saved.outstanding # 0 /\ saved'.outstanding = saved.outstanding
             /\ session'[p].pending = saved.outstanding
             /\ session[p].pending = saved.outstanding /\ Evidenced(p) => Evidenced(p)'
    PROVE  OneProcess'
<1>1. session \in Sessions
  BY DEF ExploreInv, SessionInv
<1>2. session[p].access # <<>> => session[p].access[1] # 0
  <2>1. session[p].access \in {<<>>} \cup (Ids \X Nat)
    BY <1>1 DEF Sessions, Session
  <2>2. 0 \notin Ids
    BY DEF Ids
  <2> QED
    BY <2>1, <2>2
<1>3. AccessIsLatest'
  BY <1>2 DEF OneProcess, AccessIsLatest
<1>4. \A o \in Processes : session'[o].pending # 0 => session'[o].shown
  BY DEF OneProcess, UnderWay
<1>5. ASSUME saved'.outstanding # 0, session'[p].pending = saved'.outstanding
      PROVE  /\ session'[p].access = <<saved'.outstanding,
                                       saved'.turns[saved'.outstanding].attempt>>
             /\ Evidenced(p)'
  BY <1>5 DEF OneProcess, UnderWay
<1>6. UnderWay'
  BY <1>4, <1>5 DEF UnderWay, Same
<1> QED
  BY <1>3, <1>6 DEF OneProcess, LatestAttemptAnswered

\* What a change of the prompts leaves to wait for.
LEMMA StillEvidenced ==
    ASSUME NEW p, Evidenced(p), closed' = closed \/ closed',
           saved'.outstanding = saved.outstanding,
           saved'.turns[saved.outstanding].attempt = saved.turns[saved.outstanding].attempt,
           \A m \in prompts : m.kind = "turn" => \E n \in prompts' : Same(m, n),
           failures \subseteq failures', received \subseteq received'
    PROVE  Evidenced(p)'
BY DEF Evidenced, Same

\* Withdrawing leaves every prompt where it is, and adds none.
LEMMA WithdrawnStay ==
    ASSUME Dispatched, NEW p, NEW kinds
    PROVE  /\ \A m \in prompts : \E n \in Withdrawn(p, kinds) : Same(m, n)
           /\ \A n \in Withdrawn(p, kinds) : \E m \in prompts : Follows(n, m)
<1>1. \A n \in Withdrawn(p, kinds) : \E m \in prompts : Follows(n, m)
  BY WithdrawnFollow DEF FollowOn
<1>2. ASSUME NEW m \in prompts
      PROVE  \E n \in Withdrawn(p, kinds) : Same(m, n)
  <2> DEFINE off(o) == IF o.by = p /\ o.kind \in kinds
                       THEN [o EXCEPT !.withdrawn = TRUE] ELSE o
  <2>1. off(m) \in Withdrawn(p, kinds)
    BY DEF Withdrawn
  <2>2. m \in PromptRecords
    BY DEF Dispatched, PromptInv
  <2>3. Same(m, off(m))
    BY <2>2 DEF PromptRecords, Same
  <2> QED
    BY <2>1, <2>3
<1> QED
  BY <1>1, <1>2

\* A turn that goes out is what the process waits for, or nothing is.
LEMMA WaitsForTurn ==
    ASSUME NEW p, Processes = {p}, ExploreInv, ExploreInv', OneProcess, stale' = stale,
           NEW q \in Ids, saved'.outstanding \in {0, q}, session'[p].shown,
           \A m \in prompts' :
               m.kind = "turn" /\ m.stage = "done" /\ m.outcome = "Delivered" =>
                 \E n \in received' : Same(m, n),
           \/ saved'.outstanding = 0
           \/ /\ session'[p].access = <<q, saved'.turns[q].attempt>>
              /\ \E m \in prompts' : m.kind = "turn" /\ m.id = q
                                     /\ m.attempt = saved'.turns[q].attempt
    PROVE  OneProcess'
<1>1. session' \in Sessions
  BY DEF ExploreInv, SessionInv
<1>2. session'[p].access # <<>> => session'[p].access[1] # 0
  <2>1. session'[p].access \in {<<>>} \cup (Ids \X Nat)
    BY <1>1 DEF Sessions, Session
  <2>2. 0 \notin Ids
    BY DEF Ids
  <2> QED
    BY <2>1, <2>2
<1>3. AccessIsLatest'
  BY <1>2 DEF AccessIsLatest
<1>4. UnderWay'
  BY DEF UnderWay, Evidenced, Same
<1> QED
  BY <1>3, <1>4 DEF OneProcess, LatestAttemptAnswered

\* A turn delivered has arrived, whatever else becomes of the prompts.
LEMMA DeliveredStays ==
    ASSUME OneProcess, received' = received,
           NEW S, \A m \in S : \E o \in prompts : Follows(m, o)
    PROVE  \A m \in S : m.kind = "turn" /\ m.stage = "done" /\ m.outcome = "Delivered" =>
             \E n \in received' : Same(m, n)
BY DEF OneProcess, UnderWay, Follows, Same

\* A turn that goes out is waited for.
LEMMA TurnWaits ==
    ASSUME NEW p, Processes = {p}, ExploreInv, ExploreInv', OneProcess, NEW r, NEW q \in Ids,
           DeliverTurn(p, r, q), WellFormed(r, made'), r.outstanding = q, session[p].shown,
           received' = received, stale' = stale
    PROVE  OneProcess'
<1> DEFINE m == Prompt(p, "turn", q, r.turns[q].attempt)
<1>1. StopTurn(r).outstanding = 0
  BY StoppedIsWellFormed
<1>2. session \in Sessions /\ p \in Processes
  BY DEF ExploreInv, SessionInv
<1>3. m.kind = "turn" /\ m.id = q /\ m.attempt = r.turns[q].attempt /\ m.stage = "queued"
  BY DEF Prompt
<1>4. \A o \in WithdrawAll(p) : \E l \in prompts : Follows(o, l)
  BY WithdrawnStay DEF ExploreInv, WithdrawAll
<1>5. \/ saved' = r /\ prompts' = WithdrawAll(p) \cup {m}
         /\ session'[p].access = <<q, r.turns[q].attempt>> /\ session'[p].shown = session[p].shown
      \/ saved' = StopTurn(r) /\ prompts' = WithdrawAll(p)
         /\ session'[p].shown = session[p].shown
  <2>1. \A access : LET s == [session EXCEPT ![p].pending = q, ![p].sending = 0,
                                              ![p].access = access]
                     IN  s[p].access = access /\ s[p].shown = session[p].shown
    BY <1>2 DEF Sessions, Session
  <2> QED
    BY <2>1 DEF DeliverTurn
<1> HIDE DEF m
<1>6. \A o \in prompts' :
        o.kind = "turn" /\ o.stage = "done" /\ o.outcome = "Delivered" =>
          \E n \in received' : Same(o, n)
  <2> DEFINE S == WithdrawAll(p)
  <2>1. \A o \in S : \E l \in prompts : Follows(o, l)
    BY <1>4
  <2> HIDE DEF S
  <2>2. \A o \in S : o.kind = "turn" /\ o.stage = "done" /\ o.outcome = "Delivered" =>
          \E n \in received' : Same(o, n)
    BY <2>1, DeliveredStays
  <2> QED
    BY <1>3, <1>5, <2>2 DEF S
<1>7. saved'.outstanding \in {0, q} /\ session'[p].shown
  BY <1>1, <1>5
<1>8. \/ saved'.outstanding = 0
      \/ /\ session'[p].access = <<q, saved'.turns[q].attempt>>
         /\ \E o \in prompts' : o.kind = "turn" /\ o.id = q /\ o.attempt = saved'.turns[q].attempt
  BY <1>1, <1>3, <1>5
<1> QED
  BY <1>6, <1>7, <1>8, WaitsForTurn

\* The reviewer's actions, with one process.
LEMMA ReviewerWaits ==
    ASSUME NEW p, Processes = {p}, ExploreInv, ExploreInv', OneProcess, Reviewer(p)
    PROVE  OneProcess'
<1>1. /\ WellFormed(saved, made) /\ saved \in Round /\ made \in Nat
      /\ session \in Sessions /\ p \in Processes /\ Dispatched
  BY MadeIsNat DEF ExploreInv, SessionInv
<1>2. CASE Kickoff(p)
  <2> DEFINE r == PostKickoff(EmptyRound, 1)
             m == Prompt(p, "turn", 1, 1)
  <2>1. /\ MaxIds > 0 /\ stale' = stale
        /\ \/ /\ saved' = r /\ prompts' = {m}
              /\ session' = [session EXCEPT ![p].shown = TRUE, ![p].pending = 1,
                                            ![p].access = <<1, 1>>]
           \/ /\ saved' = StopTurn(r) /\ prompts' = {}
              /\ session' = [session EXCEPT ![p].shown = TRUE, ![p].pending = 1]
    BY <1>2 DEF Kickoff, history
  <2>2. 1 \in Ids
    BY <2>1, RoundAssumption DEF Ids
  <2>3. /\ r.outstanding = 1 /\ r.turns[1].attempt = 1 /\ StopTurn(r).outstanding = 0
    <3>1. WellFormed(r, 1)
      BY <2>1, KickoffIsWellFormed
    <3>2. EmptyRound \in Round /\ FALSE \in BOOLEAN
      BY EmptyIsWellFormed DEF WellFormed
    <3>3. Pended(EmptyRound, r, 1)
      BY <2>2, <3>2, PendFields DEF PostKickoff
    <3> HIDE DEF r
    <3> QED
      BY <3>1, <3>3, StoppedIsWellFormed DEF Pended
  <2> HIDE DEF r
  <2>4. m.kind = "turn" /\ m.id = 1 /\ m.attempt = 1 /\ m.stage = "queued"
    BY DEF Prompt
  <2> HIDE DEF m
  <2>5. /\ session'[p].shown
        /\ prompts' = {m} => session'[p].access = <<1, 1>>
    <3>1. prompts' = {m} => prompts' # {}
      OBVIOUS
    <3>2. session[p] \in Session
      BY <1>1 DEF Sessions
    <3>3. session'[p].shown
      BY <1>1, <2>1 DEF Sessions, Session
    <3>4. prompts' # {} => session'[p].access = <<1, 1>>
      BY <1>1, <2>1 DEF Sessions, Session
    <3> QED
      BY <3>1, <3>3, <3>4
  <2>6. \A o \in prompts' : o.stage = "queued"
    BY <2>1, <2>4
  <2>7. saved'.outstanding \in {0, 1}
    BY <2>1, <2>3
  <2>8. \/ saved'.outstanding = 0
        \/ /\ session'[p].access = <<1, saved'.turns[1].attempt>>
           /\ \E o \in prompts' : o.kind = "turn" /\ o.id = 1 /\ o.attempt = saved'.turns[1].attempt
    BY <2>1, <2>3, <2>4, <2>5
  <2> QED
    BY <2>1, <2>2, <2>5, <2>6, <2>7, <2>8, WaitsForTurn
<1>3. ASSUME NEW to \in Ids, Answer(p, to)
      PROVE  OneProcess'
  <2> DEFINE q == made + 1
             r == PostAnswer(saved, q, to)
  <2>1. /\ made < MaxIds /\ MayPost(saved, to) /\ made' = q /\ DeliverTurn(p, r, q)
        /\ received' = received /\ stale' = stale /\ session[p].shown
    BY <1>3 DEF Answer, history, Editable, Works
  <2>2. q \in Ids
    BY <1>1, <2>1, RoundAssumption DEF Ids
  <2>3. WellFormed(r, q)
    BY <1>1, <2>1, AnswerIsWellFormed
  <2>4. Pended(saved, r, q)
    BY <1>1, <2>2, AnswerFields
  <2> HIDE DEF r, q
  <2> QED
    BY <2>1, <2>2, <2>3, <2>4, TurnWaits DEF Pended
<1>4. CASE Retry(p)
  <2> DEFINE q == saved.retry
             r == PostAgain(saved, q)
  <2>1. /\ MayPostAgain(saved, q) /\ DeliverTurn(p, r, q) /\ made' = made /\ q \in Ids
        /\ received' = received /\ stale' = stale /\ session[p].shown
    BY <1>4 DEF Retry, history, Editable, Works, MayPostAgain, Turns
  <2>2. WellFormed(r, made) /\ r.outstanding = q
    BY <1>1, <2>1, AgainIsWellFormed
  <2> HIDE DEF r, q
  <2> QED
    BY <2>1, <2>2, TurnWaits
<1>5. CASE StopWaiting(p) \/ Reset(p)
  <2>1. /\ prompts' = WithdrawAll(p) /\ received' = received /\ stale' = stale
    BY <1>5 DEF StopWaiting, Reset, history
  <2>2. session'[p].access = <<>> /\ session'[p].pending = 0
    <3>1. CASE StopWaiting(p)
      <4>1. session' = [session EXCEPT ![p].error = CancelRecord(p).error,
                          ![p].access = <<>>, ![p].pending = 0, ![p].sending = 0]
        BY <3>1 DEF StopWaiting
      <4> QED
        BY <1>1, <4>1 DEF Sessions, Session
    <3>2. CASE Reset(p)
      <4>1. session' = [session EXCEPT ![p] = [Blank EXCEPT !.error = CancelRecord(p).error]]
        BY <3>2 DEF Reset
      <4> QED
        BY <1>1, <4>1 DEF Sessions, Blank
    <3> QED
      BY <1>5, <3>1, <3>2
  <2>3. saved' = saved \/ saved' = StopTurn(saved)
    BY <1>1, <1>5, CancelRecordIs DEF StopWaiting, Reset, ExploreInv
  <2>4. saved'.outstanding = 0 \/ (saved'.outstanding = saved.outstanding /\ saved' = saved)
    BY <1>1, <2>3, StoppedIsWellFormed
  <2>5. \A m \in prompts' : m.kind = "turn" /\ m.stage = "done" /\ m.outcome = "Delivered" =>
          \E n \in received' : Same(m, n)
    BY <1>1, <2>1, WithdrawnStay, DeliveredStays DEF WithdrawAll
  <2> QED
    BY <2>1, <2>2, <2>4, <2>5, CalmStep
<1>6. CASE CancelCommit(p)
  <2> DEFINE a == checked[p].answer
             gone == AnswersFrom(saved, a)
  <2>1. closed' = closed /\ failures' = failures /\ received' = received /\ stale' = stale
        /\ (prompts' = prompts \/ prompts' = WithdrawTurn(p))
    BY <1>6 DEF CancelCommit
  <2>2. \/ saved'.outstanding = 0
        \/ /\ saved'.outstanding = saved.outstanding
           /\ saved'.turns[saved.outstanding].attempt = saved.turns[saved.outstanding].attempt
    <3>1. CASE saved' = saved
      BY <3>1
    <3>2. CASE MayCancelFrom(saved, a) /\ saved' = CancelAnswersFrom(saved, a)
      <4>1. /\ saved'.outstanding = IF saved.retry \in gone THEN 0 ELSE saved.outstanding
            /\ \A q \in Ids : saved'.turns[q] = IF q \in gone THEN NoTurn ELSE saved.turns[q]
        BY <1>1, <3>2, CancelFields
      <4>2. saved.outstanding \in {0, saved.retry} /\ saved.outstanding \in {0} \cup Ids
        BY <1>1 DEF WellFormed, Round
      <4> HIDE DEF gone
      <4> QED
        BY <4>1, <4>2
    <3> QED
      BY <1>6, <3>1, <3>2 DEF CancelCommit
  <2>3. \/ /\ session'[p].access = session[p].access
           /\ session'[p].pending = session[p].pending
           /\ session[p].shown => session'[p].shown
        \/ session'[p].access = <<>> /\ session'[p].pending = 0
    <3>1. \/ session' = session
          \/ session' = [session EXCEPT ![p].error = TRUE]
          \/ session' = [session EXCEPT ![p].pending = 0, ![p].access = <<>>]
      BY <1>6 DEF CancelCommit
    <3> QED
      BY <1>1, <3>1 DEF Sessions, Session
  <2> DEFINE S == prompts'
  <2>4. /\ \A m \in S : \E n \in prompts : Follows(m, n)
        /\ \A m \in prompts : \E n \in S : Same(m, n)
    BY <1>1, <2>1, WithdrawnStay DEF WithdrawTurn, Follows, Same
  <2> HIDE DEF S
  <2>5. \A m \in S : m.kind = "turn" /\ m.stage = "done" /\ m.outcome = "Delivered" =>
          \E n \in received' : Same(m, n)
    BY <2>1, <2>4, DeliveredStays
  <2>6. saved.outstanding # 0 /\ saved'.outstanding = saved.outstanding /\ Evidenced(p)
          => Evidenced(p)'
    BY <2>1, <2>2, <2>4, StillEvidenced DEF S
  <2> QED
    BY <2>1, <2>2, <2>3, <2>5, <2>6, CalmStep DEF S
<1>7. ASSUME NEW kinds, prompts' = Withdrawn(p, kinds) \/ prompts' = prompts
                 \/ \E m : prompts' = Withdrawn(p, kinds) \cup {m} /\ m.stage = "queued",
             session'[p].access = session[p].access,
             session'[p].pending = session[p].pending, session'[p].shown = session[p].shown,
             saved'.outstanding = saved.outstanding, saved'.turns = saved.turns,
             closed' = closed, failures' = failures, received' = received, stale' = stale
      PROVE  OneProcess'
  <2> DEFINE S == Withdrawn(p, kinds)
  <2>1. /\ \A m \in S : \E n \in prompts : Follows(m, n)
        /\ \A m \in prompts : \E n \in S : Same(m, n)
        /\ \A m \in prompts : Follows(m, m) /\ Same(m, m)
    BY <1>1, WithdrawnStay DEF Follows, Same
  <2> HIDE DEF S
  <2>2. \A m \in S \cup prompts :
          m.kind = "turn" /\ m.stage = "done" /\ m.outcome = "Delivered" =>
            \E n \in received' : Same(m, n)
    <3> DEFINE T == S \cup prompts
    <3>1. \A m \in T : \E n \in prompts : Follows(m, n)
      BY <2>1
    <3> HIDE DEF T
    <3>2. \A m \in T : m.kind = "turn" /\ m.stage = "done" /\ m.outcome = "Delivered" =>
            \E n \in received' : Same(m, n)
      BY <1>7, <3>1, DeliveredStays
    <3> QED
      BY <3>2 DEF T
  <2>3. \A m \in prompts' : m.kind = "turn" /\ m.stage = "done" /\ m.outcome = "Delivered" =>
          \E n \in received' : Same(m, n)
    BY <1>7, <2>2 DEF S
  <2>4. \A m \in prompts : \E n \in prompts' : Same(m, n)
    BY <1>7, <2>1 DEF S
  <2>5. Evidenced(p) => Evidenced(p)'
    BY <1>7, <2>4, StillEvidenced
  <2> QED
    BY <1>7, <2>3, <2>5, CalmStep
<1>8. CASE \/ CancelImplementation(p)
           \/ \E q \in Ids, latest \in BOOLEAN : CancelCheck(p, q, latest)
  <2> DEFINE kinds == {"implementation"}
  <2>1. /\ prompts' = Withdrawn(p, kinds) \/ prompts' = prompts
        /\ saved' = saved /\ closed' = closed /\ failures' = failures /\ received' = received
        /\ stale' = stale
        /\ session' = session \/ session' = [session EXCEPT ![p].sending = 0]
    BY <1>8 DEF CancelImplementation, CancelCheck, history
  <2>2. /\ session'[p].access = session[p].access
        /\ session'[p].pending = session[p].pending /\ session'[p].shown = session[p].shown
    BY <1>1, <2>1 DEF Sessions, Session
  <2> HIDE DEF kinds
  <2> QED
    BY <1>7, <2>1, <2>2
<1>9. ASSUME NEW d \in Deliveries, Implement(p, d)
      PROVE  OneProcess'
  <2> DEFINE kinds == {"implementation"}
             m == Prompt(p, "implementation", d, saved'.implementations[d].attempt)
  <2>1. /\ MayAuthorize(saved, d) /\ saved' = Authorize(saved, d)
        /\ prompts' = Withdrawn(p, kinds) \cup {m}
        /\ session' = [session EXCEPT ![p].sending = d]
        /\ closed' = closed /\ failures' = failures /\ received' = received /\ stale' = stale
    BY <1>9 DEF Implement, history
  <2>2. saved'.turns = saved.turns /\ saved'.outstanding = saved.outstanding
    BY <1>1, <2>1, AuthorizeIsWellFormed
  <2>3. /\ session'[p].access = session[p].access
        /\ session'[p].pending = session[p].pending /\ session'[p].shown = session[p].shown
    BY <1>1, <2>1 DEF Sessions, Session
  <2>4. m.stage = "queued"
    BY DEF Prompt
  <2> HIDE DEF kinds, m
  <2> QED
    BY <1>7, <2>1, <2>2, <2>3, <2>4
<1> QED
  BY <1>2, <1>3, <1>4, <1>5, <1>6, <1>8, <1>9 DEF Reviewer

\* The agent's, which an access to the latest attempt allows.
LEMMA AgentWaits ==
    ASSUME NEW p, Processes = {p}, ExploreInv, ExploreInv', OneProcess, Agent
    PROVE  OneProcess'
<1>1. WellFormed(saved, made) /\ saved \in Round /\ made \in Nat /\ session \in Sessions
  BY MadeIsNat DEF ExploreInv, SessionInv
<1>2. PICK m \in received : m.kind = "turn" /\
              (ReviseQuestion(m) \/ \E question \in BOOLEAN : Submission(m, question))
  BY DEF Agent
<1>3. m.id \in Ids /\ m.id # 0 /\ m.by = p
  BY <1>2, TurnReceived
<1>4. /\ prompts' = prompts /\ session' = session /\ received' = received
      /\ closed' = closed /\ failures' = failures
  BY <1>2 DEF ReviseQuestion, Submission, history
<1>5. saved'.outstanding = 0 /\ stale' = stale
  <2>1. CASE ReviseQuestion(m)
    <3>1. MayRevise(saved) /\ made < MaxIds /\ saved' = Revise(saved, made + 1)
          /\ stale' = stale
      BY <2>1 DEF ReviseQuestion, history
    <3>2. saved'.outstanding = saved.outstanding
      BY <1>1, <3>1, ReviseIsWellFormed
    <3> QED
      BY <3>1, <3>2 DEF MayRevise
  <2>2. ASSUME NEW question \in BOOLEAN, Submission(m, question)
        PROVE  saved'.outstanding = 0 /\ stale' = stale
    <3>1. /\ MaySubmit(saved, m.id) /\ saved' = Submit(saved, m.id, question)
          /\ session[m.by].access = <<m.id, m.attempt>>
          /\ stale' = (stale \/ m.attempt # saved.turns[m.id].attempt)
      BY <2>2 DEF Submission, Authorized
    <3>2. saved'.outstanding = 0
      BY <1>1, <1>3, <3>1, SubmitIsWellFormed
    <3>3. m.attempt = saved.turns[m.id].attempt
      <4>1. saved.outstanding = m.id
        BY <3>1 DEF MaySubmit
      <4> QED
        BY <1>3, <3>1, <4>1 DEF OneProcess, AccessIsLatest
    <3> QED
      BY <3>1, <3>2, <3>3 DEF ExploreInv, SessionInv
  <2> QED
    BY <1>2, <2>1, <2>2
<1>6. \A o \in prompts' : o.kind = "turn" /\ o.stage = "done" /\ o.outcome = "Delivered" =>
        \E n \in received' : Same(o, n)
  <2> DEFINE S == prompts
  <2>1. \A o \in S : \E n \in prompts : Follows(o, n)
    BY DEF Follows, Same
  <2> HIDE DEF S
  <2>2. \A o \in S : o.kind = "turn" /\ o.stage = "done" /\ o.outcome = "Delivered" =>
          \E n \in received' : Same(o, n)
    BY <1>4, <2>1, DeliveredStays
  <2> QED
    BY <1>4, <2>2 DEF S
<1> QED
  BY <1>4, <1>5, <1>6, CalmStep

\* The steps of the process that no one asks for.
LEMMA OthersWait ==
    ASSUME NEW p, Processes = {p}, ExploreInv, ExploreInv', OneProcess,
           \/ StorageChanged(p) \/ Restart(p)
           \/ \E f \in failures : PromptFinished(f)
           \/ UNCHANGED vars
    PROVE  OneProcess'
<1>1. /\ WellFormed(saved, made) /\ saved \in Round /\ session \in Sessions /\ p \in Processes
      /\ Dispatched
  BY MadeIsNat DEF ExploreInv, SessionInv
<1>2. /\ received' = received /\ stale' = stale /\ closed' = closed
      /\ saved' = saved \/ saved' = StopTurn(saved)
  BY DEF StorageChanged, Restart, PromptFinished, history, vars
<1>3. \/ saved'.outstanding = 0
      \/ saved'.outstanding = saved.outstanding /\ saved' = saved
  BY <1>1, <1>2, StoppedIsWellFormed
<1>4. \A m \in prompts' : \E n \in prompts : Follows(m, n)
  <2>1. CASE prompts' \subseteq prompts
    BY <2>1 DEF Follows, Same
  <2>2. CASE \E f \in failures : prompts' = WithdrawTurn(f.by)
    BY <1>1, <2>2, WithdrawnStay DEF WithdrawTurn
  <2> QED
    BY <2>1, <2>2 DEF StorageChanged, Restart, PromptFinished, vars
<1>5. \A m \in prompts' : m.kind = "turn" /\ m.stage = "done" /\ m.outcome = "Delivered" =>
        \E n \in received' : Same(m, n)
  <2> DEFINE S == prompts'
  <2>1. \A m \in S : \E n \in prompts : Follows(m, n)
    BY <1>4
  <2> HIDE DEF S
  <2>2. \A m \in S : m.kind = "turn" /\ m.stage = "done" /\ m.outcome = "Delivered" =>
          \E n \in received' : Same(m, n)
    BY <1>2, <2>1, DeliveredStays
  <2> QED
    BY <2>2 DEF S
<1>6. CASE Restart(p) \/ (StorageChanged(p) /\ ~session[p].shown)
  <2>1. PICK shown \in BOOLEAN : session' = [session EXCEPT ![p] = [Blank EXCEPT !.shown = shown]]
    BY <1>6 DEF Restart, StorageChanged
  <2>2. session'[p].access = <<>> /\ session'[p].pending = 0
    BY <1>1, <2>1 DEF Sessions, Blank
  <2> QED
    BY <1>2, <1>3, <1>5, <2>2, CalmStep DEF OneProcess, UnderWay
<1>7. CASE (StorageChanged(p) /\ session[p].shown) \/ UNCHANGED vars
  <2>1. /\ session' = session \/ session' = [session EXCEPT ![p].historical = closed]
        /\ prompts' = prompts /\ failures' = failures /\ saved' = saved
    BY <1>7 DEF StorageChanged, vars
  <2>2. /\ session'[p].access = session[p].access
        /\ session'[p].pending = session[p].pending /\ session'[p].shown = session[p].shown
    BY <1>1, <2>1 DEF Sessions, Session
  <2>3. Evidenced(p) => Evidenced(p)'
    BY <1>2, <2>1 DEF Evidenced
  <2> QED
    BY <1>2, <1>3, <1>5, <2>2, <2>3, CalmStep
<1>8. ASSUME NEW f \in failures, PromptFinished(f)
      PROVE  OneProcess'
  <2>1. failures' = failures \ {f} /\ session' = session
    BY <1>8 DEF PromptFinished
  <2>2. f.by = p /\ f \in Failures
    BY DEF ExploreInv, Dispatched, PromptInv, Failures
  <2>3. CASE /\ session[f.by].pending = f.id /\ session[f.by].shown /\ ~closed
             /\ saved.turns[f.id].attempt = f.attempt /\ saved.outstanding = f.id
    <3>1. saved'.outstanding = 0
      BY <1>1, <1>8, <2>3, StoppedIsWellFormed DEF PromptFinished
    <3> QED
      BY <1>2, <1>5, <2>1, <3>1, CalmStep
  <2>4. CASE ~(/\ session[f.by].pending = f.id /\ session[f.by].shown /\ ~closed
               /\ saved.turns[f.id].attempt = f.attempt /\ saved.outstanding = f.id)
    <3>1. saved' = saved /\ prompts' = prompts
      BY <1>8, <2>4 DEF PromptFinished
    <3>2. ASSUME saved.outstanding # 0, session[p].pending = saved.outstanding, Evidenced(p)
          PROVE  Evidenced(p)'
      <4>1. session[p].shown
        BY <3>2 DEF OneProcess, UnderWay
      <4> DEFINE w == [id |-> saved.outstanding,
                       attempt |-> saved.turns[saved.outstanding].attempt, by |-> p]
      <4>2. w = f => w.id = f.id /\ w.attempt = f.attempt
        OBVIOUS
      <4>3. w = f => closed
        BY <2>2, <2>4, <3>2, <4>1, <4>2
      <4>4. closed \/ w \in failures'
            \/ (\E m \in prompts : m.kind = "turn" /\ m.id = saved.outstanding
                                   /\ m.attempt = saved.turns[saved.outstanding].attempt)
            \/ (\E m \in received : m.kind = "turn" /\ m.id = saved.outstanding
                                   /\ m.attempt = saved.turns[saved.outstanding].attempt)
        BY <2>1, <3>2, <4>3 DEF Evidenced
      <4> QED
        BY <1>2, <3>1, <4>4 DEF Evidenced
    <3> QED
      BY <1>2, <1>3, <1>5, <2>1, <3>1, <3>2, CalmStep
  <2> QED
    BY <2>3, <2>4
<1> QED
  BY <1>6, <1>7, <1>8

\* The delivery of a prompt: only a failure of the latest turn ends the wait.
LEMMA DeliveryWaits ==
    ASSUME SessionAssumption, NEW p, Processes = {p}, ExploreInv, ExploreInv', OneProcess,
           NEW m \in prompts, Begin(m) \/ Send(m) \/ Finish(m)
    PROVE  OneProcess'
<1>1. /\ WellFormed(saved, made) /\ saved \in Round /\ session \in Sessions /\ p \in Processes
      /\ m \in PromptRecords /\ Staged(m) /\ m.by = p
  BY MadeIsNat DEF ExploreInv, SessionInv, Dispatched, PromptInv, PromptRecords
<1>2. session' = session /\ stale' = stale /\ closed' = closed
  BY DEF Begin, Send, Finish, history
<1>3. /\ m.kind = "turn" => m.id \in Ids
      /\ m.kind # "turn" => m.id \in Deliveries
  BY DispatchTypes DEF ExploreInv
<1>4. /\ saved'.outstanding = saved.outstanding
      /\ \A q \in Ids : saved'.turns[q].attempt = saved.turns[q].attempt
  <2>1. saved' = saved \/ \E state \in DispatchState : saved' = WithState(saved, m, state)
    <3>1. CASE Begin(m)
      BY <3>1 DEF Begin, BeginDispatch, DispatchState
    <3>2. CASE Send(m)
      BY <3>2 DEF Send
    <3>3. CASE Finish(m)
      <4>1. m.outcome \in DispatchState
        BY <1>1, <3>3 DEF Finish, Staged
      <4> QED
        BY <3>3, <4>1 DEF Finish, FinishDispatch
    <3> QED
      BY <3>1, <3>2, <3>3
  <2> QED
    BY <1>1, <1>3, <2>1, StateIsWellFormed
<1>5. saved.outstanding \in {0} \cup Ids
  BY <1>1 DEF Round
<1>6. \A o \in prompts : o.kind = "turn" /\ o.stage = "done" /\ o.outcome = "Delivered" =>
        \E n \in received : Same(o, n)
  BY DEF OneProcess, UnderWay
<1>7. ASSUME NEW n, prompts' = (prompts \ {m}) \cup {n}, Same(n, m), received \subseteq received',
             n.kind = "turn" /\ n.stage = "done" /\ n.outcome = "Delivered" =>
               \E o \in received' : Same(n, o),
             failures' = failures
      PROVE  OneProcess'
  <2>1. \A o \in prompts' : o.kind = "turn" /\ o.stage = "done" /\ o.outcome = "Delivered" =>
          \E l \in received' : Same(o, l)
    BY <1>6, <1>7
  <2>2. \A o \in prompts : \E l \in prompts' : Same(o, l)
    BY <1>7 DEF Same
  <2>3. saved.outstanding # 0 /\ Evidenced(p) => Evidenced(p)'
    BY <1>2, <1>4, <1>5, <1>7, <2>2, StillEvidenced
  <2> QED
    BY <1>2, <1>4, <1>5, <2>1, <2>3, CalmStep
<1>8. CASE Begin(m)
  <2>1. /\ received' = received /\ failures' = failures /\ m.outcome = "none"
        /\ m.stage = "queued"
    BY <1>1, <1>8 DEF Begin, history, Staged
  <2>2. \/ \E outcome \in {"Cancelled", "NotSent"} :
             prompts' = (prompts \ {m}) \cup {Ends(m, outcome)}
        \/ prompts' = (prompts \ {m}) \cup {[m EXCEPT !.stage = "attempting", !.began = TRUE]}
    BY <1>8 DEF Begin
  <2>3. ASSUME NEW outcome \in {"Cancelled", "NotSent"},
               prompts' = (prompts \ {m}) \cup {Ends(m, outcome)}
        PROVE  OneProcess'
    <3>1. outcome \in DispatchState /\ outcome # "Delivered"
      BY DEF DispatchState
    <3>2. Same(Ends(m, outcome), m) /\ Ends(m, outcome).outcome = outcome
      BY <1>1, <3>1, EndsFields
    <3> QED
      BY <1>7, <2>1, <2>3, <3>1, <3>2
  <2>4. CASE prompts' = (prompts \ {m}) \cup {[m EXCEPT !.stage = "attempting", !.began = TRUE]}
    <3> DEFINE n == [m EXCEPT !.stage = "attempting", !.began = TRUE]
    <3>1. Same(n, m) /\ n.stage = "attempting"
      BY <1>1, BegunFields
    <3> HIDE DEF n
    <3> QED
      BY <1>7, <2>1, <2>4, <3>1 DEF n
  <2> QED
    BY <2>2, <2>3, <2>4
<1>9. CASE Send(m)
  <2>1. failures' = failures
    BY <1>9 DEF Send
  <2>2. PICK outcome \in Outcomes \cup {"Cancelled"}, arrives \in BOOLEAN :
          /\ outcome = "Delivered" => arrives
          /\ prompts' = (prompts \ {m}) \cup {Ends(m, outcome)}
          /\ received' = IF arrives
                         THEN received \cup {[kind |-> m.kind, id |-> m.id,
                                              attempt |-> m.attempt, by |-> m.by,
                                              started |-> outcome # "NotStarted"]}
                         ELSE received
    BY <1>9 DEF Send
  <2> DEFINE started == outcome # "NotStarted"
             r == [kind |-> m.kind, id |-> m.id, attempt |-> m.attempt, by |-> m.by,
                   started |-> started]
             n == Ends(m, outcome)
  <2>3. outcome \in DispatchState
    BY <2>2, SessionAssumption DEF DispatchState
  <2>4. Same(n, m) /\ n.outcome = outcome
    BY <1>1, <2>3, EndsFields
  <2>5. Same(m, r)
    BY DEF Same
  <2>6. received \subseteq received' /\ (arrives => r \in received')
        /\ prompts' = (prompts \ {m}) \cup {n}
    BY <2>2
  <2> HIDE DEF n, r
  <2>7. n.outcome = "Delivered" => \E o \in received' : Same(n, o)
    <3>1. Same(n, r)
      BY <2>4, <2>5 DEF Same
    <3> QED
      BY <2>2, <2>4, <2>6, <3>1
  <2> QED
    BY <1>7, <2>1, <2>4, <2>6, <2>7
<1>10. CASE Finish(m)
  <2>1. /\ prompts' = prompts \ {m} /\ received' = received /\ m.stage = "done"
        /\ failures' = IF m.kind = "turn" /\ m.outcome # "Delivered"
                       THEN failures \cup {[id |-> m.id, attempt |-> m.attempt, by |-> m.by]}
                       ELSE failures
    BY <1>10 DEF Finish, history
  <2>2. \A o \in prompts' : o.kind = "turn" /\ o.stage = "done" /\ o.outcome = "Delivered" =>
          \E l \in received' : Same(o, l)
    BY <1>6, <2>1
  <2>3. ASSUME saved.outstanding # 0, Evidenced(p)
        PROVE  Evidenced(p)'
    <3> DEFINE q == saved.outstanding
               a == saved.turns[q].attempt
    <3>1. q = saved'.outstanding /\ a = saved'.turns[saved'.outstanding].attempt
      BY <1>4, <1>5, <2>3
    <3>2. \/ closed \/ [id |-> q, attempt |-> a, by |-> p] \in failures
          \/ \E o \in prompts : o.kind = "turn" /\ o.id = q /\ o.attempt = a
          \/ \E o \in received : o.kind = "turn" /\ o.id = q /\ o.attempt = a
      BY <2>3 DEF Evidenced
    <3> HIDE DEF q, a
    <3>3. m.kind = "turn" /\ m.id = q /\ m.attempt = a =>
            \/ [id |-> q, attempt |-> a, by |-> p] \in failures'
            \/ \E o \in received' : o.kind = "turn" /\ o.id = q /\ o.attempt = a
      BY <1>1, <1>6, <2>1 DEF Same
    <3>4. \/ closed' \/ [id |-> q, attempt |-> a, by |-> p] \in failures'
          \/ \E o \in prompts' : o.kind = "turn" /\ o.id = q /\ o.attempt = a
          \/ \E o \in received' : o.kind = "turn" /\ o.id = q /\ o.attempt = a
      BY <1>2, <2>1, <3>2, <3>3
    <3> QED
      BY <3>1, <3>4 DEF Evidenced
  <2> QED
    BY <1>2, <1>4, <1>5, <2>2, <2>3, CalmStep
<1> QED
  BY <1>8, <1>9, <1>10

\* It holds at first, and every step keeps it.
LEMMA OneProcessKeeps ==
    ASSUME NEW p, Processes = {p}
    PROVE  /\ Init => OneProcess
           /\ ExploreInv /\ OneProcess /\ [Next]_vars => OneProcess'
<1>1. Init => OneProcess
  <2> SUFFICES ASSUME Init PROVE OneProcess
    OBVIOUS
  <2>1. /\ saved.outstanding = 0 /\ prompts = {} /\ stale = FALSE
        /\ session[p].access = <<>> /\ session[p].pending = 0
    BY DEF Init, EmptyRound, Blank
  <2> QED
    BY <2>1 DEF OneProcess, AccessIsLatest, UnderWay, LatestAttemptAnswered
<1>2. ASSUME ExploreInv, OneProcess, [Next]_vars
      PROVE  OneProcess'
  <2>1. ExploreInv'
    BY <1>2, NextKeeps
  <2> QED
    BY <1>2, <2>1, SessionAssumption, ReviewerWaits, AgentWaits, OthersWait, DeliveryWaits
       DEF Next, Delivery
<1> QED
  BY <1>1, <1>2

\* "Each prompt has its own MCP access, so an earlier recipient cannot answer a Retry":
\* in a workspace with one reviewer process, the turn accepted answers the latest attempt.
THEOREM LatestIsAnswered ==
    ASSUME NEW p, Processes = {p}
    PROVE  Spec => []LatestAttemptAnswered
<1>1. Init => ExploreInv /\ OneProcess
  BY InitIsSound, OneProcessKeeps
<1>2. (ExploreInv /\ OneProcess) /\ [Next]_vars => (ExploreInv /\ OneProcess)'
  BY NextKeeps, OneProcessKeeps
<1>3. ExploreInv /\ OneProcess => LatestAttemptAnswered
  BY DEF OneProcess
<1> QED
  BY <1>1, <1>2, <1>3, PTL DEF Spec

\* What the only process shows as under way is on its way, or the agent can answer it, or
\* its failure is on its way (deliver_turn, prompt_finished): nobody waits for nothing.
THEOREM NobodyWaitsForNothing ==
    ASSUME NEW p, Processes = {p}
    PROVE  Spec => []WaitingIsJustified
<1>1. Init => ExploreInv /\ OneProcess
  BY InitIsSound, OneProcessKeeps
<1>2. (ExploreInv /\ OneProcess) /\ [Next]_vars => (ExploreInv /\ OneProcess)'
  BY NextKeeps, OneProcessKeeps
<1>3. ExploreInv /\ OneProcess => WaitingIsJustified
  BY DEF OneProcess, UnderWay, Evidenced, WaitingIsJustified, Editable
<1> QED
  BY <1>1, <1>2, <1>3, PTL DEF Spec

-----------------------------------------------------------------------------
(* Delivery, as DispatchLife tells it. *)

\* What became of an attempt that began: it ended before anything arrived of it, and its
\* outcome denies nothing of what did.
Honest(m) ==
    /\ m.stage = "done" =>
         /\ m.outcome \in {"Delivered", "NotStarted", "NotSent", "Cancelled", "Unknown"}
         /\ m.outcome = "Delivered" => \E n \in received : Same(m, n) /\ n.started
    /\ \A n \in received : Same(m, n) =>
         m.stage = "done" /\ m.outcome \in IF n.started THEN {"Delivered", "Unknown"}
                                           ELSE {"NotStarted", "Unknown"}

\* What the attempts on their way will report is true.
Reports == \A m \in prompts : m.began => Honest(m)

\* The invariant of the refinement.
LifeInv == ExploreInv /\ Reports

\* A prompt that goes on as it was stays honest.
LEMMA HonestFollows ==
    ASSUME NEW m, NEW o, Follows(m, o), Honest(o), received' = received
    PROVE  Honest(m)'
BY DEF Honest, Follows, Same

\* Prompts that were there, and those that did not begin, are honest.
LEMMA HonestGoOn ==
    ASSUME LifeInv, received' = received,
           \A m \in prompts' : m.began => \E o \in prompts : Follows(m, o)
    PROVE  Reports'
<1> SUFFICES ASSUME NEW m \in prompts', m.began PROVE Honest(m)'
  BY DEF Reports
<1>1. PICK o \in prompts : Follows(m, o)
  OBVIOUS
<1>2. Honest(o)
  BY <1>1 DEF Follows, LifeInv, Reports
<1> QED
  BY <1>1, <1>2, HonestFollows

\* Prompts withdrawn, with one more or none, have nothing new to report.
LEMMA HonestWithdrawn ==
    ASSUME LifeInv, received' = received, NEW p, NEW kinds, NEW N, \A m \in N : ~m.began,
           prompts' = Withdrawn(p, kinds) \cup N
    PROVE  Reports'
<1>1. \A m \in Withdrawn(p, kinds) : \E o \in prompts : Follows(m, o)
  BY WithdrawnFollow DEF FollowOn, LifeInv, ExploreInv
<1>2. \A m \in prompts' : m.began => m \in Withdrawn(p, kinds)
  OBVIOUS
<1> QED
  BY <1>1, <1>2, HonestGoOn

\* The same without a new prompt.
LEMMA WithdrawnOnly ==
    ASSUME LifeInv, received' = received, NEW p, NEW kinds, prompts' = Withdrawn(p, kinds)
    PROVE  Reports'
<1> DEFINE N == {}
<1>1. prompts' = Withdrawn(p, kinds) \cup N /\ \A m \in N : ~m.began
  OBVIOUS
<1> HIDE DEF N
<1> QED
  BY <1>1, HonestWithdrawn

\* A prompt that is new waits.
LEMMA PromptWaits ==
    ASSUME NEW p, NEW kind, NEW id, NEW attempt
    PROVE  ~Prompt(p, kind, id, attempt).began /\ Prompt(p, kind, id, attempt).stage = "queued"
BY DEF Prompt

\* What a prompt that is sent reports, the agent's side confirms.
LEMMA SendIsHonest ==
    ASSUME SessionAssumption, LifeInv, NEW m \in prompts, Send(m)
    PROVE  Reports'
<1> DEFINE k(outcome) == [kind |-> m.kind, id |-> m.id, attempt |-> m.attempt, by |-> m.by,
                          started |-> outcome # "NotStarted"]
<1>1. PICK outcome \in Outcomes \cup {"Cancelled"}, arrives \in BOOLEAN :
        /\ outcome = "Delivered" => arrives
        /\ outcome \in {"Cancelled", "NotSent"} => ~arrives
        /\ prompts' = (prompts \ {m}) \cup {Ends(m, outcome)}
        /\ received' = IF arrives THEN received \cup {k(outcome)} ELSE received
  BY DEF Send
<1>2. outcome \in {"Delivered", "NotStarted", "NotSent", "Cancelled", "Unknown"}
      /\ outcome \in DispatchState
  BY SessionAssumption DEF DispatchState
<1>3. m \in PromptRecords /\ m.began /\ m.stage = "attempting"
  BY DEF Send, LifeInv, ExploreInv, Dispatched, PromptInv, Staged
<1> DEFINE n == Ends(m, outcome)
           r == k(outcome)
<1>4. Same(n, m) /\ n.stage = "done" /\ n.outcome = outcome
  BY <1>2, <1>3, EndsFields
<1>5. Same(r, m) /\ r.started = (outcome # "NotStarted")
  BY DEF Same
<1>6. prompts' = (prompts \ {m}) \cup {n}
      /\ received' = IF arrives THEN received \cup {r} ELSE received
  BY <1>1
<1> HIDE DEF n, r, k
<1>7. \A x \in received : ~Same(m, x)
  BY <1>3 DEF LifeInv, Reports, Honest
<1>8. ASSUME NEW o \in prompts \ {m}, o.began
      PROVE  Honest(o)'
  <2>1. ~Same(o, m)
    BY <1>3, <1>8 DEF LifeInv, ExploreInv, Dispatched, BegunOnce
  <2>2. ~Same(o, r)
    BY <1>5, <2>1 DEF Same
  <2>3. Honest(o)
    BY <1>8 DEF LifeInv, Reports
  <2> QED
    BY <1>6, <2>2, <2>3 DEF Honest
<1>9. Honest(n)'
  <2>1. \A x \in received : ~Same(n, x)
    BY <1>4, <1>7 DEF Same
  <2>2. Same(n, r)
    BY <1>4, <1>5 DEF Same
  <2>3. outcome = "Delivered" => r \in received' /\ r.started
    BY <1>1, <1>5, <1>6
  <2>4. \A x \in received' : Same(n, x) => x = r /\ arrives
    BY <1>6, <2>1
  <2>5. arrives => outcome \in IF r.started THEN {"Delivered", "Unknown"}
                               ELSE {"NotStarted", "Unknown"}
    BY <1>1, <1>2, <1>5
  <2> QED
    BY <1>2, <1>4, <2>2, <2>3, <2>4, <2>5 DEF Honest
<1> QED
  BY <1>6, <1>8, <1>9 DEF Reports

\* A prompt that begins has nothing to report yet, and nothing arrived of it.
LEMMA BeginIsHonest ==
    ASSUME LifeInv, NEW m \in prompts, Begin(m)
    PROVE  Reports'
<1>1. m \in PromptRecords /\ Staged(m) /\ ~m.began
  BY DEF Begin, LifeInv, ExploreInv, Dispatched, PromptInv, Staged
<1>2. received' = received
  BY DEF Begin, history
<1>3. \A o \in prompts : Follows(o, o)
  BY DEF Follows, Same
<1>4. CASE \E outcome \in {"Cancelled", "NotSent"} :
             prompts' = (prompts \ {m}) \cup {Ends(m, outcome)}
  <2>1. PICK outcome \in {"Cancelled", "NotSent"} :
               prompts' = (prompts \ {m}) \cup {Ends(m, outcome)}
    BY <1>4
  <2>2. outcome \in DispatchState
    BY DEF DispatchState
  <2>3. ~Ends(m, outcome).began
    BY <1>1, <2>2, EndsFields
  <2> QED
    BY <1>2, <1>3, <2>1, <2>3, HonestGoOn
<1>5. CASE /\ MayBegin(saved, m)
           /\ prompts' = (prompts \ {m})
                           \cup {[m EXCEPT !.stage = "attempting", !.began = TRUE]}
  <2> DEFINE n == [m EXCEPT !.stage = "attempting", !.began = TRUE]
  <2>1. Same(n, m) /\ n.stage = "attempting"
    BY <1>1, BegunFields
  <2>2. prompts' = (prompts \ {m}) \cup {n}
    BY <1>5
  <2> HIDE DEF n
  <2>3. \A x \in received : ~Same(x, m)
    BY <1>5 DEF MayBegin, LifeInv, ExploreInv, Dispatched, ReceivedStands, Same, Current,
                StateOf, Undenied
  <2>4. Honest(n)'
    BY <1>2, <2>1, <2>3 DEF Honest, Same
  <2>5. ASSUME NEW o \in prompts, o.began
        PROVE  Honest(o)'
    <3>1. Honest(o)
      BY <2>5 DEF LifeInv, Reports
    <3> QED
      BY <1>2, <1>3, <3>1, HonestFollows
  <2> QED
    BY <2>2, <2>4, <2>5 DEF Reports
<1> QED
  BY <1>4, <1>5 DEF Begin

\* Every step keeps what the attempts report true.
LEMMA LifeKeeps == LifeInv /\ [Next]_vars => LifeInv'
<1> SUFFICES ASSUME LifeInv, [Next]_vars PROVE LifeInv'
  OBVIOUS
<1> SUFFICES Reports'
  BY NextKeeps DEF LifeInv
<1>1. \A o \in prompts : Follows(o, o)
  BY DEF Follows, Same
<1>2. ASSUME prompts' \subseteq prompts, received' = received
      PROVE  Reports'
  BY <1>1, <1>2, HonestGoOn
<1>3. ASSUME NEW p \in Processes, Reviewer(p)
      PROVE  Reports'
  <2>1. received' = received
    BY <1>3 DEF Reviewer, Kickoff, Answer, Retry, StopWaiting, CancelCheck, CancelCommit,
                Implement, CancelImplementation, Reset, history
  <2>2. ASSUME NEW q, NEW r, DeliverTurn(p, r, q)
        PROVE  Reports'
    <3> DEFINE N == {Prompt(p, "turn", q, r.turns[q].attempt)}
    <3>1. \A m \in N : ~m.began
      BY PromptWaits
    <3>2. \/ prompts' = WithdrawAll(p) \cup N
          \/ prompts' = WithdrawAll(p) \cup {}
      BY <2>2 DEF DeliverTurn
    <3> HIDE DEF N
    <3> DEFINE kinds == {"turn", "implementation"}
    <3>3. prompts' = Withdrawn(p, kinds) \cup N \/ prompts' = Withdrawn(p, kinds)
      BY <3>2 DEF WithdrawAll
    <3> HIDE DEF kinds
    <3>4. CASE prompts' = Withdrawn(p, kinds) \cup N
      BY <2>1, <3>1, <3>4, HonestWithdrawn
    <3>5. CASE prompts' = Withdrawn(p, kinds)
      BY <2>1, <3>5, WithdrawnOnly
    <3> QED
      BY <3>3, <3>4, <3>5
  <2>3. CASE Kickoff(p)
    <3>1. prompts' \subseteq {Prompt(p, "turn", 1, 1)}
      BY <2>3 DEF Kickoff
    <3> QED
      BY <2>1, <3>1, PromptWaits, HonestGoOn
  <2>4. CASE Retry(p)
    BY <2>2, <2>4 DEF Retry
  <2>5. CASE \E q \in Ids : Answer(p, q)
    BY <2>2, <2>5 DEF Answer
  <2>6. CASE \E d \in Deliveries : Implement(p, d)
    <3>1. PICK a, d : prompts' = Withdrawn(p, {"implementation"})
                                   \cup {Prompt(p, "implementation", d, a)}
      BY <2>6 DEF Implement
    <3> DEFINE N == {Prompt(p, "implementation", d, a)}
    <3>2. \A m \in N : ~m.began
      BY PromptWaits
    <3>3. prompts' = Withdrawn(p, {"implementation"}) \cup N
      BY <3>1
    <3> HIDE DEF N
    <3> QED
      BY <2>1, <3>2, <3>3, HonestWithdrawn
  <2>7. ASSUME NEW kinds, prompts' = Withdrawn(p, kinds)
        PROVE  Reports'
    BY <2>1, <2>7, WithdrawnOnly
  <2>8. CASE StopWaiting(p) \/ CancelImplementation(p) \/ Reset(p)
    BY <2>7, <2>8 DEF StopWaiting, CancelImplementation, Reset, WithdrawAll
  <2>9. CASE CancelCommit(p)
    <3>1. prompts' = prompts \/ prompts' = WithdrawTurn(p)
      BY <2>9 DEF CancelCommit
    <3> QED
      BY <1>2, <2>1, <2>7, <3>1 DEF WithdrawTurn
  <2>10. CASE \E q \in Ids, latest \in BOOLEAN : CancelCheck(p, q, latest)
    <3>1. prompts' = prompts
      BY <2>10 DEF CancelCheck
    <3> QED
      BY <1>2, <2>1, <3>1
  <2> QED
    BY <1>3, <2>3, <2>4, <2>5, <2>6, <2>8, <2>9, <2>10 DEF Reviewer
<1>4. ASSUME NEW p \in Processes, StorageChanged(p) \/ Restart(p)
      PROVE  Reports'
  <2>1. prompts' \subseteq prompts /\ received' = received
    BY <1>4 DEF StorageChanged, Restart, history
  <2> QED
    BY <1>2, <2>1
<1>5. ASSUME NEW f \in failures, PromptFinished(f)
      PROVE  Reports'
  <2>1. received' = received /\ (prompts' = prompts \/ prompts' = WithdrawTurn(f.by))
    BY <1>5 DEF PromptFinished, history
  <2>2. CASE prompts' = prompts
    BY <1>2, <2>1, <2>2
  <2>3. CASE prompts' = WithdrawTurn(f.by)
    BY <2>1, <2>3, WithdrawnOnly DEF WithdrawTurn
  <2> QED
    BY <2>1, <2>2, <2>3
<1>6. CASE Agent
  <2>1. prompts' = prompts /\ received' = received
    BY <1>6 DEF Agent, ReviseQuestion, Submission, history
  <2> QED
    BY <1>2, <2>1
<1>7. CASE Delivery
  <2>1. PICK m \in prompts : Begin(m) \/ Send(m) \/ Finish(m)
    BY <1>7 DEF Delivery
  <2>2. CASE Finish(m)
    <3>1. prompts' \subseteq prompts /\ received' = received
      BY <2>2 DEF Finish, history
    <3> QED
      BY <1>2, <3>1
  <2> QED
    BY <2>1, <2>2, SessionAssumption, BeginIsHonest, SendIsHonest
<1>8. CASE UNCHANGED vars
  <2>1. prompts' = prompts /\ received' = received
    BY <1>8 DEF vars
  <2> QED
    BY <1>2, <2>1
<1> QED
  BY <1>3, <1>4, <1>5, <1>6, <1>7, <1>8 DEF Next

\* A request is a turn of the round or an implementation of its conclusion.
LEMMA RequestsAre ==
    /\ \A q \in Requests :
         \/ q.kind = "turn" /\ q.id \in Ids /\ q \notin Sends
         \/ q.kind = "implementation" /\ q.id \in Deliveries /\ q \in Sends
    /\ \A q, o \in Requests : q.kind = o.kind /\ q.id = o.id => q = o
    /\ \A q \in Ids : [kind |-> "turn", id |-> q] \in Requests
    /\ \A d \in Deliveries : [kind |-> "implementation", id |-> d] \in Requests
BY DEF Requests, Sends

\* What a prompt, and what arrived of one, is an attempt of.
LEMMA RequestOfIs ==
    ASSUME Dispatched, NEW m \in prompts \cup received
    PROVE  /\ RequestOf(m) \in Requests
           /\ RequestOf(m).kind = m.kind /\ RequestOf(m).id = m.id
BY DispatchTypes DEF RequestOf, Requests, Sends, Kinds

\* The record of a request, found by it and by any attempt of it.
LEMMA OnRecord ==
    ASSUME NEW r, NEW m, NEW q, q.kind = m.kind, q.id = m.id
    PROVE  /\ StateOf(r, q) = StateOf(r, m)
           /\ Current(r, m) <=> AttemptOf(r, q) = m.attempt
BY DEF StateOf, Current, AttemptOf

\* The attempts are numbered from 1.
LEMMA AttemptTypes ==
    ASSUME RoundInv, NEW q \in Requests
    PROVE  AttemptOf(saved, q) \in Nat
<1>1. saved \in Round
  BY MadeIsNat
<1> QED
  BY <1>1, RequestsAre, RecordTypes DEF AttemptOf

\* What DispatchLife sees of the round: the same attempts on record and on their way.
Unseen ==
    /\ \A q \in Requests : AttemptOf(saved', q) = AttemptOf(saved, q)
    /\ \A q \in Requests : AttemptOf(saved, q) # 0 => StateOf(saved', q) = StateOf(saved, q)
    /\ made' = made

\* A record that says the same of its dispatches, says the same of the requests.
LEMMA SameIsUnseen ==
    ASSUME SameDispatches(saved, saved'), made' = made
    PROVE  Unseen
BY RequestsAre DEF SameDispatches, Unseen, AttemptOf, StateOf

\* Of such a step the mapping shows nothing.
LEMMA UnseenMaps ==
    ASSUME Unseen
    PROVE  Attempts' = Attempts /\ States' = States /\ Gone' = Gone
<1>1. Attempts' = Attempts
  BY DEF Unseen, Attempts
<1>2. States' = States
  BY DEF Unseen, States
<1>3. Gone' = Gone
  BY DEF Unseen, Gone
<1> QED
  BY <1>1, <1>2, <1>3

\* Prompts that wait, or have ended, are not being sent.
LEMMA SendingIs ==
    ASSUME \A m \in prompts' : m.stage = "attempting" => \E o \in prompts : Follows(m, o),
           \A o \in prompts : o.stage = "attempting" =>
               \E m \in prompts' : Same(m, o) /\ m.stage = "attempting"
    PROVE  Sending' = Sending
<1>1. ASSUME NEW m, NEW o, Same(m, o)
      PROVE  <<RequestOf(m), m.attempt>> = <<RequestOf(o), o.attempt>>
  BY <1>1 DEF Same, RequestOf
<1>2. Sending' \subseteq Sending
  BY <1>1 DEF Sending, Follows
<1>3. Sending \subseteq Sending'
  BY <1>1 DEF Sending
<1> QED
  BY <1>2, <1>3

\* Withdrawing does not stop what is being sent.
LEMMA SendingGoesOn ==
    ASSUME Dispatched, NEW p, NEW kinds, NEW N, \A m \in N : m.stage = "queued",
           prompts' = Withdrawn(p, kinds) \cup N
    PROVE  Sending' = Sending
<1>1. \A m \in Withdrawn(p, kinds) : \E o \in prompts : Follows(m, o)
  BY WithdrawnFollow DEF FollowOn
<1>2. ASSUME NEW o \in prompts, o.stage = "attempting"
      PROVE  \E m \in Withdrawn(p, kinds) : Same(m, o) /\ m.stage = "attempting"
  <2> DEFINE off(m) == IF m.by = p /\ m.kind \in kinds
                       THEN [m EXCEPT !.withdrawn = TRUE] ELSE m
  <2>1. off(o) \in Withdrawn(p, kinds)
    BY DEF Withdrawn
  <2>2. o \in PromptRecords
    BY DEF Dispatched, PromptInv
  <2>3. Same(off(o), o) /\ off(o).stage = "attempting"
    BY <1>2, <2>2 DEF PromptRecords, Same
  <2> QED
    BY <2>1, <2>3
<1> QED
  BY <1>1, <1>2, SendingIs

\* The same without a new prompt.
LEMMA SendingWithdrawn ==
    ASSUME Dispatched, NEW p, NEW kinds, prompts' = Withdrawn(p, kinds)
    PROVE  Sending' = Sending
<1> DEFINE N == {}
<1>1. prompts' = Withdrawn(p, kinds) \cup N /\ \A m \in N : m.stage = "queued"
  OBVIOUS
<1> HIDE DEF N
<1> QED
  BY <1>1, SendingGoesOn

\* A step that DispatchLife does not see.
LEMMA Stutters ==
    ASSUME Unseen, Sending' = Sending, received' = received
    PROVE  UNCHANGED Life!vars
<1>1. Got' = Got
  BY DEF Got
<1> QED
  BY <1>1, UnseenMaps DEF Life!vars

\* A new attempt of a request: the first of one that has the next number or is an
\* implementation, or another where the agent did not start.
LEMMA Asks ==
    ASSUME RoundInv, NEW q \in Requests,
           \/ made' = made /\ (q.kind = "turn" => AttemptOf(saved, q) # 0)
           \/ q.kind = "turn" /\ q.id = made + 1 /\ made' = made + 1,
           q \in Sends => Life!MayRetry(q),
           \A o \in Requests \ {q} :
               /\ AttemptOf(saved', o) = AttemptOf(saved, o)
               /\ AttemptOf(saved, o) # 0 => StateOf(saved', o) = StateOf(saved, o),
           AttemptOf(saved', q) = AttemptOf(saved, q) + 1, StateOf(saved', q) = "Queued",
           Sending' = Sending, received' = received
    PROVE  Life!Ask(q)
<1>1. AttemptOf(saved, q) \in Nat /\ made \in Nat
  BY AttemptTypes, MadeIsNat
<1>2. AttemptOf(saved', q) # 0
  BY <1>1
<1>3. Got' = Got
  BY DEF Got
<1>4. Attempts' = [Attempts EXCEPT ![q] = @ + 1]
  BY DEF Attempts
<1>5. States' = [States EXCEPT ![q] = "Queued"]
  BY <1>2 DEF States
<1>6. q \notin Gone
  BY <1>1 DEF Gone
<1>7. ASSUME NEW o \in Requests
      PROVE  o \in Gone' <=> o \in Gone
  <2>1. CASE o = q
    BY <1>2, <1>6, <2>1 DEF Gone
  <2>2. CASE o # q /\ made' = made
    BY <2>2 DEF Gone
  <2>3. CASE o # q /\ q.kind = "turn" /\ q.id = made + 1 /\ made' = made + 1
    <3>1. o.kind = "turn" => o.id \in Nat /\ o.id # made + 1
      BY <2>3, RequestsAre DEF Ids
    <3>2. o.kind = "turn" => (o.id <= made' <=> o.id <= made)
      BY <1>1, <2>3, <3>1
    <3> QED
      BY <2>3, <3>2 DEF Gone
  <2> QED
    BY <2>1, <2>2, <2>3
<1>8. Gone' = Gone
  BY <1>7 DEF Gone
<1> QED
  BY <1>3, <1>4, <1>5, <1>6, <1>8 DEF Life!Ask

\* A turn that goes out is a new attempt of its request.
LEMMA TurnAsks ==
    ASSUME ExploreInv, NEW p \in Processes, NEW r, NEW q \in Ids, DeliverTurn(p, r, q),
           WellFormed(r, made'), r.implementations = saved.implementations,
           r.turns[q].state = "Queued",
           \A o \in Ids \ {q} : r.turns[o] = saved.turns[o],
           r.turns[q].attempt = saved.turns[q].attempt + 1,
           \/ made' = made /\ q \in Turns(saved)
           \/ q = made + 1 /\ made' = made + 1,
           received' = received
    PROVE  \E request \in Requests : Life!Ask(request)
<1> DEFINE request == [kind |-> "turn", id |-> q]
<1>1. request \in Requests /\ request \notin Sends /\ request.kind = "turn" /\ request.id = q
  BY RequestsAre DEF Sends
<1>2. saved'.turns = r.turns /\ saved'.implementations = saved.implementations
  <2>1. saved' = r \/ saved' = StopTurn(r)
    BY DEF DeliverTurn
  <2> QED
    BY <2>1, StoppedIsWellFormed
<1>3. Sending' = Sending
  <2> DEFINE N == {Prompt(p, "turn", q, r.turns[q].attempt)}
             kinds == {"turn", "implementation"}
  <2>1. (\A m \in N : m.stage = "queued") /\ Dispatched
    BY PromptWaits DEF ExploreInv
  <2>2. prompts' = Withdrawn(p, kinds) \cup N \/ prompts' = Withdrawn(p, kinds)
    BY DEF DeliverTurn, WithdrawAll
  <2> HIDE DEF N, kinds
  <2>3. CASE prompts' = Withdrawn(p, kinds) \cup N
    BY <2>1, <2>3, SendingGoesOn
  <2>4. CASE prompts' = Withdrawn(p, kinds)
    BY <2>1, <2>4, SendingWithdrawn
  <2> QED
    BY <2>2, <2>3, <2>4
<1> HIDE DEF request
<1>4. ASSUME NEW o \in Requests \ {request}
      PROVE  AttemptOf(saved', o) = AttemptOf(saved, o) /\ StateOf(saved', o) = StateOf(saved, o)
  <2>1. o.kind = "turn" => o.id \in Ids \ {q}
    BY <1>1, RequestsAre
  <2> QED
    BY <1>2, <2>1 DEF AttemptOf, StateOf
<1>5. /\ AttemptOf(saved', request) = AttemptOf(saved, request) + 1
      /\ StateOf(saved', request) = "Queued"
      /\ q \in Turns(saved) => AttemptOf(saved, request) # 0
  BY <1>1, <1>2 DEF AttemptOf, StateOf, Turns
<1>6. Life!Ask(request)
  BY <1>1, <1>3, <1>4, <1>5, Asks DEF ExploreInv
<1> QED
  BY <1>1, <1>6

\* An answer goes out as the first attempt of a new request.
LEMMA AnswerAsks ==
    ASSUME ExploreInv, NEW p \in Processes, NEW to \in Ids, Answer(p, to)
    PROVE  \E request \in Requests : Life!Ask(request)
<1> DEFINE q == made + 1
           r == PostAnswer(saved, q, to)
<1>1. /\ made < MaxIds /\ MayPost(saved, to) /\ made' = q /\ DeliverTurn(p, r, q)
      /\ received' = received
  BY DEF Answer, history
<1>2. made \in Nat /\ saved \in Round /\ WellFormed(saved, made)
  BY MadeIsNat DEF ExploreInv
<1>3. q \in Ids /\ q \in Nat
  BY <1>1, <1>2, RoundAssumption DEF Ids
<1>4. WellFormed(r, q)
  BY <1>1, <1>2, AnswerIsWellFormed
<1>5. Pended(saved, r, q)
  BY <1>2, <1>3, AnswerFields
<1>6. saved.turns[q].attempt = 0
  BY <1>2, <1>3 DEF WellFormed, Numbered, Turns
<1> HIDE DEF r
<1> QED
  BY <1>1, <1>3, <1>4, <1>5, <1>6, TurnAsks DEF Pended

\* So does a turn that is sent again.
LEMMA RetryAsks ==
    ASSUME ExploreInv, NEW p \in Processes, Retry(p)
    PROVE  \E request \in Requests : Life!Ask(request)
<1> DEFINE q == saved.retry
           r == PostAgain(saved, q)
<1>1. /\ q # 0 /\ MayPostAgain(saved, q) /\ DeliverTurn(p, r, q) /\ made' = made
      /\ received' = received
  BY DEF Retry, history
<1>2. WellFormed(saved, made)
  BY MadeIsNat DEF ExploreInv
<1>3. q \in Ids /\ q \in Turns(saved)
  BY <1>1, <1>2 DEF WellFormed, Turns, Round
<1> HIDE DEF q
<1>4. /\ WellFormed(r, made) /\ r.implementations = saved.implementations
      /\ r.turns[q].attempt = saved.turns[q].attempt + 1 /\ r.turns[q].state = "Queued"
      /\ \A o \in Ids \ {q} : r.turns[o] = saved.turns[o]
  BY <1>1, <1>2, <1>3, AgainIsWellFormed
<1> HIDE DEF r
<1> QED
  BY <1>1, <1>3, <1>4, TurnAsks

\* And the first turn of a round, of which nothing was on record.
LEMMA KickoffAsks ==
    ASSUME ExploreInv, NEW p \in Processes, Kickoff(p)
    PROVE  \E request \in Requests : Life!Ask(request)
<1> DEFINE r == PostKickoff(EmptyRound, 1)
           request == [kind |-> "turn", id |-> 1]
<1>1. made = 0 /\ MaxIds > 0 /\ made' = 1 /\ received' = received
      /\ (saved' = r \/ saved' = StopTurn(r)) /\ prompts' \subseteq {Prompt(p, "turn", 1, 1)}
  BY DEF Kickoff, history
<1>2. prompts = {} /\ \A q \in Requests : AttemptOf(saved, q) = 0
  <2>1. saved.conversation = <<>> /\ prompts = {} /\ WellFormed(saved, 0)
    BY <1>1, NothingYet, MadeIsNat DEF ExploreInv
  <2>2. \A d \in Deliveries : saved.implementations[d].attempt = 0
    BY <2>1 DEF WellFormed, Concludes, Implementations
  <2>3. \A q \in Ids : saved.turns[q].attempt = 0
    <3>1. \A q \in Ids : ~(q <= 0)
      BY RoundAssumption DEF Ids
    <3> QED
      BY <2>1, <3>1 DEF WellFormed, Numbered, Turns
  <2> QED
    BY <2>1, <2>2, <2>3, RequestsAre DEF AttemptOf
<1>3. 1 \in Ids /\ 1 = 0 + 1
  BY <1>1, RoundAssumption DEF Ids
<1>4. /\ saved'.turns[1].attempt = 1 /\ saved'.turns[1].state = "Queued"
      /\ \A q \in Ids \ {1} : saved'.turns[q].attempt = 0
      /\ \A d \in Deliveries : saved'.implementations[d].attempt = 0
  <2>1. EmptyRound \in Round /\ FALSE \in BOOLEAN
    BY EmptyIsWellFormed DEF WellFormed
  <2>2. Pended(EmptyRound, r, 1)
    BY <1>3, <2>1, PendFields DEF PostKickoff
  <2>3. WellFormed(r, 1)
    BY <1>1, KickoffIsWellFormed
  <2> HIDE DEF r
  <2>4. saved'.turns = r.turns /\ saved'.implementations = r.implementations
    BY <1>1, <2>3, StoppedIsWellFormed
  <2>5. /\ \A q \in Ids : EmptyRound.turns[q].attempt = 0
        /\ \A d \in Deliveries : EmptyRound.implementations[d].attempt = 0
    BY DEF EmptyRound, NoTurn, NoDelivery
  <2> QED
    BY <2>2, <2>4, <2>5 DEF Pended
<1>5. Sending' = Sending
  BY <1>1, <1>2, PromptWaits, SendingIs
<1>6. request \in Requests /\ request \notin Sends /\ request.kind = "turn" /\ request.id = 1
  BY <1>3, RequestsAre DEF Sends
<1> HIDE DEF request, r
<1>7. ASSUME NEW o \in Requests \ {request}
      PROVE  AttemptOf(saved', o) = 0
  <2>1. o.kind = "turn" => o.id \in Ids \ {1}
    BY <1>6, RequestsAre
  <2> QED
    BY <1>4, <2>1, RequestsAre DEF AttemptOf
<1>8. AttemptOf(saved', request) = 1 /\ StateOf(saved', request) = "Queued"
  BY <1>4, <1>6 DEF AttemptOf, StateOf
<1>9. Life!Ask(request)
  BY <1>1, <1>2, <1>3, <1>5, <1>6, <1>7, <1>8, Asks DEF ExploreInv
<1> QED
  BY <1>6, <1>9

\* An implementation is asked for only where the agent is known not to have started.
LEMMA ImplementAsks ==
    ASSUME ExploreInv, NEW p \in Processes, NEW d \in Deliveries, Implement(p, d)
    PROVE  \E request \in Requests : Life!Ask(request)
<1> DEFINE request == [kind |-> "implementation", id |-> d]
           N == {Prompt(p, "implementation", d, saved'.implementations[d].attempt)}
<1>1. /\ MayAuthorize(saved, d) /\ saved' = Authorize(saved, d) /\ made' = made
      /\ received' = received /\ prompts' = Withdrawn(p, {"implementation"}) \cup N
  BY DEF Implement, history
<1>2. WellFormed(saved, made) /\ Dispatched
  BY MadeIsNat DEF ExploreInv
<1>3. /\ saved'.turns = saved.turns
      /\ saved'.implementations[d].attempt = saved.implementations[d].attempt + 1
      /\ saved'.implementations[d].state = "Queued"
      /\ \A e \in Deliveries \ {d} : saved'.implementations[e] = saved.implementations[e]
  BY <1>1, <1>2, AuthorizeIsWellFormed
<1>4. \A m \in N : m.stage = "queued"
  BY PromptWaits
<1> HIDE DEF N
<1>5. Sending' = Sending
  BY <1>1, <1>2, <1>4, SendingGoesOn
<1>6. request \in Requests /\ request.kind # "turn" /\ request.id = d
  BY RequestsAre
<1> HIDE DEF request
<1>7. ASSUME NEW o \in Requests \ {request}
      PROVE  AttemptOf(saved', o) = AttemptOf(saved, o) /\ StateOf(saved', o) = StateOf(saved, o)
  <2>1. o.kind # "turn" => o.id \in Deliveries \ {d}
    BY <1>6, RequestsAre
  <2> QED
    BY <1>3, <2>1 DEF AttemptOf, StateOf
<1>8. /\ AttemptOf(saved', request) = AttemptOf(saved, request) + 1
      /\ StateOf(saved', request) = "Queued"
  BY <1>3, <1>6 DEF AttemptOf, StateOf
<1>9. Life!MayRetry(request)
  <2>1. AttemptOf(saved, request) = 0
        \/ StateOf(saved, request) \in {"Queued", "NotStarted", "NotSent", "Cancelled"}
    BY <1>1, <1>6 DEF MayAuthorize, Implementations, AttemptOf, StateOf
  <2> QED
    BY <1>6, <2>1 DEF Life!MayRetry, States
<1>10. Life!Ask(request)
  BY <1>1, <1>5, <1>6, <1>7, <1>8, <1>9, Asks DEF ExploreInv
<1> QED
  BY <1>6, <1>10

\* A state is recorded of the request of that dispatch alone.
LEMMA RecordSays ==
    ASSUME RoundInv, NEW m, NEW q \in Requests, q.kind = m.kind, q.id = m.id,
           NEW state \in DispatchState, saved' = WithState(saved, m, state)
    PROVE  /\ \A o \in Requests : AttemptOf(saved', o) = AttemptOf(saved, o)
           /\ \A o \in Requests \ {q} : StateOf(saved', o) = StateOf(saved, o)
           /\ StateOf(saved', q) = state
<1>1. WellFormed(saved, made)
  BY MadeIsNat
<1>2. /\ m.kind = "turn" => m.id \in Ids
      /\ m.kind # "turn" => m.id \in Deliveries
  BY RequestsAre
<1>3. /\ \A i \in Ids :
           /\ saved'.turns[i].attempt = saved.turns[i].attempt
           /\ saved'.turns[i].state = IF m.kind = "turn" /\ i = m.id
                                      THEN state ELSE saved.turns[i].state
      /\ \A d \in Deliveries :
           /\ saved'.implementations[d].attempt = saved.implementations[d].attempt
           /\ saved'.implementations[d].state =
                IF m.kind # "turn" /\ d = m.id THEN state ELSE saved.implementations[d].state
  BY <1>1, <1>2, StateIsWellFormed
<1>4. ASSUME NEW o \in Requests
      PROVE  /\ AttemptOf(saved', o) = AttemptOf(saved, o)
             /\ StateOf(saved', o) = IF o.kind = q.kind /\ o.id = q.id
                                     THEN state ELSE StateOf(saved, o)
  BY <1>3, RequestsAre DEF AttemptOf, StateOf
<1> QED
  BY <1>4, RequestsAre

\* Numbers that go, with what was recorded of them.
LEMMA TakesBack ==
    ASSUME NEW back \in SUBSET (Requests \ Sends),
           Gone' = Gone \cup back,
           \A q \in back : AttemptOf(saved', q) = 0,
           \A q \in Requests \ back :
               /\ AttemptOf(saved', q) = AttemptOf(saved, q)
               /\ AttemptOf(saved, q) # 0 => StateOf(saved', q) = StateOf(saved, q),
           Sending' = Sending, received' = received
    PROVE  Life!Next
<1>1. Got' = Got
  BY DEF Got
<1>2. Attempts' = [q \in Requests |-> IF q \in back THEN 0 ELSE Attempts[q]]
  BY DEF Attempts
<1>3. States' = [q \in Requests |-> IF q \in back THEN "none" ELSE States[q]]
  BY DEF States
<1>4. Life!TakeBack(back)
  BY <1>1, <1>2, <1>3 DEF Life!TakeBack
<1> QED
  BY <1>4 DEF Life!Next

\* Answers taken back take their requests along.
LEMMA CancelTakesBack ==
    ASSUME ExploreInv, NEW p \in Processes, CancelCommit(p)
    PROVE  [Life!Next]_(Life!vars)
<1> DEFINE a == checked[p].answer
           gone == AnswersFrom(saved, a)
<1>1. made' = made /\ received' = received
  BY DEF CancelCommit
<1>2. WellFormed(saved, made) /\ Dispatched
  BY MadeIsNat DEF ExploreInv
<1>3. Sending' = Sending
  <2>1. prompts' = prompts \/ prompts' = WithdrawTurn(p)
    BY DEF CancelCommit
  <2>2. CASE prompts' = prompts
    BY <2>2 DEF Sending
  <2>3. CASE prompts' = WithdrawTurn(p)
    BY <1>2, <2>3, SendingWithdrawn DEF WithdrawTurn
  <2> QED
    BY <2>1, <2>2, <2>3
<1>4. CASE saved' = saved
  BY <1>1, <1>3, <1>4, SameIsUnseen, Stutters DEF SameDispatches
<1>5. CASE MayCancelFrom(saved, a) /\ saved' = CancelAnswersFrom(saved, a)
  <2>1. /\ \A q \in Ids : saved'.turns[q] = IF q \in gone THEN NoTurn ELSE saved.turns[q]
        /\ saved'.implementations = saved.implementations
    BY <1>2, <1>5, CancelFields
  <2>2. gone \subseteq Ids /\ \A q \in gone : q <= made
    <3>1. gone \subseteq AnswerIds(saved)
      BY <1>2, <1>5, AnswersGo DEF MayCancelFrom
    <3>2. AnswerIds(saved) \subseteq Ids
      BY <1>2, AnswerTypes DEF WellFormed
    <3>3. \A q \in AnswerIds(saved) : q <= made
      BY <1>2 DEF WellFormed, Numbered, AnswerIds
    <3> QED
      BY <3>1, <3>2, <3>3
  <2> DEFINE back == {q \in Requests : q.kind = "turn" /\ q.id \in gone}
  <2> HIDE DEF gone
  <2>3. back \in SUBSET (Requests \ Sends)
    BY RequestsAre
  <2>4. \A q \in back : AttemptOf(saved', q) = 0
    BY <2>1, <2>2 DEF AttemptOf, NoTurn
  <2>5. \A q \in Requests \ back :
           AttemptOf(saved', q) = AttemptOf(saved, q) /\ StateOf(saved', q) = StateOf(saved, q)
    BY <2>1, RequestsAre DEF AttemptOf, StateOf
  <2>6. ASSUME NEW q \in Requests
        PROVE  q \in Gone' <=> q \in Gone \cup back
    <3>1. CASE q \in back
      BY <1>1, <2>2, <2>4, <3>1 DEF Gone
    <3>2. CASE q \notin back
      BY <1>1, <2>5, <3>2 DEF Gone
    <3> QED
      BY <3>1, <3>2
  <2>7. Gone' = Gone \cup back
    BY <2>6 DEF Gone
  <2> HIDE DEF back
  <2> QED
    BY <1>1, <1>3, <2>3, <2>4, <2>5, <2>7, TakesBack
<1> QED
  BY <1>4, <1>5 DEF CancelCommit

\* A question asked in another way takes a number that is never asked with.
LEMMA ReviseTakesBack ==
    ASSUME ExploreInv, NEW m \in received, ReviseQuestion(m)
    PROVE  Life!Next
<1>1. /\ MayRevise(saved) /\ made < MaxIds /\ made' = made + 1
      /\ saved' = Revise(saved, made + 1) /\ prompts' = prompts /\ received' = received
  BY DEF ReviseQuestion, history
<1>2. made \in Nat /\ WellFormed(saved, made)
  BY MadeIsNat DEF ExploreInv
<1>3. saved'.turns = saved.turns /\ saved'.implementations = saved.implementations
  BY <1>1, <1>2, ReviseIsWellFormed
<1>4. \A q : AttemptOf(saved', q) = AttemptOf(saved, q) /\ StateOf(saved', q) = StateOf(saved, q)
  BY <1>3 DEF AttemptOf, StateOf
<1>5. made + 1 \in Ids /\ made + 1 \notin Turns(saved)
  BY <1>1, <1>2, RoundAssumption DEF Ids, WellFormed, Numbered
<1> DEFINE request == [kind |-> "turn", id |-> made + 1]
<1>6. request \in Requests \ Sends /\ request.kind = "turn" /\ request.id = made + 1
  BY <1>5, RequestsAre DEF Sends
<1> HIDE DEF request
<1>7. AttemptOf(saved, request) = 0
  BY <1>5, <1>6 DEF AttemptOf, Turns
<1>8. ASSUME NEW q \in Requests
      PROVE  q \in Gone' <=> q \in Gone \cup {request}
  <2>1. CASE q = request
    BY <1>1, <1>2, <1>4, <1>6, <1>7, <2>1 DEF Gone
  <2>2. CASE q # request
    <3>1. q.kind = "turn" => q.id \in Nat /\ q.id # made + 1
      BY <1>6, <2>2, RequestsAre DEF Ids
    <3>2. q.kind = "turn" => (q.id <= made' <=> q.id <= made)
      BY <1>1, <1>2, <3>1
    <3> QED
      BY <1>4, <2>2, <3>2 DEF Gone
  <2> QED
    BY <2>1, <2>2
<1>9. Gone' = Gone \cup {request}
  BY <1>6, <1>8 DEF Gone
<1>10. Sending' = Sending
  BY <1>1 DEF Sending
<1> DEFINE back == {request}
<1>11. /\ back \in SUBSET (Requests \ Sends) /\ Gone' = Gone \cup back
       /\ \A q \in back : AttemptOf(saved', q) = 0
  BY <1>4, <1>6, <1>7, <1>9
<1> HIDE DEF back
<1> QED
  BY <1>1, <1>4, <1>10, <1>11, TakesBack

\* Of one attempt at most one prompt is being sent.
LEMMA SendingOnce ==
    ASSUME Dispatched, NEW m \in prompts, m.began,
           NEW S \in SUBSET prompts, m \notin S
    PROVE  \A o \in S : o.stage = "attempting" => ~Same(o, m)
BY DEF Dispatched, PromptInv, Staged, BegunOnce

\* A prompt that begins does so once, on the record of its request.
LEMMA BeginMaps ==
    ASSUME LifeInv, NEW m \in prompts, Begin(m)
    PROVE  [Life!Next]_(Life!vars)
<1>1. RoundInv /\ Dispatched /\ m \in PromptRecords /\ m.stage = "queued" /\ ~m.began
      /\ m.attempt # 0
  BY DEF Begin, LifeInv, ExploreInv, Dispatched, PromptInv, Staged, PromptRecords
<1>2. received' = received /\ made' = made
  BY DEF Begin, history
<1> DEFINE q == RequestOf(m)
<1>3. q \in Requests /\ q.kind = m.kind /\ q.id = m.id
  BY <1>1, RequestOfIs
<1> HIDE DEF q
<1>4. CASE \E outcome \in {"Cancelled", "NotSent"} :
             prompts' = (prompts \ {m}) \cup {Ends(m, outcome)} /\ saved' = saved
  <2>1. PICK outcome \in {"Cancelled", "NotSent"} :
               prompts' = (prompts \ {m}) \cup {Ends(m, outcome)}
    BY <1>4
  <2>2. Ends(m, outcome).stage = "done"
    BY <1>1, EndsFields DEF DispatchState
  <2>3. Sending' = Sending
    BY <1>1, <2>1, <2>2, SendingIs DEF Follows, Same
  <2> QED
    BY <1>2, <1>4, <2>3, SameIsUnseen, Stutters DEF SameDispatches
<1>5. CASE /\ MayBegin(saved, m) /\ saved' = BeginDispatch(saved, m)
           /\ prompts' = (prompts \ {m})
                           \cup {[m EXCEPT !.stage = "attempting", !.began = TRUE]}
  <2> DEFINE n == [m EXCEPT !.stage = "attempting", !.began = TRUE]
  <2>1. Same(n, m) /\ n.stage = "attempting"
    BY <1>1, BegunFields
  <2>2. prompts' = (prompts \ {m}) \cup {n}
    BY <1>5
  <2> HIDE DEF n
  <2>3. RequestOf(n) = q /\ n.attempt = m.attempt
    BY <2>1 DEF Same, RequestOf, q
  <2>4. Sending' = Sending \cup {<<q, m.attempt>>}
    BY <1>1, <2>1, <2>2, <2>3 DEF Sending
  <2>5. AttemptOf(saved, q) = m.attempt /\ StateOf(saved, q) = "Queued"
    BY <1>3, <1>5, OnRecord DEF MayBegin
  <2>6. /\ \A o \in Requests : AttemptOf(saved', o) = AttemptOf(saved, o)
        /\ \A o \in Requests \ {q} : StateOf(saved', o) = StateOf(saved, o)
        /\ StateOf(saved', q) = "Attempting"
    BY <1>1, <1>3, <1>5, RecordSays DEF BeginDispatch, DispatchState
  <2>7. Gone' = Gone
    BY <1>2, <2>6 DEF Gone
  <2>8. Got' = Got
    BY <1>2 DEF Got
  <2>9. Attempts' = Attempts /\ Attempts[q] = m.attempt
    BY <1>3, <2>5, <2>6 DEF Attempts
  <2>10. States' = [States EXCEPT ![q] = "Attempting"] /\ States[q] = "Queued"
    BY <1>1, <1>3, <2>5, <2>6 DEF States
  <2>11. Life!Begin(q)
    BY <2>4, <2>7, <2>8, <2>9, <2>10 DEF Life!Begin
  <2> QED
    BY <1>3, <2>11 DEF Life!Next
<1> QED
  BY <1>4, <1>5 DEF Begin

\* An attempt ends once: it arrived, or it did not.
LEMMA SendMaps ==
    ASSUME LifeInv, NEW m \in prompts, Send(m)
    PROVE  Life!Next
<1> DEFINE k(outcome) == [kind |-> m.kind, id |-> m.id, attempt |-> m.attempt, by |-> m.by,
                          started |-> outcome # "NotStarted"]
<1>1. PICK outcome \in Outcomes \cup {"Cancelled"}, arrives \in BOOLEAN :
        /\ prompts' = (prompts \ {m}) \cup {Ends(m, outcome)}
        /\ received' = IF arrives THEN received \cup {k(outcome)} ELSE received
  BY DEF Send
<1>2. Dispatched /\ m \in PromptRecords /\ m.began /\ m.stage = "attempting"
      /\ saved' = saved /\ made' = made
  BY DEF Send, LifeInv, ExploreInv, Dispatched, PromptInv, Staged
<1> DEFINE q == RequestOf(m)
           n == Ends(m, outcome)
           started == outcome # "NotStarted"
           arrival == [of |-> q, attempt |-> m.attempt, started |-> started]
<1>3. q \in Requests
  BY <1>2, RequestOfIs
<1>4. n.stage = "done"
  BY <1>2 DEF PromptRecords, Ends
<1>5. [of |-> RequestOf(k(outcome)), attempt |-> k(outcome).attempt,
       started |-> k(outcome).started] = arrival
  BY DEF RequestOf
<1>6. Got' = IF arrives THEN Got \cup {arrival} ELSE Got
  <2> DEFINE r == k(outcome)
  <2>1. [of |-> RequestOf(r), attempt |-> r.attempt, started |-> r.started] = arrival
    BY <1>5
  <2>2. received' = IF arrives THEN received \cup {r} ELSE received
    BY <1>1
  <2> HIDE DEF r, arrival
  <2>3. CASE arrives
    BY <2>1, <2>2, <2>3 DEF Got
  <2>4. CASE ~arrives
    BY <2>2, <2>4 DEF Got
  <2> QED
    BY <2>3, <2>4
<1>7. <<q, m.attempt>> \in Sending
  BY <1>2 DEF Sending
<1>8. Sending' = Sending \ {<<q, m.attempt>>}
  <2> DEFINE S == prompts \ {m}
  <2>1. \A o \in S : o.stage = "attempting" => ~Same(o, m)
    BY <1>2, SendingOnce
  <2>2. \A o \in S : <<RequestOf(o), o.attempt>> = <<q, m.attempt>> => Same(o, m)
    BY DEF RequestOf, Same
  <2>3. prompts' = S \cup {n}
    BY <1>1
  <2>4. prompts = S \cup {m}
    OBVIOUS
  <2> HIDE DEF S, n, q
  <2>5. Sending = {<<RequestOf(o), o.attempt>> : o \in {l \in S : l.stage = "attempting"}}
                    \cup {<<q, m.attempt>>}
    BY <1>2, <2>4 DEF Sending, q
  <2>6. Sending' = {<<RequestOf(o), o.attempt>> : o \in {l \in S : l.stage = "attempting"}}
    BY <1>4, <2>3 DEF Sending
  <2> QED
    BY <2>1, <2>2, <2>5, <2>6
<1>9. Attempts' = Attempts /\ States' = States /\ Gone' = Gone
  BY <1>2, SameIsUnseen, UnseenMaps DEF SameDispatches
<1>10. started \in BOOLEAN
  OBVIOUS
<1> HIDE DEF q, n, started
<1>11. Got' = Got \/ \E b \in BOOLEAN :
                       Got' = Got \cup {[of |-> q, attempt |-> m.attempt, started |-> b]}
  BY <1>6, <1>10
<1>12. Life!End(q, m.attempt)
  BY <1>7, <1>8, <1>9, <1>11 DEF Life!End
<1>13. m.attempt \in {s[2] : s \in Sending}
  BY <1>7
<1> QED
  BY <1>3, <1>12, <1>13 DEF Life!Next

\* What is recorded of an attempt, the agent's side confirms.
LEMMA FinishMaps ==
    ASSUME LifeInv, NEW m \in prompts, Finish(m)
    PROVE  [Life!Next]_(Life!vars)
<1>1. /\ made' = made /\ received' = received /\ m.stage = "done"
      /\ prompts' = prompts \ {m} /\ saved' = FinishDispatch(saved, m, m.began, m.outcome)
  BY DEF Finish, history
<1>2. /\ RoundInv /\ Dispatched /\ m \in PromptRecords /\ m.attempt # 0
      /\ m.outcome \in DispatchState
      /\ (~m.began => m.outcome \in {"Cancelled", "NotSent"})
  BY <1>1 DEF LifeInv, ExploreInv, Dispatched, PromptInv, Staged, PromptRecords
<1>3. Sending' = Sending
  BY <1>1, SendingIs DEF Follows, Same
<1>4. CASE saved' = saved
  BY <1>1, <1>3, <1>4, SameIsUnseen, Stutters DEF SameDispatches
<1>5. CASE /\ Current(saved, m) /\ saved' = WithState(saved, m, m.outcome)
           /\ StateOf(saved, m) = IF m.began THEN "Attempting" ELSE "Queued"
  <2> DEFINE q == RequestOf(m)
  <2>1. q \in Requests /\ q.kind = m.kind /\ q.id = m.id
    BY <1>2, RequestOfIs
  <2>2. \A o : RequestOf(o) = q /\ o.attempt = m.attempt <=> Same(o, m)
    BY DEF RequestOf, Same
  <2> HIDE DEF q
  <2>3. AttemptOf(saved, q) = m.attempt /\ StateOf(saved, q) = StateOf(saved, m)
    BY <1>5, <2>1, OnRecord
  <2>4. /\ \A o \in Requests : AttemptOf(saved', o) = AttemptOf(saved, o)
        /\ \A o \in Requests \ {q} : StateOf(saved', o) = StateOf(saved, o)
        /\ StateOf(saved', q) = m.outcome
    BY <1>2, <1>5, <2>1, RecordSays
  <2>5. Attempts' = Attempts /\ Gone' = Gone /\ Got' = Got /\ Attempts[q] = m.attempt
    BY <1>1, <2>1, <2>3, <2>4 DEF Attempts, Gone, Got
  <2>6. /\ States' = [States EXCEPT ![q] = m.outcome]
        /\ States[q] = IF m.began THEN "Attempting" ELSE "Queued"
    BY <1>2, <1>5, <2>1, <2>3, <2>4 DEF States
  <2>7. <<q, Attempts[q]>> \notin Sending
    <3>1. ASSUME NEW o \in prompts, o.stage = "attempting", Same(o, m)
          PROVE  FALSE
      <4>1. o.began /\ Current(saved, o) /\ StateOf(saved, o) = StateOf(saved, m)
        BY <1>5, <3>1 DEF LifeInv, ExploreInv, Dispatched, PromptInv, Staged, Same, Current,
                          StateOf
      <4>2. StateOf(saved, m) = "Attempting"
        BY <4>1 DEF LifeInv, ExploreInv, Dispatched, BegunOnce
      <4>3. m.began
        BY <1>5, <4>2
      <4> QED
        BY <1>1, <3>1, <4>1, <4>3 DEF LifeInv, ExploreInv, Dispatched, BegunOnce
    <3> QED
      BY <2>2, <2>5, <3>1 DEF Sending
  <2>8. m.outcome \in Life!MaySay(q)
    <3>1. /\ Life!Arrived(q) <=> \E n \in received : Same(n, m)
          /\ Life!Started(q) <=> \E n \in received : Same(n, m) /\ n.started
      <4>1. \A g \in Got : \E n \in received :
              g.of = RequestOf(n) /\ g.attempt = n.attempt /\ g.started = n.started
        BY DEF Got
      <4>2. ASSUME NEW n \in received
            PROVE  \E g \in Got :
                     g.of = RequestOf(n) /\ g.attempt = n.attempt /\ g.started = n.started
        <5> DEFINE g == [of |-> RequestOf(n), attempt |-> n.attempt, started |-> n.started]
        <5>1. g.of = RequestOf(n) /\ g.attempt = n.attempt /\ g.started = n.started
          OBVIOUS
        <5>2. g \in Got
          BY DEF Got
        <5> HIDE DEF g
        <5> QED
          BY <5>1, <5>2
      <4>3. Life!Arrived(q) <=> \E g \in Got : g.of = q /\ g.attempt = m.attempt
        BY <2>5 DEF Life!Arrived
      <4>4. Life!Started(q) <=> \E g \in Got : g.of = q /\ g.attempt = m.attempt /\ g.started
        BY <2>5 DEF Life!Started
      <4> QED
        BY <2>2, <4>1, <4>2, <4>3, <4>4
    <3>2. CASE m.began
      <4>1. /\ m.outcome \in {"Delivered", "NotStarted", "NotSent", "Cancelled", "Unknown"}
            /\ m.outcome = "Delivered" => \E n \in received : Same(n, m) /\ n.started
            /\ \A n \in received : Same(n, m) =>
                 m.outcome \in IF n.started THEN {"Delivered", "Unknown"}
                               ELSE {"NotStarted", "Unknown"}
        <5>1. Honest(m)
          BY <3>2 DEF LifeInv, Reports
        <5>2. \A n : Same(n, m) <=> Same(m, n)
          BY DEF Same
        <5> QED
          BY <1>1, <5>1, <5>2 DEF Honest
      <4>2. CASE \E n \in received : Same(n, m) /\ n.started
        BY <3>1, <4>1, <4>2 DEF Life!MaySay
      <4>3. CASE ~ \E n \in received : Same(n, m) /\ n.started
        BY <3>1, <4>1, <4>3 DEF Life!MaySay
      <4> QED
        BY <4>2, <4>3
    <3>3. CASE ~m.began
      <4>1. ASSUME NEW n \in received, Same(n, m)
            PROVE  FALSE
        <5>1. Current(saved, n) /\ StateOf(saved, n) = "Queued"
          BY <1>5, <3>3, <4>1 DEF Same, Current, StateOf
        <5> QED
          BY <5>1 DEF LifeInv, ExploreInv, Dispatched, ReceivedStands, Undenied
      <4> QED
        BY <1>2, <3>1, <3>3, <4>1 DEF Life!MaySay
    <3> QED
      BY <3>2, <3>3
  <2>9. States[q] = "Attempting" \/ (States[q] = "Queued" /\ m.outcome \in {"NotSent", "Cancelled"})
    BY <1>2, <2>6
  <2>10. Life!Record(q)
    BY <1>3, <2>5, <2>6, <2>7, <2>8, <2>9 DEF Life!Record
  <2> QED
    BY <2>1, <2>10 DEF Life!Next
<1> QED
  BY <1>1, <1>4, <1>5 DEF FinishDispatch

\* Nothing is sent any more of what a process was sending when it ended.
LEMMA RestartMaps ==
    ASSUME LifeInv, NEW p \in Processes, Restart(p)
    PROVE  Life!Next
<1>1. /\ prompts' \subseteq prompts /\ received' = received
      /\ saved' = saved /\ made' = made
  BY DEF Restart, history
<1>2. Sending' \subseteq Sending
  BY <1>1 DEF Sending
<1>3. Attempts' = Attempts /\ States' = States /\ Gone' = Gone
  BY <1>1, SameIsUnseen, UnseenMaps DEF SameDispatches
<1>4. Got' = Got
  BY <1>1 DEF Got
<1>5. Life!Lose
  BY <1>2, <1>3, <1>4 DEF Life!Lose
<1> QED
  BY <1>5 DEF Life!Next

\* A reviewer's command asks, takes back, or changes no attempt.
LEMMA ReviewerMaps ==
    ASSUME LifeInv, NEW p \in Processes, Reviewer(p)
    PROVE  [Life!Next]_(Life!vars)
<1>1. ExploreInv /\ Dispatched /\ SessionInv /\ WellFormed(saved, made)
  BY MadeIsNat DEF LifeInv, ExploreInv
<1>2. ASSUME \E request \in Requests : Life!Ask(request)
      PROVE  Life!Next
  BY <1>2 DEF Life!Next
<1>3. CASE Kickoff(p) \/ Retry(p) \/ (\E q \in Ids : Answer(p, q))
           \/ \E d \in Deliveries : Implement(p, d)
  BY <1>1, <1>2, <1>3, KickoffAsks, RetryAsks, AnswerAsks, ImplementAsks
<1>4. CASE CancelCommit(p)
  BY <1>1, <1>4, CancelTakesBack
<1>5. ASSUME saved' = saved \/ saved' = StopTurn(saved), made' = made, received' = received,
             prompts' = prompts \/ \E kinds : prompts' = Withdrawn(p, kinds)
      PROVE  UNCHANGED Life!vars
  <2>1. Sending' = Sending
    <3>1. CASE prompts' = prompts
      BY <3>1 DEF Sending
    <3>2. CASE \E kinds : prompts' = Withdrawn(p, kinds)
      BY <1>1, <3>2, SendingWithdrawn
    <3> QED
      BY <1>5, <3>1, <3>2
  <2>2. SameDispatches(saved, saved')
    BY <1>1, <1>5, StoppedIsWellFormed DEF SameDispatches
  <2> QED
    BY <1>5, <2>1, <2>2, SameIsUnseen, Stutters
<1>6. CASE StopWaiting(p) \/ Reset(p)
  <2>1. saved' = saved \/ saved' = StopTurn(saved)
    BY <1>1, <1>6, CancelRecordIs DEF StopWaiting, Reset
  <2> QED
    BY <1>5, <1>6, <2>1 DEF StopWaiting, Reset, WithdrawAll, history
<1>7. CASE CancelImplementation(p)
  BY <1>5, <1>7 DEF CancelImplementation, history
<1>8. CASE \E q \in Ids, latest \in BOOLEAN : CancelCheck(p, q, latest)
  BY <1>5, <1>8 DEF CancelCheck, history
<1> QED
  BY <1>3, <1>4, <1>6, <1>7, <1>8 DEF Reviewer

\* The other inputs of a process, and the agent's calls, change no attempt on record.
LEMMA OthersMap ==
    ASSUME LifeInv,
           \/ \E p \in Processes : StorageChanged(p)
           \/ \E f \in failures : PromptFinished(f)
           \/ Agent
    PROVE  [Life!Next]_(Life!vars)
<1>1. ExploreInv /\ Dispatched /\ made \in Nat /\ WellFormed(saved, made)
  BY MadeIsNat DEF LifeInv, ExploreInv
<1>2. CASE \E p \in Processes : StorageChanged(p)
  <2>1. saved' = saved /\ made' = made /\ prompts' = prompts /\ received' = received
    BY <1>2 DEF StorageChanged, history
  <2> QED
    BY <2>1, SameIsUnseen, Stutters DEF SameDispatches, Sending
<1>3. ASSUME NEW f \in failures, PromptFinished(f)
      PROVE  UNCHANGED Life!vars
  <2>1. /\ saved' = saved \/ saved' = StopTurn(saved)
        /\ made' = made /\ received' = received
        /\ prompts' = prompts \/ prompts' = Withdrawn(f.by, {"turn"})
    BY <1>3 DEF PromptFinished, WithdrawTurn, history
  <2>2. SameDispatches(saved, saved')
    BY <1>1, <2>1, StoppedIsWellFormed DEF SameDispatches
  <2>3. Sending' = Sending
    <3>1. CASE prompts' = prompts
      BY <3>1 DEF Sending
    <3>2. CASE prompts' = Withdrawn(f.by, {"turn"})
      BY <1>1, <3>2, SendingWithdrawn
    <3> QED
      BY <2>1, <3>1, <3>2
  <2> QED
    BY <2>1, <2>2, <2>3, SameIsUnseen, Stutters
<1>4. CASE Agent
  <2>1. PICK m \in received : m.kind = "turn" /\
                (ReviseQuestion(m) \/ \E question \in BOOLEAN : Submission(m, question))
    BY <1>4 DEF Agent
  <2>2. CASE ReviseQuestion(m)
    BY <1>1, <2>2, ReviseTakesBack
  <2>3. ASSUME NEW question \in BOOLEAN, Submission(m, question)
        PROVE  UNCHANGED Life!vars
    <3>1. /\ MaySubmit(saved, m.id) /\ saved' = Submit(saved, m.id, question)
          /\ made' = made /\ prompts' = prompts /\ received' = received
      BY <2>3 DEF Submission
    <3>2. m.id \in Ids
      BY <1>1, <2>1, TurnReceived
    <3>3. SameDispatches(saved, saved')
      BY <1>1, <3>1, <3>2, SubmitIsWellFormed DEF SameDispatches
    <3> QED
      BY <3>1, <3>3, SameIsUnseen, Stutters DEF Sending
  <2> QED
    BY <2>1, <2>2, <2>3
<1> QED
  BY <1>2, <1>3, <1>4

\* Explore implements DispatchLife: what the saved round says of the delivery of turns and
\* of implementation requests (begin_dispatch, finish_dispatch, post, authorize and
\* cancel_answers_from), with what the agent receives, goes as DispatchLife allows.
THEOREM DeliveryIsImplemented == Spec => ImplementsDispatchLife
<1>1. Init => LifeInv /\ Life!Init
  <2> SUFFICES ASSUME Init PROVE LifeInv /\ Life!Init
    OBVIOUS
  <2>1. LifeInv
    BY InitIsSound DEF Init, LifeInv, Reports
  <2>2. \A q \in Requests : AttemptOf(saved, q) = 0
    BY RequestsAre DEF Init, EmptyRound, NoTurn, NoDelivery, AttemptOf
  <2>3. Attempts = [q \in Requests |-> 0] /\ States = [q \in Requests |-> "none"]
    BY <2>2 DEF Attempts, States
  <2>4. Gone = {}
    <3>1. \A i \in Ids : ~(i <= 0)
      BY RoundAssumption DEF Ids
    <3> QED
      BY <3>1, RequestsAre DEF Init, Gone
  <2>5. Sending = {} /\ Got = {}
    BY DEF Init, Sending, Got
  <2> QED
    BY <2>1, <2>3, <2>4, <2>5 DEF Life!Init
<1>2. LifeInv /\ [Next]_vars => LifeInv'
  BY LifeKeeps
<1>3. LifeInv /\ [Next]_vars => [Life!Next]_(Life!vars)
  <2> SUFFICES ASSUME LifeInv, [Next]_vars PROVE [Life!Next]_(Life!vars)
    OBVIOUS
  <2>1. CASE Delivery
    <3>1. PICK m \in prompts : Begin(m) \/ Send(m) \/ Finish(m)
      BY <2>1 DEF Delivery
    <3> QED
      BY <3>1, BeginMaps, SendMaps, FinishMaps
  <2>2. CASE UNCHANGED vars
    <3>1. saved' = saved /\ made' = made /\ prompts' = prompts /\ received' = received
      BY <2>2 DEF vars
    <3> QED
      BY <3>1, SameIsUnseen, Stutters DEF SameDispatches, Sending
  <2>3. ASSUME NEW p \in Processes, Reviewer(p) \/ StorageChanged(p) \/ Restart(p)
        PROVE  [Life!Next]_(Life!vars)
    BY <2>3, ReviewerMaps, OthersMap, RestartMaps
  <2>4. CASE Agent \/ \E f \in failures : PromptFinished(f)
    BY <2>4, OthersMap
  <2> QED
    BY <2>1, <2>2, <2>3, <2>4 DEF Next
<1> QED
  BY <1>1, <1>2, <1>3, PTL DEF Spec, ImplementsDispatchLife, Life!Spec
=============================================================================
