------------------------ MODULE PromptDeliveryProofs ------------------------
(***************************************************************************)
(* For any number of requests, wakeups and holds: the types, the count of  *)
(* queued prompts, that no prompt is on its way under a drained hold, and  *)
(* that PromptDelivery implements PromptLife.  The steps of the threads    *)
(* only pass a prompt on from place to place, so the refinement rests on   *)
(* each prompt being in one place at a time, as long as it has no outcome. *)
(***************************************************************************)
EXTENDS PromptDelivery, FiniteSetTheorems, SequenceTheorems, TLAPS

\* Reporting an outcome keeps the receipts well typed.
LEMMA FinishType ==
    ASSUME TypeOK, NEW p \in Prompts, NEW r \in Results, Finish(p, r)
    PROVE  receipt' \in [Prompts -> Results \cup {Idle}]
  BY DEF TypeOK, Finish, Results, Answers

\* So does dropping requests unfinished.
LEMMA CloseType ==
    ASSUME TypeOK, NEW ps, Close(ps)
    PROVE  receipt' \in [Prompts -> Results \cup {Idle}]
  BY DEF TypeOK, Close, Results

\* PromptHold::new counts the hold it makes.
LEMMA NewHoldCounted ==
    ASSUME TypeOK, HoldsCounted, NEW h \in Holds, NewHold(h)
    PROVE  HoldsCounted' /\ holds' \in Nat
  <1>1. IsFiniteSet(Living)
    BY DeliveryAssumption, FS_Subset DEF Living
  <1>2. h \notin Living /\ Living' = Living \cup {h}
    BY DEF TypeOK, Living, NewHold
  <1>3. Cardinality(Living') = Cardinality(Living) + 1
    BY <1>1, <1>2, FS_AddElement
  <1> QED
    BY <1>3, FS_CardinalityType, <1>1 DEF HoldsCounted, NewHold

\* PromptHold::drop uncounts exactly the hold it ends.
LEMMA DropHoldCounts ==
    ASSUME TypeOK, HoldsCounted, NEW h \in Holds, DropHold(h)
    PROVE  HoldsCounted' /\ holds' \in Nat
  <1>1. IsFiniteSet(Living) /\ IsFiniteSet(Living')
    BY DeliveryAssumption, FS_Subset DEF Living
  <1>2. h \in Living /\ Living' = Living \ {h}
    BY DEF TypeOK, Living, DropHold
  <1>3. Cardinality(Living') = Cardinality(Living) - 1
    BY <1>1, <1>2, FS_RemoveElement
  <1> QED
    BY <1>1, <1>3, FS_CardinalityType DEF HoldsCounted, DropHold

\* With no hold counted, none lives, drained or not.
LEMMA NoHoldNotQuiet ==
    ASSUME TypeOK, HoldsCounted, holds = 0
    PROVE  ~Quiet
  <1>1. IsFiniteSet(Living)
    BY DeliveryAssumption, FS_Subset DEF Living
  <1>2. Living = {}
    BY <1>1, FS_EmptySet DEF HoldsCounted
  <1> QED
    BY <1>2 DEF Living, Quiet

\* The queues before anything is sent.
LEMMA EmptyQueues ==
    /\ <<>> \in Seq(Requests) /\ <<>> \in Seq(Prompts) /\ Len(<<>>) = 0
  BY EmptySeq

LEMMA GateInit == Init => GateInv
  <1> SUFFICES ASSUME Init PROVE GateInv
    OBVIOUS
  <1>1. Living = {}
    BY DEF Init, Living
  <1>2. HoldsCounted
    BY <1>1, FS_EmptySet DEF HoldsCounted, Init
  <1>3. TypeOK
    <2>1. inbox \in Seq(Requests) /\ waiting \in Seq(Requests)
          /\ batch \in Seq(Requests) /\ parcels \in Seq(Prompts)
      BY EmptyQueues DEF Init
    <2> QED
      BY <2>1 DEF Init, TypeOK, Prompts, Answers, Idle, Submissions
  <1> QED
    BY <1>2, <1>3, EmptyQueues DEF Init, GateInv, PlacesOK, SendingIsInFlight,
       QuietWhileDrained, Quiet, QueuedCountsParcels, InFlight, Count

\* A step that leaves the holds alone leaves their count right.
LEMMA SameHoldsCounted ==
    ASSUME HoldsCounted, UNCHANGED <<hold, holds>>
    PROVE  HoldsCounted'
  BY DEF HoldsCounted, Living

LEMMA OwnerKeepsGate ==
    ASSUME GateInv, Owner
    PROVE  GateInv'
  <1> USE DEF GateInv
  <1> PICK p \in Requests : SendObserved(p) \/ Withdraw(p)
    BY DEF Owner
  <1>1. CASE SendObserved(p)
    <2>4. Append(inbox, p) \in Seq(Requests)
      BY AppendProperties DEF TypeOK
    <2>1. inbox' \in Seq(Requests)
      BY <1>1, <2>4 DEF SendObserved, TypeOK
    <2>2. receipt' \in [Prompts -> Results \cup {Idle}]
      BY <1>1, FinishType DEF SendObserved, TypeOK, Prompts, Results, Answers
    <2>3. TypeOK'
      BY <1>1, <2>1, <2>2 DEF SendObserved, TypeOK, gate, history
    <2> QED
      BY <1>1, <2>3, SameHoldsCounted DEF SendObserved, PlacesOK, SendingIsInFlight,
         QuietWhileDrained, Quiet, QueuedCountsParcels, InFlight, gate, history
  <1>2. CASE Withdraw(p)
    <2>1. TypeOK'
      BY <1>2 DEF Withdraw, TypeOK, queues, gate
    <2> QED
      BY <1>2, <2>1, SameHoldsCounted DEF Withdraw, PlacesOK, SendingIsInFlight,
         QuietWhileDrained, Quiet, QueuedCountsParcels, InFlight, gate
  <1> QED BY <1>1, <1>2

LEMMA WorkerKeepsGate ==
    ASSUME GateInv, Worker
    PROVE  GateInv'
  <1> USE DEF GateInv, queues, gate, owners, history
  <1>1. CASE Receive
    <2>1. /\ Head(inbox) \in Requests /\ Tail(inbox) \in Seq(Requests)
      BY <1>1, HeadTailProperties DEF Receive, TypeOK
    <2>2. Append(waiting, Head(inbox)) \in Seq(Requests)
      BY <2>1, AppendProperties DEF TypeOK
    <2>3. TypeOK'
      BY <1>1, <2>1, <2>2, EmptyQueues DEF Receive, TypeOK
    <2> QED
      BY <1>1, <2>3, SameHoldsCounted DEF TypeOK, Receive, PlacesOK, SendingIsInFlight,
         QuietWhileDrained, Quiet, QueuedCountsParcels, InFlight
  <1>2. CASE Recheck
    <2>1. TypeOK'
      BY <1>2 DEF Recheck, TypeOK
    <2> QED
      BY <1>2, <2>1, SameHoldsCounted DEF TypeOK, Recheck, PlacesOK, SendingIsInFlight,
         QuietWhileDrained, Quiet, QueuedCountsParcels, InFlight
  <1>3. CASE Stop
    <2>1. TypeOK'
      BY <1>3, CloseType, EmptyQueues DEF Stop, TypeOK
    <2> QED
      BY <1>3, <2>1, SameHoldsCounted DEF TypeOK, Stop, PlacesOK, SendingIsInFlight,
         QuietWhileDrained, Quiet, QueuedCountsParcels, InFlight
  <1>4. CASE Begin
    <2>1. Head(batch) \in Requests /\ Tail(batch) \in Seq(Requests)
      BY <1>4, HeadTailProperties DEF Begin, TypeOK
    <2>2. receipt' \in [Prompts -> Results \cup {Idle}]
      BY <1>4, <2>1, FinishType DEF Begin, TypeOK, Prompts, Results, Answers
    <2>6. Append(waiting, Head(batch)) \in Seq(Requests)
      BY <2>1, AppendProperties DEF TypeOK
    <2>3. waiting' \in Seq(Requests)
      BY <1>4, <2>6 DEF Begin, TypeOK
    <2>5. TypeOK'
      BY <1>4, <2>1, <2>2, <2>3 DEF Begin, TypeOK, Prompts
    <2>4. Head(batch) # NoPrompt
      BY <2>1, DeliveryAssumption
    <2> QED
      BY <1>4, <2>4, <2>5, SameHoldsCounted DEF TypeOK, Begin, PlacesOK, SendingIsInFlight,
         QuietWhileDrained, Quiet, QueuedCountsParcels, InFlight
  <1>5. CASE Attempt
    <2>1. worker.prompt \in Prompts
      BY <1>5 DEF Attempt, TypeOK, PlacesOK
    <2>2. receipt' \in [Prompts -> Results \cup {Idle}]
      BY <1>5, <2>1, FinishType DEF Attempt, TypeOK, Results, Answers
    <2>3. TypeOK'
      BY <1>5, <2>1, <2>2 DEF Attempt, TypeOK
    <2> QED
      BY <1>5, <2>3, SameHoldsCounted DEF TypeOK, Attempt, PlacesOK, SendingIsInFlight,
         QuietWhileDrained, Quiet, QueuedCountsParcels, InFlight
  <1>6. CASE EndPoll
    <2>1. \A w \in Wakeups : w # NoPrompt
      BY DeliveryAssumption
    <2>2. TypeOK'
      BY <1>6 DEF EndPoll, TypeOK, Prompts
    <2> QED
      BY <1>6, <2>1, <2>2, SameHoldsCounted DEF TypeOK, EndPoll, PlacesOK, SendingIsInFlight,
         QuietWhileDrained, Quiet, QueuedCountsParcels, InFlight
  <1>7. CASE Queue
    <2>3. queued' \in Nat
      BY <1>7 DEF Queue, TypeOK
    <2>1. TypeOK'
      BY <1>7, <2>3 DEF Queue, TypeOK
    <2>2. QueuedCountsParcels'
      BY <1>7, <2>1, LenProperties DEF Queue, TypeOK, QueuedCountsParcels, Count
    <2> QED
      BY <1>7, <2>1, <2>2, SameHoldsCounted DEF TypeOK, Queue, PlacesOK, SendingIsInFlight,
         QuietWhileDrained, Quiet, InFlight
  <1>8. CASE Hand
    <2>1. worker.prompt \in Prompts
      BY <1>8 DEF Hand, TypeOK, PlacesOK
    <2>2. receipt' \in [Prompts -> Results \cup {Idle}]
      BY <1>8, <2>1, FinishType DEF Hand, TypeOK, Results, Answers
    <2>5. /\ Append(parcels, worker.prompt) \in Seq(Prompts)
          /\ Len(Append(parcels, worker.prompt)) = Len(parcels) + 1
          /\ Len(parcels) \in Nat
      BY <2>1, AppendProperties, LenProperties DEF TypeOK
    <2>6. parcels' \in Seq(Prompts)
      BY <1>8, <2>5 DEF Hand, TypeOK
    <2>3. TypeOK'
      BY <1>8, <2>2, <2>6, SMTT(30) DEF Hand, TypeOK
    <2>4. QueuedCountsParcels'
      <3>1. CASE courier.pc # "dead"
        <4>1. /\ parcels' = Append(parcels, worker.prompt) /\ worker'.pc = "poll"
              /\ courier' = courier /\ queued' = queued
          BY <1>8, <3>1 DEF Hand
        <4> QED
          BY <1>8, <3>1, <4>1, <2>5 DEF Hand, TypeOK, QueuedCountsParcels, Count
      <3>2. CASE courier.pc = "dead"
        <4>1. /\ parcels' = parcels /\ worker'.pc = "unqueue"
              /\ courier' = courier /\ queued' = queued
          BY <1>8, <3>2 DEF Hand, TypeOK
        <4> QED
          BY <1>8, <3>2, <4>1 DEF Hand, QueuedCountsParcels, Count
      <3> QED BY <3>1, <3>2
    <2> QED
      BY <1>8, <2>3, <2>4, SameHoldsCounted DEF TypeOK, Hand, PlacesOK, SendingIsInFlight,
         QuietWhileDrained, Quiet, InFlight
  <1>9. CASE Unqueue
    <2>1. queued' \in Nat /\ QueuedCountsParcels'
      BY <1>9, LenProperties DEF Unqueue, TypeOK, QueuedCountsParcels, Count
    <2>2. TypeOK'
      BY <1>9, <2>1 DEF Unqueue, TypeOK
    <2> QED
      BY <1>9, <2>1, <2>2, SameHoldsCounted DEF TypeOK, Unqueue, PlacesOK, SendingIsInFlight,
         QuietWhileDrained, Quiet, InFlight
  <1> QED
    BY <1>1, <1>2, <1>3, <1>4, <1>5, <1>6, <1>7, <1>8, <1>9 DEF Worker

LEMMA CourierKeepsGate ==
    ASSUME GateInv, CourierThread
    PROVE  GateInv'
  <1> USE DEF GateInv, queues, gate, owners, history
  <1>1. CASE Take
    <2>1. /\ Head(parcels) \in Prompts /\ Tail(parcels) \in Seq(Prompts)
          /\ Len(Tail(parcels)) = Len(parcels) - 1
      BY <1>1, HeadTailProperties DEF Take, TypeOK
    <2>2. TypeOK'
      BY <1>1, <2>1 DEF Take, TypeOK
    <2>3. Head(parcels) # NoPrompt
      BY <2>1, DeliveryAssumption DEF Prompts
    <2>4. QueuedCountsParcels'
      BY <1>1, <2>1, <2>3, LenProperties
      DEF Take, TypeOK, PlacesOK, InFlight, QueuedCountsParcels, Count
    <2> QED
      BY <1>1, <2>2, <2>3, <2>4, SameHoldsCounted DEF TypeOK, Take, PlacesOK,
         SendingIsInFlight, QuietWhileDrained, Quiet, InFlight
  <1>2. CASE CourierEnds
    <2>1. TypeOK'
      BY <1>2 DEF CourierEnds, TypeOK
    <2>2. QueuedCountsParcels'
      BY <1>2, LenProperties DEF CourierEnds, TypeOK, QueuedCountsParcels, Count
    <2> QED
      BY <1>2, <2>1, <2>2, SameHoldsCounted DEF TypeOK, CourierEnds, PlacesOK,
         SendingIsInFlight, QuietWhileDrained, Quiet, InFlight
  <1>3. CASE PassGate
    <2>1. ~Quiet
      BY <1>3, NoHoldNotQuiet DEF PassGate
    <2>2. TypeOK'
      BY <1>3 DEF PassGate, TypeOK
    <2> QED
      BY <1>3, <2>1, <2>2, SameHoldsCounted DEF TypeOK, PassGate, PlacesOK,
         SendingIsInFlight, QuietWhileDrained, Quiet, QueuedCountsParcels, InFlight
  <1>4. CASE CheckWithdrawn
    <2>1. TypeOK'
      BY <1>4 DEF CheckWithdrawn, TypeOK
    <2> QED
      BY <1>4, <2>1, SameHoldsCounted DEF TypeOK, CheckWithdrawn, PlacesOK,
         SendingIsInFlight, QuietWhileDrained, Quiet, QueuedCountsParcels, InFlight
  <1>5. CASE Submit
    <2>1. courier.prompt \in Prompts
      BY <1>5 DEF Submit, TypeOK, PlacesOK, InFlight
    <2>3. [submitted EXCEPT ![courier.prompt] = @ + 1] \in Submissions
      BY <2>1 DEF TypeOK, Submissions
    <2>2. TypeOK'
      BY <1>5, <2>1, <2>3 DEF Submit, TypeOK, Answers
    <2> QED
      BY <1>5, <2>2, SameHoldsCounted DEF TypeOK, Submit, PlacesOK,
         SendingIsInFlight, QuietWhileDrained, Quiet, QueuedCountsParcels, InFlight
  <1>6. CASE Await
    <2>1. TypeOK'
      <3>1. PICK answer \in Answers : courier' = [courier EXCEPT !.pc = "report", !.result = answer]
        BY <1>6 DEF Await
      <3>2. courier' \in [pc : {"recv", "gate", "check", "submit", "await", "report",
                              "sent", "dead"},
                        prompt : Prompts \cup {NoPrompt},
                        result : Answers \cup {"Cancelled"}]
        BY <3>1 DEF TypeOK
      <3> QED
        BY <1>6, <3>2 DEF Await, TypeOK
    <2> QED
      BY <1>6, <2>1, SameHoldsCounted DEF TypeOK, Await, PlacesOK,
         SendingIsInFlight, QuietWhileDrained, Quiet, QueuedCountsParcels, InFlight
  <1>7. CASE Report
    <2>1. courier.prompt \in Prompts /\ courier.result \in Results
      BY <1>7 DEF Report, TypeOK, PlacesOK, InFlight, Results
    <2>2. receipt' \in [Prompts -> Results \cup {Idle}]
      BY <1>7, <2>1, FinishType DEF Report
    <2>3. TypeOK'
      BY <1>7, <2>2 DEF Report, TypeOK
    <2> QED
      BY <1>7, <2>3, SameHoldsCounted DEF TypeOK, Report, PlacesOK,
         SendingIsInFlight, QuietWhileDrained, Quiet, QueuedCountsParcels, InFlight
  <1>8. CASE SentDrop
    <2>1. queued' \in Nat /\ QueuedCountsParcels'
      BY <1>8, LenProperties
      DEF SentDrop, TypeOK, PlacesOK, InFlight, QueuedCountsParcels, Count
    <2>2. TypeOK'
      BY <1>8, <2>1 DEF SentDrop, TypeOK
    <2> QED
      BY <1>8, <2>1, <2>2, SameHoldsCounted DEF TypeOK, SentDrop, PlacesOK,
         SendingIsInFlight, QuietWhileDrained, Quiet, InFlight
  <1>9. CASE Panic
    <2>4. /\ Len(parcels) \in Nat /\ Len(parcels') = 0
          /\ courier'.pc = "dead" /\ courier'.prompt = NoPrompt
      BY <1>9, LenProperties, EmptyQueues DEF Panic, TypeOK
    <2>5. courier.prompt # NoPrompt /\ courier.pc # "dead"
      BY <1>9 DEF Panic, PlacesOK, InFlight
    <2>1. queued' \in Nat /\ QueuedCountsParcels'
      BY <1>9, <2>4, <2>5 DEF Panic, TypeOK, QueuedCountsParcels, Count
    <2>2. receipt' \in [Prompts -> Results \cup {Idle}]
      BY <1>9, CloseType DEF Panic
    <2>3. TypeOK'
      BY <1>9, <2>1, <2>2, EmptyQueues DEF Panic, TypeOK
    <2> QED
      BY <1>9, <2>1, <2>3, SameHoldsCounted DEF TypeOK, Panic, PlacesOK,
         SendingIsInFlight, QuietWhileDrained, Quiet, InFlight
  <1> QED
    BY <1>1, <1>2, <1>3, <1>4, <1>5, <1>6, <1>7, <1>8, <1>9 DEF CourierThread

LEMMA HolderKeepsGate ==
    ASSUME GateInv, Holder
    PROVE  GateInv'
  <1> USE DEF GateInv, queues, gate, owners, history
  <1> PICK h \in Holds : NewHold(h) \/ DrainedWait(h) \/ DropHold(h)
    BY DEF Holder
  <1>1. CASE NewHold(h)
    <2>1. HoldsCounted' /\ holds' \in Nat
      BY <1>1, NewHoldCounted
    <2>2. TypeOK'
      BY <1>1, <2>1 DEF NewHold, TypeOK
    <2> QED
      BY <1>1, <2>1, <2>2 DEF TypeOK, NewHold, PlacesOK,
         SendingIsInFlight, QuietWhileDrained, Quiet, QueuedCountsParcels, InFlight
  <1>2. CASE DrainedWait(h)
    <2>1. TypeOK'
      BY <1>2 DEF DrainedWait, TypeOK
    <2>2. Living' = Living
      BY <1>2 DEF DrainedWait, Living, TypeOK
    <2> QED
      BY <1>2, <2>1, <2>2 DEF TypeOK, DrainedWait, PlacesOK, HoldsCounted,
         SendingIsInFlight, QuietWhileDrained, Quiet, QueuedCountsParcels, InFlight
  <1>3. CASE DropHold(h)
    <2>1. HoldsCounted' /\ holds' \in Nat
      BY <1>3, DropHoldCounts
    <2>2. TypeOK'
      BY <1>3, <2>1 DEF DropHold, TypeOK
    <2> QED
      BY <1>3, <2>1, <2>2 DEF TypeOK, DropHold, PlacesOK,
         SendingIsInFlight, QuietWhileDrained, Quiet, QueuedCountsParcels, InFlight
  <1> QED BY <1>1, <1>2, <1>3

\* Every step of every thread keeps the gate's fields in agreement.
THEOREM GateIsInvariant == Spec => []GateInv
  <1>1. Init => GateInv
    BY GateInit
  <1>2. GateInv /\ [Next]_vars => GateInv'
    <2> SUFFICES ASSUME GateInv, [Next]_vars PROVE GateInv'
      OBVIOUS
    <2>1. CASE Next
      BY <2>1, OwnerKeepsGate, WorkerKeepsGate, CourierKeepsGate, HolderKeepsGate DEF Next
    <2>2. CASE UNCHANGED vars
      BY <2>2 DEF vars, queues, gate, owners, history, GateInv, TypeOK, PlacesOK,
         HoldsCounted, Living, SendingIsInFlight, QuietWhileDrained, Quiet,
         QueuedCountsParcels, InFlight
    <2> QED BY <2>1, <2>2
  <1> QED BY <1>1, <1>2, PTL DEF Spec

\* Type correctness, usize counters that never go below zero included.
THEOREM DeliveryTypes == Spec => []TypeOK
  BY GateIsInvariant, PTL DEF GateInv

\* While a hold that drained lives, no prompt is on its way to an agent.
THEOREM HoldExcludesSending == Spec => []QuietWhileDrained
  BY GateIsInvariant, PTL DEF GateInv

\* GateState.queued counts the prompts handed over and not yet settled.
THEOREM QueuedIsExact == Spec => []QueuedCountsParcels
  BY GateIsInvariant, PTL DEF GateInv

-----------------------------------------------------------------------------
(* The refinement: its inductive invariant. *)

Distinct(s) == \A i, j \in DOMAIN s : s[i] = s[j] => i = j

\* The prompt without an outcome that the worker, or the courier, handles.
WorkerHas == IF worker.pc \in {"attempt", "queue", "hand"} THEN {worker.prompt} ELSE {}
CourierHas ==
    IF courier.pc \in {"gate", "check", "submit", "await", "report"}
    THEN {courier.prompt} ELSE {}

Handed == InSeq(parcels) \cup CourierHas
Batched == InSeq(batch) \cup WorkerHas \cup Handed
UnderWay == InSeq(inbox) \cup InSeq(waiting) \cup Batched

\* A prompt is in one place.
OnePlace ==
    /\ Distinct(inbox) /\ Distinct(waiting) /\ Distinct(batch) /\ Distinct(parcels)
    /\ InSeq(inbox) \cap (InSeq(waiting) \cup Batched) = {}
    /\ InSeq(waiting) \cap Batched = {}
    /\ InSeq(batch) \cap (WorkerHas \cup Handed) = {}
    /\ WorkerHas \cap Handed = {}
    /\ InSeq(parcels) \cap CourierHas = {}

\* A prompt that is under way has no outcome; one that a thread is done with has.
NoOutcomeYet ==
    /\ \A p \in UnderWay : receipt[p] = Idle
    /\ worker.pc = "unqueue" => receipt[worker.prompt] # Idle
    /\ courier.pc = "sent" => receipt[courier.prompt] # Idle

\* Outside of poll the worker has no batch.
BatchIsPolled == worker.pc \in {"recv", "stopped"} => batch = <<>>

\* A prompt is typed at most once, and before its outcome by the courier alone.
TypedOnce ==
    /\ submitted \in [Prompts -> {0, 1}]
    /\ \A p \in Prompts :
         submitted[p] = 1 => \/ receipt[p] # Idle
                             \/ courier.pc \in {"await", "report"} /\ courier.prompt = p

\* What the courier is about to report is true.
ReportIsTrue ==
    /\ courier.pc = "await" => submitted[courier.prompt] = 1
    /\ courier.pc = "report" /\ courier.result = "Ok" => submitted[courier.prompt] = 1
    /\ courier.pc = "report" /\ courier.result = "Cancelled" =>
         courier.prompt \in withdrawn /\ submitted[courier.prompt] = 0

\* What was reported is.
ToldIsTrue ==
    \A p \in Prompts : receipt[p] = "Cancelled" => submitted[p] = 0

\* What was withdrawn in quiet is not about to be typed.
QuietedStays ==
    \A p \in quieted : /\ p \in withdrawn /\ submitted[p] = 0
                       /\ ~(courier.pc = "submit" /\ courier.prompt = p)

LifeInv ==
    /\ GateInv
    /\ OnePlace
    /\ NoOutcomeYet
    /\ BatchIsPolled
    /\ TypedOnce
    /\ ReportIsTrue
    /\ ToldIsTrue
    /\ QuietedStays

-----------------------------------------------------------------------------
(* The elements of queues. *)

LEMMA EmptyQueue == InSeq(<<>>) = {} /\ Distinct(<<>>)
  BY DEF InSeq, Distinct

\* Appending adds an element, and repeats none that was not there.
LEMMA Appended ==
    ASSUME NEW S, NEW s \in Seq(S), NEW x \in S
    PROVE  /\ InSeq(Append(s, x)) = InSeq(s) \cup {x}
           /\ Distinct(s) /\ x \notin InSeq(s) => Distinct(Append(s, x))
  <1> DEFINE t == Append(s, x)
  <1>1. /\ Len(s) \in Nat /\ DOMAIN s = 1 .. Len(s)
        /\ DOMAIN t = 1 .. Len(s) + 1
        /\ \A i \in 1 .. Len(s) : t[i] = s[i]
        /\ t[Len(s) + 1] = x
    BY AppendProperties, LenProperties
  <1> HIDE DEF t
  <1>2. InSeq(t) = InSeq(s) \cup {x}
    <2>1. ASSUME NEW y \in InSeq(t) PROVE y \in InSeq(s) \cup {x}
      BY <1>1 DEF InSeq
    <2>2. ASSUME NEW y \in InSeq(s) \cup {x} PROVE y \in InSeq(t)
      BY <1>1 DEF InSeq
    <2> QED BY <2>1, <2>2
  <1>3. ASSUME Distinct(s), x \notin InSeq(s) PROVE Distinct(t)
    BY <1>1, <1>3 DEF Distinct, InSeq
  <1> QED BY <1>2, <1>3 DEF t

\* Taking the head leaves the others, it not among them.
LEMMA Taken ==
    ASSUME NEW S, NEW s \in Seq(S), s # <<>>
    PROVE  /\ InSeq(s) = {Head(s)} \cup InSeq(Tail(s))
           /\ Distinct(s) => Distinct(Tail(s)) /\ Head(s) \notin InSeq(Tail(s))
  <1> DEFINE t == Tail(s)
  <1>1. /\ Len(s) \in Nat \ {0} /\ DOMAIN s = 1 .. Len(s)
        /\ DOMAIN t = 1 .. Len(s) - 1
        /\ \A i \in 1 .. Len(s) - 1 : t[i] = s[i + 1]
        /\ Head(s) = s[1]
    BY HeadTailProperties, LenProperties
  <1> HIDE DEF t
  <1>2. InSeq(s) = {Head(s)} \cup InSeq(t)
    <2>1. ASSUME NEW i \in DOMAIN s PROVE s[i] \in {Head(s)} \cup InSeq(t)
      <3>1. CASE i = 1 BY <1>1, <3>1
      <3>2. CASE i # 1
        <4>1. i - 1 \in DOMAIN t /\ t[i - 1] = s[i] BY <1>1, <2>1, <3>2
        <4> QED BY <4>1 DEF InSeq
      <3> QED BY <3>1, <3>2
    <2>2. ASSUME NEW i \in DOMAIN t PROVE t[i] \in InSeq(s)
      <3>1. i + 1 \in DOMAIN s /\ s[i + 1] = t[i] BY <1>1, <2>2
      <3> QED BY <3>1 DEF InSeq
    <2>3. Head(s) \in InSeq(s) BY <1>1 DEF InSeq
    <2> QED BY <2>1, <2>2, <2>3 DEF InSeq
  <1>3. ASSUME Distinct(s) PROVE Distinct(t) /\ Head(s) \notin InSeq(t)
    <2>1. ASSUME NEW i \in DOMAIN t, NEW j \in DOMAIN t, t[i] = t[j] PROVE i = j
      <3>1. i + 1 \in DOMAIN s /\ j + 1 \in DOMAIN s /\ s[i + 1] = s[j + 1]
        BY <1>1, <2>1
      <3>2. i + 1 = j + 1 BY <3>1, <1>3 DEF Distinct
      <3> QED BY <1>1, <3>2
    <2>2. ASSUME NEW i \in DOMAIN t PROVE t[i] # Head(s)
      <3>1. i + 1 \in DOMAIN s /\ 1 \in DOMAIN s /\ i + 1 # 1 /\ t[i] = s[i + 1]
        BY <1>1, <2>2
      <3> QED BY <1>1, <1>3, <3>1 DEF Distinct
    <2> QED BY <2>1, <2>2 DEF Distinct, InSeq
  <1> QED BY <1>2, <1>3 DEF t

-----------------------------------------------------------------------------
(* Every step keeps the invariant. *)

\* Reporting gives the prompt an outcome, the reported or an unknown one.
LEMMA Finished ==
    ASSUME TypeOK, NEW p \in Prompts, NEW r \in Results, Finish(p, r)
    PROVE  /\ receipt'[p] \in {r, "Unknown"} /\ receipt'[p] # Idle
           /\ \A q \in Prompts \ {p} : receipt'[q] = receipt[q]
  BY DEF TypeOK, Finish, Results, Answers, Idle

\* A prompt was sent when it has its outcome or is under way.
LEMMA SentMeans ==
    ASSUME LifeInv, NEW p \in Prompts
    PROVE  Sent(p) <=> receipt[p] # Idle \/ p \in UnderWay
  <1>1. p # NoPrompt
    BY DeliveryAssumption DEF Prompts
  <1> QED
    BY <1>1 DEF LifeInv, GateInv, PlacesOK, InFlight, NoOutcomeYet, TypeOK, Sent, UnderWay,
       Batched, Handed, WorkerHas, CourierHas

\* What is under way is a prompt.
LEMMA UnderWayType ==
    ASSUME TypeOK, PlacesOK
    PROVE  UnderWay \subseteq Prompts /\ InSeq(inbox) \cup InSeq(waiting) \cup InSeq(batch) \subseteq Requests
  <1>1. InSeq(inbox) \cup InSeq(waiting) \cup InSeq(batch) \subseteq Requests
    BY DEF TypeOK, InSeq
  <1>2. InSeq(parcels) \subseteq Prompts
    BY DEF TypeOK, InSeq
  <1>3. WorkerHas \cup CourierHas \subseteq Prompts
    BY DEF TypeOK, PlacesOK, InFlight, WorkerHas, CourierHas
  <1> QED
    BY <1>1, <1>2, <1>3 DEF UnderWay, Batched, Handed, Prompts

LEMMA LifeInit == Init => LifeInv
  <1> SUFFICES ASSUME Init PROVE LifeInv
    OBVIOUS
  <1>1. GateInv
    BY GateInit
  <1>2. OnePlace /\ NoOutcomeYet /\ BatchIsPolled
    BY EmptyQueue DEF Init, OnePlace, NoOutcomeYet, BatchIsPolled, UnderWay, Batched, Handed,
       WorkerHas, CourierHas
  <1> QED
    BY <1>1, <1>2 DEF Init, LifeInv, TypedOnce, ReportIsTrue, ToldIsTrue, QuietedStays, Idle

LEMMA OwnerKeepsLife ==
    ASSUME LifeInv, Owner
    PROVE  LifeInv'
  <1> USE DEF queues, gate, history
  <1>1. GateInv'
    BY OwnerKeepsGate DEF LifeInv
  <1> PICK p \in Requests : SendObserved(p) \/ Withdraw(p)
    BY DEF Owner
  <1>2. p \in Prompts
    BY DEF Prompts
  <1>3. CASE SendObserved(p)
    <2>1. receipt[p] = Idle /\ p \notin UnderWay /\ p \notin withdrawn
      BY <1>2, <1>3, SentMeans DEF SendObserved
    <2>2. \A q \in Prompts \ {p} : receipt'[q] = receipt[q]
      BY <1>2, <1>3, Finished DEF SendObserved, LifeInv, GateInv, TypeOK, Results, Answers
    <2>3. receipt'[p] \in {Idle, "Delivery", "Unknown"}
      BY <1>2, <1>3, <2>1, Finished DEF SendObserved, LifeInv, GateInv, TypeOK, Results, Answers
    <2>4. Distinct(inbox') /\ InSeq(inbox') \subseteq InSeq(inbox) \cup {p}
      <3>1. inbox \in Seq(Requests) /\ Distinct(inbox) /\ p \notin InSeq(inbox)
        BY <2>1 DEF LifeInv, GateInv, TypeOK, OnePlace, UnderWay
      <3>2. inbox' = inbox \/ inbox' = Append(inbox, p)
        BY <1>3 DEF SendObserved
      <3>3. Distinct(Append(inbox, p)) /\ InSeq(Append(inbox, p)) = InSeq(inbox) \cup {p}
        BY <3>1, Appended
      <3>4. CASE inbox' = inbox BY <3>1, <3>4
      <3>5. CASE inbox' = Append(inbox, p) BY <3>3, <3>5
      <3> QED BY <3>2, <3>4, <3>5
    <2>12. p \in InSeq(inbox') => receipt' = receipt
      BY <1>3, <2>1 DEF SendObserved, UnderWay
    <2>5. /\ UNCHANGED <<waiting, batch, parcels>>
          /\ WorkerHas' = WorkerHas /\ CourierHas' = CourierHas
      BY <1>3 DEF SendObserved, WorkerHas, CourierHas
    <2>11. Handed' = Handed /\ Batched' = Batched /\ p \notin InSeq(waiting) \cup Batched
      BY <2>1, <2>5 DEF Handed, Batched, UnderWay
    <2>6. OnePlace'
      BY <2>4, <2>5, <2>11 DEF LifeInv, OnePlace
    <2>7. worker.pc = "unqueue" => worker.prompt \in Prompts \ {p}
      BY <2>1 DEF LifeInv, GateInv, TypeOK, PlacesOK, NoOutcomeYet
    <2>8. courier.pc = "sent" => courier.prompt \in Prompts \ {p}
      BY <2>1 DEF LifeInv, GateInv, TypeOK, PlacesOK, InFlight, NoOutcomeYet
    <2>9. NoOutcomeYet'
      <3>1. ASSUME NEW q \in UnderWay' PROVE receipt'[q] = Idle
        <4>1. q = p \/ q \in UnderWay
          BY <2>4, <2>5, <2>11 DEF UnderWay
        <4>2. CASE q = p
          BY <2>1, <2>5, <2>11, <2>12, <3>1, <4>2 DEF UnderWay
        <4>3. CASE q # p
          BY <2>2, <4>1, <4>3, UnderWayType DEF LifeInv, GateInv, NoOutcomeYet
        <4> QED BY <4>2, <4>3
      <3> QED
        BY <1>3, <2>2, <2>7, <2>8, <3>1 DEF SendObserved, LifeInv, NoOutcomeYet
    <2>10. TypedOnce' /\ ReportIsTrue' /\ ToldIsTrue' /\ QuietedStays' /\ BatchIsPolled'
      BY <1>2, <1>3, <2>1, <2>2, <2>3
      DEF SendObserved, LifeInv, TypedOnce, ReportIsTrue, ToldIsTrue, QuietedStays, BatchIsPolled, Idle
    <2> QED BY <1>1, <2>6, <2>9, <2>10 DEF LifeInv
  <1>4. CASE Withdraw(p)
    <2>1. OnePlace' /\ NoOutcomeYet' /\ BatchIsPolled' /\ TypedOnce' /\ ReportIsTrue' /\ ToldIsTrue'
      BY <1>4 DEF Withdraw, LifeInv, OnePlace, NoOutcomeYet, BatchIsPolled, TypedOnce, ReportIsTrue,
         ToldIsTrue, UnderWay, Batched, Handed, WorkerHas, CourierHas
    <2>2. QuietedStays'
      BY <1>2, <1>4 DEF Withdraw, LifeInv, GateInv, QuietWhileDrained, InFlight, QuietedStays
    <2> QED BY <1>1, <2>1, <2>2 DEF LifeInv
  <1> QED BY <1>3, <1>4

-----------------------------------------------------------------------------
(* What a thread's step does to the prompts that are under way. *)

\* The prompts only change places.
Passed == UnderWay' = UnderWay /\ UNCHANGED receipt

\* The owner of p is told a true outcome.
Told(p) ==
    /\ p \in UnderWay /\ UnderWay' = UnderWay \ {p}
    /\ receipt'[p] # Idle /\ \A q \in Prompts \ {p} : receipt'[q] = receipt[q]
    /\ receipt'[p] = "Ok" => submitted[p] = 1
    /\ receipt'[p] = "Cancelled" => p \in withdrawn /\ submitted[p] = 0

\* A prompt enters.
Entered(p) == ~Sent(p) /\ UnderWay' = UnderWay \cup {p} /\ UNCHANGED receipt

\* The prompts gone are closed.
Closed(gone) == gone \subseteq UnderWay /\ UnderWay' = UnderWay \ gone /\ Close(gone)

\* What becomes of the prompts in a step of the worker.
WorkerMove ==
    /\ OnePlace' /\ BatchIsPolled'
    /\ worker'.pc = "unqueue" => receipt'[worker'.prompt] # Idle
    /\ UNCHANGED <<courier, submitted, withdrawn, quieted, hold>>
    /\ \/ Passed
       \/ \E p \in UnderWay \ CourierHas : Told(p)
       \/ \E w \in Wakeups : Entered(w)
       \/ \E gone \in SUBSET (UnderWay \ CourierHas) : Closed(gone)

LEMMA ReceiveMoves == ASSUME LifeInv, Receive PROVE WorkerMove
  <1> USE DEF LifeInv, GateInv, Receive
  <1> DEFINE p == Head(inbox)
  <1>1. /\ inbox \in Seq(Requests) /\ inbox # <<>> /\ waiting \in Seq(Requests)
        /\ p \in Requests /\ batch = <<>>
    BY HeadTailProperties DEF TypeOK, BatchIsPolled
  <1>2. /\ InSeq(inbox) = {p} \cup InSeq(Tail(inbox))
        /\ Distinct(Tail(inbox)) /\ p \notin InSeq(Tail(inbox))
    BY <1>1, Taken DEF OnePlace
  <1>3. p \notin InSeq(waiting)
    BY <1>2 DEF OnePlace
  <1>4. InSeq(Append(waiting, p)) = InSeq(waiting) \cup {p} /\ Distinct(Append(waiting, p))
    BY <1>1, <1>3, Appended DEF OnePlace
  <1>5. /\ InSeq(inbox') = InSeq(Tail(inbox)) /\ Distinct(inbox')
        /\ InSeq(waiting') = {} /\ Distinct(waiting')
        /\ InSeq(batch') = InSeq(waiting) \cup {p} /\ Distinct(batch')
        /\ InSeq(batch) = {}
        /\ UNCHANGED parcels
    BY <1>1, <1>2, <1>4, EmptyQueue
  <1>6. WorkerHas' = {} /\ WorkerHas = {} /\ CourierHas' = CourierHas
    BY DEF WorkerHas, CourierHas, TypeOK
  <1>7. OnePlace'
    BY <1>2, <1>3, <1>5, <1>6 DEF OnePlace, Batched, Handed
  <1>8. UnderWay' = UnderWay
    BY <1>2, <1>5, <1>6 DEF UnderWay, Batched, Handed
  <1> QED
    BY <1>7, <1>8 DEF WorkerMove, Passed, BatchIsPolled, gate, owners, history, TypeOK

LEMMA RecheckMoves == ASSUME LifeInv, Recheck PROVE WorkerMove
  <1> USE DEF LifeInv, GateInv, Recheck
  <1>1. /\ InSeq(waiting') = {} /\ Distinct(waiting')
        /\ InSeq(batch') = InSeq(waiting) /\ Distinct(batch')
        /\ InSeq(batch) = {}
        /\ UNCHANGED <<inbox, parcels>>
    BY EmptyQueue DEF OnePlace, BatchIsPolled
  <1>2. WorkerHas' = {} /\ WorkerHas = {} /\ CourierHas' = CourierHas
    BY DEF WorkerHas, CourierHas, TypeOK
  <1>3. OnePlace' /\ UnderWay' = UnderWay
    BY <1>1, <1>2 DEF OnePlace, UnderWay, Batched, Handed
  <1> QED
    BY <1>3 DEF WorkerMove, Passed, BatchIsPolled, gate, owners, history, TypeOK

LEMMA StopMoves == ASSUME LifeInv, Stop PROVE WorkerMove
  <1> USE DEF LifeInv, GateInv, Stop
  <1> DEFINE gone == InSeq(inbox) \cup InSeq(waiting)
  <1>1. /\ InSeq(inbox') = {} /\ Distinct(inbox') /\ InSeq(waiting') = {} /\ Distinct(waiting')
        /\ UNCHANGED <<batch, parcels>>
    BY EmptyQueue
  <1>2. WorkerHas' = {} /\ WorkerHas = {} /\ CourierHas' = CourierHas
    BY DEF WorkerHas, CourierHas, TypeOK
  <1>3. OnePlace' /\ UnderWay' = UnderWay \ gone /\ gone \in SUBSET (UnderWay \ CourierHas)
    BY <1>1, <1>2 DEF OnePlace, UnderWay, Batched, Handed
  <1>4. Closed(gone)
    BY <1>3 DEF Closed
  <1> QED
    BY <1>3, <1>4 DEF WorkerMove, BatchIsPolled, gate, history, TypeOK

LEMMA BeginMoves == ASSUME LifeInv, Begin PROVE WorkerMove
  <1> USE DEF LifeInv, GateInv
  <1> DEFINE p == Head(batch)
  <1>1. /\ batch \in Seq(Requests) /\ batch # <<>> /\ waiting \in Seq(Requests)
        /\ p \in Requests /\ p \in Prompts
    BY HeadTailProperties DEF Begin, TypeOK, Prompts
  <1>2. /\ InSeq(batch) = {p} \cup InSeq(Tail(batch))
        /\ Distinct(Tail(batch)) /\ p \notin InSeq(Tail(batch))
    BY <1>1, Taken DEF OnePlace
  <1>3. p \notin InSeq(waiting) /\ p \notin InSeq(inbox)
    BY <1>2 DEF OnePlace, Batched
  <1>4. InSeq(Append(waiting, p)) = InSeq(waiting) \cup {p} /\ Distinct(Append(waiting, p))
    BY <1>1, <1>3, Appended DEF OnePlace
  <1>5. /\ batch' = Tail(batch) /\ worker.pc = "poll"
        /\ UNCHANGED <<inbox, parcels, courier, submitted, withdrawn, quieted, hold>>
    BY DEF Begin, gate, history
  <1>6. WorkerHas = {} /\ CourierHas' = CourierHas
    BY <1>5 DEF WorkerHas, CourierHas
  <1>7. p \in UnderWay \ CourierHas /\ receipt[p] = Idle
    BY <1>2 DEF OnePlace, Handed, UnderWay, Batched, NoOutcomeYet
  <1>11. \/ /\ UNCHANGED <<waiting, worker>>
            /\ (Finish(p, "Delivery") \/ (p \in withdrawn /\ Finish(p, "Cancelled")))
         \/ waiting' = Append(waiting, p) /\ UNCHANGED <<receipt, worker>>
         \/ worker' = [pc |-> "attempt", prompt |-> p] /\ UNCHANGED <<receipt, waiting>>
    BY DEF Begin
  <1> HIDE DEF p
  <1>8. CASE /\ UNCHANGED <<waiting, worker>>
             /\ (Finish(p, "Delivery") \/ (p \in withdrawn /\ Finish(p, "Cancelled")))
    <2>1. WorkerHas' = {}
      BY <1>6, <1>8 DEF WorkerHas
    <2>2. OnePlace' /\ UnderWay' = UnderWay \ {p}
      BY <1>2, <1>3, <1>5, <1>6, <1>7, <1>8, <2>1 DEF OnePlace, UnderWay, Batched, Handed
    <2>3. submitted[p] = 0
      BY <1>1, <1>7 DEF TypedOnce, CourierHas
    <2>4. \/ receipt'[p] \in {"Delivery", "Unknown"}
          \/ receipt'[p] \in {"Cancelled", "Unknown"} /\ p \in withdrawn
      BY <1>1, <1>8, Finished DEF Results, Answers
    <2>5. \A q \in Prompts \ {p} : receipt'[q] = receipt[q]
      BY <1>1, <1>8, Finished DEF Results, Answers
    <2>6. Told(p)
      BY <1>7, <2>2, <2>3, <2>4, <2>5 DEF Told, Idle
    <2> QED
      BY <1>5, <1>7, <1>8, <2>2, <2>6 DEF WorkerMove, BatchIsPolled
  <1>9. CASE waiting' = Append(waiting, p) /\ UNCHANGED <<receipt, worker>>
    <2>1. WorkerHas' = {}
      BY <1>6, <1>9 DEF WorkerHas
    <2>2. OnePlace' /\ UnderWay' = UnderWay
      BY <1>2, <1>3, <1>4, <1>5, <1>6, <1>7, <1>9, <2>1 DEF OnePlace, UnderWay, Batched, Handed
    <2> QED
      BY <1>5, <1>9, <2>2 DEF WorkerMove, BatchIsPolled, Passed
  <1>10. CASE worker' = [pc |-> "attempt", prompt |-> p] /\ UNCHANGED <<receipt, waiting>>
    <2>1. WorkerHas' = {p}
      BY <1>10 DEF WorkerHas
    <2>2. OnePlace' /\ UnderWay' = UnderWay
      BY <1>2, <1>3, <1>5, <1>6, <1>7, <1>10, <2>1 DEF OnePlace, UnderWay, Batched, Handed
    <2> QED
      BY <1>5, <1>10, <2>2 DEF WorkerMove, BatchIsPolled, Passed
  <1> QED
    BY <1>8, <1>9, <1>10, <1>11

\* The queues stay as they are.
LEMMA SameQueues ==
    ASSUME LifeInv, UNCHANGED <<inbox, waiting, batch, parcels>>,
           WorkerHas' \subseteq WorkerHas, CourierHas' \subseteq CourierHas
    PROVE  /\ OnePlace'
           /\ UnderWay' = UnderWay \ ((WorkerHas \ WorkerHas') \cup (CourierHas \ CourierHas'))
  <1>1. /\ Distinct(inbox') /\ Distinct(waiting') /\ Distinct(batch') /\ Distinct(parcels')
        /\ InSeq(inbox') = InSeq(inbox) /\ InSeq(waiting') = InSeq(waiting)
        /\ InSeq(batch') = InSeq(batch) /\ InSeq(parcels') = InSeq(parcels)
    BY DEF LifeInv, OnePlace
  <1>4. Handed' = InSeq(parcels) \cup CourierHas' /\ Handed' \subseteq Handed
    BY <1>1 DEF Handed
  <1>5. Batched' = InSeq(batch) \cup WorkerHas' \cup Handed' /\ Batched' \subseteq Batched
    BY <1>1, <1>4 DEF Batched
  <1>2. OnePlace'
    BY <1>1, <1>4, <1>5 DEF LifeInv, OnePlace
  <1>3. UnderWay' = UnderWay \ ((WorkerHas \ WorkerHas') \cup (CourierHas \ CourierHas'))
    BY <1>1 DEF LifeInv, OnePlace, UnderWay, Batched, Handed
  <1> QED BY <1>2, <1>3

LEMMA AttemptMoves == ASSUME LifeInv, Attempt PROVE WorkerMove
  <1> USE DEF LifeInv, GateInv
  <1> DEFINE p == worker.prompt
  <1>1. worker.pc = "attempt" /\ p \in Prompts
    BY DEF Attempt, TypeOK, PlacesOK
  <1>2. /\ UNCHANGED <<inbox, waiting, batch, parcels, courier, submitted, withdrawn, quieted, hold>>
        /\ WorkerHas = {p} /\ CourierHas' = CourierHas
    BY <1>1 DEF Attempt, queues, gate, history, WorkerHas, CourierHas
  <1>3. p \in UnderWay \ CourierHas /\ receipt[p] = Idle
    BY <1>2 DEF OnePlace, Handed, UnderWay, Batched, NoOutcomeYet
  <1>4. CASE worker' = [worker EXCEPT !.pc = "queue"] /\ UNCHANGED receipt
    <2>1. worker'.pc = "queue" /\ WorkerHas' = WorkerHas
      BY <1>1, <1>4 DEF WorkerHas, TypeOK
    <2> QED
      BY <1>2, <1>4, <2>1, SameQueues DEF WorkerMove, BatchIsPolled, Passed
  <1>5. CASE worker' = [pc |-> "poll", prompt |-> NoPrompt] /\ Finish(p, "Delivery")
    <2>1. WorkerHas' = {} /\ worker'.pc = "poll"
      BY <1>5 DEF WorkerHas
    <2>2. OnePlace' /\ UnderWay' = UnderWay \ {p}
      BY <1>2, <2>1, SameQueues
    <2>3. receipt'[p] \in {"Delivery", "Unknown"} /\ \A q \in Prompts \ {p} : receipt'[q] = receipt[q]
      BY <1>1, <1>5, Finished DEF Results, Answers
    <2>4. Told(p)
      BY <1>3, <2>2, <2>3 DEF Told, Idle
    <2> QED
      BY <1>2, <1>3, <2>1, <2>2, <2>4 DEF WorkerMove, BatchIsPolled
  <1> QED
    BY <1>4, <1>5 DEF Attempt

LEMMA EndPollMoves == ASSUME LifeInv, EndPoll PROVE WorkerMove
  <1> USE DEF LifeInv, GateInv
  <1>1. /\ UNCHANGED <<inbox, waiting, batch, parcels, courier, submitted, withdrawn, quieted, hold, receipt>>
        /\ WorkerHas = {} /\ CourierHas' = CourierHas /\ batch = <<>>
    BY DEF EndPoll, queues, gate, owners, history, WorkerHas, CourierHas
  <1>2. CASE worker' = [worker EXCEPT !.pc = "recv"]
    <2>1. worker'.pc = "recv" /\ WorkerHas' = {}
      BY <1>2 DEF WorkerHas, TypeOK
    <2> QED
      BY <1>1, <2>1, SameQueues DEF WorkerMove, BatchIsPolled, Passed
  <1>3. ASSUME NEW w \in Wakeups, ~Sent(w), worker' = [pc |-> "queue", prompt |-> w]
        PROVE  WorkerMove
    <2>1. WorkerHas' = {w} /\ worker'.pc = "queue"
      BY <1>3 DEF WorkerHas
    <2>2. w \notin UnderWay
      BY <1>3, SentMeans DEF Prompts
    <2>3. OnePlace' /\ UnderWay' = UnderWay \cup {w}
      BY <1>1, <2>1, <2>2 DEF OnePlace, UnderWay, Batched, Handed
    <2> QED
      BY <1>1, <1>3, <2>1, <2>3 DEF WorkerMove, BatchIsPolled, Entered
  <1> QED
    BY <1>2, <1>3 DEF EndPoll

LEMMA HandoverMoves == ASSUME LifeInv, Queue \/ Hand \/ Unqueue PROVE WorkerMove
  <1> USE DEF LifeInv, GateInv
  <1> DEFINE p == worker.prompt
  <1>1. /\ UNCHANGED <<inbox, waiting, batch, courier, submitted, withdrawn, quieted, hold>>
        /\ CourierHas' = CourierHas
    BY DEF Queue, Hand, Unqueue, queues, owners, history, CourierHas
  <1>2. CASE Queue
    <2>1. worker'.pc = "hand" /\ WorkerHas' = WorkerHas /\ UNCHANGED <<parcels, receipt>>
      BY <1>2 DEF Queue, WorkerHas, TypeOK, owners
    <2> QED
      BY <1>1, <2>1, SameQueues DEF WorkerMove, BatchIsPolled, Passed
  <1>3. CASE Hand
    <2>1. worker.pc = "hand" /\ WorkerHas = {p} /\ p \in Prompts
      BY <1>3 DEF Hand, WorkerHas, TypeOK, PlacesOK
    <2>2. p \in UnderWay \ CourierHas /\ receipt[p] = Idle
      BY <2>1 DEF OnePlace, Handed, UnderWay, Batched, NoOutcomeYet
    <2>3. CASE courier.pc # "dead"
      <3>1. p \notin InSeq(parcels)
        BY <2>1 DEF OnePlace, Handed
      <3>2. parcels' = Append(parcels, p) /\ worker'.pc = "poll" /\ UNCHANGED receipt
        BY <1>3, <2>3 DEF Hand
      <3>3. InSeq(parcels') = InSeq(parcels) \cup {p} /\ Distinct(parcels')
        BY <2>1, <3>1, <3>2, Appended DEF TypeOK, OnePlace
      <3>4. WorkerHas' = {}
        BY <3>2 DEF WorkerHas
      <3>5. /\ Distinct(inbox') /\ Distinct(waiting') /\ Distinct(batch')
            /\ InSeq(inbox') = InSeq(inbox) /\ InSeq(waiting') = InSeq(waiting)
            /\ InSeq(batch') = InSeq(batch)
        BY <1>1 DEF OnePlace
      <3>6. OnePlace' /\ UnderWay' = UnderWay
        BY <1>1, <2>1, <3>3, <3>4, <3>5 DEF OnePlace, UnderWay, Batched, Handed
      <3> QED
        BY <1>1, <3>2, <3>6 DEF WorkerMove, BatchIsPolled, Passed
    <2>4. CASE courier.pc = "dead"
      <3>1. /\ worker'.pc = "unqueue" /\ worker'.prompt = p /\ UNCHANGED parcels
            /\ Finish(p, "Delivery")
        BY <1>3, <2>4 DEF Hand, TypeOK
      <3>2. WorkerHas' = {}
        BY <3>1 DEF WorkerHas
      <3>3. OnePlace' /\ UnderWay' = UnderWay \ {p}
        BY <1>1, <2>1, <3>1, <3>2, SameQueues
      <3>4. /\ receipt'[p] \in {"Delivery", "Unknown"}
            /\ \A q \in Prompts \ {p} : receipt'[q] = receipt[q]
        BY <2>1, <3>1, Finished DEF Results, Answers
      <3>5. Told(p)
        BY <2>2, <3>3, <3>4 DEF Told, Idle
      <3> QED
        BY <1>1, <2>2, <3>1, <3>3, <3>5 DEF WorkerMove, BatchIsPolled, Told
    <2> QED BY <2>3, <2>4
  <1>4. CASE Unqueue
    <2>1. /\ worker'.pc = "poll" /\ WorkerHas' = {} /\ WorkerHas = {}
          /\ UNCHANGED <<parcels, receipt>>
      BY <1>4 DEF Unqueue, WorkerHas, owners
    <2> QED
      BY <1>1, <2>1, SameQueues DEF WorkerMove, BatchIsPolled, Passed
  <1> QED BY <1>2, <1>3, <1>4

LEMMA WorkerMoves == ASSUME LifeInv, Worker PROVE WorkerMove
  BY ReceiveMoves, RecheckMoves, StopMoves, BeginMoves, AttemptMoves, EndPollMoves, HandoverMoves
  DEF Worker

\* So the worker's steps keep the invariant.
LEMMA WorkerKeepsLife == ASSUME LifeInv, Worker PROVE LifeInv'
  <1> USE DEF LifeInv, GateInv
  <1>1. GateInv'
    BY WorkerKeepsGate
  <1>2. WorkerMove
    BY WorkerMoves
  <1> HIDE DEF GateInv
  <1>3. /\ OnePlace' /\ BatchIsPolled' /\ ReportIsTrue' /\ QuietedStays'
        /\ submitted' = submitted /\ courier' = courier
    BY <1>2 DEF WorkerMove, ReportIsTrue, QuietedStays
  <1>4. UnderWay \subseteq Prompts
    BY UnderWayType DEF GateInv
  <1>5. \A p \in UnderWay \ CourierHas : submitted[p] = 0 /\ receipt[p] = Idle
    BY <1>4 DEF TypedOnce, NoOutcomeYet, CourierHas
  <1>6. courier.pc = "sent" => courier.prompt \in Prompts /\ courier.prompt \notin UnderWay
    BY DEF GateInv, TypeOK, PlacesOK, InFlight, NoOutcomeYet
  <1>7. ASSUME Passed PROVE LifeInv'
    <2>1. NoOutcomeYet'
      BY <1>2, <1>3, <1>7 DEF WorkerMove, Passed, NoOutcomeYet
    <2>2. TypedOnce' /\ ToldIsTrue'
      BY <1>3, <1>7 DEF Passed, TypedOnce, ToldIsTrue
    <2> QED BY <1>1, <1>3, <2>1, <2>2
  <1>8. ASSUME NEW p \in UnderWay \ CourierHas, Told(p) PROVE LifeInv'
    <2>1. NoOutcomeYet'
      BY <1>2, <1>4, <1>6, <1>8 DEF WorkerMove, Told, NoOutcomeYet
    <2>2. TypedOnce' /\ ToldIsTrue'
      BY <1>3, <1>4, <1>5, <1>8 DEF Told, TypedOnce, ToldIsTrue
    <2> QED BY <1>1, <1>3, <2>1, <2>2
  <1>9. ASSUME NEW w \in Wakeups, Entered(w) PROVE LifeInv'
    <2>1. receipt[w] = Idle
      BY <1>9 DEF Entered, Sent
    <2> QED
      BY <1>1, <1>2, <1>3, <1>9, <2>1 DEF WorkerMove, Entered, NoOutcomeYet, TypedOnce, ToldIsTrue
  <1>10. ASSUME NEW gone \in SUBSET (UnderWay \ CourierHas), Closed(gone) PROVE LifeInv'
    <2>1. NoOutcomeYet'
      BY <1>2, <1>4, <1>6, <1>10 DEF WorkerMove, Closed, Close, NoOutcomeYet, Idle
    <2>2. TypedOnce' /\ ToldIsTrue'
      BY <1>3, <1>4, <1>5, <1>10 DEF Closed, Close, TypedOnce, ToldIsTrue, Idle
    <2> QED BY <1>1, <1>3, <2>1, <2>2
  <1> QED
    BY <1>1, <1>2, <1>7, <1>8, <1>9, <1>10 DEF WorkerMove

-----------------------------------------------------------------------------
(* The courier's steps. *)

\* The courier types a prompt that was not typed yet.
Typed(p) ==
    /\ Passed /\ courier.pc = "submit" /\ courier.prompt = p
    /\ p \in UnderWay /\ submitted[p] = 0 /\ submitted' = [submitted EXCEPT ![p] = 1]

CourierMove ==
    /\ OnePlace'
    /\ UNCHANGED <<worker, batch, withdrawn, quieted, hold>>
    /\ \/ Passed /\ UNCHANGED submitted
       \/ \E p \in Prompts : Typed(p)
       \/ Told(courier.prompt) /\ UNCHANGED submitted
       \/ \E gone \in SUBSET UnderWay : Closed(gone) /\ UNCHANGED submitted

LEMMA TakeMoves ==
    ASSUME LifeInv, Take
    PROVE  CourierMove /\ Passed /\ UNCHANGED submitted
  <1> USE DEF LifeInv, GateInv, Take
  <1> DEFINE p == Head(parcels)
  <1>1. parcels \in Seq(Prompts) /\ parcels # <<>>
    BY DEF TypeOK
  <1>2. /\ InSeq(parcels) = {p} \cup InSeq(Tail(parcels))
        /\ Distinct(Tail(parcels)) /\ p \notin InSeq(Tail(parcels))
    BY <1>1, Taken DEF OnePlace
  <1>3. /\ UNCHANGED <<inbox, waiting, batch, worker, withdrawn, quieted, hold, receipt, submitted>>
        /\ WorkerHas' = WorkerHas /\ CourierHas = {} /\ CourierHas' = {p}
    BY DEF queues, gate, owners, history, WorkerHas, CourierHas, TypeOK
  <1>4. /\ Distinct(inbox') /\ Distinct(waiting') /\ Distinct(batch') /\ Distinct(parcels')
        /\ InSeq(inbox') = InSeq(inbox) /\ InSeq(waiting') = InSeq(waiting)
        /\ InSeq(batch') = InSeq(batch) /\ InSeq(parcels') = InSeq(Tail(parcels))
    BY <1>2, <1>3 DEF OnePlace
  <1>5. Handed' = Handed
    BY <1>2, <1>3, <1>4 DEF Handed
  <1>6. OnePlace'
    BY <1>2, <1>3, <1>4, <1>5 DEF OnePlace, Batched
  <1>7. UnderWay' = UnderWay
    BY <1>3, <1>4, <1>5 DEF UnderWay, Batched
  <1> QED
    BY <1>3, <1>6, <1>7 DEF CourierMove, Passed

LEMMA SendingMoves ==
    ASSUME LifeInv, CourierEnds \/ PassGate \/ CheckWithdrawn \/ Await \/ SentDrop
    PROVE  CourierMove /\ Passed /\ UNCHANGED submitted
  <1> USE DEF LifeInv, GateInv
  <1>1. /\ UNCHANGED <<inbox, waiting, batch, parcels, worker, withdrawn, quieted, hold,
                       receipt, submitted>>
        /\ WorkerHas' = WorkerHas
    BY DEF CourierEnds, PassGate, CheckWithdrawn, Await, SentDrop, queues, gate, owners, history,
       WorkerHas
  <1>2. CourierHas' = CourierHas
    BY DEF CourierEnds, PassGate, CheckWithdrawn, Await, SentDrop, CourierHas, TypeOK
  <1> QED
    BY <1>1, <1>2, SameQueues DEF CourierMove, Passed

LEMMA SubmitMoves ==
    ASSUME LifeInv, Submit
    PROVE  CourierMove /\ Passed
  <1> USE DEF LifeInv, GateInv
  <1> DEFINE p == courier.prompt
  <1>1. /\ UNCHANGED <<inbox, waiting, batch, parcels, worker, withdrawn, quieted, hold, receipt>>
        /\ WorkerHas' = WorkerHas /\ CourierHas' = CourierHas /\ CourierHas = {p}
    BY DEF Submit, queues, gate, owners, history, WorkerHas, CourierHas, TypeOK
  <1>2. OnePlace' /\ Passed
    BY <1>1, SameQueues DEF Passed
  <1>3. p \in Prompts /\ p \in UnderWay
    BY <1>1 DEF Submit, TypeOK, PlacesOK, InFlight, UnderWay, Batched, Handed
  <1>4. submitted[p] = 0
    BY <1>3 DEF Submit, NoOutcomeYet, TypedOnce
  <1>5. submitted' = submitted \/ submitted' = [submitted EXCEPT ![p] = 1]
    BY <1>4 DEF Submit
  <1> QED
    BY <1>1, <1>2, <1>3, <1>4, <1>5 DEF CourierMove, Typed, Submit

LEMMA ReportMoves ==
    ASSUME LifeInv, Report
    PROVE  CourierMove /\ Told(courier.prompt) /\ UNCHANGED submitted
  <1> USE DEF LifeInv, GateInv
  <1> DEFINE p == courier.prompt
  <1>1. /\ UNCHANGED <<inbox, waiting, batch, parcels, worker, withdrawn, quieted, hold, submitted>>
        /\ WorkerHas' = WorkerHas /\ CourierHas = {p} /\ CourierHas' = {}
        /\ courier.pc = "report"
    BY DEF Report, queues, gate, history, WorkerHas, CourierHas, TypeOK
  <1>2. OnePlace' /\ UnderWay' = UnderWay \ {p}
    BY <1>1, SameQueues
  <1>3. p \in Prompts /\ p \in UnderWay /\ courier.result \in Results
    BY <1>1 DEF TypeOK, PlacesOK, InFlight, UnderWay, Batched, Handed, Results
  <1>4. /\ receipt'[p] \in {courier.result, "Unknown"} /\ receipt'[p] # Idle
        /\ \A q \in Prompts \ {p} : receipt'[q] = receipt[q]
    BY <1>3, Finished DEF Report
  <1>5. Told(p)
    BY <1>1, <1>2, <1>3, <1>4 DEF Told, ReportIsTrue
  <1> QED
    BY <1>1, <1>2, <1>5 DEF CourierMove

LEMMA PanicMoves ==
    ASSUME LifeInv, Panic
    PROVE  /\ CourierMove
           /\ \E gone \in SUBSET UnderWay : Closed(gone) /\ courier.prompt \in gone
  <1> USE DEF LifeInv, GateInv
  <1> DEFINE gone == InSeq(parcels) \cup {courier.prompt}
  <1>1. /\ UNCHANGED <<inbox, waiting, batch, worker, withdrawn, quieted, hold, submitted>>
        /\ WorkerHas' = WorkerHas /\ CourierHas = {courier.prompt} /\ CourierHas' = {}
        /\ InSeq(parcels') = {} /\ Distinct(parcels') /\ Close(gone)
    BY EmptyQueue DEF Panic, queues, gate, history, WorkerHas, CourierHas, TypeOK
  <1>2. /\ Distinct(inbox') /\ Distinct(waiting') /\ Distinct(batch')
        /\ InSeq(inbox') = InSeq(inbox) /\ InSeq(waiting') = InSeq(waiting)
        /\ InSeq(batch') = InSeq(batch)
    BY <1>1 DEF OnePlace
  <1>3. Handed' = {} /\ Handed = gone
    BY <1>1 DEF Handed
  <1>4. OnePlace'
    BY <1>1, <1>2, <1>3 DEF OnePlace, Batched
  <1>5. UnderWay' = UnderWay \ gone /\ gone \subseteq UnderWay
    BY <1>1, <1>2, <1>3 DEF OnePlace, UnderWay, Batched
  <1> QED
    BY <1>1, <1>4, <1>5 DEF CourierMove, Closed

LEMMA CourierMoves == ASSUME LifeInv, CourierThread PROVE CourierMove
  BY TakeMoves, SendingMoves, SubmitMoves, ReportMoves, PanicMoves DEF CourierThread

\* A step that types nothing, reports nothing and loses nothing.
LEMMA CourierPasses ==
    ASSUME LifeInv, CourierMove, GateInv', Passed, UNCHANGED submitted,
           courier'.pc \notin {"await", "sent"},
           courier.pc \notin {"await", "report"},
           courier'.pc \in {"submit", "report"} => /\ courier.pc = "check"
                                                  /\ courier'.prompt = courier.prompt,
           courier'.pc = "submit" => courier.prompt \notin withdrawn,
           courier'.pc = "report" => /\ courier'.result = "Cancelled"
                                     /\ courier.prompt \in withdrawn
    PROVE  LifeInv'
  <1> USE DEF LifeInv
  <1>1. UNCHANGED <<worker, batch, withdrawn, quieted, receipt, submitted>> /\ OnePlace' /\ UnderWay' = UnderWay
    BY DEF CourierMove, Passed
  <1>2. NoOutcomeYet' /\ BatchIsPolled'
    BY <1>1 DEF NoOutcomeYet, BatchIsPolled
  <1>3. TypedOnce' /\ ToldIsTrue' /\ QuietedStays'
    BY <1>1 DEF TypedOnce, ToldIsTrue, QuietedStays
  <1>4. courier.pc = "check" => courier.prompt \in Prompts /\ submitted[courier.prompt] = 0
    BY DEF GateInv, TypeOK, PlacesOK, InFlight, NoOutcomeYet, TypedOnce, UnderWay, Batched, Handed,
       CourierHas
  <1>5. ReportIsTrue'
    BY <1>1, <1>4 DEF ReportIsTrue
  <1> QED BY <1>1, <1>2, <1>3, <1>5

LEMMA CourierKeepsLife == ASSUME LifeInv, CourierThread PROVE LifeInv'
  <1> USE DEF LifeInv
  <1> DEFINE p == courier.prompt
  <1>1. GateInv' /\ CourierMove
    BY CourierKeepsGate, CourierMoves
  <1>2. TypeOK /\ PlacesOK
    BY DEF GateInv
  <1>3. CASE Take
    <2>1. courier.pc = "recv" /\ courier'.pc = "gate"
      BY <1>2, <1>3 DEF Take, TypeOK
    <2> QED BY <1>1, <1>3, <2>1, TakeMoves, CourierPasses
  <1>4. CASE CourierEnds \/ PassGate \/ CheckWithdrawn
    <2>2. \/ courier'.pc \in {"dead", "check"} /\ courier.pc \in {"recv", "gate"}
          \/ /\ courier.pc = "check" /\ courier'.prompt = p /\ p \in withdrawn
             /\ courier'.pc = "report" /\ courier'.result = "Cancelled"
          \/ /\ courier.pc = "check" /\ courier'.prompt = p /\ p \notin withdrawn
             /\ courier'.pc = "submit"
      BY <1>2, <1>4 DEF CourierEnds, PassGate, CheckWithdrawn, TypeOK
    <2> QED BY <1>1, <1>4, <2>2, SendingMoves, CourierPasses
  <1>5. CASE Submit
    <2>1. /\ courier.pc = "submit" /\ p \in Prompts /\ courier'.prompt = p
          /\ p \in UnderWay /\ submitted[p] = 0 /\ p \notin quieted
      <3>1. courier.pc = "submit" /\ p \in Prompts /\ courier'.prompt = p
        BY <1>2, <1>5 DEF Submit, PlacesOK, InFlight, TypeOK
      <3>2. p \in UnderWay
        BY <3>1 DEF UnderWay, Batched, Handed, CourierHas, InFlight
      <3> QED BY <3>1, <3>2 DEF NoOutcomeYet, TypedOnce, QuietedStays
    <2>2. \/ courier'.pc = "await" /\ submitted' = [submitted EXCEPT ![p] = 1]
          \/ /\ courier'.pc = "report" /\ courier'.result = "Unknown"
             /\ submitted' \in {submitted, [submitted EXCEPT ![p] = 1]}
      <3>1. [submitted EXCEPT ![p] = @ + 1] = [submitted EXCEPT ![p] = 1]
        BY <2>1
      <3> QED BY <1>2, <1>5, <3>1 DEF Submit, TypeOK
    <2>3. /\ UNCHANGED <<worker, batch, withdrawn, quieted, receipt>>
          /\ OnePlace' /\ UnderWay' = UnderWay
      BY <1>5, SubmitMoves DEF CourierMove, Passed
    <2>4. NoOutcomeYet' /\ BatchIsPolled' /\ ReportIsTrue'
      BY <2>1, <2>2, <2>3 DEF NoOutcomeYet, BatchIsPolled, ReportIsTrue, TypedOnce
    <2>6. submitted' \in [Prompts -> {0, 1}] /\ \A q \in Prompts \ {p} : submitted'[q] = submitted[q]
      BY <2>1, <2>2 DEF TypedOnce
    <2>7. receipt[p] = Idle
      BY <2>1 DEF NoOutcomeYet
    <2>5. TypedOnce' /\ ToldIsTrue' /\ QuietedStays'
      <3>1. TypedOnce'
        BY <2>1, <2>2, <2>3, <2>6 DEF TypedOnce
      <3>2. ToldIsTrue'
        BY <2>3, <2>6, <2>7 DEF ToldIsTrue, Idle
      <3>3. QuietedStays'
        BY <1>2, <2>1, <2>2, <2>3, <2>6 DEF QuietedStays, TypeOK, Prompts
      <3> QED BY <3>1, <3>2, <3>3
    <2> QED BY <1>1, <2>3, <2>4, <2>5
  <1>6. CASE Await
    <2>1. /\ courier.pc = "await" /\ courier'.pc = "report" /\ courier'.prompt = p
          /\ courier'.result # "Cancelled"
      BY <1>2, <1>6 DEF Await, TypeOK, Answers
    <2>2. /\ UNCHANGED <<worker, batch, withdrawn, quieted, receipt, submitted>>
          /\ OnePlace' /\ UnderWay' = UnderWay
      BY <1>6, SendingMoves DEF CourierMove, Passed
    <2>3. NoOutcomeYet' /\ BatchIsPolled' /\ ReportIsTrue'
      BY <2>1, <2>2 DEF NoOutcomeYet, BatchIsPolled, ReportIsTrue
    <2>4. TypedOnce' /\ ToldIsTrue' /\ QuietedStays'
      BY <2>1, <2>2 DEF TypedOnce, ToldIsTrue, QuietedStays
    <2> QED BY <1>1, <2>2, <2>3, <2>4
  <1>7. CASE Report
    <2>1. /\ courier.pc = "report" /\ courier'.pc = "sent" /\ courier'.prompt = p /\ p \in Prompts
      BY <1>2, <1>7 DEF Report, TypeOK, PlacesOK, InFlight
    <2>2. Told(p) /\ OnePlace' /\ UNCHANGED <<worker, batch, withdrawn, quieted, submitted>>
      BY <1>7, ReportMoves DEF CourierMove
    <2>3. UnderWay \subseteq Prompts /\ (worker.pc = "unqueue" => worker.prompt \in Prompts)
      BY <1>2, UnderWayType DEF TypeOK, PlacesOK
    <2>4. NoOutcomeYet' /\ BatchIsPolled' /\ ReportIsTrue'
      BY <2>1, <2>2, <2>3 DEF Told, NoOutcomeYet, BatchIsPolled, ReportIsTrue
    <2>5. TypedOnce' /\ ToldIsTrue' /\ QuietedStays'
      BY <2>1, <2>2 DEF Told, TypedOnce, ToldIsTrue, QuietedStays
    <2> QED BY <1>1, <2>2, <2>4, <2>5
  <1>8. CASE SentDrop
    <2>1. courier.pc = "sent" /\ courier'.pc = "recv"
      BY <1>2, <1>8 DEF SentDrop, TypeOK
    <2> QED BY <1>1, <1>8, <2>1, SendingMoves, CourierPasses
  <1>9. CASE Panic
    <2>1. PICK gone \in SUBSET UnderWay : Closed(gone) /\ courier.prompt \in gone
      BY <1>9, PanicMoves
    <2>2. /\ courier'.pc = "dead" /\ OnePlace'
          /\ UNCHANGED <<worker, batch, withdrawn, quieted, submitted>>
      BY <1>1, <1>2, <1>9 DEF Panic, CourierMove, TypeOK, queues, history
    <2>3. UnderWay \subseteq Prompts /\ (worker.pc = "unqueue" => worker.prompt \in Prompts)
      BY <1>2, UnderWayType DEF TypeOK, PlacesOK
    <2>4. NoOutcomeYet' /\ BatchIsPolled' /\ ReportIsTrue'
      BY <2>1, <2>2, <2>3 DEF Closed, Close, NoOutcomeYet, BatchIsPolled, ReportIsTrue, Idle
    <2>5. TypedOnce' /\ ToldIsTrue' /\ QuietedStays'
      BY <1>9, <2>1, <2>2 DEF Panic, Closed, Close, TypedOnce, ToldIsTrue, QuietedStays, Idle
    <2> QED BY <1>1, <2>2, <2>4, <2>5
  <1> QED
    BY <1>3, <1>4, <1>5, <1>6, <1>7, <1>8, <1>9 DEF CourierThread

-----------------------------------------------------------------------------
(* The holders' steps, and the theorems. *)

HolderMove ==
    /\ UNCHANGED <<inbox, waiting, batch, parcels, worker, withdrawn, quieted, receipt, submitted>>
    /\ UNCHANGED courier

LEMMA HolderMoves == ASSUME Holder PROVE HolderMove
  BY DEF Holder, NewHold, DrainedWait, DropHold, HolderMove, queues, owners, history, gate

LEMMA HolderPasses == ASSUME LifeInv, HolderMove PROVE OnePlace' /\ Passed
  <1>1. WorkerHas' = WorkerHas /\ CourierHas' = CourierHas
    BY DEF HolderMove, WorkerHas, CourierHas
  <1> QED BY <1>1, SameQueues DEF HolderMove, Passed

LEMMA HolderKeepsLife == ASSUME LifeInv, GateInv', HolderMove PROVE LifeInv'
  <1>1. OnePlace' /\ UnderWay' = UnderWay
    BY HolderPasses DEF Passed
  <1>2. NoOutcomeYet' /\ BatchIsPolled' /\ TypedOnce'
    BY <1>1 DEF LifeInv, HolderMove, NoOutcomeYet, BatchIsPolled, TypedOnce
  <1>3. ReportIsTrue' /\ ToldIsTrue' /\ QuietedStays'
    BY <1>1 DEF LifeInv, HolderMove, ReportIsTrue, ToldIsTrue, QuietedStays
  <1> QED BY <1>1, <1>2, <1>3 DEF LifeInv

\* Every step keeps each prompt without an outcome in one place, and types it
\* only there.
THEOREM LifeIsInvariant == Spec => []LifeInv
  <1>1. Init => LifeInv
    BY LifeInit
  <1>2. LifeInv /\ [Next]_vars => LifeInv'
    <2> SUFFICES ASSUME LifeInv, [Next]_vars PROVE LifeInv'
      OBVIOUS
    <2>1. CASE Holder
      BY <2>1, HolderMoves, HolderKeepsGate, HolderKeepsLife DEF LifeInv
    <2>2. CASE UNCHANGED vars
      <3>1. HolderMove /\ GateInv'
        BY <2>2 DEF vars, queues, gate, owners, history, HolderMove, LifeInv, GateInv, TypeOK, PlacesOK,
           HoldsCounted, Living, SendingIsInFlight, QuietWhileDrained, Quiet,
           QueuedCountsParcels, InFlight
      <3> QED BY <3>1, HolderKeepsLife
    <2> QED
      BY <2>1, <2>2, OwnerKeepsLife, WorkerKeepsLife, CourierKeepsLife DEF Next
  <1> QED BY <1>1, <1>2, PTL DEF Spec

\* An owner that reads Cancelled may count on the agent not having the text.
THEOREM CancelledIsUntyped == Spec => []CancelledNeverReached
  <1>1. LifeInv => CancelledNeverReached
    BY DEF LifeInv, ToldIsTrue, CancelledNeverReached
  <1> QED BY <1>1, LifeIsInvariant, PTL

\* What is withdrawn unsubmitted under a drained hold never reaches the agent.
THEOREM WithdrawnStaysUnsent == Spec => []WithdrawnUnderHoldNeverSent
  <1>1. LifeInv => WithdrawnUnderHoldNeverSent
    BY DEF LifeInv, QuietedStays, WithdrawnUnderHoldNeverSent
  <1> QED BY <1>1, LifeIsInvariant, PTL

-----------------------------------------------------------------------------
(* The marker of the attempt. *)

\* Past the attempt the prompts of the observed requests are marked.
UnmarkedIsBehind ==
    \A p \in Observed \ marked :
        /\ submitted[p] = 0 /\ p \notin Handed
        /\ ~(worker.pc \in {"queue", "hand"} /\ worker.prompt = p)

\* What the steps of the others leave alone.
LEMMA SameMarks ==
    ASSUME UnmarkedIsBehind, UNCHANGED <<marked, submitted>>, Handed' \subseteq Handed,
           \/ worker'.pc \notin {"queue", "hand"}
           \/ worker.pc \in {"queue", "hand"} /\ worker'.prompt = worker.prompt
    PROVE  UnmarkedIsBehind'
  BY DEF UnmarkedIsBehind

LEMMA WorkerMarks == ASSUME GateInv, UnmarkedIsBehind, Worker PROVE UnmarkedIsBehind'
  <1> USE DEF GateInv
  <1>1. courier' = courier /\ CourierHas' = CourierHas /\ submitted' = submitted
    BY DEF Worker, Receive, Recheck, Stop, Begin, Attempt, EndPoll, Queue, Hand, Unqueue, history,
       CourierHas
  <1>2. CASE Receive \/ Recheck \/ Stop \/ Begin \/ Unqueue
    <2>1. UNCHANGED <<marked, parcels>> /\ worker'.pc \notin {"queue", "hand"}
      BY <1>2 DEF Receive, Recheck, Stop, Begin, Unqueue, TypeOK, owners
    <2> QED BY <1>1, <2>1, SameMarks DEF Handed
  <1>3. CASE Attempt
    <2>1. parcels' = parcels
      BY <1>3 DEF Attempt
    <2>2. \/ /\ marked' = marked \cup ({worker.prompt} \cap Observed)
             /\ worker'.pc = "queue" /\ worker'.prompt = worker.prompt
          \/ marked \subseteq marked' /\ worker'.pc = "poll"
      BY <1>3 DEF Attempt, TypeOK
    <2> QED BY <1>1, <2>1, <2>2 DEF UnmarkedIsBehind, Handed
  <1>4. CASE EndPoll
    <2>1. UNCHANGED <<marked, parcels>>
      BY <1>4 DEF EndPoll, queues, owners
    <2>2. worker'.pc = "recv" \/ worker'.prompt \in Wakeups
      BY <1>4 DEF EndPoll, TypeOK
    <2> QED BY <1>1, <2>1, <2>2, DeliveryAssumption DEF UnmarkedIsBehind, Handed
  <1>5. CASE Queue
    <2>1. /\ UNCHANGED <<marked, parcels>> /\ worker.pc = "queue"
          /\ worker'.prompt = worker.prompt
      BY <1>5 DEF Queue, owners, TypeOK
    <2> QED BY <1>1, <2>1, SameMarks DEF Handed
  <1>6. CASE Hand
    <2>1. /\ worker.pc = "hand" /\ marked' = marked /\ worker'.pc \in {"poll", "unqueue"}
          /\ parcels \in Seq(Prompts) /\ worker.prompt \in Prompts
          /\ parcels' = parcels \/ parcels' = Append(parcels, worker.prompt)
      BY <1>6 DEF Hand, TypeOK, PlacesOK
    <2>2. InSeq(parcels') \subseteq InSeq(parcels) \cup {worker.prompt}
      <3>1. InSeq(Append(parcels, worker.prompt)) = InSeq(parcels) \cup {worker.prompt}
        BY <2>1, Appended
      <3> QED BY <2>1, <3>1
    <2> QED BY <1>1, <2>1, <2>2 DEF UnmarkedIsBehind, Handed
  <1> QED BY <1>2, <1>3, <1>4, <1>5, <1>6 DEF Worker

LEMMA CourierMarks == ASSUME GateInv, UnmarkedIsBehind, CourierThread PROVE UnmarkedIsBehind'
  <1> USE DEF GateInv
  <1>1. UNCHANGED <<marked, worker>>
    BY DEF CourierThread, Take, CourierEnds, PassGate, CheckWithdrawn, Submit, Await, Report,
       SentDrop, Panic, owners
  <1>2. CASE Take
    <2>1. /\ parcels \in Seq(Prompts) /\ parcels # <<>> /\ parcels' = Tail(parcels)
          /\ submitted' = submitted /\ CourierHas' = {Head(parcels)}
      BY <1>2 DEF Take, TypeOK, history, CourierHas
    <2>2. InSeq(parcels) = {Head(parcels)} \cup InSeq(parcels')
      BY <2>1, Taken
    <2>3. Handed' \subseteq Handed
      BY <2>1, <2>2 DEF Handed
    <2> QED BY <1>1, <2>1, <2>3 DEF UnmarkedIsBehind
  <1>3. CASE CourierEnds \/ PassGate \/ CheckWithdrawn \/ Await \/ Report \/ SentDrop
    <2>1. /\ UNCHANGED <<submitted, parcels>> /\ CourierHas' \subseteq CourierHas
      BY <1>3 DEF CourierEnds, PassGate, CheckWithdrawn, Await, Report, SentDrop, queues, history,
         CourierHas, TypeOK
    <2> QED BY <1>1, <2>1 DEF UnmarkedIsBehind, Handed
  <1>4. CASE Submit
    <2>1. /\ parcels' = parcels /\ CourierHas' \subseteq CourierHas /\ courier.prompt \in CourierHas
          /\ courier.prompt \in Prompts
      BY <1>4 DEF Submit, CourierHas, TypeOK, PlacesOK, InFlight
    <2>2. \A q \in Observed \ {courier.prompt} : submitted'[q] = submitted[q]
      BY <1>4, <2>1, DeliveryAssumption DEF Submit, TypeOK, Submissions, Prompts
    <2>3. courier.prompt \in Observed => courier.prompt \in marked
      BY <2>1 DEF UnmarkedIsBehind, Handed
    <2> QED BY <1>1, <2>1, <2>2, <2>3 DEF UnmarkedIsBehind, Handed
  <1>5. CASE Panic
    <2>1. submitted' = submitted /\ InSeq(parcels') = {} /\ CourierHas' = {}
      BY <1>5, EmptyQueue DEF Panic, history, CourierHas, TypeOK
    <2> QED BY <1>1, <2>1 DEF UnmarkedIsBehind, Handed
  <1> QED BY <1>2, <1>3, <1>4, <1>5 DEF CourierThread

\* The durable attempt marker is committed before the text can reach the pane.
THEOREM MarkedFirst == Spec => []MarkedBeforeSubmitted
  <1>1. Init => UnmarkedIsBehind
    BY EmptyQueue, DeliveryAssumption
    DEF Init, UnmarkedIsBehind, Handed, CourierHas, Prompts
  <1>2. GateInv /\ UnmarkedIsBehind /\ [Next]_vars => UnmarkedIsBehind'
    <2> SUFFICES ASSUME GateInv, UnmarkedIsBehind, [Next]_vars PROVE UnmarkedIsBehind'
      OBVIOUS
    <2>1. CASE Owner \/ Holder \/ UNCHANGED vars
      <3>1. UNCHANGED <<worker, parcels, courier, marked, submitted>>
        BY <2>1 DEF Owner, SendObserved, Withdraw, Holder, NewHold, DrainedWait, DropHold, vars,
           queues, gate, owners, history
      <3> QED BY <3>1 DEF UnmarkedIsBehind, Handed, CourierHas
    <2> QED
      BY <2>1, WorkerMarks, CourierMarks DEF Next
  <1>3. UnmarkedIsBehind => MarkedBeforeSubmitted
    BY DEF UnmarkedIsBehind, MarkedBeforeSubmitted
  <1> QED
    BY <1>1, <1>2, <1>3, GateIsInvariant, PTL DEF Spec

-----------------------------------------------------------------------------
(* The refinement. *)

\* What is sent after a step, by what is under way.
LEMMA SentAfter ==
    ASSUME LifeInv, LifeInv', NEW p \in Prompts
    PROVE  /\ Sent(p) <=> receipt[p] # Idle \/ p \in UnderWay
           /\ Sent(p)' <=> receipt'[p] # Idle \/ p \in UnderWay'
  <1>1. LifeInv => (Sent(p) <=> receipt[p] # Idle \/ p \in UnderWay)
    BY SentMeans
  <1>2. (LifeInv => (Sent(p) <=> receipt[p] # Idle \/ p \in UnderWay))'
    <2>1. p # NoPrompt
      BY DeliveryAssumption DEF Prompts
    <2> QED
      BY <2>1 DEF LifeInv, GateInv, PlacesOK, InFlight, NoOutcomeYet, TypeOK, Sent, UnderWay,
         Batched, Handed, WorkerHas, CourierHas
  <1> QED BY <1>1, <1>2

SentSet == {p \in Prompts : Sent(p)}

\* The prompts sent after each kind of step.
LEMMA SentSets ==
    ASSUME LifeInv, LifeInv'
    PROVE  /\ Passed => SentSet' = SentSet
           /\ \A p \in Prompts : Told(p) => SentSet' = SentSet /\ p \in SentSet
           /\ \A p \in Prompts : Entered(p) => SentSet' = SentSet \cup {p} /\ p \notin SentSet
           /\ \A gone \in SUBSET UnderWay : Closed(gone) => SentSet' = SentSet /\ gone \subseteq SentSet
  <1>1. UnderWay \subseteq Prompts
    BY UnderWayType DEF LifeInv, GateInv
  <1>2. \A p \in Prompts : /\ p \in SentSet <=> receipt[p] # Idle \/ p \in UnderWay
                           /\ p \in SentSet' <=> receipt'[p] # Idle \/ p \in UnderWay'
    BY SentAfter DEF SentSet
  <1>3. SentSet \subseteq Prompts /\ SentSet' \subseteq Prompts
    BY DEF SentSet
  <1>4. ASSUME Passed PROVE SentSet' = SentSet
    BY <1>2, <1>3, <1>4 DEF Passed
  <1>5. ASSUME NEW p \in Prompts, Told(p) PROVE SentSet' = SentSet /\ p \in SentSet
    BY <1>2, <1>3, <1>5 DEF Told
  <1>6. ASSUME NEW p \in Prompts, Entered(p) PROVE SentSet' = SentSet \cup {p} /\ p \notin SentSet
    BY <1>2, <1>3, <1>6 DEF Entered, SentSet
  <1>7. ASSUME NEW gone \in SUBSET UnderWay, Closed(gone)
        PROVE  SentSet' = SentSet /\ gone \subseteq SentSet
    BY <1>1, <1>2, <1>3, <1>7 DEF Closed, Close, Idle
  <1> QED BY <1>4, <1>5, <1>6, <1>7

\* The owners' state that PromptLife has besides.
Others == <<submitted, withdrawn, quieted, hold>>

LEMMA ToldSettles ==
    ASSUME LifeInv, LifeInv', NEW p \in Prompts, Told(p), UNCHANGED Others
    PROVE  Life!Settle(p)
  <1> DEFINE r == receipt'[p]
  <1>1. receipt[p] = Idle /\ r \in Results \ {Idle}
    BY DEF LifeInv, GateInv, TypeOK, NoOutcomeYet, Told
  <1>2. receipt' = [receipt EXCEPT ![p] = r]
    BY DEF LifeInv, GateInv, TypeOK, Told
  <1>3. r \in Life!MayBeTold(p)
    BY <1>1 DEF Told, Life!MayBeTold
  <1>4. SentSet' = SentSet /\ p \in SentSet
    BY SentSets
  <1> QED
    BY <1>1, <1>2, <1>3, <1>4 DEF Life!Settle, SentSet, Others, Quiet

LEMMA ClosedLoses ==
    ASSUME LifeInv, LifeInv', NEW gone \in SUBSET UnderWay, Closed(gone), UNCHANGED Others
    PROVE  gone \in SUBSET Prompts /\ Life!Lose(gone)
  <1>1. \A p \in gone : receipt[p] = Idle /\ p \in Prompts
    BY UnderWayType DEF LifeInv, GateInv, NoOutcomeYet
  <1>2. SentSet' = SentSet /\ gone \subseteq SentSet
    BY SentSets
  <1> QED
    BY <1>1, <1>2 DEF Life!Lose, SentSet, Others, Quiet, Closed, Close

LEMMA EnteredSends ==
    ASSUME LifeInv, LifeInv', NEW p \in Prompts, Entered(p), UNCHANGED Others
    PROVE  Life!Send(p)
  BY SentSets DEF Life!Send, SentSet, Entered, Others, Quiet

LEMMA PassedStutters ==
    ASSUME LifeInv, LifeInv', Passed, UNCHANGED Others
    PROVE  UNCHANGED Life!vars
  BY SentSets DEF Life!vars, SentSet, Passed, Others, Quiet

LEMMA OwnerRefines ==
    ASSUME LifeInv, LifeInv', Owner
    PROVE  Life!Next
  <1> PICK p \in Requests : SendObserved(p) \/ Withdraw(p)
    BY DEF Owner
  <1>1. p \in Prompts
    BY DEF Prompts
  <1>2. CASE SendObserved(p) /\ worker.pc # "stopped"
    <2>1. UnderWay' = UnderWay \cup {p} /\ UNCHANGED receipt
      <3>1. InSeq(inbox') = InSeq(inbox) \cup {p}
        <4>1. inbox \in Seq(Requests) /\ inbox' = Append(inbox, p)
          BY <1>2 DEF SendObserved, LifeInv, GateInv, TypeOK
        <4>2. InSeq(Append(inbox, p)) = InSeq(inbox) \cup {p}
          BY <4>1, Appended
        <4> QED BY <4>1, <4>2
      <3>2. /\ UNCHANGED <<waiting, batch, parcels, receipt>>
            /\ WorkerHas' = WorkerHas /\ CourierHas' = CourierHas
        BY <1>2 DEF SendObserved, WorkerHas, CourierHas
      <3> QED BY <3>1, <3>2 DEF UnderWay, Batched, Handed
    <2>2. Entered(p) /\ UNCHANGED Others
      BY <1>2, <2>1 DEF SendObserved, Entered, Others, history
    <2> QED
      BY <1>1, <2>2, EnteredSends DEF Life!Next
  <1>3. CASE SendObserved(p) /\ worker.pc = "stopped"
    <2>1. /\ UNCHANGED <<inbox, waiting, batch, parcels>> /\ UNCHANGED Others
          /\ WorkerHas' = WorkerHas /\ CourierHas' = CourierHas
          /\ Finish(p, "Delivery") /\ ~Sent(p)
      BY <1>3 DEF SendObserved, Others, history, WorkerHas, CourierHas
    <2>2. UnderWay' = UnderWay
      BY <2>1, SameQueues
    <2>3. /\ receipt'[p] \in Results \ {"Ok", "Cancelled", Idle}
          /\ \A q \in Prompts \ {p} : receipt'[q] = receipt[q]
      BY <1>1, <2>1, Finished DEF LifeInv, GateInv, Results, Answers, Idle
    <2>4. receipt' = [receipt EXCEPT ![p] = receipt'[p]]
      BY <1>1, <2>3 DEF LifeInv, GateInv, TypeOK
    <2>5. SentSet' = SentSet \cup {p} /\ p \notin SentSet
      BY <1>1, <2>1, <2>2, <2>3, SentAfter DEF SentSet
    <2> HIDE DEF Others
    <2>6. Life!Refuse(p)
      BY <2>1, <2>3, <2>4, <2>5 DEF Life!Refuse, SentSet, Others, Quiet
    <2> QED BY <1>1, <2>6 DEF Life!Next
  <1>4. CASE Withdraw(p)
    <2>1. /\ UNCHANGED <<inbox, waiting, batch, parcels>>
          /\ WorkerHas' = WorkerHas /\ CourierHas' = CourierHas
      BY <1>4 DEF Withdraw, queues, WorkerHas, CourierHas
    <2>2. Passed
      BY <1>4, <2>1, SameQueues DEF Withdraw, Passed
    <2>3. SentSet' = SentSet /\ p \in SentSet
      BY <1>1, <1>4, <2>2, SentSets DEF SentSet, Withdraw
    <2>4. Life!Withdraw(p)
      BY <1>4, <2>3 DEF Withdraw, Life!Withdraw, SentSet, Quiet
    <2> QED BY <1>1, <2>4 DEF Life!Next
  <1> QED BY <1>2, <1>3, <1>4

LEMMA WorkerRefines ==
    ASSUME LifeInv, LifeInv', Worker
    PROVE  [Life!Next]_Life!vars
  <1>1. WorkerMove
    BY WorkerMoves
  <1>2. UNCHANGED Others /\ UnderWay \subseteq Prompts
    BY <1>1, UnderWayType DEF WorkerMove, Others, LifeInv, GateInv
  <1>3. CASE Passed
    BY <1>2, <1>3, PassedStutters
  <1>4. ASSUME NEW p \in UnderWay \ CourierHas, Told(p) PROVE Life!Next
    BY <1>2, <1>4, ToldSettles DEF Life!Next
  <1>5. ASSUME NEW w \in Wakeups, Entered(w) PROVE Life!Next
    BY <1>2, <1>5, EnteredSends DEF Life!Next, Prompts
  <1>6. ASSUME NEW gone \in SUBSET (UnderWay \ CourierHas), Closed(gone) PROVE Life!Next
    BY <1>2, <1>6, ClosedLoses DEF Life!Next
  <1> QED
    BY <1>1, <1>3, <1>4, <1>5, <1>6 DEF WorkerMove

LEMMA CourierRefines ==
    ASSUME LifeInv, LifeInv', CourierThread
    PROVE  [Life!Next]_Life!vars
  <1>1. CourierMove
    BY CourierMoves
  <1>2. UNCHANGED <<withdrawn, quieted, hold>> /\ UnderWay \subseteq Prompts
    BY <1>1, UnderWayType DEF CourierMove, LifeInv, GateInv
  <1>3. ASSUME Passed, UNCHANGED submitted PROVE UNCHANGED Life!vars
    BY <1>2, <1>3, PassedStutters DEF Others
  <1>4. ASSUME NEW p \in Prompts, Typed(p) PROVE Life!Next
    <2>1. ~Quiet /\ p \notin quieted /\ receipt[p] = Idle
      BY <1>4 DEF Typed, LifeInv, GateInv, QuietWhileDrained, InFlight, QuietedStays, NoOutcomeYet
    <2>2. SentSet' = SentSet /\ p \in SentSet
      BY <1>4, <2>1, SentSets, SentAfter DEF Typed, SentSet
    <2>3. Life!Deliver(p)
      BY <1>2, <1>4, <2>1, <2>2 DEF Life!Deliver, Typed, Passed, SentSet, Quiet
    <2> QED BY <2>3 DEF Life!Next
  <1>5. ASSUME Told(courier.prompt), UNCHANGED submitted PROVE Life!Next
    <2>1. courier.prompt \in Prompts
      BY <1>2, <1>5 DEF Told
    <2> QED BY <1>2, <1>5, <2>1, ToldSettles DEF Life!Next, Others
  <1>6. ASSUME NEW gone \in SUBSET UnderWay, Closed(gone), UNCHANGED submitted PROVE Life!Next
    BY <1>2, <1>6, ClosedLoses DEF Life!Next, Others
  <1> QED
    BY <1>1, <1>3, <1>4, <1>5, <1>6 DEF CourierMove

LEMMA HolderRefines ==
    ASSUME LifeInv, LifeInv', HolderMove
    PROVE  [Life!Next]_Life!vars
  <1>1. Passed /\ UNCHANGED <<submitted, withdrawn, quieted, receipt>>
    BY HolderPasses DEF HolderMove
  <1>2. SentSet' = SentSet
    BY <1>1, SentSets
  <1>3. Quiet' \in BOOLEAN
    BY DEF Quiet
  <1>4. Life!HoldBack
    BY <1>1, <1>2, <1>3 DEF Life!HoldBack, SentSet
  <1> QED BY <1>4 DEF Life!Next

\* PromptDelivery implements PromptLife: a prompt is typed at most once and
\* never after its outcome, which it has once; and what the owners are told is
\* true.
THEOREM DeliveryImplementsLife == Spec => ImplementsLife
  <1>1. Init => Life!Init
    <2> SUFFICES ASSUME Init PROVE Life!Init
      OBVIOUS
    <2>1. LifeInv
      BY LifeInit
    <2>2. UnderWay = {}
      BY EmptyQueue DEF Init, UnderWay, Batched, Handed, WorkerHas, CourierHas
    <2>3. SentSet = {}
      BY <2>1, <2>2, SentMeans DEF SentSet, Init
    <2> QED
      BY <2>3 DEF Init, Life!Init, SentSet, Quiet
  <1>2. LifeInv /\ LifeInv' /\ [Next]_vars => [Life!Next]_Life!vars
    <2> SUFFICES ASSUME LifeInv, LifeInv', [Next]_vars PROVE [Life!Next]_Life!vars
      OBVIOUS
    <2>1. CASE UNCHANGED vars
      <3>1. HolderMove
        BY <2>1 DEF vars, queues, gate, owners, history, HolderMove
      <3> QED BY <3>1, HolderRefines
    <2> QED
      BY <2>1, OwnerRefines, WorkerRefines, CourierRefines, HolderMoves, HolderRefines DEF Next
  <1> QED
    BY <1>1, <1>2, LifeIsInvariant, PTL DEF Spec, ImplementsLife, Life!Spec

\* A request completes once: no outcome replaces one its owner may have read.
THEOREM OutcomeIsFinal == Spec => CompletesOnce
  <1> DEFINE Final == \A p \in Prompts : receipt[p] # Idle => receipt'[p] = receipt[p]
  <1>1. LifeInv /\ [Life!Next]_Life!vars => [Final]_vars
    <2> SUFFICES ASSUME LifeInv, [Life!Next]_Life!vars, NEW p \in Prompts, receipt[p] # Idle
                 PROVE  receipt'[p] = receipt[p]
      OBVIOUS
    <2>1. receipt \in [Prompts -> Results \cup {Idle}]
      BY DEF LifeInv, GateInv, TypeOK
    <2>2. CASE UNCHANGED receipt
      BY <2>2
    <2>3. ASSUME NEW q \in Prompts, Life!Refuse(q) PROVE receipt'[p] = receipt[p]
      <3>1. p # q
        BY <2>3 DEF Life!Refuse, Sent
      <3> QED BY <2>1, <2>3, <3>1 DEF Life!Refuse
    <2>4. ASSUME NEW q \in Prompts, Life!Settle(q) PROVE receipt'[p] = receipt[p]
      BY <2>1, <2>4 DEF Life!Settle
    <2>5. ASSUME NEW gone \in SUBSET Prompts, Life!Lose(gone) PROVE receipt'[p] = receipt[p]
      BY <2>5 DEF Life!Lose
    <2> QED
      BY <2>2, <2>3, <2>4, <2>5
      DEF Life!Next, Life!vars, Life!Send, Life!Deliver, Life!Withdraw, Life!HoldBack
  <1> QED
    BY <1>1, LifeIsInvariant, DeliveryImplementsLife, PTL
    DEF ImplementsLife, Life!Spec, CompletesOnce
=============================================================================
