------------------------- MODULE ExploreRoundProofs -------------------------
(***************************************************************************)
(* What the operations on the saved round of Explore do to it, for any     *)
(* round: what a record must satisfy to be read again is kept by every     *)
(* one of them (WellFormed).  The proofs about the processes that share    *)
(* the round and about its review marks rest on these lemmas.              *)
(***************************************************************************)
EXTENDS ExploreRound, FiniteSetTheorems, SequenceTheorems, TLAPS

-----------------------------------------------------------------------------
(* What every saved round satisfies. *)

\* Answers are numbered in the order they were given, and so is all else that the
\* round has made.
Numbered(r, n) ==
    /\ \A i, j \in DOMAIN r.answers : i < j => r.answers[i].id < r.answers[j].id
    /\ \A i \in DOMAIN r.answers : r.answers[i].id <= n
    /\ \A q \in Turns(r) : q <= n
    /\ \A i \in DOMAIN r.conversation : r.conversation[i].request <= n

\* The turns of the conversation, each of a request of its own, in the order of the
\* answers they follow; a conclusion follows the answer of its own request.
Conversed(r) ==
    /\ \A i, j \in DOMAIN r.conversation :
         /\ r.conversation[i].request = r.conversation[j].request => i = j
         /\ i < j => r.conversation[i].answer <= r.conversation[j].answer
    /\ \A i \in DOMAIN r.conversation :
         /\ r.conversation[i].answer \in {0} \cup AnswerIds(r)
         /\ ~r.conversation[i].next =>
              r.conversation[i].answer \in {0, r.conversation[i].request}

\* An answer is to a turn that followed none but earlier answers, which stay with it.
Replied(r) ==
    \A i \in DOMAIN r.answers : \E j \in DOMAIN r.conversation :
        /\ r.conversation[j].request = r.answers[i].in_reply_to
        /\ r.conversation[j].answer < r.answers[i].id

\* The request is one that asks the agent to conclude.
Concludes(r, q) == \E i \in DOMAIN r.conversation :
    r.conversation[i].request = q /\ ~r.conversation[i].next

\* A record that can be read again, of a round that has made n requests.  The one that
\* waits for a turn of the agent is the last, and only the kickoff carries no answer.
WellFormed(r, n) ==
    /\ r \in Round /\ Numbered(r, n) /\ Conversed(r) /\ Replied(r)
    /\ \A q \in Ids : r.turns[q].answer => q \in AnswerIds(r)
    /\ r.outstanding \in {0, r.retry}
    /\ r.retry \in {0, n}
    /\ r.retry # 0 => r.retry \in Turns(r)
    /\ r.retry # 0 /\ ~r.turns[r.retry].answer => r.answers = <<>>
    /\ r.completion # 0 => Concludes(r, r.completion)
    /\ \A d \in Implementations(r) : Concludes(r, r.implementations[d].conclusion)

-----------------------------------------------------------------------------
(* The operations on a round keep it well formed. *)

\* What the record keeps of a request, and of a delivery.
TurnRecord == [attempt : Nat, state : DispatchState, answer : BOOLEAN, cancelled : SUBSET Ids]
DeliveryRecord == [attempt : Nat, state : DispatchState, conclusion : {0} \cup Ids]

\* The fields of what a record says of its requests and its deliveries.
LEMMA RecordTypes ==
    ASSUME NEW r \in Round
    PROVE  /\ \A q \in Ids :
                /\ q \in Nat \ {0} /\ r.turns[q].attempt \in Nat
                /\ r.turns[q].state \in DispatchState /\ r.turns[q].cancelled \subseteq Ids
           /\ \A d \in Deliveries :
                /\ d \in Nat \ {0} /\ r.implementations[d].attempt \in Nat
                /\ r.implementations[d].state \in DispatchState
<1>1. /\ r.turns \in [Ids -> TurnRecord]
      /\ r.implementations \in [Deliveries -> DeliveryRecord]
  BY DEF Round, TurnRecord, DeliveryRecord
<1>2. Ids \subseteq Nat \ {0} /\ Deliveries \subseteq Nat \ {0}
  BY DEF Ids, Deliveries
<1> QED
  BY <1>1, <1>2 DEF TurnRecord, DeliveryRecord

\* The fields of the turns in a conversation.
LEMMA ConversationTypes ==
    ASSUME NEW r \in Round
    PROVE  /\ r.conversation \in Seq(ConversationTurn)
           /\ Len(r.conversation) \in Nat /\ DOMAIN r.conversation = 1 .. Len(r.conversation)
           /\ \A i \in DOMAIN r.conversation :
                /\ r.conversation[i].request \in Ids /\ r.conversation[i].request \in Nat
                /\ r.conversation[i].answer \in {0} \cup Ids /\ r.conversation[i].answer \in Nat
                /\ r.conversation[i].next \in BOOLEAN
<1>1. r.conversation \in Seq(ConversationTurn)
  BY DEF Round
<1>2. Ids \subseteq Nat /\ {0} \cup Ids \subseteq Nat
  BY DEF Ids
<1>3. \A i \in DOMAIN r.conversation : r.conversation[i] \in ConversationTurn
  BY <1>1
<1>4. ASSUME NEW t \in ConversationTurn
      PROVE  /\ t.request \in Ids /\ t.request \in Nat
             /\ t.answer \in {0} \cup Ids /\ t.answer \in Nat /\ t.next \in BOOLEAN
  <2>1. t.request \in Ids /\ t.answer \in {0} \cup Ids
    BY DEF ConversationTurn
  <2>2. t.request \in Nat
    BY <1>2, <2>1
  <2>3. t.answer \in Nat
    BY <1>2, <2>1, Zenon
  <2>4. t.next \in BOOLEAN
    BY DEF ConversationTurn
  <2> QED
    BY <2>1, <2>2, <2>3, <2>4
<1> QED
  BY <1>1, <1>3, <1>4

\* The fields of the answers of a round.
LEMMA AnswerTypes ==
    ASSUME NEW r \in Round
    PROVE  /\ r.answers \in Seq([id : Ids, in_reply_to : Ids])
           /\ Len(r.answers) \in Nat /\ DOMAIN r.answers = 1 .. Len(r.answers)
           /\ \A i \in DOMAIN r.answers :
                /\ r.answers[i].id \in Ids /\ r.answers[i].id \in Nat
                /\ r.answers[i].in_reply_to \in Ids
           /\ AnswerIds(r) \subseteq Ids /\ AnswerIds(r) \subseteq Nat
<1> DEFINE A == [id : Ids, in_reply_to : Ids]
<1>1. r.answers \in Seq(A)
  BY DEF Round
<1>2. Ids \subseteq Nat
  BY DEF Ids
<1>3. \A a \in A : a.id \in Ids /\ a.id \in Nat /\ a.in_reply_to \in Ids
  BY <1>2
<1> HIDE DEF A
<1>4. \A i \in DOMAIN r.answers : r.answers[i] \in A
  BY <1>1
<1>5. Len(r.answers) \in Nat /\ DOMAIN r.answers = 1 .. Len(r.answers)
  BY <1>1
<1>6. AnswerIds(r) \subseteq Ids
  BY <1>3, <1>4 DEF AnswerIds
<1> QED
  BY <1>1, <1>2, <1>3, <1>4, <1>5, <1>6 DEF A

\* The round there is before the first request.
LEMMA EmptyIsWellFormed == WellFormed(EmptyRound, 0)
<1> DEFINE r == EmptyRound
<1>1. /\ r.conversation = <<>> /\ r.answers = <<>> /\ r.outstanding = 0 /\ r.retry = 0
      /\ r.cancelled = {} /\ r.completion = 0
      /\ r.turns = [q \in Ids |-> NoTurn]
      /\ r.implementations = [d \in Deliveries |-> NoDelivery]
  BY DEF EmptyRound
<1>2. NoTurn \in TurnRecord /\ NoDelivery \in DeliveryRecord
      /\ NoTurn.attempt = 0 /\ NoDelivery.attempt = 0 /\ NoTurn.answer = FALSE
  BY DEF NoTurn, NoDelivery, TurnRecord, DeliveryRecord, DispatchState
<1>3. r \in Round
  BY <1>2 DEF EmptyRound, Round, TurnRecord, DeliveryRecord
<1>4. Turns(r) = {} /\ Implementations(r) = {}
  BY <1>1, <1>2 DEF Turns, Implementations
<1> QED
  BY <1>1, <1>2, <1>3, <1>4 DEF WellFormed, Numbered, Conversed, Replied

\* A round that waits for nobody.
LEMMA StoppedIsWellFormed ==
    ASSUME NEW r, NEW n, WellFormed(r, n)
    PROVE  /\ WellFormed(StopTurn(r), n)
           /\ StopTurn(r) = [r EXCEPT !.outstanding = 0]
           /\ StopTurn(r).turns = r.turns /\ StopTurn(r).implementations = r.implementations
           /\ StopTurn(r).cancelled = r.cancelled /\ StopTurn(r).retry = r.retry
           /\ StopTurn(r).conversation = r.conversation /\ StopTurn(r).answers = r.answers
           /\ StopTurn(r).outstanding = 0
<1> DEFINE s == StopTurn(r)
<1>1. r \in Round
  BY DEF WellFormed
<1>2. /\ s.turns = r.turns /\ s.implementations = r.implementations
      /\ s.cancelled = r.cancelled /\ s.retry = r.retry /\ s.completion = r.completion
      /\ s.conversation = r.conversation /\ s.answers = r.answers /\ s.outstanding = 0
      /\ s \in Round
  BY <1>1 DEF StopTurn, Round
<1>3. s = [r EXCEPT !.outstanding = 0]
  BY DEF StopTurn
<1> HIDE DEF s
<1>4. /\ Turns(s) = Turns(r) /\ Implementations(s) = Implementations(r)
      /\ AnswerIds(s) = AnswerIds(r) /\ \A q : Concludes(s, q) <=> Concludes(r, q)
  BY <1>2 DEF Turns, Implementations, AnswerIds, Concludes
<1>5. WellFormed(s, n)
  BY <1>2, <1>4 DEF WellFormed, Numbered, Conversed, Replied
<1> QED
  BY <1>2, <1>3, <1>5 DEF s

\* What a round s is that follows r by a new request q, and what the agent is told with it.
ToTell(r) == r.cancelled \cup (IF r.retry = 0 THEN {} ELSE r.turns[r.retry].cancelled)

\* The record s is r with the turn of q going out.
Pended(r, s, q) ==
    /\ s \in Round /\ s.conversation = r.conversation
    /\ s.outstanding = q /\ s.retry = q /\ s.cancelled = {}
    /\ s.implementations = r.implementations /\ s.completion = r.completion
    /\ s.turns[q].attempt = 1 /\ s.turns[q].state = "Queued"
    /\ s.turns[q].cancelled = ToTell(r)
    /\ \A o \in Ids \ {q} : s.turns[o] = r.turns[o]

\* Pend changes what it should of a record and no more.
LEMMA PendFields ==
    ASSUME NEW r \in Round, NEW q \in Ids, NEW answer \in BOOLEAN
    PROVE  /\ Pended(r, Pend(r, q, answer), q)
           /\ Pend(r, q, answer).answers = r.answers
           /\ Pend(r, q, answer).turns[q].answer = answer
<1> DEFINE superseded == IF r.retry = 0 THEN {} ELSE r.turns[r.retry].cancelled
           new == [attempt |-> 1, state |-> "Queued", answer |-> answer,
                   cancelled |-> superseded \cup r.cancelled]
           s == Pend(r, q, answer)
<1>1. /\ r.turns \in [Ids -> TurnRecord] /\ r.retry \in {0} \cup Ids /\ r.cancelled \subseteq Ids
  BY DEF Round, TurnRecord
<1>2. superseded \subseteq Ids
  BY <1>1 DEF TurnRecord
<1>3. new \in TurnRecord
  BY <1>1, <1>2 DEF TurnRecord, DispatchState
<1>4. s = [r EXCEPT !.turns[q] = new, !.cancelled = {}, !.outstanding = q, !.retry = q]
  BY DEF Pend
<1>5. /\ new.attempt = 1 /\ new.state = "Queued" /\ new.answer = answer
      /\ new.cancelled = superseded \cup r.cancelled
  OBVIOUS
<1> HIDE DEF new, superseded, s
<1>6. s.turns = [r.turns EXCEPT ![q] = new]
  BY <1>4 DEF Round
<1>7. /\ s.conversation = r.conversation /\ s.answers = r.answers
      /\ s.outstanding = q /\ s.retry = q /\ s.cancelled = {}
      /\ s.implementations = r.implementations /\ s.completion = r.completion
  BY <1>4 DEF Round
<1>8. s.turns \in [Ids -> TurnRecord] /\ s.turns[q] = new
      /\ \A o \in Ids \ {q} : s.turns[o] = r.turns[o]
  BY <1>1, <1>3, <1>6
<1>9. s \in Round
  BY <1>4, <1>7, <1>8 DEF Round, TurnRecord
<1> QED
  BY <1>5, <1>7, <1>8, <1>9 DEF s, superseded, Pended, ToTell

\* The kickoff of a round, the only request that carries no answer.
LEMMA KickoffIsWellFormed ==
    ASSUME MaxIds > 0
    PROVE  WellFormed(PostKickoff(EmptyRound, 1), 1)
<1> DEFINE r == EmptyRound
           s == PostKickoff(r, 1)
<1>1. WellFormed(r, 0) /\ r \in Round /\ 1 \in Ids
  BY EmptyIsWellFormed, RoundAssumption DEF WellFormed, Ids
<1>2. /\ r.conversation = <<>> /\ r.answers = <<>> /\ r.completion = 0 /\ Turns(r) = {}
      /\ Implementations(r) = {}
      /\ \A q \in Ids : r.turns[q].answer = FALSE /\ r.turns[q].attempt = 0
  BY DEF EmptyRound, NoTurn, NoDelivery, Turns, Implementations
<1> HIDE DEF r
<1>3. /\ s \in Round /\ s.conversation = <<>> /\ s.answers = <<>>
      /\ s.outstanding = 1 /\ s.retry = 1 /\ s.completion = 0
      /\ s.implementations = r.implementations
      /\ s.turns[1].attempt = 1 /\ s.turns[1].answer = FALSE
      /\ \A o \in Ids \ {1} : s.turns[o] = r.turns[o]
  <2>1. FALSE \in BOOLEAN
    OBVIOUS
  <2> QED
    <3>1. Pended(r, s, 1) /\ s.answers = r.answers /\ s.turns[1].answer = FALSE
      BY <1>1, <2>1, PendFields DEF PostKickoff
    <3> HIDE DEF s
    <3> QED
      BY <1>2, <3>1 DEF Pended
<1> HIDE DEF s
<1>4. Turns(s) = {1} /\ Implementations(s) = {}
  BY <1>1, <1>2, <1>3 DEF Turns, Implementations
<1>5. \A q \in Ids : s.turns[q].answer = FALSE
  BY <1>2, <1>3
<1>6. WellFormed(s, 1)
  BY <1>3, <1>4, <1>5 DEF WellFormed, Numbered, Conversed, Replied
<1> QED
  BY <1>6 DEF s, r

\* An answer follows the others.
LEMMA AnswerFields ==
    ASSUME NEW r \in Round, NEW q \in Ids, NEW to \in Ids
    PROVE  LET s == PostAnswer(r, q, to)
           IN  /\ Pended(r, s, q) /\ s.turns[q].answer = TRUE
               /\ s.answers = Append(r.answers, [id |-> q, in_reply_to |-> to])
               /\ AnswerIds(s) = AnswerIds(r) \cup {q}
<1> DEFINE p == Pend(r, q, TRUE)
           new == [id |-> q, in_reply_to |-> to]
           s == PostAnswer(r, q, to)
<1>1. Pended(r, p, q) /\ p.answers = r.answers /\ p.turns[q].answer = TRUE
  <2>1. TRUE \in BOOLEAN
    OBVIOUS
  <2> QED
    BY <2>1, PendFields
<1>2. s = [p EXCEPT !.answers = Append(p.answers, new)]
  BY DEF PostAnswer
<1>3. p.answers \in Seq([id : Ids, in_reply_to : Ids]) /\ new \in [id : Ids, in_reply_to : Ids]
  BY <1>1 DEF Pended, Round
<1>4. Append(p.answers, new) \in Seq([id : Ids, in_reply_to : Ids])
  <2> HIDE DEF p, new
  <2> QED
    BY <1>3
<1>5. new.id = q
  OBVIOUS
<1>6. p \in Round
  BY <1>1 DEF Pended
<1> HIDE DEF p, new, s
<1>7. /\ s.answers = Append(p.answers, new)
      /\ s.conversation = p.conversation /\ s.turns = p.turns
      /\ s.outstanding = p.outstanding /\ s.retry = p.retry /\ s.cancelled = p.cancelled
      /\ s.implementations = p.implementations /\ s.completion = p.completion
  BY <1>2, <1>6 DEF Round
<1>8. s \in Round
  BY <1>2, <1>4, <1>6 DEF Round
<1>9. AnswerIds(s) = AnswerIds(r) \cup {q}
  <2>1. /\ Len(r.answers) \in Nat /\ DOMAIN r.answers = 1 .. Len(r.answers)
        /\ DOMAIN s.answers = 1 .. (Len(r.answers) + 1)
        /\ s.answers[Len(r.answers) + 1] = new
        /\ \A i \in 1 .. Len(r.answers) : s.answers[i] = r.answers[i]
    BY <1>1, <1>3, <1>7
  <2>2. ASSUME NEW b \in AnswerIds(s)
        PROVE  b \in AnswerIds(r) \cup {q}
    <3>1. PICK i \in DOMAIN s.answers : s.answers[i].id = b
      BY DEF AnswerIds
    <3>2. i \in DOMAIN r.answers \/ i = Len(r.answers) + 1
      BY <2>1, <3>1
    <3> QED
      BY <1>5, <2>1, <3>1, <3>2 DEF AnswerIds
  <2>3. ASSUME NEW b \in AnswerIds(r)
        PROVE  b \in AnswerIds(s)
    <3>1. PICK i \in DOMAIN r.answers : r.answers[i].id = b
      BY DEF AnswerIds
    <3>2. i \in DOMAIN s.answers /\ s.answers[i].id = b
      BY <2>1, <3>1
    <3> QED
      BY <3>2 DEF AnswerIds
  <2>4. q \in AnswerIds(s)
    <3>1. Len(r.answers) + 1 \in DOMAIN s.answers /\ s.answers[Len(r.answers) + 1].id = q
      BY <1>5, <2>1
    <3> QED
      BY <3>1 DEF AnswerIds
  <2> QED
    BY <2>2, <2>3, <2>4
<1>10. Pended(r, s, q) /\ s.turns[q].answer = TRUE
  BY <1>1, <1>7, <1>8 DEF Pended
<1> QED
  BY <1>1, <1>7, <1>9, <1>10 DEF s, new

\* An answer to a turn of the conversation, with the next number.
LEMMA AnswerIsWellFormed ==
    ASSUME NEW r, NEW n \in Nat, n < MaxIds, WellFormed(r, n),
           NEW to \in Ids, MayPost(r, to)
    PROVE  WellFormed(PostAnswer(r, n + 1, to), n + 1)
<1> DEFINE q == n + 1
           new == [id |-> q, in_reply_to |-> to]
           s == PostAnswer(r, q, to)
<1>1. r \in Round /\ q \in Ids
  BY RoundAssumption DEF WellFormed, Ids
<1>2. /\ s \in Round
      /\ s.answers = Append(r.answers, new)
      /\ AnswerIds(s) = AnswerIds(r) \cup {q}
      /\ s.conversation = r.conversation
      /\ s.outstanding = q /\ s.retry = q
      /\ s.implementations = r.implementations /\ s.completion = r.completion
      /\ s.turns[q].attempt = 1 /\ s.turns[q].answer = TRUE
      /\ \A o \in Ids \ {q} : s.turns[o] = r.turns[o]
  <2>1. /\ Pended(r, s, q) /\ s.turns[q].answer = TRUE
        /\ s.answers = Append(r.answers, new) /\ AnswerIds(s) = AnswerIds(r) \cup {q}
    BY <1>1, AnswerFields
  <2> HIDE DEF q, s, new
  <2> QED
    BY <2>1 DEF Pended
<1>3. /\ Len(r.answers) \in Nat /\ DOMAIN r.answers = 1 .. Len(r.answers)
      /\ DOMAIN s.answers = 1 .. (Len(r.answers) + 1)
      /\ s.answers[Len(r.answers) + 1] = new
      /\ \A i \in 1 .. Len(r.answers) : s.answers[i] = r.answers[i] /\ r.answers[i].id \in Nat
  <2> HIDE DEF new, s, q
  <2> QED
    BY <1>1, <1>2, AnswerTypes
<1>4. new.id = q /\ new.in_reply_to = to /\ q \in Nat /\ n < q /\ q <= q
  OBVIOUS
<1> HIDE DEF new, s
<1>5. Turns(s) = Turns(r) \cup {q} /\ Implementations(s) = Implementations(r)
      /\ \A o : Concludes(s, o) <=> Concludes(r, o)
  BY <1>1, <1>2 DEF Turns, Implementations, Concludes
<1>6. Numbered(s, q)
  <2> DEFINE l == Len(r.answers)
  <2>a. /\ \A i, j \in 1 .. l : i < j => r.answers[i].id < r.answers[j].id
        /\ \A i \in 1 .. l : r.answers[i].id <= n
    BY <1>3 DEF WellFormed, Numbered
  <2>b. /\ DOMAIN s.answers = 1 .. (l + 1) /\ l \in Nat /\ s.answers[l + 1].id = q
        /\ \A i \in 1 .. l : s.answers[i].id = r.answers[i].id /\ r.answers[i].id \in Nat
    BY <1>3, <1>4
  <2>c. \A i \in 1 .. (l + 1) : i \in 1 .. l \/ i = l + 1
    BY <2>b
  <2> HIDE DEF l
  <2>1. \A i, j \in DOMAIN s.answers : i < j => s.answers[i].id < s.answers[j].id
    <3> SUFFICES ASSUME NEW i \in 1 .. (l + 1), NEW j \in 1 .. (l + 1), i < j
                 PROVE  s.answers[i].id < s.answers[j].id
      BY <2>b
    <3>1. i \in 1 .. l
      BY <2>b
    <3>2. CASE j \in 1 .. l
      BY <2>a, <2>b, <3>1, <3>2
    <3>3. CASE j = l + 1
      BY <1>4, <2>a, <2>b, <3>1, <3>3
    <3> QED
      BY <2>c, <3>2, <3>3
  <2>2. \A i \in DOMAIN s.answers : s.answers[i].id <= q
    BY <1>4, <2>a, <2>b, <2>c
  <2>3. \A o \in Turns(s) : o <= q
    BY <1>4, <1>5 DEF WellFormed, Numbered, Turns, Ids
  <2>4. \A i \in DOMAIN s.conversation : s.conversation[i].request <= q
    <3>1. \A i \in DOMAIN r.conversation : r.conversation[i].request \in Nat
      BY <1>1, ConversationTypes
    <3> QED
      BY <1>2, <1>4, <3>1 DEF WellFormed, Numbered
  <2> HIDE DEF q
  <2> QED
    BY <2>1, <2>2, <2>3, <2>4 DEF Numbered
<1>7. Replied(s)
  <2>1. PICK k \in DOMAIN r.conversation : r.conversation[k].request = to
    BY DEF MayPost, InConversation
  <2>2. r.conversation[k].answer < q
    <3>1. r.conversation[k].answer \in {0} \cup AnswerIds(r)
      BY DEF WellFormed, Conversed
    <3>2. \A a \in AnswerIds(r) : a < q
      BY <1>3, <1>4 DEF AnswerIds, WellFormed, Numbered
    <3> QED
      BY <1>4, <3>1, <3>2
  <2> HIDE DEF q
  <2> QED
    BY <1>2, <1>3, <1>4, <2>1, <2>2 DEF WellFormed, Replied
<1>8. \A o \in Ids : s.turns[o].answer => o \in AnswerIds(s)
  BY <1>2 DEF WellFormed
<1> HIDE DEF q
<1>9. Conversed(s)
  BY <1>2 DEF WellFormed, Conversed
<1>10. WellFormed(s, q)
  BY <1>1, <1>2, <1>5, <1>6, <1>7, <1>8, <1>9 DEF WellFormed
<1> QED
  BY <1>10 DEF s, q

\* The same request again.
LEMMA AgainIsWellFormed ==
    ASSUME NEW r, NEW n, WellFormed(r, n), NEW q \in Ids, MayPostAgain(r, q)
    PROVE  LET s == PostAgain(r, q)
           IN  /\ WellFormed(s, n)
               /\ s.conversation = r.conversation /\ s.answers = r.answers
               /\ s.outstanding = q /\ s.retry = r.retry /\ s.cancelled = r.cancelled
               /\ s.implementations = r.implementations
               /\ s.turns[q].attempt = r.turns[q].attempt + 1
               /\ s.turns[q].state = "Queued" /\ s.turns[q].cancelled = r.turns[q].cancelled
               /\ \A o \in Ids \ {q} : s.turns[o] = r.turns[o]
               /\ Turns(s) = Turns(r)
<1> DEFINE s == PostAgain(r, q)
           new == [r.turns[q] EXCEPT !.attempt = r.turns[q].attempt + 1, !.state = "Queued"]
<1>1. r \in Round /\ r.turns \in [Ids -> TurnRecord]
  BY DEF WellFormed, Round, TurnRecord
<1>2. new \in TurnRecord /\ new.attempt = r.turns[q].attempt + 1 /\ new.state = "Queued"
      /\ new.answer = r.turns[q].answer /\ new.cancelled = r.turns[q].cancelled
      /\ new.attempt # 0
  <2> DEFINE old == r.turns[q]
  <2>1. old \in TurnRecord
    BY <1>1
  <2>2. "Queued" \in DispatchState
    BY DEF DispatchState
  <2> HIDE DEF old
  <2>3. [old EXCEPT !.attempt = old.attempt + 1, !.state = "Queued"] \in TurnRecord
    <3>1. old.attempt + 1 \in Nat
      BY <2>1 DEF TurnRecord
    <3>2. [old EXCEPT !.attempt = old.attempt + 1] \in TurnRecord
      BY <2>1, <3>1 DEF TurnRecord
    <3> QED
      BY <2>2, <3>2 DEF TurnRecord
  <2>4. old.attempt \in Nat
    BY <2>1 DEF TurnRecord
  <2> QED
    BY <2>1, <2>3, <2>4 DEF old, TurnRecord
<1>3. /\ s.turns = [r.turns EXCEPT ![q] = new]
      /\ s.conversation = r.conversation /\ s.answers = r.answers
      /\ s.outstanding = q /\ s.retry = r.retry /\ s.cancelled = r.cancelled
      /\ s.implementations = r.implementations /\ s.completion = r.completion
  BY <1>1 DEF PostAgain, Round, TurnRecord
<1> HIDE DEF new
<1>4. s.turns \in [Ids -> TurnRecord] /\ s.turns[q] = new
      /\ \A o \in Ids \ {q} : s.turns[o] = r.turns[o]
  BY <1>1, <1>2, <1>3
<1>5. s \in Round
  <2>1. s = [r EXCEPT !.turns = s.turns, !.outstanding = q]
    BY <1>1 DEF PostAgain, Round
  <2> HIDE DEF s
  <2> QED
    BY <1>1, <1>4, <2>1 DEF Round, TurnRecord
<1> HIDE DEF s
<1>6. q \in Turns(r) /\ r.retry = q
  BY DEF MayPostAgain
<1>7. /\ Turns(s) = Turns(r) /\ Implementations(s) = Implementations(r)
      /\ AnswerIds(s) = AnswerIds(r) /\ \A o : Concludes(s, o) <=> Concludes(r, o)
  BY <1>2, <1>3, <1>4, <1>6 DEF Turns, Implementations, AnswerIds, Concludes
<1>8. /\ \A o \in Ids : s.turns[o].answer => o \in AnswerIds(s)
      /\ s.turns[s.retry].answer = r.turns[r.retry].answer
  BY <1>2, <1>3, <1>4, <1>6, <1>7 DEF WellFormed
<1>9. WellFormed(s, n)
  BY <1>3, <1>5, <1>6, <1>7, <1>8 DEF WellFormed, Numbered, Conversed, Replied
<1> QED
  BY <1>2, <1>3, <1>4, <1>7, <1>9 DEF s

-----------------------------------------------------------------------------
(* Answers taken back. *)

\* Which answers go: those from a on, in the order they were given.
LEMMA AnswersGo ==
    ASSUME NEW r, NEW n, WellFormed(r, n), NEW a, a \in AnswerIds(r)
    PROVE  /\ From(r, a) \in DOMAIN r.answers /\ r.answers[From(r, a)].id = a
           /\ a \in AnswersFrom(r, a)
           /\ AnswersFrom(r, a) = {b \in AnswerIds(r) : b >= a}
           /\ \A i \in DOMAIN r.answers : i < From(r, a) <=> r.answers[i].id < a
<1> DEFINE f == From(r, a)
<1>1. r \in Round
  BY DEF WellFormed
<1>2. /\ Len(r.answers) \in Nat /\ DOMAIN r.answers = 1 .. Len(r.answers)
      /\ \A i \in DOMAIN r.answers : r.answers[i].id \in Nat
      /\ AnswerIds(r) \subseteq Nat
  BY <1>1, AnswerTypes
<1>3. \A i, j \in DOMAIN r.answers : i < j => r.answers[i].id < r.answers[j].id
  BY DEF WellFormed, Numbered
<1>4. f \in DOMAIN r.answers /\ r.answers[f].id = a
  BY DEF AnswerIds, From
<1> HIDE DEF f
<1>5. \A i \in DOMAIN r.answers : i < f <=> r.answers[i].id < a
  <2> TAKE i \in DOMAIN r.answers
  <2>1. i < f => r.answers[i].id < a
    BY <1>3, <1>4
  <2>2. i = f => ~(r.answers[i].id < a)
    BY <1>2, <1>4
  <2>3. f < i => ~(r.answers[i].id < a)
    BY <1>2, <1>3, <1>4
  <2> QED
    BY <1>2, <1>4, <2>1, <2>2, <2>3
<1>6. AnswersFrom(r, a) = {r.answers[i].id : i \in f .. Len(r.answers)}
  BY DEF AnswersFrom, f
<1>7. \A b \in AnswersFrom(r, a) : b \in AnswerIds(r) /\ b >= a
  <2> TAKE b \in AnswersFrom(r, a)
  <2>1. PICK i \in f .. Len(r.answers) : r.answers[i].id = b
    BY <1>6
  <2>2. i \in DOMAIN r.answers /\ ~(i < f) /\ i \in Nat
    BY <1>2, <1>4, <2>1
  <2> QED
    BY <1>2, <1>4, <1>5, <2>1, <2>2 DEF AnswerIds
<1>8. \A b \in AnswerIds(r) : b >= a => b \in AnswersFrom(r, a)
  <2> TAKE b \in AnswerIds(r)
  <2>1. PICK i \in DOMAIN r.answers : r.answers[i].id = b
    BY DEF AnswerIds
  <2>2. b >= a => i \in f .. Len(r.answers)
    BY <1>2, <1>4, <1>5, <2>1
  <2> QED
    BY <1>6, <2>1, <2>2
<1>9. a \in AnswersFrom(r, a)
  BY <1>2, <1>8
<1> QED
  BY <1>4, <1>5, <1>7, <1>8, <1>9 DEF f

\* A set of positions that has every position before one of its own is the first so many.
LEMMA FirstOnes ==
    ASSUME NEW l \in Nat, NEW S \in SUBSET (1 .. l),
           \A j \in S : \A i \in 1 .. l : i < j => i \in S
    PROVE  Cardinality(S) \in 0 .. l /\ S = 1 .. Cardinality(S)
<1> DEFINE n == Cardinality(S)
<1>1. IsFiniteSet(1 .. l) /\ Cardinality(1 .. l) = l
  BY FS_Interval
<1>2. IsFiniteSet(S) /\ n \in Nat /\ n <= l
  BY <1>1, FS_Subset, FS_CardinalityType
<1> HIDE DEF n
<1>3. IsFiniteSet(1 .. n) /\ Cardinality(1 .. n) = n
  BY <1>2, FS_Interval
<1>4. S \in SUBSET (1 .. n)
  <2> SUFFICES ASSUME NEW j \in S, n < j PROVE FALSE
    BY <1>2
  <2>1. 1 .. (n + 1) \in SUBSET S
    BY <1>2
  <2>2. Cardinality(1 .. (n + 1)) = n + 1
    BY <1>2, FS_Interval
  <2>3. n + 1 <= n
    BY <1>2, <2>1, <2>2, FS_Subset DEF n
  <2> QED
    BY <1>2, <2>3
<1>5. S = 1 .. n
  BY <1>3, <1>4, FS_Subset DEF n
<1> QED
  BY <1>2, <1>5 DEF n

\* Picking the first so many keeps each where it is.
LEMMA FirstPicked ==
    ASSUME NEW E, NEW s \in Seq(E), NEW n \in 0 .. Len(s)
    PROVE  /\ Picked(s, 1 .. n) \in Seq(E) /\ DOMAIN Picked(s, 1 .. n) = 1 .. n
           /\ \A k \in 1 .. n : Picked(s, 1 .. n)[k] = s[k]
<1>1. n \in Nat /\ Len(s) \in Nat /\ DOMAIN s = 1 .. Len(s) /\ \A k \in 1 .. Len(s) : s[k] \in E
  OBVIOUS
<1>2. Cardinality(1 .. n) = n
  BY <1>1, FS_Interval
<1>3. ASSUME NEW i \in 1 .. n
      PROVE  Cardinality({j \in 1 .. n : j <= i}) = i
  <2>1. {j \in 1 .. n : j <= i} = 1 .. i
    BY <1>1
  <2>2. Cardinality(1 .. i) = i
    BY <1>1, FS_Interval
  <2> QED
    BY <2>1, <2>2
<1>4. ASSUME NEW k \in 1 .. n
      PROVE  Nth(1 .. n, k) = k
  BY <1>3 DEF Nth
<1>5. Picked(s, 1 .. n) = [k \in 1 .. n |-> s[Nth(1 .. n, k)]]
  BY <1>2 DEF Picked
<1>6. Picked(s, 1 .. n) = [k \in 1 .. n |-> s[k]]
  BY <1>4, <1>5
<1>7. \A k \in 1 .. n : s[k] \in E
  BY <1>1
<1> QED
  BY <1>1, <1>6, <1>7

\* What the conversation keeps: its turns up to the first that followed an answer that
\* went.
LEMMA KeptAreFirst ==
    ASSUME NEW r, NEW n, WellFormed(r, n), NEW a, a \in AnswerIds(r)
    PROVE  LET gone == AnswersFrom(r, a)
               kept == KeptTurns(r, gone)
           IN  /\ kept \in Seq(ConversationTurn)
               /\ \A i \in DOMAIN kept :
                    /\ i \in DOMAIN r.conversation /\ kept[i] = r.conversation[i]
                    /\ r.conversation[i].answer \notin gone
               /\ \A i \in DOMAIN r.conversation :
                    r.conversation[i].answer \notin gone => i \in DOMAIN kept
<1> DEFINE gone == AnswersFrom(r, a)
           c == r.conversation
           S == {i \in DOMAIN c : c[i].answer \notin gone}
           kept == KeptTurns(r, gone)
<1>1. r \in Round
  BY DEF WellFormed
<1>2. /\ c \in Seq(ConversationTurn) /\ Len(c) \in Nat /\ DOMAIN c = 1 .. Len(c)
      /\ \A i \in DOMAIN c : c[i].answer \in Nat
      /\ a \in Nat
  BY <1>1, ConversationTypes, AnswerTypes
<1>3. /\ gone = {b \in AnswerIds(r) : b >= a}
      /\ \A i \in DOMAIN c : c[i].answer \in {0} \cup AnswerIds(r)
      /\ \A i, j \in DOMAIN c : i < j => c[i].answer <= c[j].answer
      /\ 0 \notin AnswerIds(r)
  <2>1. 0 \notin AnswerIds(r)
    BY <1>1, AnswerTypes DEF Ids
  <2> QED
    BY <2>1, AnswersGo DEF WellFormed, Conversed
<1>4. kept = Picked(c, S)
  BY DEF KeptTurns
<1> HIDE DEF gone, c, kept
<1>5. \A i \in DOMAIN c : i \in S <=> c[i].answer < a
  <2> TAKE i \in DOMAIN c
  <2>1. i \in S <=> c[i].answer \notin gone
    OBVIOUS
  <2>2. c[i].answer = 0 => c[i].answer \notin gone /\ c[i].answer < a
    <3>1. a \in AnswerIds(r) /\ a # 0
      BY <1>3
    <3> QED
      BY <1>2, <1>3, <3>1
  <2>3. c[i].answer \in AnswerIds(r) => (c[i].answer \in gone <=> ~(c[i].answer < a))
    BY <1>2, <1>3
  <2> QED
    BY <1>3, <2>1, <2>2, <2>3
<1> HIDE DEF S
<1>6. S \in SUBSET (1 .. Len(c)) /\ \A j \in S : \A i \in 1 .. Len(c) : i < j => i \in S
  <2>1. S \in SUBSET (1 .. Len(c))
    BY <1>2 DEF S
  <2> SUFFICES ASSUME NEW j \in S, NEW i \in 1 .. Len(c), i < j PROVE i \in S
    BY <2>1
  <2>2. c[i].answer <= c[j].answer /\ c[j].answer < a
    BY <1>2, <1>3, <1>5, <2>1
  <2> QED
    BY <1>2, <1>5, <2>1, <2>2
<1> DEFINE m == Cardinality(S)
<1>7. m \in 0 .. Len(c) /\ S = 1 .. m
  BY <1>2, <1>6, FirstOnes
<1> HIDE DEF m
<1>8. /\ kept \in Seq(ConversationTurn) /\ DOMAIN kept = S
      /\ \A i \in S : kept[i] = c[i]
  BY <1>2, <1>4, <1>7, FirstPicked
<1>9. \A i \in DOMAIN c : i \in S <=> c[i].answer \notin gone
  BY DEF S
<1>10. S \subseteq DOMAIN c
  BY DEF S
<1> QED
  BY <1>8, <1>9, <1>10 DEF gone, c, kept

\* What a round is once they went.
LEMMA CancelFields ==
    ASSUME NEW r, NEW n, WellFormed(r, n), NEW a, MayCancelFrom(r, a)
    PROVE  LET s == CancelAnswersFrom(r, a)
               gone == AnswersFrom(r, a)
               waits == r.retry \in gone
               untold == IF waits THEN r.turns[r.retry].cancelled ELSE {}
           IN  /\ s \in Round
               /\ s.answers = SubSeq(r.answers, 1, From(r, a) - 1)
               /\ s.conversation = KeptTurns(r, gone)
               /\ s.outstanding = IF waits THEN 0 ELSE r.outstanding
               /\ s.retry = IF waits THEN 0 ELSE r.retry
               /\ s.cancelled = r.cancelled \cup gone \cup untold
               /\ \A q \in Ids : s.turns[q] = IF q \in gone THEN NoTurn ELSE r.turns[q]
               /\ s.implementations = r.implementations
               /\ s.completion = IF r.completion \in gone THEN 0 ELSE r.completion
<1> DEFINE gone == AnswersFrom(r, a)
           waits == r.retry \in gone
           untold == IF waits THEN r.turns[r.retry].cancelled ELSE {}
           turns == [q \in Ids |-> IF q \in gone THEN NoTurn ELSE r.turns[q]]
           s == CancelAnswersFrom(r, a)
<1>1. /\ r \in Round /\ r.turns \in [Ids -> TurnRecord] /\ r.retry \in {0} \cup Ids
      /\ r.cancelled \subseteq Ids /\ r.outstanding \in {0} \cup Ids
      /\ r.completion \in {0} \cup Ids
  BY DEF WellFormed, Round, TurnRecord
<1>2. /\ r.answers \in Seq([id : Ids, in_reply_to : Ids]) /\ AnswerIds(r) \subseteq Ids
      /\ Len(r.answers) \in Nat /\ DOMAIN r.answers = 1 .. Len(r.answers)
  BY <1>1, AnswerTypes
<1>3. a \in AnswerIds(r)
  BY DEF MayCancelFrom
<1>4. From(r, a) \in 1 .. Len(r.answers) /\ gone \subseteq Ids
  BY <1>2, <1>3, AnswersGo
<1>5. SubSeq(r.answers, 1, From(r, a) - 1) \in Seq([id : Ids, in_reply_to : Ids])
  <2> DEFINE A == [id : Ids, in_reply_to : Ids]
             f == From(r, a)
             w == r.answers
  <2>1. w \in Seq(A) /\ f \in 1 .. Len(w) /\ Len(w) \in Nat
    BY <1>2, <1>4
  <2> HIDE DEF A, f, w, gone, waits, untold, turns, s
  <2>2. SubSeq(w, 1, f - 1) \in Seq(A)
    BY <2>1
  <2> QED
    BY <2>2 DEF A, f, w
<1>6. KeptTurns(r, gone) \in Seq(ConversationTurn)
  BY <1>3, KeptAreFirst
<1>7. untold \subseteq Ids
  BY <1>1, <1>4 DEF TurnRecord
<1>8. NoTurn \in TurnRecord
  BY DEF NoTurn, TurnRecord, DispatchState
<1>9. turns \in [Ids -> TurnRecord]
  BY <1>1, <1>8
<1>10. s = [r EXCEPT !.answers = SubSeq(r.answers, 1, From(r, a) - 1),
                     !.conversation = KeptTurns(r, gone),
                     !.outstanding = IF waits THEN 0 ELSE r.outstanding,
                     !.retry = IF waits THEN 0 ELSE r.retry,
                     !.cancelled = r.cancelled \cup gone \cup untold,
                     !.turns = turns,
                     !.completion = IF r.completion \in gone THEN 0 ELSE r.completion]
  BY DEF CancelAnswersFrom
<1>11. r.cancelled \cup gone \cup untold \subseteq Ids
  BY <1>1, <1>4, <1>7
<1>12. \A q \in Ids : turns[q] = IF q \in gone THEN NoTurn ELSE r.turns[q]
  OBVIOUS
<1> HIDE DEF gone, turns, untold, s
<1>13. /\ s.answers = SubSeq(r.answers, 1, From(r, a) - 1)
       /\ s.conversation = KeptTurns(r, gone)
       /\ s.outstanding = IF waits THEN 0 ELSE r.outstanding
       /\ s.retry = IF waits THEN 0 ELSE r.retry
       /\ s.cancelled = r.cancelled \cup gone \cup untold
       /\ s.turns = turns /\ s.implementations = r.implementations
       /\ s.completion = IF r.completion \in gone THEN 0 ELSE r.completion
  BY <1>1, <1>10 DEF Round
<1>14. s \in Round
  <2>1. /\ s.outstanding \in {0} \cup Ids /\ s.retry \in {0} \cup Ids
        /\ s.completion \in {0} \cup Ids
    BY <1>1, <1>13
  <2>2. s = [conversation |-> s.conversation, answers |-> s.answers,
             outstanding |-> s.outstanding, retry |-> s.retry, cancelled |-> s.cancelled,
             turns |-> s.turns, implementations |-> s.implementations,
             completion |-> s.completion]
    BY <1>1, <1>10 DEF Round
  <2>3. s.implementations \in [Deliveries -> DeliveryRecord]
    BY <1>1, <1>13 DEF Round, DeliveryRecord
  <2>4. /\ s.conversation \in Seq(ConversationTurn)
        /\ s.answers \in Seq([id : Ids, in_reply_to : Ids])
        /\ s.cancelled \in SUBSET Ids /\ s.turns \in [Ids -> TurnRecord]
    BY <1>5, <1>6, <1>9, <1>11, <1>13
  <2> QED
    BY <2>1, <2>2, <2>3, <2>4, Zenon DEF Round, TurnRecord, DeliveryRecord
<1> QED
  BY <1>12, <1>13, <1>14 DEF s, gone, untold

\* Without its later answers a round is readable, and the answers that go
\* take their turns with them.
LEMMA CancelIsWellFormed ==
    ASSUME NEW r, NEW n, WellFormed(r, n), NEW a, MayCancelFrom(r, a)
    PROVE  /\ WellFormed(CancelAnswersFrom(r, a), n)
           /\ AnswerIds(CancelAnswersFrom(r, a)) = AnswerIds(r) \ AnswersFrom(r, a)
           /\ Turns(CancelAnswersFrom(r, a)) = Turns(r) \ AnswersFrom(r, a)
<1> DEFINE s == CancelAnswersFrom(r, a)
           gone == AnswersFrom(r, a)
           f == From(r, a)
<1>1. r \in Round /\ a \in AnswerIds(r) /\ Implementations(r) = {}
  BY DEF WellFormed, MayCancelFrom
<1>2. /\ f \in DOMAIN r.answers /\ gone = {b \in AnswerIds(r) : b >= a}
      /\ \A i \in DOMAIN r.answers : i < f <=> r.answers[i].id < a
  BY <1>1, AnswersGo
<1>3. /\ s \in Round
      /\ s.answers = SubSeq(r.answers, 1, f - 1)
      /\ s.conversation = KeptTurns(r, gone)
      /\ s.outstanding = IF r.retry \in gone THEN 0 ELSE r.outstanding
      /\ s.retry = IF r.retry \in gone THEN 0 ELSE r.retry
      /\ \A q \in Ids : s.turns[q] = IF q \in gone THEN NoTurn ELSE r.turns[q]
      /\ s.implementations = r.implementations
      /\ s.completion = IF r.completion \in gone THEN 0 ELSE r.completion
  BY CancelFields
<1>4. /\ Len(r.answers) \in Nat /\ DOMAIN r.answers = 1 .. Len(r.answers)
      /\ \A i \in DOMAIN r.answers : r.answers[i].id \in Nat
      /\ AnswerIds(r) \subseteq Nat
  BY <1>1, AnswerTypes
<1>5. /\ \A i \in DOMAIN r.conversation :
           r.conversation[i].answer \in {0} \cup AnswerIds(r) /\ r.conversation[i].answer \in Nat
      /\ 0 \notin AnswerIds(r)
  <2>1. 0 \notin Ids /\ AnswerIds(r) \subseteq Ids
    BY <1>1, AnswerTypes DEF Ids
  <2> QED
    BY <1>1, <2>1, ConversationTypes DEF WellFormed, Conversed
<1> HIDE DEF s, gone, f
<1>6. DOMAIN s.answers = 1 .. (f - 1) /\ 1 .. (f - 1) \subseteq DOMAIN r.answers
      /\ \A i \in 1 .. (f - 1) : s.answers[i] = r.answers[i]
  BY <1>1, <1>2, <1>3, <1>4, AnswerTypes
<1>7. AnswerIds(s) = AnswerIds(r) \ gone
  <2>1. ASSUME NEW b \in AnswerIds(s)
        PROVE  b \in AnswerIds(r) \ gone
    <3>1. PICK i \in DOMAIN s.answers : s.answers[i].id = b
      BY DEF AnswerIds
    <3>2. i \in DOMAIN r.answers /\ r.answers[i].id = b /\ i < f
      BY <1>2, <1>4, <1>6, <3>1
    <3>3. b < a /\ b \in AnswerIds(r)
      BY <1>2, <3>2 DEF AnswerIds
    <3> QED
      BY <1>1, <1>2, <1>4, <3>3
  <2>2. ASSUME NEW b \in AnswerIds(r) \ gone
        PROVE  b \in AnswerIds(s)
    <3>1. PICK i \in DOMAIN r.answers : r.answers[i].id = b
      BY DEF AnswerIds
    <3>2. b < a
      BY <1>1, <1>2, <1>4
    <3>3. i \in DOMAIN s.answers /\ s.answers[i].id = b
      BY <1>2, <1>4, <1>6, <3>1, <3>2
    <3> QED
      BY <3>3 DEF AnswerIds
  <2> QED
    BY <2>1, <2>2
<1>8. /\ \A i \in DOMAIN s.conversation :
           /\ i \in DOMAIN r.conversation /\ s.conversation[i] = r.conversation[i]
           /\ r.conversation[i].answer \notin gone
      /\ \A i \in DOMAIN r.conversation :
           r.conversation[i].answer \notin gone => i \in DOMAIN s.conversation
  BY <1>1, <1>3, KeptAreFirst DEF gone
<1>9. Turns(s) = Turns(r) \ gone /\ Implementations(s) = {}
  <2>1. NoTurn.attempt = 0
    BY DEF NoTurn
  <2> QED
    BY <1>1, <1>3, <2>1 DEF Turns, Implementations
<1>10. Numbered(s, n)
  <2>1. \A i \in DOMAIN s.answers : i \in DOMAIN r.answers /\ s.answers[i] = r.answers[i]
    BY <1>6
  <2> QED
    BY <1>8, <1>9, <2>1 DEF WellFormed, Numbered
<1>11. Conversed(s)
  BY <1>5, <1>7, <1>8 DEF WellFormed, Conversed
<1>12. Replied(s)
  <2> SUFFICES ASSUME NEW i \in DOMAIN s.answers
               PROVE  \E j \in DOMAIN s.conversation :
                        /\ s.conversation[j].request = s.answers[i].in_reply_to
                        /\ s.conversation[j].answer < s.answers[i].id
    BY DEF Replied
  <2>1. i \in DOMAIN r.answers /\ s.answers[i] = r.answers[i] /\ r.answers[i].id < a
    BY <1>2, <1>4, <1>6
  <2>2. PICK j \in DOMAIN r.conversation :
              /\ r.conversation[j].request = r.answers[i].in_reply_to
              /\ r.conversation[j].answer < r.answers[i].id
    BY <2>1 DEF WellFormed, Replied
  <2>3. r.conversation[j].answer \notin gone
    BY <1>1, <1>2, <1>4, <1>5, <2>1, <2>2
  <2> QED
    BY <1>8, <2>1, <2>2, <2>3
<1>13. \A q \in Ids : s.turns[q].answer => q \in AnswerIds(s)
  <2>1. NoTurn.answer = FALSE
    BY DEF NoTurn
  <2> QED
    BY <1>3, <1>7, <2>1 DEF WellFormed
<1>14. s.completion # 0 => Concludes(s, s.completion)
  <2> SUFFICES ASSUME s.completion # 0 PROVE Concludes(s, s.completion)
    OBVIOUS
  <2>1. s.completion = r.completion /\ r.completion \notin gone /\ Concludes(r, r.completion)
    BY <1>3 DEF WellFormed
  <2>2. PICK i \in DOMAIN r.conversation :
              r.conversation[i].request = r.completion /\ ~r.conversation[i].next
    BY <2>1 DEF Concludes
  <2>3. r.conversation[i].answer \in {0, r.completion}
    BY <2>2 DEF WellFormed, Conversed
  <2>4. r.conversation[i].answer \notin gone
    BY <1>2, <1>5, <2>1, <2>3
  <2> QED
    BY <1>8, <2>1, <2>2, <2>4 DEF Concludes
<1>15. /\ s.outstanding \in {0, s.retry} /\ s.retry \in {0, n}
       /\ s.retry # 0 => s.retry \in Turns(s)
       /\ s.retry # 0 /\ ~s.turns[s.retry].answer => s.answers = <<>>
  <2>1. s.retry # 0 => s.retry = r.retry /\ s.retry \notin gone /\ s.retry \in Turns(r)
    BY <1>3 DEF WellFormed
  <2>2. s.retry # 0 => s.turns[s.retry].answer
    <3>1. r.answers # <<>>
      BY <1>1 DEF AnswerIds
    <3>2. s.retry # 0 => s.turns[s.retry] = r.turns[s.retry]
      BY <1>3, <2>1 DEF Turns
    <3> QED
      BY <2>1, <3>1, <3>2 DEF WellFormed
  <2> QED
    BY <1>3, <1>9, <2>1, <2>2 DEF WellFormed
<1>16. WellFormed(s, n)
  BY <1>3, <1>9, <1>10, <1>11, <1>12, <1>13, <1>14, <1>15 DEF WellFormed
<1> QED
  BY <1>7, <1>9, <1>16 DEF s, gone

\* One more element at the end of a sequence.
LEMMA Appended ==
    ASSUME NEW E, NEW c \in Seq(E), NEW t \in E
    PROVE  LET s == Append(c, t)
               l == Len(c) + 1
           IN  /\ s \in Seq(E) /\ l \in DOMAIN s /\ s[l] = t /\ l \notin DOMAIN c
               /\ \A i \in DOMAIN c : i \in DOMAIN s /\ s[i] = c[i]
               /\ \A i \in DOMAIN s : (i = l \/ i \in DOMAIN c) /\ ~(l < i)
OBVIOUS

\* The last turn, of a conversation that has one.
LEMMA LastTurn ==
    ASSUME NEW r \in Round, r.conversation # <<>>
    PROVE  /\ Len(r.conversation) \in DOMAIN r.conversation
           /\ Last(r.conversation) = r.conversation[Len(r.conversation)]
<1> DEFINE c == r.conversation
<1>1. c \in Seq(ConversationTurn) /\ c # <<>>
  BY ConversationTypes
<1> HIDE DEF c
<1>2. Len(c) \in DOMAIN c
  BY <1>1
<1> QED
  BY <1>2 DEF c, Last

\* A turn that the agent gave to the request that waits for one.
LEMMA SubmitIsWellFormed ==
    ASSUME NEW r, NEW n \in Nat, WellFormed(r, n), NEW q \in Ids, MaySubmit(r, q),
           NEW question \in BOOLEAN
    PROVE  LET s == Submit(r, q, question)
           IN  /\ WellFormed(s, n)
               /\ s.turns = r.turns /\ s.implementations = r.implementations
               /\ s.answers = r.answers /\ s.cancelled = r.cancelled
               /\ s.outstanding = 0 /\ s.retry = 0 /\ r.retry = q
               /\ \E t \in ConversationTurn : s.conversation = Append(r.conversation, t)
<1> DEFINE answer == IF r.turns[q].answer THEN q ELSE 0
           t == [request |-> q, next |-> question, answer |-> answer]
           completion == IF ~question /\ r.completion = 0 THEN q ELSE r.completion
           s == Submit(r, q, question)
<1>1. r \in Round /\ q # 0 /\ r.retry = q /\ q <= n
  <2>1. q # 0 /\ r.outstanding = q
    BY DEF Ids, MaySubmit
  <2> QED
    BY <2>1 DEF WellFormed, Numbered
<1>2. t \in ConversationTurn /\ t.request = q /\ t.answer = answer /\ t.next = question
  <2>1. answer \in {0} \cup Ids
    OBVIOUS
  <2> HIDE DEF answer
  <2> QED
    BY <2>1 DEF ConversationTurn
<1>3. /\ answer \in {0} \cup AnswerIds(r) /\ answer \in {0, q}
      /\ \A i \in DOMAIN r.conversation : r.conversation[i].answer <= answer
  <2>1. answer \in {0} \cup AnswerIds(r) /\ answer \in {0, q} /\ q = n /\ q \in Nat
    BY <1>1 DEF WellFormed, Ids
  <2> SUFFICES ASSUME NEW i \in DOMAIN r.conversation
               PROVE  r.conversation[i].answer <= answer
    BY <2>1
  <2>2. r.conversation[i].answer \in {0} \cup AnswerIds(r) /\ r.conversation[i].answer \in Nat
    BY <1>1, ConversationTypes DEF WellFormed, Conversed
  <2>3. \A b \in AnswerIds(r) : b <= n
    BY DEF WellFormed, Numbered, AnswerIds
  <2>4. CASE r.turns[q].answer
    <3>1. answer = n
      BY <2>1, <2>4
    <3> QED
      BY <2>1, <2>2, <2>3, <3>1
  <2>5. CASE ~r.turns[q].answer
    <3>1. r.answers = <<>> /\ answer = 0
      BY <1>1, <2>5 DEF WellFormed
    <3>2. AnswerIds(r) = {}
      BY <3>1 DEF AnswerIds
    <3> QED
      BY <2>2, <3>1, <3>2
  <2> QED
    BY <2>4, <2>5
<1>4. s = [r EXCEPT !.conversation = Append(r.conversation, t), !.outstanding = 0,
                    !.retry = 0, !.completion = completion]
  BY DEF Submit
<1>5. r.conversation \in Seq(ConversationTurn)
  BY <1>1 DEF Round
<1>6. completion \in {0} \cup Ids /\ (completion # r.completion => completion = q /\ ~question)
  BY <1>1 DEF Round
<1> HIDE DEF t, answer, completion, s
<1>7. /\ s.turns = r.turns /\ s.implementations = r.implementations
      /\ s.answers = r.answers /\ s.cancelled = r.cancelled
      /\ s.outstanding = 0 /\ s.retry = 0 /\ s.completion = completion
      /\ s.conversation = Append(r.conversation, t)
  BY <1>1, <1>4 DEF Round
<1> DEFINE l == Len(r.conversation) + 1
<1>8. /\ s.conversation \in Seq(ConversationTurn)
      /\ l \in DOMAIN s.conversation /\ s.conversation[l] = t
      /\ \A i \in DOMAIN r.conversation :
           i \in DOMAIN s.conversation /\ s.conversation[i] = r.conversation[i]
      /\ \A i \in DOMAIN s.conversation : i = l \/ i \in DOMAIN r.conversation
      /\ \A i \in DOMAIN s.conversation : ~(l < i)
  BY <1>2, <1>5, <1>7, Appended
<1> HIDE DEF l
<1>9. s \in Round
  BY <1>1, <1>4, <1>6, <1>7, <1>8 DEF Round
<1>10. /\ Turns(s) = Turns(r) /\ Implementations(s) = Implementations(r)
       /\ AnswerIds(s) = AnswerIds(r)
  BY <1>7 DEF Turns, Implementations, AnswerIds
<1>11. \A o : Concludes(r, o) => Concludes(s, o)
  BY <1>8 DEF Concludes
<1>12. Numbered(s, n)
  BY <1>1, <1>2, <1>7, <1>8, <1>10 DEF WellFormed, Numbered
<1>13. Conversed(s)
  <2>1. \A i \in DOMAIN r.conversation : r.conversation[i].request # q
    BY DEF MaySubmit, InConversation
  <2>2. \A i, j \in DOMAIN s.conversation :
          s.conversation[i].request = s.conversation[j].request => i = j
    BY <1>2, <1>8, <2>1 DEF WellFormed, Conversed
  <2>3. \A i \in DOMAIN s.conversation :
          /\ s.conversation[i].answer \in {0} \cup AnswerIds(s)
          /\ ~s.conversation[i].next =>
               s.conversation[i].answer \in {0, s.conversation[i].request}
    BY <1>2, <1>3, <1>8, <1>10 DEF WellFormed, Conversed
  <2>4. ASSUME NEW i \in DOMAIN s.conversation, NEW j \in DOMAIN s.conversation, i < j
        PROVE  s.conversation[i].answer <= s.conversation[j].answer
    <3>1. i \in DOMAIN r.conversation /\ s.conversation[i] = r.conversation[i]
      BY <1>8, <2>4
    <3>2. CASE j = l
      BY <1>2, <1>3, <1>8, <3>1, <3>2
    <3>3. CASE j # l
      BY <1>8, <2>4, <3>1, <3>3 DEF WellFormed, Conversed
    <3> QED
      BY <3>2, <3>3
  <2> QED
    BY <2>2, <2>3, <2>4 DEF Conversed
<1>14. Replied(s)
  BY <1>7, <1>8 DEF WellFormed, Replied
<1>15. s.completion # 0 => Concludes(s, s.completion)
  <2>1. s.completion = r.completion => (s.completion # 0 => Concludes(s, s.completion))
    BY <1>11 DEF WellFormed
  <2>2. s.completion # r.completion => Concludes(s, s.completion)
    BY <1>2, <1>6, <1>7, <1>8 DEF Concludes
  <2> QED
    BY <2>1, <2>2
<1>16. WellFormed(s, n)
  BY <1>7, <1>9, <1>10, <1>11, <1>12, <1>13, <1>14, <1>15 DEF WellFormed
<1> QED
  BY <1>1, <1>2, <1>7, <1>16 DEF s

\* A new version of the open question, with a number of its own.
LEMMA ReviseIsWellFormed ==
    ASSUME NEW r, NEW n \in Nat, n < MaxIds, WellFormed(r, n), MayRevise(r)
    PROVE  LET s == Revise(r, n + 1)
           IN  /\ WellFormed(s, n + 1)
               /\ s.turns = r.turns /\ s.implementations = r.implementations
               /\ s.answers = r.answers /\ s.cancelled = r.cancelled
               /\ s.outstanding = r.outstanding /\ s.retry = r.retry
               /\ \E t \in ConversationTurn : s.conversation = Append(r.conversation, t)
<1> DEFINE q == n + 1
           answer == Last(r.conversation).answer
           t == [request |-> q, next |-> TRUE, answer |-> answer]
           s == Revise(r, q)
<1>1. r \in Round /\ q \in Ids /\ n < q /\ n <= q /\ q \in Nat
  BY RoundAssumption DEF WellFormed, Ids
<1>2. /\ answer \in {0} \cup AnswerIds(r) /\ answer \in {0} \cup Ids
      /\ \A i \in DOMAIN r.conversation : r.conversation[i].answer <= answer
  <2>1. Len(r.conversation) \in DOMAIN r.conversation
        /\ answer = r.conversation[Len(r.conversation)].answer
    BY <1>1, LastTurn DEF MayRevise
  <2> HIDE DEF answer
  <2>2. /\ DOMAIN r.conversation = 1 .. Len(r.conversation) /\ Len(r.conversation) \in Nat
        /\ \A i \in DOMAIN r.conversation : r.conversation[i].answer \in Nat
        /\ answer \in {0} \cup AnswerIds(r) /\ answer \in {0} \cup Ids
    BY <1>1, <2>1, ConversationTypes DEF WellFormed, Conversed
  <2> SUFFICES ASSUME NEW i \in DOMAIN r.conversation
               PROVE  r.conversation[i].answer <= answer
    BY <2>2
  <2>3. CASE i < Len(r.conversation)
    BY <2>1, <2>3 DEF WellFormed, Conversed
  <2>4. CASE i = Len(r.conversation)
    BY <2>1, <2>2, <2>4
  <2> QED
    BY <2>2, <2>3, <2>4
<1> HIDE DEF answer
<1>3. TRUE \in BOOLEAN
  OBVIOUS
<1>4. t \in ConversationTurn /\ t.request = q /\ t.answer = answer /\ t.next
  BY <1>1, <1>2, <1>3 DEF ConversationTurn
<1>5. s = [r EXCEPT !.conversation = Append(r.conversation, t)]
  BY DEF Revise, answer
<1>6. r.conversation \in Seq(ConversationTurn)
  BY <1>1 DEF Round
<1> HIDE DEF t, s, q
<1>7. /\ s.turns = r.turns /\ s.implementations = r.implementations
      /\ s.answers = r.answers /\ s.cancelled = r.cancelled
      /\ s.outstanding = r.outstanding /\ s.retry = r.retry /\ s.completion = r.completion
      /\ s.conversation = Append(r.conversation, t)
  BY <1>1, <1>5 DEF Round
<1> DEFINE l == Len(r.conversation) + 1
<1>8. /\ s.conversation \in Seq(ConversationTurn)
      /\ l \in DOMAIN s.conversation /\ s.conversation[l] = t
      /\ \A i \in DOMAIN r.conversation :
           i \in DOMAIN s.conversation /\ s.conversation[i] = r.conversation[i]
      /\ \A i \in DOMAIN s.conversation : i = l \/ i \in DOMAIN r.conversation
      /\ \A i \in DOMAIN s.conversation : ~(l < i)
  BY <1>4, <1>6, <1>7, Appended
<1> HIDE DEF l
<1>9. s \in Round
  BY <1>1, <1>5, <1>7, <1>8 DEF Round
<1>10. /\ Turns(s) = Turns(r) /\ Implementations(s) = Implementations(r)
       /\ AnswerIds(s) = AnswerIds(r)
  BY <1>7 DEF Turns, Implementations, AnswerIds
<1>11. \A o : Concludes(r, o) => Concludes(s, o)
  BY <1>8 DEF Concludes
<1>12. \A i \in DOMAIN r.conversation :
          r.conversation[i].request \in Nat /\ r.conversation[i].request < q
  BY <1>1, ConversationTypes DEF WellFormed, Numbered
<1>13. Numbered(s, q)
  <2>1. \A i \in DOMAIN s.answers : s.answers[i].id <= q
    BY <1>1, <1>7, AnswerTypes DEF WellFormed, Numbered
  <2>2. \A o \in Turns(s) : o <= q
    BY <1>1, <1>10 DEF WellFormed, Numbered, Turns, Ids
  <2>3. \A i \in DOMAIN s.conversation : s.conversation[i].request <= q
    BY <1>1, <1>4, <1>8, <1>12
  <2> QED
    BY <1>7, <2>1, <2>2, <2>3 DEF WellFormed, Numbered
<1>14. Conversed(s)
  <2>1. \A i, j \in DOMAIN s.conversation :
          s.conversation[i].request = s.conversation[j].request => i = j
    BY <1>1, <1>4, <1>8, <1>12 DEF WellFormed, Conversed
  <2>2. \A i \in DOMAIN s.conversation :
          /\ s.conversation[i].answer \in {0} \cup AnswerIds(s)
          /\ ~s.conversation[i].next =>
               s.conversation[i].answer \in {0, s.conversation[i].request}
    BY <1>2, <1>4, <1>8, <1>10 DEF WellFormed, Conversed
  <2>3. ASSUME NEW i \in DOMAIN s.conversation, NEW j \in DOMAIN s.conversation, i < j
        PROVE  s.conversation[i].answer <= s.conversation[j].answer
    <3>1. i \in DOMAIN r.conversation /\ s.conversation[i] = r.conversation[i]
      BY <1>8, <2>3
    <3>2. CASE j = l
      BY <1>2, <1>4, <1>8, <3>1, <3>2
    <3>3. CASE j # l
      BY <1>8, <2>3, <3>1, <3>3 DEF WellFormed, Conversed
    <3> QED
      BY <3>2, <3>3
  <2> QED
    BY <2>1, <2>2, <2>3 DEF Conversed
<1>15. Replied(s)
  BY <1>7, <1>8 DEF WellFormed, Replied
<1>16. s.retry = 0
  BY <1>7 DEF MayRevise
<1>17. WellFormed(s, q)
  BY <1>7, <1>9, <1>10, <1>11, <1>13, <1>14, <1>15, <1>16 DEF WellFormed
<1> QED
  BY <1>4, <1>7, <1>17 DEF s, q

\* An implementation request, new or again.
LEMMA AuthorizeIsWellFormed ==
    ASSUME NEW r, NEW n, WellFormed(r, n), NEW d \in Deliveries, MayAuthorize(r, d)
    PROVE  LET s == Authorize(r, d)
           IN  /\ WellFormed(s, n)
               /\ s.turns = r.turns /\ s.conversation = r.conversation
               /\ s.answers = r.answers /\ s.cancelled = r.cancelled
               /\ s.outstanding = r.outstanding /\ s.retry = r.retry
               /\ s.implementations[d].attempt = r.implementations[d].attempt + 1
               /\ s.implementations[d].state = "Queued"
               /\ \A e \in Deliveries \ {d} : s.implementations[e] = r.implementations[e]
<1> DEFINE c == ConclusionRequest(r)
           new == [attempt |-> r.implementations[d].attempt + 1, state |-> "Queued",
                   conclusion |-> c]
           s == Authorize(r, d)
<1>1. /\ r \in Round /\ r.implementations \in [Deliveries -> DeliveryRecord]
  BY DEF WellFormed, Round, DeliveryRecord
<1>2. Concludes(r, c) /\ c \in Ids
  <2>1. /\ r.conversation # <<>> /\ ~Last(r.conversation).next
        /\ c = Last(r.conversation).request
    BY DEF MayAuthorize, ConclusionRequest
  <2> HIDE DEF c
  <2> QED
    BY <1>1, <2>1, LastTurn, ConversationTypes DEF Concludes
<1>3. r.implementations[d].attempt \in Nat
  BY <1>1 DEF DeliveryRecord
<1> HIDE DEF c
<1>4. new \in DeliveryRecord
  BY <1>2, <1>3 DEF DeliveryRecord, DispatchState
<1>5. /\ new.attempt = r.implementations[d].attempt + 1 /\ new.attempt # 0
      /\ new.state = "Queued" /\ new.conclusion = c
  BY <1>3
<1>6. s = [r EXCEPT !.implementations = [r.implementations EXCEPT ![d] = new]]
  BY <1>1 DEF Authorize, Round, c
<1> HIDE DEF new, s
<1>7. /\ s.turns = r.turns /\ s.conversation = r.conversation
      /\ s.answers = r.answers /\ s.cancelled = r.cancelled
      /\ s.outstanding = r.outstanding /\ s.retry = r.retry /\ s.completion = r.completion
      /\ s.implementations = [r.implementations EXCEPT ![d] = new]
  BY <1>1, <1>6 DEF Round
<1>8. /\ s.implementations \in [Deliveries -> DeliveryRecord] /\ s.implementations[d] = new
      /\ \A e \in Deliveries \ {d} : s.implementations[e] = r.implementations[e]
  BY <1>1, <1>4, <1>7
<1>9. s \in Round
  BY <1>1, <1>6, <1>7, <1>8 DEF Round, DeliveryRecord
<1>10. /\ Turns(s) = Turns(r) /\ AnswerIds(s) = AnswerIds(r)
       /\ \A o : Concludes(s, o) <=> Concludes(r, o)
  BY <1>7 DEF Turns, AnswerIds, Concludes
<1>11. \A e \in Implementations(s) : Concludes(s, s.implementations[e].conclusion)
  BY <1>2, <1>5, <1>8, <1>10 DEF WellFormed, Implementations
<1>12. WellFormed(s, n)
  BY <1>7, <1>9, <1>10, <1>11 DEF WellFormed, Numbered, Conversed, Replied
<1> QED
  BY <1>5, <1>7, <1>8, <1>12 DEF s

\* What became of an attempt, put on record.
LEMMA StateIsWellFormed ==
    ASSUME NEW r, NEW n, WellFormed(r, n), NEW m, NEW state \in DispatchState,
           m.kind = "turn" => m.id \in Ids, m.kind # "turn" => m.id \in Deliveries
    PROVE  LET s == WithState(r, m, state)
           IN  /\ WellFormed(s, n)
               /\ s.conversation = r.conversation /\ s.answers = r.answers
               /\ s.cancelled = r.cancelled
               /\ s.outstanding = r.outstanding /\ s.retry = r.retry
               /\ \A q \in Ids :
                    /\ s.turns[q].attempt = r.turns[q].attempt
                    /\ s.turns[q].cancelled = r.turns[q].cancelled
                    /\ s.turns[q].state = IF m.kind = "turn" /\ q = m.id
                                          THEN state ELSE r.turns[q].state
               /\ \A d \in Deliveries :
                    /\ s.implementations[d].attempt = r.implementations[d].attempt
                    /\ s.implementations[d].state =
                         IF m.kind # "turn" /\ d = m.id
                         THEN state ELSE r.implementations[d].state
<1> DEFINE s == WithState(r, m, state)
<1>1. /\ r \in Round /\ r.turns \in [Ids -> TurnRecord]
      /\ r.implementations \in [Deliveries -> DeliveryRecord]
  BY DEF WellFormed, Round, TurnRecord, DeliveryRecord
<1>2. CASE m.kind = "turn"
  <2> DEFINE new == [r.turns[m.id] EXCEPT !.state = state]
  <2>1. /\ new \in TurnRecord /\ new.attempt = r.turns[m.id].attempt
        /\ new.cancelled = r.turns[m.id].cancelled /\ new.state = state
        /\ new.answer = r.turns[m.id].answer
    <3> DEFINE old == r.turns[m.id]
    <3>1. old \in TurnRecord
      BY <1>1, <1>2
    <3> HIDE DEF old
    <3>2. /\ [old EXCEPT !.state = state] \in TurnRecord
          /\ [old EXCEPT !.state = state].attempt = old.attempt
          /\ [old EXCEPT !.state = state].cancelled = old.cancelled
          /\ [old EXCEPT !.state = state].state = state
          /\ [old EXCEPT !.state = state].answer = old.answer
      BY <3>1 DEF TurnRecord
    <3> QED
      BY <3>2 DEF old
  <2>2. s = [r EXCEPT !.turns = [r.turns EXCEPT ![m.id] = new]]
    BY <1>1, <1>2 DEF WithState, Round
  <2> HIDE DEF new, s
  <2>3. /\ s.conversation = r.conversation /\ s.answers = r.answers
        /\ s.cancelled = r.cancelled /\ s.completion = r.completion
        /\ s.outstanding = r.outstanding /\ s.retry = r.retry
        /\ s.implementations = r.implementations
        /\ s.turns = [r.turns EXCEPT ![m.id] = new]
    BY <1>1, <2>2 DEF Round
  <2>4. /\ s.turns \in [Ids -> TurnRecord] /\ s.turns[m.id] = new
        /\ \A q \in Ids \ {m.id} : s.turns[q] = r.turns[q]
    BY <1>1, <1>2, <2>1, <2>3
  <2>5. s \in Round
    BY <1>1, <2>2, <2>3, <2>4 DEF Round, TurnRecord
  <2>6. /\ Turns(s) = Turns(r) /\ Implementations(s) = Implementations(r)
        /\ AnswerIds(s) = AnswerIds(r) /\ \A o : Concludes(s, o) <=> Concludes(r, o)
    BY <2>1, <2>3, <2>4 DEF Turns, Implementations, AnswerIds, Concludes
  <2>7. \A q \in Ids : s.turns[q].answer => q \in AnswerIds(s)
    BY <2>1, <2>4, <2>6 DEF WellFormed
  <2>8. s.retry # 0 => s.turns[s.retry].answer = r.turns[r.retry].answer
    <3>1. r.retry \in {0} \cup Ids
      BY <1>1 DEF Round
    <3> QED
      BY <2>1, <2>3, <2>4, <3>1
  <2>9. WellFormed(s, n)
    BY <2>3, <2>5, <2>6, <2>7, <2>8 DEF WellFormed, Numbered, Conversed, Replied
  <2> QED
    BY <1>2, <2>1, <2>3, <2>4, <2>9 DEF s
<1>3. CASE m.kind # "turn"
  <2> DEFINE new == [r.implementations[m.id] EXCEPT !.state = state]
  <2>1. /\ new \in DeliveryRecord /\ new.attempt = r.implementations[m.id].attempt
        /\ new.state = state /\ new.conclusion = r.implementations[m.id].conclusion
    <3> DEFINE old == r.implementations[m.id]
    <3>1. old \in DeliveryRecord
      BY <1>1, <1>3
    <3> HIDE DEF old
    <3>2. /\ [old EXCEPT !.state = state] \in DeliveryRecord
          /\ [old EXCEPT !.state = state].attempt = old.attempt
          /\ [old EXCEPT !.state = state].state = state
          /\ [old EXCEPT !.state = state].conclusion = old.conclusion
      BY <3>1 DEF DeliveryRecord
    <3> QED
      BY <3>2 DEF old
  <2>2. s = [r EXCEPT !.implementations = [r.implementations EXCEPT ![m.id] = new]]
    BY <1>1, <1>3 DEF WithState, Round
  <2> HIDE DEF new, s
  <2>3. /\ s.conversation = r.conversation /\ s.answers = r.answers
        /\ s.cancelled = r.cancelled /\ s.completion = r.completion
        /\ s.outstanding = r.outstanding /\ s.retry = r.retry
        /\ s.turns = r.turns
        /\ s.implementations = [r.implementations EXCEPT ![m.id] = new]
    BY <1>1, <2>2 DEF Round
  <2>4. /\ s.implementations \in [Deliveries -> DeliveryRecord]
        /\ s.implementations[m.id] = new
        /\ \A d \in Deliveries \ {m.id} : s.implementations[d] = r.implementations[d]
    BY <1>1, <1>3, <2>1, <2>3
  <2>5. s \in Round
    BY <1>1, <2>2, <2>3, <2>4 DEF Round, DeliveryRecord
  <2>6. /\ Turns(s) = Turns(r) /\ Implementations(s) = Implementations(r)
        /\ AnswerIds(s) = AnswerIds(r) /\ \A o : Concludes(s, o) <=> Concludes(r, o)
    BY <2>1, <2>3, <2>4 DEF Turns, Implementations, AnswerIds, Concludes
  <2>7. \A d \in Implementations(s) : Concludes(s, s.implementations[d].conclusion)
    BY <2>1, <2>4, <2>6 DEF WellFormed, Implementations
  <2>8. WellFormed(s, n)
    BY <2>3, <2>5, <2>6, <2>7 DEF WellFormed, Numbered, Conversed, Replied
  <2> QED
    BY <1>3, <2>1, <2>3, <2>4, <2>8 DEF s
<1> QED
  BY <1>2, <1>3

=============================================================================
