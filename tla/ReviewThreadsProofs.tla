------------------------- MODULE ReviewThreadsProofs -------------------------
(***************************************************************************)
(* What the operations on a book of threads do to it, for any book: the    *)
(* lemmas that the proofs about the thread service and about the migration *)
(* of stored threads rest on.  They start with sets of positions, in       *)
(* order: what the proofs about logs of any length say instead of an       *)
(* induction on them.                                                      *)
(***************************************************************************)
EXTENDS ReviewThreads, Positions, Functions, FiniteSetTheorems, SequenceTheorems, TLAPS

-----------------------------------------------------------------------------
(* Ranks. *)

\* Of two positions, the later has the larger rank.
LEMMA RankGrows ==
    ASSUME NEW S \in SUBSET Nat, IsFiniteSet(S), NEW i \in S, NEW k \in S, i < k
    PROVE  Cardinality({j \in S : j <= i}) < Cardinality({j \in S : j <= k})
<1> DEFINE below(n) == {j \in S : j <= n}
<1>1. IsFiniteSet(below(k))
  BY FS_Subset
<1>2. below(i) \in SUBSET below(k)
  <2>1. ASSUME NEW j \in S, j <= i
        PROVE  j <= k
    BY <2>1
  <2> QED
    BY <2>1
<1>3. k \in below(k) /\ k \notin below(i)
  OBVIOUS
<1>4. Cardinality(below(i)) \in Nat /\ Cardinality(below(k)) \in Nat
  BY <1>1, <1>2, FS_Subset, FS_CardinalityType
<1>5. /\ Cardinality(below(i)) <= Cardinality(below(k))
      /\ Cardinality(below(k)) = Cardinality(below(i)) => below(k) = below(i)
  <2> HIDE DEF below
  <2> QED BY <1>1, <1>2, FS_Subset
<1>6. Cardinality(below(i)) # Cardinality(below(k))
  BY <1>3, <1>5
<1> HIDE DEF below
<1>7. Cardinality(below(i)) < Cardinality(below(k))
  BY <1>4, <1>5, <1>6
<1> QED
  BY <1>7 DEF below

\* Every rank up to the number of positions is that of one of them.
LEMMA RanksAreAll ==
    ASSUME NEW S \in SUBSET Nat, IsFiniteSet(S), NEW k \in 1 .. Cardinality(S)
    PROVE  \E i \in S : Cardinality({j \in S : j <= i}) = k
<1> DEFINE below(n) == {j \in S : j <= n}
           n == Cardinality(S)
           rank == [i \in S |-> Cardinality(below(i))]
<1>1. n \in Nat
  BY FS_CardinalityType
<1>2. ASSUME NEW i \in S
      PROVE  Cardinality(below(i)) \in 1 .. n
  <2>1. below(i) \in SUBSET S /\ i \in below(i)
    OBVIOUS
  <2>2. IsFiniteSet(below(i)) /\ Cardinality(below(i)) <= n
    BY <2>1, FS_Subset
  <2>3. Cardinality(below(i)) \in Nat /\ Cardinality(below(i)) # 0
    BY <2>1, <2>2, FS_CardinalityType, FS_EmptySet
  <2> HIDE DEF below, n
  <2> QED
    BY <2>2, <2>3, <1>1
<1>3. rank \in [S -> 1 .. n]
  BY <1>2
<1>4. ASSUME NEW i \in S, NEW j \in S, rank[i] = rank[j]
      PROVE  i = j
  <2>1. Cardinality(below(i)) = Cardinality(below(j))
    BY <1>4
  <2>2. ~(i < j) /\ ~(j < i)
    <3>1. i < j => Cardinality(below(i)) < Cardinality(below(j))
      BY RankGrows
    <3>2. j < i => Cardinality(below(j)) < Cardinality(below(i))
      BY RankGrows
    <3>3. Cardinality(below(i)) \in Nat
      BY <1>2
    <3> HIDE DEF below
    <3> QED
      BY <2>1, <3>1, <3>2, <3>3
  <2> QED
    BY <2>2
<1>5. rank \in Injection(S, 1 .. n)
  BY <1>3, <1>4, Zenon DEF Injection, IsInjective
<1>6. IsFiniteSet(1 .. n) /\ Cardinality(1 .. n) = n
  BY <1>1, FS_Interval
<1>7. rank \in Surjection(S, 1 .. n)
  <2> HIDE DEF rank
  <2> QED BY <1>5, <1>6, FS_Injection
<1>8. \E i \in S : rank[i] = k
  <2> HIDE DEF rank
  <2> QED BY <1>7 DEF Surjection
<1> QED
  BY <1>8

\* The k-th of a set of positions is one of them, and its rank is k.
LEMMA NthIsRanked ==
    ASSUME NEW S \in SUBSET Nat, IsFiniteSet(S), NEW k \in 1 .. Cardinality(S)
    PROVE  Nth(S, k) \in S /\ Cardinality({j \in S : j <= Nth(S, k)}) = k
BY RanksAreAll DEF Nth

\* A later rank is that of a later position.
LEMMA NthGrows ==
    ASSUME NEW S \in SUBSET Nat, IsFiniteSet(S), NEW j \in 1 .. Cardinality(S),
           NEW k \in 1 .. Cardinality(S), j < k
    PROVE  Nth(S, j) < Nth(S, k)
<1> DEFINE below(n) == {l \in S : l <= n}
<1>1. /\ Nth(S, j) \in S /\ Cardinality(below(Nth(S, j))) = j
      /\ Nth(S, k) \in S /\ Cardinality(below(Nth(S, k))) = k
  BY NthIsRanked
<1>2. Nth(S, k) < Nth(S, j) => k < j
  BY <1>1, RankGrows
<1>3. j \in Nat /\ k \in Nat
  BY FS_CardinalityType
<1> HIDE DEF below
<1>4. Nth(S, j) \in Nat /\ Nth(S, k) \in Nat
  BY <1>1
<1> QED
  BY <1>1, <1>2, <1>3, <1>4

\* The k-th positions are all of them.
LEMMA NthIsAny ==
    ASSUME NEW S \in SUBSET Nat, IsFiniteSet(S), NEW i \in S
    PROVE  \E k \in 1 .. Cardinality(S) : Nth(S, k) = i
<1> DEFINE n == Cardinality(S)
           r == Cardinality({j \in S : j <= i})
<1>1. {j \in S : j <= i} \in SUBSET S /\ i \in {j \in S : j <= i} /\ n \in Nat
  BY FS_CardinalityType
<1>2. IsFiniteSet({j \in S : j <= i}) /\ r <= n /\ r \in Nat /\ r # 0
  BY <1>1, FS_Subset, FS_CardinalityType, FS_EmptySet
<1>3. r \in 1 .. n
  BY <1>1, <1>2
<1>4. Nth(S, r) \in S /\ Cardinality({j \in S : j <= Nth(S, r)}) = r
  BY <1>3, NthIsRanked
<1>5. i \in Nat /\ Nth(S, r) \in Nat
  BY <1>4
<1>6. ~(i < Nth(S, r))
  <2>1. SUFFICES ASSUME i < Nth(S, r) PROVE FALSE
    OBVIOUS
  <2>2. r < Cardinality({j \in S : j <= Nth(S, r)})
    BY <1>4, <2>1, RankGrows
  <2> QED
    BY <1>2, <1>4, <2>2
<1>7. ~(Nth(S, r) < i)
  <2>1. SUFFICES ASSUME Nth(S, r) < i PROVE FALSE
    OBVIOUS
  <2>2. Cardinality({j \in S : j <= Nth(S, r)}) < r
    BY <1>4, <2>1, RankGrows
  <2> QED
    BY <1>2, <1>4, <2>2
<1> HIDE DEF r
<1> QED
  BY <1>3, <1>5, <1>6, <1>7

-----------------------------------------------------------------------------
(* The elements picked. *)

\* What is picked of a sequence is a sequence of what is at those positions, and all of it.
LEMMA PickedAreThose ==
    ASSUME NEW E, NEW s \in Seq(E), NEW S \in SUBSET DOMAIN s
    PROVE  /\ Picked(s, S) \in Seq(E)
           /\ \A k \in DOMAIN Picked(s, S) : \E i \in S : Picked(s, S)[k] = s[i]
           /\ \A i \in S : \E k \in DOMAIN Picked(s, S) : Picked(s, S)[k] = s[i]
<1>1. DOMAIN s = 1 .. Len(s) /\ Len(s) \in Nat /\ \A i \in DOMAIN s : s[i] \in E
  OBVIOUS
<1>2. S \in SUBSET Nat /\ IsFiniteSet(S) /\ Cardinality(S) \in Nat
  <2>1. IsFiniteSet(1 .. Len(s)) /\ S \in SUBSET (1 .. Len(s))
    BY <1>1, FS_Interval
  <2>2. IsFiniteSet(S)
    BY <2>1, FS_Subset
  <2> QED
    BY <2>1, <2>2, <1>1, FS_CardinalityType
<1>3. \A k \in 1 .. Cardinality(S) : Nth(S, k) \in S
  BY <1>2, NthIsRanked
<1>4. \A i \in S : \E k \in 1 .. Cardinality(S) : Nth(S, k) = i
  BY <1>2, NthIsAny
<1>5. Picked(s, S) \in [1 .. Cardinality(S) -> E]
  BY <1>1, <1>3 DEF Picked
<1>6. Picked(s, S) \in Seq(E) /\ DOMAIN Picked(s, S) = 1 .. Cardinality(S)
  BY <1>2, <1>5
<1> QED
  BY <1>3, <1>4, <1>6 DEF Picked

\* They are in the order they were in.
LEMMA PickedInOrder ==
    ASSUME NEW E, NEW s \in Seq(E), NEW S \in SUBSET DOMAIN s,
           NEW j \in DOMAIN Picked(s, S), NEW k \in DOMAIN Picked(s, S), j < k
    PROVE  \E a, b \in S : a < b /\ Picked(s, S)[j] = s[a] /\ Picked(s, S)[k] = s[b]
<1>1. S \in SUBSET Nat /\ IsFiniteSet(S)
  <2>1. IsFiniteSet(1 .. Len(s)) /\ S \in SUBSET (1 .. Len(s)) /\ 1 .. Len(s) \in SUBSET Nat
    BY FS_Interval
  <2> QED
    BY <2>1, FS_Subset
<1>2. DOMAIN Picked(s, S) = 1 .. Cardinality(S)
  BY DEF Picked
<1>3. Nth(S, j) \in S /\ Nth(S, k) \in S /\ Nth(S, j) < Nth(S, k)
  BY <1>1, <1>2, NthIsRanked, NthGrows
<1> QED
  BY <1>2, <1>3 DEF Picked

-----------------------------------------------------------------------------
(* The operations on a book. *)

\* What an operation may do to the log.
Stores(b, c) ==
    \/ c.log = b.log
    \/ \E m \in Message : ~Known(b, m.id) /\ c.log = Append(b.log, m)

-----------------------------------------------------------------------------
\* The latest of a finite set of positions, which 0 stands for where it is empty.
LEMMA LatestIsLast ==
    ASSUME NEW S \in SUBSET Nat, IsFiniteSet(S)
    PROVE  /\ Latest(S) \in S \cup {0}
           /\ \A i \in S : i <= Latest(S)
<1> DEFINE T == S \cup {0}
           n == Cardinality(T)
<1>1. T \in SUBSET Nat /\ IsFiniteSet(T)
  BY FS_AddElement
<1>2. n \in Nat /\ n # 0
  BY <1>1, FS_CardinalityType, FS_EmptySet
<1>3. n \in 1 .. n
  BY <1>2
<1>4. PICK i \in T : Cardinality({j \in T : j <= i}) = n
  <2> HIDE DEF T
  <2> QED BY <1>1, <1>3, RanksAreAll
<1>5. {j \in T : j <= i} = T
  <2>1. {j \in T : j <= i} \in SUBSET T
    OBVIOUS
  <2> HIDE DEF T
  <2> QED BY <1>1, <1>4, <2>1, FS_Subset
<1>6. i \in T /\ \A j \in T : i >= j
  BY <1>1, <1>5
<1>7. Latest(S) \in T /\ \A j \in T : Latest(S) >= j
  BY <1>6 DEF Latest, Max
<1> QED
  BY <1>1, <1>7

-----------------------------------------------------------------------------
(* The operations of ReviewThreads on a book. *)

\* ReviewThreads::append makes a book of a book, with the message at its end.
LEMMA AppendFields ==
    ASSUME NEW b \in Book, NEW m \in Message
    PROVE  /\ AppendMessage(b, m) \in Book
           /\ AppendMessage(b, m).log = Append(b.log, m)
           /\ AppendMessage(b, m).answered = b.answered
           /\ AppendMessage(b, m).open =
                [b.open EXCEPT ![m.thread] = IF b.open[m.thread] = "absent" THEN "open"
                                             ELSE Receive(b, m)]
<1> DEFINE opened == IF b.open[m.thread] = "absent" THEN "open" ELSE Receive(b, m)
<1>1. m.thread \in Threads
  BY DEF Message
<1>2. opened \in Resolution
  BY <1>1 DEF Receive, Book, Resolution
<1>3. AppendMessage(b, m) = [log |-> Append(b.log, m),
                             open |-> [b.open EXCEPT ![m.thread] = opened],
                             answered |-> b.answered]
  <2>1. b = [log |-> b.log, open |-> b.open, answered |-> b.answered]
    BY DEF Book
  <2>2. AppendMessage(b, m) = [[b EXCEPT !.log = Append(b.log, m)] EXCEPT
                                 !.open = [b.open EXCEPT ![m.thread] = opened]]
    BY <2>1 DEF AppendMessage
  <2> QED
    BY <2>1, <2>2
<1>4. Append(b.log, m) \in Seq(Message)
  BY DEF Book
<1>5. [b.open EXCEPT ![m.thread] = opened] \in [Threads -> Resolution]
  BY <1>1, <1>2 DEF Book
<1>6. AppendMessage(b, m) \in Book
  <2> HIDE DEF opened
  <2> QED
    BY <1>3, <1>4, <1>5 DEF Book
<1> QED
  BY <1>3, <1>6

LEMMA AppendStores ==
    ASSUME NEW b \in Book, NEW m \in Message
    PROVE  /\ AppendMessage(b, m) \in Book
           /\ AppendMessage(b, m).log = Append(b.log, m)
BY AppendFields

\* ReviewThreads::post stores a message it does not know, and nothing else.
LEMMA PostStores ==
    ASSUME NEW b \in Book, NEW m \in Message
    PROVE  Post(b, m) \in Book /\ Stores(b, Post(b, m))
BY AppendStores DEF Post, Stores

\* ReviewThreads::answer stores the reply as post does.
LEMMA AnswerStores ==
    ASSUME NEW b \in Book, NEW m \in Message, CanAnswer(b, m)
    PROVE  Answer(b, m) \in Book /\ Stores(b, Answer(b, m))
<1> DEFINE through == CHOOSE i \in Comments(b, m.thread) : b.log[i].id = m.in_reply_to
           p == Post(b, m)
<1>1. m.thread \in Threads
  BY DEF Message
<1>2. through \in Nat
  <2>1. through \in Comments(b, m.thread)
    BY DEF CanAnswer
  <2> QED
    BY <2>1 DEF Comments, InThread, Book
<1>3. p \in Book /\ Stores(b, p)
  BY PostStores
<1> HIDE DEF through, p
<1>4. Answer(b, m) = [log |-> p.log, open |-> p.open,
                      answered |-> [p.answered EXCEPT ![m.thread] =
                                      IF @ < through THEN through ELSE @]]
  <2>1. p = [log |-> p.log, open |-> p.open, answered |-> p.answered]
    BY <1>3 DEF Book
  <2>2. Answer(b, m) = [p EXCEPT !.answered = [p.answered EXCEPT ![m.thread] =
                                                 IF @ < through THEN through ELSE @]]
    BY <2>1 DEF Answer, through, p
  <2> QED
    BY <2>1, <2>2
<1>5. [p.answered EXCEPT ![m.thread] = IF @ < through THEN through ELSE @] \in [Threads -> Nat]
  BY <1>1, <1>2, <1>3 DEF Book
<1> QED
  BY <1>3, <1>4, <1>5 DEF Book, Stores

\* ReviewThreads::set_resolution leaves the log alone.
LEMMA ResolutionStores ==
    ASSUME NEW b \in Book, NEW t \in Threads, NEW r \in Resolution
    PROVE  SetResolution(b, t, r) \in Book /\ Stores(b, SetResolution(b, t, r))
BY DEF SetResolution, Book, Stores

-----------------------------------------------------------------------------
(* What an agent took up is what was posted. *)

Proper == {b \in Book : \A t \in Threads : b.answered[t] <= Len(b.log)}

LEMMA EmptyIsProper == EmptyBook \in Proper
<1>1. <<>> \in Seq(Message) /\ Len(<<>>) = 0
  OBVIOUS
<1> QED
  BY <1>1 DEF EmptyBook, Proper, Book, Resolution

LEMMA PostIsProper ==
    ASSUME NEW b \in Proper, NEW m \in Message
    PROVE  Post(b, m) \in Proper
<1>1. b \in Book /\ Post(b, m) \in Book /\ b.log \in Seq(Message)
  BY PostStores DEF Proper, Book
<1>2. Post(b, m).answered = b.answered
  BY DEF Post, AppendMessage
<1>3. Len(b.log) \in Nat /\ Len(b.log) <= Len(Post(b, m).log)
  BY <1>1, AppendStores DEF Post
<1>4. Len(Post(b, m).log) \in Nat
  BY <1>1 DEF Book
<1>5. b.answered \in [Threads -> Nat]
  BY <1>1 DEF Book
<1> QED
  BY <1>1, <1>2, <1>3, <1>4, <1>5 DEF Proper

LEMMA AnswerIsProper ==
    ASSUME NEW b \in Proper, NEW m \in Message, CanAnswer(b, m)
    PROVE  Answer(b, m) \in Proper
<1> DEFINE through == CHOOSE i \in Comments(b, m.thread) : b.log[i].id = m.in_reply_to
           p == Post(b, m)
<1>1. p \in Proper /\ p \in Book /\ b \in Book /\ b.log \in Seq(Message)
  BY PostIsProper DEF Proper, Book
<1>2. Answer(b, m) \in Book
  BY <1>1, AnswerStores
<1>3. through \in 1 .. Len(b.log)
  <2>1. through \in Comments(b, m.thread)
    BY DEF CanAnswer
  <2> QED
    BY <1>1, <2>1 DEF Comments, InThread
<1>4. Len(b.log) \in Nat /\ Len(b.log) <= Len(p.log) /\ Len(p.log) \in Nat
  <2>1. p.log \in Seq(Message)
    BY <1>1 DEF Book
  <2> QED
    BY <1>1, <2>1, AppendStores DEF Post
<1> HIDE DEF through, p
<1>5. /\ Answer(b, m).log = p.log
      /\ Answer(b, m).answered = [p.answered EXCEPT ![m.thread] =
                                      IF @ < through THEN through ELSE @]
  <2>1. p = [log |-> p.log, open |-> p.open, answered |-> p.answered]
    BY <1>1 DEF Book
  <2>2. Answer(b, m) = [p EXCEPT !.answered = [p.answered EXCEPT ![m.thread] =
                                                 IF @ < through THEN through ELSE @]]
    BY <2>1 DEF Answer, through, p
  <2> QED
    BY <2>1, <2>2
<1>6. p.answered \in [Threads -> Nat] /\ \A t \in Threads : p.answered[t] <= Len(p.log)
  BY <1>1 DEF Proper, Book
<1>7. ASSUME NEW t \in Threads
      PROVE  Answer(b, m).answered[t] <= Len(Answer(b, m).log)
  BY <1>3, <1>4, <1>5, <1>6
<1> QED
  BY <1>2, <1>7 DEF Proper

LEMMA ResolutionIsProper ==
    ASSUME NEW b \in Proper, NEW t \in Threads, NEW r \in Resolution
    PROVE  SetResolution(b, t, r) \in Proper
BY ResolutionStores DEF SetResolution, Proper, Book

-----------------------------------------------------------------------------
(* A book, and the one that others made of it. *)

\* s has what b has, and may have more: no message is renumbered, and what was taken up
\* stays so.
Follows(b, s) ==
    /\ Len(b.log) <= Len(s.log)
    /\ \A i \in DOMAIN b.log : s.log[i] = b.log[i]
    /\ \A t \in Threads : b.answered[t] <= s.answered[t]

LEMMA BookTypes ==
    ASSUME NEW b \in Book
    PROVE  /\ b.log \in Seq(Message) /\ Len(b.log) \in Nat
           /\ DOMAIN b.log = 1 .. Len(b.log)
           /\ b.open \in [Threads -> Resolution]
           /\ b.answered \in [Threads -> Nat]
BY DEF Book

LEMMA FollowsItself ==
    ASSUME NEW b \in Book
    PROVE  Follows(b, b)
BY BookTypes DEF Follows

LEMMA FollowsOn ==
    ASSUME NEW a \in Book, NEW b \in Book, NEW c \in Book, Follows(a, b), Follows(b, c)
    PROVE  Follows(a, c)
<1>1. Len(a.log) <= Len(c.log)
  BY BookTypes DEF Follows
<1>2. ASSUME NEW i \in DOMAIN a.log
      PROVE  c.log[i] = a.log[i]
  <2>1. i \in DOMAIN b.log
    BY BookTypes DEF Follows
  <2> QED
    BY <2>1 DEF Follows
<1>3. ASSUME NEW t \in Threads
      PROVE  a.answered[t] <= c.answered[t]
  <2>1. a.answered[t] \in Nat /\ b.answered[t] \in Nat /\ c.answered[t] \in Nat
    BY BookTypes
  <2> QED
    BY <2>1 DEF Follows
<1> QED
  BY <1>1, <1>2, <1>3 DEF Follows

LEMMA PostFollows ==
    ASSUME NEW b \in Book, NEW m \in Message
    PROVE  Follows(b, Post(b, m)) /\ Post(b, m).answered = b.answered
<1>1. Post(b, m).answered = b.answered
  BY DEF Post, AppendMessage
<1>2. Post(b, m).log = b.log \/ Post(b, m).log = Append(b.log, m)
  BY AppendStores DEF Post
<1>3. Len(b.log) <= Len(Post(b, m).log)
      /\ \A i \in DOMAIN b.log : Post(b, m).log[i] = b.log[i]
  BY <1>2, BookTypes
<1> QED
  BY <1>1, <1>3, BookTypes DEF Follows

LEMMA AnswerFollows ==
    ASSUME NEW b \in Book, NEW m \in Message, CanAnswer(b, m)
    PROVE  /\ Follows(b, Answer(b, m))
           /\ Answer(b, m).log = Post(b, m).log
           /\ Answer(b, m).open = Post(b, m).open
<1> DEFINE through == CHOOSE i \in Comments(b, m.thread) : b.log[i].id = m.in_reply_to
           p == Post(b, m)
<1>1. p \in Book /\ Follows(b, p) /\ p.answered = b.answered
  BY PostStores, PostFollows
<1>2. through \in Nat
  <2>1. through \in Comments(b, m.thread)
    BY DEF CanAnswer
  <2> QED
    BY <2>1, BookTypes DEF Comments, InThread
<1> HIDE DEF through, p
<1>3. /\ Answer(b, m).log = p.log /\ Answer(b, m).open = p.open
      /\ Answer(b, m).answered = [p.answered EXCEPT ![m.thread] =
                                      IF @ < through THEN through ELSE @]
  <2>1. p = [log |-> p.log, open |-> p.open, answered |-> p.answered]
    BY <1>1 DEF Book
  <2>2. Answer(b, m) = [p EXCEPT !.answered = [p.answered EXCEPT ![m.thread] =
                                                 IF @ < through THEN through ELSE @]]
    BY <2>1 DEF Answer, through, p
  <2> QED
    BY <2>1, <2>2
<1>4. ASSUME NEW t \in Threads
      PROVE  b.answered[t] <= Answer(b, m).answered[t]
  <2>1. p.answered \in [Threads -> Nat]
    BY <1>1, BookTypes
  <2> QED
    BY <1>1, <1>2, <1>3, <2>1
<1>5. Follows(b, Answer(b, m))
  BY <1>1, <1>3, <1>4 DEF Follows
<1> QED
  BY <1>3, <1>5 DEF p

LEMMA ResolutionFollows ==
    ASSUME NEW b \in Book, NEW t \in Threads, NEW r \in Resolution
    PROVE  Follows(b, SetResolution(b, t, r))
<1>1. SetResolution(b, t, r).log = b.log /\ SetResolution(b, t, r).answered = b.answered
  BY DEF SetResolution
<1> QED
  BY <1>1, BookTypes DEF Follows

-----------------------------------------------------------------------------
(* What waits for an agent. *)

\* ReviewThread::last_comment is the last.
LEMMA LastCommentIsLast ==
    ASSUME NEW b \in Book, NEW t \in Threads
    PROVE  /\ LastComment(b, t) \in Comments(b, t) \cup {0}
           /\ LastComment(b, t) \in 0 .. Len(b.log)
           /\ \A c \in Comments(b, t) : c \in 1 .. Len(b.log) /\ c <= LastComment(b, t)
<1> DEFINE S == Comments(b, t)
<1>1. S \in SUBSET (1 .. Len(b.log)) /\ Len(b.log) \in Nat
  BY BookTypes DEF Comments, InThread
<1> HIDE DEF S
<1>2. IsFiniteSet(1 .. Len(b.log)) /\ 1 .. Len(b.log) \in SUBSET Nat
  BY <1>1, FS_Interval
<1>3. IsFiniteSet(S)
  BY <1>1, <1>2, FS_Subset
<1>4. S \in SUBSET Nat
  BY <1>1, <1>2
<1>5. Latest(S) \in S \cup {0} /\ \A c \in S : c <= Latest(S)
  BY <1>3, <1>4, LatestIsLast
<1>6. LastComment(b, t) = Latest(S)
  BY DEF LastComment, S
<1>7. S \subseteq 0 .. Len(b.log) /\ 0 \in 0 .. Len(b.log)
  BY <1>1
<1>8. LastComment(b, t) \in 0 .. Len(b.log)
  BY <1>5, <1>6, <1>7
<1> QED
  BY <1>1, <1>5, <1>6, <1>8 DEF S

\* A thread that is open waits if one of its comments does.
LEMMA PendingCommentIsPending ==
    ASSUME NEW b \in Book, NEW t \in Threads, NEW tab, NEW r, b.open[t] = "open",
           NEW c \in PendingComments(b, t, tab, r)
    PROVE  PendingFor(b, t, tab, r)
<1>1. c \in Comments(b, t) /\ c > b.answered[t] /\ ~IsAnswered(b, t, c)
  BY DEF PendingComments
<1>2. /\ LastComment(b, t) \in Nat /\ c \in Nat /\ c # 0 /\ c <= LastComment(b, t)
      /\ InThread(b, t) \subseteq Nat
  BY <1>1, LastCommentIsLast, BookTypes DEF InThread
<1>3. ~IsAnswered(b, t, LastComment(b, t))
  <2>1. SUFFICES ASSUME IsAnswered(b, t, LastComment(b, t)) PROVE IsAnswered(b, t, c)
    BY <1>1
  <2>2. PICK j \in InThread(b, t) :
             /\ b.log[j].from = "agent"
             /\ IF b.log[j].in_reply_to = NoMessage
                THEN j > LastComment(b, t)
                ELSE \E k \in InThread(b, t) :
                       b.log[k].id = b.log[j].in_reply_to /\ k >= LastComment(b, t)
    BY <2>1 DEF IsAnswered
  <2>3. IF b.log[j].in_reply_to = NoMessage
        THEN j > c
        ELSE \E k \in InThread(b, t) : b.log[k].id = b.log[j].in_reply_to /\ k >= c
    BY <1>2, <2>2
  <2> QED
    BY <2>2, <2>3 DEF IsAnswered
<1>4. IsWaiting(b, t)
  BY <1>2, <1>3 DEF IsWaiting
<1> QED
  BY <1>1, <1>4 DEF PendingFor, Pending

\* What is prompted for covers every comment that waits, and only comments that exist.
LEMMA SequenceCovers ==
    ASSUME NEW b \in Book, NEW tab, NEW r
    PROVE  /\ PendingSequenceFor(b, tab, r) \in 0 .. Len(b.log)
           /\ \A t \in Threads : PendingFor(b, t, tab, r) =>
                \A c \in Comments(b, t) : c <= PendingSequenceFor(b, tab, r)
<1> DEFINE S == {LastComment(b, t) : t \in {u \in Threads : PendingFor(b, u, tab, r)}}
<1>1. S \in SUBSET (0 .. Len(b.log)) /\ Len(b.log) \in Nat
  BY LastCommentIsLast, BookTypes
<1>2. PendingSequenceFor(b, tab, r) = Latest(S)
  BY DEF PendingSequenceFor
<1>3. \A t \in Threads : PendingFor(b, t, tab, r) => LastComment(b, t) \in S
  OBVIOUS
<1> HIDE DEF S
<1>4. IsFiniteSet(0 .. Len(b.log)) /\ 0 .. Len(b.log) \in SUBSET Nat
  BY <1>1, FS_Interval
<1>5. IsFiniteSet(S)
  BY <1>1, <1>4, FS_Subset
<1>6. S \in SUBSET Nat
  BY <1>1, <1>4
<1>7. Latest(S) \in S \cup {0} /\ \A c \in S : c <= Latest(S)
  BY <1>5, <1>6, LatestIsLast
<1>8. Latest(S) \in 0 .. Len(b.log)
  <2>1. S \cup {0} \subseteq 0 .. Len(b.log)
    BY <1>1
  <2> QED
    BY <1>7, <2>1
<1>9. ASSUME NEW t \in Threads, PendingFor(b, t, tab, r), NEW c \in Comments(b, t)
      PROVE  c <= Latest(S)
  <2>1. LastComment(b, t) \in Nat /\ c \in Nat /\ c <= LastComment(b, t)
    BY LastCommentIsLast
  <2>2. LastComment(b, t) <= Latest(S)
    BY <1>3, <1>7, <1>9
  <2> QED
    BY <1>8, <2>1, <2>2
<1> QED
  BY <1>2, <1>8, <1>9

\* What waits in a later book waited in the earlier one, if it was there.
LEMMA OwedWasOwed ==
    ASSUME NEW b \in Book, NEW s \in Book, Follows(b, s), NEW t \in Threads, NEW tab, NEW r,
           NEW c \in PendingComments(s, t, tab, r), c <= Len(b.log)
    PROVE  c \in PendingComments(b, t, tab, r)
<1>1. c \in Comments(s, t) /\ c > s.answered[t] /\ ~IsAnswered(s, t, c)
      /\ (c <= r[t] \/ s.log[c].from = tab)
  BY DEF PendingComments
<1>2. \A i \in DOMAIN b.log : i \in DOMAIN s.log /\ s.log[i] = b.log[i]
  BY BookTypes DEF Follows
<1>3. c \in DOMAIN b.log
  BY <1>1, BookTypes DEF Comments, InThread
<1>4. c \in Comments(b, t)
  BY <1>1, <1>2, <1>3 DEF Comments, InThread
<1>5. InThread(b, t) \subseteq InThread(s, t)
  BY <1>2 DEF InThread
<1>6. ~IsAnswered(b, t, c)
  <2>1. SUFFICES ASSUME IsAnswered(b, t, c) PROVE IsAnswered(s, t, c)
    BY <1>1
  <2>2. PICK j \in InThread(b, t) :
             /\ b.log[j].from = "agent"
             /\ IF b.log[j].in_reply_to = NoMessage
                THEN j > c
                ELSE \E k \in InThread(b, t) : b.log[k].id = b.log[j].in_reply_to /\ k >= c
    BY <2>1 DEF IsAnswered
  <2>3. \A i \in InThread(b, t) : s.log[i] = b.log[i]
    BY <1>2 DEF InThread
  <2> QED
    BY <1>5, <2>2, <2>3 DEF IsAnswered
<1>7. c > b.answered[t]
  <2>1. b.answered[t] \in Nat /\ s.answered[t] \in Nat /\ c \in Nat
        /\ b.answered[t] <= s.answered[t]
    BY <1>3, BookTypes DEF Follows
  <2> QED
    BY <1>1, <2>1
<1> QED
  BY <1>1, <1>2, <1>3, <1>4, <1>6, <1>7 DEF PendingComments

-----------------------------------------------------------------------------
(* What the messages of a book say of its threads. *)

\* A thread that has a message is there.
ThreadsOpened(b) == \A t \in Threads : b.open[t] = "absent" => InThread(b, t) = {}

\* Message r of thread t is a reply that takes comment c up, by naming it or a later one.
TakesUp(b, t, r, c) ==
    /\ b.log[r].from = "agent"
    /\ \E k \in Comments(b, t) : k >= c /\ b.log[k].id = b.log[r].in_reply_to

\* Every reply names a comment, and what was acknowledged is what replies named.
RepliesNamed(b) ==
    \A t \in Threads :
        /\ \A r \in InThread(b, t) : b.log[r].from = "agent" => TakesUp(b, t, r, 0)
        /\ b.answered[t] = 0 \/ \E r \in InThread(b, t) : TakesUp(b, t, r, b.answered[t])

\* What appending a message does, field by field.
LEMMA PostFields ==
    ASSUME NEW b \in Book, NEW m \in Message
    PROVE  /\ Post(b, m).answered = b.answered
           /\ \A t \in Threads \ {m.thread} : Post(b, m).open[t] = b.open[t]
           /\ Known(b, m.id) => Post(b, m) = b
           /\ ~Known(b, m.id) =>
                /\ Post(b, m).log = Append(b.log, m)
                /\ Post(b, m).open[m.thread] =
                     IF b.open[m.thread] = "absent" THEN "open" ELSE Receive(b, m)
<1>1. m.thread \in Threads
  BY DEF Message
<1>2. b.open \in [Threads -> Resolution]
  BY DEF Book
<1>3. CASE Known(b, m.id)
  BY <1>3 DEF Post
<1>4. CASE ~Known(b, m.id)
  BY <1>1, <1>2, <1>4, AppendFields DEF Post
<1> QED
  BY <1>3, <1>4

\* What answering does: the reply is stored as a post, and a comment is acknowledged.
LEMMA AnswerFields ==
    ASSUME NEW b \in Book, NEW m \in Message, CanAnswer(b, m)
    PROVE  /\ Answer(b, m).log = Post(b, m).log
           /\ Answer(b, m).open = Post(b, m).open
           /\ \A t \in Threads \ {m.thread} : Answer(b, m).answered[t] = b.answered[t]
           /\ \E k \in Comments(b, m.thread) :
                /\ b.log[k].id = m.in_reply_to
                /\ Answer(b, m).answered[m.thread] =
                     IF b.answered[m.thread] < k THEN k ELSE b.answered[m.thread]
<1> DEFINE through == CHOOSE i \in Comments(b, m.thread) : b.log[i].id = m.in_reply_to
           p == Post(b, m)
<1>1. p \in Book /\ p.answered = b.answered
  BY PostStores, PostFields
<1>2. through \in Comments(b, m.thread) /\ b.log[through].id = m.in_reply_to
  BY DEF CanAnswer
<1>3. m.thread \in Threads
  BY DEF Message
<1>4. p = [log |-> p.log, open |-> p.open, answered |-> p.answered]
      /\ p.answered \in [Threads -> Nat]
  BY <1>1 DEF Book
<1>5. Answer(b, m) = [p EXCEPT !.answered[m.thread] = IF @ < through THEN through ELSE @]
  BY DEF Answer
<1> HIDE DEF through, p
<1>6. Answer(b, m) =
        [log |-> p.log, open |-> p.open,
         answered |-> [p.answered EXCEPT ![m.thread] = IF @ < through THEN through ELSE @]]
  BY <1>4, <1>5
<1>7. /\ Answer(b, m).log = p.log /\ Answer(b, m).open = p.open
      /\ \A t \in Threads \ {m.thread} : Answer(b, m).answered[t] = b.answered[t]
      /\ Answer(b, m).answered[m.thread] =
           IF b.answered[m.thread] < through THEN through ELSE b.answered[m.thread]
  BY <1>1, <1>3, <1>4, <1>6
<1> QED
  BY <1>2, <1>7 DEF p
\* A message more at the end of the log.
LEMMA Appended ==
    ASSUME NEW b \in Book, NEW s \in Book, NEW m \in Message, s.log = Append(b.log, m)
    PROVE  /\ DOMAIN s.log = DOMAIN b.log \cup {Len(b.log) + 1}
           /\ s.log[Len(b.log) + 1] = m
           /\ \A i \in DOMAIN b.log : s.log[i] = b.log[i]
           /\ \A t \in Threads :
                /\ InThread(s, t) = InThread(b, t) \cup
                                    (IF m.thread = t THEN {Len(b.log) + 1} ELSE {})
<1> DEFINE n == Len(b.log) + 1
<1>1. /\ b.log \in Seq(Message) /\ Len(b.log) \in Nat
      /\ DOMAIN b.log = 1 .. Len(b.log) /\ DOMAIN s.log = 1 .. Len(s.log)
  BY BookTypes
<1>2. Len(s.log) = n /\ s.log[n] = m /\ \A i \in DOMAIN b.log : s.log[i] = b.log[i]
  BY <1>1
<1>3. DOMAIN s.log = DOMAIN b.log \cup {n} /\ n \notin DOMAIN b.log
  BY <1>1, <1>2
<1> HIDE DEF n
<1>4. \A t \in Threads : InThread(s, t) = InThread(b, t) \cup (IF m.thread = t THEN {n} ELSE {})
  BY <1>2, <1>3 DEF InThread
<1> QED
  BY <1>2, <1>3, <1>4 DEF n

\* A reply adds no comment.
LEMMA RepliedComments ==
    ASSUME NEW b \in Book, NEW s \in Book, NEW m \in Message, s.log = Append(b.log, m),
           m.from = "agent", NEW t \in Threads
    PROVE  Comments(s, t) = Comments(b, t)
<1>1. /\ DOMAIN s.log = DOMAIN b.log \cup {Len(b.log) + 1}
      /\ s.log[Len(b.log) + 1] = m
      /\ \A i \in DOMAIN b.log : s.log[i] = b.log[i]
  BY Appended
<1> QED
  BY <1>1 DEF Comments, InThread

\* What took a comment up goes on to do so.
LEMMA TakenUpStays ==
    ASSUME NEW b \in Book, NEW s \in Book, Follows(b, s), NEW t \in Threads,
           NEW r \in InThread(b, t), NEW c, TakesUp(b, t, r, c)
    PROVE  r \in InThread(s, t) /\ TakesUp(s, t, r, c)
<1>1. \A i \in DOMAIN b.log : i \in DOMAIN s.log /\ s.log[i] = b.log[i]
  BY BookTypes DEF Follows
<1>2. \A i \in InThread(b, t) : i \in InThread(s, t) /\ s.log[i] = b.log[i]
  BY <1>1 DEF InThread
<1>3. \A i \in Comments(b, t) : i \in Comments(s, t) /\ s.log[i] = b.log[i]
  BY <1>2 DEF Comments
<1> QED
  BY <1>2, <1>3 DEF TakesUp

\* A post opens its thread, and names no comment as it is not a reply.
LEMMA PostKeeps ==
    ASSUME NEW b \in Book, NEW m \in Message, ThreadsOpened(b)
    PROVE  /\ ThreadsOpened(Post(b, m))
           /\ m.from # "agent" /\ RepliesNamed(b) => RepliesNamed(Post(b, m))
<1> DEFINE p == Post(b, m)
<1>1. p \in Book /\ Follows(b, p) /\ m.thread \in Threads
  BY PostStores, PostFollows DEF Message
<1>2. CASE Known(b, m.id)
  BY <1>2, PostFields
<1>3. CASE ~Known(b, m.id)
  <2>1. /\ p.log = Append(b.log, m)
        /\ p.open[m.thread] # "absent"
        /\ \A t \in Threads \ {m.thread} : p.open[t] = b.open[t]
        /\ p.answered = b.answered
    BY <1>1, <1>3, PostFields DEF Receive
  <2> HIDE DEF p
  <2>2. ThreadsOpened(p)
    BY <1>1, <2>1, Appended DEF ThreadsOpened
  <2>3. ASSUME m.from # "agent", RepliesNamed(b)
        PROVE  RepliesNamed(p)
    <3>1. ASSUME NEW t \in Threads, NEW r \in InThread(p, t), p.log[r].from = "agent"
          PROVE  TakesUp(p, t, r, 0)
      <4>1. r \in InThread(b, t) /\ b.log[r].from = "agent"
        BY <1>1, <2>1, <2>3, <3>1, Appended DEF InThread
      <4> QED
        BY <1>1, <2>3, <4>1, TakenUpStays DEF RepliesNamed
    <3>2. ASSUME NEW t \in Threads, p.answered[t] # 0
          PROVE  \E r \in InThread(p, t) : TakesUp(p, t, r, p.answered[t])
      <4>1. PICK r \in InThread(b, t) : TakesUp(b, t, r, p.answered[t])
        BY <2>1, <2>3, <3>2 DEF RepliesNamed
      <4> QED
        BY <1>1, <4>1, TakenUpStays
    <3> QED
      BY <3>1, <3>2 DEF RepliesNamed
  <2> QED
    BY <2>2, <2>3 DEF p
<1> QED
  BY <1>2, <1>3
\* An answer opens nothing, adds no comment, and names what it acknowledges.
LEMMA AnswerKeeps ==
    ASSUME NEW b \in Book, NEW m \in Message, CanAnswer(b, m), m.from = "agent",
           Known(b, m.id) => \E i \in DOMAIN b.log : b.log[i] = m,
           ThreadsOpened(b), RepliesNamed(b)
    PROVE  /\ ThreadsOpened(Answer(b, m)) /\ RepliesNamed(Answer(b, m))
           /\ Answer(b, m).open = b.open
           /\ \A t \in Threads : Comments(Answer(b, m), t) = Comments(b, t)
<1> DEFINE p == Post(b, m)
           a == Answer(b, m)
<1>1. p \in Book /\ a \in Book /\ m.thread \in Threads
  BY PostStores, AnswerStores DEF Message
<1>2. a.log = p.log /\ a.open = p.open
  BY AnswerFields
<1>3. Follows(b, a)
  BY AnswerFollows
<1>4. PICK k \in Comments(b, m.thread) :
           /\ b.log[k].id = m.in_reply_to
           /\ a.answered[m.thread] = IF b.answered[m.thread] < k THEN k ELSE b.answered[m.thread]
  BY AnswerFields
<1>5. \A t \in Threads \ {m.thread} : a.answered[t] = b.answered[t]
  BY AnswerFields
<1>6. ThreadsOpened(a)
  BY <1>2, PostKeeps DEF ThreadsOpened, InThread
<1>7. k \in InThread(b, m.thread) /\ k \in DOMAIN b.log /\ k \in Nat
  BY <1>4, BookTypes DEF Comments, InThread
<1>8. p.open = b.open
  <2>1. b.open \in [Threads -> Resolution] /\ p.open \in [Threads -> Resolution]
    BY <1>1 DEF Book
  <2>2. b.open[m.thread] # "absent"
    BY <1>1, <1>7 DEF ThreadsOpened
  <2>3. \A t \in Threads : p.open[t] = b.open[t]
    BY <1>1, <2>2, PostFields DEF Receive
  <2> QED
    BY <2>1, <2>3
<1>9. \A t \in Threads : Comments(a, t) = Comments(b, t)
  <2>1. \A t \in Threads : Comments(p, t) = Comments(b, t)
    <3>1. p = b \/ p.log = Append(b.log, m)
      BY PostFields
    <3> HIDE DEF p, a
    <3>2. CASE p.log = Append(b.log, m)
      BY <1>1, <3>2, RepliedComments
    <3> QED
      BY <3>1, <3>2
  <2> QED
    BY <1>2, <2>1 DEF Comments, InThread
<1>10. \E r \in InThread(a, m.thread) : a.log[r] = m
  <2>1. CASE Known(b, m.id)
    <3>1. PICK i \in DOMAIN b.log : b.log[i] = m
      BY <2>1
    <3>2. p = b
      BY <2>1, PostFields
    <3> QED
      BY <1>2, <3>1, <3>2 DEF InThread
  <2>2. CASE ~Known(b, m.id)
    BY <1>1, <1>2, <2>2, PostFields, Appended DEF InThread
  <2> QED
    BY <2>1, <2>2
<1>11. \A i \in DOMAIN b.log : a.log[i] = b.log[i]
  BY <1>3 DEF Follows
<1>12. \A t \in Threads : \A r \in InThread(a, t) : r \in InThread(b, t) \/ a.log[r] = m
  BY <1>1, <1>2, PostFields, Appended DEF InThread
<1> HIDE DEF p, a
<1>13. ASSUME NEW r \in InThread(a, m.thread), a.log[r] = m, NEW c \in Nat, c <= k
       PROVE  TakesUp(a, m.thread, r, c)
  <2>1. k \in Comments(a, m.thread) /\ k >= c /\ a.log[k].id = m.in_reply_to
    BY <1>1, <1>4, <1>7, <1>9, <1>11, <1>13
  <2> QED
    BY <1>13, <2>1 DEF TakesUp
<1>14. ASSUME NEW t \in Threads, NEW r \in InThread(a, t), a.log[r].from = "agent"
       PROVE  TakesUp(a, t, r, 0)
  <2>1. CASE a.log[r] = m
    <3>1. t = m.thread
      BY <1>14, <2>1 DEF InThread
    <3> QED
      BY <1>7, <1>13, <1>14, <2>1, <3>1
  <2>2. CASE r \in InThread(b, t)
    <3>1. b.log[r].from = "agent"
      BY <1>11, <1>14, <2>2 DEF InThread
    <3> QED
      BY <1>1, <1>3, <2>2, <3>1, TakenUpStays DEF RepliesNamed
  <2> QED
    BY <1>12, <1>14, <2>1, <2>2
<1>15. ASSUME NEW t \in Threads, a.answered[t] # 0
       PROVE  \E r \in InThread(a, t) : TakesUp(a, t, r, a.answered[t])
  <2>1. CASE a.answered[t] = b.answered[t]
    <3>1. PICK r \in InThread(b, t) : TakesUp(b, t, r, a.answered[t])
      BY <1>15, <2>1 DEF RepliesNamed
    <3> QED
      BY <1>1, <1>3, <3>1, TakenUpStays
  <2>2. CASE t = m.thread /\ a.answered[t] = k
    BY <1>7, <1>10, <1>13, <2>2
  <2> QED
    BY <1>4, <1>5, <2>1, <2>2
<1> QED
  BY <1>2, <1>6, <1>8, <1>9, <1>14, <1>15 DEF RepliesNamed, a, p

\* Resolving or reopening a thread leaves its messages alone.
LEMMA ResolutionKeeps ==
    ASSUME NEW b \in Book, NEW t \in Threads, NEW r \in Resolution \ {"absent"}
    PROVE  /\ ThreadsOpened(b) => ThreadsOpened(SetResolution(b, t, r))
           /\ RepliesNamed(b) => RepliesNamed(SetResolution(b, t, r))
           /\ SetResolution(b, t, r).log = b.log
           /\ SetResolution(b, t, r).open = [b.open EXCEPT ![t] = r]
           /\ SetResolution(b, t, r).answered = b.answered
<1> DEFINE s == SetResolution(b, t, r)
<1>1. s.log = b.log /\ s.open = [b.open EXCEPT ![t] = r] /\ s.answered = b.answered
  BY DEF SetResolution, Book
<1>2. b.open \in [Threads -> Resolution]
  BY DEF Book
<1> HIDE DEF s
<1>3. \A u \in Threads : InThread(s, u) = InThread(b, u) /\ Comments(s, u) = Comments(b, u)
  BY <1>1 DEF InThread, Comments
<1>4. ThreadsOpened(b) => ThreadsOpened(s)
  BY <1>1, <1>2, <1>3 DEF ThreadsOpened
<1>5. RepliesNamed(b) => RepliesNamed(s)
  BY <1>1, <1>3 DEF RepliesNamed, TakesUp
<1> QED
  BY <1>1, <1>4, <1>5 DEF s
\* In a book whose replies name comments and where a message is stored once, an open thread
\* waits exactly while no reply takes up some comment of it.
LEMMA WaitsUntilTakenUp ==
    ASSUME NEW b \in Book, RepliesNamed(b), NEW t \in Threads, b.open[t] = "open",
           \A i, j \in DOMAIN b.log : b.log[i].id = b.log[j].id => i = j
    PROVE  Pending(b, t) <=>
             \E c \in Comments(b, t) : ~ \E r \in InThread(b, t) : TakesUp(b, t, r, c)
<1> DEFINE last == LastComment(b, t)
<1>1. /\ InThread(b, t) \subseteq DOMAIN b.log /\ DOMAIN b.log \subseteq Nat \ {0}
      /\ Comments(b, t) \subseteq InThread(b, t)
  BY BookTypes DEF Comments, InThread
<1>2. /\ last \in Comments(b, t) \cup {0}
      /\ \A c \in Comments(b, t) : c <= last
  BY LastCommentIsLast
<1>3. \A i \in DOMAIN b.log : b.log[i].id # NoMessage
  <2> TAKE i \in DOMAIN b.log
  <2>1. b.log[i] \in Message
    BY BookTypes
  <2> QED
    BY <2>1, ThreadsAssumption DEF Message
<1> HIDE DEF last
\* A reply that takes a comment up answers it, and so for the last one.
<1>4. ASSUME NEW c \in Comments(b, t), NEW r \in InThread(b, t), TakesUp(b, t, r, c)
      PROVE  IsAnswered(b, t, c)
  <2>1. PICK k \in Comments(b, t) : k >= c /\ b.log[k].id = b.log[r].in_reply_to
    BY <1>4 DEF TakesUp
  <2>2. b.log[r].in_reply_to # NoMessage
    BY <1>1, <1>3, <2>1
  <2> QED
    BY <1>1, <1>4, <2>1, <2>2 DEF IsAnswered, TakesUp
<1>5. ASSUME NEW c \in Comments(b, t), IsAnswered(b, t, c)
      PROVE  \E r \in InThread(b, t) : TakesUp(b, t, r, c)
  <2>1. PICK r \in InThread(b, t) :
             /\ b.log[r].from = "agent"
             /\ IF b.log[r].in_reply_to = NoMessage
                THEN r > c
                ELSE \E k \in InThread(b, t) : b.log[k].id = b.log[r].in_reply_to /\ k >= c
    BY <1>5 DEF IsAnswered
  <2>2. PICK n \in Comments(b, t) : b.log[n].id = b.log[r].in_reply_to
    BY <2>1 DEF RepliesNamed, TakesUp
  <2>3. b.log[r].in_reply_to # NoMessage
    BY <1>1, <1>3, <2>2
  <2>4. n >= c
    BY <1>1, <2>1, <2>2, <2>3
  <2> QED
    BY <2>1, <2>2, <2>4 DEF TakesUp
<1>6. ASSUME Pending(b, t)
      PROVE  \E c \in Comments(b, t) : ~ \E r \in InThread(b, t) : TakesUp(b, t, r, c)
  <2>1. last \in Comments(b, t) /\ ~IsAnswered(b, t, last)
    BY <1>2, <1>6 DEF Pending, IsWaiting, last
  <2> QED
    BY <1>4, <2>1
<1>7. ASSUME NEW c \in Comments(b, t), ~ \E r \in InThread(b, t) : TakesUp(b, t, r, c)
      PROVE  Pending(b, t)
  <2>1. c \in Nat /\ c # 0 /\ c <= last /\ last \in Comments(b, t) /\ last \in Nat
    BY <1>1, <1>2
  <2>2. \A d \in Nat : d >= c => ~ \E r \in InThread(b, t) : TakesUp(b, t, r, d)
    <3> SUFFICES ASSUME NEW d \in Nat, d >= c,
                        NEW r \in InThread(b, t), TakesUp(b, t, r, d)
                 PROVE  TakesUp(b, t, r, c)
      BY <1>7
    <3>1. PICK k \in Comments(b, t) : k >= d /\ b.log[k].id = b.log[r].in_reply_to
      BY DEF TakesUp
    <3>2. k >= c
      BY <1>1, <2>1, <3>1
    <3> QED
      BY <3>1, <3>2 DEF TakesUp
  <2>3. ~IsAnswered(b, t, last)
    BY <1>5, <2>1, <2>2
  <2>4. c > b.answered[t]
    <3>1. b.answered[t] \in Nat
      BY BookTypes
    <3>2. b.answered[t] = 0 \/ ~(b.answered[t] >= c)
      BY <2>2, <3>1 DEF RepliesNamed
    <3> QED
      BY <2>1, <3>1, <3>2
  <2> QED
    BY <2>1, <2>3, <2>4 DEF Pending, IsWaiting, last
<1> QED
  BY <1>6, <1>7
=============================================================================
