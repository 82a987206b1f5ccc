------------------------ MODULE StateMigrationProofs ------------------------
(***************************************************************************)
(* For any number of threads, messages, workspaces and migrations: a merge *)
(* leaves a book that holds the messages of both, and doing it again       *)
(* changes nothing; no message is lost, and what a migration found in a    *)
(* folder is in a backup before it is merged, at whatever step migrations  *)
(* end; the backups, restored in time order, bring back what was stored;   *)
(* and a merge keeps what waits waiting and what was answered answered,    *)
(* in whichever order folders are merged.                                  *)
(***************************************************************************)
EXTENDS StateMigration, ReviewThreadsProofs

-----------------------------------------------------------------------------
(* The merge of two books. *)

\* What a book lacks of another is a finite set of positions.
LEMMA LackingIsFinite ==
    ASSUME NEW b, NEW o \in Book
    PROVE  /\ Lacking(b, o) \in SUBSET (1 .. Len(o.log))
           /\ Lacking(b, o) \in SUBSET Nat
           /\ IsFiniteSet(Lacking(b, o))
           /\ Cardinality(Lacking(b, o)) \in Nat
<1>1. o.log \in Seq(Message) /\ DOMAIN o.log = 1 .. Len(o.log) /\ Len(o.log) \in Nat
  BY DEF Book
<1>2. Lacking(b, o) \in SUBSET (1 .. Len(o.log))
  BY <1>1 DEF Lacking
<1>3. IsFiniteSet(1 .. Len(o.log))
  BY <1>1, FS_Interval
<1>4. IsFiniteSet(Lacking(b, o)) /\ Cardinality(Lacking(b, o)) \in Nat
  BY <1>2, <1>3, FS_Subset, FS_CardinalityType
<1> QED
  BY <1>1, <1>2, <1>4

\* What arrives is what is lacking, and all of it.
LEMMA ArrivingIsLacking ==
    ASSUME NEW b, NEW o \in Book
    PROVE  /\ Arriving(b, o) \in Seq(Message)
           /\ \A k \in DOMAIN Arriving(b, o) :
                \E i \in Lacking(b, o) : Arriving(b, o)[k] = o.log[i]
           /\ \A i \in Lacking(b, o) :
                \E k \in DOMAIN Arriving(b, o) : Arriving(b, o)[k] = o.log[i]
<1> DEFINE L == Lacking(b, o)
<1>1. L \in SUBSET DOMAIN o.log /\ o.log \in Seq(Message)
  BY DEF Book, Lacking
<1> HIDE DEF L
<1> QED
  BY <1>1, PickedAreThose DEF Arriving, L

\* A position of o is one of a log that holds o's messages, or none.
LEMMA TranslatedIsPosition ==
    ASSUME NEW o \in Book, NEW log \in Seq(Message), NEW t, NEW p,
           Ids(o) \subseteq {log[i].id : i \in DOMAIN log}
    PROVE  Translate(log, o, t, p) \in 0 .. Len(log)
<1> DEFINE covered == {i \in InThread(o, t) : i <= p}
           S == {Position(log, o, i) : i \in covered}
<1>1. Len(log) \in Nat /\ DOMAIN log = 1 .. Len(log)
  OBVIOUS
<1>2. ASSUME NEW i \in covered
      PROVE  Position(log, o, i) \in 1 .. Len(log)
  <2>1. i \in DOMAIN o.log
    BY DEF InThread
  <2>2. \E j \in DOMAIN log : log[j].id = o.log[i].id
    BY <2>1 DEF Ids
  <2> QED
    BY <1>1, <2>2 DEF Position
<1>3. S \in SUBSET (1 .. Len(log))
  BY <1>2
<1>4. Translate(log, o, t, p) = Latest(S)
  BY DEF Translate
<1> HIDE DEF S
<1>5. IsFiniteSet(1 .. Len(log)) /\ 1 .. Len(log) \in SUBSET Nat
  BY <1>1, FS_Interval
<1>6. IsFiniteSet(S) /\ S \in SUBSET Nat
  <2>1. IsFiniteSet(S)
    BY <1>3, <1>5, FS_Subset
  <2>2. S \in SUBSET Nat
    BY <1>3, <1>5
  <2> QED
    BY <2>1, <2>2
<1>7. Latest(S) \in S \cup {0}
  BY <1>6, LatestIsLast
<1>8. S \subseteq 0 .. Len(log) /\ 0 \in 0 .. Len(log)
  BY <1>1, <1>3
<1> QED
  BY <1>4, <1>7, <1>8

\* A merge gives a book of this review, with the messages of both.
THEOREM MergeHoldsBoth ==
    ASSUME NEW b \in Proper, NEW o \in Proper
    PROVE  /\ Merge(b, o) \in Proper
           /\ Ids(Merge(b, o)) = Ids(b) \cup Ids(o)
<1> DEFINE a == Arriving(b, o)
           log == b.log \o a
           m == Merge(b, o)
<1>1. b \in Book /\ o \in Book
  BY DEF Proper
<1>2. /\ b.log \in Seq(Message) /\ DOMAIN b.log = 1 .. Len(b.log) /\ Len(b.log) \in Nat
      /\ o.log \in Seq(Message) /\ DOMAIN o.log = 1 .. Len(o.log) /\ Len(o.log) \in Nat
  BY <1>1 DEF Book
<1>3. /\ a \in Seq(Message) /\ DOMAIN a = 1 .. Len(a) /\ Len(a) \in Nat
      /\ \A k \in DOMAIN a : \E i \in Lacking(b, o) : a[k] = o.log[i]
      /\ \A i \in Lacking(b, o) : \E k \in DOMAIN a : a[k] = o.log[i]
  BY <1>1, ArrivingIsLacking
<1> HIDE DEF a
<1>4. /\ log \in Seq(Message) /\ DOMAIN log = 1 .. (Len(b.log) + Len(a))
      /\ Len(log) = Len(b.log) + Len(a)
      /\ \A i \in DOMAIN b.log : log[i] = b.log[i]
      /\ \A k \in DOMAIN a : log[Len(b.log) + k] = a[k]
  BY <1>2, <1>3, SMTT(30)
<1> HIDE DEF log
<1>5. {log[i].id : i \in DOMAIN log} = Ids(b) \cup Ids(o)
  <2>1. ASSUME NEW i \in DOMAIN log
        PROVE  log[i].id \in Ids(b) \cup Ids(o)
    <3>1. CASE i <= Len(b.log)
      <4>1. i \in DOMAIN b.log
        BY <1>2, <1>3, <1>4, <3>1
      <4> QED
        BY <1>4, <4>1 DEF Ids
    <3>2. CASE ~(i <= Len(b.log))
      <4>1. i - Len(b.log) \in DOMAIN a /\ i = Len(b.log) + (i - Len(b.log))
        BY <1>2, <1>3, <1>4, <3>2
      <4>2. PICK k \in DOMAIN a : log[i] = a[k]
        BY <1>4, <4>1
      <4>3. PICK j \in Lacking(b, o) : a[k] = o.log[j]
        BY <1>3
      <4> QED
        BY <4>2, <4>3 DEF Ids, Lacking
    <3> QED
      BY <3>1, <3>2
  <2>2. ASSUME NEW i \in DOMAIN b.log
        PROVE  b.log[i].id \in {log[j].id : j \in DOMAIN log}
    <3>1. i \in DOMAIN log
      BY <1>2, <1>3, <1>4
    <3> QED
      BY <1>4, <3>1
  <2>3. ASSUME NEW i \in DOMAIN o.log
        PROVE  o.log[i].id \in {log[j].id : j \in DOMAIN log}
    <3>1. CASE i \in Lacking(b, o)
      <4>1. PICK k \in DOMAIN a : a[k] = o.log[i]
        BY <1>3, <3>1
      <4>2. Len(b.log) + k \in DOMAIN log
        BY <1>2, <1>3, <1>4
      <4> QED
        BY <1>4, <4>1, <4>2
    <3>2. CASE i \notin Lacking(b, o)
      <4>1. PICK j \in DOMAIN b.log : b.log[j].id = o.log[i].id
        BY <3>2 DEF Lacking, Known
      <4> QED
        BY <2>2, <4>1
    <3> QED
      BY <3>1, <3>2
  <2> QED
    BY <2>1, <2>2, <2>3 DEF Ids
<1>6. /\ m.log = log
      /\ m.open = [t \in Threads |-> MergedResolution(b, o, t)]
      /\ m.answered = [t \in Threads |->
                         Max({b.answered[t], Translate(log, o, t, o.answered[t])})]
      /\ m = [log |-> m.log, open |-> m.open, answered |-> m.answered]
  BY DEF Merge, a, log
<1>7. ASSUME NEW t \in Threads
      PROVE  MergedResolution(b, o, t) \in Resolution
  BY <1>1 DEF MergedResolution, Book, Resolution
<1>8. ASSUME NEW t \in Threads
      PROVE  m.answered[t] \in 0 .. Len(log)
  <2> DEFINE p == Translate(log, o, t, o.answered[t])
  <2>1. p \in 0 .. Len(log)
    BY <1>1, <1>4, <1>5, TranslatedIsPosition
  <2>2. b.answered[t] \in 0 .. Len(log)
    <3>1. b.answered[t] \in Nat /\ b.answered[t] <= Len(b.log)
      BY <1>1 DEF Proper, Book
    <3> QED
      BY <1>2, <1>3, <1>4, <3>1
  <2>3. m.answered[t] = Max({b.answered[t], p})
    BY <1>6
  <2> HIDE DEF p, m
  <2>4. Max({b.answered[t], p}) \in {b.answered[t], p}
    BY <2>1, <2>2 DEF Max
  <2> QED
    BY <2>1, <2>2, <2>3, <2>4
<1> HIDE DEF m
<1>9. m \in Book
  <2>1. m.open \in [Threads -> Resolution]
    BY <1>6, <1>7
  <2>2. m.answered \in [Threads -> Nat]
    BY <1>6, <1>8
  <2> QED
    BY <1>4, <1>6, <2>1, <2>2 DEF Book
<1>10. m \in Proper
  <2>1. \A t \in Threads : m.answered[t] <= Len(m.log)
    BY <1>6, <1>8
  <2> QED
    BY <1>9, <2>1 DEF Proper
<1>11. Ids(m) = Ids(b) \cup Ids(o)
  BY <1>5, <1>6 DEF Ids
<1> QED
  BY <1>10, <1>11 DEF m

\* A merge that is done again, as after an end between the merge and the move, changes
\* nothing: ReviewThreads::merge promises it for the same document.
THEOREM MergeAgainChangesNothing ==
    ASSUME NEW b \in Proper, NEW o \in Proper
    PROVE  Merge(Merge(b, o), o) = Merge(b, o)
<1> DEFINE m == Merge(b, o)
<1>1. m \in Proper /\ Ids(m) = Ids(b) \cup Ids(o)
  BY MergeHoldsBoth
<1>2. b \in Book /\ o \in Book /\ m \in Book
  BY <1>1 DEF Proper
<1>3. /\ m.open = [t \in Threads |-> MergedResolution(b, o, t)]
      /\ m.answered = [t \in Threads |->
                         Max({b.answered[t], Translate(m.log, o, t, o.answered[t])})]
  BY DEF Merge
<1> HIDE DEF m
<1>4. Lacking(m, o) = {}
  <2>1. ASSUME NEW i \in DOMAIN o.log
        PROVE  Known(m, o.log[i].id)
    <3>1. o.log[i].id \in Ids(m)
      BY <1>1 DEF Ids
    <3> QED
      BY <3>1 DEF Ids, Known
  <2> QED
    BY <2>1 DEF Lacking
<1>5. Arriving(m, o) = <<>>
  <2>1. Cardinality(Lacking(m, o)) = 0
    BY <1>4, FS_EmptySet
  <2>2. Arriving(m, o) \in Seq(Message) /\ DOMAIN Arriving(m, o) = 1 .. 0
    BY <1>2, <2>1, ArrivingIsLacking DEF Arriving, Picked
  <2> QED
    BY <2>2
<1>6. m.log \o Arriving(m, o) = m.log
  BY <1>2, <1>5 DEF Book
<1>7. ASSUME NEW t \in Threads
      PROVE  MergedResolution(m, o, t) = m.open[t]
  <2>1. CASE m.open[t] = "absent"
    <3>1. o.open[t] = "absent"
      BY <1>3, <2>1 DEF MergedResolution
    <3> QED
      BY <2>1, <3>1 DEF MergedResolution
  <2>2. CASE m.open[t] # "absent"
    BY <1>4, <2>2 DEF MergedResolution
  <2> QED
    BY <2>1, <2>2
<1>8. ASSUME NEW t \in Threads
      PROVE  Max({m.answered[t], Translate(m.log, o, t, o.answered[t])}) = m.answered[t]
  <2> DEFINE p == Translate(m.log, o, t, o.answered[t])
             q == b.answered[t]
  <2>1. m.answered[t] = Max({q, p})
    BY <1>3
  <2>2. m.answered[t] \in Nat /\ q \in Nat
    BY <1>2 DEF Book
  <2> HIDE DEF p, q
  <2>3. p \in Nat
    <3>1. Ids(o) \subseteq {m.log[i].id : i \in DOMAIN m.log}
      BY <1>1 DEF Ids
    <3>2. p \in 0 .. Len(m.log)
      BY <1>2, <3>1, TranslatedIsPosition DEF Book, p
    <3> QED
      BY <3>2
  <2>4. Max({q, p}) = IF q >= p THEN q ELSE p
    BY <2>2, <2>3 DEF Max
  <2>5. Max({m.answered[t], p}) = IF m.answered[t] >= p THEN m.answered[t] ELSE p
    BY <2>2, <2>3 DEF Max
  <2> QED
    BY <2>1, <2>2, <2>3, <2>4, <2>5 DEF p
<1>9. m = [log |-> m.log, open |-> m.open, answered |-> m.answered]
  BY <1>2 DEF Book
<1>10. [t \in Threads |-> MergedResolution(m, o, t)] = m.open
  BY <1>2, <1>7 DEF Book
<1>11. [t \in Threads |-> Max({m.answered[t], Translate(m.log, o, t, o.answered[t])})]
         = m.answered
  BY <1>2, <1>8 DEF Book
<1>12. Merge(m, o) = m
  BY <1>6, <1>9, <1>10, <1>11 DEF Merge
<1> QED
  BY <1>12 DEF m

-----------------------------------------------------------------------------
(* The invariant. *)

Foldered == Proper \cup {NoFolder}
Backups == [folders : [Workspaces -> Foldered], shared : Foldered]
Finds == [Workspaces -> Foldered] \cup {<<>>}
Jobs == [step : {"none", "listed", "copied", "merging"}, todo : SUBSET Workspaces,
         at : Workspaces \cup {NoFolder}, found : Finds]

Types ==
    /\ shared \in Proper
    /\ folders \in [Workspaces -> Foldered]
    /\ retired \in [Workspaces -> SUBSET Proper]
    /\ recorded \in BOOLEAN /\ changed \subseteq Workspaces
    /\ backups \in Seq(Backups)
    /\ job \in Jobs
    /\ job.todo \subseteq Present /\ job.at \in job.todo \cup {NoFolder}

\* What moved, and what was merged and not yet moved, is in the shared state.
MovedIsShared ==
    /\ \A w \in Workspaces : \A r \in retired[w] : Ids(r) \subseteq Ids(shared) \cup late
    /\ job.at # NoFolder => Ids(folders[job.at]) \subseteq Ids(shared) \cup late

Inv == Types /\ MovedIsShared

\* The folder a workspace does not have is no book.
LEMMA NoFolderIsNoBook == NoFolder \notin Proper /\ NoFolder \notin Workspaces
  BY MigrationAssumption DEF Proper

\* A workspace has a folder exactly if it has a proper book.
LEMMA PresentIsProper ==
    ASSUME Types, NEW w \in Workspaces
    PROVE  /\ w \in Present <=> folders[w] \in Proper
           /\ w \notin Present <=> folders[w] = NoFolder
BY NoFolderIsNoBook DEF Types, Foldered, Present

\* The reviewers write a proper book and take no message out.
LEMMA WritesAreProper ==
    ASSUME NEW b \in Proper, NEW c \in Proper, Stores(b, c)
    PROVE  Ids(b) \subseteq Ids(c)
<1>1. b.log \in Seq(Message) /\ c.log \in Seq(Message)
  BY DEF Proper, Book
<1>2. CASE c.log = b.log
  BY <1>2 DEF Ids
<1>3. CASE \E m \in Message : ~Known(b, m.id) /\ c.log = Append(b.log, m)
  <2>1. PICK m \in Message : c.log = Append(b.log, m)
    BY <1>3
  <2>2. ASSUME NEW i \in DOMAIN b.log
        PROVE  i \in DOMAIN c.log /\ c.log[i] = b.log[i]
    BY <1>1, <2>1
  <2> QED
    BY <2>2 DEF Ids
<1> QED
  BY <1>2, <1>3 DEF Stores

\* A comment, a reply and a resolution leave a proper book with what it held.
LEMMA CommentedIsProper ==
    ASSUME NEW b \in Proper, NEW id \in MessageIds, NEW t \in Threads
    PROVE  Commented(b, id, t) \in Proper /\ Ids(b) \subseteq Ids(Commented(b, id, t))
<1> DEFINE m == [id |-> id, thread |-> t, from |-> CHOOSE tab \in Tabs : TRUE,
                 in_reply_to |-> NoMessage]
<1>1. m \in Message
  BY MigrationAssumption DEF Message, Authors
<1>2. Commented(b, id, t) = Post(b, m)
  BY DEF Commented
<1> HIDE DEF m
<1>3. b \in Book
  BY DEF Proper
<1>4. Post(b, m) \in Proper /\ Stores(b, Post(b, m))
  BY <1>1, <1>3, PostIsProper, PostStores
<1> QED
  BY <1>2, <1>4, WritesAreProper

LEMMA RepliedIsProper ==
    ASSUME NEW b \in Proper, NEW id \in MessageIds, NEW i \in DOMAIN b.log,
           b.log[i].from # "agent"
    PROVE  Replied(b, id, b.log[i]) \in Proper
           /\ Ids(b) \subseteq Ids(Replied(b, id, b.log[i]))
<1> DEFINE c == b.log[i]
           m == [id |-> id, thread |-> c.thread, from |-> "agent", in_reply_to |-> c.id]
<1>1. b \in Book /\ b.log \in Seq(Message)
  BY DEF Proper, Book
<1>2. c \in Message
  BY <1>1
<1>3. m \in Message
  BY <1>2 DEF Message, Authors
<1>4. CanAnswer(b, m)
  <2>1. i \in Comments(b, m.thread)
    BY DEF Comments, InThread
  <2> QED
    BY <2>1 DEF CanAnswer
<1>5. Replied(b, id, c) = Answer(b, m)
  BY DEF Replied
<1> HIDE DEF m
<1>6. Answer(b, m) \in Proper /\ Stores(b, Answer(b, m))
  BY <1>1, <1>3, <1>4, AnswerIsProper, AnswerStores
<1> QED
  BY <1>5, <1>6, WritesAreProper

LEMMA ResolvedIsProper ==
    ASSUME NEW b \in Proper, NEW t \in Threads, NEW r \in Resolution
    PROVE  SetResolution(b, t, r) \in Proper /\ Ids(b) \subseteq Ids(SetResolution(b, t, r))
<1>1. b \in Book
  BY DEF Proper
<1> QED
  BY <1>1, ResolutionIsProper, ResolutionStores, WritesAreProper

Written(w) == IF folders[w] = NoFolder THEN EmptyBook ELSE folders[w]

\* A reviewer of an earlier build adds to the folder of its workspace.
LEMMA EarlierBuildWrites ==
    ASSUME Types, NEW w \in Workspaces, EarlierBuild(w)
    PROVE  \E c \in Proper :
             /\ folders' = [folders EXCEPT ![w] = c]
             /\ Ids(Written(w)) \subseteq Ids(c)
             /\ changed' = changed \cup {w}
             /\ late' = IF job.at = w THEN late \cup (Ids(c) \ Ids(Written(w))) ELSE late
<1> DEFINE b == Written(w)
           writes(c) == /\ folders' = [folders EXCEPT ![w] = c]
                        /\ changed' = changed \cup {w}
                        /\ late' = IF job.at = w THEN late \cup (Ids(c) \ Ids(b)) ELSE late
<1>1. b \in Proper
  BY PresentIsProper, EmptyIsProper DEF Present, Written
<1>2. \/ \E id \in MessageIds, t \in Threads : writes(Commented(b, id, t))
      \/ \E id \in MessageIds : \E i \in DOMAIN b.log :
           b.log[i].from # "agent" /\ writes(Replied(b, id, b.log[i]))
      \/ \E t \in Threads :
           writes(SetResolution(b, t, IF b.open[t] = "open" THEN "resolved" ELSE "open"))
  BY DEF EarlierBuild, Written
<1>3. SUFFICES \E c \in Proper : Ids(b) \subseteq Ids(c) /\ writes(c)
  OBVIOUS
<1> HIDE DEF b, writes
<1>4. CASE \E id \in MessageIds, t \in Threads : writes(Commented(b, id, t))
  <2>1. PICK id \in MessageIds, t \in Threads : writes(Commented(b, id, t))
    BY <1>4
  <2> QED
    BY <1>1, <2>1, CommentedIsProper
<1>5. CASE \E id \in MessageIds : \E i \in DOMAIN b.log :
             b.log[i].from # "agent" /\ writes(Replied(b, id, b.log[i]))
  <2>1. PICK id \in MessageIds : \E i \in DOMAIN b.log :
             b.log[i].from # "agent" /\ writes(Replied(b, id, b.log[i]))
    BY <1>5
  <2>2. PICK i \in DOMAIN b.log : b.log[i].from # "agent" /\ writes(Replied(b, id, b.log[i]))
    BY <2>1
  <2> QED
    BY <1>1, <2>2, RepliedIsProper
<1>6. CASE \E t \in Threads :
             writes(SetResolution(b, t, IF b.open[t] = "open" THEN "resolved" ELSE "open"))
  <2>1. PICK t \in Threads :
             writes(SetResolution(b, t, IF b.open[t] = "open" THEN "resolved" ELSE "open"))
    BY <1>6
  <2>2. (IF b.open[t] = "open" THEN "resolved" ELSE "open") \in Resolution
    BY DEF Resolution
  <2> QED
    BY <1>1, <2>1, <2>2, ResolvedIsProper
<1> QED
  BY <1>2, <1>4, <1>5, <1>6

\* A reviewer of this build adds to the shared book.
LEMMA ThisBuildWrites ==
    ASSUME Types, ThisBuild
    PROVE  shared' \in Proper /\ Ids(shared) \subseteq Ids(shared')
<1>1. shared \in Proper
  BY DEF Types
<1>2. CASE \E id \in MessageIds, t \in Threads : shared' = Commented(shared, id, t)
  BY <1>1, <1>2, CommentedIsProper
<1>3. CASE \E id \in MessageIds : \E i \in DOMAIN shared.log :
             shared.log[i].from # "agent" /\ shared' = Replied(shared, id, shared.log[i])
  BY <1>1, <1>3, RepliedIsProper
<1>4. CASE \E t \in Threads :
             shared' = SetResolution(shared, t,
                          IF shared.open[t] = "open" THEN "resolved" ELSE "open")
  <2>1. PICK t \in Threads :
             shared' = SetResolution(shared, t,
                          IF shared.open[t] = "open" THEN "resolved" ELSE "open")
    BY <1>4
  <2>2. (IF shared.open[t] = "open" THEN "resolved" ELSE "open") \in Resolution
    BY DEF Resolution
  <2> QED
    BY <1>1, <2>1, <2>2, ResolvedIsProper
<1> QED
  BY <1>2, <1>3, <1>4 DEF ThisBuild

LEMMA NoJobIsJob == NoJob \in Jobs
<1>1. <<>> \in Finds
  BY DEF Finds
<1> QED
  BY <1>1 DEF NoJob, Jobs

LEMMA InitInv == Init => Inv
<1> SUFFICES ASSUME Init PROVE Inv
  OBVIOUS
<1> USE DEF Init
<1>1. Present = {}
  BY DEF Present
<1>2. job = [step |-> "none", todo |-> {}, at |-> NoFolder, found |-> <<>>]
  BY DEF NoJob
<1>3. Types
  <2>1. shared \in Proper /\ recorded \in BOOLEAN /\ changed \subseteq Workspaces
    BY EmptyIsProper
  <2>2. /\ folders \in [Workspaces -> Foldered]
        /\ retired \in [Workspaces -> SUBSET Proper]
    BY DEF Foldered
  <2>3. backups \in Seq(Backups)
    OBVIOUS
  <2>4. job \in Jobs
    BY <1>2, NoJobIsJob DEF NoJob
  <2>5. job.todo \subseteq Present /\ job.at \in job.todo \cup {NoFolder}
    BY <1>2
  <2> QED
    BY <2>1, <2>2, <2>3, <2>4, <2>5 DEF Types
<1>4. MovedIsShared
  BY <1>2 DEF MovedIsShared
<1> QED
  BY <1>3, <1>4 DEF Inv

\* A record of job with some fields changed is a job.
LEMMA JobFields ==
    ASSUME NEW j \in Jobs, NEW step \in {"none", "listed", "copied", "merging"},
           NEW todo \in SUBSET Workspaces, NEW at \in Workspaces \cup {NoFolder}
    PROVE  /\ [j EXCEPT !.step = step] \in Jobs
           /\ [j EXCEPT !.at = at] \in Jobs
           /\ [j EXCEPT !.todo = todo, !.at = at] \in Jobs
           /\ [j EXCEPT !.todo = todo, !.at = at].todo = todo
           /\ [j EXCEPT !.todo = todo, !.at = at].at = at
           /\ [j EXCEPT !.todo = todo, !.at = at].found = j.found
           /\ [j EXCEPT !.todo = todo, !.at = at].step = j.step
BY DEF Jobs

\* No step of a reviewer or a migration breaks Inv.
LEMMA StepInv ==
    ASSUME Inv, [Next]_vars
    PROVE  Inv'
<1> USE DEF Inv
<1>1. CASE ThisBuild
  <2>1. shared' \in Proper /\ Ids(shared) \subseteq Ids(shared')
    BY <1>1, ThisBuildWrites
  <2>2. UNCHANGED <<folders, retired, recorded, changed, backups, job, late>>
    BY <1>1 DEF ThisBuild
  <2>3. Types'
    BY <2>1, <2>2 DEF Types, Present
  <2>4. MovedIsShared'
    BY <2>1, <2>2 DEF MovedIsShared
  <2> QED
    BY <2>3, <2>4
<1>2. CASE \E w \in Workspaces : EarlierBuild(w)
  <2>1. PICK w \in Workspaces : EarlierBuild(w)
    BY <1>2
  <2>2. PICK c \in Proper :
             /\ folders' = [folders EXCEPT ![w] = c]
             /\ Ids(Written(w)) \subseteq Ids(c)
             /\ changed' = changed \cup {w}
             /\ late' = IF job.at = w THEN late \cup (Ids(c) \ Ids(Written(w))) ELSE late
    BY <2>1, EarlierBuildWrites
  <2>3. UNCHANGED <<shared, retired, recorded, backups, job>>
    BY <2>1 DEF EarlierBuild
  <2>4. folders' \in [Workspaces -> Foldered] /\ Present \subseteq Present'
    BY <2>2, NoFolderIsNoBook DEF Types, Foldered, Present
  <2>5. Types'
    BY <2>2, <2>3, <2>4 DEF Types
  <2>6. MovedIsShared'
    <3>1. late \subseteq late'
      BY <2>2
    <3>2. CASE job.at = w
      <4>1. folders[w] # NoFolder /\ Written(w) = folders[w]
        BY <3>2, NoFolderIsNoBook DEF Types, Present, Written
      <4>2. folders'[w] = c /\ late' = late \cup (Ids(c) \ Ids(folders[w]))
        BY <2>2, <3>2, <4>1 DEF Types
      <4> QED
        BY <2>3, <3>1, <3>2, <4>2, NoFolderIsNoBook DEF MovedIsShared
    <3>3. CASE job.at # w
      <4>1. job.at # NoFolder => folders'[job.at] = folders[job.at]
        BY <2>2, <3>3 DEF Types
      <4> QED
        BY <2>3, <3>1, <4>1 DEF MovedIsShared
    <3> QED
      BY <3>2, <3>3
  <2> QED
    BY <2>5, <2>6
<1>3. CASE List
  <2>1. /\ job' = [step |-> "listed", todo |-> Present, at |-> NoFolder, found |-> folders]
        /\ changed' = IF recorded THEN changed ELSE {}
        /\ UNCHANGED <<shared, folders, retired, recorded, backups, late>>
    BY <1>3 DEF List
  <2>2. job' \in Jobs
    <3>1. folders \in Finds /\ Present \in SUBSET Workspaces
      BY DEF Types, Finds, Present
    <3> QED
      BY <2>1, <3>1 DEF Jobs
  <2>3. Types'
    BY <2>1, <2>2 DEF Types, Present
  <2>4. MovedIsShared'
    BY <2>1 DEF MovedIsShared
  <2> QED
    BY <2>3, <2>4
<1>4. CASE CopyAll \/ RecordBackup \/ CopyChanged
  <2>1. \A copied : \A book \in Foldered : BackupOf(copied, book) \in Backups
    BY DEF BackupOf, Backups, Types, Foldered
  <2>2. NoFolder \in Foldered /\ shared \in Foldered
    BY DEF Types, Foldered
  <2>3. /\ recorded' \in BOOLEAN /\ backups' \in Seq(Backups)
        /\ UNCHANGED <<shared, folders, retired, changed, late>>
        /\ job' = [job EXCEPT !.step = "copied"] \/ job' = [job EXCEPT !.step = "merging"]
    <3>1. CASE CopyAll
      BY <2>1, <2>2, <3>1 DEF CopyAll, Types
    <3>2. CASE RecordBackup
      BY <3>2 DEF RecordBackup, Types
    <3>3. CASE CopyChanged
      BY <2>1, <2>2, <3>3, SMTT(30) DEF CopyChanged, Types
    <3> QED
      BY <1>4, <3>1, <3>2, <3>3
  <2>4. job' \in Jobs /\ job'.todo = job.todo /\ job'.at = job.at
    BY <2>3 DEF Types, Jobs
  <2>5. Types'
    BY <2>3, <2>4 DEF Types, Present
  <2>6. MovedIsShared'
    BY <2>3, <2>4 DEF MovedIsShared
  <2> QED
    BY <2>5, <2>6
<1>5. CASE \E w \in Workspaces : MergeThreads(w)
  <2>1. PICK w \in Workspaces : MergeThreads(w)
    BY <1>5
  <2>2. /\ shared' = Merge(shared, folders[w]) /\ w \in job.todo
        /\ job' = [job EXCEPT !.at = w]
        /\ UNCHANGED <<folders, retired, recorded, changed, backups, late>>
    BY <2>1 DEF MergeThreads
  <2>3. folders[w] \in Proper
    BY <2>2, PresentIsProper DEF Types
  <2>4. shared' \in Proper /\ Ids(shared') = Ids(shared) \cup Ids(folders[w])
    BY <2>2, <2>3, MergeHoldsBoth DEF Types
  <2>5. job' \in Jobs /\ job'.todo = job.todo /\ job'.at = w
    BY <2>2 DEF Types, Jobs
  <2>6. Types'
    BY <2>2, <2>4, <2>5 DEF Types, Present
  <2>7. MovedIsShared'
    BY <2>2, <2>4, <2>5 DEF MovedIsShared
  <2> QED
    BY <2>6, <2>7
<1>6. CASE Retire
  <2> DEFINE w == job.at
  <2>1. /\ w # NoFolder
        /\ retired' = [retired EXCEPT ![w] = @ \cup {folders[w]}]
        /\ folders' = [folders EXCEPT ![w] = NoFolder]
        /\ changed' = changed \ {w}
        /\ job' = Moved
        /\ UNCHANGED <<shared, recorded, backups, late>>
    BY <1>6 DEF Retire
  <2>2. w \in job.todo /\ w \in Workspaces /\ folders[w] \in Proper
    BY <2>1, PresentIsProper DEF Types, Present
  <2>3. /\ job' \in Jobs /\ job'.at = NoFolder
        /\ job'.todo \subseteq job.todo \ {w}
    <3>1. CASE job.todo = {w}
      BY <2>1, <3>1, NoJobIsJob DEF Moved, NoJob
    <3>2. CASE job.todo # {w}
      <4>1. job' = [job EXCEPT !.todo = job.todo \ {w}, !.at = NoFolder]
        BY <2>1, <3>2 DEF Moved
      <4> QED
        BY <4>1, JobFields DEF Types, Jobs
    <3> QED
      BY <3>1, <3>2
  <2>4. /\ retired' \in [Workspaces -> SUBSET Proper]
        /\ folders' \in [Workspaces -> Foldered]
    BY <2>1, <2>2 DEF Types, Foldered
  <2>5. Present' = Present \ {w}
    BY <2>1, <2>2 DEF Types, Present
  <2>6. Types'
    BY <2>1, <2>3, <2>4, <2>5 DEF Types
  <2>7. MovedIsShared'
    BY <2>1, <2>2, <2>3 DEF MovedIsShared, Types
  <2> QED
    BY <2>6, <2>7
<1>7. CASE Stops
  <2>1. job' = NoJob /\ UNCHANGED <<shared, folders, retired, recorded, changed, backups, late>>
    BY <1>7 DEF Stops, disk
  <2>2. job' \in Jobs /\ job'.todo = {} /\ job'.at = NoFolder
    BY <2>1, NoJobIsJob DEF NoJob
  <2>3. Types'
    BY <2>1, <2>2 DEF Types
  <2>4. MovedIsShared'
    BY <2>1, <2>2 DEF MovedIsShared
  <2> QED
    BY <2>3, <2>4
<1>8. CASE UNCHANGED vars
  BY <1>8 DEF vars, disk, Types, MovedIsShared, Present
<1> QED
  BY <1>1, <1>2, <1>3, <1>4, <1>5, <1>6, <1>7, <1>8 DEF Next, Migrate

-----------------------------------------------------------------------------
\* The invariant of the migrations holds in every state.
THEOREM MigrationIsInvariant == Spec => []Inv
<1>1. Inv /\ [Next]_vars => Inv'
  BY StepInv
<1> QED
  BY InitInv, <1>1, PTL DEF Spec

\* Types, and that a migration moves what it merged.
THEOREM MigrationTypes == Spec => []TypeOK
<1>1. Inv => TypeOK
  <2> SUFFICES ASSUME Inv PROVE TypeOK
    OBVIOUS
  <2>1. ASSUME NEW b \in Proper
        PROVE  Folder(b)
    BY DEF Folder, Proper, Book
  <2>2. shared # NoFolder /\ Folder(shared)
    BY <2>1, NoFolderIsNoBook DEF Inv, Types
  <2>3. \A w \in Workspaces : Folder(folders[w]) /\ \A b \in retired[w] : Folder(b)
    <3> SUFFICES ASSUME NEW w \in Workspaces
                 PROVE  Folder(folders[w]) /\ \A b \in retired[w] : Folder(b)
      OBVIOUS
    <3>1. folders[w] = NoFolder => Folder(folders[w])
      BY DEF Folder
    <3> QED
      BY <2>1, <3>1 DEF Inv, Types, Foldered
  <2>4. job.step \in {"none", "listed", "copied", "merging"}
    BY DEF Inv, Types, Jobs
  <2> QED
    BY <2>2, <2>3, <2>4 DEF TypeOK, Inv, Types
<1> QED
  BY <1>1, MigrationIsInvariant, PTL

\* Whatever step a migration ends at, no message is lost but what an earlier build stored
\* in a folder between its merge and its move.
THEOREM NoMessageIsLost == Spec => []NothingLost
<1>1. Inv => NothingLost
  <2> SUFFICES ASSUME Inv, NEW id \in Everything \ late
               PROVE  id \in Ids(shared) \cup UNION {Ids(folders[w]) : w \in Present}
    BY DEF NothingLost
  <2>1. PICK b \in {shared} \cup {folders[w] : w \in Present}
                    \cup UNION {retired[w] : w \in Workspaces} : id \in Ids(b)
    BY DEF Everything
  <2>2. CASE b = shared \/ b \in {folders[w] : w \in Present}
    BY <2>1, <2>2
  <2>3. CASE b \in UNION {retired[w] : w \in Workspaces}
    BY <2>1, <2>3 DEF Inv, MovedIsShared
  <2> QED
    BY <2>1, <2>2, <2>3
<1> QED
  BY <1>1, MigrationIsInvariant, PTL

-----------------------------------------------------------------------------
(* The backups. *)

\* What the complete backups hold of a folder.
BackedOf(bs, w) ==
    UNION {Ids(bs[i].folders[w]) : i \in {k \in DOMAIN bs : bs[k].folders[w] # NoFolder}}

Unchanged == Present \ changed

\* Once a backup of every folder is on record, a folder that did not change since it
\* started is in a backup, as it is; until then, in the one that a migration just took.
BackupInv ==
    /\ job.step # "none" =>
         \A w \in job.todo : Ids(job.found[w]) \subseteq Ids(folders[w])
    /\ recorded \/ job.step = "copied" =>
         \A w \in Unchanged : Ids(folders[w]) \subseteq BackedOf(backups, w)
    /\ job.step = "listed" /\ ~recorded => Unchanged \subseteq job.todo
    /\ job.step \in {"copied", "merging"} =>
         \A w \in job.todo : Ids(job.found[w]) \subseteq BackedOf(backups, w)

\* Another backup takes nothing from the earlier ones, and adds the folders it copied.
LEMMA BackupAdds ==
    ASSUME Types, NEW copied \in SUBSET Present, NEW book \in Foldered,
           NEW bs, bs = Append(backups, BackupOf(copied, book))
    PROVE  /\ \A w \in Workspaces : BackedOf(backups, w) \subseteq BackedOf(bs, w)
           /\ \A w \in copied : Ids(folders[w]) \subseteq BackedOf(bs, w)
<1> DEFINE e == BackupOf(copied, book)
           n == Len(backups) + 1
<1>1. e \in Backups
  BY DEF BackupOf, Backups, Types, Foldered
<1>2. \A w \in copied : w \in Workspaces /\ e.folders[w] = folders[w]
                           /\ folders[w] # NoFolder
  BY DEF BackupOf, Present
<1> HIDE DEF e
<1>3. bs = Append(backups, e) /\ backups \in Seq(Backups)
  BY DEF e, Types
<1>4. /\ DOMAIN bs = 1 .. n /\ bs[n] = e /\ n \in 1 .. n
      /\ \A i \in DOMAIN backups : i \in DOMAIN bs /\ bs[i] = backups[i]
  BY <1>1, <1>3
<1> HIDE DEF n
<1>5. ASSUME NEW w \in Workspaces
      PROVE  BackedOf(backups, w) \subseteq BackedOf(bs, w)
  BY <1>4 DEF BackedOf
<1>6. ASSUME NEW w \in copied
      PROVE  Ids(folders[w]) \subseteq BackedOf(bs, w)
  <2>1. n \in {k \in DOMAIN bs : bs[k].folders[w] # NoFolder}
    BY <1>2, <1>4
  <2>2. Ids(bs[n].folders[w]) = Ids(folders[w])
    BY <1>2, <1>4
  <2> QED
    BY <2>1, <2>2 DEF BackedOf
<1> QED
  BY <1>5, <1>6

\* No step of a reviewer or a migration breaks BackupInv.
LEMMA StepBackupInv ==
    ASSUME Inv, BackupInv, [Next]_vars
    PROVE  BackupInv'
<1>1. Types /\ job \in Jobs /\ job.todo \subseteq Present
  BY DEF Inv, Types
<1>2. CASE ThisBuild \/ UNCHANGED vars
  <2>1. UNCHANGED <<folders, recorded, changed, backups, job>>
    BY <1>2 DEF ThisBuild, vars, disk
  <2> QED
    BY <2>1 DEF BackupInv, Unchanged, Present, BackedOf
<1>3. CASE \E w \in Workspaces : EarlierBuild(w)
  <2>1. PICK w \in Workspaces : EarlierBuild(w)
    BY <1>3
  <2>2. PICK c \in Proper :
             /\ folders' = [folders EXCEPT ![w] = c]
             /\ Ids(Written(w)) \subseteq Ids(c)
             /\ changed' = changed \cup {w}
    BY <1>1, <2>1, EarlierBuildWrites
  <2>3. UNCHANGED <<recorded, backups, job>>
    BY <2>1 DEF EarlierBuild
  <2>4. \A v \in Workspaces : v # w => folders'[v] = folders[v]
    BY <1>1, <2>2 DEF Types
  <2>5. Unchanged' \subseteq Unchanged /\ w \notin Unchanged'
    BY <2>2, <2>4 DEF Unchanged, Present
  <2>6. ASSUME job.step # "none", NEW v \in job.todo
        PROVE  Ids(job.found[v]) \subseteq Ids(folders'[v])
    <3>1. v \in Workspaces /\ folders[v] # NoFolder
      BY <1>1 DEF Present
    <3>2. CASE v = w
      <4>1. Written(w) = folders[w] /\ folders'[w] = c
        BY <1>1, <2>2, <3>1, <3>2 DEF Written, Types
      <4> QED
        BY <2>2, <2>6, <3>2, <4>1 DEF BackupInv
    <3>3. CASE v # w
      BY <2>4, <2>6, <3>1, <3>3 DEF BackupInv
    <3> QED
      BY <3>2, <3>3
  <2>7. ASSUME recorded \/ job.step = "copied", NEW v \in Unchanged'
        PROVE  Ids(folders'[v]) \subseteq BackedOf(backups, v)
    <3>1. v \in Unchanged /\ v \in Workspaces /\ v # w
      BY <2>5 DEF Unchanged, Present
    <3> QED
      BY <2>4, <2>7, <3>1 DEF BackupInv
  <2>8. job.step = "listed" /\ ~recorded => Unchanged' \subseteq job.todo
    BY <2>5 DEF BackupInv
  <2> QED
    BY <2>3, <2>6, <2>7, <2>8 DEF BackupInv, BackedOf
<1>4. CASE List
  <2>1. /\ job' = [step |-> "listed", todo |-> Present, at |-> NoFolder, found |-> folders]
        /\ changed' = IF recorded THEN changed ELSE {}
        /\ UNCHANGED <<folders, recorded, backups>>
    BY <1>4 DEF List
  <2>2. Unchanged' \subseteq Present
    BY <2>1 DEF Unchanged, Present
  <2>3. recorded => Unchanged' = Unchanged
    BY <2>1 DEF Unchanged, Present
  <2> QED
    BY <2>1, <2>2, <2>3 DEF BackupInv, BackedOf
<1>5. CASE CopyAll
  <2>1. /\ job.step = "listed" /\ ~recorded
        /\ backups' = Append(backups, BackupOf(job.todo, NoFolder))
        /\ job' = [job EXCEPT !.step = "copied"]
        /\ UNCHANGED <<folders, recorded, changed>>
    BY <1>5 DEF CopyAll
  <2>2. job'.step = "copied" /\ job'.todo = job.todo /\ job'.found = job.found
    BY <1>1, <2>1 DEF Jobs
  <2>3. \A w \in job.todo : Ids(folders[w]) \subseteq BackedOf(backups', w)
    <3> DEFINE copied == job.todo
    <3>1. NoFolder \in Foldered /\ copied \in SUBSET Present
      BY <1>1 DEF Foldered
    <3>2. backups' = Append(backups, BackupOf(copied, NoFolder))
      BY <2>1
    <3> HIDE DEF copied
    <3>3. \A w \in copied : Ids(folders[w]) \subseteq BackedOf(backups', w)
      BY <1>1, <3>1, <3>2, BackupAdds
    <3> QED
      BY <3>3 DEF copied
  <2>4. Unchanged' = Unchanged /\ Unchanged \subseteq job.todo
    BY <2>1 DEF Unchanged, Present, BackupInv
  <2>5. \A w \in job.todo : Ids(job.found[w]) \subseteq Ids(folders[w])
    BY <2>1 DEF BackupInv
  <2> QED
    BY <2>1, <2>2, <2>3, <2>4, <2>5 DEF BackupInv
<1>6. CASE RecordBackup
  <2>1. /\ job.step = "copied" /\ recorded' = TRUE
        /\ job' = [job EXCEPT !.step = "merging"]
        /\ UNCHANGED <<folders, changed, backups>>
    BY <1>6 DEF RecordBackup
  <2>2. job'.step = "merging" /\ job'.todo = job.todo /\ job'.found = job.found
    BY <1>1, <2>1 DEF Jobs
  <2>3. Unchanged' = Unchanged
    BY <2>1 DEF Unchanged, Present
  <2>4. /\ \A v \in job.todo : Ids(job.found[v]) \subseteq Ids(folders[v])
        /\ \A v \in job.todo : Ids(job.found[v]) \subseteq BackedOf(backups, v)
        /\ \A v \in Unchanged : Ids(folders[v]) \subseteq BackedOf(backups, v)
    BY <2>1 DEF BackupInv
  <2> QED
    BY <2>1, <2>2, <2>3, <2>4 DEF BackupInv
<1>7. CASE CopyChanged
  <2> DEFINE copied == changed \cap job.todo
  <2>1. /\ job.step = "listed" /\ recorded
        /\ job' = [job EXCEPT !.step = "merging"]
        /\ \/ backups' = backups /\ copied = {}
           \/ backups' = Append(backups, BackupOf(copied, shared))
        /\ UNCHANGED <<folders, recorded, changed>>
    BY <1>7 DEF CopyChanged
  <2>2. job'.step = "merging" /\ job'.todo = job.todo /\ job'.found = job.found
    BY <1>1, <2>1 DEF Jobs
  <2>3. Unchanged' = Unchanged
    BY <2>1 DEF Unchanged, Present
  <2>4. /\ \A w \in Workspaces : BackedOf(backups, w) \subseteq BackedOf(backups', w)
        /\ \A w \in copied : Ids(folders[w]) \subseteq BackedOf(backups', w)
    <3>1. CASE backups' = backups /\ copied = {}
      BY <3>1
    <3>2. CASE backups' = Append(backups, BackupOf(copied, shared))
      <4>1. copied \in SUBSET Present /\ shared \in Foldered
        BY <1>1 DEF Types, Foldered
      <4> HIDE DEF copied
      <4> QED
        BY <1>1, <3>2, <4>1, BackupAdds
    <3> QED
      BY <2>1, <3>1, <3>2
  <2>5. \A w \in Unchanged : w \in Workspaces /\ Ids(folders[w]) \subseteq BackedOf(backups, w)
    BY <2>1 DEF BackupInv, Unchanged, Present
  <2>6. \A w \in job.todo : w \in copied \/ w \in Unchanged
    BY <1>1 DEF Unchanged
  <2>7. \A w \in job.todo : Ids(job.found[w]) \subseteq Ids(folders[w])
    BY <2>1 DEF BackupInv
  <2> HIDE DEF copied
  <2>8. \A w \in Unchanged : Ids(folders[w]) \subseteq BackedOf(backups', w)
    BY <2>4, <2>5
  <2>9. \A w \in job.todo : Ids(job.found[w]) \subseteq BackedOf(backups', w)
    BY <2>4, <2>6, <2>7, <2>8
  <2> QED
    BY <2>1, <2>2, <2>3, <2>7, <2>8, <2>9 DEF BackupInv
<1>8. CASE \E w \in Workspaces : MergeThreads(w)
  <2>1. PICK w \in Workspaces : MergeThreads(w)
    BY <1>8
  <2>2. /\ job.step = "merging" /\ job' = [job EXCEPT !.at = w]
        /\ UNCHANGED <<folders, recorded, changed, backups>>
    BY <2>1 DEF MergeThreads
  <2>3. job'.step = job.step /\ job'.todo = job.todo /\ job'.found = job.found
    BY <1>1, <2>2 DEF Jobs
  <2> QED
    <3>1. Unchanged' = Unchanged
      BY <2>2 DEF Unchanged, Present
    <3>2. /\ \A v \in job.todo : Ids(job.found[v]) \subseteq Ids(folders[v])
          /\ \A v \in job.todo : Ids(job.found[v]) \subseteq BackedOf(backups, v)
      BY <2>2 DEF BackupInv
    <3>3. recorded => \A v \in Unchanged : Ids(folders[v]) \subseteq BackedOf(backups, v)
      BY DEF BackupInv
    <3> QED
      BY <2>2, <2>3, <3>1, <3>2, <3>3 DEF BackupInv
<1>9. CASE Retire
  <2> DEFINE w == job.at
  <2>1. /\ w # NoFolder
        /\ folders' = [folders EXCEPT ![w] = NoFolder]
        /\ changed' = changed \ {w}
        /\ job' = Moved
        /\ UNCHANGED <<recorded, backups>>
    BY <1>9 DEF Retire
  <2>2. w \in job.todo /\ w \in Workspaces
    BY <1>1, <2>1 DEF Types, Present
  <2>3. \/ job' = NoJob
        \/ /\ job'.step = job.step /\ job'.todo = job.todo \ {w}
           /\ job'.found = job.found
    <3>1. CASE job.todo = {w}
      BY <2>1, <3>1 DEF Moved
    <3>2. CASE job.todo # {w}
      <4>1. job' = [job EXCEPT !.todo = job.todo \ {w}, !.at = NoFolder]
        BY <2>1, <3>2 DEF Moved
      <4> QED
        BY <1>1, <4>1 DEF Jobs
    <3> QED
      BY <3>1, <3>2
  <2>4. \A v \in Workspaces \ {w} : folders'[v] = folders[v]
    BY <1>1, <2>1 DEF Types
  <2>5. Unchanged' = Unchanged \ {w}
    BY <1>1, <2>1, <2>2, <2>4 DEF Unchanged, Present, Types
  <2>6. \A v \in Unchanged' : v \in Unchanged /\ folders'[v] = folders[v]
    BY <2>4, <2>5 DEF Unchanged, Present
  <2>7. CASE job' = NoJob
    <3>1. recorded => \A v \in Unchanged' : Ids(folders'[v]) \subseteq BackedOf(backups, v)
      BY <2>6 DEF BackupInv
    <3> QED
      BY <2>1, <2>7, <3>1 DEF BackupInv, NoJob, BackedOf
  <2>8. CASE job'.step = job.step /\ job'.todo = job.todo \ {w} /\ job'.found = job.found
    <3>1. \A v \in job'.todo : v \in job.todo /\ folders'[v] = folders[v]
      BY <1>1, <2>4, <2>8 DEF Present
    <3> QED
      BY <2>1, <2>5, <2>6, <2>8, <3>1 DEF BackupInv, BackedOf
  <2> QED
    BY <2>3, <2>7, <2>8
<1>10. CASE Stops
  <2>1. job' = NoJob /\ UNCHANGED <<folders, recorded, changed, backups>>
    BY <1>10 DEF Stops, disk
  <2> QED
    BY <2>1 DEF BackupInv, NoJob, Unchanged, Present, BackedOf
<1> QED
  BY <1>2, <1>3, <1>4, <1>5, <1>6, <1>7, <1>8, <1>9, <1>10 DEF Next, Migrate

\* Nothing that a migration found in a folder is merged before a complete backup holds it,
\* whichever migrations failed or ended before.
THEOREM FoundIsBackedUp == Spec => []BackedUp
<1>1. Init => BackupInv
  BY DEF Init, NoJob, BackupInv
<1>2. Inv /\ BackupInv /\ [Next]_vars => BackupInv'
  BY StepBackupInv
<1>3. BackupInv => BackedUp
  BY DEF BackupInv, BackedUp, BackedOf
<1> QED
  BY <1>1, <1>2, <1>3, MigrationIsInvariant, PTL DEF Spec

-----------------------------------------------------------------------------
(* What RESTORE.md brings back. *)

\* The latest of a sequence's elements that are in P, by position.
LastIn(s, P) == Latest({i \in DOMAIN s : s[i] \in P})

\* One more element is the latest of its kind.
LEMMA LastAfterAppend ==
    ASSUME NEW E, NEW s \in Seq(E), NEW e \in E, NEW P
    PROVE  /\ LastIn(s, P) \in {0} \cup DOMAIN s
           /\ e \in P => LastIn(Append(s, e), P) = Len(s) + 1
           /\ e \notin P => LastIn(Append(s, e), P) = LastIn(s, P)
<1> DEFINE r == Append(s, e)
           S == {i \in DOMAIN s : s[i] \in P}
           R == {i \in DOMAIN r : r[i] \in P}
           n == Len(s) + 1
<1>1. /\ DOMAIN s = 1 .. Len(s) /\ Len(s) \in Nat /\ DOMAIN r = 1 .. n /\ r[n] = e
      /\ \A i \in DOMAIN s : i \in DOMAIN r /\ r[i] = s[i]
  OBVIOUS
<1> HIDE DEF r
<1>2. /\ S \in SUBSET (1 .. Len(s)) /\ R \in SUBSET (1 .. n)
      /\ 1 .. Len(s) \in SUBSET Nat /\ 1 .. n \in SUBSET Nat /\ n \in Nat
  BY <1>1
<1>3. IsFiniteSet(1 .. Len(s)) /\ IsFiniteSet(1 .. n)
  BY <1>1, <1>2, FS_Interval
<1>4. /\ S \in SUBSET Nat /\ IsFiniteSet(S) /\ R \in SUBSET Nat /\ IsFiniteSet(R)
  BY <1>2, <1>3, FS_Subset
<1>5. /\ Latest(S) \in S \cup {0} /\ \A i \in R : i <= Latest(R)
      /\ Latest(R) \in R \cup {0}
  BY <1>4, LatestIsLast
<1>6. e \in P => n \in R
  BY <1>1, <1>2
<1>7. e \notin P => R = S
  <2> SUFFICES ASSUME e \notin P PROVE R = S
    OBVIOUS
  <2>1. \A i \in DOMAIN r : i \in DOMAIN s \/ i = n
    BY <1>1
  <2> QED
    BY <1>1, <2>1
<1>8. e \in P => Latest(R) = n
  <2> SUFFICES ASSUME e \in P PROVE Latest(R) = n
    OBVIOUS
  <2>1. n <= Latest(R)
    BY <1>5, <1>6
  <2>2. Latest(R) \in 0 .. n
    BY <1>2, <1>5
  <2> QED
    BY <1>2, <2>1, <2>2
<1>9. LastIn(s, P) = Latest(S) /\ LastIn(Append(s, e), P) = Latest(R)
  BY DEF LastIn, r
<1> QED
  BY <1>2, <1>5, <1>7, <1>8, <1>9

\* The backups that hold the folder of workspace w, and those with the shared state.
Holding(w) == {b \in Backups : b.folders[w] # NoFolder}
WithShared == {b \in Backups : b.shared # NoFolder}

\* What is brought back of a folder, and of the shared state.
RestoredFolder(bs, w) ==
    IF LastIn(bs, Holding(w)) = 0 THEN {} ELSE Ids(bs[LastIn(bs, Holding(w))].folders[w])
RestoredShared(bs) ==
    IF LastIn(bs, WithShared) = 0 THEN {} ELSE Ids(bs[LastIn(bs, WithShared)].shared)

\* What is brought back, as the model says it, of each folder and of the shared state.
LEMMA RestoredAreThose ==
    ASSUME Types
    PROVE  Restored = RestoredShared(backups) \cup UNION {RestoredFolder(backups, w) : w \in Workspaces}
<1>1. \A i \in DOMAIN backups : backups[i] \in Backups
  BY DEF Types
<1>2. {i \in DOMAIN backups : backups[i].shared # NoFolder}
        = {i \in DOMAIN backups : backups[i] \in WithShared}
  BY <1>1 DEF WithShared
<1>3. \A w : {i \in DOMAIN backups : backups[i].folders[w] # NoFolder}
               = {i \in DOMAIN backups : backups[i] \in Holding(w)}
  BY <1>1 DEF Holding
<1>4. /\ Latest({i \in DOMAIN backups : backups[i].shared # NoFolder}) = LastIn(backups, WithShared)
      /\ \A w : Latest({i \in DOMAIN backups : backups[i].folders[w] # NoFolder})
                  = LastIn(backups, Holding(w))
  BY <1>2, <1>3 DEF LastIn
<1> QED
  BY <1>4 DEF Restored, LastWith, RestoredShared, RestoredFolder

\* Another backup brings back what it copied, over what the earlier ones do.
LEMMA RestoreAdds ==
    ASSUME Types, NEW copied \in SUBSET Present, NEW book \in Foldered
    PROVE  LET bs == Append(backups, BackupOf(copied, book))
           IN  /\ \A w \in copied : RestoredFolder(bs, w) = Ids(folders[w])
               /\ \A w \in Workspaces \ copied :
                    RestoredFolder(bs, w) = RestoredFolder(backups, w)
               /\ RestoredShared(bs) =
                    IF book = NoFolder THEN RestoredShared(backups) ELSE Ids(book)
<1> DEFINE e == BackupOf(copied, book)
           bs == Append(backups, e)
           n == Len(backups) + 1
<1>1. e \in Backups
  BY DEF BackupOf, Backups, Types, Foldered
<1>2. /\ \A w \in copied : w \in Workspaces /\ e.folders[w] = folders[w] /\ e \in Holding(w)
      /\ \A w \in Workspaces \ copied : e \notin Holding(w)
      /\ e.shared = book /\ (e \in WithShared <=> book # NoFolder)
  BY <1>1 DEF BackupOf, Present, Holding, WithShared
<1> HIDE DEF e
<1>3. bs = Append(backups, e) /\ backups \in Seq(Backups)
  BY DEF Types
<1> HIDE DEF bs
<1>4. /\ n \in Nat /\ n # 0 /\ bs[n] = e /\ 0 \notin DOMAIN backups
      /\ \A i \in DOMAIN backups : bs[i] = backups[i]
  BY <1>1, <1>3
<1>5. ASSUME NEW P
      PROVE  /\ LastIn(backups, P) \in {0} \cup DOMAIN backups
             /\ e \in P => LastIn(bs, P) = n
             /\ e \notin P => LastIn(bs, P) = LastIn(backups, P)
  BY <1>1, <1>3, LastAfterAppend
<1> HIDE DEF n
<1>6. ASSUME NEW w \in copied
      PROVE  RestoredFolder(bs, w) = Ids(folders[w])
  <2>1. LastIn(bs, Holding(w)) = n /\ e.folders[w] = folders[w]
    BY <1>2, <1>5
  <2> QED
    BY <1>4, <2>1 DEF RestoredFolder
<1>7. ASSUME NEW w \in Workspaces \ copied
      PROVE  RestoredFolder(bs, w) = RestoredFolder(backups, w)
  <2>1. /\ LastIn(bs, Holding(w)) = LastIn(backups, Holding(w))
        /\ LastIn(backups, Holding(w)) \in {0} \cup DOMAIN backups
    BY <1>2, <1>5
  <2> QED
    BY <1>4, <2>1 DEF RestoredFolder
<1>8. RestoredShared(bs) = IF book = NoFolder THEN RestoredShared(backups) ELSE Ids(book)
  BY <1>2, <1>4, <1>5 DEF RestoredShared
<1> QED
  BY <1>6, <1>7, <1>8 DEF bs, e

\* A folder that did not change since the backup on record is brought back as it is.
RestoreInv ==
    /\ latest \subseteq
         RestoredShared(backups) \cup UNION {RestoredFolder(backups, w) : w \in Workspaces}
    /\ recorded \/ job.step = "copied" =>
         \A w \in Unchanged : Ids(folders[w]) \subseteq RestoredFolder(backups, w)

\* No step of a reviewer or a migration breaks RestoreInv.
LEMMA StepRestoreInv ==
    ASSUME Inv, BackupInv, RestoreInv, [Next]_vars
    PROVE  RestoreInv'
<1>1. Types /\ job \in Jobs /\ job.todo \in SUBSET Present /\ Present \in SUBSET Workspaces
  BY DEF Inv, Types, Present
<1>2. ASSUME UNCHANGED <<backups, latest>>,
             recorded' \/ job'.step = "copied" => recorded \/ job.step = "copied",
             recorded' \/ job'.step = "copied" =>
               \A w \in Unchanged' : w \in Unchanged /\ folders'[w] = folders[w]
      PROVE  RestoreInv'
  BY <1>2 DEF RestoreInv, RestoredFolder, RestoredShared
<1>3. CASE ThisBuild \/ UNCHANGED vars
  <2>1. UNCHANGED <<folders, recorded, changed, backups, job, latest>>
    BY <1>3 DEF ThisBuild, vars, disk
  <2> QED
    BY <1>2, <2>1 DEF Unchanged, Present
<1>4. CASE \E w \in Workspaces : EarlierBuild(w)
  <2>1. PICK w \in Workspaces : EarlierBuild(w)
    BY <1>4
  <2>2. PICK c \in Proper :
             /\ folders' = [folders EXCEPT ![w] = c]
             /\ changed' = changed \cup {w}
    BY <1>1, <2>1, EarlierBuildWrites
  <2>3. UNCHANGED <<recorded, backups, job, latest>>
    BY <2>1 DEF EarlierBuild
  <2>4. \A v \in Workspaces : v # w => folders'[v] = folders[v]
    BY <1>1, <2>2 DEF Types
  <2>5. \A v \in Unchanged' : v \in Unchanged /\ folders'[v] = folders[v]
    BY <2>2, <2>4 DEF Unchanged, Present
  <2> QED
    BY <1>2, <2>3, <2>5
<1>5. CASE List
  <2>1. /\ job'.step = "listed" /\ (recorded => changed' = changed)
        /\ UNCHANGED <<folders, recorded, backups, latest>>
    BY <1>5 DEF List
  <2>2. recorded => Unchanged' = Unchanged
    BY <2>1 DEF Unchanged, Present
  <2> QED
    BY <1>2, <2>1, <2>2
<1>6. CASE CopyAll
  <2> DEFINE copied == job.todo
  <2>1. /\ job.step = "listed" /\ ~recorded
        /\ backups' = Append(backups, BackupOf(copied, NoFolder))
        /\ latest' = UNION {Ids(folders[w]) : w \in copied}
        /\ UNCHANGED <<folders, changed>>
    BY <1>6 DEF CopyAll
  <2>2. Unchanged' = Unchanged /\ Unchanged \subseteq copied /\ copied \in SUBSET Present
    BY <1>1, <2>1 DEF Unchanged, Present, BackupInv
  <2> HIDE DEF copied
  <2>3. NoFolder \in Foldered
    BY DEF Foldered
  <2>4. \A w \in copied : w \in Workspaces /\ RestoredFolder(backups', w) = Ids(folders[w])
    <3>1. \A w \in copied : RestoredFolder(backups', w) = Ids(folders[w])
      <4>1. Types /\ backups' = Append(backups, BackupOf(copied, NoFolder))
        BY <1>1, <2>1
      <4> QED
        BY <2>2, <2>3, <4>1, RestoreAdds
    <3> QED
      BY <2>2, <3>1 DEF Present
  <2>5. latest' \subseteq UNION {RestoredFolder(backups', w) : w \in Workspaces}
    BY <2>1, <2>4
  <2>6. \A w \in Unchanged' : Ids(folders'[w]) \subseteq RestoredFolder(backups', w)
    BY <2>1, <2>2, <2>4
  <2> QED
    BY <2>5, <2>6 DEF RestoreInv
<1>7. CASE RecordBackup
  <2>1. job.step = "copied" /\ UNCHANGED <<folders, changed, backups, latest>>
    BY <1>7 DEF RecordBackup
  <2>2. Unchanged' = Unchanged
    BY <2>1 DEF Unchanged, Present
  <2> QED
    BY <1>2, <2>1, <2>2
<1>8. CASE CopyChanged
  <2> DEFINE copied == changed \cap job.todo
  <2>1. /\ recorded /\ UNCHANGED <<folders, recorded, changed>>
        /\ \/ UNCHANGED <<backups, latest>>
           \/ /\ backups' = Append(backups, BackupOf(copied, shared))
              /\ latest' = Ids(shared) \cup UNION {Ids(folders[w]) : w \in job.todo}
    BY <1>8 DEF CopyChanged
  <2>2. Unchanged' = Unchanged
    BY <2>1 DEF Unchanged, Present
  <2>3. CASE UNCHANGED <<backups, latest>>
    BY <1>2, <2>1, <2>2, <2>3
  <2>4. CASE /\ backups' = Append(backups, BackupOf(copied, shared))
             /\ latest' = Ids(shared) \cup UNION {Ids(folders[w]) : w \in job.todo}
    <3>1. copied \in SUBSET Present /\ shared \in Foldered /\ shared # NoFolder
      BY <1>1, NoFolderIsNoBook DEF Types, Foldered
    <3>2. /\ \A w \in job.todo : w \in Workspaces /\ (w \in copied \/ w \in Unchanged)
          /\ \A w \in Unchanged : w \in Workspaces \ copied
      BY <1>1 DEF Unchanged
    <3> HIDE DEF copied
    <3>3. /\ \A w \in copied : RestoredFolder(backups', w) = Ids(folders[w])
          /\ \A w \in Workspaces \ copied :
               RestoredFolder(backups', w) = RestoredFolder(backups, w)
          /\ RestoredShared(backups') =
               IF shared = NoFolder THEN RestoredShared(backups) ELSE Ids(shared)
      <4>1. backups' = Append(backups, BackupOf(copied, shared))
        BY <2>4 DEF copied
      <4>2. Types
        BY <1>1
      <4> DEFINE book == shared
      <4>3. copied \in SUBSET Present /\ book \in Foldered
            /\ backups' = Append(backups, BackupOf(copied, book))
        BY <3>1, <4>1
      <4> HIDE DEF book
      <4>4. /\ \A w \in copied : RestoredFolder(backups', w) = Ids(folders[w])
            /\ \A w \in Workspaces \ copied :
                 RestoredFolder(backups', w) = RestoredFolder(backups, w)
            /\ RestoredShared(backups') =
                 IF book = NoFolder THEN RestoredShared(backups) ELSE Ids(book)
        <5>1. ASSUME NEW w \in copied
              PROVE  RestoredFolder(backups', w) = Ids(folders[w])
          BY <4>2, <4>3, RestoreAdds
        <5>2. \A w \in Workspaces \ copied :
                 RestoredFolder(backups', w) = RestoredFolder(backups, w)
          BY <4>2, <4>3, RestoreAdds
        <5>3. RestoredShared(backups') =
                 IF book = NoFolder THEN RestoredShared(backups) ELSE Ids(book)
          BY <4>2, <4>3, RestoreAdds
        <5> QED
          BY <5>1, <5>2, <5>3
      <4> QED
        BY <4>4 DEF book
    <3>4. \A w \in Unchanged : Ids(folders[w]) \subseteq RestoredFolder(backups', w)
      BY <2>1, <3>2, <3>3 DEF RestoreInv
    <3>5. \A w \in job.todo : Ids(folders[w]) \subseteq RestoredFolder(backups', w)
      BY <3>2, <3>3, <3>4
    <3>6. latest' \subseteq RestoredShared(backups')
                              \cup UNION {RestoredFolder(backups', w) : w \in Workspaces}
      <4>1. RestoredShared(backups') = Ids(shared)
        BY <3>1, <3>3
      <4> QED
        BY <2>4, <3>2, <3>5, <4>1
    <3> QED
      BY <2>1, <2>2, <3>4, <3>6 DEF RestoreInv
  <2> QED
    BY <2>1, <2>3, <2>4
<1>9. CASE \E w \in Workspaces : MergeThreads(w)
  <2>1. PICK w \in Workspaces : MergeThreads(w)
    BY <1>9
  <2>2. job' = [job EXCEPT !.at = w] /\ UNCHANGED <<folders, recorded, changed, backups, latest>>
    BY <2>1 DEF MergeThreads
  <2>3. job'.step = job.step
    BY <1>1, <2>2 DEF Jobs
  <2>4. Unchanged' = Unchanged
    BY <2>2 DEF Unchanged, Present
  <2> QED
    BY <1>2, <2>2, <2>3, <2>4
<1>10. CASE Retire
  <2> DEFINE w == job.at
  <2>1. /\ w # NoFolder
        /\ folders' = [folders EXCEPT ![w] = NoFolder]
        /\ changed' = changed \ {w}
        /\ job' = Moved
        /\ UNCHANGED <<recorded, backups, latest>>
    BY <1>10 DEF Retire
  <2>2. w \in Workspaces
    BY <1>1, <2>1 DEF Types, Present
  <2>3. job'.step = "copied" => job.step = "copied"
    <3>1. CASE job.todo = {w}
      BY <2>1, <3>1 DEF Moved, NoJob
    <3>2. CASE job.todo # {w}
      <4>1. job' = [job EXCEPT !.todo = job.todo \ {w}, !.at = NoFolder]
        BY <2>1, <3>2 DEF Moved
      <4> QED
        BY <1>1, <4>1 DEF Jobs
    <3> QED
      BY <3>1, <3>2
  <2>4. /\ folders'[w] = NoFolder
        /\ \A v \in Workspaces \ {w} : folders'[v] = folders[v]
    BY <1>1, <2>1, <2>2 DEF Types
  <2>5. \A v \in Unchanged' : v \in Unchanged /\ folders'[v] = folders[v]
    BY <2>1, <2>4 DEF Unchanged, Present
  <2> QED
    BY <1>2, <2>1, <2>3, <2>5
<1>11. CASE Stops
  <2>1. job' = NoJob /\ UNCHANGED <<folders, recorded, changed, backups, latest>>
    BY <1>11 DEF Stops, disk
  <2>2. Unchanged' = Unchanged /\ job'.step = "none"
    BY <2>1 DEF Unchanged, Present, NoJob
  <2> QED
    BY <1>2, <2>1, <2>2
<1> QED
  BY <1>3, <1>4, <1>5, <1>6, <1>7, <1>8, <1>9, <1>10, <1>11 DEF Next, Migrate

\* As RESTORE.md says: the first backup and every later one over it bring back all that was
\* stored when the latest was taken, whichever migrations failed or ended before or since.
THEOREM BackupsRestore == Spec => []RestoreBringsBack
<1>1. Init => BackupInv /\ RestoreInv
  BY DEF Init, NoJob, BackupInv, RestoreInv
<1>2. Inv /\ BackupInv /\ RestoreInv /\ [Next]_vars => BackupInv' /\ RestoreInv'
  BY StepBackupInv, StepRestoreInv
<1>3. Inv /\ RestoreInv => RestoreBringsBack
  BY RestoredAreThose DEF Inv, RestoreInv, RestoreBringsBack
<1> QED
  BY <1>1, <1>2, <1>3, MigrationIsInvariant, PTL DEF Spec

-----------------------------------------------------------------------------
(* The order of a merged book. *)

\* A message is stored once.
Once(b) == \A i, j \in DOMAIN b.log : b.log[i].id = b.log[j].id => i = j

\* A book whose messages say what it keeps of its threads.
Sound(b) == b \in Proper /\ ThreadsOpened(b) /\ RepliesNamed(b) /\ Once(b)

\* What b knows of o is how o starts, in its order.
Meets(b, o) ==
    /\ \A j \in DOMAIN o.log :
         Known(b, o.log[j].id) => \E n \in DOMAIN b.log : b.log[n] = o.log[j]
    /\ \A i, j \in DOMAIN o.log : i < j /\ Known(b, o.log[j].id) =>
         \E m, n \in DOMAIN b.log : m < n /\ b.log[m] = o.log[i] /\ b.log[n] = o.log[j]

\* The log c starts with b's, and holds o's messages too, and no more.
Starts(b, c) ==
    /\ \A i \in DOMAIN b.log : i \in DOMAIN c.log /\ c.log[i] = b.log[i]
    /\ \A i \in DOMAIN c.log : i \in DOMAIN b.log \/ i > Len(b.log)
Gathers(b, o, c) ==
    /\ \A n \in DOMAIN c.log :
         n \in DOMAIN b.log \/ \E i \in Lacking(b, o) : c.log[n] = o.log[i]
    /\ \A i \in DOMAIN o.log : \E n \in DOMAIN c.log : c.log[n] = o.log[i]

\* Messages of o are in c as they follow each other in o.
InOrder(o, c) ==
    \A i, j \in DOMAIN o.log, m, n \in DOMAIN c.log :
        i < j /\ c.log[m] = o.log[i] /\ c.log[n] = o.log[j] => m < n

\* A merge appends to b what it lacks of o, and both orders stay.
LEMMA MergedLog ==
    ASSUME NEW b \in Proper, NEW o \in Proper, Once(b), Once(o), Meets(b, o)
    PROVE  /\ Starts(b, Merge(b, o)) /\ Gathers(b, o, Merge(b, o))
           /\ InOrder(o, Merge(b, o)) /\ Once(Merge(b, o))
<1> DEFINE a == Arriving(b, o)
           L == Lacking(b, o)
           l == Len(b.log)
           c == Merge(b, o)
<1>1. /\ b.log \in Seq(Message) /\ DOMAIN b.log = 1 .. l /\ l \in Nat
      /\ o.log \in Seq(Message) /\ DOMAIN o.log = 1 .. Len(o.log) /\ Len(o.log) \in Nat
      /\ o \in Book
  BY DEF Proper, Book
<1>2. L \in SUBSET DOMAIN o.log /\ a = Picked(o.log, L)
  BY DEF Lacking, Arriving
<1>3. /\ a \in Seq(Message) /\ DOMAIN a = 1 .. Len(a) /\ Len(a) \in Nat
      /\ \A k \in DOMAIN a : \E i \in L : a[k] = o.log[i]
      /\ \A i \in L : \E k \in DOMAIN a : a[k] = o.log[i]
  BY <1>1, ArrivingIsLacking
<1>4. c.log = b.log \o a
  BY DEF Merge
<1>5. ASSUME NEW j \in DOMAIN a, NEW k \in DOMAIN a, j < k
      PROVE  \E p, q \in L : p < q /\ a[j] = o.log[p] /\ a[k] = o.log[q]
  <2> HIDE DEF a, L
  <2>1. \E p, q \in L : p < q /\ Picked(o.log, L)[j] = o.log[p] /\ Picked(o.log, L)[k] = o.log[q]
    BY <1>1, <1>2, <1>5, PickedInOrder
  <2> QED
    BY <1>2, <2>1
<1>6. \A i \in DOMAIN o.log : i \in L <=> ~Known(b, o.log[i].id)
  BY DEF Lacking
<1> HIDE DEF a, L, c
<1>7. /\ DOMAIN c.log = 1 .. (l + Len(a))
      /\ \A i \in DOMAIN b.log : c.log[i] = b.log[i]
      /\ \A k \in DOMAIN a : c.log[l + k] = a[k]
  <2> DEFINE s == b.log \o a
  <2>1. /\ DOMAIN s = 1 .. (l + Len(a))
        /\ \A i \in 1 .. l : s[i] = b.log[i]
        /\ \A k \in 1 .. Len(a) : s[l + k] = a[k]
    BY <1>1, <1>3
  <2> HIDE DEF s, l
  <2> QED
    BY <1>1, <1>3, <1>4, <2>1 DEF s
<1>8. ASSUME NEW n \in DOMAIN c.log
      PROVE  n \in DOMAIN b.log \/ (n > l /\ n - l \in DOMAIN a /\ c.log[n] = a[n - l])
  <2>1. n <= l => n \in DOMAIN b.log
    BY <1>1, <1>3, <1>7
  <2>2. n > l => n - l \in DOMAIN a /\ n = l + (n - l)
    BY <1>1, <1>3, <1>7
  <2> QED
    BY <1>1, <1>3, <1>7, <2>1, <2>2
<1>9. Starts(b, c)
  BY <1>1, <1>3, <1>7, <1>8 DEF Starts
<1>10. \A n \in DOMAIN c.log : n \in DOMAIN b.log \/ \E i \in L : c.log[n] = o.log[i]
  BY <1>3, <1>8
<1>11. ASSUME NEW i \in DOMAIN o.log
       PROVE  \E n \in DOMAIN c.log : c.log[n] = o.log[i]
  <2>1. CASE i \in L
    <3>1. PICK k \in DOMAIN a : a[k] = o.log[i]
      BY <1>3, <2>1
    <3>2. l + k \in DOMAIN c.log
      <4>1. k \in 1 .. Len(a) /\ Len(a) \in Nat /\ l \in Nat
        BY <1>1, <1>3, <3>1
      <4> HIDE DEF l
      <4> QED
        BY <1>7, <4>1
    <3> QED
      BY <1>7, <3>1, <3>2
  <2>2. CASE i \notin L
    <3>1. PICK n \in DOMAIN b.log : b.log[n] = o.log[i]
      BY <1>6, <2>2 DEF Meets
    <3> QED
      BY <1>7, <1>9, <3>1 DEF Starts
  <2> QED
    BY <2>1, <2>2
<1>12. Gathers(b, o, c)
  BY <1>10, <1>11 DEF Gathers, L
<1>13. ASSUME NEW i \in L, NEW n \in DOMAIN b.log
       PROVE  b.log[n].id # o.log[i].id
  BY <1>2, <1>6 DEF Known
<1>14. ASSUME NEW m \in DOMAIN c.log, NEW n \in DOMAIN c.log, m < n
       PROVE  c.log[m].id # c.log[n].id
  <2>1. CASE m \in DOMAIN b.log /\ n \in DOMAIN b.log
    <3>1. c.log[m] = b.log[m] /\ c.log[n] = b.log[n] /\ m # n
      BY <1>1, <1>7, <1>14, <2>1
    <3> QED
      BY <2>1, <3>1 DEF Once
  <2>2. CASE m \in DOMAIN b.log /\ n \notin DOMAIN b.log
    <3>1. PICK i \in L : c.log[n] = o.log[i]
      BY <1>10, <2>2
    <3> QED
      BY <1>7, <1>13, <2>2, <3>1
  <2>3. CASE m \notin DOMAIN b.log
    <3>1. m > l /\ m - l \in DOMAIN a /\ c.log[m] = a[m - l]
      BY <1>8, <2>3
    <3>2. n \notin DOMAIN b.log
      BY <1>1, <1>7, <1>14, <3>1
    <3>3. n - l \in DOMAIN a /\ c.log[n] = a[n - l]
      BY <1>8, <3>2
    <3>4. m - l < n - l
      BY <1>1, <1>3, <1>7, <1>14
    <3>5. PICK p, q \in L : p < q /\ c.log[m] = o.log[p] /\ c.log[n] = o.log[q]
      BY <1>5, <3>1, <3>3, <3>4
    <3>6. p # q /\ p \in DOMAIN o.log /\ q \in DOMAIN o.log
      BY <1>1, <1>2, <3>5
    <3> QED
      BY <3>5, <3>6 DEF Once
  <2> QED
    BY <2>1, <2>2, <2>3
<1>15. Once(c)
  <2> SUFFICES ASSUME NEW m \in DOMAIN c.log, NEW n \in DOMAIN c.log,
                      c.log[m].id = c.log[n].id
               PROVE  m = n
    BY DEF Once
  <2>1. m \in Nat /\ n \in Nat
    BY <1>1, <1>3, <1>7
  <2> QED
    BY <1>14, <2>1
<1>16. InOrder(o, c)
  <2> SUFFICES ASSUME NEW i \in DOMAIN o.log, NEW j \in DOMAIN o.log,
                      NEW m \in DOMAIN c.log, NEW n \in DOMAIN c.log,
                      i < j, c.log[m] = o.log[i], c.log[n] = o.log[j]
               PROVE  m < n
    BY DEF InOrder
  <2>1. m \in Nat /\ n \in Nat /\ i \in Nat /\ j \in Nat
    BY <1>1, <1>3, <1>7
  <2>2. CASE j \notin L
    <3>1. PICK x, y \in DOMAIN b.log : x < y /\ b.log[x] = o.log[i] /\ b.log[y] = o.log[j]
      BY <1>6, <2>2 DEF Meets
    <3>2. x \in DOMAIN c.log /\ y \in DOMAIN c.log /\ c.log[x] = o.log[i] /\ c.log[y] = o.log[j]
      BY <1>9, <3>1 DEF Starts
    <3>3. m = x /\ n = y
      BY <1>15, <3>2 DEF Once
    <3> QED
      BY <3>1, <3>3
  <2>3. CASE j \in L /\ i \notin L
    <3>1. PICK x \in DOMAIN b.log : b.log[x] = o.log[i]
      BY <1>6, <2>3 DEF Meets
    <3>2. x \in DOMAIN c.log /\ c.log[x] = o.log[i]
      BY <1>9, <3>1 DEF Starts
    <3>3. m = x
      BY <1>15, <3>2 DEF Once
    <3>4. n \notin DOMAIN b.log
      BY <1>7, <1>13, <2>3
    <3>5. n > l
      BY <1>8, <3>4
    <3>6. x \in Nat /\ x <= l
      BY <1>1
    <3> QED
      BY <1>1, <2>1, <3>3, <3>5, <3>6
  <2>4. CASE j \in L /\ i \in L
    <3>1. m \notin DOMAIN b.log /\ n \notin DOMAIN b.log
      BY <1>7, <1>13, <2>4
    <3>2. /\ m - l \in DOMAIN a /\ a[m - l] = o.log[i]
          /\ n - l \in DOMAIN a /\ a[n - l] = o.log[j]
      BY <1>8, <3>1
    <3>3. m # n
      <4>1. o.log[i].id # o.log[j].id
        BY <2>1 DEF Once
      <4> QED
        BY <4>1
    <3>4. CASE n < m
      <4>1. n - l < m - l
        BY <1>1, <2>1, <3>4
      <4>2. PICK p, q \in L : p < q /\ a[n - l] = o.log[p] /\ a[m - l] = o.log[q]
        BY <1>5, <3>2, <4>1
      <4>3. p \in DOMAIN o.log /\ q \in DOMAIN o.log
        BY <1>2, <4>2
      <4>4. p = j /\ q = i
        BY <3>2, <4>2, <4>3 DEF Once
      <4> QED
        BY <2>1, <4>2, <4>4
    <3> QED
      BY <2>1, <3>3, <3>4
  <2> QED
    BY <2>2, <2>3, <2>4
<1> QED
  BY <1>9, <1>12, <1>15, <1>16 DEF c

-----------------------------------------------------------------------------
(* What waits in a merged book. *)

\* The comments of thread t that no reply took up.
Untaken(b, t) ==
    {c \in Comments(b, t) : ~ \E r \in InThread(b, t) : TakesUp(b, t, r, c)}

\* A comment is answered once a reply names it or a later one.
LEMMA WaitsUnlessTaken ==
    ASSUME NEW b, Sound(b), NEW t \in Threads
    PROVE  WaitIn(b, t) = {b.log[c].id : c \in Untaken(b, t)}
<1>1. /\ b.log \in Seq(Message) /\ DOMAIN b.log \subseteq Nat
      /\ b.answered[t] \in Nat
      /\ \A i \in DOMAIN b.log : b.log[i].id \in MessageIds
  <2>1. b \in Book
    BY DEF Sound, Proper
  <2>2. b.log \in Seq(Message) /\ b.answered[t] \in Nat
    BY <2>1 DEF Book
  <2>3. DOMAIN b.log \subseteq Nat /\ \A i \in DOMAIN b.log : b.log[i] \in Message
    BY <2>2
  <2> QED
    BY <2>2, <2>3 DEF Message
<1>2. Comments(b, t) \subseteq InThread(b, t) /\ InThread(b, t) \subseteq DOMAIN b.log
  BY DEF Comments, InThread
<1>3. ASSUME NEW c \in Comments(b, t), NEW r \in InThread(b, t), TakesUp(b, t, r, c)
      PROVE  IsAnswered(b, t, c)
  <2>1. PICK k \in Comments(b, t) : k >= c /\ b.log[k].id = b.log[r].in_reply_to
    BY <1>3 DEF TakesUp
  <2>2. k \in InThread(b, t) /\ b.log[r].in_reply_to # NoMessage
    BY <1>1, <1>2, <2>1, ThreadsAssumption
  <2> QED
    BY <1>3, <2>1, <2>2 DEF IsAnswered, TakesUp
<1>4. ASSUME NEW c \in Comments(b, t), c <= b.answered[t]
      PROVE  \E r \in InThread(b, t) : TakesUp(b, t, r, c)
  <2>1. c \in Nat /\ b.answered[t] # 0
    <3>1. b.log[c] = b.log[c] /\ c \in DOMAIN b.log /\ c # 0
      BY <1>1, <1>2
    <3> QED
      BY <1>1, <1>4, <3>1
  <2>2. PICK r \in InThread(b, t) : TakesUp(b, t, r, b.answered[t])
    BY <2>1 DEF Sound, RepliesNamed
  <2>3. PICK k \in Comments(b, t) : k >= b.answered[t] /\ b.log[k].id = b.log[r].in_reply_to
    BY <2>2 DEF TakesUp
  <2>4. k \in Nat /\ k >= c
    BY <1>1, <1>2, <1>4, <2>1, <2>3
  <2> QED
    BY <2>2, <2>3, <2>4 DEF TakesUp
<1>5. ASSUME NEW c \in Comments(b, t), IsAnswered(b, t, c)
      PROVE  \E r \in InThread(b, t) : TakesUp(b, t, r, c)
  <2>1. PICK r \in InThread(b, t) :
          /\ b.log[r].from = "agent"
          /\ b.log[r].in_reply_to # NoMessage =>
               \E k \in InThread(b, t) : b.log[k].id = b.log[r].in_reply_to /\ k >= c
    BY <1>5 DEF IsAnswered
  <2>2. PICK n \in Comments(b, t) : b.log[n].id = b.log[r].in_reply_to
    BY <2>1 DEF Sound, RepliesNamed, TakesUp
  <2>3. n \in DOMAIN b.log /\ b.log[r].in_reply_to # NoMessage
    BY <1>1, <1>2, <2>2, ThreadsAssumption
  <2>4. PICK k \in InThread(b, t) : b.log[k].id = b.log[r].in_reply_to /\ k >= c
    BY <2>1, <2>3
  <2>5. n = k
    BY <1>2, <2>2, <2>3, <2>4 DEF Sound, Once
  <2> QED
    BY <2>1, <2>2, <2>4, <2>5 DEF TakesUp
<1>6. \A c \in Comments(b, t) :
        Unanswered(b, t, c) <=> ~ \E r \in InThread(b, t) : TakesUp(b, t, r, c)
  <2> SUFFICES ASSUME NEW c \in Comments(b, t)
               PROVE  Unanswered(b, t, c) <=> ~ \E r \in InThread(b, t) : TakesUp(b, t, r, c)
    OBVIOUS
  <2>1. c > b.answered[t] \/ c <= b.answered[t]
    BY <1>1, <1>2
  <2>2. ~(c > b.answered[t] /\ c <= b.answered[t])
    BY <1>1, <1>2
  <2> QED
    BY <1>3, <1>4, <1>5, <2>1, <2>2 DEF Unanswered
<1>7. {k \in Comments(b, t) : Unanswered(b, t, k)} = Untaken(b, t)
  BY <1>6 DEF Untaken
<1> QED
  BY <1>7 DEF WaitIn

\* The messages of thread t in x are in y, as they follow each other in x.
Embeds(x, y, t) ==
    /\ \A i \in InThread(x, t) : \E n \in DOMAIN y.log : y.log[n] = x.log[i]
    /\ \A i, j \in InThread(x, t), m, n \in DOMAIN y.log :
         i < j /\ y.log[m] = x.log[i] /\ y.log[n] = x.log[j] => m < n

\* So what took a comment up in x does in y.
LEMMA TakesUpThere ==
    ASSUME NEW x, Sound(x), NEW y, Sound(y), NEW t \in Threads, Embeds(x, y, t),
           NEW r \in InThread(x, t), NEW c \in InThread(x, t), TakesUp(x, t, r, c),
           NEW m \in DOMAIN y.log, NEW n \in DOMAIN y.log,
           y.log[m] = x.log[r], y.log[n] = x.log[c]
    PROVE  m \in InThread(y, t) /\ TakesUp(y, t, m, n)
<1>1. DOMAIN x.log \subseteq Nat /\ DOMAIN y.log \subseteq Nat
  BY DEF Sound, Proper, Book
<1>2. PICK k \in Comments(x, t) : k >= c /\ x.log[k].id = x.log[r].in_reply_to
  BY DEF TakesUp
<1>3. k \in InThread(x, t) /\ k \in Nat /\ c \in Nat
  BY <1>1, <1>2 DEF Comments, InThread
<1>4. PICK p \in DOMAIN y.log : y.log[p] = x.log[k]
  BY <1>3 DEF Embeds
<1>5. p \in Comments(y, t) /\ m \in InThread(y, t)
  BY <1>2, <1>4 DEF Comments, InThread
<1>6. p >= n
  <2>1. CASE k = c
    <3>1. p = n
      BY <1>4, <2>1 DEF Sound, Once
    <3> QED
      BY <1>1, <3>1
  <2>2. CASE k # c
    <3>1. c < k
      BY <1>2, <1>3, <2>2
    <3>2. n < p
      BY <1>3, <1>4, <3>1 DEF Embeds
    <3> QED
      BY <1>1, <3>2
  <2> QED
    BY <2>1, <2>2
<1>7. y.log[m].from = "agent" /\ y.log[p].id = y.log[m].in_reply_to
  BY <1>2, <1>4 DEF TakesUp
<1> QED
  BY <1>5, <1>6, <1>7 DEF TakesUp

\* The same messages of a thread, in the same order, leave the same comments waiting.
LEMMA WaitsThere ==
    ASSUME NEW x, Sound(x), NEW y, Sound(y), NEW t \in Threads,
           Embeds(x, y, t), Embeds(y, x, t)
    PROVE  WaitIn(x, t) \subseteq WaitIn(y, t)
<1> SUFFICES ASSUME NEW c \in Untaken(x, t)
             PROVE  \E n \in Untaken(y, t) : y.log[n].id = x.log[c].id
  <2>1. WaitIn(x, t) = {x.log[c].id : c \in Untaken(x, t)}
    BY WaitsUnlessTaken
  <2>2. WaitIn(y, t) = {y.log[c].id : c \in Untaken(y, t)}
    BY WaitsUnlessTaken
  <2> QED
    BY <2>1, <2>2
<1>1. c \in Comments(x, t) /\ c \in InThread(x, t) /\ c \in DOMAIN x.log
  BY DEF Untaken, Comments, InThread
<1>2. PICK n \in DOMAIN y.log : y.log[n] = x.log[c]
  BY <1>1 DEF Embeds
<1>3. n \in Comments(y, t) /\ n \in InThread(y, t)
  BY <1>1, <1>2 DEF Comments, InThread
<1>4. ASSUME NEW r \in InThread(y, t), TakesUp(y, t, r, n)
      PROVE  FALSE
  <2>1. PICK s \in DOMAIN x.log : x.log[s] = y.log[r]
    BY DEF Embeds
  <2>2. s \in InThread(x, t) /\ TakesUp(x, t, s, c)
    BY <1>1, <1>2, <1>3, <1>4, <2>1, TakesUpThere
  <2> QED
    BY <2>2 DEF Untaken
<1> QED
  BY <1>2, <1>3, <1>4 DEF Untaken

\* A merged book has the threads of both, and keeps what its messages say.
LEMMA MergeEmbeds ==
    ASSUME NEW b, Sound(b), NEW o, Sound(o), Meets(b, o), NEW t
    PROVE  Embeds(b, Merge(b, o), t) /\ Embeds(o, Merge(b, o), t)
<1> DEFINE c == Merge(b, o)
<1>1. Starts(b, c) /\ Gathers(b, o, c) /\ InOrder(o, c) /\ Once(c)
  BY MergedLog DEF Sound
<1> HIDE DEF c
<1>2. InThread(b, t) \subseteq DOMAIN b.log /\ InThread(o, t) \subseteq DOMAIN o.log
  BY DEF InThread
<1>3. Embeds(o, c, t)
  BY <1>1, <1>2 DEF Gathers, InOrder, Embeds
<1>4. \A i \in DOMAIN b.log, n \in DOMAIN c.log : c.log[n] = b.log[i] => n = i
  BY <1>1 DEF Starts, Once
<1>5. Embeds(b, c, t)
  BY <1>1, <1>2, <1>4 DEF Starts, Embeds
<1> QED
  BY <1>3, <1>5 DEF c

\* A merged book keeps what its messages say of its threads.
LEMMA MergeIsSound ==
    ASSUME NEW b, Sound(b), NEW o, Sound(o), Meets(b, o)
    PROVE  Sound(Merge(b, o))
<1> DEFINE c == Merge(b, o)
<1>1. b \in Proper /\ o \in Proper /\ Once(b) /\ Once(o)
  BY DEF Sound
<1>2. c \in Proper /\ Starts(b, c) /\ Gathers(b, o, c) /\ InOrder(o, c) /\ Once(c)
  BY <1>1, MergeHoldsBoth, MergedLog
<1>3. \A t \in Threads : c.open[t] = MergedResolution(b, o, t)
  BY DEF Merge
<1>4. \A t \in Threads :
        c.answered[t] = Max({b.answered[t], Translate(c.log, o, t, o.answered[t])})
  BY DEF Merge
<1> HIDE DEF c
<1>5. ThreadsOpened(c)
  <2> SUFFICES ASSUME NEW t \in Threads, c.open[t] = "absent", NEW n \in InThread(c, t)
               PROVE  FALSE
    BY DEF ThreadsOpened
  <2>1. b.open[t] = "absent" /\ o.open[t] = "absent"
    BY <1>3 DEF MergedResolution
  <2>2. InThread(b, t) = {} /\ InThread(o, t) = {}
    BY <2>1 DEF Sound, ThreadsOpened
  <2>3. n \in DOMAIN b.log \/ \E i \in Lacking(b, o) : c.log[n] = o.log[i]
    BY <1>2 DEF Gathers, InThread
  <2>4. n \notin DOMAIN b.log
    BY <1>2, <2>2 DEF Starts, InThread
  <2>5. PICK i \in Lacking(b, o) : c.log[n] = o.log[i]
    BY <2>3, <2>4
  <2> QED
    BY <2>2, <2>5 DEF Lacking, InThread
<1>6. ASSUME NEW t \in Threads, NEW r \in InThread(c, t), c.log[r].from = "agent"
      PROVE  TakesUp(c, t, r, 0)
  <2>1. r \in DOMAIN b.log \/ \E i \in Lacking(b, o) : c.log[r] = o.log[i]
    BY <1>2 DEF Gathers, InThread
  <2>2. DOMAIN c.log \subseteq Nat
    BY <1>2 DEF Proper, Book
  <2>3. ASSUME NEW x, x = b \/ x = o, NEW i \in DOMAIN x.log, c.log[r] = x.log[i]
        PROVE  TakesUp(c, t, r, 0)
    <3>1. i \in InThread(x, t) /\ x.log[i].from = "agent"
      BY <1>6, <2>3 DEF InThread
    <3>2. TakesUp(x, t, i, 0)
      BY <2>3, <3>1 DEF Sound, RepliesNamed
    <3>3. PICK k \in Comments(x, t) : x.log[k].id = x.log[i].in_reply_to
      BY <3>2 DEF TakesUp
    <3>4. k \in DOMAIN x.log /\ x.log[k].thread = t /\ x.log[k].from # "agent"
      BY <3>3 DEF Comments, InThread
    <3>5. \E n \in DOMAIN c.log : c.log[n] = x.log[k]
      BY <1>2, <2>3, <3>4 DEF Starts, Gathers
    <3>6. PICK n \in DOMAIN c.log : c.log[n] = x.log[k]
      BY <3>5
    <3>7. n \in Comments(c, t) /\ n >= 0
      BY <2>2, <3>4, <3>6 DEF Comments, InThread
    <3> QED
      BY <1>6, <2>3, <3>3, <3>6, <3>7 DEF TakesUp
  <2> QED
    BY <1>2, <2>1, <2>3 DEF Starts, Lacking
<1>7. ASSUME NEW t \in Threads, c.answered[t] # 0
      PROVE  \E r \in InThread(c, t) : TakesUp(c, t, r, c.answered[t])
  <2> DEFINE p == Translate(c.log, o, t, o.answered[t])
             S == {Position(c.log, o, i) : i \in {k \in InThread(o, t) : k <= o.answered[t]}}
  <2>1. /\ c.log \in Seq(Message) /\ DOMAIN c.log = 1 .. Len(c.log) /\ Len(c.log) \in Nat
        /\ o.log \in Seq(Message) /\ DOMAIN o.log \subseteq Nat /\ 0 \notin DOMAIN o.log
        /\ b.answered[t] \in Nat /\ o.answered[t] \in Nat
    BY <1>1, <1>2 DEF Proper, Book
  <2>2. \A i \in DOMAIN o.log :
          Position(c.log, o, i) \in DOMAIN c.log /\ c.log[Position(c.log, o, i)] = o.log[i]
    <3> SUFFICES ASSUME NEW i \in DOMAIN o.log
                 PROVE  Position(c.log, o, i) \in DOMAIN c.log
                        /\ c.log[Position(c.log, o, i)] = o.log[i]
      OBVIOUS
    <3>1. PICK n \in DOMAIN c.log : c.log[n] = o.log[i]
      BY <1>2 DEF Gathers
    <3>2. Position(c.log, o, i) \in DOMAIN c.log /\ c.log[Position(c.log, o, i)].id = o.log[i].id
      BY <3>1 DEF Position
    <3>3. Position(c.log, o, i) = n
      BY <1>2, <3>1, <3>2 DEF Once
    <3> QED
      BY <3>1, <3>3
  <2>3. S \in SUBSET (1 .. Len(c.log)) /\ 1 .. Len(c.log) \in SUBSET Nat
    BY <2>1, <2>2 DEF InThread
  <2>4. p = Latest(S)
    BY DEF Translate
  <2>5. p \in S \cup {0}
    <3> HIDE DEF S, p
    <3>1. IsFiniteSet(1 .. Len(c.log))
      BY <2>1, FS_Interval
    <3>2. S \in SUBSET Nat /\ IsFiniteSet(S)
      BY <2>3, <3>1, FS_Subset
    <3> QED
      BY <2>4, <3>2, LatestIsLast
  <2>6. c.answered[t] = b.answered[t] \/ c.answered[t] = p
    <3>1. p \in Nat
      BY <2>3, <2>5
    <3> HIDE DEF p, S
    <3>2. Max({b.answered[t], p}) = IF b.answered[t] >= p THEN b.answered[t] ELSE p
      BY <2>1, <3>1 DEF Max
    <3> QED
      BY <1>4, <3>2 DEF p
  <2>7. CASE c.answered[t] = b.answered[t]
    <3>1. PICK r \in InThread(b, t) : TakesUp(b, t, r, c.answered[t])
      BY <1>7, <2>7 DEF Sound, RepliesNamed
    <3>2. PICK k \in Comments(b, t) :
            k >= c.answered[t] /\ b.log[k].id = b.log[r].in_reply_to
      BY <3>1 DEF TakesUp
    <3>3. r \in InThread(c, t) /\ c.log[r] = b.log[r]
      BY <1>2 DEF Starts, InThread
    <3>4. k \in Comments(c, t) /\ c.log[k] = b.log[k]
      BY <1>2, <3>2 DEF Starts, InThread, Comments
    <3> QED
      BY <3>1, <3>2, <3>3, <3>4 DEF TakesUp
  <2>8. CASE c.answered[t] = p
    <3>1. p \in S
      BY <1>7, <2>5, <2>8
    <3>2. PICK i \in InThread(o, t) : i <= o.answered[t] /\ p = Position(c.log, o, i)
      BY <3>1
    <3>3. i \in DOMAIN o.log /\ i \in Nat /\ p \in DOMAIN c.log /\ c.log[p] = o.log[i]
      BY <2>1, <2>2, <3>2 DEF InThread
    <3>4. o.answered[t] # 0
      BY <2>1, <3>2, <3>3
    <3>5. PICK r \in InThread(o, t) : TakesUp(o, t, r, o.answered[t])
      BY <3>4 DEF Sound, RepliesNamed
    <3>6. PICK k \in Comments(o, t) :
            k >= o.answered[t] /\ o.log[k].id = o.log[r].in_reply_to
      BY <3>5 DEF TakesUp
    <3>7. k \in DOMAIN o.log /\ k \in Nat /\ k >= i /\ r \in DOMAIN o.log
      BY <2>1, <3>2, <3>3, <3>6 DEF Comments, InThread
    <3> DEFINE m == Position(c.log, o, r)
               n == Position(c.log, o, k)
    <3>8. /\ m \in DOMAIN c.log /\ c.log[m] = o.log[r]
          /\ n \in DOMAIN c.log /\ c.log[n] = o.log[k]
      BY <2>2, <3>7
    <3> HIDE DEF m, n, p, S
    <3>9. n >= p
      <4>1. CASE k = i
        <5>1. n = p
          BY <1>2, <3>3, <3>8, <4>1 DEF Once
        <5> QED
          BY <2>1, <3>3, <5>1
      <4>2. CASE k # i
        <5>1. i < k
          BY <3>3, <3>7, <4>2
        <5>2. p < n
          BY <1>2, <3>3, <3>7, <3>8, <5>1 DEF InOrder
        <5> QED
          BY <2>1, <3>3, <3>8, <5>2
      <4> QED
        BY <4>1, <4>2
    <3>10. m \in InThread(c, t) /\ n \in Comments(c, t)
      BY <3>6, <3>8 DEF InThread, Comments
    <3> QED
      BY <2>8, <3>5, <3>6, <3>8, <3>9, <3>10 DEF TakesUp
  <2> QED
    BY <2>6, <2>7, <2>8
<1> QED
  BY <1>2, <1>5, <1>6, <1>7 DEF Sound, RepliesNamed, c

\* A comment of o waits in the merged book if it waits in each book that holds it.
LEMMA MergedWait ==
    ASSUME NEW b, Sound(b), NEW o, Sound(o), Meets(b, o), NEW t \in Threads,
           NEW id \in CommentsIn(o, t)
    PROVE  id \in WaitIn(Merge(b, o), t)
             <=> id \in WaitIn(o, t) /\ (id \in CommentsIn(b, t) => id \in WaitIn(b, t))
<1> DEFINE c == Merge(b, o)
<1>1. Sound(c) /\ Embeds(b, c, t) /\ Embeds(o, c, t)
  BY MergeIsSound, MergeEmbeds
<1>2. Starts(b, c) /\ Gathers(b, o, c) /\ InOrder(o, c) /\ Once(c)
  BY MergedLog DEF Sound
<1> HIDE DEF c
<1>3. /\ DOMAIN b.log = 1 .. Len(b.log) /\ Len(b.log) \in Nat
      /\ DOMAIN c.log \subseteq Nat /\ 0 \notin DOMAIN c.log /\ DOMAIN o.log \subseteq Nat
  BY <1>1 DEF Sound, Proper, Book
<1>4. PICK i \in Comments(o, t) : id = o.log[i].id
  BY DEF CommentsIn
<1>5. i \in InThread(o, t) /\ i \in DOMAIN o.log
  BY <1>4 DEF Comments, InThread
<1>6. PICK m \in DOMAIN c.log : c.log[m] = o.log[i]
  BY <1>2, <1>5 DEF Gathers
<1>7. m \in Comments(c, t) /\ m \in InThread(c, t)
  BY <1>4, <1>5, <1>6 DEF Comments, InThread
<1>8. \A x, k : Sound(x) /\ k \in Comments(x, t) /\ x.log[k].id = id =>
        (id \in WaitIn(x, t) <=> k \in Untaken(x, t))
  <2> SUFFICES ASSUME NEW x, NEW k, Sound(x), k \in Comments(x, t), x.log[k].id = id
               PROVE  id \in WaitIn(x, t) <=> k \in Untaken(x, t)
    OBVIOUS
  <2>1. WaitIn(x, t) = {x.log[n].id : n \in Untaken(x, t)}
    BY WaitsUnlessTaken
  <2>2. Once(x) /\ \A n \in Comments(x, t) : n \in DOMAIN x.log
    BY DEF Sound, Comments, InThread
  <2>3. \A n \in Untaken(x, t) : x.log[n].id = id => n = k
    BY <2>2 DEF Once, Untaken
  <2> QED
    BY <2>1, <2>3
<1>9. /\ id \in WaitIn(c, t) <=> m \in Untaken(c, t)
      /\ id \in WaitIn(o, t) <=> i \in Untaken(o, t)
  BY <1>1, <1>4, <1>6, <1>7, <1>8
<1>10. /\ id \in CommentsIn(b, t) <=> m \in Comments(b, t)
       /\ m \in Comments(b, t) => /\ m \in InThread(b, t) /\ b.log[m] = c.log[m]
                                  /\ (id \in WaitIn(b, t) <=> m \in Untaken(b, t))
  <2>1. ASSUME NEW k \in Comments(b, t)
        PROVE  k \in DOMAIN b.log /\ k \in DOMAIN c.log /\ b.log[k] = c.log[k]
    BY <1>2 DEF Comments, InThread, Starts
  <2>2. \A k \in Comments(b, t) : b.log[k].id = id => k = m
    BY <1>2, <1>4, <1>6, <2>1 DEF Once
  <2>3. m \in Comments(b, t) => b.log[m].id = id
    BY <1>4, <1>6, <2>1
  <2>4. id \in CommentsIn(b, t) <=> m \in Comments(b, t)
    BY <2>2, <2>3 DEF CommentsIn
  <2>5. m \in Comments(b, t) => m \in InThread(b, t)
    BY DEF Comments
  <2> QED
    BY <1>8, <2>1, <2>3, <2>4, <2>5
<1>11. ASSUME NEW r \in InThread(o, t), TakesUp(o, t, r, i)
       PROVE  \E s \in InThread(c, t) : TakesUp(c, t, s, m)
  <2>1. PICK s \in DOMAIN c.log : c.log[s] = o.log[r]
    BY <1>1 DEF Embeds
  <2> QED
    BY <1>1, <1>5, <1>6, <1>11, <2>1, TakesUpThere
<1>12. ASSUME m \in Comments(b, t), NEW r \in InThread(b, t), TakesUp(b, t, r, m)
       PROVE  \E s \in InThread(c, t) : TakesUp(c, t, s, m)
  <2>1. PICK s \in DOMAIN c.log : c.log[s] = b.log[r]
    BY <1>1 DEF Embeds
  <2> QED
    BY <1>1, <1>10, <1>12, <2>1, TakesUpThere
<1>13. ASSUME NEW s \in InThread(c, t), TakesUp(c, t, s, m)
       PROVE  \/ \E r \in InThread(o, t) : TakesUp(o, t, r, i)
              \/ m \in Comments(b, t) /\ \E r \in InThread(b, t) : TakesUp(b, t, r, m)
  <2>1. PICK k \in Comments(c, t) : k >= m /\ c.log[k].id = c.log[s].in_reply_to
    BY <1>13 DEF TakesUp
  <2>2. k \in DOMAIN c.log /\ k \in Nat /\ m \in Nat /\ s \in DOMAIN c.log
        /\ c.log[s].thread = t /\ c.log[s].from = "agent"
    BY <1>3, <1>13, <2>1 DEF Comments, InThread, TakesUp
  <2>3. CASE s \in DOMAIN b.log
    <3>1. c.log[s] = b.log[s] /\ s \in InThread(b, t)
      BY <1>2, <2>2, <2>3 DEF Starts, InThread
    <3>2. TakesUp(b, t, s, 0)
      BY <2>2, <3>1 DEF Sound, RepliesNamed
    <3>3. PICK n \in Comments(b, t) : b.log[n].id = b.log[s].in_reply_to
      BY <3>2 DEF TakesUp
    <3>4. n \in DOMAIN b.log /\ n \in DOMAIN c.log /\ c.log[n] = b.log[n]
      BY <1>2, <3>3 DEF Starts, Comments, InThread
    <3>5. n = k
      BY <1>2, <2>1, <2>2, <3>1, <3>3, <3>4 DEF Once
    <3>6. m \in DOMAIN b.log
      <4>1. m <= k /\ k \in 1 .. Len(b.log) /\ m # 0
        BY <1>3, <1>6, <2>1, <2>2, <3>4, <3>5
      <4> QED
        BY <1>3, <2>2, <4>1
    <3>7. m \in Comments(b, t)
      BY <1>2, <1>7, <3>6 DEF Starts, Comments, InThread
    <3>8. TakesUp(b, t, s, m)
      BY <2>1, <2>2, <3>1, <3>3, <3>5 DEF TakesUp
    <3> QED
      BY <3>1, <3>7, <3>8
  <2>4. CASE s \notin DOMAIN b.log
    <3>1. PICK r \in Lacking(b, o) : c.log[s] = o.log[r]
      BY <1>2, <2>2, <2>4 DEF Gathers
    <3>2. r \in InThread(o, t) /\ o.log[r].from = "agent"
      BY <2>2, <3>1 DEF Lacking, InThread
    <3>3. TakesUp(o, t, r, 0)
      BY <3>2 DEF Sound, RepliesNamed
    <3>4. PICK n \in Comments(o, t) : o.log[n].id = o.log[r].in_reply_to
      BY <3>3 DEF TakesUp
    <3>5. n \in DOMAIN o.log
      BY <3>4 DEF Comments, InThread
    <3>6. PICK p \in DOMAIN c.log : c.log[p] = o.log[n]
      BY <1>2, <3>5 DEF Gathers
    <3>7. p = k
      BY <1>2, <2>1, <2>2, <3>1, <3>4, <3>6 DEF Once
    <3>8. n < i => k < m
      BY <1>2, <1>5, <1>6, <3>5, <3>6, <3>7 DEF InOrder
    <3>9. n >= i
      BY <1>3, <1>5, <2>1, <2>2, <3>5, <3>8
    <3> QED
      BY <3>2, <3>4, <3>9 DEF TakesUp
  <2> QED
    BY <2>3, <2>4
<1> QED
  BY <1>4, <1>7, <1>9, <1>10, <1>11, <1>12, <1>13 DEF Untaken, c

\* A thread to which nothing arrives stays as it is.
LEMMA MergedPending ==
    ASSUME NEW b, Sound(b), NEW o, Sound(o), Meets(b, o), NEW t \in Threads,
           InThread(o, t) \cap Lacking(b, o) = {}
    PROVE  Pending(Merge(b, o), t) = Pending(b, t)
<1> DEFINE c == Merge(b, o)
<1>1. Sound(c)
  BY MergeIsSound
<1>2. Starts(b, c) /\ Gathers(b, o, c) /\ Once(c)
  BY MergedLog DEF Sound
<1>3. c.open[t] = MergedResolution(b, o, t)
  BY DEF Merge
<1> HIDE DEF c
<1>4. InThread(c, t) = InThread(b, t) /\ \A i \in InThread(b, t) : c.log[i] = b.log[i]
  <2>1. \A n \in InThread(c, t) : n \in DOMAIN b.log
    <3> SUFFICES ASSUME NEW n \in InThread(c, t), n \notin DOMAIN b.log
                 PROVE  FALSE
      OBVIOUS
    <3>1. PICK i \in Lacking(b, o) : c.log[n] = o.log[i]
      BY <1>2 DEF Gathers, InThread
    <3> QED
      BY <3>1 DEF Lacking, InThread
  <2> QED
    BY <1>2, <2>1 DEF Starts, InThread
<1>5. Comments(c, t) = Comments(b, t) /\ \A i \in Comments(b, t) : c.log[i] = b.log[i]
  BY <1>4 DEF Comments
<1>6. \A k : \A r \in InThread(b, t) : TakesUp(c, t, r, k) <=> TakesUp(b, t, r, k)
  BY <1>4, <1>5 DEF TakesUp
<1>7. b.open[t] # "absent" => c.open[t] = b.open[t]
  BY <1>3 DEF MergedResolution
<1>8. b.open[t] = "absent" => Comments(b, t) = {}
  BY DEF Sound, ThreadsOpened, Comments
<1>9. ASSUME NEW x, Sound(x), x.open[t] = "open"
      PROVE  Pending(x, t) <=>
               \E k \in Comments(x, t) : ~ \E r \in InThread(x, t) : TakesUp(x, t, r, k)
  <2>1. x \in Book /\ RepliesNamed(x)
        /\ \A i, j \in DOMAIN x.log : x.log[i].id = x.log[j].id => i = j
    BY <1>9 DEF Sound, Proper, Once
  <2> QED
    BY <1>9, <2>1, WaitsUntilTakenUp
<1>10. \A x : Pending(x, t) => x.open[t] = "open"
  BY DEF Pending
<1>11. CASE b.open[t] = "open"
  <2>1. Pending(b, t) <=>
          \E k \in Comments(b, t) : ~ \E r \in InThread(b, t) : TakesUp(b, t, r, k)
    BY <1>9, <1>11
  <2>2. Pending(c, t) <=>
          \E k \in Comments(c, t) : ~ \E r \in InThread(c, t) : TakesUp(c, t, r, k)
    BY <1>1, <1>7, <1>9, <1>11
  <2>3. Pending(c, t) <=> Pending(b, t)
    BY <1>4, <1>5, <1>6, <2>1, <2>2
  <2> QED
    BY <2>3 DEF Pending, c
<1>12. CASE b.open[t] # "open"
  <2>1. ~Pending(b, t)
    BY <1>10, <1>12
  <2>2. CASE b.open[t] = "absent"
    <3>1. c.open[t] = "open" => ~Pending(c, t)
      BY <1>1, <1>5, <1>8, <1>9, <2>2
    <3> QED
      BY <1>10, <2>1, <3>1 DEF Pending, c
  <2>3. CASE b.open[t] # "absent"
    BY <1>7, <1>10, <1>12, <2>1, <2>3 DEF Pending, c
  <2> QED
    BY <2>2, <2>3
<1> QED
  BY <1>11, <1>12 DEF Pending, c

\* Two books that are the same in a thread are so after the same merge.
LEMMA MergedAlike ==
    ASSUME NEW a, Sound(a), NEW b, Sound(b), NEW o, Sound(o), Meets(a, o), Meets(b, o),
           NEW t \in Threads, Embeds(a, b, t), Embeds(b, a, t)
    PROVE  Embeds(Merge(a, o), Merge(b, o), t)
<1> DEFINE c == Merge(a, o)
           d == Merge(b, o)
<1>1. /\ Sound(c) /\ Starts(a, c) /\ Gathers(a, o, c) /\ InOrder(o, c) /\ Once(c)
      /\ Sound(d) /\ Starts(b, d) /\ Gathers(b, o, d) /\ InOrder(o, d) /\ Once(d)
  BY MergeIsSound, MergedLog DEF Sound
<1> HIDE DEF c, d
<1>2. /\ DOMAIN a.log = 1 .. Len(a.log) /\ Len(a.log) \in Nat
      /\ DOMAIN b.log = 1 .. Len(b.log) /\ Len(b.log) \in Nat
      /\ DOMAIN c.log \subseteq Nat /\ DOMAIN d.log \subseteq Nat /\ DOMAIN o.log \subseteq Nat
  BY <1>1 DEF Sound, Proper, Book
<1>3. ASSUME NEW i \in InThread(c, t), i \in DOMAIN a.log
      PROVE  i \in InThread(a, t) /\ c.log[i] = a.log[i]
  BY <1>1, <1>3 DEF Starts, InThread
<1>4. ASSUME NEW i \in InThread(c, t), i \notin DOMAIN a.log
      PROVE  \E q \in Lacking(a, o) :
               q \in DOMAIN o.log /\ o.log[q].thread = t /\ c.log[i] = o.log[q]
  BY <1>1, <1>4 DEF Gathers, InThread, Lacking
<1>5. ASSUME NEW p \in InThread(a, t), NEW n \in DOMAIN d.log, d.log[n] = a.log[p]
      PROVE  n \in DOMAIN b.log /\ b.log[n] = a.log[p]
  <2>1. PICK k \in DOMAIN b.log : b.log[k] = a.log[p]
    BY DEF Embeds
  <2>2. k \in DOMAIN d.log /\ d.log[k] = b.log[k]
    BY <1>1, <2>1 DEF Starts
  <2>3. k = n
    BY <1>1, <1>5, <2>1, <2>2 DEF Once
  <2> QED
    BY <2>1, <2>3
<1>6. ASSUME NEW q \in Lacking(a, o), o.log[q].thread = t, NEW n \in DOMAIN d.log,
             d.log[n] = o.log[q]
      PROVE  n \notin DOMAIN b.log
  <2> SUFFICES ASSUME n \in DOMAIN b.log PROVE FALSE
    OBVIOUS
  <2>1. n \in InThread(b, t) /\ b.log[n] = o.log[q]
    BY <1>1, <1>6 DEF Starts, InThread
  <2>2. PICK k \in DOMAIN a.log : a.log[k] = o.log[q]
    BY <2>1 DEF Embeds
  <2> QED
    BY <2>2 DEF Lacking, Known
<1>7. ASSUME NEW i \in InThread(c, t)
      PROVE  \E n \in DOMAIN d.log : d.log[n] = c.log[i]
  <2>1. CASE i \in DOMAIN a.log
    <3>1. PICK k \in DOMAIN b.log : b.log[k] = c.log[i]
      BY <1>3, <2>1 DEF Embeds
    <3> QED
      BY <1>1, <3>1 DEF Starts
  <2>2. CASE i \notin DOMAIN a.log
    BY <1>1, <1>4, <2>2 DEF Gathers
  <2> QED
    BY <2>1, <2>2
<1>8. ASSUME NEW i \in InThread(c, t), NEW j \in InThread(c, t),
             NEW m \in DOMAIN d.log, NEW n \in DOMAIN d.log,
             i < j, d.log[m] = c.log[i], d.log[n] = c.log[j]
      PROVE  m < n
  <2>1. i \in DOMAIN c.log /\ j \in DOMAIN c.log /\ i \in Nat /\ j \in Nat /\ m \in Nat /\ n \in Nat
    BY <1>2 DEF InThread
  <2>2. CASE j \in DOMAIN a.log
    <3>1. i \in DOMAIN a.log
      <4>1. i \in DOMAIN a.log \/ i > Len(a.log)
        BY <1>1, <2>1 DEF Starts
      <4> QED
        BY <1>2, <1>8, <2>1, <2>2, <4>1
    <3>2. /\ i \in InThread(a, t) /\ j \in InThread(a, t)
          /\ d.log[m] = a.log[i] /\ d.log[n] = a.log[j]
      BY <1>3, <1>8, <2>2, <3>1
    <3>3. /\ m \in DOMAIN b.log /\ b.log[m] = a.log[i]
          /\ n \in DOMAIN b.log /\ b.log[n] = a.log[j]
      BY <1>5, <3>2
    <3> QED
      BY <1>8, <3>2, <3>3 DEF Embeds
  <2>3. CASE j \notin DOMAIN a.log /\ i \in DOMAIN a.log
    <3>1. PICK q \in Lacking(a, o) : o.log[q].thread = t /\ c.log[j] = o.log[q]
      BY <1>4, <2>3
    <3>2. n \notin DOMAIN b.log
      BY <1>6, <1>8, <3>1
    <3>3. n > Len(b.log)
      BY <1>1, <3>2 DEF Starts
    <3>4. m \in DOMAIN b.log
      BY <1>3, <1>5, <1>8, <2>3
    <3> QED
      BY <1>2, <2>1, <3>3, <3>4
  <2>4. CASE j \notin DOMAIN a.log /\ i \notin DOMAIN a.log
    <3>1. PICK p \in Lacking(a, o) : p \in DOMAIN o.log /\ c.log[i] = o.log[p]
      BY <1>4, <2>4
    <3>2. PICK q \in Lacking(a, o) : q \in DOMAIN o.log /\ c.log[j] = o.log[q]
      BY <1>4, <2>4
    <3>3. p \in Nat /\ q \in Nat
      BY <1>2, <3>1, <3>2
    <3>4. ~(q < p)
      <4>1. q < p => j < i
        BY <1>1, <2>1, <3>1, <3>2 DEF InOrder
      <4> QED
        BY <1>8, <2>1, <4>1
    <3>5. p # q
      <4>1. p = q => i = j
        BY <1>1, <2>1, <3>1, <3>2 DEF Once
      <4> QED
        BY <1>8, <2>1, <4>1
    <3>6. p < q
      BY <3>3, <3>4, <3>5
    <3> QED
      BY <1>1, <1>8, <3>1, <3>2, <3>6 DEF InOrder
  <2> QED
    BY <2>2, <2>3, <2>4
<1> QED
  BY <1>7, <1>8 DEF Embeds, c, d

\* A book without the thread leaves it as it is.
LEMMA MergedElsewhere ==
    ASSUME NEW b, Sound(b), NEW o, Sound(o), Meets(b, o), NEW t \in Threads,
           o.open[t] = "absent"
    PROVE  /\ Embeds(b, Merge(b, o), t) /\ Embeds(Merge(b, o), b, t)
           /\ Merge(b, o).open[t] = b.open[t]
<1> DEFINE c == Merge(b, o)
<1>1. Starts(b, c) /\ Gathers(b, o, c) /\ Once(c) /\ Embeds(b, c, t)
  BY MergedLog, MergeEmbeds DEF Sound
<1>2. c.open[t] = MergedResolution(b, o, t)
  BY DEF Merge
<1> HIDE DEF c
<1>3. c.open[t] = b.open[t]
  BY <1>2 DEF MergedResolution
<1>4. ASSUME NEW n \in InThread(c, t)
      PROVE  n \in DOMAIN b.log /\ c.log[n] = b.log[n]
  <2>1. InThread(o, t) = {}
    BY DEF Sound, ThreadsOpened
  <2>2. n \in DOMAIN b.log
    BY <1>1, <2>1 DEF Gathers, InThread, Lacking
  <2> QED
    BY <1>1, <2>2 DEF Starts
<1>5. \A n \in InThread(c, t), m \in DOMAIN b.log : b.log[m] = c.log[n] => m = n
  BY <1>4 DEF Sound, Once
<1>6. Embeds(c, b, t)
  BY <1>4, <1>5 DEF Embeds
<1> QED
  BY <1>1, <1>3, <1>6 DEF c

\* A book that another meets still does so after a merge, with itself or with one apart.
LEMMA MeetsOn ==
    ASSUME NEW b, Sound(b), NEW o, Sound(o), Meets(b, o)
    PROVE  /\ Meets(Merge(b, o), o)
           /\ \A e : Meets(b, e) /\ Ids(e) \cap Ids(o) = {} => Meets(Merge(b, o), e)
<1> DEFINE c == Merge(b, o)
<1>1. Starts(b, c) /\ Gathers(b, o, c) /\ InOrder(o, c) /\ Once(c)
  BY MergedLog DEF Sound
<1> HIDE DEF c
<1>2. Meets(c, o)
  <2>1. ASSUME NEW j \in DOMAIN o.log
        PROVE  \E n \in DOMAIN c.log : c.log[n] = o.log[j]
    BY <1>1 DEF Gathers
  <2> QED
    BY <1>1, <2>1 DEF InOrder, Meets
<1>3. ASSUME NEW e, Meets(b, e), Ids(e) \cap Ids(o) = {}
      PROVE  Meets(c, e)
  <2>1. ASSUME NEW j \in DOMAIN e.log, Known(c, e.log[j].id)
        PROVE  Known(b, e.log[j].id)
    <3>1. PICK n \in DOMAIN c.log : c.log[n].id = e.log[j].id
      BY <2>1 DEF Known
    <3>2. \A i \in Lacking(b, o) : o.log[i].id \in Ids(o)
      BY DEF Ids, Lacking
    <3>3. e.log[j].id \in Ids(e)
      BY DEF Ids
    <3>4. n \in DOMAIN b.log
      BY <1>1, <1>3, <3>1, <3>2, <3>3 DEF Gathers
    <3> QED
      BY <1>1, <3>1, <3>4 DEF Starts, Known
  <2>2. \A n \in DOMAIN b.log : n \in DOMAIN c.log /\ c.log[n] = b.log[n]
    BY <1>1 DEF Starts
  <2>3. ASSUME NEW j \in DOMAIN e.log, Known(c, e.log[j].id)
        PROVE  \E n \in DOMAIN c.log : c.log[n] = e.log[j]
    BY <1>3, <2>1, <2>2, <2>3 DEF Meets
  <2>4. ASSUME NEW i \in DOMAIN e.log, NEW j \in DOMAIN e.log, i < j, Known(c, e.log[j].id)
        PROVE  \E m, n \in DOMAIN c.log : m < n /\ c.log[m] = e.log[i] /\ c.log[n] = e.log[j]
    <3>1. PICK m, n \in DOMAIN b.log : m < n /\ b.log[m] = e.log[i] /\ b.log[n] = e.log[j]
      BY <1>3, <2>1, <2>4 DEF Meets
    <3> QED
      BY <2>2, <3>1
  <2> QED
    BY <2>3, <2>4 DEF Meets
<1> QED
  BY <1>2, <1>3 DEF c

\* Two books with nothing in common can be merged in either order.
LEMMA MergedEitherWay ==
    ASSUME NEW b, Sound(b), NEW o, Sound(o), NEW e, Sound(e), Meets(b, o), Meets(b, e),
           Ids(e) \cap Ids(o) = {}, NEW t \in Threads, o.open[t] = "absent"
    PROVE  /\ Merge(Merge(b, o), e).open[t] = Merge(Merge(b, e), o).open[t]
           /\ WaitIn(Merge(Merge(b, o), e), t) = WaitIn(Merge(Merge(b, e), o), t)
<1> DEFINE x == Merge(b, o)
           y == Merge(b, e)
           one == Merge(x, e)
           other == Merge(y, o)
<1>1. Sound(x) /\ Sound(y) /\ Meets(x, e) /\ Meets(y, o)
  BY MergeIsSound, MeetsOn
<1>2. Embeds(b, x, t) /\ Embeds(x, b, t) /\ x.open[t] = b.open[t]
  BY MergedElsewhere
<1>3. y.open[t] = MergedResolution(b, e, t)
  BY DEF Merge
<1>4. Ids(x) = Ids(b) \cup Ids(o)
  BY MergeHoldsBoth DEF Sound
<1> HIDE DEF x, y
<1>5. Sound(one) /\ Sound(other)
  BY <1>1, MergeIsSound
<1>6. Embeds(y, other, t) /\ Embeds(other, y, t) /\ other.open[t] = y.open[t]
  BY <1>1, MergedElsewhere
<1>7. Embeds(one, y, t) /\ Embeds(y, one, t)
  BY <1>1, <1>2, MergedAlike DEF y
<1>8. one.open[t] = MergedResolution(x, e, t)
  BY DEF Merge
<1> HIDE DEF one, other
<1>9. WaitIn(one, t) = WaitIn(y, t)
  <2>1. WaitIn(one, t) \subseteq WaitIn(y, t)
    BY <1>1, <1>5, <1>7, WaitsThere
  <2>2. WaitIn(y, t) \subseteq WaitIn(one, t)
    BY <1>1, <1>5, <1>7, WaitsThere
  <2> QED
    BY <2>1, <2>2
<1>10. WaitIn(other, t) = WaitIn(y, t)
  <2>1. WaitIn(other, t) \subseteq WaitIn(y, t)
    BY <1>1, <1>5, <1>6, WaitsThere
  <2>2. WaitIn(y, t) \subseteq WaitIn(other, t)
    BY <1>1, <1>5, <1>6, WaitsThere
  <2> QED
    BY <2>1, <2>2
<1>11. Lacking(x, e) = Lacking(b, e)
  <2>1. \A c, id : Known(c, id) <=> id \in Ids(c)
    BY DEF Known, Ids
  <2>2. \A i \in DOMAIN e.log : e.log[i].id \in Ids(e)
    BY DEF Ids
  <2>3. \A i \in DOMAIN e.log : Known(x, e.log[i].id) <=> Known(b, e.log[i].id)
    BY <1>4, <2>1, <2>2
  <2> QED
    BY <2>3 DEF Lacking
<1>12. one.open[t] = other.open[t]
  BY <1>2, <1>3, <1>6, <1>8, <1>11 DEF MergedResolution
<1> QED
  BY <1>9, <1>10, <1>12 DEF one, other, x, y

-----------------------------------------------------------------------------
(* What a write does to a book, as far as merges tell. *)

\* The book c is sound, and has b's log, or one message more that no book holds.
Writes(b, c) ==
    /\ Sound(c)
    /\ \/ c.log = b.log
       \/ \E m \in Message : m.id \notin Everything /\ c.log = Append(b.log, m)

\* A message that a book does not know is stored once there.
LEMMA OnceAppended ==
    ASSUME NEW b, Sound(b), NEW c, c \in Book, NEW m \in Message, ~Known(b, m.id),
           c.log = Append(b.log, m)
    PROVE  Once(c)
<1>1. b \in Book /\ Once(b)
  BY DEF Sound, Proper
<1>2. /\ DOMAIN c.log = DOMAIN b.log \cup {Len(b.log) + 1}
      /\ c.log[Len(b.log) + 1] = m
      /\ \A i \in DOMAIN b.log : c.log[i] = b.log[i]
  BY <1>1, Appended
<1>3. \A i \in DOMAIN b.log : b.log[i].id # m.id
  BY DEF Known
<1> QED
  BY <1>1, <1>2, <1>3 DEF Once

\* A comment, a reply and a resolution write a sound book, and open no other thread.
LEMMA CommentedWrites ==
    ASSUME NEW b, Sound(b), Ids(b) \subseteq Everything, NEW id \in MessageIds,
           id \notin Everything, NEW t \in Threads
    PROVE  /\ Writes(b, Commented(b, id, t))
           /\ \A u \in Threads \ {t} : Commented(b, id, t).open[u] = b.open[u]
<1> DEFINE m == [id |-> id, thread |-> t, from |-> CHOOSE tab \in Tabs : TRUE,
                 in_reply_to |-> NoMessage]
<1>1. m \in Message /\ m.id = id /\ m.thread = t /\ m.from # "agent"
  BY MigrationAssumption, ThreadsAssumption DEF Message, Authors
<1>2. Commented(b, id, t) = Post(b, m)
  BY DEF Commented
<1> HIDE DEF m
<1>3. b \in Proper /\ b \in Book /\ ThreadsOpened(b) /\ RepliesNamed(b)
  BY DEF Sound, Proper
<1>4. ~Known(b, m.id)
  BY <1>1 DEF Known, Ids
<1>5. /\ Post(b, m).log = Append(b.log, m)
      /\ \A u \in Threads \ {t} : Post(b, m).open[u] = b.open[u]
  BY <1>1, <1>3, <1>4, PostFields
<1>6. /\ Post(b, m) \in Proper /\ Post(b, m) \in Book
      /\ ThreadsOpened(Post(b, m)) /\ RepliesNamed(Post(b, m))
  BY <1>1, <1>3, PostIsProper, PostStores, PostKeeps
<1>7. Once(Post(b, m))
  BY <1>1, <1>4, <1>5, <1>6, OnceAppended
<1> QED
  BY <1>1, <1>2, <1>5, <1>6, <1>7 DEF Writes, Sound

LEMMA RepliedWrites ==
    ASSUME NEW b, Sound(b), Ids(b) \subseteq Everything, NEW id \in MessageIds,
           id \notin Everything, NEW i \in DOMAIN b.log, b.log[i].from # "agent"
    PROVE  /\ Writes(b, Replied(b, id, b.log[i]))
           /\ Replied(b, id, b.log[i]).open = b.open
<1> DEFINE c == b.log[i]
           m == [id |-> id, thread |-> c.thread, from |-> "agent", in_reply_to |-> c.id]
<1>1. b \in Proper /\ b \in Book /\ b.log \in Seq(Message) /\ ThreadsOpened(b) /\ RepliesNamed(b)
  BY DEF Sound, Proper, Book
<1>2. c \in Message
  BY <1>1
<1>3. m \in Message /\ m.id = id /\ m.from = "agent" /\ m.in_reply_to = c.id
  BY <1>2 DEF Message, Authors
<1>4. CanAnswer(b, m)
  <2>1. i \in Comments(b, m.thread)
    BY DEF Comments, InThread
  <2> QED
    BY <2>1 DEF CanAnswer
<1>5. Replied(b, id, c) = Answer(b, m)
  BY DEF Replied
<1> HIDE DEF m
<1>6. ~Known(b, m.id)
  BY <1>3 DEF Known, Ids
<1>7. Answer(b, m).log = Append(b.log, m)
  BY <1>1, <1>3, <1>4, <1>6, AnswerFields, PostFields
<1>8. /\ Answer(b, m) \in Proper /\ Answer(b, m) \in Book
      /\ ThreadsOpened(Answer(b, m)) /\ RepliesNamed(Answer(b, m))
      /\ Answer(b, m).open = b.open
  BY <1>1, <1>3, <1>4, <1>6, AnswerIsProper, AnswerStores, AnswerKeeps
<1>9. Once(Answer(b, m))
  BY <1>3, <1>6, <1>7, <1>8, OnceAppended
<1> QED
  BY <1>3, <1>5, <1>7, <1>8, <1>9 DEF Writes, Sound

LEMMA ResolvedWrites ==
    ASSUME NEW b, Sound(b), NEW t \in Threads, NEW r \in {"open", "resolved"}
    PROVE  /\ Writes(b, SetResolution(b, t, r))
           /\ \A u \in Threads \ {t} : SetResolution(b, t, r).open[u] = b.open[u]
<1>1. b \in Proper /\ b \in Book /\ b.open \in [Threads -> Resolution] /\ r \in Resolution \ {"absent"}
  BY DEF Sound, Proper, Book, Resolution
<1>2. /\ SetResolution(b, t, r) \in Proper
      /\ ThreadsOpened(SetResolution(b, t, r)) /\ RepliesNamed(SetResolution(b, t, r))
      /\ SetResolution(b, t, r).log = b.log
      /\ SetResolution(b, t, r).open = [b.open EXCEPT ![t] = r]
  BY <1>1, ResolutionIsProper, ResolutionKeeps DEF Sound
<1>3. Once(SetResolution(b, t, r))
  BY <1>2 DEF Sound, Once
<1> QED
  BY <1>1, <1>2, <1>3 DEF Writes, Sound

\* A write adds the identity of a new message at most.
LEMMA WrittenIds ==
    ASSUME NEW b, Sound(b), NEW c, Writes(b, c)
    PROVE  /\ Ids(b) \subseteq Ids(c)
           /\ \A id \in Ids(c) : id \in Ids(b) \/ id \notin Everything
<1>1. b \in Book /\ c \in Book
  BY DEF Writes, Sound, Proper
<1>2. CASE c.log = b.log
  BY <1>2 DEF Ids
<1>3. CASE \E m \in Message : m.id \notin Everything /\ c.log = Append(b.log, m)
  <2>1. PICK m \in Message : m.id \notin Everything /\ c.log = Append(b.log, m)
    BY <1>3
  <2>2. /\ DOMAIN c.log = DOMAIN b.log \cup {Len(b.log) + 1}
        /\ c.log[Len(b.log) + 1] = m
        /\ \A i \in DOMAIN b.log : c.log[i] = b.log[i]
    BY <1>1, <2>1, Appended
  <2> QED
    BY <2>1, <2>2 DEF Ids
<1> QED
  BY <1>2, <1>3 DEF Writes

\* Books meet as before when one of them stores a message that no book holds.
LEMMA MeetsAfterWrite ==
    ASSUME NEW b, Sound(b), NEW o, Sound(o), Meets(b, o), Ids(b) \subseteq Everything,
           Ids(o) \subseteq Everything, NEW c
    PROVE  /\ Writes(b, c) => Meets(c, o)
           /\ Writes(o, c) => Meets(b, c)
<1>1. b \in Book /\ o \in Book
  BY DEF Sound, Proper
<1>2. ASSUME Writes(b, c)
      PROVE  Meets(c, o)
  <2>1. c \in Book
    BY <1>2 DEF Writes, Sound, Proper
  <2>2. \A i \in DOMAIN b.log : i \in DOMAIN c.log /\ c.log[i] = b.log[i]
    <3>1. CASE c.log = b.log
      BY <3>1
    <3>2. CASE \E m \in Message : c.log = Append(b.log, m)
      BY <1>1, <2>1, <3>2, Appended
    <3> QED
      BY <1>2, <3>1, <3>2 DEF Writes
  <2>3. ASSUME NEW j \in DOMAIN o.log, Known(c, o.log[j].id)
        PROVE  Known(b, o.log[j].id)
    <3>1. o.log[j].id \in Ids(c) /\ o.log[j].id \in Everything
      BY <2>3 DEF Known, Ids
    <3>2. o.log[j].id \in Ids(b)
      BY <1>2, <3>1, WrittenIds
    <3> QED
      BY <3>2 DEF Known, Ids
  <2>4. \A j \in DOMAIN o.log :
          Known(c, o.log[j].id) => \E n \in DOMAIN c.log : c.log[n] = o.log[j]
    BY <2>2, <2>3 DEF Meets
  <2>5. \A i, j \in DOMAIN o.log : i < j /\ Known(c, o.log[j].id) =>
          \E m, n \in DOMAIN c.log : m < n /\ c.log[m] = o.log[i] /\ c.log[n] = o.log[j]
    <3> SUFFICES ASSUME NEW i \in DOMAIN o.log, NEW j \in DOMAIN o.log, i < j,
                        Known(c, o.log[j].id)
                 PROVE  \E m, n \in DOMAIN c.log :
                          m < n /\ c.log[m] = o.log[i] /\ c.log[n] = o.log[j]
      OBVIOUS
    <3>1. PICK m, n \in DOMAIN b.log : m < n /\ b.log[m] = o.log[i] /\ b.log[n] = o.log[j]
      BY <2>3 DEF Meets
    <3> QED
      BY <2>2, <3>1
  <2> QED
    BY <2>4, <2>5 DEF Meets
<1>3. ASSUME Writes(o, c)
      PROVE  Meets(b, c)
  <2>1. c \in Book /\ DOMAIN c.log \subseteq Nat /\ DOMAIN o.log = 1 .. Len(o.log)
        /\ Len(o.log) \in Nat
    BY <1>1, <1>3 DEF Writes, Sound, Proper, Book
  <2>2. /\ DOMAIN o.log \subseteq DOMAIN c.log
        /\ DOMAIN c.log \subseteq DOMAIN o.log \cup {Len(o.log) + 1}
        /\ \A i \in DOMAIN o.log : c.log[i] = o.log[i]
        /\ \A i \in DOMAIN c.log \ DOMAIN o.log : c.log[i].id \notin Everything
    <3>1. CASE c.log = o.log
      BY <3>1
    <3>2. CASE \E m \in Message : m.id \notin Everything /\ c.log = Append(o.log, m)
      BY <1>1, <2>1, <3>2, Appended
    <3> QED
      BY <1>3, <3>1, <3>2 DEF Writes
  <2>3. ASSUME NEW j \in DOMAIN c.log, Known(b, c.log[j].id)
        PROVE  j \in DOMAIN o.log /\ c.log[j] = o.log[j] /\ Known(b, o.log[j].id)
    <3>1. c.log[j].id \in Everything
      BY <2>3 DEF Known, Ids
    <3> QED
      BY <2>2, <2>3, <3>1
  <2>4. \A j \in DOMAIN c.log :
          Known(b, c.log[j].id) => \E n \in DOMAIN b.log : b.log[n] = c.log[j]
    BY <2>3 DEF Meets
  <2>5. \A i, j \in DOMAIN c.log : i < j /\ Known(b, c.log[j].id) =>
          \E m, n \in DOMAIN b.log : m < n /\ b.log[m] = c.log[i] /\ b.log[n] = c.log[j]
    <3> SUFFICES ASSUME NEW i \in DOMAIN c.log, NEW j \in DOMAIN c.log, i < j,
                        Known(b, c.log[j].id)
                 PROVE  \E m, n \in DOMAIN b.log :
                          m < n /\ b.log[m] = c.log[i] /\ b.log[n] = c.log[j]
      OBVIOUS
    <3>1. j \in DOMAIN o.log /\ c.log[j] = o.log[j] /\ Known(b, o.log[j].id)
      BY <2>3
    <3>2. i \in DOMAIN o.log /\ c.log[i] = o.log[i]
      BY <2>1, <2>2, <3>1
    <3> QED
      BY <3>1, <3>2 DEF Meets
  <2> QED
    BY <2>4, <2>5 DEF Meets
<1> QED
  BY <1>2, <1>3

-----------------------------------------------------------------------------
(* The folders of workspaces stay apart. *)

\* Workspace w keeps thread t, in its folder or in one that moved.
Kept(w, t) ==
    \/ w \in Present /\ folders[w].open[t] # "absent"
    \/ \E r \in retired[w] : r.open[t] # "absent"

\* The shared book meets every folder; no two workspaces hold a message or keep a thread.
ApartInv ==
    /\ Sound(shared)
    /\ \A w \in Present : Sound(folders[w]) /\ Meets(shared, folders[w])
    /\ \A v, w \in Present : v # w => Ids(folders[v]) \cap Ids(folders[w]) = {}
    /\ \A v, w \in Workspaces : v # w => \A t \in Threads : ~(Kept(v, t) /\ Kept(w, t))

\* A folder that is created is sound.
LEMMA EmptyIsSound == Sound(EmptyBook)
<1>1. EmptyBook.log = <<>> /\ DOMAIN EmptyBook.log = {}
  BY DEF EmptyBook
<1>2. \A t \in Threads : InThread(EmptyBook, t) = {} /\ EmptyBook.answered[t] = 0
  BY <1>1 DEF InThread, EmptyBook
<1> QED
  BY <1>1, <1>2, EmptyIsProper DEF Sound, ThreadsOpened, RepliesNamed, Once

LEMMA InitApart ==
    ASSUME Init
    PROVE  ApartInv
<1>1. Present = {} /\ shared = EmptyBook /\ \A w \in Workspaces : retired[w] = {}
  BY DEF Init, Present
<1> QED
  BY <1>1, EmptyIsSound DEF ApartInv, Kept

\* What is not a thread of a book anywhere is kept by no workspace.
LEMMA NewIsKeptNowhere ==
    ASSUME NEW t, New(t), NEW v \in Workspaces
    PROVE  ~Kept(v, t)
BY DEF New, Kept

\* The folder that an earlier build writes, or the empty one it starts from, is sound.
LEMMA WrittenIsSound ==
    ASSUME ApartInv, NEW w \in Workspaces
    PROVE  /\ Sound(Written(w)) /\ Meets(shared, Written(w))
           /\ Ids(Written(w)) \subseteq Everything
           /\ w \in Present => Written(w) = folders[w]
           /\ w \notin Present => Ids(Written(w)) = {} /\ \A t \in Threads : Written(w).open[t] = "absent"
<1>1. CASE w \in Present
  BY <1>1 DEF ApartInv, Written, Present, Everything
<1>2. CASE w \notin Present
  <2>1. Written(w) = EmptyBook
    BY <1>2 DEF Written, Present
  <2>2. EmptyBook.log = <<>> /\ \A t \in Threads : EmptyBook.open[t] = "absent"
    BY DEF EmptyBook
  <2>3. DOMAIN EmptyBook.log = {}
    BY <2>2
  <2>4. Meets(shared, EmptyBook) /\ Ids(EmptyBook) = {}
    BY <2>3 DEF Meets, Ids
  <2> QED
    BY <1>2, <2>1, <2>2, <2>4, EmptyIsSound
<1> QED
  BY <1>1, <1>2

\* An earlier build writes threads of its own folder, new ones, and those of the folder
\* that moved.
LEMMA EarlierBuildKeeps ==
    ASSUME ApartInv, NEW w \in Workspaces, EarlierBuild(w)
    PROVE  \E c :
             /\ folders' = [folders EXCEPT ![w] = c]
             /\ Writes(Written(w), c)
             /\ \A t \in Threads : c.open[t] # "absent" =>
                  \/ Written(w).open[t] # "absent"
                  \/ New(t)
                  \/ \E r \in retired[w] : r.open[t] # "absent"
<1> DEFINE b == Written(w)
           near(t) == b.open[t] # "absent" \/ New(t) \/ \E r \in retired[w] : r.open[t] # "absent"
           moves(c) == folders' = [folders EXCEPT ![w] = c]
<1>1. Sound(b) /\ Ids(b) \subseteq Everything
  BY WrittenIsSound
<1>2. \/ \E id \in MessageIds, t \in Threads :
           id \notin Everything /\ near(t) /\ moves(Commented(b, id, t))
      \/ \E id \in MessageIds : \E i \in DOMAIN b.log :
           id \notin Everything /\ b.log[i].from # "agent" /\ moves(Replied(b, id, b.log[i]))
      \/ \E t \in Threads : b.open[t] # "absent"
           /\ moves(SetResolution(b, t, IF b.open[t] = "open" THEN "resolved" ELSE "open"))
  BY DEF EarlierBuild, Written, Fresh, Writable
<1>3. \A t \in Threads : b.open[t] # "absent" => near(t)
  OBVIOUS
<1>4. SUFFICES \E c : moves(c) /\ Writes(b, c) /\ \A t \in Threads : c.open[t] # "absent" => near(t)
  OBVIOUS
<1> HIDE DEF b, near, moves
<1>5. CASE \E id \in MessageIds, t \in Threads :
             id \notin Everything /\ near(t) /\ moves(Commented(b, id, t))
  <2>1. PICK id \in MessageIds, t \in Threads :
             id \notin Everything /\ near(t) /\ moves(Commented(b, id, t))
    BY <1>5
  <2>2. /\ Writes(b, Commented(b, id, t))
        /\ \A u \in Threads \ {t} : Commented(b, id, t).open[u] = b.open[u]
    BY <1>1, <2>1, CommentedWrites
  <2> QED
    BY <1>3, <2>1, <2>2
<1>6. CASE \E id \in MessageIds : \E i \in DOMAIN b.log :
             id \notin Everything /\ b.log[i].from # "agent" /\ moves(Replied(b, id, b.log[i]))
  <2>1. PICK id \in MessageIds, i \in DOMAIN b.log :
             id \notin Everything /\ b.log[i].from # "agent" /\ moves(Replied(b, id, b.log[i]))
    BY <1>6
  <2>2. /\ Writes(b, Replied(b, id, b.log[i]))
        /\ Replied(b, id, b.log[i]).open = b.open
    BY <1>1, <2>1, RepliedWrites
  <2> QED
    BY <1>3, <2>1, <2>2
<1>7. CASE \E t \in Threads : b.open[t] # "absent"
             /\ moves(SetResolution(b, t, IF b.open[t] = "open" THEN "resolved" ELSE "open"))
  <2>1. PICK t \in Threads : b.open[t] # "absent"
             /\ moves(SetResolution(b, t, IF b.open[t] = "open" THEN "resolved" ELSE "open"))
    BY <1>7
  <2>2. PICK r \in {"open", "resolved"} : moves(SetResolution(b, t, r))
    BY <2>1
  <2>3. /\ Writes(b, SetResolution(b, t, r))
        /\ \A u \in Threads \ {t} : SetResolution(b, t, r).open[u] = b.open[u]
    BY <1>1, ResolvedWrites
  <2> QED
    BY <1>3, <2>1, <2>2, <2>3
<1> QED
  BY <1>2, <1>5, <1>6, <1>7

\* A reviewer of this build writes the shared book and no folder.
LEMMA ThisBuildKeeps ==
    ASSUME ApartInv, ThisBuild
    PROVE  /\ \E c : shared' = c /\ Writes(shared, c)
           /\ folders' = folders /\ retired' = retired
<1>1. Sound(shared) /\ Ids(shared) \subseteq Everything
  BY DEF ApartInv, Everything
<1>2. PICK c : shared' = c
  OBVIOUS
<1>3. \/ \E id \in MessageIds, t \in Threads :
           id \notin Everything /\ c = Commented(shared, id, t)
      \/ \E id \in MessageIds : \E i \in DOMAIN shared.log :
           /\ id \notin Everything /\ shared.log[i].from # "agent"
           /\ c = Replied(shared, id, shared.log[i])
      \/ \E t \in Threads, r \in {"open", "resolved"} : c = SetResolution(shared, t, r)
  BY <1>2 DEF ThisBuild, Fresh
<1>4. Writes(shared, c)
  BY <1>1, <1>3, CommentedWrites, RepliedWrites, ResolvedWrites
<1>5. folders' = folders /\ retired' = retired
  BY DEF ThisBuild
<1> QED
  BY <1>2, <1>4, <1>5

\* No step of a reviewer or a migration brings two folders together.
LEMMA StepApart ==
    ASSUME Inv, ApartInv, [Next]_vars
    PROVE  ApartInv'
<1>1. /\ Types /\ folders \in [Workspaces -> Foldered]
      /\ job.todo \subseteq Present /\ job.at \in job.todo \cup {NoFolder}
      /\ Present \subseteq Workspaces
  BY DEF Inv, Types, Present
<1>2. CASE UNCHANGED <<shared, folders, retired>>
  BY <1>2 DEF ApartInv, Kept, Present
<1>3. CASE ThisBuild
  <2>1. PICK c : shared' = c /\ Writes(shared, c)
    BY <1>3, ThisBuildKeeps
  <2>2. /\ Present' = Present /\ folders' = folders /\ retired' = retired
        /\ \A w, t : Kept(w, t)' = Kept(w, t)
    BY <1>3, ThisBuildKeeps DEF Present, Kept
  <2>3. ASSUME NEW w \in Present
        PROVE  Sound(folders[w]) /\ Meets(shared', folders[w])
    <3>1. /\ Sound(shared) /\ Sound(folders[w]) /\ Meets(shared, folders[w])
          /\ Ids(shared) \subseteq Everything /\ Ids(folders[w]) \subseteq Everything
      BY DEF ApartInv, Everything
    <3> QED
      BY <2>1, <3>1, MeetsAfterWrite
  <2>4. Sound(shared')
    BY <2>1 DEF Writes
  <2> QED
    BY <2>1, <2>2, <2>3, <2>4 DEF ApartInv
<1>4. CASE \E w \in Workspaces : EarlierBuild(w)
  <2>1. PICK w \in Workspaces : EarlierBuild(w)
    BY <1>4
  <2>2. PICK c : /\ folders' = [folders EXCEPT ![w] = c]
                 /\ Writes(Written(w), c)
                 /\ \A t \in Threads : c.open[t] # "absent" =>
                      \/ Written(w).open[t] # "absent"
                      \/ New(t)
                      \/ \E r \in retired[w] : r.open[t] # "absent"
    BY <2>1, EarlierBuildKeeps
  <2>3. UNCHANGED <<shared, retired>>
    BY <2>1 DEF EarlierBuild
  <2>4. /\ Sound(Written(w)) /\ Meets(shared, Written(w)) /\ Ids(Written(w)) \subseteq Everything
        /\ w \in Present => Written(w) = folders[w]
        /\ w \notin Present => /\ Ids(Written(w)) = {}
                               /\ \A t \in Threads : Written(w).open[t] = "absent"
    BY WrittenIsSound
  <2>5. Sound(c) /\ c # NoFolder
    BY <2>2, NoFolderIsNoBook DEF Writes, Sound
  <2>6. folders'[w] = c /\ \A v \in Workspaces : v # w => folders'[v] = folders[v]
    BY <1>1, <2>2
  <2>7. Present' = Present \cup {w}
    BY <2>5, <2>6 DEF Present
  <2>8. Meets(shared, c)
    <3>1. Sound(shared) /\ Ids(shared) \subseteq Everything
      BY DEF ApartInv, Everything
    <3> QED
      BY <2>2, <2>4, <3>1, MeetsAfterWrite
  <2>9. ASSUME NEW v \in Present'
        PROVE  Sound(folders'[v]) /\ Meets(shared, folders'[v])
    BY <1>1, <2>5, <2>6, <2>7, <2>8 DEF ApartInv
  <2>10. ASSUME NEW v \in Present, v # w
         PROVE  Ids(folders[v]) \cap Ids(c) = {}
    <3>1. Ids(folders[v]) \subseteq Everything
      BY DEF Everything
    <3>2. Ids(folders[v]) \cap Ids(Written(w)) = {}
      BY <2>4, <2>10 DEF ApartInv
    <3>3. \A id \in Ids(c) : id \in Ids(Written(w)) \/ id \notin Everything
      BY <2>2, <2>4, WrittenIds
    <3> QED
      BY <3>1, <3>2, <3>3
  <2>11. \A u, v \in Present' : u # v => Ids(folders'[u]) \cap Ids(folders'[v]) = {}
    <3> SUFFICES ASSUME NEW u \in Present', NEW v \in Present', u # v
                 PROVE  Ids(folders'[u]) \cap Ids(folders'[v]) = {}
      OBVIOUS
    <3>1. u \in Workspaces /\ v \in Workspaces
      BY <1>1, <2>7
    <3>2. CASE u = w
      BY <2>6, <2>7, <2>10, <3>1, <3>2
    <3>3. CASE v = w
      BY <2>6, <2>7, <2>10, <3>1, <3>3
    <3>4. CASE u # w /\ v # w
      BY <2>6, <2>7, <3>1, <3>4 DEF ApartInv
    <3> QED
      BY <3>2, <3>3, <3>4
  <2>12. \A v \in Workspaces, t \in Threads : v # w => (Kept(v, t)' <=> Kept(v, t))
    BY <2>3, <2>6, <2>7 DEF Kept
  <2>13. \A t \in Threads : Kept(w, t)' => Kept(w, t) \/ New(t)
    <3> SUFFICES ASSUME NEW t \in Threads, Kept(w, t)'
                 PROVE  Kept(w, t) \/ New(t)
      OBVIOUS
    <3>1. c.open[t] # "absent" \/ \E r \in retired[w] : r.open[t] # "absent"
      BY <2>3, <2>6 DEF Kept
    <3>2. Written(w).open[t] # "absent" \/ New(t) \/ \E r \in retired[w] : r.open[t] # "absent"
      BY <2>2, <3>1
    <3>3. Written(w).open[t] # "absent" => w \in Present /\ folders[w].open[t] # "absent"
      BY <2>4
    <3> QED
      BY <3>2, <3>3 DEF Kept
  <2>14. \A u, v \in Workspaces : u # v => \A t \in Threads : ~(Kept(u, t)' /\ Kept(v, t)')
    <3> SUFFICES ASSUME NEW u \in Workspaces, NEW v \in Workspaces, u # v, NEW t \in Threads,
                        Kept(u, t)', Kept(v, t)'
                 PROVE  FALSE
      OBVIOUS
    <3>1. ~(Kept(u, t) /\ Kept(v, t))
      BY DEF ApartInv
    <3>2. New(t) => ~Kept(u, t) /\ ~Kept(v, t)
      BY NewIsKeptNowhere
    <3>3. CASE u = w
      <4>1. Kept(v, t)
        BY <2>12, <3>3
      <4>2. Kept(u, t) \/ New(t)
        BY <2>13, <3>3
      <4> QED
        BY <3>1, <3>2, <4>1, <4>2
    <3>4. CASE v = w
      <4>1. Kept(u, t)
        BY <2>12, <3>4
      <4>2. Kept(v, t) \/ New(t)
        BY <2>13, <3>4
      <4> QED
        BY <3>1, <3>2, <4>1, <4>2
    <3>5. CASE u # w /\ v # w
      <4>1. Kept(u, t) /\ Kept(v, t)
        BY <2>12, <3>5
      <4> QED
        BY <3>1, <4>1
    <3> QED
      BY <3>3, <3>4, <3>5
  <2>15. Sound(shared)
    BY DEF ApartInv
  <2> QED
    BY <2>3, <2>9, <2>11, <2>14, <2>15 DEF ApartInv
<1>5. CASE \E w \in Workspaces : MergeThreads(w)
  <2>1. PICK w \in Workspaces : MergeThreads(w)
    BY <1>5
  <2>2. /\ w \in Present /\ shared' = Merge(shared, folders[w])
        /\ UNCHANGED <<folders, retired>>
    BY <1>1, <2>1 DEF MergeThreads
  <2>3. /\ Sound(shared) /\ Sound(folders[w]) /\ Meets(shared, folders[w])
    BY <2>2 DEF ApartInv
  <2>4. Sound(shared')
    BY <2>2, <2>3, MergeIsSound
  <2>5. Present' = Present /\ \A v, t : Kept(v, t)' = Kept(v, t)
    BY <2>2 DEF Present, Kept
  <2>6. ASSUME NEW v \in Present
        PROVE  Sound(folders[v]) /\ Meets(shared', folders[v])
    <3>1. Sound(folders[v]) /\ Meets(shared, folders[v])
      BY DEF ApartInv
    <3>2. v # w => Ids(folders[v]) \cap Ids(folders[w]) = {}
      BY <2>2 DEF ApartInv
    <3> QED
      BY <2>2, <2>3, <3>1, <3>2, MeetsOn
  <2> QED
    BY <2>2, <2>4, <2>5, <2>6 DEF ApartInv
<1>6. CASE Retire
  <2> DEFINE w == job.at
  <2>1. /\ w # NoFolder /\ w \in Present
        /\ retired' = [retired EXCEPT ![w] = @ \cup {folders[w]}]
        /\ folders' = [folders EXCEPT ![w] = NoFolder]
        /\ shared' = shared
    BY <1>1, <1>6 DEF Retire
  <2> HIDE DEF w
  <2>2. /\ retired \in [Workspaces -> SUBSET Proper] /\ w \in Workspaces
    BY <1>1, <2>1 DEF Types
  <2>3. Present' = Present \ {w} /\ \A v \in Workspaces : v # w => folders'[v] = folders[v]
    BY <1>1, <2>1, <2>2 DEF Present
  <2>4. \A v \in Workspaces, t \in Threads : Kept(v, t)' <=> Kept(v, t)
    <3> SUFFICES ASSUME NEW v \in Workspaces, NEW t \in Threads
                 PROVE  Kept(v, t)' <=> Kept(v, t)
      OBVIOUS
    <3>1. CASE v = w
      <4>1. w \notin Present' /\ retired'[w] = retired[w] \cup {folders[w]}
        BY <2>1, <2>2, <2>3
      <4> QED
        BY <2>1, <3>1, <4>1 DEF Kept
    <3>2. CASE v # w
      <4>1. /\ v \in Present' <=> v \in Present
            /\ folders'[v] = folders[v] /\ retired'[v] = retired[v]
        BY <2>1, <2>2, <2>3, <3>2
      <4> QED
        BY <4>1 DEF Kept
    <3> QED
      BY <3>1, <3>2
  <2>5. ASSUME NEW v \in Present'
        PROVE  v \in Present /\ folders'[v] = folders[v]
    BY <1>1, <2>3
  <2> QED
    BY <2>1, <2>4, <2>5 DEF ApartInv
<1>7. List \/ CopyAll \/ RecordBackup \/ CopyChanged \/ Stops \/ UNCHANGED vars
        => UNCHANGED <<shared, folders, retired>>
  BY DEF List, CopyAll, RecordBackup, CopyChanged, Stops, vars, disk
<1> QED
  BY <1>2, <1>3, <1>4, <1>5, <1>6, <1>7 DEF Next, Migrate

\* The shared book meets every folder, and workspaces stay apart.
THEOREM FoldersStayApart == Spec => []ApartInv
<1>1. Inv /\ ApartInv /\ [Next]_vars => ApartInv'
  BY StepApart
<1> QED
  BY InitApart, <1>1, MigrationIsInvariant, PTL DEF Spec

\* A merge keeps what waits waiting and what was answered answered, whatever both builds
\* stored before it.
THEOREM MergesKeepAnswers == Spec => []MergeKeepsAnswers
<1>1. ApartInv => MergeKeepsAnswers
  <2> SUFFICES ASSUME ApartInv, NEW w \in Present, NEW t \in Threads
               PROVE  LET b == shared
                          o == folders[w]
                          merged == Merge(b, o)
                      IN
                      /\ \A id \in CommentsIn(o, t) :
                           id \in WaitIn(merged, t)
                             <=> /\ id \in WaitIn(o, t)
                                 /\ id \in CommentsIn(b, t) => id \in WaitIn(b, t)
                      /\ CommentsIn(o, t) \ CommentsIn(b, t) # {} /\ o.open[t] = "open"
                           => merged.open[t] = "open"
                      /\ InThread(o, t) \cap Lacking(b, o) = {}
                           => Pending(merged, t) = Pending(b, t)
    BY DEF MergeKeepsAnswers
  <2> DEFINE b == shared
             o == folders[w]
             merged == Merge(b, o)
  <2>1. Sound(b) /\ Sound(o) /\ Meets(b, o)
    BY DEF ApartInv
  <2>2. merged.open[t] = MergedResolution(b, o, t)
    BY DEF Merge
  <2> HIDE DEF b, o, merged
  <2>3. \A id \in CommentsIn(o, t) :
          id \in WaitIn(merged, t)
            <=> id \in WaitIn(o, t) /\ (id \in CommentsIn(b, t) => id \in WaitIn(b, t))
    BY <2>1, MergedWait DEF merged
  <2>4. ASSUME CommentsIn(o, t) \ CommentsIn(b, t) # {}, o.open[t] = "open"
        PROVE  merged.open[t] = "open"
    <3>1. PICK i \in Comments(o, t) : o.log[i].id \notin CommentsIn(b, t)
      BY <2>4 DEF CommentsIn
    <3>2. i \in InThread(o, t) /\ i \in DOMAIN o.log
      BY DEF Comments, InThread
    <3>3. i \in Lacking(b, o)
      <4>1. SUFFICES ASSUME Known(b, o.log[i].id) PROVE FALSE
        BY <3>2 DEF Lacking
      <4>2. PICK n \in DOMAIN b.log : b.log[n] = o.log[i]
        BY <2>1, <3>2, <4>1 DEF Meets
      <4>3. n \in Comments(b, t)
        BY <4>2 DEF Comments, InThread
      <4> QED
        BY <3>1, <4>2, <4>3 DEF CommentsIn
    <3> QED
      BY <2>2, <2>4, <3>2, <3>3 DEF MergedResolution
  <2>5. InThread(o, t) \cap Lacking(b, o) = {} => Pending(merged, t) = Pending(b, t)
    BY <2>1, MergedPending DEF merged
  <2> QED
    BY <2>3, <2>4, <2>5 DEF b, o, merged
<1> QED
  BY <1>1, FoldersStayApart, PTL

\* A merge that is done again changes nothing, and the folders of two workspaces give the
\* same threads, waiting for the same answers, in whichever order they are merged.
THEOREM MergesComeOut == Spec => []MergedAgain
<1>1. ApartInv => MergedAgain
  <2> SUFFICES ASSUME ApartInv, NEW w \in Present
               PROVE  LET merged == Merge(shared, folders[w]) IN
                      /\ Merge(merged, folders[w]) = merged
                      /\ \A v \in Present \ {w} :
                           LET one == Merge(merged, folders[v])
                               other == Merge(Merge(shared, folders[v]), folders[w])
                           IN /\ one.open = other.open
                              /\ \A t \in Threads : WaitIn(one, t) = WaitIn(other, t)
    BY DEF MergedAgain
  <2>1. Sound(shared) /\ Sound(folders[w]) /\ Meets(shared, folders[w])
    BY DEF ApartInv
  <2>2. Merge(Merge(shared, folders[w]), folders[w]) = Merge(shared, folders[w])
    BY <2>1, MergeAgainChangesNothing DEF Sound
  <2>3. ASSUME NEW v \in Present \ {w}
        PROVE  LET one == Merge(Merge(shared, folders[w]), folders[v])
                   other == Merge(Merge(shared, folders[v]), folders[w])
               IN /\ one.open = other.open
                  /\ \A t \in Threads : WaitIn(one, t) = WaitIn(other, t)
    <3> DEFINE one == Merge(Merge(shared, folders[w]), folders[v])
               other == Merge(Merge(shared, folders[v]), folders[w])
    <3>1. /\ Sound(folders[v]) /\ Meets(shared, folders[v])
          /\ Ids(folders[v]) \cap Ids(folders[w]) = {}
          /\ Ids(folders[w]) \cap Ids(folders[v]) = {}
      BY DEF ApartInv
    <3>2. ASSUME NEW t \in Threads
          PROVE  one.open[t] = other.open[t] /\ WaitIn(one, t) = WaitIn(other, t)
      <4>1. folders[w].open[t] = "absent" \/ folders[v].open[t] = "absent"
        BY DEF ApartInv, Kept, Present
      <4>2. CASE folders[w].open[t] = "absent"
        BY <2>1, <3>1, <4>2, MergedEitherWay
      <4>3. CASE folders[v].open[t] = "absent"
        BY <2>1, <3>1, <4>3, MergedEitherWay
      <4> QED
        BY <4>1, <4>2, <4>3
    <3>3. one.open = [t \in Threads |-> one.open[t]] /\ other.open = [t \in Threads |-> other.open[t]]
      BY DEF Merge
    <3> QED
      BY <3>2, <3>3
  <2> QED
    BY <2>2, <2>3
<1> QED
  BY <1>1, FoldersStayApart, PTL
=============================================================================
