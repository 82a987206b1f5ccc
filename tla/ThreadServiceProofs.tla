------------------------- MODULE ThreadServiceProofs -------------------------
(***************************************************************************)
(* What the thread service and the panes of other tabs do to the stored    *)
(* book of a review, and that the service forgets no comment, proved for   *)
(* any number of threads, tabs, messages, agents and prompts on their way. *)
(*                                                                         *)
(* Every step leaves the log as it is or appends one message whose         *)
(* identity is new (StepStores).  That a message is stored once, and that  *)
(* the log only grows, follow.                                             *)
(*                                                                         *)
(* The service schedules a notification on the inputs that can make its    *)
(* copy of the book wait for the agent.  A copy it refreshes for another   *)
(* reason must not wait for anything new: what other tabs stored since is  *)
(* not this tab's, unless they reopened a thread, and then they took it on *)
(* (InTouch).  Then each step keeps the promise made for each comment      *)
(* (Kept), and an access value for each wakeup (Waking).                   *)
(***************************************************************************)
EXTENDS ThreadServiceHistory, ReviewThreadsProofs

-----------------------------------------------------------------------------
(* The steps of the specification. *)

\* What a step may do to the stored book b, to make it c.
Posted(b, c) == \E m \in Message : m.from # "agent" /\ c = Post(b, m)
Replied(b, c) ==
    \E m \in Message :
        /\ m.from = "agent" /\ CanAnswer(b, m) /\ c = Answer(b, m)
        /\ Known(b, m.id) => \E i \in DOMAIN b.log : b.log[i] = m
Turned(b, c) ==
    \E t \in Threads, r \in Resolution \ {"absent"} : c = SetResolution(b, t, r)

\* Whatever the panes, the agents and the service do, a step leaves the stored book, or
\* applies one operation of ReviewThreads to it.
LEMMA StoreStep ==
    ASSUME [Next]_vars
    PROVE  store' = store \/ Posted(store, store') \/ Replied(store, store')
                          \/ Turned(store, store')
<1> USE DEF Ui, Mcp, Seen, Other
<1>1. ASSUME NEW id \in MessageIds, NEW t \in Threads, NEW from \in Authors,
             NEW to \in MessageIds \cup {NoMessage}
      PROVE  [id |-> id, thread |-> t, from |-> from, in_reply_to |-> to] \in Message
  BY DEF Message
<1>2. Tab \in Authors /\ "agent" \in Authors /\ Tabs \subseteq Authors
      /\ Tab # "agent" /\ \A tab \in Tabs : tab # "agent"
  BY ServiceAssumption, ThreadsAssumption DEF Authors
<1>3. "open" \in Resolution \ {"absent"} /\ "resolved" \in Resolution \ {"absent"}
  BY DEF Resolution
<1>4. CASE Reviewer
  <2>1. CASE Load \/ MarkRead \/ \E t \in Threads : Retry(t)
    BY <2>1 DEF Load, MarkRead, Retry
  <2>2. CASE \E t \in Threads : Reopen(t) \/ ResolveThread(t)
    BY <1>3, <2>2 DEF Reopen, ResolveThread, Turned
  <2>3. CASE \E id \in MessageIds, t \in Threads : PostComment(id, t)
    <3>1. PICK id \in MessageIds, t \in Threads : PostComment(id, t)
      BY <2>3
    <3> DEFINE m == [id |-> id, thread |-> t, from |-> Tab, in_reply_to |-> NoMessage]
    <3>2. m \in Message /\ m.from # "agent" /\ store' = Post(store, m)
      BY <1>1, <1>2, <3>1 DEF PostComment
    <3> QED
      BY <3>2 DEF Posted
  <2> QED
    BY <1>4, <2>1, <2>2, <2>3 DEF Reviewer
<1>5. CASE Agent
  <2>1. CASE Fetch
    BY <2>1 DEF Fetch
  <2>2. CASE \E id, to \in MessageIds, t \in Threads : Reply(id, t, to)
    <3>1. PICK id \in MessageIds, to \in MessageIds, t \in Threads : Reply(id, t, to)
      BY <2>2
    <3> DEFINE m == [id |-> id, thread |-> t, from |-> "agent", in_reply_to |-> to]
    <3>2. m \in Message /\ m.from = "agent" /\ m.id = id
      BY <1>1, <1>2
    <3>3. CanAnswer(store, m) /\ store' = Answer(store, m)
          /\ (Known(store, id) => m \in Range(store.log))
      BY <3>1 DEF Reply
    <3> HIDE DEF m
    <3> QED
      BY <3>2, <3>3 DEF Replied, Range
  <2> QED
    BY <1>5, <2>1, <2>2 DEF Agent
<1>6. CASE Inputs
  BY <1>6 DEF Inputs, ObserveReleased, ObserveDetected, ActiveAgentChanged, Notified, Recheck
<1>7. CASE Prepare \/ Notify
  <2>1. CASE Prepare
    BY <2>1 DEF Prepare, Preparing, PrepareNothing, PrepareCancel, PrepareFails, PrepareGrant
  <2>2. CASE Notify
    BY <2>2 DEF Notify, Notifying, NotifyNothing, NotifyFails, NotifyAnother, NotifySend
  <2> QED
    BY <1>7, <2>1, <2>2
<1>8. CASE CourierReports \/ Herdr \/ Restart
  BY <1>8 DEF CourierReports, Herdr, HerdrChange, AgentStarts, AgentExits, Focus, Restart
<1>9. CASE OtherTabs
  <2>1. CASE \E id \in MessageIds, t \in Threads, tab \in Tabs \ {Tab} : OtherPosts(id, t, tab)
    <3>1. PICK id \in MessageIds, t \in Threads, tab \in Tabs \ {Tab} : OtherPosts(id, t, tab)
      BY <2>1
    <3> DEFINE m == [id |-> id, thread |-> t, from |-> tab, in_reply_to |-> NoMessage]
    <3>2. m \in Message /\ m.from # "agent" /\ store' = Post(store, m)
      BY <1>1, <1>2, <3>1 DEF OtherPosts
    <3> QED
      BY <3>2 DEF Posted
  <2>2. CASE \E id, to \in MessageIds, t \in Threads : OtherReplies(id, t, to)
    <3>1. PICK id \in MessageIds, to \in MessageIds, t \in Threads : OtherReplies(id, t, to)
      BY <2>2
    <3> DEFINE m == [id |-> id, thread |-> t, from |-> "agent", in_reply_to |-> to]
    <3>2. m \in Message /\ m.from = "agent" /\ m.id = id
      BY <1>1, <1>2
    <3>3. CanAnswer(store, m) /\ store' = Answer(store, m) /\ ~Known(store, id)
      BY <3>1 DEF OtherReplies
    <3> HIDE DEF m
    <3> QED
      BY <3>2, <3>3 DEF Replied
  <2>3. CASE \E t \in Threads : OtherResolves(t) \/ OtherReopens(t)
    BY <1>3, <2>3 DEF OtherResolves, OtherReopens, Turned
  <2> QED
    BY <1>9, <2>1, <2>2, <2>3 DEF OtherTabs
<1>10. CASE UNCHANGED vars
  BY <1>10 DEF vars
<1> QED
  BY <1>4, <1>5, <1>6, <1>7, <1>8, <1>9, <1>10 DEF Next

\* So it stays a book, with at most one message more, of an identity of its own.
LEMMA StepStores ==
    ASSUME store \in Book, [Next]_vars
    PROVE  store' \in Book /\ Stores(store, store')
<1>1. CASE store' = store
  BY <1>1 DEF Stores
<1>2. CASE Posted(store, store')
  BY <1>2, PostStores DEF Posted
<1>3. CASE Replied(store, store')
  BY <1>3, AnswerStores DEF Replied
<1>4. CASE Turned(store, store')
  BY <1>4, ResolutionStores DEF Turned
<1> QED
  BY <1>1, <1>2, <1>3, <1>4, StoreStep

\* And no message, no acknowledgement and no thread goes.
LEMMA StepKeeps ==
    ASSUME store \in Book, ThreadsOpened(store), RepliesNamed(store), [Next]_vars
    PROVE  Follows(store, store') /\ ThreadsOpened(store') /\ RepliesNamed(store')
<1>1. CASE store' = store
  BY <1>1, FollowsItself
<1>2. CASE Posted(store, store')
  BY <1>2, PostFollows, PostKeeps DEF Posted
<1>3. CASE Replied(store, store')
  BY <1>3, AnswerFollows, AnswerKeeps DEF Replied
<1>4. CASE Turned(store, store')
  <2>1. PICK t \in Threads, r \in Resolution \ {"absent"} : store' = SetResolution(store, t, r)
    BY <1>4 DEF Turned
  <2>2. Follows(store, store')
    BY <2>1, ResolutionFollows
  <2>3. ThreadsOpened(store') /\ RepliesNamed(store')
    BY <2>1, ResolutionKeeps
  <2> QED
    BY <2>2, <2>3
<1> QED
  BY <1>1, <1>2, <1>3, <1>4, StoreStep

-----------------------------------------------------------------------------
\* The stored book is well formed, no message is in it twice, and its replies name comments.
BookInv ==
    /\ store \in Book /\ StoredOnce
    /\ ThreadsOpened(store) /\ RepliesNamed(store)

\* BookInv holds at first, and no step of any pane breaks it.
THEOREM BookIsInvariant == Spec => []BookInv
<1>1. Init => BookInv
  <2> SUFFICES ASSUME Init PROVE BookInv
    OBVIOUS
  <2>1. store = [log |-> <<>>, open |-> [t \in Threads |-> "absent"],
                 answered |-> [t \in Threads |-> 0]]
    BY DEF Init, EmptyBook
  <2>2. store \in Book
    BY <2>1 DEF Book, Resolution
  <2>3. StoredOnce /\ ThreadsOpened(store) /\ RepliesNamed(store)
    BY <2>1 DEF StoredOnce, ThreadsOpened, RepliesNamed, InThread
  <2> QED
    BY <2>2, <2>3 DEF BookInv
<1>2. BookInv /\ [Next]_vars => BookInv'
  <2> SUFFICES ASSUME BookInv, [Next]_vars PROVE BookInv'
    OBVIOUS
  <2>1. /\ store' \in Book /\ Stores(store, store')
        /\ ThreadsOpened(store') /\ RepliesNamed(store')
    BY StepStores, StepKeeps DEF BookInv
  <2>2. CASE store'.log = store.log
    BY <2>1, <2>2 DEF BookInv, StoredOnce
  <2>3. CASE \E m \in Message : ~Known(store, m.id) /\ store'.log = Append(store.log, m)
    <3>1. PICK m \in Message : ~Known(store, m.id) /\ store'.log = Append(store.log, m)
      BY <2>3
    <3>2. store.log \in Seq(Message)
      BY DEF BookInv, Book
    <3>3. ASSUME NEW i \in DOMAIN store'.log, NEW j \in DOMAIN store'.log,
                 store'.log[i].id = store'.log[j].id
          PROVE  i = j
      BY <3>1, <3>2, <3>3 DEF BookInv, StoredOnce, Known
    <3> QED
      BY <2>1, <3>3 DEF BookInv, StoredOnce
  <2> QED
    BY <2>1, <2>2, <2>3 DEF Stores
<1> QED
  BY <1>1, <1>2, PTL DEF Spec

\* Posts and replies repeated by their sender, or raced by other tabs, are
\* stored once each.
THEOREM MessagesStoredOnce == Spec => []StoredOnce
<1>1. BookInv => StoredOnce
  BY DEF BookInv
<1> QED
  BY <1>1, BookIsInvariant, PTL

\* No pane takes a message out of the stored log, or renumbers one.
THEOREM MessagesAreKept == Spec => LogOnlyGrows
<1>1. BookInv /\ [Next]_vars => [IsPrefix(store.log, store'.log)]_vars
  <2> SUFFICES ASSUME BookInv, [Next]_vars PROVE IsPrefix(store.log, store'.log)
    OBVIOUS
  <2>1. Stores(store, store') /\ store.log \in Seq(Message)
    BY StepStores DEF BookInv, Book
  <2> DEFINE s == store.log
  <2>2. CASE store'.log = s
    BY <2>1, <2>2 DEF IsPrefix
  <2>3. CASE \E m \in Message : store'.log = Append(s, m)
    <3>1. PICK m \in Message : store'.log = Append(s, m)
      BY <2>3
    <3>2. Len(s) \in Nat /\ Len(store'.log) = Len(s) + 1
      BY <2>1, <3>1
    <3>3. SubSeq(store'.log, 1, Len(s)) = SubSeq(s, 1, Len(s))
      BY <2>1, <3>1, <3>2
    <3> QED
      BY <3>2, <3>3 DEF IsPrefix
  <2> QED
    BY <2>1, <2>2, <2>3 DEF Stores
<1> QED
  BY <1>1, BookIsInvariant, PTL DEF Spec, LogOnlyGrows

\* A comment in an open thread is pending exactly until a reply names it or a later comment
\* of its thread: no reply takes up what it had not read.
THEOREM PendingIsUntaken == Spec => []PendingUntilTakenUp
<1>1. BookInv => PendingUntilTakenUp
  <2> SUFFICES ASSUME BookInv, NEW t \in Threads, store.open[t] = "open"
               PROVE  Pending(store, t) <=>
                        \E c \in Comments(store, t) :
                          ~ \E r \in InThread(store, t) : TakesUp(store, t, r, c)
    BY DEF PendingUntilTakenUp, TakesUp
  <2> QED
    BY WaitsUntilTakenUp DEF BookInv, StoredOnce
<1> QED
  BY <1>1, BookIsInvariant, PTL

-----------------------------------------------------------------------------
(* Wakeups: the invariant. *)

ServiceTypes ==
    /\ book = <<>> \/ \E b \in Book : book = <<b>>
    /\ retried \in [Threads -> Nat] /\ elsewhere \in [Threads -> Nat]
    /\ told \in Nat
    /\ wakeup = <<>> \/ \E w \in [requested : Nat, notified : Nat] : wakeup = <<w>>
    /\ \E tokens : /\ mail \in Seq([token : tokens, through : Nat])
                   /\ answers \in Seq([token : tokens, through : Nat, ok : BOOLEAN])

\* Since b, a copy of s, was read, only others changed it: they stored none of this tab's
\* comments, and a thread they reopened they took on, as e says, with the Retries r.
Others(b, s, r, e) ==
    /\ \A i \in DOMAIN s.log : s.log[i].from = Tab => i <= Len(b.log)
    /\ \A t \in Threads : b.open[t] = "resolved" /\ s.open[t] = "open" =>
         \A c \in Comments(s, t) : s.log[c].from = Tab \/ c <= r[t] => c <= e[t]

\* The copy of the book that the service last read.
InTouch ==
    /\ \A t \in Threads : retried[t] <= Len(store.log)
    /\ Loaded => /\ ThreadsOpened(book[1]) /\ Follows(book[1], store)
                 /\ Others(book[1], store, retried, elsewhere)
                 /\ \A t \in Threads : retried[t] <= Len(book[1].log)

\* A wakeup belongs to an access value, which is granted for a book that was read.
Waking ==
    /\ access # NoAgent => Loaded
    /\ wakeup # <<>> => access # NoAgent /\ wakeup[1].requested <= Len(book[1].log)

\* What becomes of a comment c of thread t.
Promised(t, c) ==
    \/ pending # "none"
    \/ wakeup # <<>> /\ wakeup[1].requested >= c
    \/ told >= c
    \/ elsewhere[t] >= c

\* No comment that waits is forgotten, at any step.
Kept ==
    Loaded /\ available =>
        \A t \in Threads : PendingFor(book[1], t, Tab, retried) =>
            \A c \in PendingComments(book[1], t, Tab, retried) : Promised(t, c)

\* Other tabs took threads on by the comments that are in them.
TakenOn == \A t \in Threads : elsewhere[t] \in Comments(store, t) \cup {0}

ServiceInv == BookInv /\ ServiceTypes /\ TakenOn /\ InTouch /\ Waking /\ Kept

-----------------------------------------------------------------------------
(* What the steps have in common. *)

LEMMA MaxOfTwo ==
    ASSUME NEW a \in Nat, NEW b \in Nat
    PROVE  Max({a, b}) \in Nat /\ Max({a, b}) >= a /\ Max({a, b}) >= b
<1>1. \E x \in {a, b} : \A y \in {a, b} : x >= y
  OBVIOUS
<1>2. Max({a, b}) \in {a, b} /\ \A y \in {a, b} : Max({a, b}) >= y
  BY <1>1 DEF Max
<1> QED
  BY <1>2

\* What a notification is for covers all that waits.
LEMMA ThroughCovers ==
    ASSUME ServiceTypes, Loaded
    PROVE  /\ book[1] \in Book /\ Through \in 0 .. Len(book[1].log) /\ Through \in Nat
           /\ \A t \in Threads : PendingFor(book[1], t, Tab, retried) =>
                \A c \in PendingComments(book[1], t, Tab, retried) : c \in Nat /\ c <= Through
<1>1. book[1] \in Book
  BY DEF ServiceTypes, Loaded
<1>2. Len(book[1].log) \in Nat /\ DOMAIN book[1].log = 1 .. Len(book[1].log)
  BY <1>1, BookTypes
<1>3. Through \in 0 .. Len(book[1].log)
  BY <1>1, SequenceCovers DEF Through
<1>4. ASSUME NEW t \in Threads, PendingFor(book[1], t, Tab, retried),
             NEW c \in PendingComments(book[1], t, Tab, retried)
      PROVE  c \in Nat /\ c <= Through
  <2>1. c \in Comments(book[1], t)
    BY <1>4 DEF PendingComments
  <2>2. c \in Nat
    BY <1>2, <2>1 DEF Comments, InThread
  <2> QED
    BY <1>1, <1>4, <2>1, <2>2, SequenceCovers DEF Through
<1> QED
  BY <1>1, <1>2, <1>3, <1>4

\* What waits in a thread that is open is promised, for the copy last read.
LEMMA CatchesUp ==
    ASSUME ServiceInv, Loaded, available,
           NEW t \in Threads, store.open[t] = "open",
           NEW c \in PendingComments(store, t, Tab, retried)
    PROVE  Promised(t, c)
<1> DEFINE b == book[1]
<1>1. /\ b \in Book /\ store \in Book /\ Follows(b, store) /\ ThreadsOpened(b)
      /\ Others(b, store, retried, elsewhere)
      /\ retried[t] <= Len(b.log) /\ retried[t] \in Nat
      /\ elsewhere[t] \in Nat
  BY ThroughCovers DEF ServiceInv, BookInv, ServiceTypes, InTouch
<1>2. c \in Comments(store, t) /\ (c <= retried[t] \/ store.log[c].from = Tab)
  BY DEF PendingComments
<1>3. c \in DOMAIN store.log /\ c \in Nat /\ Len(b.log) \in Nat
  BY <1>1, <1>2, BookTypes DEF Comments, InThread
<1>4. c <= Len(b.log)
  BY <1>1, <1>2, <1>3 DEF Others
<1> HIDE DEF b
<1>5. c \in PendingComments(b, t, Tab, retried)
  BY <1>1, <1>4, OwedWasOwed
<1>6. CASE b.open[t] = "open"
  <2>1. PendingFor(b, t, Tab, retried)
    BY <1>1, <1>5, <1>6, PendingCommentIsPending
  <2> QED
    BY <1>5, <2>1 DEF ServiceInv, Kept, b
<1>7. CASE b.open[t] # "open"
  <2>1. b.open[t] \in Resolution
    BY <1>1 DEF Book
  <2>2. b.open[t] # "absent"
    BY <1>1, <1>5 DEF ThreadsOpened, PendingComments, Comments
  <2>3. b.open[t] = "resolved"
    BY <1>7, <2>1, <2>2 DEF Resolution
  <2>4. c <= elsewhere[t]
    BY <1>1, <1>2, <2>3 DEF Others
  <2> QED
    BY <1>1, <1>3, <2>4 DEF Promised
<1> QED
  BY <1>6, <1>7
-----------------------------------------------------------------------------
(* The steps that read the stored book again. *)

Refreshing ==
    \/ Load \/ MarkRead \/ Fetch
    \/ \E t \in Threads : Retry(t) \/ Reopen(t) \/ ResolveThread(t)
    \/ \E id \in MessageIds, t \in Threads : PostComment(id, t)
    \/ \E id, to \in MessageIds, t \in Threads : Reply(id, t, to)

\* What the new copy of the book is, and what the new Retries cover.
LEMMA RefreshedBook ==
    ASSUME ServiceInv, [Next]_vars, Refreshing
    PROVE  /\ book' = <<store'>>
           /\ retried' = retried
              \/ \E t \in Threads : retried' = [retried EXCEPT ![t] = LastComment(store', t)]
           /\ UNCHANGED <<access, elsewhere, mail, answers, available>>
           /\ wakeup' = wakeup \/ wakeup' = <<>>
              \/ (wakeup # <<>> /\ wakeup' = <<[requested |-> 0, notified |-> 0]>>)
           /\ told' = told \/ told' = Max({told, PendingSequenceFor(store', Tab, retried)})
<1> USE DEF Ui, Mcp, courier, published
<1>1. CASE Load \/ MarkRead
  BY <1>1 DEF Load, MarkRead
<1>2. CASE Fetch
  BY <1>2 DEF Fetch
<1>3. CASE \E t \in Threads : Retry(t)
  BY <1>3 DEF Retry, Released
<1>4. CASE \E t \in Threads : Reopen(t)
  BY <1>4 DEF Reopen, Released
<1>5. CASE \E t \in Threads : ResolveThread(t)
  BY <1>5 DEF ResolveThread
<1>6. CASE \E id \in MessageIds, t \in Threads : PostComment(id, t)
  BY <1>6 DEF PostComment, ReportUndelivered, Publish
<1>7. CASE \E id, to \in MessageIds, t \in Threads : Reply(id, t, to)
  BY <1>7 DEF Reply
<1> QED
  BY <1>1, <1>2, <1>3, <1>4, <1>5, <1>6, <1>7 DEF Refreshing

LEMMA RefreshedTypes ==
    ASSUME ServiceInv, [Next]_vars, Refreshing
    PROVE  ServiceTypes'
<1>1. store' \in Book /\ store \in Book
  BY StepStores DEF ServiceInv, BookInv
<1>2. \A t \in Threads : LastComment(store', t) \in Nat
  <2> TAKE t \in Threads
  <2>1. LastComment(store', t) \in 0 .. Len(store'.log) /\ Len(store'.log) \in Nat
    BY <1>1, LastCommentIsLast, BookTypes
  <2> QED
    BY <2>1
<1>3. retried' \in [Threads -> Nat]
  BY <1>2, RefreshedBook DEF ServiceInv, ServiceTypes
<1>4. PendingSequenceFor(store', Tab, retried) \in Nat
  <2>1. PendingSequenceFor(store', Tab, retried) \in 0 .. Len(store'.log)
        /\ Len(store'.log) \in Nat
    BY <1>1, SequenceCovers, BookTypes
  <2> QED
    BY <2>1
<1>5. told' \in Nat
  BY <1>4, RefreshedBook, MaxOfTwo DEF ServiceInv, ServiceTypes
<1>6. wakeup' = <<>> \/ \E w \in [requested : Nat, notified : Nat] : wakeup' = <<w>>
  <2>1. [requested |-> 0, notified |-> 0] \in [requested : Nat, notified : Nat]
    OBVIOUS
  <2> QED
    BY <2>1, RefreshedBook DEF ServiceInv, ServiceTypes
<1> QED
  BY <1>1, <1>3, <1>5, <1>6, RefreshedBook DEF ServiceInv, ServiceTypes

LEMMA RefreshedInTouch ==
    ASSUME ServiceInv, [Next]_vars, Refreshing
    PROVE  InTouch' /\ Waking'
<1>1. /\ store' \in Book /\ store \in Book
      /\ Follows(store, store') /\ ThreadsOpened(store')
  BY StepStores, StepKeeps DEF ServiceInv, BookInv
<1>2. book' = <<store'>> /\ Loaded' /\ book'[1] = store'
  BY RefreshedBook DEF Loaded
<1>3. /\ Len(store.log) <= Len(store'.log) /\ Len(store.log) \in Nat /\ Len(store'.log) \in Nat
      /\ DOMAIN store'.log = 1 .. Len(store'.log)
  BY <1>1, BookTypes DEF Follows
<1>4. \A t \in Threads : retried'[t] <= Len(store'.log)
  <2> TAKE u \in Threads
  <2>1. retried[u] <= Len(store.log) /\ retried[u] \in Nat /\ retried \in [Threads -> Nat]
    BY DEF ServiceInv, ServiceTypes, InTouch
  <2>2. LastComment(store', u) \in 0 .. Len(store'.log)
    BY <1>1, LastCommentIsLast
  <2>3. retried'[u] = retried[u] \/ retried'[u] = LastComment(store', u)
    BY <2>1, RefreshedBook
  <2> QED
    BY <1>3, <2>1, <2>2, <2>3
<1>5. Follows(store', store') /\ Others(store', store', retried', elsewhere')
  <2>1. Follows(store', store')
    BY <1>1, FollowsItself
  <2>2. Others(store', store', retried', elsewhere')
    BY <1>3 DEF Others
  <2> QED
    BY <2>1, <2>2
<1>6. InTouch'
  BY <1>1, <1>2, <1>4, <1>5 DEF InTouch
<1>7. ASSUME wakeup' # <<>>
      PROVE  access' # NoAgent /\ wakeup'[1].requested <= Len(store'.log)
  <2>1. wakeup # <<>> /\ access # NoAgent /\ Loaded /\ access' = access
        /\ wakeup[1].requested <= Len(book[1].log)
    BY <1>7, RefreshedBook DEF ServiceInv, Waking
  <2>2. Len(book[1].log) <= Len(store.log) /\ book[1] \in Book
    BY <2>1, ThroughCovers DEF ServiceInv, InTouch, Follows
  <2>3. Len(book[1].log) \in Nat
    BY <2>2, BookTypes
  <2>4. wakeup[1].requested \in Nat
    BY <2>1 DEF ServiceInv, ServiceTypes
  <2>5. wakeup'[1].requested = wakeup[1].requested \/ wakeup'[1].requested = 0
    BY <1>7, RefreshedBook
  <2> QED
    BY <1>3, <2>1, <2>2, <2>3, <2>4, <2>5
<1>8. Waking'
  BY <1>2, <1>7 DEF Waking
<1> QED
  BY <1>6, <1>8

\* What was scheduled for a book that waits is pending.
LEMMA ScheduledIsPending ==
    ASSUME available, NEW b, NEW r, NEW t \in Threads, PendingFor(b, t, Tab, r), NEW retry
    PROVE  Scheduled(b, r, retry) # "none"
BY DEF Scheduled, WaitsIn, HasNewMessagesFor

\* An input that leaves its comments alone reads the book again and schedules nothing: what
\* waits then was promised before.
LEMMA RefreshedKept ==
    ASSUME ServiceInv, [Next]_vars, Refreshing
    PROVE  Kept'
<1>1. book' = <<store'>> /\ book'[1] = store' /\ available' = available /\ elsewhere' = elsewhere
  BY RefreshedBook
<1>2. SUFFICES ASSUME available, NEW u \in Threads, PendingFor(store', u, Tab, retried'),
                      NEW c \in PendingComments(store', u, Tab, retried')
               PROVE  Promised(u, c)'
  BY <1>1 DEF Kept
<1>3. store'.open[u] = "open"
  BY <1>2 DEF PendingFor, Pending
<1>4. store \in Book /\ store' \in Book /\ ThreadsOpened(store) /\ RepliesNamed(store)
  BY StepStores DEF ServiceInv, BookInv
<1>5. ASSUME pending' # "none" PROVE Promised(u, c)'
  BY <1>5 DEF Promised
<1>6. ASSUME Loaded, UNCHANGED <<pending, wakeup, told, retried>>,
             store.open[u] = "open", c \in PendingComments(store, u, Tab, retried)
      PROVE  Promised(u, c)'
  <2>1. Promised(u, c)
    BY <1>2, <1>6, CatchesUp
  <2> QED
    BY <1>1, <1>6, <2>1 DEF Promised
<1>7. CASE Load \/ \E id \in MessageIds, t \in Threads : PostComment(id, t)
  <2>1. pending' = Scheduled(store', retried', FALSE)
    BY <1>7 DEF Load, PostComment
  <2> QED
    BY <1>2, <1>5, <2>1, ScheduledIsPending
<1>8. CASE \E t \in Threads : Reopen(t)
  <2>1. pending' = Scheduled(store', retried', TRUE)
    BY <1>8 DEF Reopen
  <2> QED
    BY <1>2, <1>5, <2>1, ScheduledIsPending
<1>9. CASE \E t \in Threads : Retry(t)
  <2>1. PICK t \in Threads : Retry(t)
    BY <1>9
  <2>2. CASE Pending(store, t)
    <3>1. pending' = Scheduled(store', retried', TRUE)
      BY <2>1, <2>2 DEF Retry
    <3> QED
      BY <1>2, <1>5, <3>1, ScheduledIsPending
  <2>3. CASE ~Pending(store, t)
    <3>1. Loaded /\ store' = store /\ UNCHANGED <<pending, wakeup, told, retried>>
      BY <2>1, <2>3 DEF Retry, published
    <3> QED
      BY <1>2, <1>3, <1>6, <3>1
  <2> QED
    BY <2>2, <2>3
<1>10. CASE MarkRead \/ Fetch
  <2>1. Loaded /\ store' = store /\ UNCHANGED <<pending, wakeup, told, retried>>
    BY <1>10 DEF MarkRead, Fetch, Mcp, AccessIsLive, published, ServiceInv, Waking
  <2> QED
    BY <1>2, <1>3, <1>6, <2>1
<1>11. CASE \E t \in Threads : ResolveThread(t)
  <2>1. PICK t \in Threads : ResolveThread(t)
    BY <1>11
  <2>2. Loaded /\ store' = SetResolution(store, t, "resolved") /\ UNCHANGED <<told, retried>>
        /\ (WaitsIn(store', retried) => UNCHANGED <<pending, wakeup>>)
    BY <2>1 DEF ResolveThread, published
  <2>3. WaitsIn(store', retried)
    BY <1>2, <2>2 DEF WaitsIn, HasNewMessagesFor
  <2>4. /\ store'.log = store.log /\ store'.answered = store.answered
        /\ store'.open = [store.open EXCEPT ![t] = "resolved"]
    <3>1. "resolved" \in Resolution \ {"absent"}
      BY DEF Resolution
    <3> QED
      BY <1>4, <2>2, <3>1, ResolutionKeeps
  <2>5. store.open[u] = "open"
    BY <1>3, <1>4, <2>4 DEF Book
  <2>6. c \in PendingComments(store, u, Tab, retried)
    BY <1>2, <2>2, <2>4 DEF PendingComments, Comments, InThread, IsAnswered
  <2> QED
    BY <1>6, <2>2, <2>3, <2>5, <2>6
<1>12. CASE \E id, to \in MessageIds, t \in Threads : Reply(id, t, to)
  <2>1. PICK id \in MessageIds, to \in MessageIds, t \in Threads : Reply(id, t, to)
    BY <1>12
  <2> DEFINE m == [id |-> id, thread |-> t, from |-> "agent", in_reply_to |-> to]
  <2>2. m \in Message /\ m.from = "agent" /\ m.id = id
    BY DEF Message, Authors
  <2>3. /\ Loaded /\ store' = Answer(store, m) /\ CanAnswer(store, m)
        /\ Known(store, id) => m \in Range(store.log)
        /\ UNCHANGED <<pending, told, retried>>
        /\ WaitsIn(store', retried) => UNCHANGED wakeup
    BY <2>1 DEF Reply, Mcp, AccessIsLive, published, ServiceInv, Waking
  <2> HIDE DEF m
  <2>4. Known(store, m.id) => \E i \in DOMAIN store.log : store.log[i] = m
    BY <2>2, <2>3 DEF Range
  <2>5. WaitsIn(store', retried)
    BY <1>2, <2>3 DEF WaitsIn, HasNewMessagesFor
  <2>6. store'.open = store.open /\ Comments(store', u) = Comments(store, u)
    BY <1>4, <2>2, <2>3, <2>4, AnswerKeeps
  <2>7. c \in Comments(store, u)
    BY <1>2, <2>6 DEF PendingComments
  <2>8. c <= Len(store.log) /\ Follows(store, store')
    BY <1>4, <2>2, <2>3, <2>7, BookTypes, AnswerFollows DEF Comments, InThread
  <2>9. c \in PendingComments(store, u, Tab, retried)
    BY <1>2, <1>4, <2>3, <2>8, OwedWasOwed
  <2> QED
    BY <1>3, <1>6, <2>3, <2>5, <2>6, <2>9
<1> QED
  BY <1>7, <1>8, <1>9, <1>10, <1>11, <1>12 DEF Refreshing

-----------------------------------------------------------------------------
(* The steps that leave both books alone. *)

LEMMA SameInTouch ==
    ASSUME ServiceInv, UNCHANGED <<store, book, retried, elsewhere>>
    PROVE  InTouch'
BY DEF ServiceInv, InTouch, Loaded

\* A published failure tells of what it was for, and of no less than before.
LEMMA PublishTells ==
    ASSUME told \in Nat, NEW through \in Nat, Publish(through)
    PROVE  told' \in Nat /\ told' >= told /\ told' >= through
BY MaxOfTwo DEF Publish

LEMMA RefreshedIsPending ==
    ASSUME Loaded, available, NEW t \in Threads, PendingFor(book[1], t, Tab, retried)
    PROVE  Waits /\ Refreshed # "none"
BY ScheduledIsPending DEF Refreshed, Waits, WaitsIn, HasNewMessagesFor

\* Inputs from Herdr.
LEMMA SeenKeeps ==
    ASSUME ServiceInv, ObserveReleased \/ ObserveDetected \/ ActiveAgentChanged
    PROVE  ServiceTypes' /\ InTouch' /\ Waking' /\ Kept'
<1>1. /\ UNCHANGED <<store, book, retried, access, mail, answers, told, available, elsewhere>>
      /\ pending' = Refreshed
  BY DEF ObserveReleased, ObserveDetected, ActiveAgentChanged, Seen, courier, published
<1>2. \/ wakeup' = wakeup
      \/ wakeup # <<>> /\ wakeup' = <<[wakeup[1] EXCEPT !.notified = 0]>>
      \/ access # NoAgent /\ wakeup' = <<[requested |-> Through, notified |-> 0]>>
  BY DEF ObserveReleased, ObserveDetected, ActiveAgentChanged, Interrupted, OfAccess, Request
<1>3. access # NoAgent => Loaded
  BY DEF ServiceInv, Waking
<1>4. CASE wakeup' = wakeup
  <2>1. ServiceTypes' /\ Waking'
    BY <1>1, <1>4 DEF ServiceInv, ServiceTypes, Waking, Loaded
  <2> QED
    BY <1>1, <2>1, SameInTouch, RefreshedIsPending DEF Kept, Promised, Loaded
<1>5. CASE wakeup # <<>> /\ wakeup' = <<[wakeup[1] EXCEPT !.notified = 0]>>
  <2>1. wakeup[1] \in [requested : Nat, notified : Nat]
    BY <1>5 DEF ServiceInv, ServiceTypes
  <2>2. /\ wakeup'[1].requested = wakeup[1].requested
        /\ \E w \in [requested : Nat, notified : Nat] : wakeup' = <<w>>
    BY <1>5, <2>1
  <2>3. ServiceTypes' /\ Waking'
    BY <1>1, <1>5, <2>2 DEF ServiceInv, ServiceTypes, Waking, Loaded
  <2> QED
    BY <1>1, <2>3, SameInTouch, RefreshedIsPending DEF Kept, Promised, Loaded
<1>6. CASE access # NoAgent /\ wakeup' = <<[requested |-> Through, notified |-> 0]>>
  <2>1. Through \in Nat /\ Through <= Len(book[1].log)
    BY <1>3, <1>6, ThroughCovers DEF ServiceInv
  <2>2. [requested |-> Through, notified |-> 0] \in [requested : Nat, notified : Nat]
    BY <2>1
  <2>3. ServiceTypes' /\ Waking'
    BY <1>1, <1>6, <2>1, <2>2 DEF ServiceInv, ServiceTypes, Waking, Loaded
  <2> QED
    BY <1>1, <2>3, SameInTouch, RefreshedIsPending DEF Kept, Promised, Loaded
<1> QED
  BY <1>2, <1>4, <1>5, <1>6

\* A failure ends only the wakeup it was sent for, and is published.
LEMMA NotifiedKeeps ==
    ASSUME ServiceInv, Notified
    PROVE  ServiceTypes' /\ InTouch' /\ Waking' /\ Kept'
<1> DEFINE a == Head(answers)
<1>1. /\ UNCHANGED <<store, book, retried, access, pending, mail, available, elsewhere>>
      /\ answers # <<>> /\ answers' = Tail(answers)
  BY DEF Notified
<1>2. told \in Nat
  BY DEF ServiceInv, ServiceTypes
<1>3. PICK tokens : /\ mail \in Seq([token : tokens, through : Nat])
                    /\ answers \in Seq([token : tokens, through : Nat, ok : BOOLEAN])
  BY DEF ServiceInv, ServiceTypes
<1>4. a \in [token : tokens, through : Nat, ok : BOOLEAN]
      /\ answers' \in Seq([token : tokens, through : Nat, ok : BOOLEAN])
  <2> DEFINE outcomes == [token : tokens, through : Nat, ok : BOOLEAN]
  <2>1. answers \in Seq(outcomes)
    BY <1>3
  <2> HIDE DEF outcomes
  <2>2. Head(answers) \in outcomes /\ Tail(answers) \in Seq(outcomes)
    BY <1>1, <2>1
  <2> QED
    BY <1>1, <2>2 DEF outcomes
<1>5. \/ UNCHANGED <<wakeup, told>>
      \/ Publish(a.through) /\ wakeup' = wakeup
      \/ Publish(a.through) /\ wakeup' = <<>> /\ wakeup # <<>>
         /\ wakeup[1].requested = a.through
  BY DEF Notified, UnchangedSince, published
<1> HIDE DEF a
<1>6. told' \in Nat /\ told' >= told
      /\ (wakeup' # wakeup => wakeup' = <<>> /\ told' >= wakeup[1].requested)
  BY <1>2, <1>4, <1>5, PublishTells
<1>7. ServiceTypes'
  BY <1>1, <1>3, <1>4, <1>6 DEF ServiceInv, ServiceTypes
<1>8. Waking'
  BY <1>1, <1>6 DEF ServiceInv, Waking, Loaded
<1>9. ASSUME NEW t \in Threads, NEW c \in Nat, Promised(t, c)
      PROVE  Promised(t, c)'
  <2>1. wakeup # <<>> => wakeup[1].requested \in Nat
    BY DEF ServiceInv, ServiceTypes
  <2> QED
    BY <1>1, <1>2, <1>6, <1>9, <2>1 DEF Promised
<1>10. Kept'
  <2>1. Kept /\ ServiceTypes
    BY DEF ServiceInv
  <2> QED
    BY <1>1, <1>9, <2>1, ThroughCovers DEF Kept, Loaded
<1> QED
  BY <1>1, <1>7, <1>8, <1>10, SameInTouch

-----------------------------------------------------------------------------
(* State::poll. *)

LEMMA PrepareKeeps ==
    ASSUME ServiceInv, Prepare
    PROVE  ServiceTypes' /\ InTouch' /\ Waking' /\ Kept'
<1>1. UNCHANGED <<store, book, retried, mail, answers, available, elsewhere>>
  BY DEF Prepare, Preparing, PrepareNothing, PrepareCancel, PrepareFails, PrepareGrant, courier
<1>2. InTouch'
  BY <1>1, SameInTouch
<1>3. told \in Nat
  BY DEF ServiceInv, ServiceTypes
<1>4. Waits => Loaded
  BY DEF Waits
\* Without Waits, no comment waits.
<1>5. \A t \in Threads : Loaded /\ PendingFor(book[1], t, Tab, retried) => Waits
  BY DEF Waits, WaitsIn, HasNewMessagesFor
<1>6. CASE PrepareNothing
  <2>1. UNCHANGED <<pending, wakeup, access, told>>
    BY <1>6 DEF PrepareNothing, Preparing, published
  <2> QED
    BY <1>1, <1>2, <2>1 DEF ServiceInv, ServiceTypes, Waking, Kept, Promised, Loaded
<1>7. CASE PrepareCancel
  <2>1. ~Waits /\ wakeup' = <<>> /\ UNCHANGED <<access, told>>
    BY <1>7 DEF PrepareCancel, published
  <2> QED
    BY <1>1, <1>2, <1>5, <2>1 DEF ServiceInv, ServiceTypes, Waking, Kept, Loaded
<1>8. CASE PrepareFails
  <2>1. Waits /\ Publish(Through) /\ UNCHANGED <<wakeup, access>>
    BY <1>8 DEF PrepareFails, ReportUndelivered, Through
  <2>2. told' \in Nat /\ told' >= Through /\ Through \in Nat
    BY <1>3, <1>4, <2>1, ThroughCovers, PublishTells DEF ServiceInv
  <2>3. ServiceTypes' /\ Waking'
    BY <1>1, <2>1, <2>2 DEF ServiceInv, ServiceTypes, Waking, Loaded
  <2>4. Kept'
    <3>1. ASSUME NEW c \in Nat, c <= Through PROVE told' >= c
      BY <2>2, <3>1
    <3> QED
      BY <1>1, <3>1, ThroughCovers DEF ServiceInv, Kept, Promised, Loaded
  <2> QED
    BY <1>2, <2>3, <2>4
<1>9. CASE PrepareGrant
  <2>1. Waits /\ Loaded /\ access' # NoAgent /\ told' = told
    BY <1>4, <1>9 DEF PrepareGrant, published
  <2>2. PICK n \in Nat : wakeup' = <<[requested |-> Through, notified |-> n]>>
    <3>1. \E n : /\ wakeup' = <<[requested |-> Through, notified |-> n]>>
                 /\ n = 0 \/ (wakeup # <<>> /\ n = wakeup[1].notified)
      BY <1>9 DEF PrepareGrant, Request
    <3> QED
      BY <3>1 DEF ServiceInv, ServiceTypes
  <2>3. Through \in Nat /\ Through <= Len(book[1].log)
    BY <2>1, ThroughCovers DEF ServiceInv
  <2>4. [requested |-> Through, notified |-> n] \in [requested : Nat, notified : Nat]
    BY <2>3
  <2>5. ServiceTypes'
    BY <1>1, <2>1, <2>2, <2>4 DEF ServiceInv, ServiceTypes
  <2>6. Waking'
    BY <1>1, <2>1, <2>2, <2>3 DEF Waking, Loaded
  <2>7. wakeup' # <<>> /\ wakeup'[1].requested = Through
    BY <2>2
  <2>8. Kept'
    <3>1. ASSUME NEW c \in Nat, c <= Through PROVE wakeup'[1].requested >= c
      BY <2>3, <2>7, <3>1
    <3> QED
      BY <1>1, <2>7, <3>1, ThroughCovers DEF ServiceInv, Kept, Promised, Loaded
  <2> QED
    BY <1>2, <2>5, <2>6, <2>8
<1> QED
  BY <1>6, <1>7, <1>8, <1>9 DEF Prepare

LEMMA NotifyKeeps ==
    ASSUME ServiceInv, Notify
    PROVE  ServiceTypes' /\ InTouch' /\ Waking' /\ Kept'
<1>1. UNCHANGED <<store, book, retried, access, answers, available, elsewhere>>
  BY DEF Notify, Notifying, NotifyNothing, NotifyFails, NotifyAnother, NotifySend
<1>2. InTouch'
  BY <1>1, SameInTouch
<1>3. told \in Nat
  BY DEF ServiceInv, ServiceTypes
<1>4. Waits => Loaded
  BY DEF Waits
<1>5. CASE NotifyNothing
  <2>1. UNCHANGED <<pending, wakeup, mail, told>>
    BY <1>5 DEF NotifyNothing, published
  <2> QED
    BY <1>1, <1>2, <2>1 DEF ServiceInv, ServiceTypes, Waking, Kept, Promised, Loaded
<1>6. CASE NotifyFails
  <2>1. Waits /\ Publish(Through) /\ wakeup' = <<>> /\ UNCHANGED <<pending, mail>>
    BY <1>6 DEF NotifyFails, ReportUndelivered, Through
  <2>2. told' \in Nat /\ told' >= Through /\ Through \in Nat
    BY <1>3, <1>4, <2>1, ThroughCovers, PublishTells DEF ServiceInv
  <2>3. ServiceTypes' /\ Waking'
    BY <1>1, <2>1, <2>2 DEF ServiceInv, ServiceTypes, Waking, Loaded
  <2>4. Kept'
    <3>1. ASSUME NEW c \in Nat, c <= Through PROVE told' >= c
      BY <2>2, <3>1
    <3> QED
      BY <1>1, <3>1, ThroughCovers DEF ServiceInv, Kept, Promised, Loaded
  <2> QED
    BY <1>2, <2>3, <2>4
<1>7. CASE NotifyAnother
  <2>1. Waits /\ wakeup' = <<>> /\ pending' = Scheduled(book[1], retried, FALSE)
        /\ UNCHANGED <<mail, told>>
    BY <1>7 DEF NotifyAnother, published
  <2>2. ServiceTypes' /\ Waking'
    BY <1>1, <2>1 DEF ServiceInv, ServiceTypes, Waking, Loaded
  <2> QED
    BY <1>1, <1>2, <2>1, <2>2, ScheduledIsPending DEF Kept, Promised, Loaded
<1>8. CASE NotifySend
  <2>1. /\ wakeup # <<>> /\ wakeup' = <<[wakeup[1] EXCEPT !.notified = wakeup[1].requested]>>
        /\ mail' = Append(mail, [token |-> token, through |-> wakeup[1].requested])
        /\ told' = IF told <= wakeup[1].requested THEN 0 ELSE told
        /\ pending' = pending
    BY <1>8 DEF NotifySend, NeedsPoll
  <2>2. PICK w \in [requested : Nat, notified : Nat] : wakeup = <<w>>
    BY <2>1 DEF ServiceInv, ServiceTypes
  <2>3. wakeup' = <<[requested |-> w.requested, notified |-> w.requested]>>
        /\ w.requested \in Nat
    BY <2>1, <2>2
  <2>4. \E tokens : /\ mail' \in Seq([token : tokens, through : Nat])
                    /\ answers' \in Seq([token : tokens, through : Nat, ok : BOOLEAN])
    <3>1. PICK tokens : /\ mail \in Seq([token : tokens, through : Nat])
                        /\ answers \in Seq([token : tokens, through : Nat, ok : BOOLEAN])
      BY DEF ServiceInv, ServiceTypes
    <3> DEFINE more == tokens \cup {token}
               old == [token : tokens, through : Nat]
               new == [token : more, through : Nat]
               told0 == [token : tokens, through : Nat, ok : BOOLEAN]
               told1 == [token : more, through : Nat, ok : BOOLEAN]
    <3>2. old \subseteq new /\ told0 \subseteq told1
      OBVIOUS
    <3>3. [token |-> token, through |-> wakeup[1].requested] \in new
      BY <2>2, <2>3
    <3>4. mail \in Seq(old) /\ answers \in Seq(told0)
      BY <3>1
    <3> HIDE DEF old, new, told0, told1
    <3>5. mail \in Seq(new) /\ answers \in Seq(told1)
      BY <3>2, <3>4
    <3>6. mail' \in Seq(new) /\ answers' \in Seq(told1)
      BY <1>1, <2>1, <3>3, <3>5
    <3> QED
      BY <3>6 DEF new, told1
  <2>5. ServiceTypes'
    <3>1. [requested |-> w.requested, notified |-> w.requested]
            \in [requested : Nat, notified : Nat]
      BY <2>3
    <3> QED
      BY <1>1, <1>3, <2>1, <2>3, <2>4, <3>1 DEF ServiceInv, ServiceTypes
  <2>6. Waking'
    BY <1>1, <2>2, <2>3 DEF ServiceInv, Waking, Loaded
  <2>7. ASSUME NEW t \in Threads, NEW c \in Nat, Promised(t, c)
        PROVE  Promised(t, c)'
    BY <1>1, <1>3, <2>1, <2>2, <2>3, <2>7 DEF Promised
  <2>8. Kept'
    <3>1. Kept /\ ServiceTypes
      BY DEF ServiceInv
    <3> QED
      BY <1>1, <2>7, <3>1, ThroughCovers DEF Kept, Loaded
  <2> QED
    BY <1>2, <2>5, <2>6, <2>8
<1> QED
  BY <1>5, <1>6, <1>7, <1>8 DEF Notify

-----------------------------------------------------------------------------
(* Around the worker. *)

LEMMA CourierKeeps ==
    ASSUME ServiceInv, CourierReports \/ Herdr \/ UNCHANGED vars
    PROVE  ServiceTypes' /\ InTouch' /\ Waking' /\ Kept'
<1>1. /\ UNCHANGED <<store, book, retried, access, pending, wakeup, told, available, elsewhere>>
      /\ CourierReports \/ UNCHANGED <<mail, answers>>
  BY DEF CourierReports, Herdr, AgentStarts, AgentExits, Focus, HerdrChange, Outside,
         published, courier, vars
<1>2. \E tokens : /\ mail' \in Seq([token : tokens, through : Nat])
                  /\ answers' \in Seq([token : tokens, through : Nat, ok : BOOLEAN])
  <2>1. PICK tokens : /\ mail \in Seq([token : tokens, through : Nat])
                      /\ answers \in Seq([token : tokens, through : Nat, ok : BOOLEAN])
    BY DEF ServiceInv, ServiceTypes
  <2>2. CASE CourierReports
    <3> DEFINE prompts == [token : tokens, through : Nat]
               outcomes == [token : tokens, through : Nat, ok : BOOLEAN]
    <3>1. PICK ok \in BOOLEAN :
               answers' = Append(answers, [token |-> Head(mail).token,
                                           through |-> Head(mail).through, ok |-> ok])
      BY <2>2 DEF CourierReports
    <3>2. mail # <<>> /\ mail' = Tail(mail)
      BY <2>2 DEF CourierReports
    <3>3. mail \in Seq(prompts) /\ answers \in Seq(outcomes)
      BY <2>1
    <3>4. Head(mail) \in prompts /\ Tail(mail) \in Seq(prompts)
      <4> HIDE DEF prompts
      <4> QED
        BY <3>2, <3>3
    <3>5. [token |-> Head(mail).token, through |-> Head(mail).through, ok |-> ok] \in outcomes
      BY <3>4
    <3> HIDE DEF prompts, outcomes
    <3>6. mail' \in Seq(prompts) /\ answers' \in Seq(outcomes)
      BY <3>1, <3>2, <3>3, <3>4, <3>5
    <3> QED
      BY <3>6 DEF prompts, outcomes
  <2> QED
    BY <1>1, <2>1, <2>2
<1>3. ServiceTypes'
  BY <1>1, <1>2 DEF ServiceInv, ServiceTypes
<1> QED
  BY <1>1, <1>3, SameInTouch DEF ServiceInv, Waking, Kept, Promised, Loaded

\* What another tab stores is its own; a thread it reopens it takes on.
LEMMA OtherTabsKeep ==
    ASSUME ServiceInv, [Next]_vars, OtherTabs
    PROVE  ServiceTypes' /\ TakenOn' /\ InTouch' /\ Waking' /\ Kept'
<1>1. UNCHANGED <<book, retried, access, pending, wakeup, told, mail, answers, available>>
  BY DEF OtherTabs, OtherPosts, OtherReplies, OtherResolves, OtherReopens, Other, Outside,
         published, courier
<1>2. /\ store \in Book /\ store' \in Book /\ ThreadsOpened(store) /\ RepliesNamed(store)
      /\ Follows(store, store')
  BY StepStores, StepKeeps DEF ServiceInv, BookInv
<1>3. /\ Len(store.log) \in Nat /\ Len(store'.log) \in Nat /\ Len(store.log) <= Len(store'.log)
      /\ DOMAIN store.log = 1 .. Len(store.log) /\ DOMAIN store'.log = 1 .. Len(store'.log)
  BY <1>2, BookTypes DEF Follows
<1>4. \A t \in Threads : retried[t] \in Nat /\ retried[t] <= Len(store.log)
                         /\ elsewhere[t] \in Nat
  BY DEF ServiceInv, ServiceTypes, InTouch
\* What another tab does, thread by thread.
<1> DEFINE new == Len(store.log) + 1
           IsTheirs(t) ==
             \/ store'.open[t] # "open"
             \/ \A c \in Comments(store', t) : c <= elsewhere'[t]
             \/ /\ store.open[t] = "open" \/ Comments(store, t) = {}
                /\ \A c \in Comments(store', t) :
                     c \in Comments(store, t) \/ (c = new /\ store'.log[new].from # Tab)
<1>5. ASSUME NEW id \in MessageIds, NEW t \in Threads, NEW tab \in Tabs \ {Tab},
             OtherPosts(id, t, tab)
      PROVE  /\ elsewhere' \in [Threads -> Nat] /\ TakenOn'
             /\ \A u \in Threads : elsewhere'[u] >= elsewhere[u] /\ IsTheirs(u)
             /\ \A i \in DOMAIN store'.log : store'.log[i].from = Tab => i \in DOMAIN store.log
  <2> DEFINE m == [id |-> id, thread |-> t, from |-> tab, in_reply_to |-> NoMessage]
  <2>1. m \in Message /\ m.thread = t /\ m.from = tab /\ m.id = id
        /\ m.from # "agent" /\ m.from # Tab
    BY <1>5, ThreadsAssumption DEF Message, Authors
  <2>2. ~Known(store, m.id) /\ store' = Post(store, m)
        /\ elsewhere' = IF t \in Rounds THEN [elsewhere EXCEPT ![t] = Len(store'.log)]
                        ELSE elsewhere
    BY <1>5 DEF OtherPosts
  <2> HIDE DEF m
  <2>3. /\ store'.log = Append(store.log, m)
        /\ \A u \in Threads \ {t} : store'.open[u] = store.open[u]
        /\ store'.open[t] = IF store.open[t] = "absent" THEN "open" ELSE Receive(store, m)
    BY <1>2, <2>1, <2>2, PostFields
  <2>4. /\ DOMAIN store'.log = DOMAIN store.log \cup {new}
        /\ store'.log[new] = m
        /\ \A i \in DOMAIN store.log : store'.log[i] = store.log[i]
    BY <1>2, <2>1, <2>3, Appended
  <2>5. Len(store'.log) = new /\ new \in Comments(store', t)
    BY <1>2, <1>3, <2>1, <2>3, <2>4 DEF Comments, InThread
  <2>6. /\ elsewhere \in [Threads -> Nat] /\ TakenOn
        /\ \A u \in Threads : elsewhere[u] <= Len(store.log)
    <3>1. elsewhere \in [Threads -> Nat] /\ TakenOn
      BY DEF ServiceInv, ServiceTypes
    <3> QED
      BY <1>2, <1>3, <3>1, LastCommentIsLast DEF TakenOn
  <2>7. \A u \in Threads : \A c \in Comments(store', u) :
           c <= new /\ (c \in Comments(store, u) \/ c = new)
    BY <1>3, <2>4, <2>5 DEF Comments, InThread
  <2>8. \A u \in Threads : Comments(store, u) \subseteq Comments(store', u)
    BY <2>4 DEF Comments, InThread
  <2>9. \A u \in Threads : elsewhere'[u] = elsewhere[u]
                            \/ (u = t /\ elsewhere'[u] = new)
    BY <2>2, <2>5, <2>6
  <2>10. elsewhere' \in [Threads -> Nat]
    BY <1>3, <2>2, <2>6
  <2>11. TakenOn'
    BY <2>5, <2>6, <2>8, <2>9 DEF TakenOn
  <2>12. \A u \in Threads : elsewhere'[u] >= elsewhere[u]
    BY <1>3, <1>4, <2>6, <2>9
  <2>13. ASSUME NEW u \in Threads
         PROVE  IsTheirs(u)
    <3>1. CASE u = t /\ t \in Rounds
      BY <2>2, <2>5, <2>6, <2>7, <3>1
    <3>2. CASE u # t
      <4>1. \A c \in Comments(store', u) : c \in Comments(store, u)
        BY <2>1, <2>4, <3>2 DEF Comments, InThread
      <4> QED
        BY <2>3, <3>2, <4>1
    <3>3. CASE u = t /\ t \notin Rounds
      <4>1. store.open[t] = "absent" \/ store'.open[t] = store.open[t]
        BY <2>1, <2>3, <3>3 DEF Receive
      <4>2. store.open[t] = "absent" => Comments(store, t) = {}
        BY <1>2 DEF ThreadsOpened, Comments
      <4> QED
        BY <2>1, <2>4, <2>7, <3>3, <4>1, <4>2
    <3> QED
      BY <3>1, <3>2, <3>3
  <2> QED
    BY <2>1, <2>4, <2>10, <2>11, <2>12, <2>13
<1>6. ASSUME NEW id \in MessageIds, NEW to \in MessageIds, NEW t \in Threads,
             OtherReplies(id, t, to)
      PROVE  /\ elsewhere' \in [Threads -> Nat] /\ TakenOn'
             /\ \A u \in Threads : elsewhere'[u] >= elsewhere[u] /\ IsTheirs(u)
             /\ \A i \in DOMAIN store'.log : store'.log[i].from = Tab => i \in DOMAIN store.log
  <2> DEFINE m == [id |-> id, thread |-> t, from |-> "agent", in_reply_to |-> to]
  <2>1. m \in Message /\ m.from = "agent" /\ m.id = id
    BY <1>6 DEF Message, Authors
  <2>2. ~Known(store, m.id) /\ CanAnswer(store, m) /\ store' = Answer(store, m)
        /\ elsewhere' = elsewhere
    BY <1>6 DEF OtherReplies
  <2>3. Tab # "agent"
    BY ServiceAssumption, ThreadsAssumption
  <2> HIDE DEF m
  <2>4. store'.open = store.open /\ \A u \in Threads : Comments(store', u) = Comments(store, u)
    BY <1>2, <2>1, <2>2, AnswerKeeps
  <2>5. \A i \in DOMAIN store'.log : i \in DOMAIN store.log \/ store'.log[i] = m
    <3>1. store'.log = Append(store.log, m)
      BY <1>2, <2>1, <2>2, AnswerFields, PostFields
    <3> QED
      BY <1>2, <2>1, <3>1, Appended
  <2>6. elsewhere \in [Threads -> Nat] /\ TakenOn
    BY DEF ServiceInv, ServiceTypes
  <2>7. \A u \in Threads : elsewhere'[u] >= elsewhere[u]
    BY <1>4, <2>2
  <2> QED
    BY <2>1, <2>2, <2>3, <2>4, <2>5, <2>6, <2>7 DEF TakenOn
<1>7. ASSUME NEW t \in Threads, OtherResolves(t) \/ OtherReopens(t)
      PROVE  /\ elsewhere' \in [Threads -> Nat] /\ TakenOn'
             /\ \A u \in Threads : elsewhere'[u] >= elsewhere[u] /\ IsTheirs(u)
             /\ \A i \in DOMAIN store'.log : store'.log[i].from = Tab => i \in DOMAIN store.log
  <2>1. elsewhere \in [Threads -> Nat] /\ TakenOn
    BY DEF ServiceInv, ServiceTypes
  <2>2. /\ LastComment(store, t) \in Comments(store, t) \cup {0}
        /\ LastComment(store, t) \in Nat
        /\ \A c \in Comments(store, t) : c <= LastComment(store, t)
    BY <1>2, <1>3, LastCommentIsLast
  <2>3. PICK r \in {"open", "resolved"} :
             /\ store' = SetResolution(store, t, r)
             /\ \/ r = "resolved" /\ elsewhere' = elsewhere
                \/ elsewhere' = [elsewhere EXCEPT ![t] = LastComment(store, t)]
    BY <1>7 DEF OtherResolves, OtherReopens
  <2>4. store'.log = store.log /\ store'.open = [store.open EXCEPT ![t] = r]
        /\ store.open \in [Threads -> Resolution]
    <3>1. r \in Resolution \ {"absent"}
      BY DEF Resolution
    <3>2. store'.log = store.log /\ store'.open = [store.open EXCEPT ![t] = r]
      BY <1>2, <2>3, <3>1, ResolutionKeeps
    <3> QED
      BY <1>2, <3>2 DEF Book
  <2>5. \A u \in Threads : Comments(store', u) = Comments(store, u)
    BY <2>4 DEF Comments, InThread
  <2>6. elsewhere' \in [Threads -> Nat] /\ TakenOn'
    BY <2>1, <2>2, <2>3, <2>5 DEF TakenOn
  <2>7. \A u \in Threads : elsewhere'[u] >= elsewhere[u]
    BY <1>4, <2>1, <2>2, <2>3 DEF TakenOn
  <2>8. ASSUME NEW u \in Threads
        PROVE  IsTheirs(u)
    <3>1. CASE u # t
      BY <2>4, <2>5, <3>1
    <3>2. CASE u = t
      BY <2>1, <2>2, <2>3, <2>4, <2>5, <3>2
    <3> QED
      BY <3>1, <3>2
  <2> QED
    BY <2>4, <2>6, <2>7, <2>8
<1>8. /\ elsewhere' \in [Threads -> Nat] /\ TakenOn'
      /\ \A u \in Threads : elsewhere'[u] >= elsewhere[u] /\ IsTheirs(u)
      /\ \A i \in DOMAIN store'.log : store'.log[i].from = Tab => i \in DOMAIN store.log
  BY <1>5, <1>6, <1>7 DEF OtherTabs
<1> HIDE DEF IsTheirs
<1>9. ServiceTypes'
  BY <1>1, <1>8 DEF ServiceInv, ServiceTypes
<1>10. Waking'
  BY <1>1 DEF ServiceInv, Waking, Loaded
<1>11. Kept'
  <2>1. ASSUME NEW t \in Threads, NEW c \in Nat, Promised(t, c)
        PROVE  Promised(t, c)'
    <3>1. elsewhere'[t] \in Nat /\ elsewhere[t] \in Nat /\ elsewhere'[t] >= elsewhere[t]
      BY <1>4, <1>8
    <3> QED
      BY <1>1, <2>1, <3>1 DEF Promised
  <2>2. Kept /\ ServiceTypes
    BY DEF ServiceInv
  <2> QED
    BY <1>1, <2>1, <2>2, ThroughCovers DEF Kept, Loaded
<1>12. InTouch'
  <2>1. \A t \in Threads : retried'[t] <= Len(store'.log)
    BY <1>1, <1>3, <1>4
  <2> DEFINE b == book[1]
  <2>2. ASSUME Loaded
        PROVE  Follows(b, store') /\ Others(b, store', retried, elsewhere')
    <3>1. /\ b \in Book /\ Follows(b, store) /\ Others(b, store, retried, elsewhere)
          /\ ThreadsOpened(b) /\ \A t \in Threads : retried[t] <= Len(b.log)
      BY <2>2, ThroughCovers DEF ServiceInv, InTouch
    <3> HIDE DEF b
    <3>2. Follows(b, store')
      BY <1>2, <3>1, FollowsOn
    <3>3. Len(b.log) \in Nat /\ Len(b.log) <= Len(store.log)
      BY <3>1, BookTypes DEF Follows
    <3>4. \A i \in DOMAIN store.log : store'.log[i] = store.log[i]
      BY <1>2 DEF Follows
    <3>5. \A i \in DOMAIN store'.log : store'.log[i].from = Tab => i <= Len(b.log)
      BY <1>8, <3>1, <3>4 DEF Others
    <3>6. ASSUME NEW t \in Threads, b.open[t] = "resolved", store'.open[t] = "open",
                 NEW c \in Comments(store', t),
                 store'.log[c].from = Tab \/ c <= retried[t]
          PROVE  c <= elsewhere'[t]
      <4>1. CASE c \in Comments(store, t) /\ store.open[t] = "open"
        <5>1. c \in DOMAIN store.log /\ store'.log[c] = store.log[c] /\ c \in Nat
          BY <1>3, <3>4, <4>1 DEF Comments, InThread
        <5>2. c <= elsewhere[t]
          BY <3>1, <3>6, <4>1, <5>1 DEF Others
        <5> QED
          BY <1>4, <1>8, <5>1, <5>2
      <4>2. CASE c = new /\ store'.log[new].from # Tab
        BY <1>3, <1>4, <3>6, <4>2
      <4> QED
        BY <1>8, <3>6, <4>1, <4>2 DEF IsTheirs
    <3> QED
      BY <3>2, <3>5, <3>6 DEF Others
  <2> QED
    BY <1>1, <2>1, <2>2 DEF ServiceInv, InTouch, Loaded
<1> QED
  BY <1>8, <1>9, <1>10, <1>11, <1>12

\* A process that starts anew has read no book and has promised nothing.
LEMMA RestartKeeps ==
    ASSUME ServiceInv, Restart
    PROVE  ServiceTypes' /\ InTouch' /\ Waking' /\ Kept'
<1>1. /\ book' = <<>> /\ retried' = NoThreads /\ access' = NoAgent /\ wakeup' = <<>>
      /\ mail' = <<>> /\ answers' = <<>> /\ told' = 0 /\ UNCHANGED <<store, elsewhere>>
  BY DEF Restart
<1>2. ~Loaded'
  BY <1>1 DEF Loaded
<1>3. retried' \in [Threads -> Nat] /\ \A t \in Threads : retried'[t] = 0
  BY <1>1 DEF NoThreads
<1>4. \E tokens : /\ mail' \in Seq([token : tokens, through : Nat])
                  /\ answers' \in Seq([token : tokens, through : Nat, ok : BOOLEAN])
  BY <1>1
<1>5. Len(store.log) \in Nat
  BY BookTypes DEF ServiceInv, BookInv
<1> QED
  BY <1>1, <1>2, <1>3, <1>4, <1>5 DEF ServiceInv, ServiceTypes, InTouch, Waking, Kept

\* A comment by which another tab took a thread on stays in it.
LEMMA TakenOnStays ==
    ASSUME ServiceInv, [Next]_vars, elsewhere' = elsewhere
    PROVE  TakenOn'
<1>1. store \in Book /\ store' \in Book /\ Follows(store, store') /\ TakenOn
  BY StepStores, StepKeeps DEF ServiceInv, BookInv
<1>2. \A i \in DOMAIN store.log : i \in DOMAIN store'.log /\ store'.log[i] = store.log[i]
  BY <1>1, BookTypes DEF Follows
<1>3. \A t \in Threads : Comments(store, t) \subseteq Comments(store', t)
  BY <1>2 DEF Comments, InThread
<1> QED
  BY <1>1, <1>3 DEF TakenOn

-----------------------------------------------------------------------------
(* The theorems. *)

\* ServiceInv holds at first, and whatever the reviewer, the agents, Herdr, the courier and
\* the other tabs do, it goes on to hold.
THEOREM ServiceIsInvariant == Spec => []ServiceInv
<1>1. Init => ServiceTypes /\ TakenOn /\ InTouch /\ Waking /\ Kept
  <2> SUFFICES ASSUME Init PROVE ServiceTypes /\ TakenOn /\ InTouch /\ Waking /\ Kept
    OBVIOUS
  <2>1. /\ book = <<>> /\ retried = NoThreads /\ elsewhere = NoThreads /\ access = NoAgent
        /\ wakeup = <<>> /\ mail = <<>> /\ answers = <<>> /\ told = 0 /\ ~Loaded
        /\ store.log = <<>>
    BY DEF Init, Loaded, EmptyBook
  <2>2. NoThreads \in [Threads -> Nat] /\ \A t \in Threads : NoThreads[t] = 0
    BY DEF NoThreads
  <2>3. \E tokens : /\ mail \in Seq([token : tokens, through : Nat])
                    /\ answers \in Seq([token : tokens, through : Nat, ok : BOOLEAN])
    BY <2>1
  <2>4. Len(store.log) = 0
    BY <2>1
  <2> QED
    BY <2>1, <2>2, <2>3, <2>4 DEF ServiceTypes, TakenOn, InTouch, Waking, Kept
<1>2. ServiceInv /\ BookInv' /\ [Next]_vars => ServiceInv'
  <2> SUFFICES ASSUME ServiceInv, BookInv', [Next]_vars PROVE ServiceInv'
    OBVIOUS
  <2>1. CASE Refreshing
    <3>1. elsewhere' = elsewhere
      BY <2>1, RefreshedBook
    <3> QED
      BY <2>1, <3>1, RefreshedTypes, RefreshedInTouch, RefreshedKept, TakenOnStays DEF ServiceInv
  <2>2. CASE ObserveReleased \/ ObserveDetected \/ ActiveAgentChanged
    <3>1. elsewhere' = elsewhere
      BY <2>2 DEF ObserveReleased, ObserveDetected, ActiveAgentChanged, Seen
    <3> QED
      BY <2>2, <3>1, SeenKeeps, TakenOnStays DEF ServiceInv
  <2>3. CASE Notified
    <3>1. elsewhere' = elsewhere
      BY <2>3 DEF Notified
    <3> QED
      BY <2>3, <3>1, NotifiedKeeps, TakenOnStays DEF ServiceInv
  <2>4. CASE Recheck
    <3>1. UNCHANGED <<store, book, retried, access, pending, wakeup, told, mail, answers,
                      available, elsewhere>>
      BY <2>4 DEF Recheck, courier, published
    <3> QED
      BY <3>1, SameInTouch, TakenOnStays
      DEF ServiceInv, ServiceTypes, Waking, Kept, Promised, Loaded
  <2>5. CASE Prepare
    <3>1. elsewhere' = elsewhere
      BY <2>5 DEF Prepare, Preparing, PrepareNothing, PrepareCancel, PrepareFails, PrepareGrant
    <3> QED
      BY <2>5, <3>1, PrepareKeeps, TakenOnStays DEF ServiceInv
  <2>6. CASE Notify
    <3>1. elsewhere' = elsewhere
      BY <2>6 DEF Notify, Notifying, NotifyNothing, NotifyFails, NotifyAnother, NotifySend
    <3> QED
      BY <2>6, <3>1, NotifyKeeps, TakenOnStays DEF ServiceInv
  <2>7. CASE CourierReports \/ Herdr \/ UNCHANGED vars
    <3>1. elsewhere' = elsewhere
      BY <2>7 DEF CourierReports, Herdr, AgentStarts, AgentExits, Focus, HerdrChange, vars
    <3> QED
      BY <2>7, <3>1, CourierKeeps, TakenOnStays DEF ServiceInv
  <2>8. CASE OtherTabs
    BY <2>8, OtherTabsKeep DEF ServiceInv
  <2>9. CASE Restart
    <3>1. elsewhere' = elsewhere
      BY <2>9 DEF Restart
    <3> QED
      BY <2>9, <3>1, RestartKeeps, TakenOnStays DEF ServiceInv
  <2>10. Reviewer \/ Agent => Refreshing
    BY DEF Reviewer, Agent, Refreshing
  <2> QED
    BY <2>1, <2>2, <2>3, <2>4, <2>5, <2>6, <2>7, <2>8, <2>9, <2>10 DEF Next, Inputs
<1>3. BookInv /\ ServiceTypes /\ TakenOn /\ InTouch /\ Waking /\ Kept => ServiceInv
  BY DEF ServiceInv
<1> QED
  BY <1>1, <1>2, <1>3, BookIsInvariant, PTL DEF Spec

\* Between two inputs, no comment that waits for this tab's agent is forgotten: its
\* notification is pending, or a wakeup was requested for it, or the reviewer was told that
\* its own failed, or another tab took the thread on.
THEOREM NothingIsForgotten == Spec => []NotForgotten
<1>1. ServiceInv => NotForgotten
  BY DEF ServiceInv, Kept, Promised, NotForgotten, Waits
<1> QED
  BY <1>1, ServiceIsInvariant, PTL

\* A wakeup belongs to an access value, and asks for comments that exist.
THEOREM WakeupsAreGranted == Spec => []WakeupHasAccess
<1>1. ServiceInv => WakeupHasAccess
  BY DEF ServiceInv, Waking, WakeupHasAccess
<1> QED
  BY <1>1, ServiceIsInvariant, PTL

-----------------------------------------------------------------------------
(* The types of the rest of the service's state. *)

\* A finite set of positions that is not empty has a first.
LEMMA FirstIsLeast ==
    ASSUME NEW S \in SUBSET Nat, IsFiniteSet(S), S # {}
    PROVE  Min(S) \in S
<1> DEFINE below(n) == {j \in S : j <= n}
<1>1. Cardinality(S) \in Nat /\ Cardinality(S) # 0
  BY FS_CardinalityType, FS_EmptySet
<1>2. PICK i \in S : Cardinality(below(i)) = 1
  BY <1>1, RanksAreAll
<1>3. ASSUME NEW j \in S
      PROVE  i <= j
  <2>1. CASE j < i
    <3>1. Cardinality(below(j)) < Cardinality(below(i))
      BY <2>1, RankGrows
    <3>2. IsFiniteSet(below(j)) /\ j \in below(j)
      BY FS_Subset
    <3>3. Cardinality(below(j)) \in Nat /\ Cardinality(below(j)) # 0
      BY <3>2, FS_CardinalityType, FS_EmptySet
    <3> HIDE DEF below
    <3> QED
      BY <1>2, <3>1, <3>3
  <2> QED
    BY <2>1
<1> QED
  BY <1>3 DEF Min

\* The image of a finite domain is finite.
LEMMA RangeIsFinite ==
    ASSUME NEW D, NEW T, NEW f \in [D -> T], IsFiniteSet(D)
    PROVE  IsFiniteSet(Range(f))
<1>1. f \in Surjection(D, Range(f))
  BY DEF Surjection, Range
<1> QED
  BY <1>1, FS_Surjection

Prompts == [token : Nat, through : Nat]
Outcomes == [token : Nat, through : Nat, ok : BOOLEAN]

\* A new access value is none that a prompt or an outcome on its way names.
LEMMA FreshTokenIsFresh ==
    ASSUME token \in Nat, mail \in Seq(Prompts), answers \in Seq(Outcomes)
    PROVE  FreshToken \in Nat
<1> DEFINE R == Range(mail) \cup Range(answers)
           used == {token} \cup {m.token : m \in R}
           n == Cardinality(used)
           free == (1 .. (n + 1)) \ used
<1>1. /\ mail \in [1 .. Len(mail) -> Prompts] /\ Len(mail) \in Nat
      /\ answers \in [1 .. Len(answers) -> Outcomes] /\ Len(answers) \in Nat
  BY LenProperties
<1>2. IsFiniteSet(1 .. Len(mail)) /\ IsFiniteSet(1 .. Len(answers))
  BY <1>1, FS_Interval
<1>3. IsFiniteSet(Range(mail)) /\ IsFiniteSet(Range(answers))
  BY <1>1, <1>2, RangeIsFinite
<1>4. IsFiniteSet(R)
  BY <1>3, FS_Union
<1>5. IsFiniteSet({m.token : m \in R})
  <2> DEFINE f == [m \in R |-> m.token]
             T == {m.token : m \in R}
  <2> HIDE DEF R
  <2>1. f \in [R -> T] /\ Range(f) = T
    BY DEF Range
  <2> HIDE DEF f, T
  <2> QED
    BY <1>4, <2>1, RangeIsFinite DEF T
<1>6. IsFiniteSet(used) /\ n \in Nat
  <2> HIDE DEF R
  <2> QED
    BY <1>5, FS_Singleton, FS_Union, FS_CardinalityType
<1> HIDE DEF used
<1>7. IsFiniteSet(1 .. (n + 1)) /\ Cardinality(1 .. (n + 1)) = n + 1
  <2> HIDE DEF n
  <2>1. 1 \in Int /\ n + 1 \in Int /\ ~(1 > n + 1) /\ (n + 1) - 1 + 1 = n + 1
    BY <1>6
  <2> QED
    BY <2>1, FS_Interval
<1>8. free # {}
  <2> SUFFICES ASSUME 1 .. (n + 1) \in SUBSET used PROVE FALSE
    OBVIOUS
  <2>1. Cardinality(1 .. (n + 1)) <= n
    BY <1>6, FS_Subset
  <2> QED
    BY <1>6, <1>7, <2>1
<1>9. free \in SUBSET Nat /\ IsFiniteSet(free)
  BY <1>6, <1>7, FS_Subset
<1>10. Min(free) \in free
  <2> HIDE DEF free
  <2> QED
    BY <1>8, <1>9, FirstIsLeast
<1> QED
  <2>1. FreshToken = Min(free)
    BY DEF FreshToken, used
  <2> HIDE DEF free
  <2> QED
    BY <1>9, <1>10, <2>1

\* An agent that the tab's target names runs in its pane.
LEMMA TargetRuns ==
    ASSUME agents \in [Panes -> 0 .. MaxAgents], focused \in Seq(Panes)
    PROVE  Target = NoAgent \/ Target \in Panes \X (1 .. MaxAgents)
<1> DEFINE live == {p \in Panes : agents[p] # 0}
           I == {i \in 1 .. Len(focused) : focused[i] \in live}
           latest == IF I # {} THEN Max(I) ELSE 0
           agent(p) == <<p, agents[p]>>
<1>1. \A p \in live : agent(p) \in Panes \X (1 .. MaxAgents)
  BY ServiceAssumption
<1>2. Target = IF latest # 0 THEN agent(focused[latest])
               ELSE IF Cardinality(live) = 1 THEN agent(CHOOSE p \in live : TRUE)
               ELSE NoAgent
  BY DEF Target, SelectLastInSeq
<1>3. CASE I # {}
  <2>1. I \in SUBSET Nat /\ IsFiniteSet(I)
    <3>1. I \in SUBSET (1 .. Len(focused)) /\ IsFiniteSet(1 .. Len(focused))
      BY LenProperties, FS_Interval
    <3>2. I \in SUBSET Nat
      OBVIOUS
    <3> HIDE DEF I
    <3> QED
      BY <3>1, <3>2, FS_Subset
  <2>2. \A i \in I : i # 0 /\ focused[i] \in live
    OBVIOUS
  <2> HIDE DEF I, live
  <2>3. Latest(I) \in I \cup {0} /\ \A i \in I : i <= Latest(I)
    BY <2>1, LatestIsLast
  <2>4. Max(I) \in I
    <3>1. PICK i \in I : TRUE
      BY <1>3
    <3>2. \A j \in I : Latest(I) >= j
      BY <2>1, <2>3
    <3>3. Latest(I) \in I
      BY <2>1, <2>2, <2>3, <3>1
    <3> QED
      BY <3>2, <3>3 DEF Max
  <2> QED
    BY <1>1, <1>2, <1>3, <2>2, <2>4
<1>4. CASE I = {} /\ Cardinality(live) = 1
  <2>1. live # {}
    <3>1. Cardinality({}) = 0 /\ Cardinality(live) = 1
      BY <1>4, FS_EmptySet
    <3> HIDE DEF I, live
    <3>2. CASE live = {}
      BY <3>1, <3>2
    <3> QED
      BY <3>2
  <2>2. (CHOOSE p \in live : TRUE) \in live
    BY <2>1
  <2> HIDE DEF I, live
  <2> QED
    BY <1>1, <1>2, <1>4, <2>2
<1> QED
  BY <1>2, <1>3, <1>4

\* A pane that is focused moves to the end.
LEMMA FocusedArePanes ==
    ASSUME focused \in Seq(Panes), NEW p \in Panes
    PROVE  Append(RemoveFirst(focused, p), p) \in Seq(Panes)
<1> DEFINE I == {i \in 1 .. Len(focused) : focused[i] = p}
<1>1. Len(focused) \in Nat
  BY LenProperties
<1>2. CASE I # {}
  <2>1. RemoveFirst(focused, p) = RemoveAt(focused, Min(I))
    BY <1>2 DEF RemoveFirst, SelectInSeq
  <2>2. I \in SUBSET (1 .. Len(focused)) /\ IsFiniteSet(1 .. Len(focused))
    BY <1>1, FS_Interval
  <2>3. Min(I) \in I /\ Min(I) \in 1 .. Len(focused)
    <3>1. I \in SUBSET Nat
      OBVIOUS
    <3> HIDE DEF I
    <3>2. IsFiniteSet(I)
      BY <2>2, FS_Subset
    <3> QED
      BY <1>2, <2>2, <3>1, <3>2, FirstIsLeast
  <2> HIDE DEF I
  <2>4. /\ SubSeq(focused, 1, Min(I) - 1) \in Seq(Panes)
        /\ SubSeq(focused, Min(I) + 1, Len(focused)) \in Seq(Panes)
    BY <1>1, <2>3
  <2> QED
    BY <2>1, <2>4 DEF RemoveAt
<1>3. CASE I = {}
  BY <1>3 DEF RemoveFirst
<1> QED
  BY <1>2, <1>3

\* What the steps around the worker and its own keep of the types.
OwnTypes ==
    /\ access = NoAgent \/ access \in Panes \X (1 .. MaxAgents)
    /\ token \in Nat
    /\ pending \in {"none", "new", "retry"}
    /\ mail \in Seq(Prompts) /\ answers \in Seq(Outcomes)
    /\ report \in Nat
    /\ step \in {"input", "prepare", "notify"}
    /\ available \in BOOLEAN

HerdrTypes ==
    /\ agents \in [Panes -> 0 .. MaxAgents] /\ started \in 0 .. MaxAgents
    /\ focused \in Seq(Panes)
    /\ events \in Seq({"released", "detected", "focus"} \X Panes)

\* What is scheduled is pending, or what was pending is.
LEMMA ScheduledTypes ==
    ASSUME pending \in {"none", "new", "retry"}, NEW b, NEW r, NEW retry
    PROVE  Scheduled(b, r, retry) \in {"none", "new", "retry"}
BY DEF Scheduled

\* Herdr's agents, its focus and its events.
LEMMA HerdrKeepsTypes ==
    ASSUME HerdrTypes, [Next]_vars
    PROVE  HerdrTypes'
<1> USE DEF HerdrTypes
<1>1. CASE \E p \in Panes : AgentStarts(p)
  <2>1. PICK p \in Panes : AgentStarts(p)
    BY <1>1
  <2>2. started + 1 \in 0 .. MaxAgents
    BY <2>1, ServiceAssumption DEF AgentStarts
  <2>3. <<"detected", p>> \in {"released", "detected", "focus"} \X Panes
    OBVIOUS
  <2> QED
    BY <2>1, <2>2, <2>3 DEF AgentStarts, HerdrChange
<1>2. CASE \E p \in Panes : AgentExits(p)
  <2>1. PICK p \in Panes : AgentExits(p)
    BY <1>2
  <2>2. 0 \in 0 .. MaxAgents
    BY ServiceAssumption
  <2>3. <<"released", p>> \in {"released", "detected", "focus"} \X Panes
    OBVIOUS
  <2> QED
    BY <2>1, <2>2, <2>3 DEF AgentExits, HerdrChange
<1>3. CASE \E p \in Panes : Focus(p)
  <2>1. PICK p \in Panes : Focus(p)
    BY <1>3
  <2>2. focused' \in Seq(Panes)
    BY <2>1, FocusedArePanes DEF Focus
  <2>3. <<"focus", p>> \in {"released", "detected", "focus"} \X Panes
    OBVIOUS
  <2> QED
    BY <2>1, <2>2, <2>3 DEF Focus, HerdrChange
<1>4. CASE ObserveReleased \/ ObserveDetected \/ ActiveAgentChanged
  <2>1. UNCHANGED <<agents, started, focused>> /\ events # <<>> /\ events' = Tail(events)
    BY <1>4 DEF ObserveReleased, ObserveDetected, ActiveAgentChanged, Seen
  <2>2. events' \in Seq({"released", "detected", "focus"} \X Panes)
    BY <2>1, HeadTailProperties
  <2> QED
    BY <2>1, <2>2
<1>5. CASE Restart
  BY <1>5 DEF Restart
<1>6. CASE Reviewer \/ Agent
  BY <1>6 DEF Reviewer, Load, MarkRead, Retry, Reopen, ResolveThread, PostComment,
              Agent, Fetch, Reply, Ui, Mcp, herdr
<1>7. CASE Notified \/ Recheck \/ Prepare \/ Notify \/ CourierReports \/ UNCHANGED vars
  BY <1>7 DEF Notified, Recheck, Prepare, Preparing, PrepareNothing, PrepareCancel,
              PrepareFails, PrepareGrant, Notify, Notifying, NotifyNothing, NotifyFails,
              NotifyAnother, NotifySend, CourierReports, herdr, vars
<1>8. CASE OtherTabs
  BY <1>8 DEF OtherTabs, OtherPosts, OtherReplies, OtherResolves, OtherReopens, Other, herdr
<1> QED
  BY <1>1, <1>2, <1>3, <1>4, <1>5, <1>6, <1>7, <1>8 DEF Next, Inputs, Herdr

\* The worker's own state, and what is on its way to the courier and back.
LEMMA WorkerKeepsTypes ==
    ASSUME ServiceInv, ServiceInv', OwnTypes, HerdrTypes, [Next]_vars
    PROVE  OwnTypes'
<1>1. store' \in Book
  BY DEF ServiceInv, BookInv
<1>2. \A b \in Book : PendingSequenceFor(b, Tab, retried) \in Nat
  <2> TAKE b \in Book
  <2>1. PendingSequenceFor(b, Tab, retried) \in 0 .. Len(b.log) /\ Len(b.log) \in Nat
    BY SequenceCovers, BookTypes
  <2> QED
    BY <2>1
<1>3. wakeup = <<>> \/ (wakeup[1].requested \in Nat /\ wakeup[1].notified \in Nat)
  BY DEF ServiceInv, ServiceTypes
<1>4. Loaded => book[1] \in Book
  BY DEF ServiceInv, ServiceTypes, Loaded
<1>5. CASE Reviewer \/ Agent
  <2>1. UNCHANGED <<access, token, mail, answers, available>> /\ step' = "prepare"
    BY <1>5 DEF Reviewer, Load, MarkRead, Retry, Reopen, ResolveThread, PostComment,
                Agent, Fetch, Reply, Ui, Mcp, courier
  <2>2. pending' \in {"none", "new", "retry"}
    <3>1. \/ UNCHANGED pending \/ pending' = "none"
          \/ \E b, r, retry : pending' = Scheduled(b, r, retry)
      BY <1>5 DEF Reviewer, Load, MarkRead, Retry, Reopen, ResolveThread, PostComment,
                  Agent, Fetch, Reply, Mcp
    <3> QED
      BY <3>1, ScheduledTypes DEF OwnTypes
  <2>3. report' \in Nat
    <3>1. UNCHANGED report \/ report' = PendingSequenceFor(store', Tab, retried)
      BY <1>5 DEF Reviewer, Load, MarkRead, Retry, Reopen, ResolveThread, PostComment,
                  Agent, Fetch, Reply, Mcp, published, ReportUndelivered, Publish
    <3> QED
      BY <1>1, <1>2, <3>1 DEF OwnTypes
  <2> QED
    BY <2>1, <2>2, <2>3 DEF OwnTypes
<1>6. CASE ObserveReleased \/ ObserveDetected \/ ActiveAgentChanged
  <2>1. UNCHANGED <<access, token, mail, answers, report, available>> /\ step' = "prepare"
    BY <1>6 DEF ObserveReleased, ObserveDetected, ActiveAgentChanged, Seen, courier, published
  <2>2. pending' = Refreshed
    BY <1>6 DEF ObserveReleased, ObserveDetected, ActiveAgentChanged
  <2>3. pending' \in {"none", "new", "retry"}
    BY <2>2, ScheduledTypes DEF Refreshed, OwnTypes
  <2> QED
    BY <2>1, <2>3 DEF OwnTypes
<1>7. CASE Notified
  <2>1. answers # <<>> /\ Head(answers) \in Outcomes /\ Tail(answers) \in Seq(Outcomes)
    BY <1>7 DEF Notified, OwnTypes
  <2>2. report' = report \/ report' = Head(answers).through
    BY <1>7 DEF Notified, Publish, published
  <2>3. report' \in Nat
    BY <2>1, <2>2 DEF OwnTypes, Outcomes
  <2> QED
    BY <1>7, <2>1, <2>3 DEF Notified, OwnTypes
<1>8. CASE Recheck
  BY <1>8 DEF Recheck, OwnTypes, courier, published
<1>9. CASE Prepare
  <2>1. UNCHANGED <<mail, answers, available>> /\ step' = "notify" /\ pending' = "none"
    BY <1>9 DEF Prepare, PrepareNothing, PrepareCancel, PrepareFails, PrepareGrant,
                Preparing, courier
  <2>2. access' = access \/ (access' = Target /\ Target # NoAgent)
    BY <1>9 DEF Prepare, PrepareNothing, PrepareCancel, PrepareFails, PrepareGrant
  <2>3. token' = token \/ token' = FreshToken
    BY <1>9 DEF Prepare, PrepareNothing, PrepareCancel, PrepareFails, PrepareGrant
  <2>4. report' = report \/ (Loaded /\ report' = PendingSequenceFor(book[1], Tab, retried))
    BY <1>9 DEF Prepare, PrepareNothing, PrepareCancel, PrepareFails, PrepareGrant, Waits,
                published, ReportUndelivered, Publish
  <2>5. access' = NoAgent \/ access' \in Panes \X (1 .. MaxAgents)
    BY <2>2, TargetRuns DEF OwnTypes, HerdrTypes
  <2>6. token' \in Nat
    BY <2>3, FreshTokenIsFresh DEF OwnTypes
  <2>7. report' \in Nat
    BY <1>2, <1>4, <2>4 DEF OwnTypes
  <2> QED
    BY <2>1, <2>5, <2>6, <2>7 DEF OwnTypes
<1>10. CASE Notify
  <2>1. UNCHANGED <<access, token, answers, available>> /\ step' = "input"
    BY <1>10 DEF Notify, NotifyNothing, NotifyFails, NotifyAnother, NotifySend, Notifying
  <2>2. pending' \in {"none", "new", "retry"}
    BY <1>10, ScheduledTypes
    DEF Notify, NotifyNothing, NotifyFails, NotifyAnother, NotifySend, OwnTypes
  <2>3. report' \in Nat
    <3>1. \/ report' = report \/ report' = 0
          \/ (Loaded /\ report' = PendingSequenceFor(book[1], Tab, retried))
      BY <1>10 DEF Notify, NotifyNothing, NotifyFails, NotifyAnother, NotifySend, Waits,
                   published, ReportUndelivered, Publish
    <3> QED
      BY <1>2, <1>4, <3>1 DEF OwnTypes
  <2>4. mail' \in Seq(Prompts)
    <3>1. mail' = mail
          \/ (wakeup # <<>>
              /\ mail' = Append(mail, [token |-> token, through |-> wakeup[1].requested]))
      BY <1>10 DEF Notify, NotifyNothing, NotifyFails, NotifyAnother, NotifySend, NeedsPoll
    <3>2. wakeup # <<>> => [token |-> token, through |-> wakeup[1].requested] \in Prompts
      BY <1>3 DEF OwnTypes, Prompts
    <3> QED
      BY <3>1, <3>2 DEF OwnTypes
  <2> QED
    BY <2>1, <2>2, <2>3, <2>4 DEF OwnTypes
<1>11. CASE CourierReports
  <2>1. mail # <<>> /\ Head(mail) \in Prompts /\ Tail(mail) \in Seq(Prompts)
    BY <1>11 DEF CourierReports, OwnTypes
  <2>2. PICK ok \in BOOLEAN :
          answers' = Append(answers, [token |-> Head(mail).token,
                                      through |-> Head(mail).through, ok |-> ok])
    BY <1>11 DEF CourierReports
  <2>3. [token |-> Head(mail).token, through |-> Head(mail).through, ok |-> ok] \in Outcomes
    BY <2>1 DEF Prompts, Outcomes
  <2>4. answers' \in Seq(Outcomes)
    BY <2>2, <2>3 DEF OwnTypes
  <2> QED
    BY <1>11, <2>1, <2>4 DEF CourierReports, Outside, OwnTypes, published
<1>12. CASE Herdr
  BY <1>12 DEF Herdr, AgentStarts, AgentExits, Focus, HerdrChange, Outside, courier, published,
               OwnTypes
<1>13. CASE OtherTabs
  BY <1>13 DEF OtherTabs, OtherPosts, OtherReplies, OtherResolves, OtherReopens, Other, Outside,
               courier, published, OwnTypes
<1>14. CASE Restart
  BY <1>14 DEF Restart, OwnTypes
<1>15. CASE UNCHANGED vars
  BY <1>15 DEF vars, courier, published, OwnTypes
<1> QED
  BY <1>5, <1>6, <1>7, <1>8, <1>9, <1>10, <1>11, <1>12, <1>13, <1>14, <1>15 DEF Next, Inputs

\* The types of the service's state, at every step.
THEOREM ServiceTypesHold == Spec => []TypeOK
<1>1. Init => OwnTypes /\ HerdrTypes
  BY ServiceAssumption DEF Init, OwnTypes, HerdrTypes
<1>2. ServiceInv /\ ServiceInv' /\ OwnTypes /\ HerdrTypes /\ [Next]_vars
      => (OwnTypes /\ HerdrTypes)'
  BY HerdrKeepsTypes, WorkerKeepsTypes
<1>3. ServiceInv /\ OwnTypes /\ HerdrTypes => TypeOK
  <2> SUFFICES ASSUME ServiceInv, OwnTypes, HerdrTypes PROVE TypeOK
    OBVIOUS
  <2>1. store \in Book /\ ServiceTypes
    BY DEF ServiceInv, BookInv
  <2>2. book = <<>> \/ (Len(book) = 1 /\ book[1] \in Book)
    BY <2>1 DEF ServiceTypes
  <2>3. wakeup = <<>> \/ (Len(wakeup) = 1
                          /\ wakeup[1] \in [requested : Nat, notified : Nat])
    BY <2>1 DEF ServiceTypes
  <2> QED
    BY <2>1, <2>2, <2>3
    DEF TypeOK, ServiceTypes, OwnTypes, HerdrTypes, Prompts, Outcomes
<1> QED
  BY <1>1, <1>2, <1>3, ServiceIsInvariant, PTL DEF Spec

-----------------------------------------------------------------------------
(* What the wakeup's prompts covered, as ThreadServiceHistory remembers it. *)

HistoryInv == NotifiedWasPrompted /\ asked \in Nat

\* The history restricts no step of the service: its behaviours are the service's.
THEOREM HistoryImplementsService == HSpec => Spec
<1>1. HInit => Init
  BY DEF HInit
<1>2. [HNext]_hvars => [Next]_vars
  BY DEF HNext, hvars, Learns, Prepares, Grants, Prepare, Notifies, Sends, Notify, Observes,
         Rechecks, Loads, Outcome, Restarts, Unremarkable, Next, Reviewer, Inputs
<1> QED
  BY <1>1, <1>2, PTL DEF HSpec, Spec

\* What a wakeup counts as notified was prompted for with its own access value: an agent that
\* takes over is prompted for all that waits, and a comment posted later never counts.
THEOREM NotifiedWasAsked == HSpec => []NotifiedWasPrompted
<1>1. HInit => HistoryInv
  BY DEF HInit, Init, HistoryInv, NotifiedWasPrompted
<1>2. ServiceInv /\ ServiceInv' /\ OwnTypes /\ HistoryInv /\ [HNext]_hvars => HistoryInv'
  <2> SUFFICES ASSUME ServiceInv, ServiceInv', OwnTypes, HistoryInv, [HNext]_hvars
               PROVE  HistoryInv'
    OBVIOUS
  <2>1. asked \in Nat /\ (wakeup # <<>> => wakeup[1].notified <= asked)
    BY DEF HistoryInv, NotifiedWasPrompted
  <2>2. \/ wakeup = <<>>
        \/ wakeup[1].requested \in Nat /\ wakeup[1].notified \in Nat
    BY DEF ServiceInv, ServiceTypes
  <2>3. ASSUME asked' = asked,
               wakeup' # <<>> => wakeup'[1].notified = 0
                                 \/ (wakeup # <<>> /\ wakeup'[1].notified = wakeup[1].notified)
        PROVE  HistoryInv'
    BY <2>1, <2>2, <2>3 DEF HistoryInv, NotifiedWasPrompted
  <2>4. CASE Learns
    BY <2>3, <2>4 DEF Learns, Notified, Nothing
  <2>5. CASE Prepares /\ ~Grants
    BY <2>3, <2>5 DEF Prepares, PrepareFails, PrepareNothing, PrepareCancel, Nothing
  <2>6. CASE Grants
    <3>1. /\ asked' = IF token' = token THEN asked ELSE 0
          /\ token' = IF access = Target THEN token ELSE FreshToken
          /\ wakeup' = Request(IF access = Target THEN wakeup ELSE <<>>,
                               Through, pending = "retry")
      BY <2>6 DEF Grants, PrepareGrant
    <3>2. \/ wakeup'[1].notified = 0
          \/ access = Target /\ wakeup # <<>> /\ wakeup'[1].notified = wakeup[1].notified
      BY <3>1 DEF Request
    <3> QED
      BY <2>1, <3>1, <3>2 DEF HistoryInv, NotifiedWasPrompted
  <2>7. CASE Sends
    <3>1. /\ wakeup # <<>>
          /\ wakeup' = <<[wakeup[1] EXCEPT !.notified = wakeup[1].requested]>>
          /\ mail' = Append(mail, [token |-> token, through |-> wakeup[1].requested])
          /\ asked' = Max({asked, Last(mail').through})
      BY <2>7 DEF Sends, NotifySend, NeedsPoll
    <3>2. Last(mail').through = wakeup[1].requested
      <4>1. mail \in Seq(Prompts)
        BY DEF OwnTypes
      <4>2. Last(mail') = [token |-> token, through |-> wakeup[1].requested]
        BY <3>1, <4>1 DEF Last
      <4> QED
        BY <4>2
    <3>3. PICK w \in [requested : Nat, notified : Nat] : wakeup = <<w>>
      BY <3>1 DEF ServiceInv, ServiceTypes
    <3>4. wakeup'[1].notified = wakeup[1].requested
      BY <3>1, <3>3
    <3>5. asked' \in Nat /\ asked' >= wakeup[1].requested
      BY <2>1, <2>2, <3>1, <3>2, MaxOfTwo
    <3> QED
      BY <2>2, <3>1, <3>4, <3>5 DEF HistoryInv, NotifiedWasPrompted
  <2>8. CASE Notifies /\ ~Sends
    BY <2>3, <2>8 DEF Notifies, NotifyFails, NotifyNothing, NotifyAnother, Nothing
  <2>9. CASE Observes
    <3>1. \/ wakeup' = wakeup \/ wakeup' = Interrupted(wakeup)
          \/ wakeup' = Request(<<>>, Through, FALSE)
      BY <2>9 DEF Observes, ObserveReleased, ObserveDetected, ActiveAgentChanged
    <3>2. wakeup' # <<>> => wakeup'[1].notified = 0
                            \/ (wakeup # <<>> /\ wakeup'[1].notified = wakeup[1].notified)
      <4>1. wakeup = <<>> \/ \E w \in [requested : Nat, notified : Nat] : wakeup = <<w>>
        BY DEF ServiceInv, ServiceTypes
      <4> QED
        BY <3>1, <4>1 DEF Interrupted, Request
    <3> QED
      BY <2>3, <2>9, <3>2 DEF Observes, Nothing
  <2>10. CASE Rechecks \/ Loads
    BY <2>3, <2>10 DEF Rechecks, Recheck, Loads, Load, Nothing
  <2>11. CASE Outcome
    BY <2>3, <2>11 DEF Outcome, CourierReports, Outside
  <2>12. CASE Restarts
    BY <2>12 DEF Restarts, Restart, HistoryInv, NotifiedWasPrompted
  <2>13. CASE Unremarkable
    <3>1. asked' = asked
      BY <2>13 DEF Unremarkable, Nothing
    <3>2. wakeup' = wakeup \/ wakeup' = <<>> \/ wakeup' = <<[requested |-> 0, notified |-> 0]>>
      BY <2>13
      DEF Unremarkable, MarkRead, Agent, Fetch, Reply, Mcp, Herdr, AgentStarts, AgentExits,
          Focus, HerdrChange, Outside, OtherTabs, OtherPosts, OtherReplies, OtherResolves,
          OtherReopens, Other, Retry, Reopen, ResolveThread, PostComment
    <3> QED
      BY <2>3, <3>1, <3>2
  <2>14. CASE UNCHANGED hvars
    BY <2>3, <2>14 DEF hvars, vars
  <2> QED
    BY <2>4, <2>5, <2>6, <2>7, <2>8, <2>9, <2>10, <2>11, <2>12, <2>13, <2>14 DEF HNext
<1>3. HistoryInv => NotifiedWasPrompted
  BY DEF HistoryInv
<1>4. TypeOK => OwnTypes
  BY DEF TypeOK, OwnTypes, Prompts, Outcomes
<1> QED
  BY <1>1, <1>2, <1>3, <1>4, ServiceIsInvariant, ServiceTypesHold, HistoryImplementsService, PTL
  DEF HSpec
=============================================================================
