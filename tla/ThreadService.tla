---------------------------- MODULE ThreadService ----------------------------
(***************************************************************************)
(* The thread service of one review pane, for one review                   *)
(* (crates/review-thread-service/src/state.rs, wakeup.rs, notification.rs, *)
(* access.rs): it saves the reviewer's comments and wakes the tab's agent  *)
(* for them, exactly once each, until a reply takes them up.               *)
(*                                                                         *)
(* The worker handles one input and then polls, so `step` goes around      *)
(* input, prepare (the notification becomes an access value and a wakeup)  *)
(* and notify (the wakeup becomes a prompt).  Around it run the courier,   *)
(* whose outcomes come back as inputs; Herdr, where agents come and go     *)
(* and whose events arrive late; the review panes and agents of other      *)
(* tabs, which share the stored book; and the restart of this pane.        *)
(***************************************************************************)
EXTENDS ReviewThreads, SequencesExt

CONSTANTS
    Tab,        \* the tab of this review pane
    Panes,      \* the panes of this tab where an agent may run
    MaxAgents,  \* bound: agent sessions that ever start
    MaxEvents,  \* bound: Herdr events on their way
    MaxMail,    \* bound: prompts with the courier, or outcomes on their way back
    MayRestart  \* whether the pane's process may end and start again

ASSUME ServiceAssumption ==
    /\ Tab \in Tabs
    /\ MaxAgents \in Nat /\ MaxEvents \in Nat /\ MaxMail \in Nat
    /\ MayRestart \in BOOLEAN

VARIABLES
    store,    \* the book on disk, which every tab's pane updates under its lock
    book,     \* State.books: <<>> before it is loaded, else <<the copy last read>>
    retried,  \* State.retried: per thread, the latest comment a Retry covered
    access,   \* State.access: the agent the review's access value is bound to, or NoAgent
    token,    \* that access value
    pending,  \* State.notifications: "none", "new" or "retry"
    wakeup,   \* State.wakeups: <<>> or <<[requested, notified]>> of that access value
    mail,     \* the prompts with the courier: [token, through]
    answers,  \* Input::Notified on its way: [token, through, ok]
    report,   \* the failure last published as Event::Wakeup, by `through`; 0 for none
    agents,   \* Herdr: the agent session in each pane, 0 for none
    started,  \* Herdr: how many agent sessions started
    focused,  \* AgentTarget: the panes in the order of their focus
    events,   \* Herdr events that the worker has not seen
    step,     \* the worker: "input", "prepare" or "notify"
    available,\* whether the MCP server runs
    elsewhere,\* other panes: per thread, the latest comment a reopening there covered
    told      \* history: the failures published for comments no prompt was sent for since

published == <<report, told>>
herdr == <<agents, started, focused, events>>
courier == <<mail, answers>>
vars == <<store, book, retried, access, token, pending, wakeup, courier,
          published, herdr, step, available, elsewhere>>

NoAgent == <<>>
NoThreads == [t \in Threads |-> 0]

Init ==
    /\ store = EmptyBook /\ book = <<>> /\ retried = NoThreads
    /\ access = NoAgent /\ token = 0 /\ pending = "none" /\ wakeup = <<>>
    /\ mail = <<>> /\ answers = <<>> /\ report = 0 /\ told = 0
    /\ agents = [p \in Panes |-> 0] /\ started = 0
    /\ focused = <<>> /\ events = <<>>
    /\ step = "input" /\ available \in BOOLEAN
    /\ elsewhere = NoThreads

Loaded == book # <<>>

\* State::waits_for_agent, on the copy of the book the service last read.
WaitsIn(b, r) == HasNewMessagesFor(b, Tab, r)
Waits == Loaded /\ WaitsIn(book[1], retried)

Through == PendingSequenceFor(book[1], Tab, retried)

\* AgentTarget::resolve: the agent focused last that still runs, else the only
\* agent of the tab.
Target ==
    LET live == {p \in Panes : agents[p] # 0}
        latest == SelectLastInSeq(focused, LAMBDA p : p \in live)
        agent(p) == <<p, agents[p]>>
    IN  IF latest # 0 THEN agent(focused[latest])
        ELSE IF Cardinality(live) = 1 THEN agent(CHOOSE p \in live : TRUE)
        ELSE NoAgent

\* Access::current_agent: the bound session still runs in its pane.
AccessIsLive == access # NoAgent /\ agents[access[1]] = access[2]

-----------------------------------------------------------------------------
(* What the handlers do to notifications and wakeups.  Each names the values *)
(* of `pending` and `wakeup` that follow, for a book b and Retries r.        *)

\* State::schedule, where the caller knows the book is loaded.
Scheduled(b, r, retry) ==
    IF ~WaitsIn(b, r) \/ ~available THEN pending
    ELSE IF retry \/ pending = "retry" THEN "retry" ELSE "new"

\* Event::Wakeup with a failure.
Publish(through) == report' = through /\ told' = Max({told, through})

\* State::undelivered, of a book in which comments wait.
ReportUndelivered(b, r) == Publish(PendingSequenceFor(b, Tab, r))

NeedsPoll == wakeup # <<>> /\ wakeup[1].requested > wakeup[1].notified

\* Wakeup::request.
Request(w, through, retry) ==
    <<[requested |-> through,
       notified |-> IF retry \/ w = <<>> THEN 0 ELSE w[1].notified]>>

\* Wakeup::interrupted.
Interrupted(w) == IF w = <<>> THEN w ELSE <<[w[1] EXCEPT !.notified = 0]>>

-----------------------------------------------------------------------------
(* Inputs from the reviewer's interface. *)

Ui == /\ step = "input" /\ step' = "prepare"
      /\ UNCHANGED <<courier, herdr, available, elsewhere, access, token>>

\* ThreadCommand::Load.
Load ==
    /\ Ui
    /\ book' = <<store>>
    /\ pending' = Scheduled(store, retried, FALSE)
    /\ UNCHANGED <<store, retried, wakeup, published>>

\* ThreadCommand::MarkRead and MarkRepliesRead: an update that only refreshes
\* the service's copy, as far as this model sees.
MarkRead ==
    /\ Ui /\ Loaded
    /\ book' = <<store>>
    /\ UNCHANGED <<store, retried, pending, wakeup, published>>

\* Mutant of PostComment: the comment is added to the copy last read.
PostCommentStale(id, t) ==
    /\ Ui /\ Loaded
    /\ LET m == [id |-> id, thread |-> t, from |-> Tab, in_reply_to |-> NoMessage]
           b == Post(book[1], m)
       IN  /\ Known(book[1], id) => m \in Range(book[1].log)
           /\ store' = b
           /\ book' = <<b>>
           /\ pending' = Scheduled(b, retried, FALSE)
    /\ UNCHANGED <<retried, wakeup, published>>

\* ThreadCommand::Post, a repeated one included.
PostComment(id, t) ==
    /\ Ui
    /\ LET m == [id |-> id, thread |-> t, from |-> Tab, in_reply_to |-> NoMessage]
           b == Post(store, m)
       IN  /\ Known(store, id) => m \in Range(store.log)
           /\ store' = b
           /\ book' = <<b>>
           /\ pending' = Scheduled(b, retried, FALSE)
           /\ IF available \/ ~WaitsIn(b, retried)
              THEN UNCHANGED published ELSE ReportUndelivered(b, retried)
    /\ UNCHANGED <<retried, wakeup>>

\* State::release: the thread's comments so far come to this tab's agent.
Released(b, t) == [retried EXCEPT ![t] = LastComment(b, t)]

\* ThreadCommand::Retry.
Retry(t) ==
    /\ Ui /\ Loaded
    /\ book' = <<store>>
    /\ IF Pending(store, t)
       THEN /\ retried' = Released(store, t)
            /\ pending' = Scheduled(store, retried', TRUE)
       ELSE UNCHANGED <<retried, pending>>
    /\ UNCHANGED <<store, wakeup, published>>

\* ThreadCommand::SetResolution to Open.
Reopen(t) ==
    /\ Ui /\ Loaded
    /\ store.open[t] # "absent"
    /\ LET b == SetResolution(store, t, "open")
       IN  /\ store' = b
           /\ book' = <<b>>
           /\ retried' = Released(b, t)
           /\ pending' = Scheduled(b, retried', TRUE)
    /\ UNCHANGED <<wakeup, published>>

\* ThreadCommand::SetResolution to Resolved: cancel_wakeups once nothing waits.
ResolveThread(t) ==
    /\ Ui
    /\ Loaded /\ store.open[t] # "absent"
    /\ store' = SetResolution(store, t, "resolved")
    /\ book' = <<store'>>
    /\ IF WaitsIn(store', retried)
       THEN UNCHANGED <<pending, wakeup>>
       ELSE pending' = "none" /\ wakeup' = <<>>
    /\ UNCHANGED <<retried, published>>

-----------------------------------------------------------------------------
(* Inputs from the agent, with the access value of its wakeup. *)

Mcp == /\ step = "input" /\ step' = "prepare"
       /\ AccessIsLive
       /\ UNCHANGED <<courier, herdr, available, elsewhere, access, token,
                      retried, pending, published>>

\* ListThreads, GetThread and GetNewMessages only read the book.
Fetch ==
    /\ Mcp
    /\ book' = <<store>>
    /\ UNCHANGED <<store, wakeup>>

\* Reply, a repeated one included: Wakeup::answered once nothing waits.
Reply(id, t, to) ==
    /\ Mcp
    /\ LET m == [id |-> id, thread |-> t, from |-> "agent", in_reply_to |-> to]
       IN  /\ CanAnswer(store, m)
           /\ Known(store, id) => m \in Range(store.log)
           /\ store' = Answer(store, m)
    /\ book' = <<store'>>
    /\ wakeup' = IF WaitsIn(store', retried) \/ wakeup = <<>> THEN wakeup
                 ELSE <<[requested |-> 0, notified |-> 0]>>

-----------------------------------------------------------------------------
(* Inputs from Herdr, State::observe, and from the courier, State::notified. *)

Seen == /\ step = "input" /\ step' = "prepare"
        /\ events # <<>> /\ events' = Tail(events)
        /\ UNCHANGED <<store, book, retried, access, token, courier, published,
                       agents, started, focused, available, elsewhere>>

\* State::refresh_target.
Refreshed == IF Loaded THEN Scheduled(book[1], retried, FALSE) ELSE pending

OfAccess(p) == access # NoAgent /\ access[1] = p

\* AgentDetected, released: what was sent to the agent may be lost with it.
ObserveReleased ==
    /\ Seen
    /\ \E p \in Panes :
         /\ Head(events) = <<"released", p>>
         /\ wakeup' = IF OfAccess(p) THEN Interrupted(wakeup) ELSE wakeup
    /\ pending' = Refreshed

\* Mutant of ObserveDetected: any agent that comes back gets the wakeup.
ObserveDetectedAny ==
    /\ Seen
    /\ \E p \in Panes :
         /\ Head(events) = <<"detected", p>>
         /\ wakeup' = IF wakeup = <<>> /\ Waits
                      THEN Request(<<>>, Through, FALSE) ELSE wakeup
    /\ pending' = Refreshed

\* AgentDetected: an access value that is valid again gets a wakeup of its own.
ObserveDetected ==
    /\ Seen
    /\ \E p \in Panes :
         /\ Head(events) = <<"detected", p>>
         /\ wakeup' = IF OfAccess(p) /\ AccessIsLive /\ wakeup = <<>> /\ Waits
                      THEN Request(<<>>, Through, FALSE) ELSE wakeup
    /\ pending' = Refreshed

\* Command::ActiveAgentChanged.
ActiveAgentChanged ==
    /\ Seen
    /\ \E p \in Panes : Head(events) = <<"focus", p>>
    /\ pending' = Refreshed
    /\ UNCHANGED wakeup

\* Wakeup::unchanged_since.
UnchangedSince(through) ==
    wakeup # <<>> /\ wakeup[1] = [requested |-> through, notified |-> through]

\* Mutant of Notified: a late failure ends whatever wakeup there is.
NotifiedAny ==
    /\ step = "input" /\ step' = "prepare"
    /\ answers # <<>> /\ answers' = Tail(answers)
    /\ LET a == Head(answers) IN
       IF a.ok THEN UNCHANGED <<wakeup, published>>
       ELSE /\ wakeup' = <<>>
            /\ IF a.token = token THEN Publish(a.through) ELSE UNCHANGED published
    /\ UNCHANGED <<store, book, retried, access, token, pending, mail, herdr,
                   available, elsewhere>>

\* Mutant of Notified: the failure is not published.
NotifiedSilently ==
    /\ step = "input" /\ step' = "prepare"
    /\ answers # <<>> /\ answers' = Tail(answers)
    /\ LET a == Head(answers)
       IN  wakeup' = IF ~a.ok /\ a.token = token /\ UnchangedSince(a.through)
                     THEN <<>> ELSE wakeup
    /\ UNCHANGED <<store, book, retried, access, token, pending, mail, herdr,
                   published, available, elsewhere>>

\* A failure ends the wakeup it was sent for, unless that was armed again; an
\* access value no longer known leaves only an error to publish.
Notified ==
    /\ step = "input" /\ step' = "prepare"
    /\ answers # <<>> /\ answers' = Tail(answers)
    /\ LET a == Head(answers)
           own == a.token = token
           ended == own /\ UnchangedSince(a.through)
       IN IF a.ok THEN UNCHANGED <<wakeup, published>>
          ELSE /\ wakeup' = IF ended THEN <<>> ELSE wakeup
               /\ IF own THEN Publish(a.through) ELSE UNCHANGED published
    /\ UNCHANGED <<store, book, retried, access, token, pending, mail, herdr,
                   available, elsewhere>>

\* RECHECK_INTERVAL went by while a notification or a wakeup waits.
Recheck ==
    /\ step = "input" /\ step' = "prepare"
    /\ pending # "none" \/ (NeedsPoll /\ Waits)
    /\ UNCHANGED <<store, book, retried, access, token, pending, wakeup, courier,
                   published, herdr, available, elsewhere>>

-----------------------------------------------------------------------------
(* State::poll. *)

\* An access value that no prompt or outcome on its way names.
FreshToken ==
    LET used == {token} \cup {m.token : m \in Range(mail) \cup Range(answers)}
    IN  Min((1 .. (Cardinality(used) + 1)) \ used)

\* State::prepare_notification for a pending notification.
Preparing ==
    /\ step = "prepare" /\ step' = "notify"
    /\ pending' = "none"
    /\ UNCHANGED <<store, book, retried, courier, herdr, available, elsewhere>>

PrepareNothing ==
    /\ Preparing /\ pending = "none"
    /\ UNCHANGED <<wakeup, access, token, published>>

\* Nothing waits any more: State::cancel_wakeups.
PrepareCancel ==
    /\ Preparing /\ pending # "none" /\ ~Waits
    /\ wakeup' = <<>>
    /\ UNCHANGED <<access, token, published>>

\* No agent to focus, or Herdr fails to tell.
PrepareFails ==
    /\ Preparing /\ pending # "none" /\ Waits
    /\ ReportUndelivered(book[1], retried)
    /\ UNCHANGED <<wakeup, access, token>>

\* Mutant of PrepareGrant: a new access value keeps the wakeup of the old one.
PrepareGrantKeeping ==
    /\ Preparing /\ pending # "none" /\ Waits /\ Target # NoAgent
    /\ access' = Target
    /\ token' = IF access = Target THEN token ELSE FreshToken
    /\ wakeup' = Request(wakeup, Through, pending = "retry")
    /\ UNCHANGED published

\* State::grant: the access value of this agent, or a new one that ends the old
\* one and its wakeups; then State::request_wakeup.
PrepareGrant ==
    /\ Preparing /\ pending # "none" /\ Waits /\ Target # NoAgent
    /\ access' = Target
    /\ token' = IF access = Target THEN token ELSE FreshToken
    /\ wakeup' = Request(IF access = Target THEN wakeup ELSE <<>>,
                         Through, pending = "retry")
    /\ UNCHANGED published

\* State::notify, for the one access value a review has.
Notifying ==
    /\ step = "notify" /\ step' = "input"
    /\ UNCHANGED <<store, book, retried, access, token, answers, herdr,
                   available, elsewhere>>

NotifyNothing ==
    /\ Notifying /\ ~(NeedsPoll /\ Waits)
    /\ UNCHANGED <<pending, wakeup, mail, published>>

NotifyFails ==
    /\ Notifying /\ NeedsPoll /\ Waits
    /\ wakeup' = <<>>
    /\ ReportUndelivered(book[1], retried)
    /\ UNCHANGED <<pending, mail>>

\* Mutant of NotifyAnother: the wakeup is dropped, and not scheduled again.
NotifyAnotherDropped ==
    /\ Notifying /\ NeedsPoll /\ Waits /\ Target \notin {NoAgent, access}
    /\ wakeup' = <<>>
    /\ UNCHANGED <<pending, mail, published>>

\* The tab's agent is not the one the access value is bound to any more.
NotifyAnother ==
    /\ Notifying /\ NeedsPoll /\ Waits /\ Target \notin {NoAgent, access}
    /\ wakeup' = <<>>
    /\ pending' = Scheduled(book[1], retried, FALSE)
    /\ UNCHANGED <<mail, published>>

NotifySend ==
    /\ Notifying /\ NeedsPoll /\ Waits /\ Target # NoAgent /\ Target = access
    /\ Len(mail) + Len(answers) < MaxMail
    /\ wakeup' = <<[wakeup[1] EXCEPT !.notified = wakeup[1].requested]>>
    /\ mail' = Append(mail, [token |-> token, through |-> wakeup[1].requested])
    /\ report' = 0
    /\ told' = IF told <= wakeup[1].requested THEN 0 ELSE told
    /\ UNCHANGED pending

-----------------------------------------------------------------------------
(* Around the worker. *)

Outside == UNCHANGED <<book, retried, access, token, pending, wakeup, published,
                       step, available>>

\* The courier's outcome for the prompt it was sending.
CourierReports ==
    /\ mail # <<>>
    /\ \E ok \in BOOLEAN :
         LET m == Head(mail) IN
         /\ answers' = Append(answers, [token |-> m.token, through |-> m.through, ok |-> ok])
    /\ mail' = Tail(mail)
    /\ Outside /\ UNCHANGED <<store, herdr, elsewhere>>

HerdrChange(event) ==
    /\ Len(events) < MaxEvents
    /\ events' = Append(events, event)
    /\ Outside /\ UNCHANGED <<store, courier, elsewhere>>

AgentStarts(p) ==
    /\ agents[p] = 0 /\ started < MaxAgents
    /\ agents' = [agents EXCEPT ![p] = started + 1]
    /\ started' = started + 1
    /\ UNCHANGED focused
    /\ HerdrChange(<<"detected", p>>)

AgentExits(p) ==
    /\ agents[p] # 0
    /\ agents' = [agents EXCEPT ![p] = 0]
    /\ UNCHANGED <<started, focused>>
    /\ HerdrChange(<<"released", p>>)

\* AgentTarget::observe_focus.
Focus(p) ==
    /\ focused' = Append(RemoveFirst(focused, p), p)
    /\ UNCHANGED <<agents, started>>
    /\ HerdrChange(<<"focus", p>>)

\* The panes and agents of other tabs.  Polling does not read the store, so
\* that their updates are taken between two turns of the worker's loop.
Other == step = "input" /\ Outside /\ UNCHANGED <<courier, herdr>>

\* The review pane of another tab posts; a round conversation it reopens comes
\* to that tab's agent whole.
OtherPosts(id, t, tab) ==
    /\ ~Known(store, id)
    /\ store' = Post(store, [id |-> id, thread |-> t, from |-> tab, in_reply_to |-> NoMessage])
    /\ elsewhere' = IF t \in Rounds THEN [elsewhere EXCEPT ![t] = Len(store'.log)] ELSE elsewhere
    /\ Other

OtherReplies(id, t, to) ==
    LET m == [id |-> id, thread |-> t, from |-> "agent", in_reply_to |-> to] IN
    /\ ~Known(store, id) /\ CanAnswer(store, m)
    /\ store' = Answer(store, m)
    /\ Other /\ UNCHANGED elsewhere

OtherResolves(t) ==
    /\ store.open[t] = "open"
    /\ store' = SetResolution(store, t, "resolved")
    /\ Other /\ UNCHANGED elsewhere

OtherReopens(t) ==
    /\ store.open[t] = "resolved"
    /\ store' = SetResolution(store, t, "open")
    /\ elsewhere' = [elsewhere EXCEPT ![t] = LastComment(store, t)]
    /\ Other

\* The pane's process ends and another starts in its tab.  Ending in the middle
\* of a turn loses the same: what poll writes is not on disk.
Restart ==
    /\ MayRestart /\ step = "input"
    /\ book' = <<>> /\ retried' = NoThreads /\ access' = NoAgent /\ token' = 0
    /\ pending' = "none" /\ wakeup' = <<>> /\ mail' = <<>> /\ answers' = <<>>
    /\ report' = 0 /\ told' = 0 /\ events' = <<>> /\ available' \in BOOLEAN
    /\ UNCHANGED <<store, agents, started, focused, elsewhere, step>>

-----------------------------------------------------------------------------
Reviewer ==
    \/ Load \/ MarkRead
    \/ \E t \in Threads : Retry(t) \/ Reopen(t) \/ ResolveThread(t)
    \/ \E id \in MessageIds, t \in Threads : PostComment(id, t)
Agent ==
    \/ Fetch
    \/ \E id, to \in MessageIds, t \in Threads : Reply(id, t, to)
Inputs == ObserveReleased \/ ObserveDetected \/ ActiveAgentChanged \/ Notified \/ Recheck
Herdr == \E p \in Panes : AgentStarts(p) \/ AgentExits(p) \/ Focus(p)
OtherTabs ==
    \/ \E id \in MessageIds, t \in Threads, tab \in Tabs \ {Tab} : OtherPosts(id, t, tab)
    \/ /\ Tabs # {Tab}
       /\ \/ \E id, to \in MessageIds, t \in Threads : OtherReplies(id, t, to)
          \/ \E t \in Threads : OtherResolves(t) \/ OtherReopens(t)

Prepare == PrepareNothing \/ PrepareCancel \/ PrepareFails \/ PrepareGrant
Notify == NotifyNothing \/ NotifyFails \/ NotifyAnother \/ NotifySend

Next == \/ Reviewer \/ Agent \/ Inputs \/ Prepare \/ Notify
        \/ CourierReports \/ Herdr \/ OtherTabs \/ Restart

Spec == Init /\ [][Next]_vars

-----------------------------------------------------------------------------
(* Properties. *)

\* The types of the service's state.
TypeOK ==
    /\ store \in Book
    /\ book = <<>> \/ (Len(book) = 1 /\ book[1] \in Book)
    /\ retried \in [Threads -> Nat] /\ elsewhere \in [Threads -> Nat]
    /\ access = NoAgent \/ access \in Panes \X (1 .. MaxAgents)
    /\ token \in Nat
    /\ pending \in {"none", "new", "retry"}
    /\ wakeup = <<>> \/ (/\ Len(wakeup) = 1
                         /\ wakeup[1] \in [requested : Nat, notified : Nat])
    /\ mail \in Seq([token : Nat, through : Nat])
    /\ answers \in Seq([token : Nat, through : Nat, ok : BOOLEAN])
    /\ report \in Nat /\ told \in Nat
    /\ agents \in [Panes -> 0 .. MaxAgents] /\ started \in 0 .. MaxAgents
    /\ focused \in Seq(Panes)
    /\ events \in Seq({"released", "detected", "focus"} \X Panes)
    /\ step \in {"input", "prepare", "notify"}
    /\ available \in BOOLEAN

\* A wakeup belongs to an access value, and asks for comments that exist.
WakeupHasAccess ==
    wakeup # <<>> => /\ access # NoAgent
                     /\ wakeup[1].requested <= Len(book[1].log)

\* Between two inputs, no comment that waits for this tab's agent is forgotten:
\* its notification is pending, or a wakeup was requested for it, or the
\* reviewer was told that its own failed, or another tab took the thread on.
NotForgotten ==
    step = "input" /\ Waits /\ available =>
        \A t \in Threads : PendingFor(book[1], t, Tab, retried) =>
            \A c \in PendingComments(book[1], t, Tab, retried) :
                \/ pending # "none"
                \/ wakeup # <<>> /\ wakeup[1].requested >= c
                \/ told >= c
                \/ elsewhere[t] >= c

\* A comment in an open thread is pending exactly until a reply names it or a
\* later comment of its thread: no reply takes up what it had not read.
PendingUntilTakenUp ==
    \A t \in Threads : store.open[t] = "open" =>
        (Pending(store, t) <=>
            \E c \in Comments(store, t) :
                ~ \E r \in InThread(store, t) :
                    /\ store.log[r].from = "agent"
                    /\ \E k \in Comments(store, t) :
                         k >= c /\ store.log[k].id = store.log[r].in_reply_to)

\* Posts and replies repeated by their sender, or raced by other tabs, are
\* stored once each.
StoredOnce ==
    \A i, j \in DOMAIN store.log : store.log[i].id = store.log[j].id => i = j

\* Messages are never taken out or renumbered, by whichever pane.
LogOnlyGrows == [][IsPrefix(store.log, store'.log)]_vars
=============================================================================
