# A verification of Herdr Progressive Reviewer

Herdr Progressive Reviewer is a review pane for the work of coding agents. A
reviewer reads the agent's changes next to the agent, in a terminal
multiplexer (Herdr), posts comments, and may let the agent lead an interview
about the change (Explore), which ends with a conclusion and, if the reviewer
asks for it, with an implementation. Several reviewer processes share one
review's state on disk, and every word to the agent is typed into its pane.

This directory holds TLA+ models of the parts of the system where those
processes, threads, agents and restarts meet, the configurations TLC checks
them with, and proofs that TLAPS checks.

## Inventory

All paths are under `src/crates/`. "Hard" names what a test hardly reaches.

| Component | State | Operations | Hard |
|---|---|---|---|
| Prompt delivery (`review-thread-service/src/delivery.rs`) | input channel, `PromptQueue`, the courier's channel, `GateState` | send, withdraw, poll, begin, hand over, submit, report, hold, drain | four kinds of threads; withdrawal racing the send; panic; stop |
| Review threads (`review-threads`) | messages, resolutions, acknowledgements, read marks | post, reply, resolve, reopen, mark read, merge | repeated posts; replies that race comments; diverged copies |
| Thread service (`review-thread-service/src/state.rs`) | loaded books, access values, notifications, wakeups | load, post, retry, reopen, resolve, MCP calls, Herdr events, outcomes, poll | agents replaced at any time; outcomes that come late; other tabs; restarts |
| Explore round (`review-explore`) | conversation, answers, outstanding request, deliveries, implementation requests, marks | post, retry, cancel, submit, revise, authorize, begin and finish a dispatch, restore | long legal sequences; records read back after a crash |
| Explore session (`review-explore-session`) | the shown round, the pending turn, the access value, the prompt guards | start, answer, retry, stop, cancel, implement, reset, restore | two processes; check and update apart; late outcomes |
| Explore marks (`review-explore-session/src/marks.rs`, `unmark.rs`) | the marks recorded with each answer | apply, record, give back for Cancel, reopen at the drawing board | a crash between tracker and round; other reviewers between two calls |
| Marks and hunks (`review-state`, `review-hunks`) | reviewed hunks, by author | mark, unmark, carry over an edit | marks of several authors |
| Run-ahead (`review-run-ahead`, `review-explore-session/src/run_ahead*`, the `*-fork` crates) | a fork of the agent's session per choice, the switch under way, what is held back | fork, take, discard, switch, settle, clean | a switch that races a prompt; a session resumed late; restarts |
| State migration (`review-state-migration`, `review-threads/src/merge.rs`) | states by workspace, the shared state, backups | list, back up, merge, move | a crash at any step; an earlier build that writes meanwhile |
| Review store (`review-store`) | the files of one review, with a lock for each | locked updates, loads | the granularity of the locks |
| Drafts (`review-drafts`) | drafts by process | edit, reconcile, save | two processes with one draft |
| Agent hooks (`agent-hooks`, `claude-hooks`, `codex-hooks`, `codex-daemon`) | expected prompts | expect, hear, time out | a hook that races the time limit |
| Herdr client (`herdr-client`) | the panes by focus | resolve the tab's agent | events that arrive late |
| Runtime (`reviewer`) | watcher, effects, automatic reviews | refresh, run effects | changes during a refresh |
| Explore page (`review-explore-page*`, `quick-tunnel`) | page sessions, tunnel, start identities | open, act, reconnect | a page that shows an older round |
| Language servers (`review-lsp`) | server sessions, requests | start, request, restart | answers out of order |
| Pane components (`component-core`, `components/*`, `review-ui`, `ui-*`) | focus, cursors, modals | events, keys, rendering | little: one thread |

What interacts: the thread service and the Explore session both send prompts
through prompt delivery; run-ahead holds its gate while it switches the agent's
session, and tells the Explore session which turns of a fork the round may
take; the Explore session marks lines as reviewed through the tracker of the
marks; the agent answers through MCP calls that carry the access value of the
prompt it received; reviewer processes meet only in the store, under its locks,
and a migration moves what earlier builds stored into that store.

What makes each part correct:

- prompt delivery: nothing reaches the pane during a drained hold; a withdrawn
  prompt that was reported as cancelled was not sent; an attempt is on record
  before the text can arrive; every request completes, once, and is typed at
  most once;
- threads and thread service: messages are kept, once each; a comment is pending
  until a reply takes up it or a later one; a pending comment of this tab is
  never forgotten: it is on its way, or its failure was shown;
- Explore: no record denies a delivery that happened; the agent learns of every
  cancelled answer it saw; one implementation request starts one implementation;
  a saved round can always be read again; a round that is history stays as it is;
- Explore marks: the lines a cancelled answer marked are given back, and what a
  reviewer marked by hand is not;
- run-ahead: the agent reads a prompt on a session that holds the round's turns
  and no other; its session is never deleted; what is held back goes on; what is
  discarded is deleted;
- migration: no message is lost, what waited for an answer still does, and the
  backups bring back what was there.

## Modules

| Module | Models | Uses |
|---|---|---|
| `PromptLife` | what prompt delivery promises its owners: a specification of one prompt's life, told apart from how the threads do it | |
| `PromptDelivery` | `delivery.rs`, and the worker's loop around it; implements `PromptLife` | `PromptLife` (`Life`) |
| `Positions` | the elements of a sequence at some of its positions, in order, without recursion | |
| `ReviewThreads` | the document of one review's threads (`review-threads`) | |
| `ThreadService` | `state.rs`, `wakeup.rs`, `notification.rs`, `access.rs`, and `AgentTarget` of `herdr-client` | `ReviewThreads` |
| `ThreadServiceHistory` | `ThreadService` with history variables, and its fairness | `ThreadService` |
| `ExploreRound` | the saved record of a round (`review-explore`) | `Positions` |
| `DispatchLife` | what the saved round promises of the delivery of its requests: a specification of their attempts, told apart from the processes that bring them about | |
| `ExploreSession` | the processes around it (`review-explore-session`); implements `DispatchLife` | `ExploreRound`, `DispatchLife` (`Life`) |
| `ExploreMarks` | the marks of a round's answers, with the tracker they go to | `ExploreRound` |
| `RunAhead` | the forks of a round's choices, and the switches between their sessions | |
| `StateMigration` | the migration of states by workspace, with the merge of two documents | `ReviewThreads`, `Positions` |
| `MC*` | the instances TLC checks, with their symmetries | |
| `ReviewThreadsProofs`, `ExploreRoundProofs` | lemmas: ranks, picked positions and the operations on a book of threads; the operations on a round's record | `ReviewThreads`, `Positions`; `ExploreRound` |
| `PromptDeliveryProofs`, `ThreadServiceProofs`, `ExploreSessionProofs`, `ExploreMarksProofs`, `RunAheadProofs`, `StateMigrationProofs` | the theorems (see Proofs) | their module and the lemmas, `TLAPS` |

Definitions named "Mutant of X" are wrong versions of X, at least one for each property;
`PROJECT.json` pairs them. No specification uses them.

### PromptDelivery and PromptLife

An owner sends a request (`SendObserved`) and keeps a guard whose drop withdraws
it (`Withdraw`). The worker receives it, polls its queue (`Receive`, `Recheck`),
looks whether it was withdrawn and whether the pinned agent can be prompted
(`Begin`), lets the observer commit the durable marker (`Attempt`), counts it
(`Queue`) and hands it to the courier (`Hand`). The courier takes it (`Take`),
waits at the gate (`PassGate`), looks again whether it was withdrawn
(`CheckWithdrawn`), writes it to the pane (`Submit`), waits for what the hooks or
Herdr say (`Await`), reports (`Report`) and leaves the gate (`SentDrop`). A hold
is counted at once (`NewHold`), drains when nothing is sent (`DrainedWait`) and
ends (`DropHold`). `Panic` is a panic while a prompt is sent, `Stop` and
`CourierEnds` are the end of the threads.

Each section under the gate's mutex is one step; the worker's place and the
courier's place are `worker.pc` and `courier.pc`. Herdr and the hooks are
external: they answer anything `prompt_agent` distinguishes.

`PromptLife` says the same without threads, queues or gates: a prompt is asked
for, may be withdrawn, may be marked as attempted, may be typed, and gets one
outcome; nothing follows the outcome. The refinement reads a prompt's life off
the place where some thread handles it.

### ReviewThreads and ThreadService

A message's sequence number is its position in the log. `ReviewThreads` holds the
functions of the document; `ThreadService` one pane's service for one review: the
book it last read, the access value in force, the pending notification, the
wakeup, the prompts with the courier and the outcomes on their way back. Each
handler is one action, since the worker handles one input at a time and takes the
store's lock for an update; `State::poll` follows each input as two steps,
`Prepare...` and `Notify...`, so that Herdr may change between them. The courier
is `PromptDelivery` seen from here: a prompt is delivered in order, and its
outcome is an input. Other tabs' panes and agents work on the same store through
the same functions. `available` is whether the MCP server runs.

A new access value is a number that nothing on its way names, which stands for a
fresh UUID. Loading, saving and reading files do not fail in this model.

### ExploreRound and ExploreSession

`ExploreRound` is the record with its guards (`May...`) and updates. Requests are
numbered in the order they are made; the number of an answer is that of the request
that carries it. `ExploreSession` has the processes: what each shows, its
pending turn, the access value its last prompt granted (named by the prompt), the
implementation it sends, and the cancellation between its check and its update
(`CancelCheck`, `CancelCommit`). A prompt is `queued`, `attempting` or `done`, as
`DurableDispatch` sees it; `received` remembers what arrived, and its recipient
may call at any later time.

`DispatchLife` says what that comes to for one request, without processes, prompts
or access values: an attempt is asked for (`Ask`), begins once and is on record
first (`Begin`), ends with or without having arrived (`End`), and is recorded as what
the agent's side shows (`Record`); a process may end with what it sends (`Lose`), and
requests go with the answers they carried (`TakeBack`). An implementation is asked
for again only where the agent is known not to have started on it. The refinement
reads attempts and states off `saved`, what is under way off the prompts that are
`attempting`, what arrived off `received`; a number is gone when its request was
taken back or a revised question took it.

Run-ahead and review marks have modules of their own. Editor views, the answer's
kinds (choice, text, drawing board) and storage failures are left out. Two handlers
take the round's lock twice and are one action here: `Reset` stops the turn and then
closes the round, and a turn whose prompt cannot be prepared is posted and then recorded
as failed (`DeliverTurn`). What another process may do in between, it may also do before
or after, or next to a `StopWaiting`, but for one case: a turn posted between the two
halves of a `Reset` is stopped here and stays outstanding there, in a round that is then
history and takes nothing more.

### ExploreMarks

One line of a file is a hunk of its own, with the author of its mark: nobody, a
reviewer, or an answer. A turn's handler goes through its files one call of the
tracker at a time (`apply_marks`), and records in the round what changed; between
any two calls a reviewer of another workspace may mark or reopen lines by hand.
Cancel gives the marks back record by record before it updates the round, and may
stop half way; Implement from the drawing board reopens all. What is left of that
is a set of records with ranks, of which one of the highest comes next: the latest
answer's, and of one answer's the conclusion that followed it before the question
that it answered. The process may end between the calls named by
`Crashes`; failing storage leaves the same state.

Which files' diffs changed meanwhile, and so what may be marked (`markable`,
`unchanged`), is chosen freely. So are the files of the snapshot that a record of a
cancelled answer still finds (`UnmarkPoll`), and whether the tracker edits at all: when
the reviewer moved to another change, it returns `ChangeChanged` and neither marking nor
giving back looks at that (`Picks`). A job remembers in `missed` the files where it left
lines of the author whose marks it gives back, and what of that outlives a cancellation
is in `left`; `CancelGivesBack` and `BoardReopensRound` except those files, by author,
and no others (finding 10).

Jev's marks are any other reviewer's. The module keeps a history of its own of who
marked which line (`own`); races within one job, hunks that an edit widened and files
that an edit or a cancellation passed over are left out of it.

### RunAhead

A fork goes from the taking of a choice through `forking`, `ready`, the switch of
the agent to its session, settling and the record of how it ended, to its
deletion. The agent is told to resume a session and does so at any later time, or
never, and may be started anew once. Answers, their Retry, Stop, Cancel and the
reviewer's end and reopening run against it. A prompt stays "sending" until the
agent takes it, on whichever session it then is. A prompt that starts is first
checked against the round (`AwaitedTurn`): a Retry that was held back while the
switch it raced delivered the turn after all is refused, since the round waits for
nothing.

The thread that moves the agent waits for a resume of its session and takes the
first it hears of, as `Expectations::resumed` does, though it be that of an earlier
command that names the same session. Where other commands were then still typed
behind it, `early` says so from there on: what finding 9 is about.

Abstractions: the record of an untyped failure counts as no record; stopping,
deleting and recording a discarded fork are one step (`Clean`); a fork whose turn
the round took while its agent restarted without hooks is discarded as restarted.
`KnownAgain` says whether a reopened reviewer recognizes the agent's hooks, which
it does for Claude (see Findings).

### StateMigration

Folders of workspaces and the shared state hold a book of `ReviewThreads` each.
Reviewers of this build migrate at their start: lock, list, back up, then for each
folder merge and move it. The first backup copies every folder; a later one copies
what changed since. A migration may end at any step, and another begins. Reviewers
of an earlier build take no lock and write their folder whenever they like, except
between the merge and the move of that folder (see Findings); reviewers of this
build write the shared state. `Restored` is what RESTORE.md tells the user to do.

`Nth`, `Lacking` and `Arriving` are the merge's order: the messages a document
lacks arrive after its own, in the order the other gives them. Marks, drafts,
Explore records, thread contexts, unreadable records and other repositories'
states are left out.

## Runs

| Run | Instance | Shows |
|---|---|---|
| `prompt_delivery` | 2 requests (one observed), 1 wakeup, 1 hold, fair | `QuietWhileDrained`, `WithdrawnUnderHoldNeverSent`, `CancelledNeverReached`, `MarkedBeforeSubmitted`, `QueuedCountsParcels`, `CompletesOnce`, `ImplementsLife`, `HandedCompletes`, `HoldDrains` |
| `thread_service_shared` | 2 tabs, 3 messages in a round conversation, restarts | `PendingUntilTakenUp`, `StoredOnce`, `LogOnlyGrows` |
| `thread_service_handover` | 2 panes, 2 agents, 2 messages, 1 event and 1 prompt on their way, restarts | `WakeupHasAccess`, `NotForgotten` |
| `thread_service_live` | 1 pane, 2 agents, 1 message, 2 events and 2 prompts on their way, restarts, fair | `NotifiedWasPrompted`, `EveryCommentSettles` |
| `explore_recovery` | 1 process, 2 requests, 2 attempts, restarts, every outcome | `UndeliveredIsTrue`, `WaitingIsJustified`, `LatestAttemptAnswered`, `ImplementsDispatchLife` |
| `explore_cancel` | 1 process, 4 requests | `SavedRoundLoads`, `CancelledIsTold` |
| `explore_processes` | 2 processes, 2 requests, 1 implementation with 2 attempts, restarts | `ImplementedOnce`, `HistoryIsKept`, `ImplementsDispatchLife` |
| `implement_twice` | 1 process, 3 implementation requests | violated: a second implementation is authorized |
| `marks_round` | 3 requests, 1 line, crashes while marks are given back, files passed over and edits dropped | `TypeOK`, `CancelGivesBack`, `OwnMarksReturn`, `BoardReopensRound` |
| `marks_crash` | 2 requests, 1 line, crashes while marks are set, too | violated: a cancelled answer keeps a line |
| `run_ahead` | 2 forks, 2 answers, 2 attempts, 1 end of the reviewer, 1 restart of the agent, fair | `TypeOK`, `PromptMeetsRound`, `AgentSessionStays`, `FollowsTaken`, `RunAheadLetsGo`, `DiscardedGoes` |
| `state_migration` | 2 workspaces, 2 round conversations, 4 messages, of which 2 when both conversations have some, 2 migrations | `NothingLost`, `MergeKeepsAnswers`, `MergedAgain`, `BackedUp`, `RestoreBringsBack` |

Why the bounds are enough for what they ask:

- Two requests let one wait at the gate behind the other, an observed and an
  unobserved one, with a wakeup between them. That several holds add up is
  proved: the gate's theorems are about any number of prompts and holds.
- Two messages are what an acknowledgement needs to be right or wrong about the
  later one; a third lets another tab post between. `MaxMail` 2 lets an outcome of
  an older prompt meet a newer one. `MaxAgents` 2 is one handover, and `MaxEvents` 2
  lets the agent change before the service has seen that the old one left. The
  live run has one pane: with two, the focus may flip between every preparation
  and its notification for ever, which no fairness of the code excludes and no
  reviewer does.
- Four requests are a kickoff and three answers: a cancellation of two answers and
  a cancellation before the agent heard of the first. Two attempts are one Retry
  that races the outcome of the first. Three implementation requests are needed
  for the sequence `implement_twice` finds.
- `ImplementsDispatchLife` is checked where a turn's outcome may come back after the
  Retry that superseded its attempt (`explore_recovery`), and where two processes
  attempt an implementation again and take requests back while their prompts are on
  their way (`explore_processes`). Both at once are covered by the proof.
- Three requests are a kickoff and two answers whose turns touch the same line,
  where the order in which marks are given back matters. Files are independent but
  for the order of the calls. Two lines with two requests pass, too.
- Two forks are an answer's and the next one's that grew from it; two attempts are
  one Retry, or a switch and a prompt to the agent itself. Instances with three
  answers or four attempts and one fork pass, too, and so does one with three
  attempts that takes some four minutes.
- Two migrations are one that ends half way, or leaves a folder to an earlier
  build that creates it again, and the one after it. Four messages are a comment and
  its reply on either side. A workspace keeps its threads to itself, so that two folders
  at once, one moved and one that still waits, take two conversations; these have a
  message each (`MaxAcross`), which already tells the orders of their merges apart.
  Conversations are interchangeable, as are workspaces and messages. Three migrations
  of a smaller instance pass, too.

Deadlock is checked for the thread service, which is never done. Prompt delivery
may stop with its worker, a round that is history goes no further, and the bounds
of the others are reached, so those configurations switch it off.

### Findings

Two runs end in a violation of what the code's comments say:

1. `implement_twice`: an implementation request is held back by the one
   authorized last only; an earlier one that arrived late does not count.
2. `marks_crash`: a process that ends, or storage that fails, between an answer's
   marks in the tracker and their record in the round leaves lines reviewed in the
   name of the answer; cancelling it does not give them back, and applying the
   marks again finds nothing to change.

Others were met while modelling; each can be reproduced by a small change of an
instance or of a property, but has no run of its own:

3. `Event::Wakeup` is documented as what became of the latest wakeup. A failure of
   an older prompt that comes back after the newer prompt was sent is published,
   and the newer one's success publishes nothing.
4. Cancelling "the latest answer only" is checked before the lock is taken
   (`review-explore-session/src/cancel.rs`): an answer of another process that was
   recorded meanwhile goes with it.
5. Cancelling in a round that another process just reset is reported as failing
   storage and blocks the session.
6. Run-ahead, with `KnownAgain` FALSE: a reviewer that is reopened while a Codex
   agent was switching does not know that the agent runs its hooks
   (`agent-hooks/src/listener.rs:197`, `codex-fork/src/host.rs:309`). A retried
   prompt is then not held back, and the next settling follows the fork although
   the agent took the answer itself: `round_took` (`settle.rs:122`) only looks
   whether the request is in the conversation. `FollowsTaken` fails in ten steps.
7. Migration: what a reviewer of an earlier build writes into its folder between
   that folder's merge and its move ends in `merged-workspaces/` and is merged by
   no later migration, although ADR 0013 says the next open merges it again. The
   properties except it by name (`late`).
8. Migration: the first backup copies the folders of the workspaces only, while
   `backup.rs:1` says "a copy of the folders a merge reads or changes", and
   RESTORE.md removes the shared folder: what this build stored there before the
   first backup is lost with a restore. `RestoreBringsBack` speaks of the folders
   only for the first backup.

9. Run-ahead: `Resume::run` says that "once the command is typed, the agent ends on
   this session even after an earlier `/resume`" (`claude-fork/src/switch.rs:139`).
   But the thread is told by the first resume of that session it hears of, which
   `Expectations::resumed` (`agent-hooks/src/listener.rs:348`) matches by the
   session alone. When two commands to go back to one session timed out with one
   for a fork between them, the earlier one counts for the later: the fork is
   settled as undone and deleted while its own command waits in the pane. Without
   `~early`, `AgentSessionStays` fails in the run's instance in 24 steps, and
   `PromptMeetsRound` with a third answer. With it, both hold.

10. Marks: `ExploreSession::unmark` says that it gives marks back "file by file, failing
   when any file failed so the cancel can be tried again"
   (`review-explore-session/src/unmark.rs:154`). But it visits only the files of the
   present snapshot that a record names (`unmark.rs:26`), and takes an edit that the
   tracker refuses as `ChangeChanged` (`review-state/src/review.rs:452`) for done
   (`unmark.rs:67`). A file that was renamed or reverted out of the diff, or a reviewer
   who moved to another change, leaves the cancelled answer's lines reviewed although
   Cancel, or Implement from the drawing board, succeeds, and no record names them any
   more; they show when the file is back. Without `left`, `CancelGivesBack` fails in
   the run's instance in 13 states. With it, both properties hold.

Two comments say more than the code does, without harm that a run shows. The one
on `PromptGate::send` says that no hold begins while a prompt is sent:
`PromptHold::new` does not wait, `Drained::wait` does, and the holders in
run-ahead wait, so that `QuietWhileDrained` is what they rely on. The one on
`State::notified` says that a failed notification is not sent again until the
reviewer acts: a focus change or an agent detected schedules it again.

`NotForgotten` counts a failure that was published for a comment as long as no
prompt was sent for that comment. It does not say that the failure stays on the
screen: if Herdr fails while a comment's notification is prepared, and a late
"released" event arms the previous wakeup, the prompt for the earlier comments
clears what is shown. That prompt makes the agent read the later comment too.

`MergeKeepsAnswers` speaks of the comments that a folder brings. In a thread that
was continued apart, the other side's later answer also takes up this side's
earlier comments, as the merge documents. That the merge translates the position
of an acknowledgement shows in no property: each acknowledgement is also named by
a reply.

## Fairness

`PromptDelivery!Fairness`: weak fairness of the worker's steps once it has begun
a poll, of receiving, of the courier's thread, of a holder's wait and of the end
of a hold that drained. The threads run on; the hooks have a limit of five
seconds and Herdr a time limit of its own; holders wait for the drain and then
switch the session, which is bounded. Nobody has to send, withdraw or stop, and
the worker may stop at any time.

`ThreadServiceHistory!Fairness`: weak fairness of the worker's polls, of the
recheck (a timeout), of the courier's outcomes and of the first load; strong
fairness of handling an outcome and of handling an event. Inputs are one channel,
first in first out, so that the worker, which comes back to it again and again,
gets to each; the model keeps the reviewer's commands out of that queue and so
needs strong fairness to say it. Nobody has to post, reply, focus, retry or
restart.

`RunAhead!FairSpec`: weak fairness of recording an answer, of the thread that
moves the agent (whose waits have time limits), of a prompt's outcome (which
prompt delivery is shown to give), of each fork's process, which ends by itself or
at its time limit, and of each deletion. The agent need not take a turn, resume
or go idle, and the reviewer need not do anything.

## Proofs

TLAPS proves, for every value of the constants that satisfies the modules'
assumptions:

- `PromptDeliveryProofs`: `GateInv` is inductive (`GateIsInvariant`).
  `QuietWhileDrained` alone is not: that a drained hold excludes sending depends
  on `holds` counting the living holds (else the gate opens too early), on
  `sending` being exactly the courier's time past the gate (else a hold drains too
  early), and on `queued` being exact, which keeps the types; and a thread has a
  prompt exactly at the places where it handles one. One lemma per kind of thread
  shows that its steps keep `GateInv`, with lemmas on what one hold more or less
  does to the number of living ones. `DeliveryTypes`, `HoldExcludesSending` and
  `QueuedIsExact` follow. `LifeInv` adds that a prompt is in one place at a time (a
  queue, the worker's hand, the courier's), that it was typed only past the gate,
  and that what its owner was told is true. Each step of a thread is then one step
  of a prompt's life, or of the quiet, or none: `PromptDelivery` implements
  `PromptLife` (`DeliveryImplementsLife`), and with it every safety property of
  `prompt_delivery` is proved.
- `ReviewThreadsProofs`: of a finite set of positions, the k-th exists by counting
  (`Nth`), and what is picked at some positions keeps its order. These lemmas say of
  logs, conversations and queues of any length what an induction would. Then what the
  operations on a book preserve: it stays a book and a prefix of what follows
  (`Follows`), a thread with messages is there, every reply names a comment. `Latest`
  is the greatest of a finite set (by a rank argument), and what waits in a later book
  waited in an earlier one that has it (`OwedWasOwed`).
- `ThreadServiceProofs`: every step leaves the stored book or applies one operation
  to it as it is now, never to a pane's copy (`StoreStep`). `MessagesStoredOnce`,
  `MessagesAreKept` and `PendingIsUntaken` follow from the invariant `BookInv`.
  `NotForgotten` is not inductive, since Load and Post schedule
  what waits but the other inputs that read the book again schedule nothing. They
  are safe because what changed meanwhile is not this tab's: other tabs store none
  of its comments, and a thread they reopen they take on (`Others` in `InTouch`).
  `CatchesUp` concludes that whatever waits in the new copy was promised for the
  old one, and `Kept` states the promise at every step of the worker, not only
  between inputs. `NothingIsForgotten`, `WakeupsAreGranted` and the types
  (`ServiceTypesHold`) follow. The history variables restrict no step: the service
  with them implements the one without (`HistoryImplementsService`), and what counts
  as notified was prompted for under its own access value (`NotifiedWasAsked`).
- `ExploreRoundProofs`: every operation on a record keeps it `WellFormed`: answers and
  turns are numbered in the order they were given, a turn of the conversation is of
  one request, and its answer is one of the round's. Both `ExploreSessionProofs` and
  `ExploreMarksProofs` rest on it.
- `ExploreSessionProofs`: `ExploreInv` holds for any number of processes, requests,
  retries and implementation requests (`ExploreInvariant`). Its core is `WellFormed`.
  `ValidateRestored` is not inductive: that a cancellation
  leaves every other answer's question in the conversation needs the numbering, and
  that a conclusion still ends an implemented round needs that an implementation
  request excludes cancelling. `Dispatched` relates what the record says of a prompt
  to what the agent received: an attempt begins once, and of an attempt that arrived
  the record never says, as long as it is the latest, that it waits, was not sent or
  was cancelled.
  `ToldInv` and `ImplementedOnce` are inductive beside them. `SessionTypesHold`,
  `RoundStaysReadable`, `UndeliveredHolds`, `CancelledAreTold`, `StartedOnce` and the
  action property `HistoryStands` follow.
  Two properties need one process (`Processes = {p}`), as the run that checks them
  has: `LatestIsAnswered` and `NobodyWaitsForNothing`. The access value and the
  pending turn are kept by a process, and a second one that retries a request leaves
  the first with both. `OneProcess` says what the process knows is so: its access
  value is of the latest attempt, and what it waits for is under way.
  `LifeInv` adds that what an ended attempt is going to report is so (`Honest`): the
  outcome of a prompt that is done denies nothing that arrived, and stays so, since
  each attempt arrives once. Each step of a process is then an `Ask`, `Begin`, `End`,
  `Record`, `Lose` or `TakeBack`, or none of them: `ExploreSession` implements
  `DispatchLife` (`DeliveryIsImplemented`).
- `ExploreMarksProofs`: none of the three properties of `marks_round` is inductive,
  since they speak of the time when no job runs, and a job takes many calls, between
  any two of which others mark and reopen. `MarksInv` follows it
  (`RoundOwnsItsMarks`). Whoever holds a line for the round is on its record, or is
  the job that marks at this moment (`HeldInv`, with `MarkInv`). What a record gives
  back goes to a reviewer or to the author of a record that gives back later
  (`RecordInv`): the numbering of answers puts the records in an order (`RankOf`). So
  the plan of a cancellation names, in a record still to come, every file where an
  answer that goes holds a line or will be given one (`DueInv`), and nothing is left
  when the plan is empty: `CancelledMarksGoBack`. For an implementation at the
  drawing board the same holds of every author, and `ImplementationReopensRound`
  follows. A line that a reviewer marked is theirs, or some record took it from them
  and all that held or took it since belongs to that record's answer or a later one
  (`OwnInv`); these go with it, before it, so that the line is open when its turn
  comes: `ReviewersMarksReturn`. Each speaks of the files that were not passed
  over: a file joins `missed` when the job leaves a line of the record's author in it,
  and `left` when the answers are gone (`LeftStays`), and no line of such a file is
  followed as a reviewer's own (`FollowedInv`, `FollowedStays`).
  These four have the hypothesis `"mark" \notin Crashes`: the process does not end
  between an answer's marks and their record. Without it they are false
  (`marks_crash`, finding 2). The types (`MarksAreTyped`) hold whatever job a process
  ends in.
- `RunAheadProofs`: `Inv` and `PathKept` are inductive (`RunAheadInvariant`): the
  saved round, the fork records and the paths agree with what the reviewer has in
  hand, with the thread that moves the agent and with the attempts on their way.
  `AgentSessionStays` alone is not, since whether a fork is the agent's is read off
  its record: a discarded fork is never the agent's (`RecordsKept`), what the agent
  runs, was told to resume or is moved to is (`SessionsKept`, as `Resumable`
  says unless a thread moved the agent `early`), and at most one fork may still be
  resumed (`OneLate`), so that a settling knows which. An attempt that
  is typed is later than the one at work (`AttemptsKept`), which keeps a late call
  from being taken for the next turn. `RunAheadTypes` and `AgentSessionNeverGoes`
  follow.
  For `PromptMeetsRound`, `MeetsInv` adds what the sessions hold: an agent that is not
  being moved, while no fork is unsettled, is calm, that is, on a session that agrees
  with the round, and told to resume only such; the session of a switch agrees
  with it once the round takes the switch's turn; and so does the one a settling
  would go to, which the answer's path and the round's turn decide as they did when
  it started. This is inductive where a reopened reviewer recognizes its agent
  (`SessionsMeetRound`, with the hypothesis `KnownAgain`), and `PromptsMeetTheRound`
  and `SettlesOnTakenTurns` follow. Without the hypothesis both are false (finding 6).
- `StateMigrationProofs`: a merge holds what both books hold (`MergeHoldsBoth`) and
  merging again changes nothing (`MergeAgainChangesNothing`): the rank of an
  arriving message exists by counting. No message is lost (`NoMessageIsLost`),
  since what was moved, but for `late`, is in the shared book; what a migration
  found is in a backup before it merges (`FoundIsBackedUp`); and the backups,
  restored in order, bring back what was stored when the latest was taken
  (`BackupsRestore`): each later one holds what changed, and what did not is where
  an earlier one puts it (`RestoreInv`).
  `MergesKeepAnswers` and `MergesComeOut` need more than the merge's own lemmas: a
  merge keeps what waits only of a folder of which the shared book has a start, in
  its order (`Meets`). `ApartInv` says that every folder meets the shared book so, at
  every step of any migration and whatever both builds write, that every book is
  sound (each message once, a reply names what it takes up, a thread with messages is
  there), that two folders share no message and that no two workspaces keep a thread
  (`FoldersStayApart`). The merged log then holds both in their orders (`MergedLog`),
  what waits is what no reply after it takes up (`WaitsUnlessTaken`), and merging
  two folders in either order gives the same threads (`MergedEitherWay`).

All rest on the modules' `ASSUME`s, which say that the constants have their types
and that names do not clash. `DeliveryTypes`, `ServiceTypesHold`, `SessionTypesHold`
and `MigrationTypes` prove the types of those four modules, so their runs check deeper
properties instead.

Only model-checked: everything under fairness, since the prover has no rule for
it (`HandedCompletes`, `HoldDrains`, `EveryCommentSettles`, `RunAheadLetsGo`,
`DiscardedGoes`).

## Not modelled

`PROJECT.json` lists every component and its reason. In short:

- Layout, colours, rendering, HTML and JavaScript, development tools and test
  support are out of scope. They are most of the source: of its 161,880 lines, the
  diff view, the terminal widgets, the page and the tests of each are the largest
  parts, and a definition that stood for them would say nothing. The share of lines
  mapped is small for that reason and stays so.
- The transports (sockets, HTTP, MCP framing, Git and Jujutsu) are input and output;
  what they carry appears as the actions' inputs.
- The agent's hooks and its session files are external to the models: hooks may
  answer anything prompt delivery distinguishes, and a session is the set of turns
  it holds.
- Storage failures are modelled where the code goes on after them (cancellations
  and marks), and as a crash elsewhere.
- In run-ahead: several forks for one question, halting after failures, a second
  reviewer of the round, a new round, cancelling an answer that is already taken, and
  the conversation with the agent between turns.

## What is left

1. `ReviewMarks`: hunks carried over an edit.
2. `AgentHooks`: expectations and time limits; the pinned agent between check and use.
3. `Drafts`: two processes with one draft.
4. `PageSessions`, `Tunnel`: page sessions, start identities, reconnects.
5. `Runtime`, `Watcher`, `AutoReview`, `LspSession`: refreshes and requests that
   overtake each other.
6. The component tree and the diff cursor; pure helpers (search, positions, turn
   paths) as operators checked against a reference.
