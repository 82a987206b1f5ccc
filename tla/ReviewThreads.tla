---------------------------- MODULE ReviewThreads ----------------------------
(***************************************************************************)
(* The document of one review's threads, as crates/review-threads keeps    *)
(* it: who posted what in which thread, what the agents' replies took up,  *)
(* and which threads are resolved.                                         *)
(*                                                                         *)
(* A book is [log, open, answered].  A message's sequence number is its    *)
(* position in the log: append gives each message the next number, and     *)
(* nothing is ever taken out.  Text, quotes and times are left out.        *)
(***************************************************************************)
EXTENDS Naturals, Sequences, FiniteSets, FiniteSetsExt

CONSTANTS
    Threads,     \* thread identities
    Rounds,      \* those that are the conversation of an Explore round
    MessageIds,  \* message identities
    Tabs,        \* the Herdr tabs whose review panes post comments
    NoMessage    \* the in_reply_to of a message that answers none

ASSUME ThreadsAssumption ==
    /\ Rounds \subseteq Threads
    /\ NoMessage \notin MessageIds
    /\ "agent" \notin Tabs

\* A reviewer's comment is from the tab it was posted in, a reply from "agent".
Authors == Tabs \cup {"agent"}

Message == [id : MessageIds, thread : Threads, from : Authors,
            in_reply_to : MessageIds \cup {NoMessage}]

Resolution == {"absent", "open", "resolved"}

Book == [log : Seq(Message), open : [Threads -> Resolution],
         answered : [Threads -> Nat]]

EmptyBook == [log |-> <<>>, open |-> [t \in Threads |-> "absent"],
              answered |-> [t \in Threads |-> 0]]

-----------------------------------------------------------------------------
(* What the book says. *)

\* The positions of the messages of a thread, and of its reviewers' comments.
InThread(b, t) == {i \in DOMAIN b.log : b.log[i].thread = t}
Comments(b, t) == {i \in InThread(b, t) : b.log[i].from # "agent"}

Known(b, id) == \E i \in DOMAIN b.log : b.log[i].id = id

\* The largest of a set of positions, which start at 1; 0 for none.
Latest(S) == Max(S \cup {0})

\* ReviewThread::last_comment.
LastComment(b, t) == Latest(Comments(b, t))

\* ReviewThread::is_answered: a reply acknowledges comment i or a later one; a
\* reply of an earlier build, which acknowledges none, came after it.
IsAnswered(b, t, i) ==
    \E j \in InThread(b, t) :
        /\ b.log[j].from = "agent"
        /\ IF b.log[j].in_reply_to = NoMessage
           THEN j > i
           ELSE \E k \in InThread(b, t) : b.log[k].id = b.log[j].in_reply_to /\ k >= i

\* ReviewThread::is_waiting.
IsWaiting(b, t) ==
    LastComment(b, t) # 0 /\ ~IsAnswered(b, t, LastComment(b, t))

\* ReviewThreads::pending.
Pending(b, t) ==
    /\ b.open[t] = "open"
    /\ IsWaiting(b, t)
    /\ \E i \in Comments(b, t) : i > b.answered[t]

\* The comments pending_for looks for: unanswered, and posted in the tab or
\* covered by a Retry there.
PendingComments(b, t, tab, retried) ==
    {i \in Comments(b, t) :
        /\ i > b.answered[t]
        /\ ~IsAnswered(b, t, i)
        /\ i <= retried[t] \/ b.log[i].from = tab}

\* ReviewThreads::pending_for.
PendingFor(b, t, tab, retried) ==
    Pending(b, t) /\ PendingComments(b, t, tab, retried) # {}

\* ReviewThreads::has_new_messages_for.
HasNewMessagesFor(b, tab, retried) ==
    \E t \in Threads : PendingFor(b, t, tab, retried)

\* ReviewThreads::pending_comment_sequence_for; 0 for none.
PendingSequenceFor(b, tab, retried) ==
    Latest({LastComment(b, t) : t \in {u \in Threads : PendingFor(b, u, tab, retried)}})

-----------------------------------------------------------------------------
(* What changes it. *)

\* ReviewThread::receive: a reviewer's message reopens a round conversation.
Receive(b, m) ==
    IF m.from # "agent" /\ m.thread \in Rounds THEN "open" ELSE b.open[m.thread]

\* ReviewThreads::append: the first message of a thread opens it.
AppendMessage(b, m) ==
    [b EXCEPT !.log = Append(@, m),
              !.open[m.thread] = IF @ = "absent" THEN "open" ELSE Receive(b, m)]

\* Mutant of Post: a repeated post is stored again.
PostAgain(b, m) == AppendMessage(b, m)

\* ReviewThreads::post: repeating a post changes nothing.  An identity used by
\* another post is refused, which changes nothing either.
Post(b, m) == IF Known(b, m.id) THEN b ELSE AppendMessage(b, m)

\* Mutant of Answer: the reply acknowledges all that was posted by now.
AnswerAll(b, m) ==
    [Post(b, m) EXCEPT !.answered[m.thread] = Len(b.log)]

\* ReviewThreads::answer: the reply and what it acknowledges, in one update.
\* Only a reviewer's comment of the same thread can be acknowledged.
Answer(b, m) ==
    LET through == CHOOSE i \in Comments(b, m.thread) : b.log[i].id = m.in_reply_to
    IN  [Post(b, m) EXCEPT !.answered[m.thread] = IF @ < through THEN through ELSE @]

CanAnswer(b, m) ==
    \E i \in Comments(b, m.thread) : b.log[i].id = m.in_reply_to

\* ReviewThreads::set_resolution.
SetResolution(b, t, resolution) == [b EXCEPT !.open[t] = resolution]
=============================================================================
