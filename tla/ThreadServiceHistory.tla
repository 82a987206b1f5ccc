------------------------ MODULE ThreadServiceHistory ------------------------
(***************************************************************************)
(* ThreadService with what a bystander remembers of its wakeups: which     *)
(* comments its prompts covered.  No history variable restricts a step of  *)
(* the service.                                                            *)
(***************************************************************************)
EXTENDS ThreadService

VARIABLES
    reached, \* the latest comment that a delivered prompt covered
    asked    \* the latest comment prompted for with the present access value

hvars == <<vars, reached, asked>>

HInit == Init /\ reached = 0 /\ asked = 0

Nothing == UNCHANGED <<reached, asked>>

Sends ==
    /\ NotifySend
    /\ asked' = Max({asked, Last(mail').through})
    /\ UNCHANGED reached

\* A new access value has no prompt of its own yet.
Grants ==
    /\ PrepareGrant
    /\ asked' = IF token' = token THEN asked ELSE 0
    /\ UNCHANGED reached

Prepares == ((PrepareFails \/ PrepareNothing \/ PrepareCancel) /\ Nothing) \/ Grants
Notifies == Sends \/ ((NotifyFails \/ NotifyNothing \/ NotifyAnother) /\ Nothing)
Observes == (ObserveReleased \/ ObserveDetected \/ ActiveAgentChanged) /\ Nothing
Rechecks == Recheck /\ Nothing
Learns == Notified /\ Nothing
Loads == Load /\ Nothing

Outcome ==
    /\ CourierReports
    /\ reached' = IF Last(answers').ok THEN Max({reached, Head(mail).through}) ELSE reached
    /\ UNCHANGED asked

Restarts ==
    /\ Restart
    /\ asked' = 0
    /\ UNCHANGED reached

Unremarkable ==
    /\ \/ MarkRead \/ Agent \/ Herdr \/ OtherTabs
       \/ \E t \in Threads : Retry(t) \/ Reopen(t) \/ ResolveThread(t)
       \/ \E id \in MessageIds, t \in Threads : PostComment(id, t)
    /\ Nothing

HNext == \/ Learns \/ Prepares \/ Notifies \/ Observes \/ Rechecks
         \/ Loads \/ Outcome \/ Restarts \/ Unremarkable

HSpec == HInit /\ [][HNext]_hvars

\* The worker's loop and the courier run on, and the interface loads the review
\* it shows.  The inputs wait in one channel, first in first out, so that an
\* outcome or an event is handled however many commands the reviewer sends:
\* strong fairness, since the worker is between inputs again and again.  Nobody
\* has to post, reply, focus or restart.
Fairness ==
    /\ WF_hvars(Prepares)
    /\ WF_hvars(Notifies)
    /\ SF_hvars(Learns)
    /\ SF_hvars(Observes)
    /\ WF_hvars(Rechecks)
    /\ WF_hvars(Outcome)
    /\ WF_hvars(~Loaded /\ Loads)

FairSpec == HSpec /\ Fairness

-----------------------------------------------------------------------------
(* Properties. *)

\* Comment id waits for this tab's agent, and for no other tab's.
Awaits(id) ==
    /\ Loaded /\ available
    /\ \E t \in Threads :
         /\ PendingFor(book[1], t, Tab, retried)
         /\ \E c \in PendingComments(book[1], t, Tab, retried) :
              book[1].log[c].id = id /\ elsewhere[t] < c

\* A delivered prompt covered it, or its failure was published.
Settled(id) ==
    \E c \in DOMAIN store.log :
        store.log[c].id = id /\ (reached >= c \/ told >= c)

\* A comment that waits reaches the agent, or the reviewer learns that its
\* wakeup failed, or it stops waiting.
EveryCommentSettles ==
    \A id \in MessageIds : Awaits(id) ~> Settled(id) \/ ~Awaits(id)

\* What a wakeup counts as notified was prompted for with its own access value:
\* an agent that takes over is prompted for all that waits, whatever the agent
\* before it was prompted for, and a comment posted later never counts.
NotifiedWasPrompted == wakeup # <<>> => wakeup[1].notified <= asked
=============================================================================
