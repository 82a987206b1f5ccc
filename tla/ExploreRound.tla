----------------------------- MODULE ExploreRound -----------------------------
(***************************************************************************)
(* The saved record of one Explore round, as crates/review-explore keeps   *)
(* it: the interview (interview.rs), the delivery of its turns and of its  *)
(* implementation requests (durable.rs), answers taken back (cancel.rs),   *)
(* questions revised (revision.rs) and what a record must satisfy to be    *)
(* read again (recovery.rs).                                               *)
(*                                                                         *)
(* A request is numbered, and so is an answer: a reviewer's answer has the *)
(* number of the request that carries it to the agent, for the first time  *)
(* and in every retry.  The text of questions, answers, marks and agendas  *)
(* is left out.                                                            *)
(***************************************************************************)
EXTENDS Naturals, Sequences, FiniteSets, SequencesExt, Positions

CONSTANTS
    MaxIds,       \* bound: requests of the round, revisions included
    MaxAttempts,  \* bound: attempts to deliver one of those
    MaxDeliveries,\* bound: implementation requests
    MaxSends      \* bound: attempts to deliver one of those

ASSUME RoundAssumption ==
    /\ MaxIds \in Nat /\ MaxAttempts \in Nat
    /\ MaxDeliveries \in Nat /\ MaxSends \in Nat

Ids == 1 .. MaxIds
Deliveries == 1 .. MaxDeliveries

DispatchState == {"Queued", "Attempting", "Delivered", "NotStarted", "NotSent",
                  "Cancelled", "Unknown"}

\* InterviewDelivery, with the request: whether it carries an answer, and the
\* answers it tells the agent were cancelled.  Attempt 0 is no record.
NoTurn == [attempt |-> 0, state |-> "Queued", answer |-> FALSE, cancelled |-> {}]
\* ImplementationDelivery.
NoDelivery == [attempt |-> 0, state |-> "Queued", conclusion |-> 0]

\* ConversationTurn: answer 0 is none, next is whether it asks a question.
ConversationTurn == [request : Ids, answer : {0} \cup Ids, next : BOOLEAN]

Round == [conversation : Seq(ConversationTurn),
          answers : Seq([id : Ids, in_reply_to : Ids]),
          outstanding : {0} \cup Ids, retry : {0} \cup Ids,
          cancelled : SUBSET Ids,
          turns : [Ids -> [attempt : Nat, state : DispatchState, answer : BOOLEAN,
                           cancelled : SUBSET Ids]],
          implementations : [Deliveries -> [attempt : Nat, state : DispatchState,
                                            conclusion : {0} \cup Ids]],
          completion : {0} \cup Ids]

\* ExploreRound::new.
EmptyRound ==
    [conversation |-> <<>>, answers |-> <<>>, outstanding |-> 0, retry |-> 0,
     cancelled |-> {}, turns |-> [q \in Ids |-> NoTurn],
     implementations |-> [d \in Deliveries |-> NoDelivery], completion |-> 0]

Turns(r) == {q \in Ids : r.turns[q].attempt # 0}
Implementations(r) == {d \in Deliveries : r.implementations[d].attempt # 0}
InConversation(r, q) == \E i \in DOMAIN r.conversation : r.conversation[i].request = q
AnswerIds(r) == {r.answers[i].id : i \in DOMAIN r.answers}

\* Exploration::conclusion_request; 0 for none.
ConclusionRequest(r) ==
    IF r.conversation # <<>> /\ ~Last(r.conversation).next
    THEN Last(r.conversation).request ELSE 0

-----------------------------------------------------------------------------
(* The reviewer's turns. *)

\* Exploration::request and record: nothing is pending, and the answer is to a
\* turn of the conversation.
MayPost(r, to) == r.outstanding = 0 /\ InConversation(r, to)

\* Mutant of Pend: a superseded request takes its cancelled answers with it.
PendForgetting(r, q, answer) ==
    [r EXCEPT !.turns[q] = [attempt |-> 1, state |-> "Queued", answer |-> answer,
                            cancelled |-> r.cancelled],
              !.cancelled = {}, !.outstanding = q, !.retry = q]

\* The new request of ExploreRound::post: it names the answers cancelled since
\* the last one, and those a superseded request was to name.
Pend(r, q, answer) ==
    LET superseded == IF r.retry = 0 THEN {} ELSE r.turns[r.retry].cancelled
    IN  [r EXCEPT !.turns[q] = [attempt |-> 1, state |-> "Queued", answer |-> answer,
                                cancelled |-> superseded \cup r.cancelled],
                  !.cancelled = {}, !.outstanding = q, !.retry = q]

\* ExploreRound::post of a kickoff, and of an answer to turn `to`.
PostKickoff(r, q) == Pend(r, q, FALSE)
PostAnswer(r, q, to) ==
    [Pend(r, q, TRUE) EXCEPT !.answers = Append(@, [id |-> q, in_reply_to |-> to])]

\* ExploreRound::post of a request it knows: the same one again, as a new attempt.
MayPostAgain(r, q) ==
    /\ q \in Turns(r) /\ r.retry = q /\ r.outstanding \in {0, q}
    /\ ~InConversation(r, q)

PostAgain(r, q) ==
    [r EXCEPT !.turns[q].attempt = @ + 1, !.turns[q].state = "Queued",
              !.outstanding = q]

\* Exploration::cancel, pause_delivery and failed: the turn waits for Retry.
StopTurn(r) == [r EXCEPT !.outstanding = 0]

\* Mutant of MayCancelFrom: an implementation request does not settle the round.
MayCancelFromAny(r, a) == a \in AnswerIds(r)

\* Where an answer of the round is, and it with every answer after it.
From(r, a) == CHOOSE i \in DOMAIN r.answers : r.answers[i].id = a
AnswersFrom(r, a) == {r.answers[i].id : i \in From(r, a) .. Len(r.answers)}

\* The agent's turns that stay when answers go.
KeptTurns(r, gone) ==
    Picked(r.conversation, {i \in DOMAIN r.conversation : r.conversation[i].answer \notin gone})

\* Mutant of CancelAnswersFrom: deliveries that carried the answers stay.
CancelKeepingTurns(r, a) ==
    LET gone == AnswersFrom(r, a)
        waits == r.retry \in gone
        untold == IF waits THEN r.turns[r.retry].cancelled ELSE {}
    IN  [r EXCEPT !.answers = SubSeq(@, 1, From(r, a) - 1),
                  !.conversation = KeptTurns(r, gone),
                  !.outstanding = IF waits THEN 0 ELSE @,
                  !.retry = IF waits THEN 0 ELSE @,
                  !.cancelled = @ \cup gone \cup untold,
                  !.completion = IF @ \in gone THEN 0 ELSE @]

\* ExploreRound::cancel_answers_from: the answer and every answer after it go,
\* with the agent's turns and the deliveries that followed them, and the agent
\* is told with its next request.  What only the pending one would have told of
\* earlier cancellations is told then too.
MayCancelFrom(r, a) == a \in AnswerIds(r) /\ Implementations(r) = {}

CancelAnswersFrom(r, a) ==
    LET gone == AnswersFrom(r, a)
        waits == r.retry \in gone
        untold == IF waits THEN r.turns[r.retry].cancelled ELSE {}
    IN  [r EXCEPT !.answers = SubSeq(@, 1, From(r, a) - 1),
                  !.conversation = KeptTurns(r, gone),
                  !.outstanding = IF waits THEN 0 ELSE @,
                  !.retry = IF waits THEN 0 ELSE @,
                  !.cancelled = @ \cup gone \cup untold,
                  !.turns = [q \in Ids |-> IF q \in gone THEN NoTurn ELSE @[q]],
                  !.completion = IF @ \in gone THEN 0 ELSE @]

-----------------------------------------------------------------------------
(* The agent's turns. *)

\* Exploration::submit, of a turn that is not in the conversation yet.
MaySubmit(r, q) == r.outstanding = q /\ ~InConversation(r, q)

\* Exploration::apply, and SavedRounds::submit: the first conclusion accepted
\* authorizes implementation.
Submit(r, q, question) ==
    [r EXCEPT !.conversation =
                  Append(@, [request |-> q, next |-> question,
                             answer |-> IF r.turns[q].answer THEN q ELSE 0]),
              !.outstanding = 0, !.retry = 0,
              !.completion = IF ~question /\ @ = 0 THEN q ELSE @]

\* Exploration::revise: a new version of the open question.
MayRevise(r) ==
    /\ r.outstanding = 0 /\ r.retry = 0
    /\ r.conversation # <<>> /\ Last(r.conversation).next

Revise(r, q) ==
    [r EXCEPT !.conversation =
        Append(@, [request |-> q, next |-> TRUE, answer |-> Last(@).answer])]

-----------------------------------------------------------------------------
(* Implementation requests. *)

\* ExploreRound::latest_implementation, with implementation.rs's admit: another
\* request holds the conclusion.
Held(r, d, sending) ==
    LET same == {e \in Implementations(r) :
                    r.implementations[e].conclusion = ConclusionRequest(r)}
    IN  \E e \in same \ {d} :
          /\ \A f \in same : f <= e
          /\ \/ r.implementations[e].state = "Delivered"
             \/ r.implementations[e].state \in {"Queued", "Attempting"} /\ sending

\* Mutant of MayAuthorize: any saved request may be sent again.
MayAuthorizeAny(r, d) ==
    /\ r.completion # 0 /\ r.outstanding = 0 /\ ConclusionRequest(r) # 0
    /\ d \in Implementations(r) => r.implementations[d].conclusion = ConclusionRequest(r)

\* ExploreRound::authorize.
MayAuthorize(r, d) ==
    /\ r.completion # 0 /\ r.outstanding = 0 /\ ConclusionRequest(r) # 0
    /\ d \in Implementations(r) =>
         /\ r.implementations[d].conclusion = ConclusionRequest(r)
         /\ r.implementations[d].state \in {"Queued", "NotStarted", "NotSent", "Cancelled"}

Authorize(r, d) ==
    [r EXCEPT !.implementations[d] =
        [attempt |-> @.attempt + 1, state |-> "Queued",
         conclusion |-> ConclusionRequest(r)]]

-----------------------------------------------------------------------------
(* Delivery.  A dispatch is [kind, id, attempt]. *)

\* ExploreRound::dispatch_state, of the record with this attempt.
Current(r, p) ==
    IF p.kind = "turn" THEN r.turns[p.id].attempt = p.attempt
    ELSE r.implementations[p.id].attempt = p.attempt
StateOf(r, p) ==
    IF p.kind = "turn" THEN r.turns[p.id].state ELSE r.implementations[p.id].state
WithState(r, p, state) ==
    IF p.kind = "turn" THEN [r EXCEPT !.turns[p.id].state = state]
    ELSE [r EXCEPT !.implementations[p.id].state = state]

\* ExploreRound::begin_dispatch.
MayBegin(r, p) ==
    /\ p.kind = "turn" => r.outstanding = p.id
    /\ Current(r, p) /\ StateOf(r, p) = "Queued"
BeginDispatch(r, p) == WithState(r, p, "Attempting")

\* Mutant of FinishDispatch: the outcome of an attempt superseded counts.
FinishDispatchAny(r, p, began, state) ==
    IF /\ \/ p.kind = "turn" /\ p.id \in Turns(r)
          \/ p.kind # "turn" /\ p.id \in Implementations(r)
       /\ StateOf(r, p) = IF began THEN "Attempting" ELSE "Queued"
    THEN WithState(r, p, state) ELSE r

\* ExploreRound::finish_dispatch: superseded callbacks change nothing.
FinishDispatch(r, p, began, state) ==
    IF Current(r, p) /\ StateOf(r, p) = (IF began THEN "Attempting" ELSE "Queued")
    THEN WithState(r, p, state) ELSE r

-----------------------------------------------------------------------------
\* ExploreRound::validate_restored, and Exploration's: what every read checks.
\* A round that fails it cannot be changed any more, and reopening removes it.
ValidateRestored(r) ==
    LET turn(q) == CHOOSE i \in DOMAIN r.conversation : r.conversation[i].request = q
    IN  /\ \A i, j \in DOMAIN r.conversation :
             r.conversation[i].request = r.conversation[j].request => i = j
        /\ \A i \in DOMAIN r.conversation :
             r.conversation[i].answer \in {0} \cup AnswerIds(r)
        /\ \A i, j \in DOMAIN r.answers : r.answers[i].id = r.answers[j].id => i = j
        /\ \A i \in DOMAIN r.answers : InConversation(r, r.answers[i].in_reply_to)
        /\ \A q \in {r.outstanding, r.retry} \cup Turns(r) :
             q # 0 => (r.turns[q].answer => q \in AnswerIds(r))
        /\ r.completion # 0 => /\ InConversation(r, r.completion)
                               /\ ~r.conversation[turn(r.completion)].next
        /\ \A d \in Implementations(r) :
             LET c == r.implementations[d].conclusion
             IN  InConversation(r, c) /\ ~r.conversation[turn(c)].next
=============================================================================
