------------------------------ MODULE RunAhead ------------------------------
(***************************************************************************)
(* Run-ahead (crates/review-explore-session/src/run_ahead, crates/review-  *)
(* run-ahead): while a question waits, a fork of the agent's session takes *)
(* the turn of an answer the reviewer may give.  When the reviewer gives   *)
(* that answer, the agent in the pane resumes the fork's session, and the  *)
(* fork's turn becomes the round's.                                        *)
(*                                                                         *)
(* The model has one reviewer process, which may end and be reopened, the  *)
(* agent in its pane, and the choice that the reviewer's settings prepare: *)
(* one fork at a time.  The agent acts on what was typed in its pane late  *)
(* or never.  A prompt passes the courier's gate as in PromptDelivery,     *)
(* which a living hold closes: one lives as long as a switch or a          *)
(* settling does.                                                          *)
(***************************************************************************)
EXTENDS Naturals, FiniteSets, Sequences, FiniteSetsExt, Functions

CONSTANTS
    MaxForks,    \* bound: forks taken
    MaxAnswers,  \* bound: answers of the reviewer
    MaxAttempts, \* bound: prompts and switches for them
    MaxReopens,  \* bound: ends of the reviewer process
    MayRestart,  \* whether the agent may be started anew, once
    KnownAgain   \* whether a reopened reviewer knows the agent to run its hooks

ASSUME RunAheadAssumption ==
    /\ {MaxForks, MaxAnswers, MaxAttempts, MaxReopens} \subseteq Nat
    /\ MaxForks > 0
    /\ {MayRestart, KnownAgain} \subseteq BOOLEAN

ForkIds == 1 .. MaxForks
Answers == 1 .. MaxAnswers

\* The session the round began in, those of the forks, and that of a new agent.
NewSession == MaxForks + 1
Sessions == 0 .. NewSession

\* A turn: the answer it is for, and the fork that took it; 0 is the agent.
Turns == (0 .. MaxAnswers) \X (0 .. MaxForks)
Kickoff == <<0, 0>>

VARIABLES
    round,    \* the saved round
    forks,    \* RoundForks.forks, by number
    path,     \* RoundForks.answers: the fork each answer is to continue as, or 0
    me,       \* the reviewer process
    queue,    \* the answer, and its attempt, whose prompt waits at the courier's gate
    sending,  \* the answer, and its attempt, whose prompt is being typed
    move,     \* the thread that moves the agent
    agent,    \* the agent in the pane
    typed,    \* the sessions it was told to resume and did not yet
    contents, \* the turns each session holds
    erased,   \* the sessions deleted
    early,    \* history: the agent was moved on an earlier command's resume, see AgentResumes
    reopens

disk == <<round, forks, path>>
world == <<agent, typed, contents, erased, early>>
vars == <<disk, me, queue, sending, move, world, reopens>>

NoTurn == <<0, 0>>
NoMove == [at |-> "none", to |-> 0]
NoSwitch == [fork |-> 0, attempt |-> 0, waited |-> FALSE, stopped |-> FALSE]
NoSettling == [fork |-> 0, to |-> 0, unasked |-> FALSE]
NoFork == [answer |-> 0, from |-> 0, turn |-> FALSE, ended |-> FALSE,
           continued |-> "none", discarded |-> FALSE, cleaned |-> FALSE]

\* A reviewer that just opened.
Opened == [taken |-> 0, finishing |-> 0, switching |-> NoSwitch, settling |-> NoSettling,
           vain |-> {}, held |-> NoTurn, pending |-> 0, access |-> 0,
           erasing |-> {}, step |-> "idle"]

\* The kickoff's turn asks the first question.
Init ==
    /\ round = [taken |-> {Kickoff}, out |-> 0, retry |-> 0, attempt |-> 0, made |-> 0]
    /\ forks = [f \in ForkIds |-> NoFork]
    /\ path = [q \in Answers |-> 0]
    /\ me = Opened
    /\ queue = NoTurn /\ sending = NoTurn /\ move = NoMove
    /\ agent = [session |-> 0, hooks |-> "heard", doing |-> NoTurn]
    /\ typed = <<>>
    /\ contents = [s \in Sessions |-> IF s = 0 THEN {Kickoff} ELSE {}]
    /\ erased = {} /\ early = FALSE /\ reopens = 0

-----------------------------------------------------------------------------
(* The records of the forks. *)

\* Mutant of IsAgentSession: a session that may still be resumed is not the agent's.
LateIsForgotten(r) == r.continued \in {"switching", "switched"}

\* ForkRecord::is_agent_session, of record r.
IsAgentSession(r) == r.continued \in {"switching", "switched", "typed"}

\* Mutant of IsUnsettled: a resume command typed in vain settles by itself.
LateIsSettled(r) == r.continued = "switching"

\* ForkRecord::is_unsettled.
IsUnsettled(r) == r.continued \in {"switching", "typed"}

\* ForkRecord::discard, of the forks `gone` among fs.
Discard(fs, gone) ==
    [f \in ForkIds |-> IF f \in gone /\ ~fs[f].discarded /\ ~IsAgentSession(fs[f])
                       THEN [fs[f] EXCEPT !.discarded = TRUE, !.turn = FALSE]
                       ELSE fs[f]]

Continue(fs, f, state) == [fs EXCEPT ![f].continued = state]

\* Mutant of Erasing: the fork in hand goes too, where there is none.
ErasingTaken(m, gone) == [m EXCEPT !.erasing = @ \cup gone \cup {m.taken}]

Erasing(m, gone) == [m EXCEPT !.erasing = @ \cup gone]

Moving(m) == m.switching # NoSwitch \/ m.settling # NoSettling

\* ExploreSession::unsettled, of all such forks.
Unsettled(fs, m) == {f \in ForkIds : IsUnsettled(fs[f]) /\ f # m.switching.fork}

-----------------------------------------------------------------------------
(* Settling, and the prompts that wait for it. *)

\* Mutant of RoundTook: the answer's path alone tells.
PathSaysTook(f, p, turns) == \E q \in Answers : p[q] = f

\* ExploreSession::round_took, as the paths p and the round's turns have it.
RoundTook(f, p, turns) ==
    \E q \in Answers : p[q] = f /\ \E t \in turns : t[1] = q

\* ExploreSession::settle: the session the agent is put on.
Target(fs, f, p, turns) == IF RoundTook(f, p, turns) THEN f ELSE fs[f].from

Settling(m, fs, f, p, turns, unasked) ==
    [m EXCEPT !.settling = [fork |-> f, to |-> Target(fs, f, p, turns), unasked |-> unasked]]

Draining(to) == [at |-> "draining", to |-> to]

\* ExploreSession::agent_restarted.
Restarted(fs, f) == Discard(Continue(fs, f, "restarted"), {f})

\* ExploreSession::run_ahead_hold of the answer q's attempt a, else
\* ExploreSession::send_turn.
HoldOrSend(fs, m, p, turns, q, a) ==
    LET waits == [m EXCEPT !.pending = q, !.held = <<q, a>>]
        sends == [m EXCEPT !.pending = q]
        unsettled == Unsettled(fs, m)
        f == Min(unsettled)
    IN
    \/ /\ Moving(m)
       /\ me' = waits /\ forks' = fs /\ queue' = NoTurn /\ UNCHANGED move
    \/ /\ ~Moving(m) /\ unsettled # {} /\ agent.hooks = "heard"
       /\ me' = Settling(waits, fs, f, p, turns, FALSE)
       /\ move' = Draining(me'.settling.to)
       /\ forks' = fs /\ queue' = NoTurn
    \/ /\ ~Moving(m) /\ unsettled # {} /\ agent.hooks = "none"
       /\ me' = Erasing(sends, {f}) /\ forks' = Restarted(fs, f)
       /\ queue' = <<q, a>> /\ move' = NoMove
    \/ /\ ~Moving(m) /\ (unsettled # {} => agent.hooks = "unheard")
       /\ me' = sends /\ forks' = fs /\ queue' = <<q, a>> /\ move' = NoMove

\* ExploreSession::after_agent_moved, up to the forks it may take again.
AfterMoved(fs, m, p, turns) ==
    LET free == [m EXCEPT !.held = NoTurn] IN
    IF m.held # NoTurn /\ m.pending = m.held[1]
    THEN HoldOrSend(fs, free, p, turns, m.held[1], m.held[2])
    ELSE me' = free /\ forks' = fs /\ move' = NoMove /\ UNCHANGED queue

\* Exploration::failed, where ExploreSession::prompt_finished finds the attempt a
\* of the answer q still pending: the turn waits for Retry.
TurnFailed(r, m, q, a) ==
    IF m.pending = q /\ r.attempt = a /\ r.out = q THEN [r EXCEPT !.out = 0] ELSE r

\* ExploreSession::undo_switch, with the paths p and the round's turns.
Undo(fs, m, p, turns, f) ==
    /\ me' = Settling([m EXCEPT !.switching = NoSwitch], fs, f, p, turns, TRUE)
    /\ move' = Draining(me'.settling.to)
    /\ forks' = fs /\ UNCHANGED queue


-----------------------------------------------------------------------------
(* Taking forks, and what they do. *)

Idle == me.step = "idle"

\* Exploration::waiting_turn.
QuestionWaits == round.out = 0 /\ round.retry = 0

AgentIdle == agent.doing = NoTurn

\* ExploreSession::run_ahead_take, where the agent runs the session the round needs.
TakeForks ==
    /\ Idle /\ QuestionWaits /\ me.taken = 0 /\ ~Moving(me)
    /\ AgentIdle /\ agent.hooks = "heard" /\ Unsettled(forks, me) = {}
    /\ round.made < MaxAnswers
    /\ \E f \in ForkIds :
        /\ \A g \in ForkIds : (forks[g] = NoFork) <=> (g >= f)
        /\ forks' = [forks EXCEPT ![f] = [NoFork EXCEPT !.answer = round.made + 1,
                                                        !.from = agent.session]]
        /\ contents' = [contents EXCEPT ![f] = contents[agent.session] \cup {<<round.made + 1, f>>}]
        /\ me' = [me EXCEPT !.taken = f]
    /\ UNCHANGED <<round, path, queue, sending, move, agent, typed, erased, early, reopens>>

\* ExploreSession::agent_to_fork: the idle agent settles before its session is forked, by
\* itself once.
SettleFirst ==
    /\ Idle /\ QuestionWaits /\ me.taken = 0 /\ ~Moving(me) /\ AgentIdle
    /\ Unsettled(forks, me) # {}
    /\ LET f == Min(Unsettled(forks, me)) IN
        /\ f \notin me.vain
        /\ \/ /\ agent.hooks = "heard"
              /\ me' = Settling(me, forks, f, path, round.taken, TRUE)
              /\ move' = Draining(me'.settling.to)
              /\ UNCHANGED forks
           \/ /\ agent.hooks = "none"
              /\ me' = Erasing(me, {f}) /\ forks' = Restarted(forks, f)
              /\ UNCHANGED move
    /\ UNCHANGED <<round, path, queue, sending, world, reopens>>

\* ExploreSession::discard_taken: the agent's session moved, the reviewer wrote in the round's
\* conversation, or run-ahead was turned off.
DropForks ==
    /\ Idle /\ me.taken # 0
    /\ forks' = Discard(forks, {me.taken})
    /\ me' = Erasing([me EXCEPT !.taken = 0], {me.taken})
    /\ UNCHANGED <<round, path, queue, sending, move, world, reopens>>

\* ExploreSession::unchanged_since_forks.
Unchanged(f) ==
    /\ AgentIdle /\ agent.session = forks[f].from
    /\ contents[agent.session] = contents[f] \ {<<forks[f].answer, f>>}

\* ExploreSession::start_switch, where it starts: for the fork f among fs, by the reviewer m.
SwitchBegins(fs, m, f, a, waited, step) ==
    /\ me' = [m EXCEPT !.pending = fs[f].answer, !.step = step,
                       !.switching = [NoSwitch EXCEPT !.fork = f, !.attempt = a, !.waited = waited]]
    /\ forks' = Continue(fs, f, "switching")
    /\ queue' = NoTurn /\ move' = Draining(f)

\* ExploreSession::run_ahead_answer, within deliver_turn: the reviewer answers, as the fork
\* was told or not.  A fork that is not continued as is discarded, and so is one whose switch
\* did not start.
Answer ==
    LET q == round.made + 1
        a == round.attempt + 1
        f == me.taken
        bare == f # 0 /\ agent.hooks = "heard" /\ Unchanged(f)
        asked == [me EXCEPT !.access = a, !.taken = 0]
    IN
    /\ Idle /\ QuestionWaits /\ q <= MaxAnswers /\ a <= MaxAttempts
    /\ round' = [round EXCEPT !.out = q, !.retry = q, !.attempt = a, !.made = q]
    /\ \/ /\ bare /\ forks[f].turn
          /\ SwitchBegins(forks, asked, f, a, FALSE, "recording") /\ UNCHANGED path
       \/ /\ bare /\ ~forks[f].turn /\ ~forks[f].ended
          /\ me' = [asked EXCEPT !.finishing = f, !.pending = q]
          /\ path' = [path EXCEPT ![q] = f]
          /\ queue' = NoTurn /\ UNCHANGED <<forks, move>>
       \/ /\ HoldOrSend(Discard(forks, {f}), Erasing(asked, {f} \ {0}), path, round.taken, q, a)
          /\ UNCHANGED path
    /\ UNCHANGED <<sending, world, reopens>>

\* ExploreSession::record_answer, once the switch started.
RecordAnswer ==
    /\ me.step = "recording"
    /\ path' = [path EXCEPT ![me.pending] = me.switching.fork]
    /\ me' = [me EXCEPT !.step = "idle"]
    /\ UNCHANGED <<round, forks, queue, sending, move, world, reopens>>

\* ExploreSession::answer_to_agent, without the fork the answer q waited for.
AnswerToAgent(fs, q) ==
    /\ path' = [path EXCEPT ![q] = 0]
    /\ HoldOrSend(Discard(fs, {me.finishing}),
                  Erasing([me EXCEPT !.finishing = 0], {me.finishing}),
                  path', round.taken, q, round.attempt)

\* ExploreSession::run_ahead_call and run_ahead_fork_submitted: a fork submits its turn.
ForkSubmits(f) ==
    LET kept == [forks EXCEPT ![f].turn = TRUE] IN
    /\ Idle /\ f \in {me.taken, me.finishing} /\ ~forks[f].turn /\ ~forks[f].ended
    /\ \/ /\ f = me.taken
          /\ forks' = kept /\ UNCHANGED <<path, me, queue, move>>
       \/ /\ f = me.finishing /\ Unchanged(f)
          /\ SwitchBegins(kept, [me EXCEPT !.finishing = 0], f, round.attempt, TRUE, "idle")
          /\ UNCHANGED path
       \/ f = me.finishing /\ AnswerToAgent(kept, forks[f].answer)
    /\ UNCHANGED <<round, sending, world, reopens>>

\* Mutant of ForkEnds: the answer waits on for a fork that ended.
ForkEndsUnheard(f) ==
    /\ Idle /\ f \in {me.taken, me.finishing} /\ ~forks[f].ended
    /\ forks' = [forks EXCEPT ![f].ended = TRUE]
    /\ UNCHANGED <<round, path, me, queue, sending, move, world, reopens>>

\* ExploreSession::run_ahead_ended.
ForkEnds(f) ==
    LET ended == [forks EXCEPT ![f].ended = TRUE] IN
    /\ Idle /\ f \in {me.taken, me.finishing} /\ ~forks[f].ended
    /\ \/ /\ f = me.taken
          /\ forks' = ended /\ UNCHANGED <<path, me, queue, move>>
       \/ f = me.finishing /\ AnswerToAgent(ended, forks[f].answer)
    /\ UNCHANGED <<round, sending, world, reopens>>

-----------------------------------------------------------------------------
(* The agent is moved: Move::start_once_drained, and the host's switch and resume. *)

\* The thread types the session in the pane of the idle agent, or gives up before.
MoveBegins ==
    /\ move.at = "draining" /\ sending = NoTurn
    /\ \/ /\ AgentIdle /\ agent.hooks = "heard"
          /\ typed' = Append(typed, move.to) /\ move' = [move EXCEPT !.at = "typed"]
       \/ move' = [move EXCEPT !.at = "failed"] /\ UNCHANGED typed
    /\ UNCHANGED <<disk, me, queue, sending, agent, contents, erased, early, reopens>>

\* Mutant of AgentResumes: the thread hears that the agent resumed some session.
AnyIsHeard ==
    /\ typed # <<>> /\ AgentIdle
    /\ agent' = [agent EXCEPT !.session = Head(typed)]
    /\ typed' = Tail(typed)
    /\ \/ UNCHANGED <<move, early>>
       \/ /\ move.at = "typed" /\ move' = [move EXCEPT !.at = "moved"]
          /\ early' = (early \/ ~(Range(typed') \subseteq {move.to}))
    /\ UNCHANGED <<disk, me, queue, sending, contents, erased, reopens>>

\* The agent resumes the sessions it was told to in order, and its hooks say so.  The thread
\* that waits for the session may take any of its resumes for that of its own command, as
\* Expectations::resumed matches the session alone: `early`, where the agent was told to resume
\* another session after it.  Or Herdr does not show the session before the time ends.
AgentResumes ==
    /\ typed # <<>> /\ AgentIdle
    /\ agent' = [agent EXCEPT !.session = Head(typed)]
    /\ typed' = Tail(typed)
    /\ \/ UNCHANGED <<move, early>>
       \/ /\ move.at = "typed" /\ Head(typed) = move.to
          /\ move' = [move EXCEPT !.at = "moved"]
          /\ early' = (early \/ ~(Range(typed') \subseteq {move.to}))
    /\ UNCHANGED <<disk, me, queue, sending, contents, erased, reopens>>

\* It never does.
AgentIgnores ==
    /\ typed # <<>>
    /\ typed' = Tail(typed)
    /\ UNCHANGED <<disk, me, queue, sending, move, agent, contents, erased, early, reopens>>

MoveTimesOut ==
    /\ move.at = "typed"
    /\ move' = [move EXCEPT !.at = "typed in vain"]
    /\ UNCHANGED <<disk, me, queue, sending, world, reopens>>

\* ExploreSession::run_ahead_switched.
SwitchEnds ==
    LET f == me.switching.fork
        q == forks[f].answer
        delivering == ~me.switching.stopped /\ me.pending = q
        ended == [me EXCEPT !.switching = NoSwitch]
        plain == IF me.switching.stopped THEN path ELSE [path EXCEPT ![q] = 0]
        failed == TurnFailed(round, me, q, me.switching.attempt)
    IN
    /\ Idle /\ me.switching # NoSwitch
    /\ \/ /\ move.at = "moved" /\ delivering /\ round.out = q
          /\ round' = [round EXCEPT !.taken = @ \cup {<<q, f>>}, !.out = 0, !.retry = 0]
          /\ me' = [me EXCEPT !.step = "committed"] /\ move' = NoMove
          /\ UNCHANGED <<forks, path, queue>>
       \/ /\ move.at = "moved"
          /\ round' = IF delivering THEN failed ELSE round
          /\ path' = plain
          /\ Undo(forks, me, plain, round.taken, f)
       \/ /\ move.at = "typed in vain"
          /\ round' = failed /\ path' = plain
          /\ Undo(Continue(forks, f, "typed"), me, plain, round.taken, f)
       \/ /\ move.at = "failed"
          /\ round' = failed /\ path' = plain
          /\ AfterMoved(Discard(Continue(forks, f, "none"), {f}), Erasing(ended, {f}),
                        plain, round.taken)
    /\ UNCHANGED <<sending, world, reopens>>

\* ExploreSession::continue_as_fork, once the round holds the fork's turn.
RecordSwitched ==
    LET f == me.switching.fork IN
    /\ me.step = "committed"
    /\ AfterMoved(Continue(forks, f, "switched"),
                  [me EXCEPT !.step = "idle", !.switching = NoSwitch, !.access = MaxAttempts + f],
                  path, round.taken)
    /\ UNCHANGED <<round, path, sending, world, reopens>>

\* ExploreSession::run_ahead_settled.
SettleEnds ==
    LET f == me.settling.fork
        ended == [me EXCEPT !.settling = NoSettling]
        vain == IF me.settling.unasked /\ move.at = "typed in vain" THEN {f} ELSE {}
        held == me.held
    IN
    /\ Idle /\ me.settling # NoSettling
    /\ \/ /\ move.at = "moved" /\ me.settling.to = f
          /\ AfterMoved(Continue(forks, f, "switched"), [ended EXCEPT !.vain = @ \ {f}],
                        path, round.taken)
          /\ UNCHANGED round
       \/ /\ move.at = "moved" /\ me.settling.to # f
          /\ AfterMoved(Discard(Continue(forks, f, "undone"), {f}),
                        Erasing([ended EXCEPT !.vain = @ \ {f}], {f}), path, round.taken)
          /\ UNCHANGED round
       \/ /\ move.at \in {"failed", "typed in vain"}
          /\ forks' = IF forks[f].continued = "switching" THEN Continue(forks, f, "typed") ELSE forks
          /\ me' = [ended EXCEPT !.vain = @ \cup vain, !.held = NoTurn]
          /\ round' = TurnFailed(round, me, held[1], held[2])
          /\ move' = NoMove /\ UNCHANGED queue
    /\ UNCHANGED <<path, sending, world, reopens>>

-----------------------------------------------------------------------------
(* Prompts, and the agent's turns. *)

\* Mutant of AwaitedTurn: a prompt is typed as it was queued.
AnyTurn == queue

\* ExploreRound::begin_dispatch refuses a turn that the round no longer waits for, as one
\* the switch delivered while its Retry was held, and an attempt before the last.
AwaitedTurn == IF queue = <<round.out, round.attempt>> THEN queue ELSE NoTurn

\* The courier takes the prompt that waits, unless a hold lives.
PromptStarts ==
    /\ queue # NoTurn /\ sending = NoTurn /\ ~Moving(me)
    /\ sending' = AwaitedTurn /\ queue' = NoTurn
    /\ UNCHANGED <<disk, me, move, world, reopens>>

\* The idle agent takes it, in the session it runs.
PromptArrives ==
    /\ sending # NoTurn /\ AgentIdle /\ typed = <<>>
    /\ agent' = [agent EXCEPT !.doing = sending]
    /\ contents' = [contents EXCEPT ![agent.session] = @ \cup {<<sending[1], 0>>}]
    /\ sending' = NoTurn
    /\ UNCHANGED <<disk, me, queue, move, typed, erased, early, reopens>>

\* It was not typed: ExploreSession::prompt_finished.
PromptFails ==
    /\ Idle /\ sending # NoTurn
    /\ round' = TurnFailed(round, me, sending[1], sending[2])
    /\ sending' = NoTurn
    /\ UNCHANGED <<forks, path, me, queue, move, world, reopens>>

\* The agent's turn ends, with a call to the reviewer: ExploreSession::submit.
AgentSubmits ==
    LET q == agent.doing[1]
        authorized == me.access = agent.doing[2]
    IN
    /\ Idle /\ ~AgentIdle
    /\ agent' = [agent EXCEPT !.doing = NoTurn,
                              !.hooks = IF authorized /\ @ = "unheard" THEN "heard" ELSE @]
    /\ round' = IF authorized /\ round.out = q
                THEN [round EXCEPT !.taken = @ \cup {<<q, 0>>}, !.out = 0, !.retry = 0]
                ELSE round
    /\ UNCHANGED <<forks, path, me, queue, sending, move, typed, contents, erased, early, reopens>>

\* It ends without one.
AgentIdles ==
    /\ ~AgentIdle
    /\ agent' = [agent EXCEPT !.doing = NoTurn]
    /\ UNCHANGED <<disk, me, queue, sending, move, typed, contents, erased, early, reopens>>

\* The agent is started anew, with the reviewer's hooks or without them.
AgentRestarts ==
    /\ MayRestart /\ agent.session # NewSession /\ contents[NewSession] = {}
    /\ \E hooks \in {"heard", "none"} :
        agent' = [session |-> NewSession, hooks |-> hooks, doing |-> NoTurn]
    /\ typed' = <<>>
    /\ contents' = [contents EXCEPT ![NewSession] = {<<0, 1>>}]
    /\ UNCHANGED <<disk, me, queue, sending, move, erased, early, reopens>>

-----------------------------------------------------------------------------
(* The reviewer. *)

\* ExploreSession::retry.
Retry ==
    LET q == round.retry
        a == round.attempt + 1
    IN
    /\ Idle /\ q # 0 /\ round.out = 0 /\ a <= MaxAttempts
    /\ round' = [round EXCEPT !.out = q, !.attempt = a]
    /\ HoldOrSend(forks, [me EXCEPT !.access = a], path, round.taken, q, a)
    /\ UNCHANGED <<path, sending, world, reopens>>

\* ExploreSession::stop_waiting: an answer that waited for its fork goes to the agent.
Stop ==
    LET f == IF me.finishing # 0 THEN me.finishing ELSE me.switching.fork
        q == me.pending
        a == round.attempt + 1
        waited == me.finishing # 0 \/ (me.switching.waited /\ ~me.switching.stopped)
        without == Erasing([me EXCEPT !.finishing = 0, !.access = a], {me.finishing} \ {0})
        stopped == [without EXCEPT !.switching.stopped = me.switching.waited]
    IN
    /\ Idle /\ round.out # 0
    /\ \/ /\ waited /\ a <= MaxAttempts
          /\ round' = [round EXCEPT !.attempt = a]
          /\ path' = [path EXCEPT ![forks[f].answer] = 0]
          /\ HoldOrSend(Discard(forks, {me.finishing}), stopped, path', round.taken, q, a)
       \/ /\ ~waited
          /\ round' = [round EXCEPT !.out = 0]
          /\ me' = [me EXCEPT !.access = 0, !.pending = 0] /\ queue' = NoTurn
          /\ UNCHANGED <<forks, path, move>>
    /\ UNCHANGED <<sending, world, reopens>>

\* ExploreSession::cancel_answer, of the answer without a turn yet, and
\* run_ahead_withdraw_finishing, which follows.
CancelAnswer ==
    LET q == round.retry
        f == me.finishing
    IN
    /\ Idle /\ q # 0
    /\ round' = [round EXCEPT !.out = 0, !.retry = 0]
    /\ IF me.pending = q
       THEN /\ me' = Erasing([me EXCEPT !.access = 0, !.pending = 0, !.finishing = 0], {f} \ {0})
            /\ queue' = NoTurn
            /\ forks' = Discard(forks, {f})
            /\ path' = IF f # 0 THEN [path EXCEPT ![q] = 0] ELSE path
       ELSE UNCHANGED <<me, queue, forks, path>>
    /\ UNCHANGED <<sending, move, world, reopens>>

\* ExploreSession::discard_in_background, to the record that the fork is cleaned up.
Clean(f) ==
    /\ Idle /\ f \in me.erasing
    /\ erased' = erased \cup {f}
    /\ forks' = [forks EXCEPT ![f].cleaned = TRUE]
    /\ me' = [me EXCEPT !.erasing = @ \ {f}]
    /\ UNCHANGED <<round, path, queue, sending, move, agent, typed, contents, early, reopens>>

\* Mutant of LeftForks: a fork that was discarded is taken for deleted.
LeftUndiscarded(fs) ==
    {f \in ForkIds : fs[f] # NoFork /\ ~fs[f].discarded /\ ~IsAgentSession(fs[f])}

\* ExploreSession::run_ahead_restore: the forks an earlier process left.
LeftForks(fs) ==
    {f \in ForkIds : fs[f] # NoFork /\ ~fs[f].cleaned /\ ~IsAgentSession(fs[f])}

\* The reviewer process ends, by itself (run_ahead_close) or not, and is opened again, which
\* discards the forks it left (run_ahead_restore).
Reopen ==
    LET left == LeftForks(forks) IN
    /\ reopens < MaxReopens /\ reopens' = reopens + 1
    /\ \/ /\ Idle /\ me.finishing # 0
          /\ path' = [path EXCEPT ![forks[me.finishing].answer] = 0]
       \/ UNCHANGED path
    /\ round' = [round EXCEPT !.out = 0]
    /\ forks' = Discard(forks, left)
    /\ me' = Erasing(Opened, left)
    /\ queue' = NoTurn /\ sending' = NoTurn /\ move' = NoMove
    /\ agent' = [agent EXCEPT !.hooks = IF @ = "heard" /\ ~KnownAgain THEN "unheard" ELSE @]
    /\ UNCHANGED <<typed, contents, erased, early>>

Reviewer == Answer \/ RecordAnswer \/ Retry \/ Stop \/ CancelAnswer \/ Reopen
Forks == TakeForks \/ SettleFirst \/ DropForks
         \/ \E f \in ForkIds : ForkSubmits(f) \/ ForkEnds(f) \/ Clean(f)
Moves == MoveBegins \/ MoveTimesOut \/ SwitchEnds \/ RecordSwitched \/ SettleEnds
Prompts == PromptStarts \/ PromptArrives \/ PromptFails
Agent == AgentResumes \/ AgentIgnores \/ AgentSubmits \/ AgentIdles \/ AgentRestarts
Next == Reviewer \/ Forks \/ Moves \/ Prompts \/ Agent

Spec == Init /\ [][Next]_vars

\* The threads of the reviewer go on, a process that forks comes to its end, and a prompt's
\* delivery has an outcome.
FairSpec ==
    /\ Spec
    /\ WF_vars(RecordAnswer) /\ WF_vars(Moves) /\ WF_vars(PromptArrives \/ PromptFails)
    /\ \A f \in ForkIds : WF_vars(ForkEnds(f)) /\ WF_vars(Clean(f))

-----------------------------------------------------------------------------
(* Properties. *)

\* Types.
TypeOK ==
    /\ round \in [taken : SUBSET Turns, out : 0 .. MaxAnswers, retry : 0 .. MaxAnswers,
                  attempt : 0 .. MaxAttempts, made : 0 .. MaxAnswers]
    /\ forks \in [ForkIds -> [answer : 0 .. MaxAnswers, from : Sessions,
                              turn : BOOLEAN, ended : BOOLEAN,
                              continued : {"none", "switching", "switched", "typed", "undone",
                                           "restarted"},
                              discarded : BOOLEAN, cleaned : BOOLEAN]]
    /\ path \in [Answers -> 0 .. MaxForks]
    /\ DOMAIN me = DOMAIN Opened /\ me.step \in {"idle", "recording", "committed"}
    /\ me.erasing \subseteq ForkIds /\ me.vain \subseteq ForkIds
    /\ {queue, sending, me.held, agent.doing} \subseteq (0 .. MaxAnswers) \X (0 .. MaxAttempts)
    /\ move.at \in {"none", "draining", "typed", "moved", "failed", "typed in vain"}
    /\ {move.to, agent.session} \cup Range(typed) \subseteq Sessions
    /\ contents \in [Sessions -> SUBSET Turns]
    /\ erased \subseteq ForkIds /\ early \in BOOLEAN

\* The sessions the agent runs, or will before it takes what is typed next.
Running == {agent.session} \cup Range(typed)

\* A prompt is typed only to an agent whose session holds no prepared turn but those the round
\* took, and, where it is not of a new agent, every turn the round took: the agent never takes
\* an answer a second time.  This is claimed as long as no thread moved the agent early.
PromptMeetsRound ==
    sending # NoTurn /\ ~early =>
        \A s \in Running :
            /\ \A turn \in contents[s] : turn[2] # 0 /\ turn # <<0, 1>>
                    => turn \in round.taken /\ turn[1] # sending[1]
            /\ Kickoff \in contents[s] => round.taken \subseteq contents[s]

\* The session the agent runs, or is told to resume or moved to, is never deleted, as long as no
\* thread moved the agent early; nor is that of a fork whose turn the round took, unless the agent
\* left it by a restart.
AgentSessionStays ==
    /\ ~early => /\ Running \cap erased = {}
                 /\ move # NoMove => move.to \notin erased
    /\ \A f \in ForkIds :
        (\E q \in Answers : <<q, f>> \in round.taken) /\ forks[f].discarded
            => forks[f].continued = "restarted"

\* What run-ahead keeps waiting goes on in the end: an answer that waits for its fork, a
\* switch, a settling, and the prompt that waits for them.
HeldBack == me.finishing # 0 \/ Moving(me) \/ me.held # NoTurn
RunAheadLetsGo == HeldBack ~> ~HeldBack

\* Every fork that is discarded is stopped and its session deleted, a restart notwithstanding.
Left == {f \in ForkIds : forks[f].discarded /\ ~forks[f].cleaned}
DiscardedGoes == Left # {} ~> Left = {}

\* The agent settles on a fork's session only when the round took the fork's turn.
FollowsTaken ==
    LET f == me.settling.fork IN
    me.settling # NoSettling /\ me.settling.to = f => <<forks[f].answer, f>> \in round.taken
=============================================================================
