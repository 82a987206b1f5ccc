---------------------------- MODULE RunAheadProofs ----------------------------
(***************************************************************************)
(* For any number of forks, answers, attempts and ends of the reviewer:    *)
(* the session of the agent is never deleted, and a prompt meets a session *)
(* that agrees with the round, where the reviewer knows its agent again:   *)
(* both as long as no thread moved the agent `early`, on the resume of an  *)
(* earlier command that names the same session.                            *)
(* The first invariant relates what is saved to what the reviewer process  *)
(* has in hand and to the attempts on their way; the second relates what   *)
(* the sessions hold to the turns of the round.  Both are stated of a      *)
(* round, forks, paths, a reviewer, a queue and a moving thread given as   *)
(* arguments, since the model's steps are composed of operators on these.  *)
(***************************************************************************)
EXTENDS RunAhead, TLAPS

-----------------------------------------------------------------------------
(* The types. *)

\* An answer with an attempt of it.
Pairs == (0 .. MaxAnswers) \X (0 .. MaxAttempts)
\* The fork records, the switches and settlings in hand, and the rest of the typed state.
Records == [answer : 0 .. MaxAnswers, from : Sessions, turn : BOOLEAN, ended : BOOLEAN,
            continued : {"none", "switching", "switched", "typed", "undone", "restarted"},
            discarded : BOOLEAN, cleaned : BOOLEAN]
Switches == [fork : ForkIds, attempt : 0 .. MaxAttempts, waited : BOOLEAN, stopped : BOOLEAN]
Settlings == [fork : ForkIds, to : Sessions, unasked : BOOLEAN]
Reviewers ==
    [taken : 0 .. MaxForks, finishing : 0 .. MaxForks,
     switching : Switches \cup {NoSwitch}, settling : Settlings \cup {NoSettling},
     vain : SUBSET ForkIds, held : Pairs, pending : 0 .. MaxAnswers,
     access : 0 .. MaxAttempts + MaxForks, erasing : SUBSET ForkIds,
     step : {"idle", "recording", "committed"}]
Rounds == [taken : SUBSET Turns, out : 0 .. MaxAnswers, retry : 0 .. MaxAnswers,
           attempt : 0 .. MaxAttempts, made : 0 .. MaxAnswers]
Steps == {"none", "draining", "typed", "moved", "failed", "typed in vain"}
MoveSteps == [at : Steps, to : Sessions]

\* Well typed: the saved state, the reviewer, the queue and the moving thread.
Types(rd, fs, p, m, qu, mv) ==
    /\ rd \in Rounds /\ fs \in [ForkIds -> Records] /\ p \in [Answers -> 0 .. MaxForks]
    /\ m \in Reviewers /\ qu \in Pairs /\ mv \in MoveSteps

\* Well typed: what lives outside of the reviewer process.
WorldTypes ==
    /\ sending \in Pairs
    /\ agent \in [session : Sessions, hooks : {"heard", "unheard", "none"}, doing : Pairs]
    /\ typed \in Seq(Sessions)
    /\ contents \in [Sessions -> SUBSET Turns] /\ erased \in SUBSET ForkIds
    /\ early \in BOOLEAN

-----------------------------------------------------------------------------
(* The invariant. *)

\* The forks whose session the agent may still resume.
Late(fs) == {f \in ForkIds : IsUnsettled(fs[f])}
\* The round took a turn for the answer q, and the turn of the fork f.
Given(rd, q) == \E t \in rd.taken : t[1] = q
Took(rd, f) == \E q \in Answers : <<q, f>> \in rd.taken

\* The answer without a turn is the last one, and no later answer has a turn.
RoundKept(rd) ==
    /\ rd.retry # 0 => rd.retry = rd.made /\ ~Given(rd, rd.made)
    /\ rd.out \in {0, rd.retry}
    /\ \A t \in rd.taken : t[1] <= rd.made

\* A fork the agent may run, and one it was switched to, as long as no thread moved it early.
Resumable(r) == r # NoFork /\ (early \/ IsAgentSession(r))
Followed(r) == r # NoFork /\ (early \/ r.continued = "switched")

\* A fork is of an answer, and of the session of the round or of a fork that was switched to;
\* one that is the agent's session is not discarded.
RecordsKept(fs) ==
    \A f \in ForkIds : fs[f] # NoFork =>
        /\ fs[f].answer # 0 /\ fs[f].from # f
        /\ fs[f].from \in ForkIds => Followed(fs[fs[f].from])
        /\ IsAgentSession(fs[f]) => ~fs[f].discarded

\* The agent may still resume one fork at most.
OneLate(fs) == \A f, g \in Late(fs) : f = g

\* An answer's path leads to a fork of that answer.  A turn of a fork in the round is of that
\* fork's answer, and the fork is the agent's, or was until a restart.
PathsKept(rd, fs, p) ==
    /\ \A q \in Answers : p[q] # 0 => fs[p[q]].answer = q
    /\ \A f \in ForkIds : \A q \in Answers : <<q, f>> \in rd.taken =>
        /\ fs[f].answer = q
        /\ \/ fs[f].continued \in {"switched", "restarted"}
           \/ f \in Late(fs) /\ p[q] = f

\* The sessions the agent runs, or was told to resume, as long as no thread moved it early.
Runs == IF early THEN {} ELSE Running

\* What is deleted, or is to be, was discarded; what the agent runs or is told to resume is
\* the agent's session.
SessionsKept(fs, m, mv) ==
    /\ \A f \in m.erasing \cup erased : fs[f].discarded
    /\ \A s \in Running \cup {mv.to} : s \in ForkIds => Resumable(fs[s])
    /\ agent.hooks = "none" => typed = <<>> /\ agent.session = NewSession

\* A fork that no answer was given to yet, and those it follows.
Prepared(fs, f) ==
    fs[f] # NoFork /\ fs[f].continued = "none" /\ ~fs[f].discarded /\ Late(fs) = {}

\* A fork in hand is of the next answer, while a question waits.
TakenKept(rd, fs, m) ==
    m.taken # 0 =>
        /\ Prepared(fs, m.taken) /\ fs[m.taken].answer = rd.made + 1
        /\ rd.out = 0 /\ rd.retry = 0
        /\ m.finishing = 0 /\ ~Moving(m)

\* The round's attempt is neither being typed nor what the agent does.
Fresh(rd) == rd.attempt # 0 /\ sending[2] < rd.attempt /\ agent.doing[2] < rd.attempt

\* An answer that waits for its fork is the last, and nothing else is on its way.
FinishingKept(rd, fs, m, qu) ==
    m.finishing # 0 =>
        /\ Prepared(fs, m.finishing) /\ fs[m.finishing].answer = rd.out
        /\ rd.out # 0 /\ m.pending = rd.out
        /\ ~Moving(m) /\ qu = NoTurn /\ Fresh(rd)

\* A switch: its fork, its thread, the round before and after it holds the turn.
SwitchKept(rd, fs, m, mv) ==
    m.switching # NoSwitch =>
        LET f == m.switching.fork IN
        /\ fs[f].continued = "switching" /\ m.settling = NoSettling
        /\ IF m.step = "committed" THEN mv = NoMove ELSE mv # NoMove /\ mv.to = f
        /\ m.step = "committed" =>
            /\ <<fs[f].answer, f>> \in rd.taken /\ rd.out = 0
            /\ Runs \subseteq {f, NewSession}
        /\ m.step # "committed" => ~Took(rd, f)
        /\ m.step = "recording" => m.pending = fs[f].answer
        /\ mv.at \in {"draining", "failed"} => f \notin Runs

\* A settling: its fork is the one the agent may still resume, and it goes back to the
\* session before only where the round did not take the turn.
SettleKept(rd, fs, p, m, mv) ==
    m.settling # NoSettling =>
        LET f == m.settling.fork IN
        /\ IsUnsettled(fs[f]) /\ mv # NoMove /\ mv.to = m.settling.to
        /\ m.settling.to \in {f, fs[f].from}
        /\ m.settling.to # f => ~Took(rd, f)

\* The thread lives as long as a switch or a settling does; it starts once no prompt is typed.
MoveKept(m, mv) ==
    /\ ~Moving(m) => mv = NoMove
    /\ m.switching = NoSwitch => m.step = "idle"
    /\ mv.at = "none" => mv = NoMove
    /\ mv.at = "moved" => Runs \subseteq {mv.to, NewSession}
    /\ mv.at \notin {"none", "draining"} => sending = NoTurn

\* A prompt is of an answer, and of an attempt no later than the last.
Asked(x, rd) == x # NoTurn => x[1] # 0 /\ x[2] # 0 /\ x[2] <= rd.attempt

\* The attempts on their way: what is being typed is later than what the agent does, and while
\* the agent is moved the answer without a turn is held back or is the switch's own.
AttemptsKept(rd, fs, m, qu) ==
    /\ Asked(qu, rd) /\ Asked(sending, rd) /\ Asked(agent.doing, rd) /\ Asked(m.held, rd)
    /\ sending # NoTurn => agent.doing[2] < sending[2]
    /\ m.access \in {0, rd.attempt} \/ m.access > MaxAttempts
    /\ rd.attempt \in {qu[2], m.held[2]} \ {0} => Fresh(rd)
    /\ m.held # NoTurn => Moving(m)
    /\ Moving(m) /\ rd.out # 0 =>
        /\ m.pending = rd.out /\ Fresh(rd)
        /\ \/ m.held = <<rd.out, rd.attempt>>
           \/ /\ m.switching # NoSwitch /\ ~m.switching.stopped
              /\ fs[m.switching.fork].answer = rd.out /\ m.switching.attempt = rd.attempt

\* All of it, of a saved state and a reviewer, the agent and its sessions as they are.
RunAheadInv(rd, fs, p, m, qu, mv) ==
    /\ Types(rd, fs, p, m, qu, mv)
    /\ RoundKept(rd) /\ RecordsKept(fs) /\ OneLate(fs) /\ PathsKept(rd, fs, p)
    /\ SessionsKept(fs, m, mv)
    /\ TakenKept(rd, fs, m) /\ FinishingKept(rd, fs, m, qu)
    /\ SwitchKept(rd, fs, m, mv) /\ SettleKept(rd, fs, p, m, mv) /\ MoveKept(m, mv)
    /\ AttemptsKept(rd, fs, m, qu)

\* The inductive invariant, but for the paths.
Inv == WorldTypes /\ RunAheadInv(round, forks, path, me, queue, move)

\* The path of an answer that waits for its fork, or for the switch to it, leads to that fork.
PathKept ==
    /\ me.finishing # 0 => path[forks[me.finishing].answer] = me.finishing
    /\ me.switching # NoSwitch /\ me.step = "idle" /\ ~me.switching.stopped
        => path[forks[me.switching.fork].answer] = me.switching.fork

\* A prepared turn that the round took, or no prepared turn.
TurnGood(turns, t) == t[2] = 0 \/ t = <<0, 1>> \/ t \in turns
\* A session that may be asked the next answer, by the rule of PromptMeetsRound.
Good(turns, held) ==
    /\ \A t \in held : TurnGood(turns, t)
    /\ Kickoff \in held => turns \subseteq held
\* The agent runs such a session, and was told to resume only such.
Calm(turns) == \A s \in Runs : Good(turns, contents[s])
\* The round has a turn for the answer q.
Answered(turns, q) == \E t \in turns : t[1] = q

\* What the sessions hold.
WorldKept(fs) ==
    /\ agent.hooks # "unheard"
    /\ \A t \in contents[NewSession] : t = <<0, 1>> \/ (t[2] = 0 /\ t[1] # 0)
    /\ agent.doing # NoTurn => typed = <<>> /\ <<agent.doing[1], 0>> \in contents[agent.session]
    /\ \A f \in ForkIds : fs[f] # NoFork => <<fs[f].answer, f>> \in contents[f]

\* When the agent is calm: whenever nothing is unsettled, and while a prompt is typed.
CalmKept(turns, fs, m, mv) ==
    /\ ~Moving(m) /\ Late(fs) = {} => Calm(turns)
    /\ m.switching # NoSwitch /\ (m.step = "committed" \/ mv.at \in {"draining", "failed"})
        => Calm(turns)
    /\ sending # NoTurn => Calm(turns) /\ ~Answered(turns, sending[1])

\* The session of a switch may be asked the next answer, once the round takes its turn.
SwitchGood(turns, fs, m) ==
    m.switching # NoSwitch /\ m.step # "committed" =>
        LET f == m.switching.fork
            q == fs[f].answer
        IN
        /\ ~Answered(turns, q)
        /\ early \/ /\ \A t \in contents[f] : TurnGood(turns, t) \/ t = <<q, f>>
                    /\ Kickoff \in contents[f] => turns \subseteq contents[f]

\* The session that a settling leads to may be asked the next answer.
LateGood(turns, fs, p) ==
    agent.hooks = "heard" =>
        \A f \in Late(fs) :
            /\ early \/ Good(turns, contents[Target(fs, f, p, turns)])
            /\ p[fs[f].answer] = f /\ Answered(turns, fs[f].answer) => <<fs[f].answer, f>> \in turns

\* A settling keeps to the fork whose turn the round took, and goes where one that started now
\* would.
SettleGood(turns, fs, p, m) ==
    m.settling # NoSettling =>
        LET f == m.settling.fork IN
        /\ m.settling.to = f => <<fs[f].answer, f>> \in turns
        /\ agent.hooks = "heard" => m.settling.to = Target(fs, f, p, turns)

\* All of it.
Meets(turns, fs, p, m, mv) ==
    /\ WorldKept(fs) /\ CalmKept(turns, fs, m, mv)
    /\ SwitchGood(turns, fs, m) /\ LateGood(turns, fs, p) /\ SettleGood(turns, fs, p, m)

\* An agent that is not being moved, while a fork is left that it may resume, leaves no answer
\* waiting: run-ahead settles before it sends a prompt.
OutKept(rd, fs, m) == agent.hooks = "heard" /\ ~Moving(m) /\ Late(fs) # {} => rd.out = 0

\* Where the reviewer knows its agent again, this is inductive together with Inv and PathKept.
MeetsInv == Meets(round.taken, forks, path, me, move) /\ OutKept(round, forks, me)

-----------------------------------------------------------------------------
(* Small facts. *)

\* The bounds of the model are numbers.
LEMMA Bounds ==
    /\ MaxForks \in Nat /\ MaxForks > 0 /\ MaxAnswers \in Nat /\ MaxAttempts \in Nat
    /\ MaxReopens \in Nat /\ MayRestart \in BOOLEAN /\ KnownAgain \in BOOLEAN
BY RunAheadAssumption

\* What holds where the answer q's attempt a is about to be held or sent.
Ready(rd, fs, p, m, mv, q, a) ==
    /\ Types(rd, fs, p, m, NoTurn, mv)
    /\ RoundKept(rd) /\ RecordsKept(fs) /\ OneLate(fs) /\ PathsKept(rd, fs, p)
    /\ SessionsKept(fs, m, mv)
    /\ SwitchKept(rd, fs, m, mv) /\ SettleKept(rd, fs, p, m, mv) /\ MoveKept(m, mv)
    /\ m.taken = 0 /\ m.finishing = 0 /\ m.step = "idle"
    /\ ~Moving(m) => m.held = NoTurn
    /\ q \in Answers /\ a \in 1 .. rd.attempt
    /\ Asked(sending, rd) /\ Asked(agent.doing, rd)
    /\ sending # NoTurn => agent.doing[2] < sending[2]
    /\ m.access \in {0, rd.attempt} \/ m.access > MaxAttempts
    /\ a = rd.attempt => Fresh(rd)
    /\ rd.out # 0 => rd.out = q /\ rd.attempt = a

\* The fork to settle is the one that is unsettled.
LEMMA MinOfLate ==
    ASSUME NEW fs, OneLate(fs), NEW m, m.switching = NoSwitch, Late(fs) # {}
    PROVE  /\ Unsettled(fs, m) = Late(fs)
           /\ Min(Unsettled(fs, m)) \in Late(fs)
           /\ Late(fs) = {Min(Unsettled(fs, m))}
<1>1. Unsettled(fs, m) = Late(fs)
  BY RunAheadAssumption DEF Unsettled, Late, NoSwitch, ForkIds
<1>2. PICK f \in Late(fs) : TRUE
  OBVIOUS
<1>3. Late(fs) = {f}
  BY <1>2 DEF OneLate
<1>4. \E x \in {f} : \A y \in {f} : x <= y
  BY <1>2 DEF Late, ForkIds
<1>5. Min({f}) = f
  BY <1>4 DEF Min
<1> QED  BY <1>1, <1>3, <1>5

\* A switch in hand is of a late fork.
LEMMA MovingFork ==
    ASSUME NEW rd, NEW fs, NEW p, NEW m, NEW mv, NEW qu, Types(rd, fs, p, m, qu, mv),
           SwitchKept(rd, fs, m, mv), SettleKept(rd, fs, p, m, mv)
    PROVE  /\ m.switching # NoSwitch => m.switching \in Switches /\ m.switching.fork \in Late(fs)
           /\ m.settling # NoSettling => m.settling \in Settlings /\ m.settling.fork \in Late(fs)
<1>1. m.switching # NoSwitch => m.switching \in Switches /\ m.switching.fork \in ForkIds
  BY DEF Types, Reviewers, Switches
<1>2. m.settling # NoSettling => m.settling \in Settlings /\ m.settling.fork \in ForkIds
  BY DEF Types, Reviewers, Settlings
<1> QED  BY <1>1, <1>2 DEF SwitchKept, SettleKept, Late, IsUnsettled

\* What the agent runs or is told to resume is a session.
LEMMA RunningTyped ==
    ASSUME WorldTypes PROVE Running \subseteq Sessions
<1>1. Range(typed) \subseteq Sessions
  BY DEF WorldTypes, Range
<1> QED  BY <1>1 DEF WorldTypes, Runs, Running

\* Where no thread moves the agent, a settling of a late fork may start.
SettleReady(rd, fs, p, m, qu, f) ==
    /\ Types(rd, fs, p, m, qu, NoMove)
    /\ RoundKept(rd) /\ RecordsKept(fs) /\ OneLate(fs) /\ PathsKept(rd, fs, p)
    /\ SessionsKept(fs, m, NoMove)
    /\ f \in Late(fs) /\ ~Moving(m)
    /\ m.taken = 0 /\ m.finishing = 0 /\ m.step = "idle"

\* A settling goes to the fork's session or to the one it is of.
LEMMA TargetTyped ==
    ASSUME NEW rd, NEW fs \in [ForkIds -> Records], NEW p, NEW f \in ForkIds
    PROVE  Target(fs, f, p, rd.taken) \in {f, fs[f].from} \cap Sessions
<1>1. f \in Sessions /\ fs[f].from \in Sessions
  BY RunAheadAssumption DEF ForkIds, Sessions, NewSession, Records
<1> QED  BY <1>1 DEF Target

\* The round that took the turn of a fork that is not settled settles the agent on it.
LEMMA TookIsTarget ==
    ASSUME NEW rd, NEW fs, NEW p, NEW f \in Late(fs), PathsKept(rd, fs, p), Took(rd, f)
    PROVE  Target(fs, f, p, rd.taken) = f
<1>1. PICK q \in Answers : <<q, f>> \in rd.taken
  BY DEF Took
<1>2. p[q] = f
  BY <1>1 DEF PathsKept, Late, IsUnsettled
<1>3. <<q, f>>[1] = q
  OBVIOUS
<1>4. RoundTook(f, p, rd.taken)
  BY <1>1, <1>2, <1>3 DEF RoundTook
<1> QED  BY <1>4 DEF Target

\* What holds once the settling of the fork f, by the reviewer m, started as s.
SettleStarted(rd, fs, p, m, qu, f, s, mv) ==
    /\ Types(rd, fs, p, s, qu, mv)
    /\ SessionsKept(fs, s, mv)
    /\ SwitchKept(rd, fs, s, mv) /\ SettleKept(rd, fs, p, s, mv) /\ MoveKept(s, mv)
    /\ s.taken = 0 /\ s.finishing = 0 /\ Moving(s)
    /\ s.held = m.held /\ s.pending = m.pending /\ s.access = m.access
    /\ s.switching = NoSwitch /\ s.erasing = m.erasing
    /\ s.settling.fork = f /\ s.settling.to = Target(fs, f, p, rd.taken)
    /\ mv.at = "draining"

-----------------------------------------------------------------------------
(* Settlings, and forks that are left. *)

\* A settling that starts keeps the invariant.
LEMMA SettleStarts ==
    ASSUME NEW rd, NEW fs, NEW p, NEW m, NEW qu, NEW f, NEW s, NEW mv,
           WorldTypes, SettleReady(rd, fs, p, m, qu, f),
           \/ s = Settling(m, fs, f, p, rd.taken, TRUE)
           \/ s = Settling(m, fs, f, p, rd.taken, FALSE),
           mv = Draining(s.settling.to)
    PROVE  SettleStarted(rd, fs, p, m, qu, f, s, mv)
<1> DEFINE to == Target(fs, f, p, rd.taken)
           x == s.settling
<1>0. /\ s = [m EXCEPT !.settling = [fork |-> f, to |-> to, unasked |-> TRUE]]
         \/ s = [m EXCEPT !.settling = [fork |-> f, to |-> to, unasked |-> FALSE]]
      /\ m.settling = NoSettling /\ m.switching = NoSwitch /\ m \in Reviewers
  BY DEF Settling, SettleReady, Moving, Types
<1>1. m \in Reviewers /\ fs \in [ForkIds -> Records] /\ f \in ForkIds /\ IsUnsettled(fs[f])
  BY DEF SettleReady, Types, Late
<1>2. to \in {f, fs[f].from} /\ to \in Sessions
  BY <1>1, TargetTyped
<1>3. \A u \in BOOLEAN : LET y == [fork |-> f, to |-> to, unasked |-> u] IN
        y \in Settlings /\ y # NoSettling /\ y.fork = f /\ y.to = to
  BY <1>1, <1>2, RunAheadAssumption DEF Settlings, NoSettling, ForkIds
<1>4. /\ s \in Reviewers /\ x \in Settlings /\ x # NoSettling /\ x.fork = f /\ x.to = to
      /\ s.switching = m.switching /\ s.taken = m.taken
      /\ s.finishing = m.finishing /\ s.step = m.step /\ s.erasing = m.erasing
      /\ s.held = m.held /\ s.pending = m.pending /\ s.access = m.access
  BY <1>0, <1>3 DEF Reviewers
<1>5. m.switching = NoSwitch
  BY <1>0
<1>6. mv \in MoveSteps /\ mv # NoMove /\ mv.to = to /\ mv.at = "draining"
  BY <1>2, <1>4 DEF Draining, MoveSteps, Steps, NoMove
<1>7. Types(rd, fs, p, s, qu, mv)
  BY <1>4, <1>6 DEF SettleReady, Types
<1>8. \A g \in {to} \cap ForkIds : Resumable(fs[g])
  <2>1. fs[f] # NoFork
    BY <1>1 DEF IsUnsettled, NoFork
  <2>2. Resumable(fs[f])
    BY <1>1, <2>1 DEF IsUnsettled, IsAgentSession, Resumable
  <2>3. fs[f].from \in ForkIds => Resumable(fs[fs[f].from])
    BY <1>1, <2>1 DEF SettleReady, RecordsKept, IsAgentSession, Followed, Resumable
  <2> QED  BY <1>2, <2>2, <2>3
<1>9. SessionsKept(fs, s, mv)
  BY <1>4, <1>6, <1>8 DEF SettleReady, SessionsKept
<1>10. SwitchKept(rd, fs, s, mv)
  BY <1>4, <1>5 DEF SwitchKept
<1>11. to # f => ~Took(rd, f)
  BY TookIsTarget DEF SettleReady
<1>12. SettleKept(rd, fs, p, s, mv)
  BY <1>1, <1>2, <1>4, <1>6, <1>11 DEF SettleKept
<1>13. MoveKept(s, mv)
  BY <1>3, <1>4, <1>6 DEF MoveKept, Moving, SettleReady
<1>14. Moving(s)
  BY <1>3, <1>4 DEF Moving
<1> QED  BY <1>4, <1>5, <1>6, <1>7, <1>9, <1>10, <1>12, <1>13, <1>14 DEF SettleReady, SettleStarted

\* What holds once the late fork f among fs left the agent for good.
LateLeft(rd, fs, p, m2, f, fs2) ==
    /\ fs2 \in [ForkIds -> Records] /\ Late(fs2) = {}
    /\ \A g \in ForkIds : fs2[g].answer = fs[g].answer /\ fs2[g].from = fs[g].from
    /\ \A g \in ForkIds \ {f} : fs2[g] = fs[g]
    /\ RecordsKept(fs2) /\ OneLate(fs2) /\ PathsKept(rd, fs2, p)
    /\ SessionsKept(fs2, m2, NoMove)

\* A late fork that the agent leaves, or never ran, is discarded: no fork is late any more.
LEMMA LateLeaves ==
    ASSUME NEW rd, NEW fs \in [ForkIds -> Records], NEW p \in [Answers -> 0 .. MaxForks],
           NEW m, NEW m2, NEW mv, NEW f \in Late(fs),
           NEW c \in {"restarted", "undone", "none"}, NEW fs2,
           fs2 = Discard(Continue(fs, f, c), {f}),
           RecordsKept(fs), OneLate(fs), PathsKept(rd, fs, p), SessionsKept(fs, m, mv),
           f \notin Runs, c # "restarted" => ~Took(rd, f),
           m2.erasing = m.erasing \cup {f}, m.erasing \subseteq ForkIds, WorldTypes
    PROVE  LateLeft(rd, fs, p, m2, f, fs2)
<1> DEFINE r == [fs[f] EXCEPT !.continued = c, !.discarded = TRUE, !.turn = FALSE]
<1>1. f \in ForkIds /\ IsUnsettled(fs[f]) /\ fs[f] \in Records /\ fs[f] # NoFork
  BY DEF Late, IsUnsettled, NoFork
<1>2. ~fs[f].discarded
  BY <1>1 DEF RecordsKept, IsUnsettled, IsAgentSession
<1>3. /\ r \in Records /\ r.continued = c /\ r.discarded /\ r.answer = fs[f].answer
      /\ r.from = fs[f].from
  BY <1>1 DEF Records
<1>4. r # NoFork
  BY <1>3 DEF NoFork
<1>5. Continue(fs, f, c) = [fs EXCEPT ![f] = [fs[f] EXCEPT !.continued = c]]
  BY <1>1 DEF Continue
<1>6. fs2 = [fs EXCEPT ![f] = r]
  <2>1. ~[fs[f] EXCEPT !.continued = c].discarded
    BY <1>1, <1>2 DEF Records
  <2>2. ~IsAgentSession([fs[f] EXCEPT !.continued = c])
    BY <1>1 DEF Records, IsAgentSession
  <2>3. [[fs[f] EXCEPT !.continued = c] EXCEPT !.discarded = TRUE, !.turn = FALSE] = r
    BY <1>1 DEF Records
  <2>4. Continue(fs, f, c)[f] = [fs[f] EXCEPT !.continued = c]
    BY <1>1, <1>5
  <2>5. \A g \in ForkIds \ {f} : Continue(fs, f, c)[g] = fs[g]
    BY <1>1, <1>5
  <2>6. fs2[f] = r
    BY <1>1, <2>1, <2>2, <2>3, <2>4 DEF Discard
  <2>7. \A g \in ForkIds \ {f} : fs2[g] = fs[g]
    BY <2>5 DEF Discard
  <2>8. fs2 = [g \in ForkIds |-> fs2[g]]
    BY DEF Discard
  <2> QED  BY <1>1, <2>6, <2>7, <2>8
<1> HIDE DEF r
<1>7. fs2 \in [ForkIds -> Records] /\ fs2[f] = r /\ \A g \in ForkIds \ {f} : fs2[g] = fs[g]
  BY <1>1, <1>3, <1>6
<1>8. \A g \in ForkIds : fs2[g].answer = fs[g].answer /\ fs2[g].from = fs[g].from
  BY <1>3, <1>7
<1>9. Late(fs2) = {}
  <2>1. ~IsUnsettled(r)
    BY <1>3 DEF IsUnsettled
  <2>2. \A g \in ForkIds \ {f} : ~IsUnsettled(fs[g])
    BY <1>1 DEF OneLate, Late
  <2> QED  BY <1>7, <2>1, <2>2 DEF Late
<1>10. RecordsKept(fs2)
  <2>1. \A g \in ForkIds : fs2[g] # NoFork => fs[g] # NoFork
    BY <1>1, <1>7
  <2>2. ~IsAgentSession(r) /\ fs[f].continued # "switched"
    BY <1>1, <1>3 DEF IsAgentSession, IsUnsettled
  <2>3. ASSUME NEW g \in ForkIds, fs2[g] # NoFork
        PROVE  /\ fs2[g].answer # 0 /\ fs2[g].from # g
               /\ fs2[g].from \in ForkIds => Followed(fs2[fs2[g].from])
    <3>1. /\ fs[g].answer # 0 /\ fs[g].from # g
          /\ fs[g].from \in ForkIds => Followed(fs[fs[g].from])
      BY <2>1, <2>3 DEF RecordsKept
    <3>2. Followed(fs[f]) => Followed(r)
      BY <1>4, <2>2 DEF Followed
    <3> QED  BY <1>7, <1>8, <3>1, <3>2
  <2>4. \A g \in ForkIds : fs2[g] # NoFork /\ IsAgentSession(fs2[g]) => ~fs2[g].discarded
    BY <1>1, <1>7, <2>1, <2>2 DEF RecordsKept
  <2> QED  BY <2>3, <2>4 DEF RecordsKept
<1>11. PathsKept(rd, fs2, p)
  <2>1. fs[f].continued \notin {"switched", "restarted"}
    BY <1>1 DEF IsUnsettled
  <2>2. \A q \in Answers : <<q, f>> \in rd.taken => r.continued = "restarted"
    BY <1>3 DEF Took
  <2>3. \A g \in Late(fs) : g = f
    BY DEF OneLate
  <2>4. \A q \in Answers : p[q] # 0 => fs2[p[q]].answer = q
    <3>1. \A q \in Answers : p[q] # 0 => p[q] \in ForkIds
      BY RunAheadAssumption DEF ForkIds
    <3> QED  BY <1>8, <3>1 DEF PathsKept
  <2>5. ASSUME NEW g \in ForkIds, NEW q \in Answers, <<q, g>> \in rd.taken
        PROVE  /\ fs2[g].answer = q
               /\ \/ fs2[g].continued \in {"switched", "restarted"}
                  \/ g \in Late(fs2) /\ p[q] = g
    <3>1. /\ fs[g].answer = q
          /\ fs[g].continued \in {"switched", "restarted"} \/ (g \in Late(fs) /\ p[q] = g)
      BY <1>1, <2>5 DEF PathsKept
    <3>2. CASE g = f
      BY <1>1, <1>7, <1>8, <2>2, <2>5, <3>1, <3>2
    <3>3. CASE g # f
      BY <1>7, <1>8, <2>3, <3>1, <3>3
    <3> QED  BY <3>2, <3>3
  <2> QED  BY <2>4, <2>5 DEF PathsKept
<1>12. SessionsKept(fs2, m2, NoMove)
  <2>1. NoMove.to \notin ForkIds
    BY RunAheadAssumption DEF NoMove, ForkIds
  <2>2. ASSUME NEW s \in Running \cap ForkIds PROVE Resumable(fs2[s])
    <3>1. Resumable(fs[s])
      BY <2>2 DEF SessionsKept
    <3>2. s = f => early
      BY <2>2 DEF Runs
    <3> QED  BY <1>4, <1>7, <3>1, <3>2 DEF Resumable
  <2> QED  BY <1>1, <1>3, <1>7, <2>1, <2>2, ZenonT(30) DEF SessionsKept, WorldTypes
<1> QED  BY <1>7, <1>8, <1>9, <1>10, <1>11, <1>12 DEF OneLate, LateLeft

\* An agent without the hooks is a new one, in its own session.
LEMMA NobodyRunsWithoutHooks ==
    ASSUME NEW fs, NEW m, NEW mv, SessionsKept(fs, m, mv), agent.hooks = "none"
    PROVE  Runs \subseteq {NewSession} /\ NewSession \notin ForkIds
<1>1. typed = <<>> /\ agent.session = NewSession
  BY DEF SessionsKept
<1>2. Range(typed) = {}
  BY <1>1 DEF Range
<1> QED  BY <1>1, <1>2, RunAheadAssumption DEF Runs, Running, NewSession, ForkIds

-----------------------------------------------------------------------------
(* Forks whose part stays the same. *)

\* The forks fs became fs2, which each play the part they played.
SameRoles(fs, fs2) ==
    /\ fs \in [ForkIds -> Records] /\ fs2 \in [ForkIds -> Records]
    /\ \A f \in ForkIds :
        /\ fs2[f].answer = fs[f].answer /\ fs2[f].from = fs[f].from
        /\ fs2[f].continued = fs[f].continued
        /\ fs[f].discarded => fs2[f].discarded
        /\ fs2[f].discarded => fs[f].discarded \/ ~IsAgentSession(fs[f])
        /\ fs2[f] = NoFork <=> fs[f] = NoFork

\* What holds of the forks fs2 as of fs.
RolesKept(rd, fs, p, m, mv, fs2) ==
    /\ Late(fs2) = Late(fs)
    /\ RecordsKept(fs) => RecordsKept(fs2)
    /\ OneLate(fs) => OneLate(fs2)
    /\ PathsKept(rd, fs, p) => PathsKept(rd, fs2, p)
    /\ SwitchKept(rd, fs, m, mv) => SwitchKept(rd, fs2, m, mv)
    /\ SettleKept(rd, fs, p, m, mv) => SettleKept(rd, fs2, p, m, mv)
    /\ SessionsKept(fs, m, mv) => SessionsKept(fs2, m, mv)

\* Forks that play the same parts keep what holds of them.
LEMMA SameRolesKeep ==
    ASSUME NEW rd, NEW fs, NEW p \in [Answers -> 0 .. MaxForks], NEW m, NEW mv, NEW fs2,
           SameRoles(fs, fs2), m \in Reviewers, WorldTypes
    PROVE  RolesKept(rd, fs, p, m, mv, fs2)
<1>1. \A f \in ForkIds :
        /\ IsUnsettled(fs2[f]) <=> IsUnsettled(fs[f])
        /\ IsAgentSession(fs2[f]) <=> IsAgentSession(fs[f])
  BY DEF SameRoles, IsUnsettled, IsAgentSession
<1>2. Late(fs2) = Late(fs)
  BY <1>1 DEF Late
<1>3. RecordsKept(fs) => RecordsKept(fs2)
  <2>1. \A f \in ForkIds : Followed(fs[f]) => Followed(fs2[f])
    BY DEF SameRoles, Followed
  <2> QED  BY <1>1, <2>1 DEF RecordsKept, SameRoles
<1>4. OneLate(fs) => OneLate(fs2)
  BY <1>2 DEF OneLate
<1>5. PathsKept(rd, fs, p) => PathsKept(rd, fs2, p)
  <2>1. \A q \in Answers : p[q] # 0 => p[q] \in ForkIds
    BY Bounds DEF ForkIds
  <2>2. \A q \in Answers : p[q] # 0 => fs2[p[q]].answer = fs[p[q]].answer
    BY <2>1 DEF SameRoles
  <2> QED  BY <1>2, <2>2 DEF PathsKept, SameRoles
<1>6. SwitchKept(rd, fs, m, mv) => SwitchKept(rd, fs2, m, mv)
  <2>1. m.switching # NoSwitch => m.switching.fork \in ForkIds
    BY DEF Reviewers, Switches
  <2> QED  BY <2>1 DEF SwitchKept, SameRoles
<1>7. SettleKept(rd, fs, p, m, mv) => SettleKept(rd, fs2, p, m, mv)
  <2>1. m.settling # NoSettling => m.settling.fork \in ForkIds
    BY DEF Reviewers, Settlings
  <2> QED  BY <1>1, <2>1 DEF SettleKept, SameRoles
<1>8. SessionsKept(fs, m, mv) => SessionsKept(fs2, m, mv)
  <2>1. m.erasing \cup erased \subseteq ForkIds
    BY DEF Reviewers, WorldTypes
  <2>2. \A f \in ForkIds : Resumable(fs[f]) => Resumable(fs2[f])
    BY <1>1 DEF SameRoles, Resumable
  <2> QED  BY <1>1, <2>1, <2>2 DEF SessionsKept, SameRoles
<1> QED  BY <1>2, <1>3, <1>4, <1>5, <1>6, <1>7, <1>8 DEF RolesKept

\* Discarding forks that are not the agent's changes no part.
LEMMA DiscardRoles ==
    ASSUME NEW fs \in [ForkIds -> Records], NEW gone,
           \A f \in gone \cap ForkIds : fs[f] # NoFork
    PROVE  /\ SameRoles(fs, Discard(fs, gone))
           /\ \A f \in ForkIds : f \notin gone => Discard(fs, gone)[f] = fs[f]
           /\ \A f \in gone \cap ForkIds :
                ~IsAgentSession(fs[f]) => Discard(fs, gone)[f].discarded
<1>1. ASSUME NEW f \in ForkIds
      PROVE  LET r == [fs[f] EXCEPT !.discarded = TRUE, !.turn = FALSE] IN
             /\ r \in Records /\ r.answer = fs[f].answer /\ r.from = fs[f].from
             /\ r.continued = fs[f].continued /\ r.discarded /\ r # NoFork
  BY DEF Records, NoFork
<1>2. \A f \in ForkIds : Discard(fs, gone)[f]
        = IF f \in gone /\ ~fs[f].discarded /\ ~IsAgentSession(fs[f])
          THEN [fs[f] EXCEPT !.discarded = TRUE, !.turn = FALSE] ELSE fs[f]
  BY DEF Discard
<1>3. \A f \in ForkIds : Discard(fs, gone)[f] \in Records
  BY <1>1, <1>2
<1>4. Discard(fs, gone) \in [ForkIds -> Records]
  BY <1>3 DEF Discard
<1>5. ASSUME NEW f \in ForkIds, f \in gone, ~fs[f].discarded, ~IsAgentSession(fs[f])
      PROVE  /\ Discard(fs, gone)[f].answer = fs[f].answer
             /\ Discard(fs, gone)[f].from = fs[f].from
             /\ Discard(fs, gone)[f].continued = fs[f].continued
             /\ Discard(fs, gone)[f].discarded /\ Discard(fs, gone)[f] # NoFork /\ fs[f] # NoFork
  BY <1>1, <1>2, <1>5
<1>6. ASSUME NEW f \in ForkIds, ~(f \in gone /\ ~fs[f].discarded /\ ~IsAgentSession(fs[f]))
      PROVE  Discard(fs, gone)[f] = fs[f]
  BY <1>2, <1>6
<1>7. SameRoles(fs, Discard(fs, gone))
  BY <1>4, <1>5, <1>6 DEF SameRoles
<1> QED  BY <1>5, <1>6, <1>7

-----------------------------------------------------------------------------
(* Prompts that are held back or queued. *)

\* Holding a prompt back, or queueing it, keeps the invariant.
LEMMA HoldOrSendKeeps ==
    ASSUME NEW rd, NEW fs, NEW p, NEW m, NEW mv, NEW q, NEW a,
           WorldTypes, Ready(rd, fs, p, m, mv, q, a), Moving(m) => mv = move,
           HoldOrSend(fs, m, p, rd.taken, q, a)
    PROVE  RunAheadInv(rd, forks', p, me', queue', move')
<1> DEFINE waits == [m EXCEPT !.pending = q, !.held = <<q, a>>]
           sends == [m EXCEPT !.pending = q]
           f == Min(Unsettled(fs, m))
<1>1. /\ m \in Reviewers /\ fs \in [ForkIds -> Records] /\ rd \in Rounds
      /\ q \in Answers /\ a \in 1 .. rd.attempt /\ <<q, a>> \in Pairs /\ NoTurn \in Pairs
      /\ q \in 0 .. MaxAnswers /\ rd.attempt \in 1 .. MaxAttempts /\ <<q, a>> # NoTurn
  BY RunAheadAssumption DEF Ready, Types, Rounds, Answers, Pairs, NoTurn
<1>2. /\ waits \in Reviewers /\ waits.switching = m.switching /\ waits.settling = m.settling
      /\ waits.taken = m.taken /\ waits.finishing = m.finishing /\ waits.step = m.step
      /\ waits.erasing = m.erasing /\ waits.held = <<q, a>> /\ waits.pending = q
      /\ waits.access = m.access
  BY <1>1 DEF Reviewers
<1>3. /\ sends \in Reviewers /\ sends.switching = m.switching /\ sends.settling = m.settling
      /\ sends.taken = m.taken /\ sends.finishing = m.finishing /\ sends.step = m.step
      /\ sends.erasing = m.erasing /\ sends.held = m.held /\ sends.pending = q
      /\ sends.access = m.access
  BY <1>1 DEF Reviewers
<1> HIDE DEF waits, sends
<1>4. Asked(<<q, a>>, rd) /\ Asked(NoTurn, rd)
  BY <1>1 DEF Asked, Answers
<1>5. ASSUME Moving(m), me' = waits, forks' = fs, queue' = NoTurn, move' = move
      PROVE  RunAheadInv(rd, forks', p, me', queue', move')
  <2>1. Types(rd, fs, p, waits, NoTurn, move)
    BY <1>1, <1>2, <1>5 DEF Ready, Types
  <2>2. SessionsKept(fs, waits, move)
    BY <1>2, <1>5 DEF Ready, SessionsKept
  <2>3. TakenKept(rd, fs, waits) /\ FinishingKept(rd, fs, waits, NoTurn)
    BY <1>2 DEF Ready, TakenKept, FinishingKept
  <2>4. SwitchKept(rd, fs, waits, move)
    BY <1>2, <1>5 DEF Ready, SwitchKept
  <2>5. SettleKept(rd, fs, p, waits, move)
    BY <1>2, <1>5 DEF Ready, SettleKept
  <2>6. MoveKept(waits, move)
    BY <1>2, <1>5 DEF Ready, MoveKept, Moving
  <2>7. AttemptsKept(rd, fs, waits, NoTurn)
    BY <1>1, <1>2, <1>4, <1>5 DEF Ready, AttemptsKept, Moving, NoTurn
  <2> QED  BY <1>5, <2>1, <2>2, <2>3, <2>4, <2>5, <2>6, <2>7 DEF Ready, RunAheadInv
<1>6. ASSUME ~Moving(m)
      PROVE  /\ mv = NoMove /\ m.switching = NoSwitch /\ m.settling = NoSettling
             /\ m.held = NoTurn
  BY <1>6 DEF Ready, MoveKept, Moving
<1>7. ASSUME ~Moving(m), Unsettled(fs, m) # {},
             me' = Settling(waits, fs, f, p, rd.taken, FALSE),
             move' = Draining(me'.settling.to), forks' = fs, queue' = NoTurn
      PROVE  RunAheadInv(rd, forks', p, me', queue', move')
  <2>1. f \in Late(fs)
    BY <1>6, <1>7, MinOfLate, RunAheadAssumption DEF Ready, Unsettled, Late, NoSwitch, ForkIds
  <2>2. Types(rd, fs, p, waits, NoTurn, NoMove)
    BY <1>1, <1>2, <1>6, <1>7 DEF Ready, Types
  <2>3. SessionsKept(fs, waits, NoMove)
    BY <1>2, <1>6, <1>7 DEF Ready, SessionsKept
  <2>4. SettleReady(rd, fs, p, waits, NoTurn, f)
    BY <1>2, <1>6, <1>7, <2>1, <2>2, <2>3 DEF SettleReady, Ready, Moving
  <2>5. /\ Types(rd, fs, p, me', NoTurn, move')
        /\ SessionsKept(fs, me', move')
        /\ SwitchKept(rd, fs, me', move') /\ SettleKept(rd, fs, p, me', move')
        /\ MoveKept(me', move')
        /\ me'.taken = 0 /\ me'.finishing = 0 /\ Moving(me')
        /\ me'.held = <<q, a>> /\ me'.pending = q /\ me'.access = m.access
    <3>1. \/ me' = Settling(waits, fs, f, p, rd.taken, TRUE)
          \/ me' = Settling(waits, fs, f, p, rd.taken, FALSE)
      BY <1>7
    <3>2. move' = Draining(me'.settling.to)
      BY <1>7
    <3>3. SettleStarted(rd, fs, p, waits, NoTurn, f, me', move')
      BY <2>4, <3>1, <3>2, SettleStarts
    <3> QED  BY <1>2, <3>3 DEF SettleStarted
  <2>6. AttemptsKept(rd, fs, me', NoTurn)
    BY <1>1, <1>4, <2>5 DEF Ready, AttemptsKept, NoTurn
  <2>7. TakenKept(rd, fs, me') /\ FinishingKept(rd, fs, me', NoTurn)
    BY <2>5 DEF TakenKept, FinishingKept
  <2> QED  BY <1>7, <2>5, <2>6, <2>7 DEF Ready, RunAheadInv
<1>8. ASSUME ~Moving(m), me'.access = m.access, me'.held = NoTurn,
             queue' = <<q, a>>, move' = NoMove, ~Moving(me')
      PROVE  AttemptsKept(rd, forks', me', queue')
  BY <1>1, <1>4, <1>8 DEF Ready, AttemptsKept, NoTurn
<1>9. ASSUME ~Moving(m), me' = sends, forks' = fs, queue' = <<q, a>>, move' = NoMove
      PROVE  RunAheadInv(rd, forks', p, me', queue', move')
  <2>1. ~Moving(sends) /\ mv = NoMove /\ m.held = NoTurn
    BY <1>3, <1>6, <1>9 DEF Moving
  <2>2. Types(rd, fs, p, sends, <<q, a>>, NoMove)
    BY <1>1, <1>3, <2>1 DEF Ready, Types
  <2>3. SessionsKept(fs, sends, NoMove)
    BY <1>3, <2>1 DEF Ready, SessionsKept
  <2>4. TakenKept(rd, fs, sends) /\ FinishingKept(rd, fs, sends, <<q, a>>)
    BY <1>3 DEF Ready, TakenKept, FinishingKept
  <2>5. SwitchKept(rd, fs, sends, NoMove) /\ SettleKept(rd, fs, p, sends, NoMove)
    BY <2>1 DEF SwitchKept, SettleKept, Moving
  <2>6. MoveKept(sends, NoMove)
    BY <1>3, <2>1 DEF Ready, MoveKept, Moving, NoMove
  <2>7. AttemptsKept(rd, fs, sends, <<q, a>>)
    BY <1>3, <1>8, <1>9, <2>1
  <2> QED  BY <1>9, <2>2, <2>3, <2>4, <2>5, <2>6, <2>7 DEF Ready, RunAheadInv
<1>10. ASSUME ~Moving(m), Unsettled(fs, m) # {}, agent.hooks = "none",
              me' = Erasing(sends, {f}), forks' = Restarted(fs, f), queue' = <<q, a>>,
              move' = NoMove
       PROVE  RunAheadInv(rd, forks', p, me', queue', move')
  <2> DEFINE n == Erasing(sends, {f})
  <2>1. f \in Late(fs) /\ f \in ForkIds
    BY <1>6, <1>10, MinOfLate, RunAheadAssumption DEF Ready, Unsettled, Late, NoSwitch, ForkIds
  <2>2. /\ n \in Reviewers /\ n.switching = NoSwitch /\ n.settling = NoSettling
        /\ n.taken = 0 /\ n.finishing = 0 /\ n.step = "idle" /\ n.held = NoTurn
        /\ n.access = m.access /\ n.erasing = sends.erasing \cup {f} /\ sends.erasing \subseteq ForkIds
    BY <1>3, <1>6, <1>10, <2>1 DEF Erasing, Reviewers, Ready
  <2>3. SessionsKept(fs, sends, mv)
    BY <1>3 DEF Ready, SessionsKept
  <2>4. f \notin Runs
    BY <1>10, <2>1, <2>3, NobodyRunsWithoutHooks
  <2>5. p \in [Answers -> 0 .. MaxForks]
    BY DEF Ready, Types
  <2>6. LateLeft(rd, fs, p, n, f, forks')
    BY <1>1, <1>10, <2>1, <2>2, <2>3, <2>4, <2>5, LateLeaves DEF Ready, Restarted
  <2> HIDE DEF n
  <2>7. Types(rd, forks', p, n, <<q, a>>, NoMove)
    BY <1>1, <1>6, <1>10, <2>2, <2>6 DEF Ready, Types, LateLeft
  <2>8. ~Moving(n)
    BY <2>2 DEF Moving
  <2>9. TakenKept(rd, forks', n) /\ FinishingKept(rd, forks', n, <<q, a>>)
    BY <2>2 DEF TakenKept, FinishingKept
  <2>10. SwitchKept(rd, forks', n, NoMove) /\ SettleKept(rd, forks', p, n, NoMove)
    BY <2>2 DEF SwitchKept, SettleKept
  <2>11. MoveKept(n, NoMove)
    BY <2>2 DEF MoveKept, NoMove
  <2>12. AttemptsKept(rd, forks', n, <<q, a>>)
    BY <1>8, <1>10, <2>2, <2>8 DEF n
  <2> QED
    BY <1>10, <2>6, <2>7, <2>9, <2>10, <2>11, <2>12 DEF Ready, RunAheadInv, LateLeft, n
<1> QED
  BY <1>5, <1>7, <1>9, <1>10 DEF HoldOrSend, waits, sends

\* What holds once the agent moved, before the prompt that waited for it goes out.
MovedReady(rd, fs, p, m) ==
    /\ Types(rd, fs, p, m, queue, NoMove)
    /\ RoundKept(rd) /\ RecordsKept(fs) /\ OneLate(fs) /\ PathsKept(rd, fs, p)
    /\ SessionsKept(fs, m, NoMove)
    /\ m.switching = NoSwitch /\ m.settling = NoSettling
    /\ m.taken = 0 /\ m.finishing = 0 /\ m.step = "idle"
    /\ Asked(sending, rd) /\ Asked(agent.doing, rd) /\ Asked(m.held, rd)
    /\ sending # NoTurn => agent.doing[2] < sending[2]
    /\ m.access \in {0, rd.attempt} \/ m.access > MaxAttempts
    /\ m.held # NoTurn /\ m.held[2] = rd.attempt => Fresh(rd)
    /\ Asked(queue, rd) /\ (queue[2] = rd.attempt /\ rd.attempt # 0 => Fresh(rd))
    /\ rd.out # 0 => m.held = <<rd.out, rd.attempt>> /\ m.pending = rd.out

\* So does what follows once the agent was moved.
LEMMA AfterMovedKeeps ==
    ASSUME NEW rd, NEW fs, NEW p, NEW m,
           WorldTypes, MovedReady(rd, fs, p, m), AfterMoved(fs, m, p, rd.taken)
    PROVE  RunAheadInv(rd, forks', p, me', queue', move')
<1> DEFINE free == [m EXCEPT !.held = NoTurn]
<1>1. m \in Reviewers /\ NoTurn \in Pairs /\ rd \in Rounds /\ m.held \in Pairs
  BY RunAheadAssumption DEF MovedReady, Types, Pairs, NoTurn, Reviewers
<1>2. /\ free \in Reviewers /\ free.switching = NoSwitch /\ free.settling = NoSettling
      /\ free.taken = 0 /\ free.finishing = 0 /\ free.step = "idle" /\ free.held = NoTurn
      /\ free.access = m.access /\ free.erasing = m.erasing /\ free.pending = m.pending
  BY <1>1 DEF Reviewers, MovedReady
<1> HIDE DEF free
<1>3. /\ Types(rd, fs, p, free, queue, NoMove) /\ SessionsKept(fs, free, NoMove)
      /\ SwitchKept(rd, fs, free, NoMove) /\ SettleKept(rd, fs, p, free, NoMove)
      /\ MoveKept(free, NoMove) /\ ~Moving(free)
  BY <1>1, <1>2 DEF MovedReady, Types, SessionsKept, SwitchKept, SettleKept, MoveKept, Moving,
                    NoMove
<1>4. CASE m.held # NoTurn /\ m.pending = m.held[1]
  <2>1. m.held[1] \in Answers /\ m.held[2] \in 1 .. rd.attempt
    BY <1>1, <1>4, RunAheadAssumption DEF MovedReady, Asked, Pairs, Answers, Rounds
  <2>2. rd.out # 0 => rd.out = m.held[1] /\ rd.attempt = m.held[2]
    BY <1>4 DEF MovedReady
  <2>3. Ready(rd, fs, p, free, NoMove, m.held[1], m.held[2])
    BY <1>1, <1>2, <1>3, <1>4, <2>1, <2>2 DEF Ready, MovedReady, Types
  <2>4. HoldOrSend(fs, free, p, rd.taken, m.held[1], m.held[2])
    BY <1>4 DEF AfterMoved, free
  <2> QED  BY <1>3, <2>3, <2>4, HoldOrSendKeeps
<1>5. CASE ~(m.held # NoTurn /\ m.pending = m.held[1])
  <2>1. me' = free /\ forks' = fs /\ move' = NoMove /\ queue' = queue
    BY <1>5 DEF AfterMoved, MovedReady, free
  <2>2. rd.out = 0
    BY <1>1, <1>5, RunAheadAssumption DEF MovedReady, NoTurn
  <2>3. TakenKept(rd, fs, free) /\ FinishingKept(rd, fs, free, queue)
    BY <1>2 DEF TakenKept, FinishingKept
  <2>4. AttemptsKept(rd, fs, free, queue)
    BY <1>2, <1>3 DEF MovedReady, AttemptsKept, Asked, NoTurn
  <2> QED  BY <1>3, <2>1, <2>3, <2>4 DEF RunAheadInv, MovedReady
<1> QED  BY <1>4, <1>5

\* The invariant stands while sessions grow or are deleted, as their forks were discarded.
LEMMA WorldGrows ==
    ASSUME WorldTypes', UNCHANGED <<sending, agent, typed, early>>,
           \A f \in erased' : forks'[f].discarded,
           RunAheadInv(round', forks', path', me', queue', move')
    PROVE  Inv'
<1>1. Runs' = Runs /\ Running' = Running
  BY DEF Runs, Running
<1> QED
  BY <1>1, ZenonT(60) DEF Inv, RunAheadInv, Types, RoundKept, RecordsKept, OneLate, PathsKept,
     SessionsKept, TakenKept, FinishingKept, SwitchKept, SettleKept, MoveKept, AttemptsKept,
     Fresh, Asked, Prepared, Given, Took, Late, Followed, Resumable

\* It stands while nothing it speaks of changes.
LEMMA SameWorld ==
    ASSUME WorldTypes, UNCHANGED <<sending, world>>,
           RunAheadInv(round', forks', path', me', queue', move')
    PROVE  Inv'
<1>1. WorldTypes' /\ UNCHANGED <<sending, agent, typed, erased, early>>
  BY DEF WorldTypes, world
<1>2. \A f \in erased' : forks'[f].discarded
  BY <1>1 DEF RunAheadInv, SessionsKept
<1> QED  BY <1>1, <1>2, WorldGrows

-----------------------------------------------------------------------------
(* The steps, one by one. *)

\* A round that begins.
LEMMA InitHolds == Init => Inv
<1> SUFFICES ASSUME Init PROVE Inv
  OBVIOUS
<1> USE RunAheadAssumption
<1>1. WorldTypes
  <2>1. /\ sending = NoTurn /\ agent = [session |-> 0, hooks |-> "heard", doing |-> NoTurn]
        /\ typed = <<>> /\ erased = {} /\ early = FALSE
        /\ contents = [s \in Sessions |-> IF s = 0 THEN {Kickoff} ELSE {}]
    BY DEF Init
  <2>2. 0 \in Sessions /\ NoTurn \in Pairs /\ typed \in Seq(Sessions)
    BY <2>1 DEF NoTurn, Sessions, Pairs, Turns, Kickoff, NewSession
  <2>3. contents \in [Sessions -> SUBSET Turns]
    BY <2>1 DEF Turns, Kickoff
  <2> QED  BY <2>1, <2>2, <2>3 DEF WorldTypes
<1>0. Running = {0}
  <2>1. Range(<<>>) = {}
    BY DEF Range
  <2> QED  BY <2>1 DEF Init, Running
<1>2. me \in Reviewers /\ me.switching = NoSwitch /\ me.settling = NoSettling
  BY DEF Init, Opened, Reviewers, NoTurn, Pairs
<1>3. forks \in [ForkIds -> Records] /\ Late(forks) = {}
  BY DEF Init, NoFork, Records, Sessions, Late, IsUnsettled, NewSession
<1>4. Types(round, forks, path, me, queue, move)
  BY <1>2, <1>3 DEF Init, Types, Rounds, Turns, Kickoff, NoTurn, Pairs, NoMove, MoveSteps, Steps, Sessions,
     NewSession
<1>5. RoundKept(round) /\ RecordsKept(forks) /\ OneLate(forks) /\ PathsKept(round, forks, path)
  <2>1. RoundKept(round)
    BY DEF Init, RoundKept, Kickoff
  <2>2. RecordsKept(forks) /\ OneLate(forks)
    BY <1>3 DEF Init, RecordsKept, OneLate
  <2>3. \A f \in ForkIds, q \in Answers : <<q, f>> \notin round.taken
    BY DEF Init, Kickoff, ForkIds, Answers
  <2> QED  BY <2>1, <2>2, <2>3 DEF Init, PathsKept
<1>6. SessionsKept(forks, me, move)
  BY <1>0, <1>1 DEF Init, SessionsKept, Opened, NoMove, ForkIds
<1>7. TakenKept(round, forks, me) /\ FinishingKept(round, forks, me, queue)
  BY DEF Init, TakenKept, FinishingKept, Opened
<1>8. SwitchKept(round, forks, me, move) /\ SettleKept(round, forks, path, me, move)
  BY <1>2 DEF SwitchKept, SettleKept
<1>9. MoveKept(me, move) /\ AttemptsKept(round, forks, me, queue)
  BY <1>2 DEF Init, MoveKept, AttemptsKept, Opened, NoMove, NoTurn, Asked, Moving
<1> QED
  BY <1>1, <1>4, <1>5, <1>6, <1>7, <1>8, <1>9 DEF Inv, RunAheadInv

\* A new attempt is later than every prompt and every turn of the agent under way.
LEMMA NewAttempt ==
    ASSUME Inv, NEW rd \in Rounds, rd.attempt = round.attempt + 1
    PROVE  /\ Fresh(rd) /\ Asked(sending, rd) /\ Asked(agent.doing, rd)
           /\ rd.attempt \in 1 .. rd.attempt
<1>1. /\ sending[2] \in Nat /\ agent.doing[2] \in Nat /\ round.attempt \in Nat /\ rd.attempt \in Nat
      /\ sending[1] \in Nat /\ agent.doing[1] \in Nat
  <2>1. sending \in Pairs /\ agent.doing \in Pairs
    BY DEF Inv, WorldTypes
  <2>2. \A x \in Pairs : x[1] \in Nat /\ x[2] \in Nat
    BY RunAheadAssumption DEF Pairs
  <2>3. round \in Rounds
    BY DEF Inv, RunAheadInv, Types
  <2>4. \A r \in Rounds : r.attempt \in Nat
    BY RunAheadAssumption DEF Rounds
  <2> QED  BY <2>1, <2>2, <2>3, <2>4
<1>2. Asked(sending, round) /\ Asked(agent.doing, round)
  BY DEF Inv, RunAheadInv, AttemptsKept
<1>3. Asked(sending, rd) /\ Asked(agent.doing, rd)
  BY <1>1, <1>2 DEF Asked
<1>4. sending[2] < rd.attempt /\ agent.doing[2] < rd.attempt
  <2>1. round.attempt < rd.attempt /\ 0 < rd.attempt
    BY <1>1
  <2>2. ASSUME NEW x, x[2] \in Nat, Asked(x, round)
        PROVE  x[2] < rd.attempt
    <3>1. CASE x = NoTurn
      <4>1. x[2] = 0
        BY <3>1 DEF NoTurn
      <4> QED  BY <2>1, <4>1
    <3>2. CASE x # NoTurn
      <4>1. x[2] <= round.attempt
        BY <2>2, <3>2 DEF Asked
      <4> QED  BY <1>1, <2>1, <2>2, <4>1
    <3> QED  BY <3>1, <3>2
  <2> QED  BY <1>1, <1>2, <2>2
<1> QED  BY <1>1, <1>3, <1>4 DEF Fresh

\* The reviewer m has in hand what me has, the forks it waits for and the access aside.
SameHands(m) ==
    /\ m.settling = me.settling /\ m.held = me.held /\ m.step = me.step
    /\ m.switching.fork = me.switching.fork
    /\ m.switching = NoSwitch <=> me.switching = NoSwitch

\* The round rd awaits the answer q, by an attempt that no prompt was typed for.
Awaits(rd, q) ==
    /\ rd \in Rounds /\ rd.taken = round.taken /\ RoundKept(rd)
    /\ q \in Answers /\ rd.out = q /\ Fresh(rd)
    /\ rd.attempt \in {round.attempt, round.attempt + 1}

\* An answer that no thread types a prompt for may be held or sent, by the reviewer m with
\* the forks fs and the paths p.
LEMMA ReadyToAsk ==
    ASSUME Inv, Idle, NEW rd, NEW fs, NEW p \in [Answers -> 0 .. MaxForks],
           NEW m \in Reviewers, NEW q,
           Awaits(rd, q), SameRoles(forks, fs), PathsKept(round, forks, p), SameHands(m),
           m.taken = 0, m.finishing = 0,
           m.access \in {0, rd.attempt} \/ m.access > MaxAttempts,
           \A f \in m.erasing \cup erased : fs[f].discarded
    PROVE  Ready(rd, fs, p, m, move, q, rd.attempt)
<1>1. /\ WorldTypes /\ Types(round, forks, path, me, queue, move)
      /\ me \in Reviewers /\ round \in Rounds /\ me.step = "idle" /\ m.step = "idle"
  BY DEF Inv, RunAheadInv, Types, Idle, SameHands
<1>2. RolesKept(rd, forks, p, me, move, fs)
  BY <1>1, SameRolesKeep DEF SameRoles
<1>3. Types(rd, fs, p, m, NoTurn, move)
  BY <1>1, Bounds DEF Types, Awaits, SameRoles, NoTurn, Pairs
<1>4. PathsKept(rd, fs, p)
  BY <1>2 DEF RolesKept, PathsKept, Awaits
<1>5. RecordsKept(fs) /\ OneLate(fs)
  BY <1>2 DEF Inv, RunAheadInv, RolesKept
<1>6. SessionsKept(fs, me, move)
  BY <1>2 DEF Inv, RunAheadInv, RolesKept
<1>7. SessionsKept(fs, m, move)
  BY <1>6 DEF SessionsKept
<1>8. SwitchKept(round, forks, me, move) /\ SettleKept(round, forks, path, me, move)
  BY DEF Inv, RunAheadInv
<1>9. SwitchKept(rd, forks, me, move) /\ SettleKept(rd, forks, p, me, move)
  BY <1>1, <1>8 DEF SwitchKept, SettleKept, Awaits, Took
<1>10. SwitchKept(rd, fs, m, move) /\ SettleKept(rd, fs, p, m, move)
  <2>1. SwitchKept(rd, fs, me, move) /\ SettleKept(rd, fs, p, me, move)
    BY <1>2, <1>9 DEF RolesKept
  <2> QED  BY <1>1, <2>1 DEF SwitchKept, SettleKept, SameHands
<1>11. MoveKept(m, move)
  BY <1>1 DEF Inv, RunAheadInv, MoveKept, Moving, SameHands
<1>12. ~Moving(m) => m.held = NoTurn
  BY DEF Inv, RunAheadInv, AttemptsKept, SameHands, Moving
<1>13. Asked(sending, rd) /\ Asked(agent.doing, rd)
  <2>1. Asked(sending, round) /\ Asked(agent.doing, round)
    BY DEF Inv, RunAheadInv, AttemptsKept
  <2>2. round.attempt \in Nat /\ rd.attempt \in Nat /\ sending[2] \in Nat /\ agent.doing[2] \in Nat
    BY <1>1, Bounds DEF WorldTypes, Pairs, Rounds, Awaits
  <2> QED  BY <2>1, <2>2 DEF Asked, Awaits
<1>14. rd.attempt \in 1 .. rd.attempt
  BY Bounds DEF Awaits, Fresh, Rounds
<1>15. sending # NoTurn => agent.doing[2] < sending[2]
  BY DEF Inv, RunAheadInv, AttemptsKept
<1> QED
  BY <1>1, <1>3, <1>4, <1>5, <1>7, <1>10, <1>11, <1>12, <1>13, <1>14, <1>15 DEF Ready, Awaits

\* It is held or sent as the invariant has it.
LEMMA AskKeeps ==
    ASSUME Inv, Idle, NEW fs, NEW m \in Reviewers, NEW q,
           path' \in [Answers -> 0 .. MaxForks],
           Awaits(round', q), SameRoles(forks, fs), PathsKept(round, forks, path'),
           SameHands(m), m.taken = 0, m.finishing = 0,
           m.access \in {0, round'.attempt} \/ m.access > MaxAttempts,
           \A f \in m.erasing \cup erased : fs[f].discarded,
           HoldOrSend(fs, m, path', round.taken, q, round'.attempt),
           UNCHANGED <<sending, world>>
    PROVE  Inv'
<1>1. Ready(round', fs, path', m, move, q, round'.attempt)
  BY ReadyToAsk
<1>2. WorldTypes
  BY DEF Inv
<1>3. HoldOrSend(fs, m, path', round'.taken, q, round'.attempt)
  BY DEF Awaits
<1>4. RunAheadInv(round', forks', path', me', queue', move')
  BY <1>1, <1>2, <1>3, HoldOrSendKeeps
<1> QED  BY <1>2, <1>4, SameWorld

\* The next attempt of the answer q.
LEMMA NextAttempt ==
    ASSUME Inv, NEW q \in Answers, q = round.retry, round.attempt < MaxAttempts,
           \/ round' = [round EXCEPT !.out = q, !.attempt = @ + 1]
           \/ round' = [round EXCEPT !.attempt = @ + 1] /\ round.out = q
    PROVE  Awaits(round', q) /\ round'.attempt = round.attempt + 1
<1>1. round \in Rounds /\ q \in 0 .. MaxAnswers /\ RoundKept(round)
  BY Bounds DEF Inv, RunAheadInv, Types, Answers
<1>2. round.attempt + 1 \in 0 .. MaxAttempts
  BY <1>1, Bounds DEF Rounds
<1>3. /\ round' \in Rounds /\ round'.taken = round.taken /\ round'.out = q
      /\ round'.attempt = round.attempt + 1 /\ round'.retry = round.retry
      /\ round'.made = round.made
  BY <1>1, <1>2 DEF Rounds
<1>4. Fresh(round')
  BY <1>3, NewAttempt
<1> QED  BY <1>1, <1>3, <1>4 DEF Awaits, RoundKept, Given

\* The forks play the parts they play.
LEMMA SameForks == Inv => SameRoles(forks, forks) /\ SameHands(me)
BY DEF Inv, RunAheadInv, Types, SameRoles, SameHands

\* Retry asks the last answer again, as a later attempt.
LEMMA RetryKeeps == ASSUME Inv, Retry PROVE Inv'
<1> DEFINE q == round.retry
           a == round.attempt + 1
           m == [me EXCEPT !.access = a]
<1>1. /\ me \in Reviewers /\ round \in Rounds /\ path \in [Answers -> 0 .. MaxForks]
      /\ q # 0 /\ round.out = 0 /\ a <= MaxAttempts /\ Idle
  BY DEF Inv, RunAheadInv, Types, Retry
<1>2. q \in Answers /\ a \in 0 .. MaxAttempts + MaxForks /\ round.attempt < MaxAttempts
  BY <1>1, Bounds DEF Rounds, Answers
<1>3. round' = [round EXCEPT !.out = q, !.attempt = a] /\ UNCHANGED <<path, sending, world>>
  BY DEF Retry
<1>4. Awaits(round', q) /\ round'.attempt = a
  BY <1>2, <1>3, NextAttempt
<1>5. /\ m \in Reviewers /\ m.taken = me.taken /\ m.finishing = me.finishing
      /\ m.access = a /\ m.erasing = me.erasing /\ SameHands(m)
  BY <1>1, <1>2 DEF Reviewers, SameHands
<1>6. me.taken = 0 /\ me.finishing = 0
  BY <1>1 DEF Inv, RunAheadInv, TakenKept, FinishingKept
<1>7. \A f \in me.erasing \cup erased : forks[f].discarded
  BY DEF Inv, RunAheadInv, SessionsKept
<1>8. HoldOrSend(forks, m, path', round.taken, q, round'.attempt)
  BY <1>3, <1>4 DEF Retry
<1>9. SameRoles(forks, forks) /\ PathsKept(round, forks, path')
  BY <1>3, SameForks DEF Inv, RunAheadInv
<1> QED  BY <1>1, <1>3, <1>4, <1>5, <1>6, <1>7, <1>8, <1>9, AskKeeps

\* The path of an answer whose turn no late fork took is cleared.
LEMMA PathCleared ==
    ASSUME NEW rd, NEW fs, NEW p \in [Answers -> 0 .. MaxForks], NEW q \in Answers,
           PathsKept(rd, fs, p), \A f \in Late(fs) : <<q, f>> \notin rd.taken
    PROVE  /\ PathsKept(rd, fs, [p EXCEPT ![q] = 0])
           /\ [p EXCEPT ![q] = 0] \in [Answers -> 0 .. MaxForks]
BY Bounds DEF PathsKept

\* Stop waiting: the answer goes to the agent, or waits for Retry.
LEMMA StopKeeps == ASSUME Inv, Stop PROVE Inv'
<1> DEFINE f == IF me.finishing # 0 THEN me.finishing ELSE me.switching.fork
           q == me.pending
           a == round.attempt + 1
           waited == me.finishing # 0 \/ (me.switching.waited /\ ~me.switching.stopped)
           without == Erasing([me EXCEPT !.finishing = 0, !.access = a], {me.finishing} \ {0})
           stopped == [without EXCEPT !.switching.stopped = me.switching.waited]
           fs == Discard(forks, {me.finishing})
<1>1. /\ WorldTypes /\ Types(round, forks, path, me, queue, move)
      /\ me \in Reviewers /\ round \in Rounds /\ path \in [Answers -> 0 .. MaxForks]
      /\ forks \in [ForkIds -> Records] /\ Idle /\ me.step = "idle" /\ round.out # 0
  BY DEF Inv, RunAheadInv, Types, Stop, Idle
<1>2. me.taken = 0
  BY <1>1 DEF Inv, RunAheadInv, TakenKept
<1>3. CASE waited /\ a <= MaxAttempts /\ round' = [round EXCEPT !.attempt = a]
           /\ path' = [path EXCEPT ![forks[f].answer] = 0]
           /\ HoldOrSend(fs, stopped, path', round.taken, q, a)
           /\ UNCHANGED <<sending, world>>
  <2>1. me.finishing # 0 =>
          /\ me.finishing \in ForkIds /\ Late(forks) = {} /\ q = round.out /\ ~Moving(me)
          /\ forks[f] # NoFork /\ ~IsAgentSession(forks[f]) /\ f = me.finishing
    BY <1>1, Bounds DEF Inv, RunAheadInv, FinishingKept, Prepared, Reviewers, ForkIds, IsAgentSession
  <2>2. me.finishing = 0 =>
          /\ me.switching # NoSwitch /\ me.switching \in Switches /\ f \in Late(forks) /\ q = round.out
          /\ ~Took(round, f) /\ forks[f] # NoFork /\ f \in ForkIds
    <3>1. me.finishing = 0 => me.switching # NoSwitch /\ f = me.switching.fork
      BY <1>3 DEF NoSwitch
    <3>2. me.finishing = 0 => me.switching \in Switches /\ f \in Late(forks)
      BY <1>1, <3>1, MovingFork DEF Inv, RunAheadInv
    <3>3. me.finishing = 0 => q = round.out
      BY <1>1, <3>1 DEF Inv, RunAheadInv, AttemptsKept, Moving
    <3>4. me.finishing = 0 => ~Took(round, f)
      BY <1>1, <3>1 DEF Inv, RunAheadInv, SwitchKept
    <3> QED  BY <3>1, <3>2, <3>3, <3>4 DEF Late, IsUnsettled, NoFork
  <2>3. q = round.out /\ f \in ForkIds /\ forks[f] # NoFork
    BY <2>1, <2>2
  <2>4. q = round.retry /\ q \in Answers
    BY <1>1, <2>3, Bounds DEF Inv, RunAheadInv, RoundKept, Rounds, Answers
  <2>5. round' = [round EXCEPT !.attempt = @ + 1] /\ round.attempt < MaxAttempts
    BY <1>1, <1>3, Bounds DEF Rounds
  <2>6. Awaits(round', q) /\ round'.attempt = a
    BY <2>3, <2>4, <2>5, NextAttempt
  <2>7. forks[f].answer \in Answers
    BY <1>1, <2>3, Bounds DEF Inv, RunAheadInv, RecordsKept, Records, Answers
  <2>8. \A g \in Late(forks) : <<forks[f].answer, g>> \notin round.taken
    BY <2>1, <2>2, <2>7 DEF Inv, RunAheadInv, OneLate, Took
  <2>9. PathsKept(round, forks, path') /\ path' \in [Answers -> 0 .. MaxForks]
    BY <1>1, <1>3, <2>7, <2>8, PathCleared DEF Inv, RunAheadInv
  <2>10. /\ SameRoles(forks, fs)
         /\ me.finishing # 0 => fs[me.finishing].discarded
    <3>1. \A g \in {me.finishing} \cap ForkIds : forks[g] # NoFork
      BY <2>1, Bounds DEF ForkIds
    <3>2. SameRoles(forks, fs) /\ \A g \in {me.finishing} \cap ForkIds :
                ~IsAgentSession(forks[g]) => fs[g].discarded
      BY <1>1, <3>1, DiscardRoles
    <3> QED  BY <2>1, <3>2
  <2>11. /\ stopped \in Reviewers /\ SameHands(stopped) /\ stopped.taken = 0
         /\ stopped.finishing = 0 /\ stopped.access = a
         /\ stopped.erasing = me.erasing \cup ({me.finishing} \ {0})
    <3>1. a \in 0 .. MaxAttempts + MaxForks
      BY <1>1, <1>3, Bounds DEF Rounds
    <3>2. {me.finishing} \ {0} \subseteq ForkIds
      BY <2>1
    <3>3. /\ without \in Reviewers /\ without.switching = me.switching /\ without.taken = 0
          /\ without.finishing = 0 /\ without.settling = me.settling /\ without.step = me.step
          /\ without.held = me.held /\ without.access = a
          /\ without.erasing = me.erasing \cup ({me.finishing} \ {0})
      BY <1>1, <1>2, <3>1, <3>2, Bounds DEF Reviewers, Erasing
    <3> HIDE DEF without
    <3>4. ASSUME me.switching \in Switches
          PROVE  LET s == [me.switching EXCEPT !.stopped = me.switching.waited] IN
                 s \in Switches /\ s # NoSwitch /\ s.fork = me.switching.fork /\ me.switching # NoSwitch
      BY <3>4, Bounds DEF Switches, NoSwitch, ForkIds
    <3>5. CASE me.switching \in Switches
      <4>1. stopped = [without EXCEPT !.switching = [me.switching EXCEPT !.stopped = me.switching.waited]]
        BY <3>3
      <4> QED  BY <3>3, <3>4, <3>5, <4>1 DEF Reviewers, SameHands
    <3>6. CASE me.switching = NoSwitch
      <4>1. [NoSwitch EXCEPT !.stopped = NoSwitch.waited] = NoSwitch
        <5>1. NoSwitch.waited = NoSwitch.stopped
          BY DEF NoSwitch
        <5>2. NoSwitch = [x \in DOMAIN NoSwitch |-> NoSwitch[x]] /\ NoSwitch.stopped = NoSwitch["stopped"]
          BY DEF NoSwitch
        <5> QED  BY <5>1, <5>2
      <4>2. stopped = [without EXCEPT !.switching = NoSwitch]
        BY <3>3, <3>6, <4>1
      <4> QED  BY <3>3, <3>6, <4>2 DEF Reviewers, SameHands
    <3> QED  BY <1>1, <3>5, <3>6 DEF Reviewers
  <2> HIDE DEF stopped, without, fs, f, q, a
  <2>12. \A g \in stopped.erasing \cup erased : fs[g].discarded
    <3>1. \A g \in me.erasing \cup erased : g \in ForkIds /\ forks[g].discarded
      BY <1>1 DEF Inv, RunAheadInv, SessionsKept, WorldTypes, Reviewers
    <3> QED  BY <2>10, <2>11, <3>1 DEF SameRoles
  <2> QED  BY <1>1, <1>3, <2>6, <2>9, <2>10, <2>11, <2>12, AskKeeps
<1>4. CASE /\ ~waited /\ round' = [round EXCEPT !.out = 0]
           /\ me' = [me EXCEPT !.access = 0, !.pending = 0] /\ queue' = NoTurn
           /\ UNCHANGED <<forks, path, move, sending, world>>
  <2>1. me.finishing = 0
    BY <1>4
  <2>2. /\ round' \in Rounds /\ round'.taken = round.taken /\ round'.out = 0
        /\ round'.retry = round.retry /\ round'.attempt = round.attempt
        /\ round'.made = round.made
    BY <1>1, <1>4, Bounds DEF Rounds
  <2>3. /\ me' \in Reviewers /\ me'.switching = me.switching /\ me'.settling = me.settling
        /\ me'.taken = 0 /\ me'.finishing = 0 /\ me'.step = me.step /\ me'.held = me.held
        /\ me'.erasing = me.erasing /\ me'.access = 0
    <3>1. 0 \in 0 .. MaxAnswers /\ 0 \in 0 .. MaxAttempts + MaxForks
      BY Bounds
    <3>2. me' = [me EXCEPT !.access = 0, !.pending = 0]
      BY <1>4
    <3> HIDE DEF waited, stopped, without, fs, f
    <3> QED  BY <1>1, <1>2, <2>1, <3>1, <3>2 DEF Reviewers
  <2>4. Types(round', forks', path', me', queue', move')
    BY <1>1, <1>4, <2>2, <2>3, Bounds DEF Types, NoTurn, Pairs
  <2>5. RoundKept(round') /\ PathsKept(round', forks', path')
    BY <1>4, <2>2 DEF Inv, RunAheadInv, RoundKept, PathsKept, Given
  <2>6. SessionsKept(forks', me', move')
    BY <1>4, <2>3 DEF Inv, RunAheadInv, SessionsKept
  <2>7. TakenKept(round', forks', me') /\ FinishingKept(round', forks', me', queue')
    BY <2>3 DEF TakenKept, FinishingKept
  <2>8. SwitchKept(round', forks', me', move') /\ SettleKept(round', forks', path', me', move')
    BY <1>1, <1>4, <2>2, <2>3 DEF Inv, RunAheadInv, SwitchKept, SettleKept, Took
  <2>9. MoveKept(me', move')
    BY <1>4, <2>3 DEF Inv, RunAheadInv, MoveKept, Moving
  <2>10. AttemptsKept(round', forks', me', queue')
    BY <1>4, <2>2, <2>3 DEF Inv, RunAheadInv, AttemptsKept, Moving, Asked, Fresh, NoTurn
  <2>11. RunAheadInv(round', forks', path', me', queue', move')
    BY <1>4, <2>4, <2>5, <2>6, <2>7, <2>8, <2>9, <2>10 DEF Inv, RunAheadInv
  <2> QED  BY <1>1, <1>4, <2>11, SameWorld
<1> QED
  BY <1>3, <1>4 DEF Stop

\* A switch that starts keeps the invariant.
LEMMA SwitchBeginsKeeps ==
    ASSUME Inv, NEW fs, NEW m \in Reviewers, NEW f \in ForkIds, NEW w \in BOOLEAN,
           NEW step \in {"idle", "recording"},
           SameRoles(forks, fs), Prepared(forks, f), ~fs[f].discarded, ~Moving(me),
           m.switching = NoSwitch, m.settling = NoSettling, m.held = me.held, m.erasing = me.erasing,
           m.taken = 0, m.finishing = 0,
           m.access \in {0, round'.attempt} \/ m.access > MaxAttempts,
           Awaits(round', forks[f].answer), path' = path,
           \/ w /\ SwitchBegins(fs, m, f, round'.attempt, TRUE, step)
           \/ ~w /\ SwitchBegins(fs, m, f, round'.attempt, FALSE, step),
           UNCHANGED <<sending, world>>
    PROVE  Inv'
<1> DEFINE q == forks[f].answer
           x == me'.switching
<1>1. /\ WorldTypes /\ Types(round, forks, path, me, queue, move) /\ RoundKept(round')
      /\ me \in Reviewers /\ round \in Rounds /\ path \in [Answers -> 0 .. MaxForks]
      /\ forks \in [ForkIds -> Records] /\ fs \in [ForkIds -> Records]
      /\ round' \in Rounds /\ round'.out = q /\ q \in Answers /\ fs[f].answer = q
      /\ round'.taken = round.taken /\ Fresh(round')
  BY DEF Inv, RunAheadInv, Types, SameRoles, Awaits
<1>2. round'.attempt \in 0 .. MaxAttempts /\ q \in 0 .. MaxAnswers
  BY <1>1, Bounds DEF Rounds, Answers
<1>3. /\ me' \in Reviewers /\ x \in Switches /\ x # NoSwitch
      /\ x.fork = f /\ x.attempt = round'.attempt /\ ~x.stopped
      /\ me'.settling = NoSettling /\ me'.taken = 0 /\ me'.finishing = 0 /\ me'.step = step
      /\ me'.held = me.held /\ me'.erasing = me.erasing /\ me'.access = m.access
      /\ me'.pending = q
  <2>1. PICK y \in Switches : /\ y # NoSwitch /\ y.fork = f /\ y.attempt = round'.attempt
                             /\ ~y.stopped
                             /\ me' = [m EXCEPT !.pending = q, !.step = step, !.switching = y]
    <3>1. NoSwitch \in [fork : {0}, attempt : {0}, waited : BOOLEAN, stopped : BOOLEAN]
          /\ ~NoSwitch.stopped /\ NoSwitch.fork = 0 /\ f # 0
      BY Bounds DEF NoSwitch, ForkIds
    <3>2. \A b \in BOOLEAN :
            LET y == [NoSwitch EXCEPT !.fork = f, !.attempt = round'.attempt, !.waited = b] IN
            /\ y \in Switches /\ y # NoSwitch /\ y.fork = f /\ y.attempt = round'.attempt
            /\ ~y.stopped
      BY <1>2, <3>1 DEF Switches
    <3>3. \/ me' = [m EXCEPT !.pending = q, !.step = step,
                    !.switching = [NoSwitch EXCEPT !.fork = f, !.attempt = round'.attempt, !.waited = TRUE]]
          \/ me' = [m EXCEPT !.pending = q, !.step = step,
                    !.switching = [NoSwitch EXCEPT !.fork = f, !.attempt = round'.attempt, !.waited = FALSE]]
      BY <1>1 DEF SwitchBegins
    <3> QED  BY <3>2, <3>3
  <2> QED  BY <1>2, <2>1 DEF Reviewers
<1> HIDE DEF x
<1>4. /\ forks' = [fs EXCEPT ![f] = [fs[f] EXCEPT !.continued = "switching"]]
      /\ queue' = NoTurn /\ move' = Draining(f)
  BY <1>1 DEF SwitchBegins, Continue
<1>5. /\ forks' \in [ForkIds -> Records] /\ forks'[f].continued = "switching"
      /\ forks'[f].answer = q /\ forks'[f].from = fs[f].from /\ ~forks'[f].discarded
      /\ \A g \in ForkIds \ {f} : forks'[g] = fs[g]
  <2>1. /\ [fs[f] EXCEPT !.continued = "switching"] \in Records
        /\ [fs[f] EXCEPT !.continued = "switching"].answer = q
        /\ [fs[f] EXCEPT !.continued = "switching"].from = fs[f].from
        /\ [fs[f] EXCEPT !.continued = "switching"].continued = "switching"
        /\ ~[fs[f] EXCEPT !.continued = "switching"].discarded
    BY <1>1 DEF Records
  <2> QED  BY <1>1, <1>4, <2>1
<1>6. /\ move' \in MoveSteps /\ move'.at = "draining" /\ move'.to = f /\ move' # NoMove
  BY <1>4, Bounds DEF Draining, MoveSteps, Steps, NoMove, ForkIds, Sessions, NewSession
<1>7. /\ Late(fs) = {} /\ RecordsKept(fs) /\ PathsKept(round, fs, path)
      /\ SessionsKept(fs, me, move) /\ fs[f] # NoFork /\ fs[f].continued = "none"
  <2>1. RolesKept(round, forks, path, me, move, fs)
    BY <1>1, SameRolesKeep
  <2> QED  BY <2>1 DEF Inv, RunAheadInv, RolesKept, Prepared, SameRoles
<1>8. Types(round', forks', path', me', queue', move')
  BY <1>1, <1>3, <1>4, <1>5, <1>6, Bounds DEF Types, NoTurn, Pairs
<1>9. Late(forks') = {f}
  BY <1>5, <1>7 DEF Late, IsUnsettled
<1>10. RecordsKept(forks')
  <2>1. \A g \in ForkIds : forks'[g] # NoFork => fs[g] # NoFork
    BY <1>5, <1>7
  <2>2. \A g \in ForkIds : forks'[g].from = fs[g].from /\ forks'[g].answer = fs[g].answer
    BY <1>1, <1>5
  <2>3. ASSUME NEW g \in ForkIds, forks'[g] # NoFork
        PROVE  /\ forks'[g].answer # 0 /\ forks'[g].from # g
               /\ forks'[g].from \in ForkIds => Followed(forks'[forks'[g].from])
    <3>1. /\ fs[g].answer # 0 /\ fs[g].from # g
          /\ fs[g].from \in ForkIds => Followed(fs[fs[g].from])
      BY <1>7, <2>1, <2>3 DEF RecordsKept
    <3>2. Followed(fs[f]) => Followed(forks'[f])
      BY <1>5, <1>7 DEF Followed, NoFork
    <3> QED  BY <1>5, <1>7, <2>2, <3>1, <3>2
  <2>4. \A g \in ForkIds : forks'[g] # NoFork /\ IsAgentSession(forks'[g]) => ~forks'[g].discarded
    BY <1>5, <1>7, <2>1 DEF RecordsKept
  <2> QED  BY <2>3, <2>4 DEF RecordsKept
<1>11. ~Given(round', q)
  BY <1>1, Bounds DEF RoundKept, Answers, Rounds
<1>12. PathsKept(round', forks', path')
  <2>1. \A g \in ForkIds : forks'[g].answer = fs[g].answer
    BY <1>1, <1>5
  <2>2. \A x2 \in Answers : path[x2] # 0 => path[x2] \in ForkIds
    BY <1>1, Bounds DEF ForkIds
  <2>3. \A x2 \in Answers : <<x2, f>> \notin round.taken
    <3>1. \A x2 \in Answers : <<x2, f>> \in round.taken => x2 = q
      BY <1>1, <1>7 DEF PathsKept
    <3>2. <<q, f>>[1] = q
      OBVIOUS
    <3> QED  BY <1>1, <1>11, <3>1, <3>2 DEF Given
  <2>4. ASSUME NEW g \in ForkIds, NEW x2 \in Answers, <<x2, g>> \in round.taken
        PROVE  forks'[g].answer = x2 /\ forks'[g].continued \in {"switched", "restarted"}
    BY <1>5, <1>7, <2>3, <2>4 DEF PathsKept
  <2>5. \A x2 \in Answers : path[x2] # 0 => forks'[path[x2]].answer = x2
    BY <1>7, <2>1, <2>2 DEF PathsKept
  <2> QED  BY <1>1, <2>4, <2>5 DEF PathsKept
<1>13. SessionsKept(forks', me', move')
  <2>1. \A g \in me'.erasing \cup erased : g \in ForkIds /\ g # f /\ fs[g].discarded
    BY <1>1, <1>3, <1>7 DEF SessionsKept, Reviewers, WorldTypes
  <2>2. Resumable(forks'[f])
    BY <1>5 DEF IsAgentSession, Resumable, NoFork
  <2>3. \A g \in ForkIds : Resumable(fs[g]) => Resumable(forks'[g])
    BY <1>5, <2>2
  <2> QED  BY <1>5, <1>6, <1>7, <2>1, <2>2, <2>3 DEF SessionsKept
<1>14. TakenKept(round', forks', me') /\ FinishingKept(round', forks', me', queue')
  BY <1>3 DEF TakenKept, FinishingKept
<1>15. f \notin Runs
  BY <1>7 DEF SessionsKept, IsAgentSession, Resumable, Runs
<1>16. ~Took(round', f)
  BY <1>1, <1>7, <1>11 DEF Took, PathsKept, Given
<1>17. SwitchKept(round', forks', me', move') /\ SettleKept(round', forks', path', me', move')
  BY <1>3, <1>5, <1>6, <1>15, <1>16 DEF SwitchKept, SettleKept, x
<1>18. MoveKept(me', move')
  BY <1>3, <1>6 DEF MoveKept, Moving, x
<1>19. AttemptsKept(round', forks', me', queue')
  <2>1. me.held = NoTurn
    BY DEF Inv, RunAheadInv, AttemptsKept
  <2>2. Asked(sending, round') /\ Asked(agent.doing, round')
    <3>1. Asked(sending, round) /\ Asked(agent.doing, round)
      BY DEF Inv, RunAheadInv, AttemptsKept
    <3>2. round.attempt \in Nat /\ round'.attempt \in Nat /\ sending[2] \in Nat /\ agent.doing[2] \in Nat
      BY <1>1, Bounds DEF WorldTypes, Pairs, Rounds
    <3> QED  BY <3>1, <3>2 DEF Asked, Awaits
  <2>3. sending # NoTurn => agent.doing[2] < sending[2]
    BY DEF Inv, RunAheadInv, AttemptsKept
  <2>4. m.access \in {0, round'.attempt} \/ m.access > MaxAttempts
    OBVIOUS
  <2>5. me'.switching # NoSwitch /\ ~me'.switching.stopped /\ me'.switching.attempt = round'.attempt
        /\ forks'[me'.switching.fork].answer = round'.out
    BY <1>1, <1>3, <1>5 DEF x
  <2> QED
    BY <1>1, <1>3, <1>4, <2>1, <2>2, <2>3, <2>4, <2>5 DEF AttemptsKept, Asked, Moving, NoTurn
<1>20. OneLate(forks')
  BY <1>9 DEF OneLate
<1>21. RunAheadInv(round', forks', path', me', queue', move')
  BY <1>1, <1>8, <1>10, <1>12, <1>13, <1>14, <1>17, <1>18, <1>19, <1>20 DEF RunAheadInv
<1> QED  BY <1>1, <1>21, SameWorld

\* The reviewer answers.
LEMMA AnswerKeeps == ASSUME Inv, Answer PROVE Inv'
<1> DEFINE q == round.made + 1
           a == round.attempt + 1
           f == me.taken
           bare == f # 0 /\ agent.hooks = "heard" /\ Unchanged(f)
           asked == [me EXCEPT !.access = a, !.taken = 0]
<1>1. /\ WorldTypes /\ Types(round, forks, path, me, queue, move)
      /\ me \in Reviewers /\ round \in Rounds /\ path \in [Answers -> 0 .. MaxForks]
      /\ forks \in [ForkIds -> Records] /\ Idle /\ me.step = "idle"
      /\ round.out = 0 /\ round.retry = 0 /\ q <= MaxAnswers /\ a <= MaxAttempts
  BY DEF Inv, RunAheadInv, Types, Answer, Idle, QuestionWaits
<1>2. /\ q \in Answers /\ a \in 1 .. MaxAttempts /\ q \in 0 .. MaxAnswers
      /\ a \in 0 .. MaxAttempts + MaxForks
  BY <1>1, Bounds DEF Rounds, Answers
<1>3. UNCHANGED <<sending, world>> /\ round' = [round EXCEPT !.out = q, !.retry = q, !.attempt = a, !.made = q]
  BY DEF Answer
<1>4. /\ round' \in Rounds /\ round'.taken = round.taken /\ round'.out = q /\ round'.retry = q
      /\ round'.attempt = a /\ round'.made = q
  <2>1. a \in 0 .. MaxAttempts
    BY <1>2, Bounds
  <2>2. round' = [round EXCEPT !.out = q, !.retry = q, !.attempt = a, !.made = q]
    BY <1>3
  <2> HIDE DEF q, a
  <2> QED  BY <1>1, <1>2, <2>1, <2>2 DEF Rounds
<1>5. \A t \in round.taken : t[1] <= round.made
  BY DEF Inv, RunAheadInv, RoundKept
<1>6. \A t \in round.taken : t[1] \in Nat /\ t[1] # q
  <2>1. round.taken \subseteq Turns /\ round.made \in Nat
    BY <1>1, Bounds DEF Rounds
  <2> QED  BY <1>5, <2>1, Bounds DEF Turns
<1>7. Awaits(round', q)
  <2>1. Fresh(round')
    BY <1>4, NewAttempt
  <2>2. RoundKept(round')
    BY <1>1, <1>2, <1>4, <1>5, <1>6, Bounds DEF RoundKept, Given, Rounds
  <2> QED  BY <1>2, <1>4, <2>1, <2>2 DEF Awaits
<1>8. me.finishing = 0
  BY <1>1 DEF Inv, RunAheadInv, FinishingKept
<1>9. f # 0 =>
        /\ f \in ForkIds /\ Prepared(forks, f) /\ forks[f].answer = q
        /\ ~Moving(me)
  BY <1>1, Bounds DEF Inv, RunAheadInv, TakenKept, Reviewers, ForkIds
<1>10. /\ asked \in Reviewers /\ asked.taken = 0 /\ asked.finishing = 0 /\ asked.access = a
       /\ asked.switching = me.switching /\ asked.settling = me.settling /\ asked.held = me.held
       /\ asked.erasing = me.erasing /\ asked.step = me.step
  BY <1>1, <1>2, <1>8, Bounds DEF Reviewers
<1> HIDE DEF asked
<1>11. CASE /\ bare /\ forks[f].turn
            /\ SwitchBegins(forks, asked, f, a, FALSE, "recording") /\ UNCHANGED path
  <2>1. /\ f \in ForkIds /\ Prepared(forks, f) /\ ~Moving(me) /\ ~forks[f].discarded
        /\ Awaits(round', forks[f].answer) /\ asked.switching = NoSwitch
        /\ asked.settling = NoSettling
    BY <1>7, <1>9, <1>10, <1>11 DEF Prepared, Moving
  <2>2. SwitchBegins(forks, asked, f, round'.attempt, FALSE, "recording") /\ path' = path
    BY <1>4, <1>11
  <2>3. asked.access \in {0, round'.attempt} \/ asked.access > MaxAttempts
    BY <1>4, <1>10
  <2> HIDE DEF f, q, a
  <2> QED  BY <1>3, <1>10, <2>1, <2>2, <2>3, SameForks, SwitchBeginsKeeps
<1>12. CASE /\ bare /\ ~forks[f].turn /\ ~forks[f].ended
            /\ me' = [asked EXCEPT !.finishing = f, !.pending = q]
            /\ path' = [path EXCEPT ![q] = f]
            /\ queue' = NoTurn /\ UNCHANGED <<forks, move>>
  <2>1. /\ f \in ForkIds /\ Prepared(forks, f) /\ ~Moving(me) /\ forks[f].answer = q
        /\ me.switching = NoSwitch /\ me.settling = NoSettling /\ f \in 0 .. MaxForks /\ f # 0
    BY <1>1, <1>9, <1>12 DEF Moving, Reviewers
  <2>2. /\ me' \in Reviewers /\ me'.taken = 0 /\ me'.finishing = f /\ me'.access = a
        /\ me'.switching = NoSwitch /\ me'.settling = NoSettling /\ me'.held = me.held
        /\ me'.erasing = me.erasing /\ me'.step = "idle" /\ me'.pending = q
    BY <1>1, <1>2, <1>10, <1>12, <2>1 DEF Reviewers
  <2>3. /\ path' \in [Answers -> 0 .. MaxForks] /\ path'[q] = f
        /\ \A x \in Answers \ {q} : path'[x] = path[x]
    BY <1>1, <1>2, <1>12, <2>1
  <2>4. Types(round', forks', path', me', queue', move')
    BY <1>1, <1>4, <1>12, <2>2, <2>3, Bounds DEF Types, NoTurn, Pairs
  <2>5. PathsKept(round', forks', path')
    <3>1. \A g \in ForkIds, x \in Answers : <<x, g>> \in round.taken => x # q
      BY <1>6
    <3> QED  BY <1>4, <1>12, <2>1, <2>3, <3>1 DEF Inv, RunAheadInv, PathsKept
  <2>6. SessionsKept(forks', me', move') /\ RecordsKept(forks') /\ OneLate(forks')
    BY <1>12, <2>2 DEF Inv, RunAheadInv, SessionsKept
  <2>7. TakenKept(round', forks', me')
    BY <2>2 DEF TakenKept
  <2>8. FinishingKept(round', forks', me', queue')
    BY <1>2, <1>4, <1>7, <1>12, <2>1, <2>2 DEF FinishingKept, Moving, Awaits, Answers
  <2>9. SwitchKept(round', forks', me', move') /\ SettleKept(round', forks', path', me', move')
    BY <2>2 DEF SwitchKept, SettleKept
  <2>10. MoveKept(me', move')
    BY <1>12, <2>1, <2>2 DEF Inv, RunAheadInv, MoveKept, Moving
  <2>11. AttemptsKept(round', forks', me', queue')
    <3>1. me.held = NoTurn
      BY <2>1 DEF Inv, RunAheadInv, AttemptsKept
    <3>2. Asked(sending, round') /\ Asked(agent.doing, round')
      BY <1>4, NewAttempt
    <3>3. sending # NoTurn => agent.doing[2] < sending[2]
      BY DEF Inv, RunAheadInv, AttemptsKept
    <3> QED
      BY <1>4, <1>7, <1>12, <2>2, <3>1, <3>2, <3>3 DEF AttemptsKept, Asked, Moving, NoTurn, Awaits
  <2>12. RunAheadInv(round', forks', path', me', queue', move')
    BY <1>7, <2>4, <2>5, <2>6, <2>7, <2>8, <2>9, <2>10, <2>11 DEF RunAheadInv, Awaits
  <2> QED  BY <1>1, <1>3, <2>12, SameWorld
<1>13. CASE /\ HoldOrSend(Discard(forks, {f}), Erasing(asked, {f} \ {0}), path, round.taken, q, a)
            /\ UNCHANGED path
  <2> DEFINE fs == Discard(forks, {f})
             m == Erasing(asked, {f} \ {0})
  <2>1. SameRoles(forks, fs) /\ (f # 0 => fs[f].discarded)
    <3>1. \A g \in {f} \cap ForkIds : forks[g] # NoFork
      BY <1>9, Bounds DEF ForkIds, Prepared
    <3>2. SameRoles(forks, fs) /\ \A g \in {f} \cap ForkIds :
                ~IsAgentSession(forks[g]) => fs[g].discarded
      BY <1>1, <3>1, DiscardRoles
    <3> QED  BY <1>9, <3>2 DEF Prepared, IsAgentSession
  <2>2. /\ m \in Reviewers /\ SameHands(m) /\ m.taken = 0 /\ m.finishing = 0 /\ m.access = a
        /\ m.erasing = me.erasing \cup ({f} \ {0})
    <3>1. {f} \ {0} \subseteq ForkIds
      BY <1>9
    <3> QED  BY <1>10, <3>1 DEF Reviewers, SameHands, Erasing
  <2> HIDE DEF m, fs
  <2>3. \A g \in m.erasing \cup erased : fs[g].discarded
    <3>1. \A g \in me.erasing \cup erased : g \in ForkIds /\ forks[g].discarded
      BY <1>1 DEF Inv, RunAheadInv, SessionsKept, WorldTypes, Reviewers
    <3> QED  BY <2>1, <2>2, <3>1 DEF SameRoles
  <2>4. HoldOrSend(fs, m, path', round.taken, q, round'.attempt)
    BY <1>4, <1>13 DEF m, fs
  <2>5. path' \in [Answers -> 0 .. MaxForks] /\ PathsKept(round, forks, path')
    BY <1>1, <1>13 DEF Inv, RunAheadInv
  <2>6. m.access \in {0, round'.attempt} \/ m.access > MaxAttempts
    BY <1>4, <2>2
  <2> HIDE DEF q, a, f
  <2> QED  BY <1>1, <1>3, <1>7, <2>1, <2>2, <2>3, <2>4, <2>5, <2>6, AskKeeps
<1> QED
  BY <1>11, <1>12, <1>13 DEF Answer, asked

\* Parts that stay the same twice stay the same.
LEMMA RolesAgain ==
    ASSUME NEW fs, NEW fs2, NEW fs3, SameRoles(fs, fs2), SameRoles(fs2, fs3)
    PROVE  SameRoles(fs, fs3)
<1>1. \A f \in ForkIds : IsAgentSession(fs2[f]) <=> IsAgentSession(fs[f])
  BY DEF SameRoles, IsAgentSession
<1> QED  BY <1>1 DEF SameRoles

\* A fork took a turn, or ended, or was cleaned up.
LEMMA ForkMarked ==
    ASSUME Inv, NEW f \in ForkIds, forks[f] # NoFork
    PROVE  /\ SameRoles(forks, [forks EXCEPT ![f].turn = TRUE])
           /\ SameRoles(forks, [forks EXCEPT ![f].ended = TRUE])
           /\ SameRoles(forks, [forks EXCEPT ![f].cleaned = TRUE])
<1>1. forks \in [ForkIds -> Records] /\ forks[f] \in Records /\ forks[f].answer # 0
  BY DEF Inv, RunAheadInv, Types, RecordsKept
<1>2. /\ [forks[f] EXCEPT !.turn = TRUE] \in Records
      /\ [forks[f] EXCEPT !.ended = TRUE] \in Records
      /\ [forks[f] EXCEPT !.cleaned = TRUE] \in Records
  BY <1>1 DEF Records
<1>3. NoFork.answer = 0
  BY DEF NoFork
<1>4. SameRoles(forks, [forks EXCEPT ![f].turn = TRUE])
  <2> DEFINE r == [forks[f] EXCEPT !.turn = TRUE]
  <2>1. /\ r.answer = forks[f].answer /\ r.from = forks[f].from /\ r # NoFork
        /\ r.continued = forks[f].continued /\ r.discarded = forks[f].discarded
    BY <1>1, <1>3 DEF Records
  <2>2. [forks EXCEPT ![f].turn = TRUE] = [forks EXCEPT ![f] = r]
    OBVIOUS
  <2> HIDE DEF r
  <2> QED  BY <1>1, <1>2, <2>1, <2>2 DEF SameRoles, r
<1>5. SameRoles(forks, [forks EXCEPT ![f].ended = TRUE])
  <2> DEFINE r == [forks[f] EXCEPT !.ended = TRUE]
  <2>1. /\ r.answer = forks[f].answer /\ r.from = forks[f].from /\ r # NoFork
        /\ r.continued = forks[f].continued /\ r.discarded = forks[f].discarded
    BY <1>1, <1>3 DEF Records
  <2>2. [forks EXCEPT ![f].ended = TRUE] = [forks EXCEPT ![f] = r]
    OBVIOUS
  <2> HIDE DEF r
  <2> QED  BY <1>1, <1>2, <2>1, <2>2 DEF SameRoles, r
<1>6. SameRoles(forks, [forks EXCEPT ![f].cleaned = TRUE])
  <2> DEFINE r == [forks[f] EXCEPT !.cleaned = TRUE]
  <2>1. /\ r.answer = forks[f].answer /\ r.from = forks[f].from /\ r # NoFork
        /\ r.continued = forks[f].continued /\ r.discarded = forks[f].discarded
    BY <1>1, <1>3 DEF Records
  <2>2. [forks EXCEPT ![f].cleaned = TRUE] = [forks EXCEPT ![f] = r]
    OBVIOUS
  <2> HIDE DEF r
  <2> QED  BY <1>1, <1>2, <2>1, <2>2 DEF SameRoles, r
<1> QED  BY <1>4, <1>5, <1>6

\* An answer that no longer waits for its fork keeps the invariant.
LEMMA AnswerToAgentKeeps ==
    ASSUME Inv, Idle, NEW fs, SameRoles(forks, fs), me.finishing # 0, round' = round,
           AnswerToAgent(fs, forks[me.finishing].answer), UNCHANGED <<sending, world>>
    PROVE  Inv'
<1> DEFINE f == me.finishing
           q == forks[f].answer
           m == Erasing([me EXCEPT !.finishing = 0], {f})
           fs2 == Discard(fs, {f})
<1>1. /\ WorldTypes /\ me \in Reviewers /\ round \in Rounds /\ path \in [Answers -> 0 .. MaxForks]
      /\ RoundKept(round) /\ PathsKept(round, forks, path)
  BY DEF Inv, RunAheadInv, Types
<1>2. /\ f \in ForkIds /\ Prepared(forks, f) /\ q = round.out /\ round.out # 0 /\ Fresh(round)
  BY <1>1, Bounds DEF Inv, RunAheadInv, FinishingKept, Reviewers, ForkIds
<1>3. q \in Answers
  BY <1>1, <1>2, Bounds DEF Rounds, Answers
<1>4. Awaits(round', q)
  BY <1>1, <1>2, <1>3 DEF Awaits
<1>5. me.taken = 0
  BY <1>2 DEF Inv, RunAheadInv, TakenKept
<1>6. /\ m \in Reviewers /\ SameHands(m) /\ m.taken = 0 /\ m.finishing = 0
      /\ m.access = me.access /\ m.erasing = me.erasing \cup {f}
  BY <1>1, <1>2, <1>5, Bounds DEF Reviewers, SameHands, Erasing
<1>7. path' = [path EXCEPT ![q] = 0] /\ HoldOrSend(fs2, m, path', round.taken, q, round'.attempt)
  BY DEF AnswerToAgent
<1>8. path' \in [Answers -> 0 .. MaxForks] /\ PathsKept(round, forks, path')
  BY <1>1, <1>2, <1>3, <1>7, PathCleared DEF Prepared
<1>9. SameRoles(forks, fs2) /\ fs2[f].discarded
  <2>1. fs[f] # NoFork /\ ~IsAgentSession(fs[f]) /\ fs \in [ForkIds -> Records]
    BY <1>2 DEF SameRoles, Prepared, IsAgentSession
  <2>2. SameRoles(fs, fs2) /\ fs2[f].discarded
    BY <1>2, <2>1, DiscardRoles
  <2> QED  BY <2>2, RolesAgain
<1> HIDE DEF m, fs2, f, q
<1>10. \A g \in m.erasing \cup erased : fs2[g].discarded
  <2>1. \A g \in me.erasing \cup erased : g \in ForkIds /\ forks[g].discarded
    BY <1>1 DEF Inv, RunAheadInv, SessionsKept, WorldTypes, Reviewers
  <2> QED  BY <1>6, <1>9, <2>1 DEF SameRoles
<1>11. m.access \in {0, round'.attempt} \/ m.access > MaxAttempts
  BY <1>6 DEF Inv, RunAheadInv, AttemptsKept
<1> QED  BY <1>4, <1>6, <1>7, <1>8, <1>9, <1>10, <1>11, AskKeeps

\* A step that changes neither the round nor what the reviewer has in hand, and no fork's part.
LEMMA RolesStand ==
    ASSUME Inv, SameRoles(forks, forks'), me' \in Reviewers, SameHands(me'),
           me'.switching = me.switching, me'.pending = me.pending, me'.access = me.access,
           \/ me'.taken = me.taken
           \/ me'.taken = 0,
           me'.finishing = me.finishing,
           \A f \in {me.taken, me.finishing} \ {0} :
               (f = me.taken /\ me'.taken = 0) \/ ~forks'[f].discarded,
           \A f \in me'.erasing \cup erased : forks'[f].discarded,
           UNCHANGED <<round, path, queue, move>>
    PROVE  RunAheadInv(round', forks', path', me', queue', move')
<1>1. /\ WorldTypes /\ me \in Reviewers /\ path \in [Answers -> 0 .. MaxForks]
  BY DEF Inv, RunAheadInv, Types
<1>2. RolesKept(round, forks, path, me, move, forks')
  BY <1>1, SameRolesKeep
<1>3. Types(round', forks', path', me', queue', move')
  BY DEF Inv, RunAheadInv, Types, SameRoles
<1>4. RoundKept(round') /\ RecordsKept(forks') /\ OneLate(forks') /\ PathsKept(round', forks', path')
  BY <1>2 DEF Inv, RunAheadInv, RolesKept
<1>5. SessionsKept(forks', me', move')
  BY <1>2 DEF Inv, RunAheadInv, RolesKept, SessionsKept
<1>6. \A f \in ForkIds : Prepared(forks, f) /\ ~forks'[f].discarded => Prepared(forks', f)
  BY <1>2 DEF RolesKept, Prepared, SameRoles
<1>7. TakenKept(round', forks', me')
  <2>1. me.taken # 0 => me.taken \in ForkIds
    BY <1>1, Bounds DEF Reviewers, ForkIds
  <2> QED  BY <1>6, <2>1 DEF Inv, RunAheadInv, TakenKept, SameRoles, SameHands, Moving
<1>8. FinishingKept(round', forks', me', queue')
  <2>1. me.finishing # 0 => me.finishing \in ForkIds
    BY <1>1, Bounds DEF Reviewers, ForkIds
  <2>2. me.finishing # 0 => me.taken = 0
    BY DEF Inv, RunAheadInv, TakenKept
  <2> QED  BY <1>6, <2>1, <2>2 DEF Inv, RunAheadInv, FinishingKept, SameRoles, SameHands, Moving
<1>9. SwitchKept(round', forks', me', move') /\ SettleKept(round', forks', path', me', move')
  <2>1. SwitchKept(round, forks', me, move) /\ SettleKept(round, forks', path, me, move)
    BY <1>2 DEF Inv, RunAheadInv, RolesKept
  <2> QED  BY <2>1 DEF SwitchKept, SettleKept, SameHands
<1>10. MoveKept(me', move')
  BY DEF Inv, RunAheadInv, MoveKept, Moving, SameHands
<1>11. AttemptsKept(round', forks', me', queue')
  <2>1. me.switching # NoSwitch => me.switching.fork \in ForkIds
    BY <1>1 DEF Reviewers, Switches
  <2> QED  BY <2>1 DEF Inv, RunAheadInv, AttemptsKept, Moving, SameHands, SameRoles
<1>12. RunAheadInv(round', forks', path', me', queue', move')
  BY <1>3, <1>4, <1>5, <1>7, <1>8, <1>9, <1>10, <1>11 DEF RunAheadInv
<1> QED  BY <1>12

\* So do forks that play the same parts, with nothing else changed.
LEMMA RolesStay ==
    ASSUME Inv, SameRoles(forks, forks'), me' \in Reviewers, SameHands(me'),
           me'.switching = me.switching, me'.pending = me.pending, me'.access = me.access,
           \/ me'.taken = me.taken
           \/ me'.taken = 0,
           me'.finishing = me.finishing,
           \A f \in {me.taken, me.finishing} \ {0} :
               (f = me.taken /\ me'.taken = 0) \/ ~forks'[f].discarded,
           \A f \in me'.erasing \cup erased : forks'[f].discarded,
           UNCHANGED <<round, path, queue, move, sending, world>>
    PROVE  Inv'
<1>1. RunAheadInv(round', forks', path', me', queue', move')
  BY RolesStand
<1> QED  BY <1>1, SameWorld DEF Inv

\* A fork submits its turn.
LEMMA ForkSubmitsKeeps == ASSUME Inv, NEW f \in ForkIds, ForkSubmits(f) PROVE Inv'
<1> DEFINE kept == [forks EXCEPT ![f].turn = TRUE]
<1>1. /\ Idle /\ me.step = "idle" /\ f \in {me.taken, me.finishing} /\ me \in Reviewers /\ round \in Rounds
      /\ forks \in [ForkIds -> Records] /\ UNCHANGED <<round, sending, world>>
      /\ f # 0 /\ me.taken \in 0 .. MaxForks /\ me.finishing \in 0 .. MaxForks
  BY Bounds DEF ForkSubmits, Inv, RunAheadInv, Types, Reviewers, ForkIds, Idle
<1>2. Prepared(forks, f) /\ forks[f] # NoFork /\ ~forks[f].discarded /\ ~Moving(me)
  BY <1>1 DEF Inv, RunAheadInv, TakenKept, FinishingKept, Prepared
<1>3. SameRoles(forks, kept) /\ kept[f].discarded = forks[f].discarded /\ kept[f].answer = forks[f].answer
  <2>1. [forks[f] EXCEPT !.turn = TRUE].discarded = forks[f].discarded
        /\ [forks[f] EXCEPT !.turn = TRUE].answer = forks[f].answer
    BY <1>1 DEF Records
  <2>2. kept[f] = [forks[f] EXCEPT !.turn = TRUE]
    BY <1>1
  <2> QED  BY <1>2, <2>1, <2>2, ForkMarked
<1>4. \A g \in ForkIds \ {f} : kept[g] = forks[g]
  BY <1>1
<1> HIDE DEF kept
<1>5. \A g \in me.erasing \cup erased : kept[g].discarded
  BY <1>3 DEF Inv, RunAheadInv, SessionsKept, WorldTypes, Types, Reviewers, SameRoles
<1>6. CASE f = me.taken /\ forks' = kept /\ UNCHANGED <<path, me, queue, move>>
  <2>1. me.finishing = 0
    BY <1>1, <1>6 DEF Inv, RunAheadInv, TakenKept
  <2>2. SameHands(me')
    BY <1>6 DEF SameHands
  <2> QED  BY <1>1, <1>2, <1>3, <1>5, <1>6, <2>1, <2>2, RolesStay, SameForks
<1>7. CASE /\ f = me.finishing
           /\ SwitchBegins(kept, [me EXCEPT !.finishing = 0], f, round.attempt, TRUE, "idle")
           /\ UNCHANGED path
  <2> DEFINE m == [me EXCEPT !.finishing = 0]
  <2>1. /\ m \in Reviewers /\ m.switching = me.switching /\ m.settling = me.settling
        /\ m.held = me.held /\ m.erasing = me.erasing /\ m.taken = me.taken /\ m.finishing = 0
        /\ m.access = me.access
    BY <1>1, Bounds DEF Reviewers
  <2>2. m.switching = NoSwitch /\ m.settling = NoSettling
    BY <1>2, <2>1 DEF Moving
  <2>3. me.taken = 0
    BY <1>1, <1>7 DEF Inv, RunAheadInv, TakenKept
  <2>4. /\ forks[f].answer = round.out /\ round.out # 0 /\ Fresh(round) /\ RoundKept(round)
    BY <1>1, <1>7 DEF Inv, RunAheadInv, FinishingKept
  <2>5. round.out \in Answers
    BY <1>1, <2>4, Bounds DEF Rounds, Answers
  <2>6. Awaits(round', forks[f].answer)
    <3>1. round' = round /\ Fresh(round)
      BY <1>1, <2>4
    <3>2. Awaits(round, forks[f].answer)
      BY <1>1, <2>4, <2>5 DEF Awaits
    <3>3. round'.attempt = round.attempt
      BY <3>1
    <3> QED  BY <1>1, <2>4, <2>5, <3>1 DEF Awaits
  <2>7. m.access \in {0, round'.attempt} \/ m.access > MaxAttempts
    BY <1>1, <2>1 DEF Inv, RunAheadInv, AttemptsKept
  <2>8. SwitchBegins(kept, m, f, round'.attempt, TRUE, "idle")
    BY <1>1, <1>7
  <2>9. ~kept[f].discarded
    BY <1>2, <1>3
  <2>10. path' = path
    BY <1>7
  <2> HIDE DEF m
  <2>11. \E w \in BOOLEAN : \/ w /\ SwitchBegins(kept, m, f, round'.attempt, TRUE, "idle")
                            \/ ~w /\ SwitchBegins(kept, m, f, round'.attempt, FALSE, "idle")
    BY <2>8
  <2> QED  BY <1>1, <1>2, <1>3, <2>1, <2>2, <2>3, <2>6, <2>7, <2>9, <2>10, <2>11, SwitchBeginsKeeps
<1>8. CASE f = me.finishing /\ AnswerToAgent(kept, forks[f].answer)
  BY <1>1, <1>3, <1>8, AnswerToAgentKeeps
<1> QED  BY <1>6, <1>7, <1>8 DEF ForkSubmits, kept

\* A fork ends.
LEMMA ForkEndsKeeps == ASSUME Inv, NEW f \in ForkIds, ForkEnds(f) PROVE Inv'
<1> DEFINE kept == [forks EXCEPT ![f].ended = TRUE]
<1>1. /\ Idle /\ f \in {me.taken, me.finishing} /\ me \in Reviewers
      /\ forks \in [ForkIds -> Records] /\ UNCHANGED <<round, sending, world>>
      /\ f # 0
  BY Bounds DEF ForkEnds, Inv, RunAheadInv, Types, ForkIds
<1>2. Prepared(forks, f) /\ forks[f] # NoFork /\ ~forks[f].discarded
  BY <1>1 DEF Inv, RunAheadInv, TakenKept, FinishingKept, Prepared
<1>3. SameRoles(forks, kept) /\ kept[f].discarded = forks[f].discarded
  <2>1. [forks[f] EXCEPT !.ended = TRUE].discarded = forks[f].discarded
    BY <1>1 DEF Records
  <2>2. kept[f] = [forks[f] EXCEPT !.ended = TRUE]
    BY <1>1
  <2> QED  BY <1>2, <2>1, <2>2, ForkMarked
<1> HIDE DEF kept
<1>5. \A g \in me.erasing \cup erased : kept[g].discarded
  BY <1>3 DEF Inv, RunAheadInv, SessionsKept, WorldTypes, Types, Reviewers, SameRoles
<1>6. CASE f = me.taken /\ forks' = kept /\ UNCHANGED <<path, me, queue, move>>
  <2>1. me.finishing = 0
    BY <1>1, <1>6 DEF Inv, RunAheadInv, TakenKept
  <2>2. SameHands(me')
    BY <1>6 DEF SameHands
  <2> QED  BY <1>1, <1>2, <1>3, <1>5, <1>6, <2>1, <2>2, RolesStay
<1>8. CASE f = me.finishing /\ AnswerToAgent(kept, forks[f].answer)
  BY <1>1, <1>3, <1>8, AnswerToAgentKeeps
<1> QED  BY <1>6, <1>8 DEF ForkEnds, kept

\* The fork in hand is discarded.
LEMMA DropForksKeeps == ASSUME Inv, DropForks PROVE Inv'
<1> DEFINE f == me.taken
<1>1. /\ f # 0 /\ f \in ForkIds /\ me \in Reviewers /\ forks \in [ForkIds -> Records]
      /\ UNCHANGED <<round, path, queue, sending, move, world>>
      /\ forks' = Discard(forks, {f}) /\ me' = Erasing([me EXCEPT !.taken = 0], {f})
  BY Bounds DEF DropForks, Inv, RunAheadInv, Types, Reviewers, ForkIds
<1>2. Prepared(forks, f) /\ ~IsAgentSession(forks[f]) /\ me.finishing = 0
  BY <1>1 DEF Inv, RunAheadInv, TakenKept, Prepared, IsAgentSession
<1>3. SameRoles(forks, forks') /\ forks'[f].discarded
  BY <1>1, <1>2, DiscardRoles DEF Prepared
<1>4. /\ me' \in Reviewers /\ SameHands(me') /\ me'.switching = me.switching
      /\ me'.pending = me.pending /\ me'.access = me.access /\ me'.taken = 0
      /\ me'.finishing = me.finishing /\ me'.erasing = me.erasing \cup {f}
  <2> DEFINE m == [me EXCEPT !.taken = 0]
  <2>1. /\ m \in Reviewers /\ m.switching = me.switching /\ m.settling = me.settling
        /\ m.held = me.held /\ m.step = me.step /\ m.pending = me.pending
        /\ m.access = me.access /\ m.taken = 0 /\ m.finishing = me.finishing
        /\ m.erasing = me.erasing
    BY <1>1, Bounds DEF Reviewers
  <2>2. me' = Erasing(m, {f})
    BY <1>1
  <2> HIDE DEF m, f
  <2> QED  BY <1>1, <2>1, <2>2 DEF Reviewers, SameHands, Erasing
<1>5. \A g \in me'.erasing \cup erased : forks'[g].discarded
  BY <1>1, <1>3, <1>4 DEF Inv, RunAheadInv, SessionsKept, WorldTypes, Types, Reviewers, SameRoles
<1> QED  BY <1>1, <1>2, <1>3, <1>4, <1>5, RolesStay

\* The answer's path is saved, once its switch started.
LEMMA RecordAnswerKeeps == ASSUME Inv, RecordAnswer PROVE Inv'
<1> DEFINE f == me.switching.fork
           q == me.pending
<1>1. /\ WorldTypes /\ Types(round, forks, path, me, queue, move)
      /\ me.step = "recording" /\ me \in Reviewers /\ path \in [Answers -> 0 .. MaxForks]
      /\ path' = [path EXCEPT ![q] = f] /\ me' = [me EXCEPT !.step = "idle"]
      /\ UNCHANGED <<round, forks, queue, sending, move, world>>
  BY DEF RecordAnswer, Inv, RunAheadInv, Types
<1>2. me.switching # NoSwitch
  BY <1>1 DEF Inv, RunAheadInv, MoveKept
<1>3. /\ f \in Late(forks) /\ q = forks[f].answer /\ ~Took(round, f)
      /\ f \in ForkIds /\ forks[f] # NoFork
  <2>1. SwitchKept(round, forks, me, move) /\ SettleKept(round, forks, path, me, move)
    BY DEF Inv, RunAheadInv
  <2>2. f \in Late(forks)
    BY <1>1, <1>2, <2>1, MovingFork
  <2>3. q = forks[f].answer /\ ~Took(round, f)
    BY <1>1, <1>2, <2>1 DEF SwitchKept
  <2> QED  BY <2>2, <2>3 DEF Late, IsUnsettled, NoFork
<1>4. /\ me' \in Reviewers /\ me'.switching = me.switching /\ me'.settling = me.settling
      /\ me'.held = me.held /\ me'.erasing = me.erasing /\ me'.taken = me.taken
      /\ me'.finishing = me.finishing /\ me'.access = me.access /\ me'.pending = me.pending
      /\ me'.step = "idle"
  BY <1>1 DEF Reviewers
<1>5. q \in Answers
  BY <1>1, <1>3, Bounds DEF Inv, RunAheadInv, RecordsKept, Types, Records, Answers
<1>6. /\ path' \in [Answers -> 0 .. MaxForks] /\ path'[q] = f
      /\ \A x \in Answers \ {q} : path'[x] = path[x]
  BY <1>1, <1>3, <1>5, Bounds DEF ForkIds
<1> HIDE DEF f, q
<1>7. PathsKept(round', forks', path')
  <2>1. \A g \in ForkIds : <<q, g>> \in round.taken => path'[q] = path[q] \/ g \notin Late(forks)
    BY <1>3, <1>5 DEF Inv, RunAheadInv, OneLate, Took
  <2>2. \A x \in Answers : path'[x] # 0 => forks[path'[x]].answer = x
    BY <1>3, <1>6 DEF Inv, RunAheadInv, PathsKept
  <2>3. ASSUME NEW g \in ForkIds, NEW x \in Answers, <<x, g>> \in round.taken
        PROVE  /\ forks[g].answer = x
               /\ \/ forks[g].continued \in {"switched", "restarted"}
                  \/ g \in Late(forks) /\ path'[x] = g
    BY <1>6, <2>1, <2>3 DEF Inv, RunAheadInv, PathsKept
  <2> QED  BY <1>1, <2>2, <2>3 DEF PathsKept
<1>8. Types(round', forks', path', me', queue', move')
  BY <1>1, <1>4, <1>6 DEF Types
<1>9. /\ RoundKept(round') /\ RecordsKept(forks') /\ OneLate(forks')
  BY <1>1 DEF Inv, RunAheadInv
<1>10. SessionsKept(forks', me', move')
  BY <1>1, <1>4 DEF Inv, RunAheadInv, SessionsKept
<1>11. TakenKept(round', forks', me') /\ FinishingKept(round', forks', me', queue')
  BY <1>1, <1>2, <1>4 DEF Inv, RunAheadInv, TakenKept, FinishingKept, Moving
<1>12. SwitchKept(round', forks', me', move') /\ SettleKept(round', forks', path', me', move')
  BY <1>1, <1>4 DEF Inv, RunAheadInv, SwitchKept, SettleKept
<1>13. MoveKept(me', move') /\ AttemptsKept(round', forks', me', queue')
  BY <1>1, <1>4 DEF Inv, RunAheadInv, MoveKept, AttemptsKept, Moving
<1>14. RunAheadInv(round', forks', path', me', queue', move')
  BY <1>7, <1>8, <1>9, <1>10, <1>11, <1>12, <1>13 DEF RunAheadInv
<1> QED  BY <1>1, <1>14, SameWorld

\* A discarded fork is deleted.
LEMMA CleanKeeps == ASSUME Inv, NEW f \in ForkIds, Clean(f) PROVE Inv'
<1>1. /\ f \in me.erasing /\ me \in Reviewers /\ forks \in [ForkIds -> Records]
      /\ UNCHANGED <<round, path, queue, sending, move, agent, typed, contents, early>>
      /\ forks' = [forks EXCEPT ![f].cleaned = TRUE] /\ erased' = erased \cup {f}
      /\ me' = [me EXCEPT !.erasing = @ \ {f}]
  BY DEF Clean, Inv, RunAheadInv, Types
<1>2. forks[f].discarded /\ forks[f] # NoFork
  BY <1>1 DEF Inv, RunAheadInv, SessionsKept, NoFork
<1>3. SameRoles(forks, forks') /\ \A g \in ForkIds : forks'[g].discarded = forks[g].discarded
  <2>1. [forks[f] EXCEPT !.cleaned = TRUE].discarded = forks[f].discarded
    BY <1>1 DEF Records
  <2>2. forks'[f] = [forks[f] EXCEPT !.cleaned = TRUE] /\ \A g \in ForkIds \ {f} : forks'[g] = forks[g]
    BY <1>1
  <2> QED  BY <1>1, <1>2, <2>1, <2>2, ForkMarked
<1>4. /\ me' \in Reviewers /\ SameHands(me') /\ me'.switching = me.switching
      /\ me'.pending = me.pending /\ me'.access = me.access /\ me'.taken = me.taken
      /\ me'.finishing = me.finishing /\ me'.erasing \subseteq me.erasing
  BY <1>1 DEF Reviewers, SameHands
<1>5. \A g \in erased' \cup me'.erasing \cup erased : forks'[g].discarded
  BY <1>1, <1>2, <1>3, <1>4 DEF Inv, RunAheadInv, SessionsKept, WorldTypes, Reviewers
<1>6. \A g \in {me.taken, me.finishing} \ {0} : ~forks'[g].discarded
  <2>1. \A g \in {me.taken, me.finishing} \ {0} : g \in ForkIds /\ ~forks[g].discarded
    BY <1>1, Bounds DEF Inv, RunAheadInv, TakenKept, FinishingKept, Prepared, Reviewers, ForkIds
  <2> QED  BY <1>3, <2>1
<1>7. RunAheadInv(round', forks', path', me', queue', move')
  BY <1>1, <1>3, <1>4, <1>5, <1>6, RolesStand
<1>8. WorldTypes'
  BY <1>1 DEF Inv, WorldTypes
<1> QED  BY <1>1, <1>5, <1>7, <1>8, WorldGrows

\* A fork is taken of the session the idle agent runs.
LEMMA TakeForksKeeps == ASSUME Inv, TakeForks PROVE Inv'
<1>1. /\ WorldTypes /\ Types(round, forks, path, me, queue, move)
      /\ me \in Reviewers /\ forks \in [ForkIds -> Records] /\ round \in Rounds /\ Idle
      /\ round.out = 0 /\ round.retry = 0 /\ me.taken = 0 /\ ~Moving(me)
      /\ Unsettled(forks, me) = {} /\ round.made < MaxAnswers
      /\ UNCHANGED <<round, path, queue, sending, move, agent, typed, erased, early>>
  BY DEF TakeForks, QuestionWaits, Inv, RunAheadInv, Types
<1>2. PICK f \in ForkIds :
        /\ \A g \in ForkIds : (forks[g] = NoFork) <=> (g >= f)
        /\ forks' = [forks EXCEPT ![f] = [NoFork EXCEPT !.answer = round.made + 1,
                                                        !.from = agent.session]]
        /\ contents' = [contents EXCEPT ![f] = contents[agent.session] \cup {<<round.made + 1, f>>}]
        /\ me' = [me EXCEPT !.taken = f]
  BY DEF TakeForks
<1> DEFINE q == round.made + 1
           r == [NoFork EXCEPT !.answer = q, !.from = agent.session]
<1>3. /\ q \in 1 .. MaxAnswers /\ agent.session \in Sessions /\ f \in Sessions /\ forks[f] = NoFork
      /\ f \in 0 .. MaxForks /\ f # 0
  BY <1>1, <1>2, Bounds DEF Rounds, WorldTypes, ForkIds, Sessions, NewSession
<1>4. /\ r \in Records /\ r.answer = q /\ r.from = agent.session /\ r.continued = "none"
      /\ ~r.discarded /\ r # NoFork
  <2>1. NoFork \in [answer : {0}, from : {0}, turn : {FALSE}, ended : {FALSE},
                   continued : {"none"}, discarded : {FALSE}, cleaned : {FALSE}]
    BY DEF NoFork
  <2>2. /\ q \in 0 .. MaxAnswers /\ FALSE \in BOOLEAN /\ 0 \in 0 .. MaxAnswers /\ 0 \in Sessions
        /\ q # 0
    BY <1>3, Bounds DEF Sessions, NewSession
  <2>3. NoFork \in Records
    BY <2>1, <2>2 DEF Records
  <2> HIDE DEF q
  <2>5. /\ r \in Records /\ r.answer = q /\ r.from = agent.session
        /\ r.continued = NoFork.continued /\ r.discarded = NoFork.discarded
    BY <1>3, <2>2, <2>3 DEF Records
  <2> HIDE DEF r
  <2>4. r.answer # NoFork.answer
    BY <2>1, <2>2, <2>5
  <2> QED  BY <2>1, <2>4, <2>5
<1> HIDE DEF r
<1>5. /\ forks' \in [ForkIds -> Records] /\ forks'[f] = r
      /\ \A g \in ForkIds \ {f} : forks'[g] = forks[g]
  BY <1>1, <1>2, <1>4 DEF r
<1>6. /\ NoFork.answer = 0 /\ NoFork.continued = "none" /\ ~NoFork.discarded
      /\ ~IsAgentSession(NoFork) /\ ~IsUnsettled(NoFork) /\ ~IsUnsettled(r) /\ ~IsAgentSession(r)
  BY <1>4 DEF NoFork, IsAgentSession, IsUnsettled
<1>7. Late(forks) = {} /\ Late(forks') = {} /\ me.switching = NoSwitch /\ me.settling = NoSettling
  <2>1. me.switching = NoSwitch /\ me.settling = NoSettling
    BY <1>1 DEF Moving
  <2>2. Late(forks) = {}
    BY <1>1, <2>1, Bounds DEF Unsettled, Late, NoSwitch, ForkIds
  <2> QED  BY <1>5, <1>6, <2>1, <2>2 DEF Late
<1>8. f \notin Running \cup {move.to}
  BY <1>3, <1>6 DEF Inv, RunAheadInv, SessionsKept, Resumable, Running
<1>9. agent.session \in Running
  BY DEF Running
<1>10. RecordsKept(forks')
  <2>1. r.from # f
    BY <1>4, <1>8, <1>9
  <2>2. r.from \in ForkIds => Followed(forks'[r.from])
    <3>1. r.from \in ForkIds => Resumable(forks[r.from])
      BY <1>4, <1>9 DEF Inv, RunAheadInv, SessionsKept
    <3> QED  BY <1>5, <1>7, <2>1, <3>1 DEF Late, IsUnsettled, IsAgentSession, Resumable, Followed
  <2>3. ASSUME NEW g \in ForkIds \ {f}, forks'[g] # NoFork
        PROVE  /\ forks'[g].answer # 0 /\ forks'[g].from # g
               /\ forks'[g].from \in ForkIds => Followed(forks'[forks'[g].from])
               /\ IsAgentSession(forks'[g]) => ~forks'[g].discarded
    <3>1. /\ forks[g].answer # 0 /\ forks[g].from # g
          /\ forks[g].from \in ForkIds => Followed(forks[forks[g].from])
          /\ IsAgentSession(forks[g]) => ~forks[g].discarded
      BY <1>5, <2>3 DEF Inv, RunAheadInv, RecordsKept
    <3>2. forks[g].from # f
      BY <1>2, <1>3, <3>1 DEF Followed
    <3> QED  BY <1>5, <2>3, <3>1, <3>2
  <2>4. r.answer # 0
    BY <1>3, <1>4
  <2> QED  BY <1>5, <1>6, <2>1, <2>2, <2>3, <2>4 DEF RecordsKept
<1>11. PathsKept(round, forks', path)
  <2>1. \A x \in Answers : path[x] # f
    BY <1>3, <1>6, Bounds DEF Inv, RunAheadInv, PathsKept, Answers
  <2>2. \A x \in Answers : <<x, f>> \notin round.taken
    BY <1>3, <1>6, Bounds DEF Inv, RunAheadInv, PathsKept, Answers
  <2>3. \A x \in Answers : path[x] # 0 => path[x] \in ForkIds
    BY <1>1, Bounds DEF Types, ForkIds
  <2> QED  BY <1>5, <1>7, <2>1, <2>2, <2>3 DEF Inv, RunAheadInv, PathsKept
<1>12. /\ me' \in Reviewers /\ me'.taken = f /\ me'.finishing = me.finishing
       /\ me'.switching = NoSwitch /\ me'.settling = NoSettling /\ me'.held = me.held
       /\ me'.erasing = me.erasing /\ me'.step = me.step /\ me'.access = me.access
  BY <1>1, <1>2, <1>3, <1>7 DEF Reviewers
<1>13. Types(round', forks', path', me', queue', move')
  BY <1>1, <1>5, <1>12 DEF Types
<1>14. RoundKept(round') /\ OneLate(forks') /\ RecordsKept(forks') /\ PathsKept(round', forks', path')
  BY <1>1, <1>7, <1>10, <1>11 DEF Inv, RunAheadInv, OneLate
<1>15. me.finishing = 0 /\ ~Moving(me')
  BY <1>1, <1>12 DEF Inv, RunAheadInv, FinishingKept, Moving
<1>16. TakenKept(round', forks', me') /\ FinishingKept(round', forks', me', queue')
  BY <1>1, <1>4, <1>5, <1>7, <1>12, <1>15 DEF TakenKept, FinishingKept, Prepared
<1>17. f \notin me.erasing \cup erased
  BY <1>3, <1>6 DEF Inv, RunAheadInv, SessionsKept
<1>18. me.erasing \cup erased \subseteq ForkIds
  BY <1>1 DEF Reviewers, WorldTypes
<1>19. SessionsKept(forks', me', move')
  BY <1>1, <1>5, <1>8, <1>12, <1>17, <1>18 DEF Inv, RunAheadInv, SessionsKept
<1>20. SwitchKept(round', forks', me', move') /\ SettleKept(round', forks', path', me', move')
  BY <1>12 DEF SwitchKept, SettleKept
<1>21. MoveKept(me', move') /\ AttemptsKept(round', forks', me', queue')
  BY <1>1, <1>7, <1>12, <1>15 DEF Inv, RunAheadInv, MoveKept, AttemptsKept
<1>22. RunAheadInv(round', forks', path', me', queue', move')
  BY <1>13, <1>14, <1>16, <1>19, <1>20, <1>21 DEF RunAheadInv
<1>23. WorldTypes'
  <2>1. <<q, f>> \in Turns
    BY <1>3 DEF Turns
  <2> QED  BY <1>1, <1>2, <1>3, <2>1 DEF WorldTypes
<1>24. \A g \in erased' : forks'[g].discarded
  BY <1>1, <1>19 DEF SessionsKept
<1> QED  BY <1>1, <1>22, <1>23, <1>24, WorldGrows

\* The idle agent is settled before its session is forked.
LEMMA SettleFirstKeeps == ASSUME Inv, SettleFirst PROVE Inv'
<1> DEFINE f == Min(Unsettled(forks, me))
<1>1. /\ WorldTypes /\ Types(round, forks, path, me, queue, move)
      /\ me \in Reviewers /\ forks \in [ForkIds -> Records] /\ path \in [Answers -> 0 .. MaxForks]
      /\ me.step = "idle" /\ round.out = 0 /\ me.taken = 0 /\ ~Moving(me)
      /\ UNCHANGED <<round, path, queue, sending, world>>
      /\ Unsettled(forks, me) # {}
  BY DEF SettleFirst, QuestionWaits, Inv, RunAheadInv, Types, Idle
<1>2. /\ move = NoMove /\ me.switching = NoSwitch /\ me.settling = NoSettling
      /\ me.finishing = 0 /\ me.held = NoTurn
  <2>1. MoveKept(me, move) /\ FinishingKept(round, forks, me, queue)
        /\ AttemptsKept(round, forks, me, queue)
    BY DEF Inv, RunAheadInv
  <2>2. move = NoMove
    BY <1>1, <2>1 DEF MoveKept
  <2>3. me.switching = NoSwitch /\ me.settling = NoSettling
    BY <1>1 DEF Moving
  <2>4. me.finishing = 0
    BY <1>1, <2>1 DEF FinishingKept
  <2>5. me.held = NoTurn
    BY <1>1, <2>1 DEF AttemptsKept
  <2> QED  BY <2>2, <2>3, <2>4, <2>5
<1>3. f \in Late(forks) /\ f \in ForkIds
  <2>1. OneLate(forks)
    BY DEF Inv, RunAheadInv
  <2>2. Late(forks) # {}
    BY <1>1 DEF Unsettled, Late
  <2>3. f \in Late(forks)
    BY <1>2, <2>1, <2>2, MinOfLate
  <2> QED  BY <2>3 DEF Late
<1>4. CASE /\ me' = Settling(me, forks, f, path, round.taken, TRUE)
           /\ move' = Draining(me'.settling.to) /\ UNCHANGED forks
  <2>1. SettleReady(round, forks, path, me, queue, f)
    BY <1>1, <1>2, <1>3 DEF SettleReady, Inv, RunAheadInv
  <2>2. SettleStarted(round, forks, path, me, queue, f, me', move')
    <3>1. me' = Settling(me, forks, f, path, round.taken, TRUE) /\ move' = Draining(me'.settling.to)
      BY <1>4
    <3> HIDE DEF f
    <3> QED  BY <1>1, <2>1, <3>1, SettleStarts
  <2> HIDE DEF f
  <2>3. TakenKept(round', forks', me') /\ FinishingKept(round', forks', me', queue')
    BY <2>2 DEF SettleStarted, TakenKept, FinishingKept
  <2>4. AttemptsKept(round', forks', me', queue')
    BY <1>1, <1>2, <2>2 DEF SettleStarted, AttemptsKept, Inv, RunAheadInv
  <2>5. RunAheadInv(round', forks', path', me', queue', move')
    BY <1>1, <1>4, <2>2, <2>3, <2>4 DEF Inv, RunAheadInv, SettleStarted
  <2> QED  BY <1>1, <2>5, SameWorld
<1>5. CASE /\ agent.hooks = "none" /\ me' = Erasing(me, {f}) /\ forks' = Restarted(forks, f)
           /\ UNCHANGED move
  <2>1. /\ me' \in Reviewers /\ me'.switching = NoSwitch /\ me'.settling = NoSettling
        /\ me'.taken = 0 /\ me'.finishing = 0 /\ me'.step = "idle" /\ me'.held = NoTurn
        /\ me'.access = me.access /\ me'.erasing = me.erasing \cup {f} /\ me.erasing \subseteq ForkIds
    BY <1>1, <1>2, <1>3, <1>5 DEF Erasing, Reviewers
  <2>2. RecordsKept(forks) /\ OneLate(forks) /\ PathsKept(round, forks, path)
        /\ SessionsKept(forks, me, move)
    BY DEF Inv, RunAheadInv
  <2>3. f \notin Runs
    BY <1>3, <1>5, <2>2, NobodyRunsWithoutHooks
  <2> HIDE DEF f
  <2>4. LateLeft(round, forks, path, me', f, forks')
    BY <1>1, <1>3, <1>5, <2>1, <2>2, <2>3, LateLeaves DEF Restarted
  <2>5. Types(round', forks', path', me', queue', move')
    BY <1>1, <1>5, <2>1, <2>4 DEF Types, LateLeft
  <2>6. ~Moving(me')
    BY <2>1 DEF Moving
  <2>7. TakenKept(round', forks', me') /\ FinishingKept(round', forks', me', queue')
    BY <2>1 DEF TakenKept, FinishingKept
  <2>8. SwitchKept(round', forks', me', move') /\ SettleKept(round', forks', path', me', move')
    BY <2>1 DEF SwitchKept, SettleKept
  <2>9. MoveKept(me', move')
    BY <1>1, <1>2, <1>5, <2>1 DEF Inv, RunAheadInv, MoveKept
  <2>10. AttemptsKept(round', forks', me', queue')
    BY <1>1, <1>2, <2>1, <2>6 DEF Inv, RunAheadInv, AttemptsKept
  <2>11. RunAheadInv(round', forks', path', me', queue', move')
    BY <1>1, <1>2, <1>5, <2>4, <2>5, <2>7, <2>8, <2>9, <2>10 DEF Inv, RunAheadInv, LateLeft
  <2> QED  BY <1>1, <2>11, SameWorld
<1> QED  BY <1>4, <1>5 DEF SettleFirst

\* What the agent does, and what is typed in its pane, leaves the reviewer's part alone.
AgentGoesOn ==
    /\ WorldTypes' /\ UNCHANGED <<disk, me, queue, sending, erased>> /\ (early => early')
    /\ agent'.doing \in {agent.doing, NoTurn}
    /\ \A s \in Running' : s \in ForkIds => s \in Running \cup {move.to}
    /\ agent'.hooks = "none" => typed' = <<>> /\ agent'.session = NewSession
    /\ move' \in MoveSteps /\ move'.to = move.to /\ (move' = NoMove <=> move = NoMove)
    /\ move'.at \in {"draining", "failed"} =>
        /\ move.at \in {"draining", "failed"}
        /\ \A s \in Runs' : s \in ForkIds => s \in Runs
    /\ move'.at = "moved" => Runs' \subseteq {move.to, NewSession}
    /\ move'.at = "none" => move' = NoMove
    /\ move'.at \notin {"none", "draining"} => sending = NoTurn
    /\ me.step = "committed" /\ me.switching # NoSwitch =>
        Runs' \subseteq {me.switching.fork, NewSession}

\* A step of the agent or of the thread, with the reviewer as it was, keeps the invariant.
LEMMA AgentGoesOnKeeps == ASSUME Inv, AgentGoesOn PROVE Inv'
<1>1. /\ WorldTypes /\ Types(round, forks, path, me, queue, move) /\ WorldTypes'
      /\ me \in Reviewers /\ round \in Rounds
      /\ UNCHANGED <<round, forks, path, me, queue, sending, erased>>
  BY DEF Inv, RunAheadInv, Types, AgentGoesOn, disk
<1>2. Types(round, forks, path, me, queue, move)'
  BY <1>1 DEF AgentGoesOn, Types
<1>3. (RoundKept(round) /\ RecordsKept(forks) /\ OneLate(forks) /\ PathsKept(round, forks, path))'
  <2>2. RecordsKept(forks)'
    <3>1. RecordsKept(forks) /\ forks' = forks
      BY <1>1 DEF Inv, RunAheadInv
    <3>2. \A f \in ForkIds : Followed(forks[f]) => Followed(forks[f])'
      BY <1>1 DEF Followed, AgentGoesOn
    <3> QED  BY <3>1, <3>2 DEF RecordsKept
  <2> QED  BY <1>1, <2>2 DEF Inv, RunAheadInv, RoundKept, OneLate, PathsKept, Given, Late
<1>4. SessionsKept(forks, me, move)'
  <2>1. \A s \in ForkIds : Resumable(forks[s]) => Resumable(forks[s])'
    BY <1>1 DEF AgentGoesOn, Resumable
  <2> QED  BY <1>1, <2>1 DEF Inv, RunAheadInv, SessionsKept, AgentGoesOn
<1>5. Fresh(round) => Fresh(round)'
  BY <1>1, Bounds DEF Fresh, AgentGoesOn, NoTurn, Rounds
<1>6. TakenKept(round, forks, me)' /\ FinishingKept(round, forks, me, queue)'
  BY <1>1, <1>5 DEF Inv, RunAheadInv, TakenKept, FinishingKept, Prepared, Moving, Late
<1>7. SwitchKept(round, forks, me, move)'
  <2>1. SwitchKept(round, forks, me, move)
    BY DEF Inv, RunAheadInv
  <2>2. me.switching # NoSwitch => me.switching.fork \in ForkIds
    BY <1>1 DEF Reviewers, Switches
  <2>3. \A f \in ForkIds : Took(round, f)' = Took(round, f)
    BY <1>1 DEF Took
  <2>4. me' = me /\ forks' = forks /\ round' = round
    BY <1>1
  <2>5. SUFFICES ASSUME me.switching # NoSwitch
                 PROVE  LET f == me.switching.fork IN
                        /\ IF me.step = "committed" THEN move' = NoMove
                           ELSE move' # NoMove /\ move'.to = f
                        /\ me.step = "committed" =>
                            Runs' \subseteq {f, NewSession}
                        /\ move'.at \in {"draining", "failed"} => f \notin Runs'
    BY <2>1, <2>2, <2>3, <2>4 DEF SwitchKept
  <2> QED  BY <2>1, <2>2, <2>5 DEF SwitchKept, AgentGoesOn
<1>8. SettleKept(round, forks, path, me, move)'
  <2>1. me.settling # NoSettling => me.settling.fork \in ForkIds
    BY <1>1 DEF Reviewers, Settlings
  <2> QED  BY <1>1, <2>1 DEF Inv, RunAheadInv, SettleKept, AgentGoesOn, Took
<1>9. MoveKept(me, move)'
  BY <1>1 DEF Inv, RunAheadInv, MoveKept, AgentGoesOn, Moving
<1>10. AttemptsKept(round, forks, me, queue)'
  <2>1. AttemptsKept(round, forks, me, queue)
    BY DEF Inv, RunAheadInv
  <2>2. Asked(NoTurn, round) /\ NoTurn[2] = 0
    BY DEF Asked, NoTurn
  <2>3. Asked(agent.doing, round)'
    BY <1>1, <2>1, <2>2 DEF AttemptsKept, AgentGoesOn, Asked
  <2>4. (sending # NoTurn => agent.doing[2] < sending[2])'
    <3>1. sending # NoTurn => sending[2] > 0
      BY <1>1, <2>1, Bounds DEF AttemptsKept, Asked, WorldTypes, Pairs
    <3> QED  BY <1>1, <2>1, <2>2, <3>1 DEF AttemptsKept, AgentGoesOn
  <2> QED  BY <1>1, <1>5, <2>1, <2>3, <2>4 DEF AttemptsKept, Asked, Moving
<1> QED
  BY <1>1, <1>2, <1>3, <1>4, <1>6, <1>7, <1>8, <1>9, <1>10 DEF Inv, RunAheadInv

\* What a queue holds with one more, and without its first.
LEMMA RangeOfAppend ==
    ASSUME NEW S, NEW s \in Seq(S), NEW x \in S
    PROVE  Range(Append(s, x)) = Range(s) \cup {x}
<1>1. DOMAIN Append(s, x) = 1 .. Len(s) + 1 /\ DOMAIN s = 1 .. Len(s) /\ Len(s) \in Nat
  OBVIOUS
<1>2. \A i \in 1 .. Len(s) : Append(s, x)[i] = s[i]
  OBVIOUS
<1>3. Append(s, x)[Len(s) + 1] = x
  OBVIOUS
<1>4. DOMAIN Append(s, x) = DOMAIN s \cup {Len(s) + 1}
  BY <1>1
<1> HIDE <1>1
<1>5. \A i \in DOMAIN s : Append(s, x)[i] = s[i]
  BY <1>1, <1>2
<1> QED  BY <1>3, <1>4, <1>5 DEF Range

LEMMA RangeOfTail ==
    ASSUME NEW S, NEW s \in Seq(S), s # <<>>
    PROVE  /\ Tail(s) \in Seq(S) /\ Head(s) \in S
           /\ Range(Tail(s)) \subseteq Range(s) /\ Head(s) \in Range(s)
<1>1. Len(s) \in Nat \ {0} /\ DOMAIN s = 1 .. Len(s) /\ Head(s) = s[1]
  OBVIOUS
<1>2. DOMAIN Tail(s) = 1 .. Len(s) - 1 /\ \A i \in 1 .. Len(s) - 1 : Tail(s)[i] = s[i + 1]
  OBVIOUS
<1>3. \A i \in DOMAIN Tail(s) : i + 1 \in DOMAIN s /\ Tail(s)[i] = s[i + 1]
  BY <1>1, <1>2
<1>4. 1 \in DOMAIN s
  BY <1>1
<1> QED  BY <1>1, <1>3, <1>4 DEF Range

\* The steps of the move that change nothing else.
LEMMA MoveStepTyped ==
    ASSUME Inv, NEW at \in Steps \ {"none"}, move # NoMove, move' = [move EXCEPT !.at = at]
    PROVE  move' \in MoveSteps /\ move'.to = move.to /\ move'.at = at /\ move' # NoMove
<1>1. move \in MoveSteps
  BY DEF Inv, RunAheadInv, Types
<1>2. move' \in MoveSteps /\ move'.to = move.to /\ move'.at = at
  BY <1>1 DEF MoveSteps
<1>3. NoMove.at = "none"
  BY DEF NoMove
<1> QED  BY <1>2, <1>3

\* The thread types the session, or gives up.
LEMMA MoveBeginsKeeps == ASSUME Inv, MoveBegins PROVE Inv'
<1>1. /\ WorldTypes /\ move.at = "draining" /\ sending = NoTurn /\ move \in MoveSteps
      /\ UNCHANGED <<disk, me, queue, sending, agent, contents, erased, early>>
      /\ SessionsKept(forks, me, move) /\ SwitchKept(round, forks, me, move)
  BY DEF MoveBegins, Inv, RunAheadInv, Types
<1>2. move # NoMove /\ move.to \in Sessions
  BY <1>1 DEF NoMove, MoveSteps
<1>3. me.switching # NoSwitch => me.step # "committed"
  BY <1>1, <1>2 DEF SwitchKept
<1>4. CASE /\ agent.hooks = "heard" /\ typed' = Append(typed, move.to)
           /\ move' = [move EXCEPT !.at = "typed"]
  <2>1. /\ move' \in MoveSteps /\ move'.to = move.to /\ move'.at = "typed" /\ move' # NoMove
    BY <1>2, <1>4, MoveStepTyped DEF Steps
  <2>2. Range(typed') = Range(typed) \cup {move.to} /\ typed' \in Seq(Sessions)
    BY <1>1, <1>2, <1>4, RangeOfAppend DEF WorldTypes
  <2>3. Running' = Running \cup {move.to}
    BY <1>1, <2>2 DEF Runs, Running
  <2> QED
    BY <1>1, <1>2, <1>3, <1>4, <2>1, <2>2, <2>3, AgentGoesOnKeeps DEF AgentGoesOn, WorldTypes
<1>5. CASE move' = [move EXCEPT !.at = "failed"] /\ UNCHANGED typed
  <2>1. /\ move' \in MoveSteps /\ move'.to = move.to /\ move'.at = "failed" /\ move' # NoMove
    BY <1>2, <1>5, MoveStepTyped DEF Steps
  <2>2. Runs' = Runs /\ Running' = Running
    BY <1>1, <1>5 DEF Runs, Running
  <2> QED
    BY <1>1, <1>2, <1>3, <1>5, <2>1, <2>2, AgentGoesOnKeeps DEF AgentGoesOn, WorldTypes, SessionsKept
<1> QED  BY <1>4, <1>5 DEF MoveBegins

\* The thread waits no longer.
LEMMA MoveTimesOutKeeps == ASSUME Inv, MoveTimesOut PROVE Inv'
<1>1. /\ WorldTypes /\ move.at = "typed" /\ move' = [move EXCEPT !.at = "typed in vain"]
      /\ UNCHANGED <<disk, me, queue, sending, agent, typed, contents, erased, early>>
      /\ SessionsKept(forks, me, move) /\ SwitchKept(round, forks, me, move)
      /\ MoveKept(me, move)
  BY DEF MoveTimesOut, Inv, RunAheadInv, world
<1>2. move # NoMove
  <2>1. NoMove.at = "none"
    BY DEF NoMove
  <2> QED  BY <1>1, <2>1
<1>3. me.switching # NoSwitch => me.step # "committed"
  BY <1>1, <1>2 DEF SwitchKept
<1>4. /\ move' \in MoveSteps /\ move'.to = move.to /\ move'.at = "typed in vain" /\ move' # NoMove
  BY <1>1, <1>2, MoveStepTyped DEF Steps
<1>5. Runs' = Runs /\ Running' = Running
  BY <1>1 DEF Runs, Running
<1> QED
  BY <1>1, <1>2, <1>3, <1>4, <1>5, AgentGoesOnKeeps
     DEF AgentGoesOn, WorldTypes, SessionsKept, MoveKept, Resumable, Running

\* The agent resumes the session it was told to first, and the thread hears it or does not.
LEMMA AgentResumesKeeps == ASSUME Inv, AgentResumes PROVE Inv'
<1>1. /\ WorldTypes /\ typed # <<>> /\ typed' = Tail(typed) /\ move \in MoveSteps
      /\ agent' = [agent EXCEPT !.session = Head(typed)]
      /\ UNCHANGED <<disk, me, queue, sending, contents, erased>>
      /\ SessionsKept(forks, me, move) /\ SwitchKept(round, forks, me, move)
      /\ MoveKept(me, move)
  BY DEF AgentResumes, Inv, RunAheadInv, Types
<1>2. /\ typed' \in Seq(Sessions) /\ Head(typed) \in Sessions
      /\ Range(typed') \subseteq Range(typed) /\ Head(typed) \in Range(typed)
  BY <1>1, RangeOfTail DEF WorldTypes
<1>3. /\ agent'.session = Head(typed) /\ agent'.doing = agent.doing /\ agent'.hooks = agent.hooks
      /\ early' \in BOOLEAN /\ (early => early')
      /\ agent' \in [session : Sessions, hooks : {"heard", "unheard", "none"}, doing : Pairs]
  BY <1>1, <1>2 DEF WorldTypes, AgentResumes
<1>4. WorldTypes' /\ Running' \subseteq Running /\ Runs' \subseteq Runs
  <2>1. Running' \subseteq Running
    BY <1>1, <1>2, <1>3 DEF Running
  <2>2. Runs' \subseteq Runs
    BY <1>3, <2>1 DEF Runs, WorldTypes
  <2> QED  BY <1>1, <1>2, <1>3, <2>1, <2>2 DEF WorldTypes
<1>5. agent.hooks # "none" /\ (me.switching # NoSwitch /\ me.step = "committed" => move = NoMove)
  BY <1>1 DEF SessionsKept, SwitchKept
<1>6. CASE /\ move.at = "typed" /\ Head(typed) = move.to /\ move' = [move EXCEPT !.at = "moved"]
           /\ early' = (early \/ ~(Range(typed') \subseteq {move.to}))
  <2>1. move # NoMove
    BY <1>6 DEF NoMove
  <2>2. /\ move' \in MoveSteps /\ move'.to = move.to /\ move'.at = "moved" /\ move' # NoMove
    BY <1>6, <2>1, MoveStepTyped DEF Steps
  <2>3. Runs' \subseteq {move.to, NewSession}
    BY <1>3, <1>6 DEF Runs, Running
  <2>4. sending = NoTurn
    BY <1>1, <1>6 DEF MoveKept
  <2>5. /\ \A s \in Running' : s \in ForkIds => s \in Running \cup {move.to}
        /\ me.switching # NoSwitch => me.step # "committed"
    BY <1>4, <1>5, <2>1
  <2> QED
    BY <1>1, <1>3, <1>4, <1>5, <2>1, <2>2, <2>3, <2>4, <2>5, AgentGoesOnKeeps DEF AgentGoesOn
<1>7. CASE UNCHANGED <<move, early>>
  BY <1>1, <1>3, <1>4, <1>5, <1>7, AgentGoesOnKeeps DEF AgentGoesOn, MoveKept, SwitchKept
<1> QED  BY <1>6, <1>7 DEF AgentResumes

\* It never does.
LEMMA AgentIgnoresKeeps == ASSUME Inv, AgentIgnores PROVE Inv'
<1>1. /\ WorldTypes /\ typed # <<>> /\ typed' = Tail(typed) /\ move \in MoveSteps
      /\ UNCHANGED <<disk, me, queue, sending, move, agent, contents, erased, early>>
      /\ SessionsKept(forks, me, move) /\ SwitchKept(round, forks, me, move)
      /\ MoveKept(me, move)
  BY DEF AgentIgnores, Inv, RunAheadInv, Types
<1>2. typed' \in Seq(Sessions) /\ Range(typed') \subseteq Range(typed)
  BY <1>1, RangeOfTail DEF WorldTypes
<1>3. WorldTypes' /\ Running' \subseteq Running /\ Runs' \subseteq Runs
  BY <1>1, <1>2 DEF WorldTypes, Runs, Running
<1>4. agent.hooks # "none"
  BY <1>1 DEF SessionsKept
<1> QED  BY <1>1, <1>3, <1>4, AgentGoesOnKeeps DEF AgentGoesOn, MoveKept, SwitchKept

\* The agent's turn ends without a call.
LEMMA AgentIdlesKeeps == ASSUME Inv, AgentIdles PROVE Inv'
<1>1. /\ WorldTypes /\ agent' = [agent EXCEPT !.doing = NoTurn] /\ move \in MoveSteps
      /\ UNCHANGED <<disk, me, queue, sending, move, typed, contents, erased, early>>
      /\ SessionsKept(forks, me, move) /\ SwitchKept(round, forks, me, move)
      /\ MoveKept(me, move)
  BY DEF AgentIdles, Inv, RunAheadInv, Types
<1>2. agent'.session = agent.session /\ agent'.hooks = agent.hooks /\ agent'.doing = NoTurn
      /\ WorldTypes'
  <2>1. NoTurn \in Pairs
    BY Bounds DEF NoTurn, Pairs
  <2> QED  BY <1>1, <2>1 DEF WorldTypes
<1>3. Runs' = Runs /\ Running' = Running
  BY <1>1, <1>2 DEF Runs, Running
<1> QED
  BY <1>1, <1>2, <1>3, AgentGoesOnKeeps DEF AgentGoesOn, MoveKept, SessionsKept, SwitchKept

\* The agent is started anew.
LEMMA AgentRestartsKeeps == ASSUME Inv, AgentRestarts PROVE Inv'
<1>1. /\ WorldTypes /\ typed' = <<>> /\ move \in MoveSteps
      /\ contents' = [contents EXCEPT ![NewSession] = {<<0, 1>>}]
      /\ UNCHANGED <<disk, me, queue, sending, move, erased, early>>
      /\ SessionsKept(forks, me, move) /\ SwitchKept(round, forks, me, move)
      /\ MoveKept(me, move)
  BY DEF AgentRestarts, Inv, RunAheadInv, Types
<1>2. PICK hooks \in {"heard", "none"} :
        agent' = [session |-> NewSession, hooks |-> hooks, doing |-> NoTurn]
  BY DEF AgentRestarts
<1>3. WorldTypes'
  BY <1>1, <1>2, Bounds DEF WorldTypes, NoTurn, Pairs, Sessions, NewSession, Turns
<1>4. Range(typed') = {} /\ Running' = {NewSession} /\ Runs' \subseteq {NewSession} /\ NewSession \notin ForkIds
  BY <1>1, <1>2, Bounds DEF Runs, Running, Range, NewSession, ForkIds
<1> QED
  BY <1>1, <1>2, <1>3, <1>4, AgentGoesOnKeeps DEF AgentGoesOn, MoveKept

\* The round rd is round, but for the answer that is out.
LEMMA FailedRound ==
    ASSUME Inv, NEW q, NEW a, NEW m
    PROVE  LET rd == TurnFailed(round, m, q, a) IN
           /\ rd \in Rounds /\ RoundKept(rd) /\ rd.taken = round.taken /\ rd.attempt = round.attempt
           /\ rd.retry = round.retry /\ rd.made = round.made
           /\ rd = round \/ rd.out = 0
           /\ m.pending = q /\ round.attempt = a /\ round.out = q => rd.out = 0
<1>1. round \in Rounds /\ RoundKept(round) /\ 0 \in 0 .. MaxAnswers
  BY Bounds DEF Inv, RunAheadInv, Types
<1>2. LET rd == [round EXCEPT !.out = 0] IN
      /\ rd \in Rounds /\ rd.taken = round.taken /\ rd.attempt = round.attempt
      /\ rd.retry = round.retry /\ rd.made = round.made /\ rd.out = 0
  BY <1>1 DEF Rounds
<1>3. RoundKept([round EXCEPT !.out = 0])
  BY <1>1, <1>2 DEF RoundKept, Given
<1> QED  BY <1>1, <1>2, <1>3 DEF TurnFailed

\* The courier takes the prompt that waits.
LEMMA PromptStartsKeeps == ASSUME Inv, PromptStarts PROVE Inv'
<1>1. /\ WorldTypes /\ Types(round, forks, path, me, queue, move)
      /\ queue # NoTurn /\ sending = NoTurn /\ ~Moving(me) /\ sending' = AwaitedTurn
      /\ queue' = NoTurn /\ UNCHANGED <<round, forks, path, me, move, agent, typed, contents, erased, early>>
  BY DEF PromptStarts, Inv, RunAheadInv, disk, world
<1>2. NoTurn \in Pairs /\ NoTurn[2] = 0 /\ Asked(NoTurn, round)
  BY Bounds DEF NoTurn, Pairs, Asked
<1>3. sending' \in Pairs /\ WorldTypes'
  BY <1>1, <1>2 DEF WorldTypes, Types, AwaitedTurn
<1>4. Types(round, forks, path, me, queue, move)'
  BY <1>1, <1>2 DEF Types
<1>5. me.finishing = 0 /\ move = NoMove /\ me.held = NoTurn
  BY <1>1 DEF Inv, RunAheadInv, FinishingKept, MoveKept, AttemptsKept
<1>6. (RoundKept(round) /\ RecordsKept(forks) /\ OneLate(forks) /\ PathsKept(round, forks, path))'
  BY <1>1 DEF Inv, RunAheadInv, RoundKept, RecordsKept, OneLate, PathsKept, Given, Late, Followed
<1>7. SessionsKept(forks, me, move)'
  BY <1>1 DEF Inv, RunAheadInv, SessionsKept, Runs, Running, Resumable
<1>8. TakenKept(round, forks, me)' /\ FinishingKept(round, forks, me, queue)'
  BY <1>1, <1>5 DEF Inv, RunAheadInv, TakenKept, FinishingKept, Prepared, Moving, Late
<1>9. SwitchKept(round, forks, me, move)' /\ SettleKept(round, forks, path, me, move)'
  BY <1>1 DEF SwitchKept, SettleKept, Moving
<1>10. MoveKept(me, move)'
  BY <1>1, <1>5 DEF Inv, RunAheadInv, MoveKept, Moving, NoMove
<1>11. AttemptsKept(round, forks, me, queue)'
  <2>1. AttemptsKept(round, forks, me, queue)
    BY DEF Inv, RunAheadInv
  <2>2. Asked(sending', round) /\ (sending' # NoTurn => agent.doing[2] < sending'[2])
    <3>1. sending' # NoTurn => sending' = queue /\ queue[2] = round.attempt
      BY <1>1 DEF AwaitedTurn
    <3>2. sending' # NoTurn => Fresh(round)
      BY <1>1, <2>1, <3>1 DEF AttemptsKept, Asked
    <3> QED  BY <1>2, <2>1, <3>1, <3>2 DEF AttemptsKept, Fresh
  <2> QED  BY <1>1, <1>2, <1>5, <2>1, <2>2 DEF AttemptsKept, Asked, Moving
<1> QED
  BY <1>3, <1>4, <1>6, <1>7, <1>8, <1>9, <1>10, <1>11 DEF Inv, RunAheadInv

\* The idle agent takes it.
LEMMA PromptArrivesKeeps == ASSUME Inv, PromptArrives PROVE Inv'
<1>1. /\ WorldTypes /\ Types(round, forks, path, me, queue, move)
      /\ sending # NoTurn /\ sending' = NoTurn /\ agent' = [agent EXCEPT !.doing = sending]
      /\ contents' = [contents EXCEPT ![agent.session] = @ \cup {<<sending[1], 0>>}]
      /\ UNCHANGED <<round, forks, path, me, queue, move, typed, erased, early>>
  BY DEF PromptArrives, Inv, RunAheadInv, disk
<1>2. NoTurn \in Pairs /\ NoTurn[2] = 0 /\ Asked(NoTurn, round)
  BY Bounds DEF NoTurn, Pairs, Asked
<1>3. /\ agent'.session = agent.session /\ agent'.hooks = agent.hooks /\ agent'.doing = sending
      /\ agent' \in [session : Sessions, hooks : {"heard", "unheard", "none"}, doing : Pairs]
  BY <1>1 DEF WorldTypes
<1>4. WorldTypes'
  <2>1. <<sending[1], 0>> \in Turns
    BY <1>1, Bounds DEF WorldTypes, Pairs, Turns
  <2> QED  BY <1>1, <1>2, <1>3, <2>1 DEF WorldTypes
<1>5. Runs' = Runs /\ Running' = Running
  BY <1>1, <1>3 DEF Runs, Running
<1>6. Types(round, forks, path, me, queue, move)'
  BY <1>1 DEF Types
<1>7. (RoundKept(round) /\ RecordsKept(forks) /\ OneLate(forks) /\ PathsKept(round, forks, path))'
  BY <1>1 DEF Inv, RunAheadInv, RoundKept, RecordsKept, OneLate, PathsKept, Given, Late, Followed
<1>8. SessionsKept(forks, me, move)'
  BY <1>1, <1>3, <1>5 DEF Inv, RunAheadInv, SessionsKept, Resumable, Running
<1>9. Fresh(round) => Fresh(round)'
  BY <1>1, <1>2, <1>3, Bounds DEF Fresh, Types, Rounds
<1>10. TakenKept(round, forks, me)' /\ FinishingKept(round, forks, me, queue)'
  BY <1>1, <1>9 DEF Inv, RunAheadInv, TakenKept, FinishingKept, Prepared, Moving, Late
<1>11. SwitchKept(round, forks, me, move)' /\ SettleKept(round, forks, path, me, move)'
  BY <1>1, <1>3, <1>5 DEF Inv, RunAheadInv, SwitchKept, SettleKept, Took
<1>12. MoveKept(me, move)'
  BY <1>1, <1>3 DEF Inv, RunAheadInv, MoveKept, Moving
<1>13. AttemptsKept(round, forks, me, queue)'
  BY <1>1, <1>2, <1>3, <1>9 DEF Inv, RunAheadInv, AttemptsKept, Asked, Moving
<1> QED
  BY <1>4, <1>6, <1>7, <1>8, <1>10, <1>11, <1>12, <1>13 DEF Inv, RunAheadInv

\* It was not typed.
LEMMA PromptFailsKeeps == ASSUME Inv, PromptFails PROVE Inv'
<1>1. /\ WorldTypes /\ Types(round, forks, path, me, queue, move)
      /\ sending' = NoTurn /\ round' = TurnFailed(round, me, sending[1], sending[2])
      /\ UNCHANGED <<forks, path, me, queue, move, agent, typed, contents, erased, early>>
  BY DEF PromptFails, Inv, RunAheadInv, world
<1>2. NoTurn \in Pairs /\ NoTurn[2] = 0 /\ Asked(NoTurn, round)
  BY Bounds DEF NoTurn, Pairs, Asked
<1>3. /\ round' \in Rounds /\ RoundKept(round') /\ round'.taken = round.taken
      /\ round'.attempt = round.attempt /\ round'.retry = round.retry /\ round'.made = round.made
      /\ round' = round \/ round'.out = 0
  BY <1>1, FailedRound
<1>4. Fresh(round) => round' = round /\ Fresh(round)'
  <2>1. Fresh(round) => sending[2] # round.attempt
    BY <1>1, Bounds DEF Fresh, WorldTypes, Pairs
  <2> QED  BY <1>1, <1>2, <2>1, Bounds DEF Fresh, TurnFailed, Types, Rounds
<1>5. Runs' = Runs /\ Running' = Running /\ WorldTypes'
  BY <1>1, <1>2 DEF Runs, Running, WorldTypes
<1>6. Types(round, forks, path, me, queue, move)'
  BY <1>1, <1>3 DEF Types
<1>7. (RoundKept(round) /\ RecordsKept(forks) /\ OneLate(forks) /\ PathsKept(round, forks, path))'
  BY <1>1, <1>3 DEF Inv, RunAheadInv, RoundKept, RecordsKept, OneLate, PathsKept, Given, Late, Followed
<1>8. SessionsKept(forks, me, move)'
  BY <1>1, <1>5 DEF Inv, RunAheadInv, SessionsKept, Resumable, Running
<1>9. TakenKept(round, forks, me)'
  BY <1>1, <1>3 DEF Inv, RunAheadInv, TakenKept, Prepared, Moving, Late
<1>10. FinishingKept(round, forks, me, queue)'
  BY <1>1, <1>4 DEF Inv, RunAheadInv, FinishingKept, Prepared, Moving, Late
<1>11. SwitchKept(round, forks, me, move)'
  BY <1>1, <1>3, <1>5 DEF Inv, RunAheadInv, SwitchKept, Took
<1>12. SettleKept(round, forks, path, me, move)'
  BY <1>1, <1>3 DEF Inv, RunAheadInv, SettleKept, Took
<1>13. MoveKept(me, move)'
  BY <1>1, <1>5 DEF Inv, RunAheadInv, MoveKept, Moving
<1>14. AttemptsKept(round, forks, me, queue)'
  BY <1>1, <1>2, <1>3, <1>4 DEF Inv, RunAheadInv, AttemptsKept, Asked, Moving
<1> QED
  BY <1>5, <1>6, <1>7, <1>8, <1>9, <1>10, <1>11, <1>12, <1>13, <1>14 DEF Inv, RunAheadInv

\* A turn that the reviewer takes is the round's last attempt, which nothing waits to take over.
LEMMA TakenTurn ==
    ASSUME Inv, ~AgentIdle, me.access = agent.doing[2], round.out = agent.doing[1]
    PROVE  /\ agent.doing[2] = round.attempt /\ round.out \in Answers /\ ~Fresh(round)
           /\ ~Moving(me) /\ me.finishing = 0 /\ me.taken = 0
           /\ round.out = round.made
<1>1. /\ agent.doing \in Pairs /\ round \in Rounds /\ AttemptsKept(round, forks, me, queue)
      /\ RoundKept(round)
  BY DEF Inv, RunAheadInv, WorldTypes, Types
<1>2. /\ agent.doing[1] # 0 /\ agent.doing[2] # 0 /\ agent.doing[2] <= round.attempt
  BY <1>1 DEF AttemptsKept, Asked, AgentIdle
<1>3. agent.doing[2] = round.attempt
  BY <1>1, <1>2, Bounds DEF AttemptsKept, Pairs, Rounds
<1>4. ~Fresh(round)
  BY <1>1, <1>3, Bounds DEF Fresh, Rounds
<1>5. ~Moving(me)
  BY <1>1, <1>2, <1>4 DEF AttemptsKept
<1>6. me.finishing = 0 /\ me.taken = 0
  BY <1>2, <1>4 DEF Inv, RunAheadInv, FinishingKept, TakenKept
<1>7. round.out \in Answers /\ round.out = round.made
  BY <1>1, <1>2, Bounds DEF Rounds, Answers, RoundKept
<1> QED  BY <1>3, <1>4, <1>5, <1>6, <1>7

\* The agent's turn ends with a call.
LEMMA AgentSubmitsKeeps == ASSUME Inv, AgentSubmits PROVE Inv'
<1> DEFINE q == agent.doing[1]
           authorized == me.access = agent.doing[2]
<1>1. /\ WorldTypes /\ Types(round, forks, path, me, queue, move) /\ ~AgentIdle
      /\ agent' = [agent EXCEPT !.doing = NoTurn,
                     !.hooks = IF authorized /\ @ = "unheard" THEN "heard" ELSE @]
      /\ UNCHANGED <<forks, path, me, queue, sending, move, typed, contents, erased, early>>
      /\ round \in Rounds /\ move \in MoveSteps
  BY DEF AgentSubmits, Inv, RunAheadInv, Types
<1>2. NoTurn \in Pairs /\ NoTurn[2] = 0 /\ Asked(NoTurn, round)
  BY Bounds DEF NoTurn, Pairs, Asked
<1>3. /\ agent'.session = agent.session /\ agent'.doing = NoTurn
      /\ agent'.hooks = "none" => agent.hooks = "none"
      /\ agent' \in [session : Sessions, hooks : {"heard", "unheard", "none"}, doing : Pairs]
  BY <1>1, <1>2 DEF WorldTypes
<1>4. WorldTypes' /\ Runs' = Runs /\ Running' = Running
  BY <1>1, <1>3 DEF WorldTypes, Runs, Running
<1>5. CASE round' = round
  BY <1>1, <1>3, <1>4, <1>5, AgentGoesOnKeeps
     DEF AgentGoesOn, MoveKept, SessionsKept, SwitchKept, Inv, RunAheadInv, disk, Resumable, Running
<1>6. CASE /\ authorized /\ round.out = q
           /\ round' = [round EXCEPT !.taken = @ \cup {<<q, 0>>}, !.out = 0, !.retry = 0]
  <2>1. /\ q \in Answers /\ ~Fresh(round) /\ ~Moving(me) /\ me.finishing = 0 /\ me.taken = 0
        /\ q = round.made
    BY <1>1, <1>6, TakenTurn
  <2>2. /\ round' \in Rounds /\ round'.taken = round.taken \cup {<<q, 0>>} /\ round'.out = 0
        /\ round'.retry = 0 /\ round'.attempt = round.attempt /\ round'.made = round.made
    <3>1. <<q, 0>> \in Turns /\ 0 \in 0 .. MaxAnswers
      BY <2>1, Bounds DEF Turns, Answers
    <3>2. round' = [round EXCEPT !.taken = @ \cup {<<q, 0>>}, !.out = 0, !.retry = 0]
      BY <1>6
    <3> HIDE DEF q
    <3> QED  BY <1>1, <3>1, <3>2 DEF Rounds
  <2> HIDE DEF q, authorized
  <2>3. RoundKept(round')
    <3>1. \A t \in round.taken : t[1] <= round.made
      BY DEF Inv, RunAheadInv, RoundKept
    <3>2. q <= round.made
      BY <2>1, Bounds DEF Answers
    <3> QED  BY <2>2, <3>1, <3>2 DEF RoundKept
  <2>4. \A f \in ForkIds, x \in Answers : <<x, f>> \in round'.taken => <<x, f>> \in round.taken
    BY <2>2, Bounds DEF ForkIds
  <2>5. PathsKept(round, forks, path)'
    BY <1>1, <2>4 DEF Inv, RunAheadInv, PathsKept, Late
  <2>6. (RecordsKept(forks) /\ OneLate(forks))'
    BY <1>1 DEF Inv, RunAheadInv, RecordsKept, OneLate, Late, Followed
  <2>7. SessionsKept(forks, me, move)'
    BY <1>1, <1>3, <1>4 DEF Inv, RunAheadInv, SessionsKept, Resumable, Running
  <2>8. TakenKept(round, forks, me)' /\ FinishingKept(round, forks, me, queue)'
    BY <1>1, <2>1 DEF TakenKept, FinishingKept
  <2>9. SwitchKept(round, forks, me, move)' /\ SettleKept(round, forks, path, me, move)'
    BY <1>1, <2>1 DEF SwitchKept, SettleKept, Moving
  <2>10. MoveKept(me, move)'
    BY <1>1, <1>3, <1>4 DEF Inv, RunAheadInv, MoveKept, Moving
  <2>11. AttemptsKept(round, forks, me, queue)'
    <3>1. AttemptsKept(round, forks, me, queue)
      BY DEF Inv, RunAheadInv
    <3>2. sending # NoTurn => 0 < sending[2]
      BY <1>1, <3>1, Bounds DEF AttemptsKept, Asked, WorldTypes, Pairs
    <3> QED
      BY <1>1, <1>2, <1>3, <2>1, <2>2, <3>1, <3>2 DEF AttemptsKept, Asked, Moving
  <2>12. Types(round, forks, path, me, queue, move)'
    BY <1>1, <2>2 DEF Types
  <2> QED
    BY <1>4, <2>3, <2>5, <2>6, <2>7, <2>8, <2>9, <2>10, <2>11, <2>12 DEF Inv, RunAheadInv
<1> QED  BY <1>5, <1>6 DEF AgentSubmits

\* The reviewer cancels the answer.
LEMMA CancelAnswerKeeps == ASSUME Inv, CancelAnswer PROVE Inv'
<1> DEFINE q == round.retry
           f == me.finishing
<1>1. /\ WorldTypes /\ Types(round, forks, path, me, queue, move)
      /\ me \in Reviewers /\ round \in Rounds /\ path \in [Answers -> 0 .. MaxForks]
      /\ forks \in [ForkIds -> Records] /\ me.step = "idle" /\ q # 0
      /\ round' = [round EXCEPT !.out = 0, !.retry = 0]
      /\ UNCHANGED <<sending, move, world>>
  BY DEF CancelAnswer, Inv, RunAheadInv, Types, Idle
<1>2. /\ round' \in Rounds /\ round'.taken = round.taken /\ round'.out = 0 /\ round'.retry = 0
      /\ round'.attempt = round.attempt /\ round'.made = round.made
  <2>1. 0 \in 0 .. MaxAnswers /\ round' = [round EXCEPT !.out = 0, !.retry = 0] /\ round \in Rounds
    BY <1>1, Bounds
  <2> QED  BY <2>1 DEF Rounds
<1>3. RoundKept(round') /\ me.taken = 0
  BY <1>1, <1>2 DEF Inv, RunAheadInv, RoundKept, TakenKept
<1>4. AttemptsKept(round, forks, me, queue) /\ MoveKept(me, move)
      /\ SwitchKept(round, forks, me, move) /\ SettleKept(round, forks, path, me, move)
      /\ SessionsKept(forks, me, move) /\ PathsKept(round, forks, path)
      /\ RecordsKept(forks) /\ OneLate(forks)
  BY DEF Inv, RunAheadInv
<1>5. CASE /\ me.pending = q
           /\ me' = Erasing([me EXCEPT !.access = 0, !.pending = 0, !.finishing = 0], {f} \ {0})
           /\ queue' = NoTurn
           /\ forks' = Discard(forks, {f})
           /\ path' = IF f # 0 THEN [path EXCEPT ![q] = 0] ELSE path
  <2>1. f # 0 => f \in ForkIds /\ Prepared(forks, f) /\ ~IsAgentSession(forks[f])
    BY <1>1, Bounds DEF Inv, RunAheadInv, FinishingKept, Prepared, Reviewers, ForkIds, IsAgentSession
  <2>2. SameRoles(forks, forks') /\ (f # 0 => forks'[f].discarded)
    <3>1. \A g \in {f} \cap ForkIds : forks[g] # NoFork
      BY <2>1, Bounds DEF ForkIds, Prepared
    <3>2. SameRoles(forks, Discard(forks, {f})) /\ \A g \in {f} \cap ForkIds :
                ~IsAgentSession(forks[g]) => Discard(forks, {f})[g].discarded
      BY <1>1, <3>1, DiscardRoles
    <3> QED  BY <1>5, <2>1, <3>2
  <2>3. /\ me' \in Reviewers /\ me'.switching = me.switching /\ me'.settling = me.settling
        /\ me'.taken = 0 /\ me'.finishing = 0 /\ me'.step = "idle" /\ me'.held = me.held
        /\ me'.access = 0 /\ me'.erasing = me.erasing \cup ({f} \ {0})
    <3> DEFINE m == [me EXCEPT !.access = 0, !.pending = 0, !.finishing = 0]
    <3>1. /\ m \in Reviewers /\ m.switching = me.switching /\ m.settling = me.settling
          /\ m.taken = 0 /\ m.finishing = 0 /\ m.step = "idle" /\ m.held = me.held
          /\ m.access = 0 /\ m.erasing = me.erasing
      <4>1. /\ 0 \in 0 .. MaxAnswers /\ 0 \in 0 .. MaxAttempts + MaxForks /\ 0 \in 0 .. MaxForks
            /\ me \in Reviewers /\ me.step = "idle" /\ me.taken = 0
        BY <1>1, <1>3, Bounds
      <4> QED  BY <4>1 DEF Reviewers
    <3>2. {f} \ {0} \subseteq ForkIds /\ me' = Erasing(m, {f} \ {0})
      BY <1>5, <2>1
    <3> HIDE DEF m, f
    <3> QED  BY <3>1, <3>2 DEF Reviewers, Erasing
  <2>4. q \in Answers
    BY <1>1, Bounds DEF Rounds, Answers
  <2>5. path' \in [Answers -> 0 .. MaxForks] /\ PathsKept(round, forks, path')
    <3>1. CASE f # 0
      BY <1>1, <1>4, <1>5, <2>1, <2>4, <3>1, PathCleared DEF Prepared
    <3>2. CASE f = 0
      BY <1>1, <1>4, <1>5, <3>2
    <3> QED  BY <3>1, <3>2
  <2> HIDE DEF f, q
  <2>6. SettleKept(round', forks, path', me, move) /\ SwitchKept(round', forks, me, move)
    BY <1>1, <1>2, <1>4 DEF SettleKept, SwitchKept, Took
  <2>7. PathsKept(round', forks, path')
    BY <1>2, <2>5 DEF PathsKept
  <2>8. RolesKept(round', forks, path', me, move, forks')
    BY <1>1, <2>2, <2>5, SameRolesKeep
  <2>9. /\ RecordsKept(forks') /\ OneLate(forks') /\ PathsKept(round', forks', path')
        /\ SwitchKept(round', forks', me, move) /\ SettleKept(round', forks', path', me, move)
        /\ SessionsKept(forks', me, move)
    BY <1>4, <2>6, <2>7, <2>8 DEF RolesKept
  <2>10. SwitchKept(round', forks', me', move') /\ SettleKept(round', forks', path', me', move')
    BY <1>1, <2>3, <2>9 DEF SwitchKept, SettleKept
  <2>11. SessionsKept(forks', me', move')
    BY <1>1, <2>2, <2>3, <2>9 DEF SessionsKept
  <2>12. MoveKept(me', move')
    BY <1>1, <1>4, <2>3 DEF MoveKept, Moving
  <2>13. TakenKept(round', forks', me') /\ FinishingKept(round', forks', me', queue')
    BY <2>3 DEF TakenKept, FinishingKept
  <2>14. AttemptsKept(round', forks', me', queue')
    BY <1>2, <1>4, <1>5, <2>3 DEF AttemptsKept, Moving, Asked, Fresh, NoTurn
  <2>15. Types(round', forks', path', me', queue', move')
    <3>1. NoTurn \in Pairs /\ forks' \in [ForkIds -> Records] /\ move \in MoveSteps
      BY <1>1, <2>2, Bounds DEF NoTurn, Pairs, SameRoles, Types
    <3> QED  BY <1>1, <1>2, <1>5, <2>3, <2>5, <3>1 DEF Types
  <2>16. RunAheadInv(round', forks', path', me', queue', move')
    BY <1>3, <2>9, <2>10, <2>11, <2>12, <2>13, <2>14, <2>15 DEF RunAheadInv
  <2> QED  BY <1>1, <2>16, SameWorld
<1>6. CASE me.pending # q /\ UNCHANGED <<me, queue, forks, path>>
  <2>1. f = 0
    BY <1>1, <1>6 DEF Inv, RunAheadInv, FinishingKept, RoundKept
  <2>2. TakenKept(round', forks', me') /\ FinishingKept(round', forks', me', queue')
    BY <1>3, <1>6, <2>1 DEF TakenKept, FinishingKept
  <2>3. AttemptsKept(round', forks', me', queue')
    BY <1>2, <1>4, <1>6 DEF AttemptsKept, Asked, Fresh
  <2>4. SwitchKept(round', forks', me', move') /\ SettleKept(round', forks', path', me', move')
    BY <1>1, <1>2, <1>4, <1>6 DEF SettleKept, SwitchKept, Took
  <2>5. Types(round', forks', path', me', queue', move')
    BY <1>1, <1>2, <1>6 DEF Types
  <2>6. PathsKept(round', forks', path')
    BY <1>2, <1>4, <1>6 DEF PathsKept
  <2>7. RunAheadInv(round', forks', path', me', queue', move')
    BY <1>1, <1>3, <1>4, <1>6, <2>2, <2>3, <2>4, <2>5, <2>6 DEF RunAheadInv
  <2> QED  BY <1>1, <2>7, SameWorld
<1> QED  BY <1>5, <1>6 DEF CancelAnswer

\* The reviewer process ends and is opened again.
LEMMA ReopenKeeps == ASSUME Inv, Reopen PROVE Inv'
<1> DEFINE left == LeftForks(forks)
<1>1. /\ WorldTypes /\ Types(round, forks, path, me, queue, move)
      /\ me \in Reviewers /\ round \in Rounds /\ path \in [Answers -> 0 .. MaxForks]
      /\ forks \in [ForkIds -> Records]
      /\ round' = [round EXCEPT !.out = 0] /\ forks' = Discard(forks, left)
      /\ me' = Erasing(Opened, left) /\ queue' = NoTurn /\ sending' = NoTurn /\ move' = NoMove
      /\ agent' = [agent EXCEPT !.hooks = IF @ = "heard" /\ ~KnownAgain THEN "unheard" ELSE @]
      /\ UNCHANGED <<typed, contents, erased, early>>
      /\ RoundKept(round) /\ PathsKept(round, forks, path) /\ SessionsKept(forks, me, move)
      /\ RecordsKept(forks) /\ OneLate(forks) /\ AttemptsKept(round, forks, me, queue)
  BY DEF Reopen, Inv, RunAheadInv, Types
<1>2. /\ round' \in Rounds /\ round'.taken = round.taken /\ round'.out = 0
      /\ round'.retry = round.retry /\ round'.attempt = round.attempt /\ round'.made = round.made
  BY <1>1, Bounds DEF Rounds
<1>3. RoundKept(round')
  BY <1>1, <1>2 DEF RoundKept, Given
<1>4. /\ left \subseteq ForkIds
      /\ \A f \in left : forks[f] # NoFork /\ ~IsAgentSession(forks[f])
  BY DEF LeftForks
<1>5. SameRoles(forks, forks') /\ \A f \in left : forks'[f].discarded
  <2>1. SameRoles(forks, Discard(forks, left)) /\ \A f \in left \cap ForkIds :
              ~IsAgentSession(forks[f]) => Discard(forks, left)[f].discarded
    BY <1>1, <1>4, DiscardRoles
  <2> QED  BY <1>1, <1>4, <2>1
<1> HIDE DEF left
<1>6. path' \in [Answers -> 0 .. MaxForks] /\ PathsKept(round, forks, path')
  <2>1. CASE me.finishing # 0 /\ path' = [path EXCEPT ![forks[me.finishing].answer] = 0]
    <3>1. me.finishing \in ForkIds /\ forks[me.finishing] # NoFork /\ Late(forks) = {}
      BY <1>1, <2>1, Bounds DEF Inv, RunAheadInv, FinishingKept, Prepared, Reviewers, ForkIds
    <3>2. forks[me.finishing].answer \in Answers
      BY <1>1, <3>1, Bounds DEF RecordsKept, Records, Answers
    <3> QED  BY <1>1, <2>1, <3>1, <3>2, PathCleared
  <2> QED  BY <1>1, <2>1 DEF Reopen
<1>7. /\ me' \in Reviewers /\ me'.switching = NoSwitch /\ me'.settling = NoSettling
      /\ me'.taken = 0 /\ me'.finishing = 0 /\ me'.step = "idle" /\ me'.held = NoTurn
      /\ me'.access = 0 /\ me'.erasing = left
  <2>1. /\ Opened \in Reviewers /\ Opened.switching = NoSwitch /\ Opened.settling = NoSettling
        /\ Opened.taken = 0 /\ Opened.finishing = 0 /\ Opened.step = "idle" /\ Opened.held = NoTurn
        /\ Opened.access = 0 /\ Opened.erasing = {}
    BY Bounds DEF Opened, Reviewers, NoTurn, Pairs
  <2> QED  BY <1>1, <1>4, <2>1 DEF Erasing, Reviewers
<1>8. /\ agent'.session = agent.session /\ agent'.doing = agent.doing
      /\ agent'.hooks = "none" => agent.hooks = "none"
      /\ agent' \in [session : Sessions, hooks : {"heard", "unheard", "none"}, doing : Pairs]
  BY <1>1 DEF WorldTypes
<1>9. WorldTypes' /\ Runs' = Runs /\ Running' = Running
  BY <1>1, <1>8, Bounds DEF WorldTypes, Runs, Running, NoTurn, Pairs
<1>10. PathsKept(round', forks, path')
  BY <1>2, <1>6 DEF PathsKept
<1>11. RolesKept(round', forks, path', me, move, forks')
  BY <1>1, <1>5, <1>6, SameRolesKeep
<1>12. RecordsKept(forks') /\ OneLate(forks') /\ PathsKept(round', forks', path')
       /\ SessionsKept(forks', me, move)
  BY <1>1, <1>10, <1>11 DEF RolesKept
<1>13. (RoundKept(round) /\ RecordsKept(forks) /\ OneLate(forks) /\ PathsKept(round, forks, path))'
  <2> QED  BY <1>1, <1>3, <1>12 DEF RoundKept, RecordsKept, OneLate, PathsKept, Given, Late, Followed
<1>14. SessionsKept(forks, me, move)'
  <2>1. NoMove.to \notin ForkIds
    BY Bounds DEF NoMove, ForkIds
  <2> QED  BY <1>1, <1>5, <1>7, <1>8, <1>9, <1>12, <2>1 DEF SessionsKept, Resumable, Running
<1>15. TakenKept(round, forks, me)' /\ FinishingKept(round, forks, me, queue)'
  BY <1>7 DEF TakenKept, FinishingKept
<1>16. SwitchKept(round, forks, me, move)' /\ SettleKept(round, forks, path, me, move)'
  BY <1>7 DEF SwitchKept, SettleKept
<1>17. MoveKept(me, move)'
  BY <1>1, <1>7 DEF MoveKept, NoMove
<1>18. AttemptsKept(round, forks, me, queue)'
  BY <1>1, <1>2, <1>7, <1>8 DEF AttemptsKept, Asked, Moving, NoTurn
<1>19. Types(round, forks, path, me, queue, move)'
  <2>1. NoTurn \in Pairs /\ forks' \in [ForkIds -> Records]
    BY <1>5, Bounds DEF NoTurn, Pairs, SameRoles
  <2>2. NoMove \in MoveSteps
    BY Bounds DEF NoMove, MoveSteps, Steps, Sessions, NewSession
  <2> QED  BY <1>1, <1>2, <1>6, <1>7, <2>1, <2>2 DEF Types
<1> QED
  BY <1>9, <1>13, <1>14, <1>15, <1>16, <1>17, <1>18, <1>19 DEF Inv, RunAheadInv

\* What holds of the forks fs2, among which the late fork f of fs has another state.
LateGoesOn(rd, fs, p, m, mv, fs2) ==
    /\ fs2 \in [ForkIds -> Records]
    /\ \A g \in ForkIds : fs2[g].answer = fs[g].answer /\ fs2[g].from = fs[g].from
    /\ RecordsKept(fs2) /\ OneLate(fs2) /\ PathsKept(rd, fs2, p)
    /\ SessionsKept(fs, m, mv) => SessionsKept(fs2, m, mv)

\* A fork the agent may still resume, which it resumed or may resume later, keeps its part.
LEMMA LateStays ==
    ASSUME NEW rd, NEW fs \in [ForkIds -> Records], NEW p \in [Answers -> 0 .. MaxForks],
           NEW m \in Reviewers, NEW mv, NEW f \in Late(fs), NEW c \in {"switched", "typed"},
           NEW fs2, fs2 = Continue(fs, f, c), WorldTypes,
           RecordsKept(fs), OneLate(fs), PathsKept(rd, fs, p)
    PROVE  /\ LateGoesOn(rd, fs, p, m, mv, fs2)
           /\ IF c = "typed" THEN f \in Late(fs2) ELSE Late(fs2) = {}
<1> DEFINE r == [fs[f] EXCEPT !.continued = c]
<1>1. f \in ForkIds /\ fs[f] \in Records /\ IsUnsettled(fs[f])
  BY DEF Late
<1>2. /\ r \in Records /\ r.answer = fs[f].answer /\ r.from = fs[f].from
      /\ r.discarded = fs[f].discarded /\ r.continued = c
  BY <1>1 DEF Records
<1>3. fs2 = [fs EXCEPT ![f] = r]
  BY DEF Continue
<1> HIDE DEF r
<1>4. fs2 \in [ForkIds -> Records] /\ fs2[f] = r /\ \A g \in ForkIds \ {f} : fs2[g] = fs[g]
  BY <1>1, <1>2, <1>3
<1>5. \A g \in ForkIds : fs2[g].answer = fs[g].answer /\ fs2[g].from = fs[g].from
  BY <1>2, <1>4
<1>6. fs[f] # NoFork /\ IsAgentSession(fs[f]) /\ IsAgentSession(r)
  BY <1>1, <1>2 DEF IsUnsettled, IsAgentSession, NoFork
<1>7. \A g \in ForkIds \ {f} : ~IsUnsettled(fs2[g])
  BY <1>1, <1>4 DEF OneLate, Late
<1>8. IF c = "typed" THEN Late(fs2) = {f} ELSE Late(fs2) = {}
  <2>1. IsUnsettled(r) <=> c = "typed"
    BY <1>2 DEF IsUnsettled
  <2> QED  BY <1>1, <1>4, <1>7, <2>1 DEF Late
<1>9. RecordsKept(fs2)
  <2>1. ASSUME NEW g \in ForkIds, fs2[g] # NoFork
        PROVE  /\ fs2[g].answer # 0 /\ fs2[g].from # g
               /\ fs2[g].from \in ForkIds => Followed(fs2[fs2[g].from])
               /\ IsAgentSession(fs2[g]) => ~fs2[g].discarded
    <3>1. fs[g] # NoFork
      BY <1>4, <1>6, <2>1
    <3>2. /\ fs[g].answer # 0 /\ fs[g].from # g
          /\ fs[g].from \in ForkIds => Followed(fs[fs[g].from])
          /\ IsAgentSession(fs[g]) => ~fs[g].discarded
      BY <3>1 DEF RecordsKept
    <3>3. Followed(fs[f]) => Followed(r)
      BY <1>1, <1>6 DEF IsUnsettled, IsAgentSession, Followed, NoFork
    <3> QED  BY <1>2, <1>4, <1>5, <1>6, <3>2, <3>3
  <2> QED  BY <2>1 DEF RecordsKept
<1>10. PathsKept(rd, fs2, p)
  <2>1. \A q \in Answers : p[q] # 0 => p[q] \in ForkIds
    BY Bounds DEF ForkIds
  <2>2. \A q \in Answers : p[q] # 0 => fs2[p[q]].answer = q
    BY <1>5, <2>1 DEF PathsKept
  <2>3. ASSUME NEW g \in ForkIds, NEW q \in Answers, <<q, g>> \in rd.taken
        PROVE  /\ fs2[g].answer = q
               /\ \/ fs2[g].continued \in {"switched", "restarted"}
                  \/ g \in Late(fs2) /\ p[q] = g
    <3>1. /\ fs[g].answer = q
          /\ \/ fs[g].continued \in {"switched", "restarted"}
             \/ g \in Late(fs) /\ p[q] = g
      BY <2>3 DEF PathsKept
    <3>2. CASE g = f
      <4>1. p[q] = g
        BY <1>1, <3>1, <3>2 DEF IsUnsettled
      <4> QED  BY <1>2, <1>4, <1>8, <3>1, <3>2, <4>1
    <3>3. CASE g # f
      BY <1>4, <3>1, <3>3 DEF OneLate
    <3> QED  BY <3>2, <3>3
  <2> QED  BY <2>2, <2>3 DEF PathsKept
<1>11. SessionsKept(fs, m, mv) => SessionsKept(fs2, m, mv)
  <2>1. m.erasing \cup erased \subseteq ForkIds
    BY DEF Reviewers, WorldTypes
  <2>2. \A g \in ForkIds : fs2[g].discarded = fs[g].discarded
    BY <1>2, <1>4
  <2>3. \A g \in ForkIds : Resumable(fs[g]) => Resumable(fs2[g])
    BY <1>4, <1>6 DEF Resumable, IsAgentSession, NoFork
  <2> QED  BY <2>1, <2>2, <2>3 DEF SessionsKept
<1> QED  BY <1>4, <1>5, <1>8, <1>9, <1>10, <1>11 DEF OneLate, LateGoesOn

\* A reviewer that moves the agent has no fork in hand.
LEMMA NothingInHand ==
    ASSUME Inv, Moving(me) PROVE me.taken = 0 /\ me.finishing = 0
BY DEF Inv, RunAheadInv, TakenKept, FinishingKept

\* The fork is recorded as switched to, once the round holds its turn.
LEMMA RecordSwitchedKeeps == ASSUME Inv, RecordSwitched PROVE Inv'
<1> DEFINE f == me.switching.fork
           m == [me EXCEPT !.step = "idle", !.switching = NoSwitch, !.access = MaxAttempts + f]
           fs == Continue(forks, f, "switched")
<1>1. /\ WorldTypes /\ Types(round, forks, path, me, queue, move) /\ me.step = "committed"
      /\ me \in Reviewers /\ path \in [Answers -> 0 .. MaxForks] /\ forks \in [ForkIds -> Records]
      /\ AfterMoved(fs, m, path, round.taken) /\ UNCHANGED <<round, path, sending, world>>
      /\ RoundKept(round) /\ RecordsKept(forks) /\ OneLate(forks) /\ PathsKept(round, forks, path)
      /\ SessionsKept(forks, me, move) /\ SwitchKept(round, forks, me, move)
      /\ SettleKept(round, forks, path, me, move) /\ MoveKept(me, move)
      /\ AttemptsKept(round, forks, me, queue)
  BY DEF RecordSwitched, Inv, RunAheadInv, Types
<1>2. me.switching # NoSwitch /\ f \in Late(forks) /\ f \in ForkIds
  <2>1. me.switching # NoSwitch
    BY <1>1 DEF MoveKept
  <2>2. f \in Late(forks)
    BY <1>1, <2>1, MovingFork
  <2> QED  BY <2>1, <2>2 DEF Late
<1>3. move = NoMove /\ me.settling = NoSettling /\ round.out = 0 /\ Moving(me)
  BY <1>1, <1>2 DEF SwitchKept, Moving
<1>4. me.taken = 0 /\ me.finishing = 0
  BY <1>3, NothingInHand
<1>5. /\ m \in Reviewers /\ m.switching = NoSwitch /\ m.settling = NoSettling /\ m.step = "idle"
      /\ m.taken = 0 /\ m.finishing = 0 /\ m.held = me.held /\ m.erasing = me.erasing
      /\ m.access > MaxAttempts /\ m.pending = me.pending
  <2>1. MaxAttempts + f \in 0 .. MaxAttempts + MaxForks /\ MaxAttempts + f > MaxAttempts
    BY <1>2, Bounds DEF ForkIds
  <2> HIDE DEF f
  <2> QED  BY <1>1, <1>3, <1>4, <2>1 DEF Reviewers
<1> HIDE DEF m, f, fs
<1>6. LateGoesOn(round, forks, path, m, NoMove, fs)
  BY <1>1, <1>2, <1>5, LateStays DEF fs
<1>7. SessionsKept(fs, m, NoMove)
  BY <1>1, <1>3, <1>5, <1>6 DEF SessionsKept, LateGoesOn
<1>8. Types(round, fs, path, m, queue, NoMove)
  BY <1>1, <1>3, <1>5, <1>6 DEF Types, LateGoesOn
<1>9. Asked(m.held, round) /\ (m.held # NoTurn /\ m.held[2] = round.attempt => Fresh(round))
  BY <1>1, <1>5 DEF AttemptsKept, Asked
<1>10. MovedReady(round, fs, path, m)
  BY <1>1, <1>3, <1>5, <1>6, <1>7, <1>8, <1>9 DEF MovedReady, LateGoesOn, AttemptsKept
<1>11. RunAheadInv(round, forks', path, me', queue', move')
  BY <1>1, <1>10, AfterMovedKeeps
<1>12. RunAheadInv(round', forks', path', me', queue', move')
  BY <1>1, <1>11
<1> QED  BY <1>1, <1>12, SameWorld

\* A settling ends.
LEMMA SettleEndsKeeps == ASSUME Inv, SettleEnds PROVE Inv'
<1> DEFINE f == me.settling.fork
           ended == [me EXCEPT !.settling = NoSettling]
           back == [ended EXCEPT !.vain = @ \ {f}]
           vain == IF me.settling.unasked /\ move.at = "typed in vain" THEN {f} ELSE {}
           held == me.held
           fs1 == Continue(forks, f, "switched")
           fs2 == Discard(Continue(forks, f, "undone"), {f})
<1>1. /\ WorldTypes /\ Types(round, forks, path, me, queue, move) /\ me.step = "idle"
      /\ me.settling # NoSettling
      /\ me \in Reviewers /\ path \in [Answers -> 0 .. MaxForks] /\ forks \in [ForkIds -> Records]
      /\ UNCHANGED <<path, sending, world>>
      /\ RoundKept(round) /\ RecordsKept(forks) /\ OneLate(forks) /\ PathsKept(round, forks, path)
      /\ SessionsKept(forks, me, move) /\ SwitchKept(round, forks, me, move)
      /\ SettleKept(round, forks, path, me, move) /\ MoveKept(me, move)
      /\ AttemptsKept(round, forks, me, queue)
  BY DEF SettleEnds, Inv, RunAheadInv, Types, Idle
<1>2. f \in Late(forks) /\ f \in ForkIds /\ me.switching = NoSwitch /\ Moving(me)
  <2>1. f \in Late(forks)
    BY <1>1, MovingFork
  <2> QED  BY <1>1, <2>1 DEF Late, Moving, SwitchKept
<1>3. me.taken = 0 /\ me.finishing = 0
  BY <1>2, NothingInHand
<1>4. /\ ended \in Reviewers /\ ended.switching = NoSwitch /\ ended.settling = NoSettling
      /\ ended.step = "idle" /\ ended.taken = 0 /\ ended.finishing = 0 /\ ended.held = me.held
      /\ ended.erasing = me.erasing /\ ended.access = me.access /\ ended.pending = me.pending
      /\ ended.vain = me.vain
  BY <1>1, <1>2, <1>3 DEF Reviewers
<1>5. /\ back \in Reviewers /\ back.switching = NoSwitch /\ back.settling = NoSettling
      /\ back.step = "idle" /\ back.taken = 0 /\ back.finishing = 0 /\ back.held = me.held
      /\ back.erasing = me.erasing /\ back.access = me.access /\ back.pending = me.pending
  <2> HIDE DEF ended, f
  <2> QED  BY <1>4 DEF Reviewers
<1>6. round.out # 0 => me.held = <<round.out, round.attempt>> /\ me.pending = round.out
  BY <1>1, <1>2 DEF AttemptsKept
<1>7. Asked(me.held, round) /\ (me.held # NoTurn /\ me.held[2] = round.attempt => Fresh(round))
  BY <1>1 DEF AttemptsKept, Asked
<1>8. ASSUME NEW fs, NEW m, Types(round, fs, path, m, queue, NoMove), RecordsKept(fs), OneLate(fs),
             PathsKept(round, fs, path), SessionsKept(fs, m, NoMove),
             m.switching = NoSwitch, m.settling = NoSettling, m.step = "idle", m.taken = 0,
             m.finishing = 0, m.held = me.held, m.access = me.access, m.pending = me.pending
      PROVE  MovedReady(round, fs, path, m)
  BY <1>1, <1>6, <1>7, <1>8 DEF MovedReady, AttemptsKept
<1> HIDE DEF ended, back, f, fs1, fs2, vain, held
<1>9. CASE AfterMoved(fs1, back, path, round.taken) /\ UNCHANGED round
  <2>1. LateGoesOn(round, forks, path, back, move, fs1)
    BY <1>1, <1>2, <1>5, LateStays DEF fs1
  <2>2. SessionsKept(forks, back, move)
    BY <1>1, <1>5 DEF SessionsKept
  <2>3. SessionsKept(fs1, back, NoMove)
    <3>1. NoMove.to \notin ForkIds
      BY Bounds DEF NoMove, ForkIds
    <3> QED  BY <2>1, <2>2, <3>1 DEF SessionsKept, LateGoesOn
  <2>4. Types(round, fs1, path, back, queue, NoMove)
    <3>1. NoMove \in MoveSteps
      BY Bounds DEF NoMove, MoveSteps, Steps, Sessions, NewSession
    <3> QED  BY <1>1, <1>5, <2>1, <3>1 DEF Types, LateGoesOn
  <2>5. MovedReady(round, fs1, path, back)
    BY <1>5, <1>8, <2>1, <2>3, <2>4 DEF LateGoesOn
  <2>6. RunAheadInv(round, forks', path, me', queue', move')
    BY <1>1, <1>9, <2>5, AfterMovedKeeps
  <2>7. RunAheadInv(round', forks', path', me', queue', move')
    BY <1>1, <1>9, <2>6
  <2> QED  BY <1>1, <2>7, SameWorld
<1>10. CASE /\ move.at = "moved" /\ me.settling.to # f
            /\ AfterMoved(fs2, Erasing(back, {f}), path, round.taken) /\ UNCHANGED round
  <2> DEFINE m == Erasing(back, {f})
  <2>1. /\ m \in Reviewers /\ m.switching = NoSwitch /\ m.settling = NoSettling
        /\ m.step = "idle" /\ m.taken = 0 /\ m.finishing = 0 /\ m.held = me.held
        /\ m.erasing = me.erasing \cup {f} /\ m.access = me.access /\ m.pending = me.pending
        /\ me.erasing \subseteq ForkIds
    BY <1>1, <1>2, <1>5 DEF Reviewers, Erasing
  <2> HIDE DEF m
  <2>2. f \notin Runs
    <3>1. Runs \subseteq {move.to, NewSession} /\ move.to = me.settling.to
      BY <1>1, <1>10 DEF MoveKept, SettleKept
    <3> QED  BY <1>2, <1>10, <3>1, Bounds DEF NewSession, ForkIds
  <2>3. ~Took(round, f)
    BY <1>1, <1>10 DEF SettleKept, f
  <2>4. LateLeft(round, forks, path, m, f, fs2)
    BY <1>1, <1>2, <2>1, <2>2, <2>3, LateLeaves DEF fs2
  <2>5. Types(round, fs2, path, m, queue, NoMove)
    <3>1. NoMove \in MoveSteps
      BY Bounds DEF NoMove, MoveSteps, Steps, Sessions, NewSession
    <3> QED  BY <1>1, <2>1, <2>4, <3>1 DEF Types, LateLeft
  <2>6. MovedReady(round, fs2, path, m)
    BY <1>8, <2>1, <2>4, <2>5 DEF LateLeft
  <2>7. RunAheadInv(round, forks', path, me', queue', move')
    BY <1>1, <1>10, <2>6, AfterMovedKeeps DEF m
  <2>8. RunAheadInv(round', forks', path', me', queue', move')
    BY <1>1, <1>10, <2>7
  <2> QED  BY <1>1, <2>8, SameWorld
<1>11. CASE /\ forks' = IF forks[f].continued = "switching" THEN Continue(forks, f, "typed") ELSE forks
            /\ me' = [ended EXCEPT !.vain = @ \cup vain, !.held = NoTurn]
            /\ round' = TurnFailed(round, me, held[1], held[2])
            /\ move' = NoMove /\ UNCHANGED queue
  <2>1. /\ round' \in Rounds /\ RoundKept(round') /\ round'.taken = round.taken
        /\ round'.attempt = round.attempt /\ round'.retry = round.retry /\ round'.made = round.made
        /\ round' = round \/ round'.out = 0
        /\ me.pending = held[1] /\ round.attempt = held[2] /\ round.out = held[1] => round'.out = 0
    BY <1>11, FailedRound
  <2>2. round'.out = 0
    BY <1>6, <2>1 DEF held
  <2>3. /\ me' \in Reviewers /\ me'.switching = NoSwitch /\ me'.settling = NoSettling
        /\ me'.step = "idle" /\ me'.taken = 0 /\ me'.finishing = 0 /\ me'.held = NoTurn
        /\ me'.erasing = me.erasing /\ me'.access = me.access
    <3>1. vain \subseteq ForkIds /\ NoTurn \in Pairs
      <4>1. vain = {f} \/ vain = {}
        BY DEF vain
      <4>2. NoTurn \in Pairs
        BY Bounds DEF NoTurn, Pairs
      <4> QED  BY <1>2, <4>1, <4>2
    <3> QED  BY <1>4, <1>11, <3>1 DEF Reviewers
  <2>4. /\ forks' \in [ForkIds -> Records] /\ RecordsKept(forks') /\ OneLate(forks')
        /\ PathsKept(round, forks', path) /\ SessionsKept(forks', me, move)
    <3>1. LateGoesOn(round, forks, path, me, move, Continue(forks, f, "typed"))
      BY <1>1, <1>2, LateStays
    <3> QED  BY <1>1, <1>11, <3>1 DEF LateGoesOn
  <2>5. PathsKept(round', forks', path')
    BY <1>1, <2>1, <2>4 DEF PathsKept
  <2>6. SessionsKept(forks', me', move')
    <3>1. NoMove.to \notin ForkIds
      BY Bounds DEF NoMove, ForkIds
    <3> QED  BY <1>11, <2>3, <2>4, <3>1 DEF SessionsKept
  <2>7. TakenKept(round', forks', me') /\ FinishingKept(round', forks', me', queue')
    BY <2>3 DEF TakenKept, FinishingKept
  <2>8. SwitchKept(round', forks', me', move') /\ SettleKept(round', forks', path', me', move')
    BY <2>3 DEF SwitchKept, SettleKept
  <2>9. MoveKept(me', move')
    BY <1>11, <2>3 DEF MoveKept, NoMove
  <2>10. AttemptsKept(round', forks', me', queue')
    BY <1>1, <1>11, <2>1, <2>2, <2>3 DEF AttemptsKept, Asked, Fresh, Moving, NoTurn
  <2>11. Types(round', forks', path', me', queue', move')
    <3>1. NoMove \in MoveSteps
      BY Bounds DEF NoMove, MoveSteps, Steps, Sessions, NewSession
    <3> QED  BY <1>1, <1>11, <2>1, <2>3, <2>4, <3>1 DEF Types
  <2>12. RunAheadInv(round', forks', path', me', queue', move')
    BY <2>1, <2>4, <2>5, <2>6, <2>7, <2>8, <2>9, <2>10, <2>11 DEF RunAheadInv
  <2> QED  BY <1>1, <2>12, SameWorld
<1> QED  BY <1>9, <1>10, <1>11 DEF SettleEnds, f, ended, back, vain, held, fs1, fs2

\* A switch ends: the round takes the turn, or the switch is undone.
LEMMA SwitchEndsKeeps == ASSUME Inv, PathKept, SwitchEnds PROVE Inv'
<1> DEFINE f == me.switching.fork
           q == forks[f].answer
           delivering == ~me.switching.stopped /\ me.pending = q
           ended == [me EXCEPT !.switching = NoSwitch]
           plain == IF me.switching.stopped THEN path ELSE [path EXCEPT ![q] = 0]
           failed == TurnFailed(round, me, q, me.switching.attempt)
           gone == Discard(Continue(forks, f, "none"), {f})
<1>1. /\ WorldTypes /\ Types(round, forks, path, me, queue, move) /\ me.step = "idle"
      /\ me.switching # NoSwitch /\ round \in Rounds
      /\ me \in Reviewers /\ path \in [Answers -> 0 .. MaxForks] /\ forks \in [ForkIds -> Records]
      /\ UNCHANGED <<sending, world>>
      /\ RoundKept(round) /\ RecordsKept(forks) /\ OneLate(forks) /\ PathsKept(round, forks, path)
      /\ SessionsKept(forks, me, move) /\ SwitchKept(round, forks, me, move)
      /\ SettleKept(round, forks, path, me, move) /\ MoveKept(me, move)
      /\ AttemptsKept(round, forks, me, queue)
  BY DEF SwitchEnds, Inv, RunAheadInv, Types, Idle
<1>2. /\ f \in Late(forks) /\ f \in ForkIds /\ me.settling = NoSettling /\ Moving(me)
      /\ ~Took(round, f) /\ forks[f] # NoFork /\ move.to = f
  <2>1. f \in Late(forks)
    BY <1>1, MovingFork
  <2> QED  BY <1>1, <2>1 DEF Late, Moving, SwitchKept, IsUnsettled, NoFork
<1>3. me.taken = 0 /\ me.finishing = 0
  BY <1>2, NothingInHand
<1>4. /\ ended \in Reviewers /\ ended.switching = NoSwitch /\ ended.settling = NoSettling
      /\ ended.step = "idle" /\ ended.taken = 0 /\ ended.finishing = 0 /\ ended.held = me.held
      /\ ended.erasing = me.erasing /\ ended.access = me.access /\ ended.pending = me.pending
  BY <1>1, <1>2, <1>3 DEF Reviewers
<1>5. q \in Answers
  BY <1>1, <1>2, Bounds DEF RecordsKept, Records, Answers
<1>6. plain \in [Answers -> 0 .. MaxForks] /\ PathsKept(round, forks, plain)
  <2>1. \A g \in Late(forks) : <<q, g>> \notin round.taken
    BY <1>1, <1>2, <1>5 DEF OneLate, Took
  <2>2. /\ PathsKept(round, forks, [path EXCEPT ![q] = 0])
        /\ [path EXCEPT ![q] = 0] \in [Answers -> 0 .. MaxForks]
    <3> HIDE DEF q
    <3> QED  BY <1>1, <1>5, <2>1, PathCleared
  <2> QED  BY <1>1, <2>2
<1>7. /\ failed \in Rounds /\ RoundKept(failed) /\ failed.taken = round.taken
      /\ failed.attempt = round.attempt /\ failed.retry = round.retry /\ failed.made = round.made
      /\ failed = round \/ failed.out = 0
      /\ me.pending = q /\ round.attempt = me.switching.attempt /\ round.out = q => failed.out = 0
  BY FailedRound
<1>8. round.out # 0 =>
        /\ me.pending = round.out /\ Fresh(round)
        /\ \/ me.held = <<round.out, round.attempt>>
           \/ delivering /\ round.out = q /\ failed.out = 0
  BY <1>1, <1>2, <1>7 DEF AttemptsKept
<1>9. Asked(me.held, round) /\ (me.held # NoTurn /\ me.held[2] = round.attempt => Fresh(round))
  BY <1>1 DEF AttemptsKept, Asked
<1> HIDE DEF ended, plain, failed, f, q, delivering, gone
\* How the switch ends otherwise than by a delivery: as the round rd.
<1> DEFINE Missed(rd) == rd = failed \/ (rd = round /\ ~delivering)
<1>10. ASSUME NEW rd, Missed(rd)
       PROVE  /\ rd \in Rounds /\ RoundKept(rd) /\ rd.taken = round.taken
              /\ rd.attempt = round.attempt /\ (rd = round \/ rd.out = 0)
              /\ rd.out # 0 => me.held = <<rd.out, rd.attempt>> /\ me.pending = rd.out /\ Fresh(rd)
  BY <1>1, <1>7, <1>8, <1>10 DEF Fresh
<1> HIDE DEF Missed
<1>11. ASSUME NEW fs \in [ForkIds -> Records], Missed(round'), path' = plain, RecordsKept(fs),
              OneLate(fs), PathsKept(round, fs, plain), SessionsKept(fs, me, move), f \in Late(fs),
              Undo(fs, me, plain, round.taken, f)
       PROVE  Inv'
  <2>1. /\ round' \in Rounds /\ RoundKept(round') /\ round'.taken = round.taken
        /\ round'.attempt = round.attempt /\ (round' = round \/ round'.out = 0)
        /\ round'.out # 0 =>
            me.held = <<round'.out, round'.attempt>> /\ me.pending = round'.out /\ Fresh(round')
    BY <1>10, <1>11
  <2>2. SessionsKept(fs, ended, NoMove)
    <3>1. NoMove.to \notin ForkIds
      BY Bounds DEF NoMove, ForkIds
    <3> QED  BY <1>4, <1>11, <3>1 DEF SessionsKept
  <2>3. PathsKept(round', fs, plain)
    BY <1>11, <2>1 DEF PathsKept
  <2>4. Types(round', fs, plain, ended, queue, NoMove)
    <3>1. NoMove \in MoveSteps
      BY Bounds DEF NoMove, MoveSteps, Steps, Sessions, NewSession
    <3> QED  BY <1>1, <1>4, <1>6, <1>11, <2>1, <3>1 DEF Types
  <2>5. SettleReady(round', fs, plain, ended, queue, f)
    BY <1>4, <1>11, <2>1, <2>2, <2>3, <2>4 DEF SettleReady, Moving
  <2>6. SettleStarted(round', fs, plain, ended, queue, f, me', move')
    <3>1. me' = Settling(ended, fs, f, plain, round'.taken, TRUE) /\ move' = Draining(me'.settling.to)
      BY <1>11, <2>1 DEF Undo, ended
    <3> QED  BY <1>1, <2>5, <3>1, SettleStarts
  <2>7. forks' = fs /\ queue' = queue
    BY <1>11 DEF Undo
  <2>8. TakenKept(round', forks', me') /\ FinishingKept(round', forks', me', queue')
    BY <2>6 DEF SettleStarted, TakenKept, FinishingKept
  <2>9. AttemptsKept(round', forks', me', queue')
    BY <1>1, <1>4, <2>1, <2>6, <2>7 DEF SettleStarted, AttemptsKept, Asked, Fresh, Moving
  <2>10. RunAheadInv(round', forks', path', me', queue', move')
    BY <1>11, <2>1, <2>3, <2>6, <2>7, <2>8, <2>9 DEF RunAheadInv, SettleStarted
  <2> QED  BY <1>1, <2>10, SameWorld
<1>12. CASE /\ move.at = "moved" /\ delivering /\ round.out = q
            /\ round' = [round EXCEPT !.taken = @ \cup {<<q, f>>}, !.out = 0, !.retry = 0]
            /\ me' = [me EXCEPT !.step = "committed"] /\ move' = NoMove
            /\ UNCHANGED <<forks, path, queue>>
  <2>1. path[q] = f
    BY <1>1, <1>12 DEF PathKept, q, f, delivering
  <2>2. /\ round' \in Rounds /\ round'.taken = round.taken \cup {<<q, f>>} /\ round'.out = 0
        /\ round'.retry = 0 /\ round'.attempt = round.attempt /\ round'.made = round.made
    <3>1. <<q, f>> \in Turns /\ 0 \in 0 .. MaxAnswers
      BY <1>2, <1>5, Bounds DEF Turns, Answers, ForkIds
    <3> QED  BY <1>1, <1>12, <3>1 DEF Rounds
  <2>3. q = round.made
    BY <1>1, <1>5, <1>12, Bounds DEF RoundKept, Answers
  <2>4. RoundKept(round')
    <3>1. q <= round.made
      BY <1>5, <2>3, Bounds DEF Answers
    <3> QED  BY <1>1, <2>2, <3>1 DEF RoundKept
  <2>5. PathsKept(round', forks', path')
    <3>1. forks[f].answer = q
      BY DEF q
    <3> QED  BY <1>1, <1>2, <1>12, <2>1, <2>2, <3>1 DEF PathsKept
  <2>6. /\ me' \in Reviewers /\ me'.switching = me.switching /\ me'.settling = NoSettling
        /\ me'.step = "committed" /\ me'.taken = 0 /\ me'.finishing = 0 /\ me'.held = me.held
        /\ me'.erasing = me.erasing /\ me'.access = me.access
    BY <1>1, <1>2, <1>3, <1>12 DEF Reviewers
  <2>7. SessionsKept(forks', me', move')
    <3>1. NoMove.to \notin ForkIds
      BY Bounds DEF NoMove, ForkIds
    <3> QED  BY <1>1, <1>12, <2>6, <3>1 DEF SessionsKept
  <2>8. TakenKept(round', forks', me') /\ FinishingKept(round', forks', me', queue')
    BY <2>6 DEF TakenKept, FinishingKept
  <2>9. SettleKept(round', forks', path', me', move')
    BY <2>6 DEF SettleKept
  <2>10. SwitchKept(round', forks', me', move')
    <3>1. Runs \subseteq {f, NewSession}
      BY <1>1, <1>2, <1>12 DEF MoveKept
    <3>2. forks[f].continued = "switching" /\ NoMove.at = "none"
      BY <1>1 DEF SwitchKept, f, NoMove
    <3> QED  BY <1>12, <2>2, <2>6, <3>1, <3>2 DEF SwitchKept, f, q
  <2>11. MoveKept(me', move')
    BY <1>1, <1>12, <2>6 DEF MoveKept, NoMove
  <2>12. AttemptsKept(round', forks', me', queue')
    BY <1>1, <1>2, <1>12, <2>2, <2>6 DEF AttemptsKept, Asked, Fresh, Moving
  <2>13. Types(round', forks', path', me', queue', move')
    <3>1. NoMove \in MoveSteps
      BY Bounds DEF NoMove, MoveSteps, Steps, Sessions, NewSession
    <3> QED  BY <1>1, <1>12, <2>2, <2>6, <3>1 DEF Types
  <2>14. RunAheadInv(round', forks', path', me', queue', move')
    BY <1>1, <1>12, <2>4, <2>5, <2>7, <2>8, <2>9, <2>10, <2>11, <2>12, <2>13 DEF RunAheadInv
  <2> QED  BY <1>1, <2>14, SameWorld
<1>13. CASE /\ round' = IF delivering THEN failed ELSE round
            /\ path' = plain /\ Undo(forks, me, plain, round.taken, f)
  <2>1. Missed(round')
    BY <1>13 DEF Missed
  <2> QED  BY <1>1, <1>2, <1>6, <1>11, <1>13, <2>1
<1>14. CASE /\ round' = failed /\ path' = plain
            /\ Undo(Continue(forks, f, "typed"), me, plain, round.taken, f)
  <2>1. Missed(round')
    BY <1>14 DEF Missed
  <2>2. /\ LateGoesOn(round, forks, plain, me, move, Continue(forks, f, "typed"))
        /\ f \in Late(Continue(forks, f, "typed"))
    BY <1>1, <1>2, <1>6, LateStays
  <2> QED  BY <1>1, <1>11, <1>14, <2>1, <2>2 DEF LateGoesOn
<1>15. CASE /\ move.at = "failed" /\ round' = failed /\ path' = plain
            /\ AfterMoved(gone, Erasing(ended, {f}), plain, round.taken)
  <2> DEFINE m == Erasing(ended, {f})
  <2>1. /\ round' \in Rounds /\ RoundKept(round') /\ round'.taken = round.taken
        /\ round'.attempt = round.attempt /\ (round' = round \/ round'.out = 0)
        /\ round'.out # 0 =>
            me.held = <<round'.out, round'.attempt>> /\ me.pending = round'.out /\ Fresh(round')
    BY <1>10, <1>15 DEF Missed
  <2>2. /\ m \in Reviewers /\ m.switching = NoSwitch /\ m.settling = NoSettling
        /\ m.step = "idle" /\ m.taken = 0 /\ m.finishing = 0 /\ m.held = me.held
        /\ m.erasing = me.erasing \cup {f} /\ m.access = me.access /\ m.pending = me.pending
        /\ me.erasing \subseteq ForkIds
    BY <1>1, <1>2, <1>4 DEF Reviewers, Erasing
  <2> HIDE DEF m
  <2>3. f \notin Runs
    BY <1>1, <1>15 DEF SwitchKept, f
  <2>4. LateLeft(round, forks, plain, m, f, gone)
    BY <1>1, <1>2, <1>6, <2>2, <2>3, LateLeaves DEF gone
  <2>5. PathsKept(round', gone, plain)
    BY <2>1, <2>4 DEF PathsKept, LateLeft
  <2>6. Types(round', gone, plain, m, queue, NoMove)
    <3>1. NoMove \in MoveSteps
      BY Bounds DEF NoMove, MoveSteps, Steps, Sessions, NewSession
    <3> QED  BY <1>1, <1>6, <2>1, <2>2, <2>4, <3>1 DEF Types, LateLeft
  <2>7. /\ Asked(m.held, round') /\ Asked(sending, round') /\ Asked(agent.doing, round')
        /\ Asked(queue, round') /\ (sending # NoTurn => agent.doing[2] < sending[2])
        /\ m.access \in {0, round'.attempt} \/ m.access > MaxAttempts
        /\ (m.held # NoTurn /\ m.held[2] = round'.attempt => Fresh(round'))
        /\ (queue[2] = round'.attempt /\ round'.attempt # 0 => Fresh(round'))
    BY <1>1, <1>9, <2>1, <2>2 DEF AttemptsKept, Asked, Fresh
  <2>8. MovedReady(round', gone, plain, m)
    BY <2>1, <2>2, <2>4, <2>5, <2>6, <2>7 DEF MovedReady, LateLeft
  <2>9. AfterMoved(gone, m, plain, round'.taken)
    BY <1>15, <2>1 DEF m
  <2>10. RunAheadInv(round', forks', plain, me', queue', move')
    BY <1>1, <2>8, <2>9, AfterMovedKeeps
  <2>11. RunAheadInv(round', forks', path', me', queue', move')
    BY <1>15, <2>10
  <2> QED  BY <1>1, <2>11, SameWorld
<1> QED
  BY <1>12, <1>13, <1>14, <1>15 DEF SwitchEnds, f, q, delivering, ended, plain, failed, gone

-----------------------------------------------------------------------------
(* The paths of the forks that are waited for. *)

\* Holding or sending a prompt leaves the switch in hand, and every fork its answer.
LEMMA HoldOrSendHands ==
    ASSUME NEW fs \in [ForkIds -> Records], NEW m \in Reviewers, NEW p, NEW turns,
           NEW q \in 0 .. MaxAnswers, NEW a \in 0 .. MaxAttempts, HoldOrSend(fs, m, p, turns, q, a)
    PROVE  /\ me'.switching = m.switching /\ me'.finishing = m.finishing /\ me'.step = m.step
           /\ \A f \in ForkIds : forks'[f].answer = fs[f].answer
<1> DEFINE waits == [m EXCEPT !.pending = q, !.held = <<q, a>>]
           sends == [m EXCEPT !.pending = q]
           f == Min(Unsettled(fs, m))
<1>1. /\ waits.switching = m.switching /\ waits.finishing = m.finishing /\ waits.step = m.step
      /\ sends.switching = m.switching /\ sends.finishing = m.finishing /\ sends.step = m.step
  BY DEF Reviewers
<1>2. waits \in Reviewers /\ sends \in Reviewers
  BY DEF Reviewers, Pairs
<1> HIDE DEF waits, sends
<1>3. /\ Settling(waits, fs, f, p, turns, FALSE).switching = m.switching
      /\ Settling(waits, fs, f, p, turns, FALSE).finishing = m.finishing
      /\ Settling(waits, fs, f, p, turns, FALSE).step = m.step
  BY <1>1, <1>2 DEF Settling, Reviewers
<1>4. /\ Erasing(sends, {f}).switching = m.switching /\ Erasing(sends, {f}).finishing = m.finishing
      /\ Erasing(sends, {f}).step = m.step
  BY <1>1, <1>2 DEF Erasing, Reviewers
<1>5. \A g \in ForkIds : Restarted(fs, f)[g].answer = fs[g].answer
  <2>1. \A g \in ForkIds : Continue(fs, f, "restarted")[g].answer = fs[g].answer
                           /\ Continue(fs, f, "restarted")[g] \in Records
    BY DEF Continue, Records
  <2> HIDE DEF f
  <2>2. \A g \in ForkIds, r \in Records : [r EXCEPT !.discarded = TRUE, !.turn = FALSE].answer = r.answer
    BY DEF Records
  <2> QED  BY <2>1, <2>2 DEF Restarted, Discard
<1> QED  BY <1>1, <1>3, <1>4, <1>5 DEF HoldOrSend, waits, sends

\* Every fork keeps its answer.
SameAnswers == \A f \in ForkIds : forks'[f].answer = forks[f].answer

\* Nothing that the invariant speaks of is in hand after the step, or it is what was before.
LEMMA NoneAwaited ==
    ASSUME me'.finishing = 0,
           \/ me'.switching = NoSwitch \/ me'.step # "idle" \/ me'.switching.stopped
    PROVE  PathKept'
BY DEF PathKept

\* Nor is anything new.
LEMMA SameAwaited ==
    ASSUME Inv, PathKept, path' = path, me'.finishing \in {0, me.finishing},
           me'.switching = me.switching, me'.step = me.step, SameAnswers
    PROVE  PathKept'
<1>1. /\ me.finishing # 0 => me.finishing \in ForkIds
      /\ me.switching # NoSwitch => me.switching.fork \in ForkIds
  BY Bounds DEF Inv, RunAheadInv, Types, Reviewers, Switches, ForkIds
<1> QED  BY <1>1 DEF PathKept, SameAnswers

\* Once the agent was moved, no switch and no fork to wait for is in hand.
LEMMA AfterMovedHands ==
    ASSUME NEW fs \in [ForkIds -> Records], NEW m \in Reviewers, NEW p, NEW turns,
           AfterMoved(fs, m, p, turns), m.finishing = 0, m.switching = NoSwitch
    PROVE  me'.finishing = 0 /\ me'.switching = NoSwitch
<1> DEFINE free == [m EXCEPT !.held = NoTurn]
<1>1. /\ free \in Reviewers /\ free.switching = NoSwitch /\ free.finishing = 0
      /\ m.held[1] \in 0 .. MaxAnswers /\ m.held[2] \in 0 .. MaxAttempts
  <2>1. NoTurn \in Pairs
    BY Bounds DEF NoTurn, Pairs
  <2>2. m.held[1] \in 0 .. MaxAnswers /\ m.held[2] \in 0 .. MaxAttempts
    BY DEF Reviewers, Pairs
  <2> QED  BY <2>1, <2>2 DEF Reviewers
<1>2. \/ HoldOrSend(fs, free, p, turns, m.held[1], m.held[2])
      \/ me' = free
  BY DEF AfterMoved
<1> HIDE DEF free
<1> QED  BY <1>1, <1>2, HoldOrSendHands

\* A fork that takes a turn, ends, is cleaned up or is discarded keeps its answer.
LEMMA RolesAnswer ==
    ASSUME NEW fs, SameRoles(forks, fs) PROVE \A f \in ForkIds : fs[f].answer = forks[f].answer
BY DEF SameRoles

\* The paths of the forks that are waited for, after each step of the reviewer that may change
\* them.
LEMMA AnswerPath == ASSUME Inv, PathKept, Answer PROVE PathKept'
<1> DEFINE q == round.made + 1
           a == round.attempt + 1
           f == me.taken
           bare == f # 0 /\ agent.hooks = "heard" /\ Unchanged(f)
           asked == [me EXCEPT !.access = a, !.taken = 0]
           fs == Discard(forks, {f})
           m == Erasing(asked, {f} \ {0})
<1>1. /\ me \in Reviewers /\ forks \in [ForkIds -> Records] /\ round \in Rounds
      /\ path \in [Answers -> 0 .. MaxForks] /\ me.step = "idle" /\ round.out = 0
      /\ q <= MaxAnswers /\ a <= MaxAttempts
  BY DEF Inv, RunAheadInv, Types, Answer, QuestionWaits, Idle
<1>2. me.finishing = 0 /\ q \in Answers /\ q \in 0 .. MaxAnswers /\ a \in 0 .. MaxAttempts
      /\ a \in 0 .. MaxAttempts + MaxForks
  BY <1>1, Bounds DEF Inv, RunAheadInv, FinishingKept, Answers, Rounds
<1>3. f # 0 => f \in ForkIds /\ ~Moving(me) /\ forks[f].answer = q /\ forks[f] # NoFork
               /\ ~IsAgentSession(forks[f])
  BY <1>1, Bounds DEF Inv, RunAheadInv, TakenKept, Prepared, Reviewers, ForkIds, IsAgentSession
<1>4. /\ asked \in Reviewers /\ asked.switching = me.switching /\ asked.finishing = 0
      /\ asked.step = "idle" /\ asked.erasing = me.erasing
  BY <1>1, <1>2, Bounds DEF Reviewers
<1> HIDE DEF asked, a, q, f, bare
<1>5. CASE SwitchBegins(forks, asked, f, a, FALSE, "recording")
  <2>1. me'.finishing = 0 /\ me'.step = "recording"
    BY <1>4, <1>5 DEF SwitchBegins, Reviewers
  <2> QED  BY <2>1, NoneAwaited
<1>6. CASE /\ bare /\ me' = [asked EXCEPT !.finishing = f, !.pending = q]
           /\ path' = [path EXCEPT ![q] = f] /\ UNCHANGED forks
  <2>1. me'.finishing = f /\ me'.switching = me.switching
    BY <1>4, <1>6 DEF Reviewers
  <2>2. f # 0 /\ me'.switching = NoSwitch
    BY <1>3, <1>6, <2>1 DEF bare, Moving
  <2> QED  BY <1>1, <1>2, <1>3, <1>6, <2>1, <2>2 DEF PathKept
<1>7. CASE HoldOrSend(fs, m, path, round.taken, q, a) /\ UNCHANGED path
  <2>1. SameRoles(forks, fs)
    <3>1. \A g \in {f} \cap ForkIds : forks[g] # NoFork
      BY <1>3, Bounds DEF ForkIds
    <3> QED  BY <1>1, <3>1, DiscardRoles
  <2>2. /\ m \in Reviewers /\ m.switching = me.switching /\ m.finishing = 0 /\ m.step = "idle"
    <3>1. {f} \ {0} \subseteq ForkIds
      BY <1>3
    <3> QED  BY <1>4, <3>1 DEF Reviewers, Erasing
  <2>3. fs \in [ForkIds -> Records]
    BY <2>1 DEF SameRoles
  <2> HIDE DEF fs, m
  <2>4. /\ me'.switching = me.switching /\ me'.finishing = 0 /\ me'.step = "idle"
        /\ \A g \in ForkIds : forks'[g].answer = fs[g].answer
    BY <1>2, <1>7, <2>2, <2>3, HoldOrSendHands
  <2>5. SameAnswers
    BY <2>1, <2>4, RolesAnswer DEF SameAnswers
  <2> QED  BY <1>1, <1>2, <1>7, <2>4, <2>5, SameAwaited
<1> QED  BY <1>5, <1>6, <1>7 DEF Answer, q, a, f, bare, asked

\* Of Stop waiting.
LEMMA StopPath == ASSUME Inv, PathKept, Stop PROVE PathKept'
<1> DEFINE f == IF me.finishing # 0 THEN me.finishing ELSE me.switching.fork
           q == me.pending
           a == round.attempt + 1
           waited == me.finishing # 0 \/ (me.switching.waited /\ ~me.switching.stopped)
           without == Erasing([me EXCEPT !.finishing = 0, !.access = a], {me.finishing} \ {0})
           stopped == [without EXCEPT !.switching.stopped = me.switching.waited]
           fs == Discard(forks, {me.finishing})
<1>1. /\ me \in Reviewers /\ forks \in [ForkIds -> Records] /\ round \in Rounds
      /\ me.step = "idle" /\ a \in Nat
  BY Bounds DEF Inv, RunAheadInv, Types, Stop, Idle, Rounds
<1>2. me.finishing # 0 => me.finishing \in ForkIds /\ me.switching = NoSwitch
                          /\ forks[me.finishing] # NoFork
  BY <1>1, Bounds DEF Inv, RunAheadInv, FinishingKept, Prepared, Moving, Reviewers, ForkIds
<1>3. CASE waited /\ a <= MaxAttempts /\ HoldOrSend(fs, stopped, path', round.taken, q, a)
  <2>1. fs \in [ForkIds -> Records]
    <3>1. \A g \in {me.finishing} \cap ForkIds : forks[g] # NoFork
      BY <1>2, Bounds DEF ForkIds
    <3> QED  BY <1>1, <3>1, DiscardRoles DEF SameRoles
  <2>2. /\ without \in Reviewers /\ without.switching = me.switching /\ without.finishing = 0
        /\ without.step = "idle"
    <3>1. a \in 0 .. MaxAttempts + MaxForks /\ {me.finishing} \ {0} \subseteq ForkIds
      BY <1>1, <1>2, <1>3, Bounds
    <3> HIDE DEF a
    <3> DEFINE m == [me EXCEPT !.finishing = 0, !.access = a]
    <3>2. 0 \in 0 .. MaxForks
      BY Bounds
    <3>3. /\ m \in Reviewers /\ m.switching = me.switching /\ m.finishing = 0 /\ m.step = "idle"
      BY <1>1, <3>1, <3>2 DEF Reviewers
    <3>4. without = Erasing(m, {me.finishing} \ {0})
      OBVIOUS
    <3> HIDE DEF m, without
    <3> QED  BY <3>1, <3>3, <3>4 DEF Reviewers, Erasing
  <2> HIDE DEF without, fs, a
  <2>3. /\ stopped \in Reviewers /\ stopped.finishing = 0
        /\ stopped.switching = NoSwitch \/ stopped.switching.stopped
    <3>1. CASE me.switching \in Switches
      <4>1. stopped = [without EXCEPT !.switching = [me.switching EXCEPT !.stopped = me.switching.waited]]
        BY <2>2
      <4>2. me.finishing = 0 => me.switching.waited
        BY <1>3
      <4>3. ASSUME me.finishing # 0 PROVE me.switching.waited = FALSE /\ NoSwitch.waited = FALSE
        BY <1>2, <4>3 DEF NoSwitch
      <4>4. [me.switching EXCEPT !.stopped = me.switching.waited] \in Switches
        BY <3>1 DEF Switches
      <4>5. [me.switching EXCEPT !.stopped = me.switching.waited].stopped = me.switching.waited
        BY <3>1 DEF Switches
      <4>6. me.finishing # 0 => me.switching = NoSwitch /\ NoSwitch.fork = 0
        BY <1>2 DEF NoSwitch
      <4>7. me.switching.fork # 0
        BY <3>1, Bounds DEF Switches, ForkIds
      <4>8. me.finishing = 0
        BY <4>6, <4>7
      <4> QED  BY <2>2, <4>1, <4>2, <4>4, <4>5, <4>8 DEF Reviewers
    <3>2. CASE me.switching = NoSwitch
      <4>1. [NoSwitch EXCEPT !.stopped = NoSwitch.waited] = NoSwitch
        <5>1. NoSwitch.waited = NoSwitch.stopped
          BY DEF NoSwitch
        <5>2. NoSwitch = [x \in DOMAIN NoSwitch |-> NoSwitch[x]] /\ NoSwitch.stopped = NoSwitch["stopped"]
          BY DEF NoSwitch
        <5> QED  BY <5>1, <5>2
      <4>2. stopped = [without EXCEPT !.switching = NoSwitch]
        BY <2>2, <3>2, <4>1
      <4> QED  BY <2>2, <4>2 DEF Reviewers
    <3> QED  BY <1>1, <3>1, <3>2 DEF Reviewers
  <2> HIDE DEF stopped
  <2>4. q \in 0 .. MaxAnswers /\ a \in 0 .. MaxAttempts
    BY <1>1, <1>3 DEF Reviewers, a
  <2> HIDE DEF q
  <2>5. me'.switching = stopped.switching /\ me'.finishing = 0
    BY <1>3, <2>1, <2>3, <2>4, HoldOrSendHands
  <2> QED  BY <2>3, <2>5, NoneAwaited
<1>4. CASE /\ me' = [me EXCEPT !.access = 0, !.pending = 0] /\ UNCHANGED <<forks, path>>
  <2>1. me'.switching = me.switching /\ me'.finishing = me.finishing /\ me'.step = me.step
    BY <1>1, <1>4 DEF Reviewers
  <2> QED  BY <1>4, <2>1, SameAwaited DEF SameAnswers
<1> QED  BY <1>3, <1>4 DEF Stop

\* Of Cancel.
LEMMA CancelPath == ASSUME Inv, PathKept, CancelAnswer PROVE PathKept'
<1> DEFINE q == round.retry
           f == me.finishing
<1>1. /\ me \in Reviewers /\ forks \in [ForkIds -> Records]
  BY DEF Inv, RunAheadInv, Types
<1>2. f # 0 => f \in ForkIds /\ me.switching = NoSwitch /\ forks[f] # NoFork
  BY <1>1, Bounds DEF Inv, RunAheadInv, FinishingKept, Prepared, Moving, Reviewers, ForkIds
<1>3. CASE /\ me' = Erasing([me EXCEPT !.access = 0, !.pending = 0, !.finishing = 0], {f} \ {0})
           /\ forks' = Discard(forks, {f})
           /\ path' = IF f # 0 THEN [path EXCEPT ![q] = 0] ELSE path
  <2>1. me'.switching = me.switching /\ me'.finishing = 0 /\ me'.step = me.step
    <3> DEFINE m == [me EXCEPT !.access = 0, !.pending = 0, !.finishing = 0]
    <3>1. m.switching = me.switching /\ m.finishing = 0 /\ m.step = me.step /\ m \in Reviewers
      <4>1. 0 \in 0 .. MaxAnswers /\ 0 \in 0 .. MaxAttempts + MaxForks /\ 0 \in 0 .. MaxForks
        BY Bounds
      <4> QED  BY <1>1, <4>1 DEF Reviewers
    <3>2. me' = Erasing(m, {f} \ {0})
      BY <1>3
    <3> HIDE DEF m
    <3> QED  BY <3>1, <3>2 DEF Erasing, Reviewers
  <2>2. SameAnswers
    <3>1. \A g \in {f} \cap ForkIds : forks[g] # NoFork
      BY <1>2, Bounds DEF ForkIds
    <3>2. SameRoles(forks, Discard(forks, {f}))
      BY <1>1, <3>1, DiscardRoles
    <3> QED  BY <1>3, <3>2, RolesAnswer DEF SameAnswers
  <2>3. CASE f # 0
    BY <1>2, <2>1, <2>3, NoneAwaited
  <2>4. CASE f = 0
    BY <1>3, <2>1, <2>2, <2>4, SameAwaited
  <2> QED  BY <2>3, <2>4
<1>4. CASE UNCHANGED <<me, forks, path>>
  BY <1>4, SameAwaited DEF SameAnswers
<1> QED  BY <1>3, <1>4 DEF CancelAnswer

\* Of a fork that submits its turn or ends.
LEMMA ForksPath ==
    ASSUME Inv, PathKept, NEW f \in ForkIds, ForkSubmits(f) \/ ForkEnds(f) PROVE PathKept'
<1>1. /\ me \in Reviewers /\ forks \in [ForkIds -> Records] /\ path \in [Answers -> 0 .. MaxForks]
      /\ f \in {me.taken, me.finishing} /\ f # 0 /\ round.attempt \in 0 .. MaxAttempts
  <2>1. f \in {me.taken, me.finishing}
    BY DEF ForkSubmits, ForkEnds
  <2>2. /\ me \in Reviewers /\ forks \in [ForkIds -> Records]
        /\ path \in [Answers -> 0 .. MaxForks] /\ round \in Rounds
    BY DEF Inv, RunAheadInv, Types
  <2>3. round.attempt \in 0 .. MaxAttempts
    BY <2>2 DEF Rounds
  <2>4. f # 0
    BY Bounds DEF ForkIds
  <2> QED  BY <2>1, <2>2, <2>3, <2>4
<1>2. Prepared(forks, f) /\ forks[f] # NoFork /\ me.switching = NoSwitch
  BY <1>1 DEF Inv, RunAheadInv, TakenKept, FinishingKept, Prepared, Moving
<1>3. ASSUME NEW fs, SameRoles(forks, fs), forks' = fs, UNCHANGED <<path, me>> PROVE PathKept'
  <2>1. SameAnswers
    BY <1>3, RolesAnswer DEF SameAnswers
  <2> QED  BY <1>3, <2>1, SameAwaited
<1>4. ASSUME NEW fs, SameRoles(forks, fs), f = me.finishing, AnswerToAgent(fs, forks[f].answer)
      PROVE  PathKept'
  <2> DEFINE m == Erasing([me EXCEPT !.finishing = 0], {f})
             fs2 == Discard(fs, {f})
  <2>1. fs \in [ForkIds -> Records] /\ fs[f] # NoFork
    BY <1>2, <1>4 DEF SameRoles
  <2>2. fs2 \in [ForkIds -> Records]
    BY <2>1, DiscardRoles DEF SameRoles
  <2>3. /\ m \in Reviewers /\ m.switching = NoSwitch /\ m.finishing = 0
    <3> DEFINE n == [me EXCEPT !.finishing = 0]
    <3>1. 0 \in 0 .. MaxForks
      BY Bounds
    <3>2. n \in Reviewers /\ n.switching = NoSwitch /\ n.finishing = 0
      BY <1>1, <1>2, <3>1 DEF Reviewers
    <3>3. m = Erasing(n, {f})
      OBVIOUS
    <3> HIDE DEF n, m
    <3> QED  BY <3>2, <3>3 DEF Reviewers, Erasing
  <2>4. HoldOrSend(fs2, m, path', round.taken, forks[f].answer, round.attempt)
    BY <1>4 DEF AnswerToAgent
  <2>5. forks[f].answer \in 0 .. MaxAnswers
    BY <1>1 DEF Records
  <2> HIDE DEF m, fs2
  <2>6. me'.finishing = 0 /\ me'.switching = NoSwitch
    BY <1>1, <2>2, <2>3, <2>4, <2>5, HoldOrSendHands
  <2> QED  BY <2>6, NoneAwaited
<1>5. SameRoles(forks, [forks EXCEPT ![f].turn = TRUE])
      /\ SameRoles(forks, [forks EXCEPT ![f].ended = TRUE])
  BY <1>2, ForkMarked
<1>6. ASSUME f = me.finishing, UNCHANGED path,
             SwitchBegins([forks EXCEPT ![f].turn = TRUE], [me EXCEPT !.finishing = 0],
                          f, round.attempt, TRUE, "idle")
      PROVE  PathKept'
  <2> DEFINE fs == [forks EXCEPT ![f].turn = TRUE]
             m == [me EXCEPT !.finishing = 0]
  <2>1. /\ fs \in [ForkIds -> Records] /\ fs[f].answer = forks[f].answer
    BY <1>5 DEF SameRoles
  <2>2. m \in Reviewers /\ m.finishing = 0
    BY <1>1, Bounds DEF Reviewers
  <2>3. SwitchBegins(fs, m, f, round.attempt, TRUE, "idle")
    BY <1>6
  <2> HIDE DEF fs, m
  <2>4. me'.finishing = 0 /\ me'.switching.fork = f /\ forks'[f].answer = forks[f].answer
    <3>1. [NoSwitch EXCEPT !.fork = f, !.attempt = round.attempt, !.waited = TRUE].fork = f
      BY DEF NoSwitch
    <3>2. forks' = [fs EXCEPT ![f] = [fs[f] EXCEPT !.continued = "switching"]]
      BY <2>3 DEF SwitchBegins, Continue
    <3>3. [fs[f] EXCEPT !.continued = "switching"].answer = fs[f].answer
      BY <2>1 DEF Records
    <3>4. me' = [m EXCEPT !.pending = fs[f].answer, !.step = "idle",
                   !.switching = [NoSwitch EXCEPT !.fork = f, !.attempt = round.attempt, !.waited = TRUE]]
      BY <2>3 DEF SwitchBegins
    <3>5. me'.finishing = 0
          /\ me'.switching = [NoSwitch EXCEPT !.fork = f, !.attempt = round.attempt, !.waited = TRUE]
      BY <2>2, <3>4 DEF Reviewers
    <3>6. forks'[f].answer = fs[f].answer
      BY <2>1, <3>2, <3>3
    <3> QED  BY <2>1, <3>1, <3>5, <3>6
  <2>5. path[forks[f].answer] = f
    BY <1>1, <1>6 DEF PathKept
  <2> QED  BY <1>6, <2>4, <2>5 DEF PathKept
<1> QED
  BY <1>3, <1>4, <1>5, <1>6 DEF ForkSubmits, ForkEnds

\* Of a switch that ends.
LEMMA SwitchPath == ASSUME Inv, PathKept, SwitchEnds PROVE PathKept'
<1> DEFINE f == me.switching.fork
           q == forks[f].answer
           plain == IF me.switching.stopped THEN path ELSE [path EXCEPT ![q] = 0]
           ended == [me EXCEPT !.switching = NoSwitch]
           gone == Discard(Continue(forks, f, "none"), {f})
<1>1. /\ me \in Reviewers /\ forks \in [ForkIds -> Records] /\ me.switching # NoSwitch
      /\ f \in Late(forks) /\ f \in ForkIds
  <2>1. me.switching # NoSwitch
    BY DEF SwitchEnds
  <2>2. f \in Late(forks)
    BY <2>1, MovingFork DEF Inv, RunAheadInv
  <2> QED  BY <2>1, <2>2 DEF Inv, RunAheadInv, Types, Late
<1>2. me.finishing = 0
  BY <1>1, NothingInHand DEF Moving
<1>3. ended \in Reviewers /\ ended.switching = NoSwitch /\ ended.finishing = 0
  BY <1>1, <1>2 DEF Reviewers
<1> HIDE DEF plain, q, f, ended
<1>4. ASSUME NEW fs, Undo(fs, me, plain, round.taken, f) PROVE PathKept'
  <2>1. me' = Settling(ended, fs, f, plain, round.taken, TRUE)
    BY <1>4 DEF Undo, ended
  <2>2. me'.switching = NoSwitch /\ me'.finishing = 0
    BY <1>3, <2>1 DEF Settling, Reviewers
  <2> QED  BY <2>2, NoneAwaited
<1>5. CASE AfterMoved(gone, Erasing(ended, {f}), plain, round.taken)
  <2> DEFINE m == Erasing(ended, {f})
  <2>1. m \in Reviewers /\ m.switching = NoSwitch /\ m.finishing = 0
    BY <1>1, <1>3 DEF Reviewers, Erasing
  <2>2. gone \in [ForkIds -> Records]
    <3>1. Continue(forks, f, "none") \in [ForkIds -> Records]
      BY <1>1 DEF Continue, Records
    <3>2. \A r \in Records : [r EXCEPT !.discarded = TRUE, !.turn = FALSE] \in Records
      BY DEF Records
    <3> QED  BY <3>1, <3>2 DEF Discard
  <2> HIDE DEF m, gone
  <2>3. AfterMoved(gone, m, plain, round.taken)
    BY <1>5 DEF m
  <2>4. me'.finishing = 0 /\ me'.switching = NoSwitch
    BY <2>1, <2>2, <2>3, AfterMovedHands
  <2> QED  BY <2>4, NoneAwaited
<1>6. CASE me' = [me EXCEPT !.step = "committed"]
  <2>1. me'.finishing = 0 /\ me'.step = "committed"
    BY <1>1, <1>2, <1>6 DEF Reviewers
  <2> QED  BY <2>1, NoneAwaited
<1> QED
  BY <1>4, <1>5, <1>6 DEF SwitchEnds, f, q, plain, ended, gone

\* Of a switch that is recorded.
LEMMA RecordedPath == ASSUME Inv, PathKept, RecordSwitched PROVE PathKept'
<1> DEFINE f == me.switching.fork
           m == [me EXCEPT !.step = "idle", !.switching = NoSwitch, !.access = MaxAttempts + f]
           fs == Continue(forks, f, "switched")
<1>1. /\ me \in Reviewers /\ forks \in [ForkIds -> Records] /\ me.switching # NoSwitch
      /\ me.settling = NoSettling
      /\ me.switching \in Switches
      /\ AfterMoved(fs, m, path, round.taken)
  BY DEF Inv, RunAheadInv, Types, RecordSwitched, MoveKept, SwitchKept, Reviewers
<1>2. me.finishing = 0 /\ f \in ForkIds
  BY <1>1, NothingInHand DEF Moving, Switches
<1>3. m \in Reviewers /\ m.switching = NoSwitch /\ m.finishing = 0
  <2>1. MaxAttempts + f \in 0 .. MaxAttempts + MaxForks
    BY <1>2, Bounds DEF ForkIds
  <2> HIDE DEF f
  <2> QED  BY <1>1, <1>2, <2>1 DEF Reviewers
<1>4. fs \in [ForkIds -> Records]
  BY <1>1 DEF Continue, Records
<1> HIDE DEF m, fs, f
<1>5. me'.finishing = 0 /\ me'.switching = NoSwitch
  BY <1>1, <1>3, <1>4, AfterMovedHands
<1> QED  BY <1>5, NoneAwaited

\* Of a settling that ends.
LEMMA SettlePath == ASSUME Inv, PathKept, SettleEnds PROVE PathKept'
<1> DEFINE f == me.settling.fork
           ended == [me EXCEPT !.settling = NoSettling]
           back == [ended EXCEPT !.vain = @ \ {f}]
           vain == IF me.settling.unasked /\ move.at = "typed in vain" THEN {f} ELSE {}
           fs1 == Continue(forks, f, "switched")
           fs2 == Discard(Continue(forks, f, "undone"), {f})
<1>1. /\ me \in Reviewers /\ forks \in [ForkIds -> Records] /\ me.settling # NoSettling
      /\ me.switching = NoSwitch /\ f \in ForkIds
  BY DEF Inv, RunAheadInv, Types, SettleEnds, SwitchKept, Reviewers, Settlings
<1>2. me.finishing = 0
  BY <1>1, NothingInHand DEF Moving
<1>3. ended \in Reviewers /\ ended.switching = NoSwitch /\ ended.finishing = 0
  BY <1>1, <1>2 DEF Reviewers
<1> HIDE DEF ended
<1>4. back \in Reviewers /\ back.switching = NoSwitch /\ back.finishing = 0
  <2> HIDE DEF f
  <2> QED  BY <1>3 DEF Reviewers
<1>5. Erasing(back, {f}) \in Reviewers /\ Erasing(back, {f}).switching = NoSwitch
      /\ Erasing(back, {f}).finishing = 0
  <2> HIDE DEF f, back
  <2> QED  BY <1>1, <1>4 DEF Reviewers, Erasing
<1>6. fs1 \in [ForkIds -> Records] /\ fs2 \in [ForkIds -> Records]
  <2>1. Continue(forks, f, "undone") \in [ForkIds -> Records] /\ fs1 \in [ForkIds -> Records]
    BY <1>1 DEF Continue, Records
  <2>2. \A r \in Records : [r EXCEPT !.discarded = TRUE, !.turn = FALSE] \in Records
    BY DEF Records
  <2> QED  BY <2>1, <2>2 DEF Discard
<1> HIDE DEF back, fs1, fs2, f, vain
<1>7. CASE \/ AfterMoved(fs1, back, path, round.taken)
           \/ AfterMoved(fs2, Erasing(back, {f}), path, round.taken)
  <2>1. me'.finishing = 0 /\ me'.switching = NoSwitch
    BY <1>4, <1>5, <1>6, <1>7, AfterMovedHands
  <2> QED  BY <2>1, NoneAwaited
<1>8. CASE me' = [ended EXCEPT !.vain = @ \cup vain, !.held = NoTurn]
  <2>1. me'.finishing = 0 /\ me'.switching = NoSwitch
    BY <1>3, <1>8 DEF Reviewers
  <2> QED  BY <2>1, NoneAwaited
<1> QED  BY <1>7, <1>8 DEF SettleEnds, f, ended, back, vain, fs1, fs2

\* Of Retry.
LEMMA RetryPath == ASSUME Inv, PathKept, Retry PROVE PathKept'
<1> DEFINE q == round.retry
           a == round.attempt + 1
           m == [me EXCEPT !.access = a]
<1>1. /\ me \in Reviewers /\ forks \in [ForkIds -> Records] /\ round \in Rounds
      /\ q \in 0 .. MaxAnswers /\ a \in 0 .. MaxAttempts /\ a \in 0 .. MaxAttempts + MaxForks
      /\ UNCHANGED path /\ HoldOrSend(forks, m, path, round.taken, q, a)
  BY Bounds DEF Inv, RunAheadInv, Types, Retry, Rounds
<1> HIDE DEF a, q
<1>2. m \in Reviewers /\ m.switching = me.switching /\ m.finishing = me.finishing /\ m.step = me.step
  BY <1>1 DEF Reviewers
<1> HIDE DEF m
<1>3. /\ me'.switching = me.switching /\ me'.finishing = me.finishing /\ me'.step = me.step
      /\ SameAnswers
  BY <1>1, <1>2, HoldOrSendHands DEF SameAnswers
<1> QED  BY <1>1, <1>3, SameAwaited

\* Of the answer's path itself.
LEMMA RecordAnswerPath == ASSUME Inv, PathKept, RecordAnswer PROVE PathKept'
<1>1. /\ me \in Reviewers /\ path \in [Answers -> 0 .. MaxForks] /\ UNCHANGED forks
      /\ me.step = "recording" /\ me' = [me EXCEPT !.step = "idle"]
      /\ path' = [path EXCEPT ![me.pending] = me.switching.fork]
  BY DEF Inv, RunAheadInv, Types, RecordAnswer
<1>2. /\ me.switching # NoSwitch /\ me.pending = forks[me.switching.fork].answer
      /\ me.switching.fork \in ForkIds
  BY <1>1 DEF Inv, RunAheadInv, MoveKept, SwitchKept, Reviewers, Switches
<1>3. me.finishing = 0
  BY <1>2, NothingInHand DEF Moving
<1>4. forks[me.switching.fork].answer \in Answers
  <2> DEFINE f == me.switching.fork
  <2>1. forks[f] \in Records /\ forks[f].continued = "switching"
    BY <1>2 DEF Inv, RunAheadInv, Types, SwitchKept
  <2> HIDE DEF f
  <2>2. forks[f] # NoFork
    BY <2>1 DEF NoFork
  <2>3. forks[f].answer # 0
    BY <1>2, <2>2 DEF Inv, RunAheadInv, RecordsKept, f
  <2>4. forks[f].answer \in Answers
    BY <2>1, <2>3, Bounds DEF Records, Answers
  <2> QED  BY <2>4 DEF f
<1>5. me'.finishing = 0 /\ me'.switching = me.switching
  BY <1>1, <1>3 DEF Reviewers
<1> QED  BY <1>1, <1>2, <1>4, <1>5 DEF PathKept

\* Of a fork that is taken.
LEMMA TakeForksPath == ASSUME Inv, PathKept, TakeForks PROVE PathKept'
<1>1. PICK f \in ForkIds : me' = [me EXCEPT !.taken = f]
  BY DEF TakeForks
<1>2. me \in Reviewers /\ me.taken = 0 /\ ~Moving(me) /\ round.out = 0
  BY DEF Inv, RunAheadInv, Types, TakeForks, QuestionWaits
<1>3. me.finishing = 0 /\ me.switching = NoSwitch
  BY <1>2 DEF Inv, RunAheadInv, FinishingKept, Moving
<1>4. me'.finishing = 0 /\ me'.switching = NoSwitch
  BY <1>1, <1>2, <1>3 DEF Reviewers
<1> QED  BY <1>4, NoneAwaited

\* Of a settling before it.
LEMMA SettleFirstPath == ASSUME Inv, PathKept, SettleFirst PROVE PathKept'
<1> DEFINE f == Min(Unsettled(forks, me))
<1>1. /\ me \in Reviewers /\ ~Moving(me) /\ round.out = 0
      /\ \/ me' = Settling(me, forks, f, path, round.taken, TRUE)
         \/ me' = Erasing(me, {f})
  BY DEF Inv, RunAheadInv, Types, SettleFirst, QuestionWaits
<1>2. me.finishing = 0 /\ me.switching = NoSwitch
  BY <1>1 DEF Inv, RunAheadInv, FinishingKept, Moving
<1> HIDE DEF f
<1>3. me'.finishing = 0 /\ me'.switching = NoSwitch
  BY <1>1, <1>2 DEF Settling, Erasing, Reviewers
<1> QED  BY <1>3, NoneAwaited

\* Of a fork that is dropped.
LEMMA DropForksPath == ASSUME Inv, PathKept, DropForks PROVE PathKept'
<1> DEFINE f == me.taken
<1>1. /\ me \in Reviewers /\ forks \in [ForkIds -> Records] /\ f # 0 /\ UNCHANGED path
      /\ forks' = Discard(forks, {f}) /\ me' = Erasing([me EXCEPT !.taken = 0], {f})
  BY DEF Inv, RunAheadInv, Types, DropForks
<1>2. forks[f] # NoFork /\ me.finishing = 0 /\ ~Moving(me)
  BY <1>1 DEF Inv, RunAheadInv, TakenKept, Prepared
<1>3. me'.finishing = 0 /\ me'.switching = NoSwitch
  <2> DEFINE m == [me EXCEPT !.taken = 0]
  <2>1. 0 \in 0 .. MaxForks
    BY Bounds
  <2>2. m \in Reviewers /\ m.finishing = 0 /\ m.switching = NoSwitch
    BY <1>1, <1>2, <2>1 DEF Reviewers, Moving
  <2>3. me' = Erasing(m, {f})
    BY <1>1
  <2> HIDE DEF m, f
  <2> QED  BY <2>2, <2>3 DEF Erasing, Reviewers
<1> QED  BY <1>3, NoneAwaited

\* Of a fork that is deleted.
LEMMA CleanPath == ASSUME Inv, PathKept, NEW f \in ForkIds, Clean(f) PROVE PathKept'
<1>1. /\ me \in Reviewers /\ forks \in [ForkIds -> Records] /\ UNCHANGED path
      /\ forks' = [forks EXCEPT ![f].cleaned = TRUE] /\ me' = [me EXCEPT !.erasing = @ \ {f}]
  BY DEF Inv, RunAheadInv, Types, Clean
<1>2. /\ me'.finishing = me.finishing /\ me'.switching = me.switching /\ me'.step = me.step
  BY <1>1 DEF Reviewers
<1>3. SameAnswers
  BY <1>1 DEF SameAnswers, Records
<1> QED  BY <1>1, <1>2, <1>3, SameAwaited

\* Of a reviewer that is opened again.
LEMMA ReopenPath == ASSUME Inv, PathKept, Reopen PROVE PathKept'
<1>1. me'.finishing = 0 /\ me'.switching = NoSwitch
  BY DEF Reopen, Erasing, Opened
<1> QED  BY <1>1, NoneAwaited

\* Where neither the reviewer's memory nor the forks and the paths it saved change.
LEMMA OthersPath ==
    ASSUME Inv, PathKept, UNCHANGED <<forks, path, me>> PROVE PathKept'
BY SameAwaited DEF SameAnswers

-----------------------------------------------------------------------------
(* What holds of every run. *)

\* A step in which nothing happens changes nothing.
LEMMA StutterKeeps == ASSUME Inv, PathKept, UNCHANGED vars PROVE Inv' /\ PathKept'
<1>1. PathKept'
  BY OthersPath DEF vars, disk
<1>2. WorldTypes' /\ (\A f \in erased' : forks'[f].discarded)
  BY DEF vars, disk, world, Inv, WorldTypes, RunAheadInv, SessionsKept
<1>3. RunAheadInv(round', forks', path', me', queue', move')
  BY DEF vars, disk, Inv
<1>4. Inv'
  BY <1>2, <1>3, WorldGrows DEF vars, world
<1> QED  BY <1>1, <1>4

\* The invariant of run-ahead is one: every step keeps it.
LEMMA InvIsInductive == ASSUME Inv, PathKept, [Next]_vars PROVE Inv' /\ PathKept'
<1>1. CASE Reviewer
  BY <1>1, AnswerKeeps, RecordAnswerKeeps, RetryKeeps, StopKeeps, CancelAnswerKeeps, ReopenKeeps,
     AnswerPath, RecordAnswerPath, RetryPath, StopPath, CancelPath, ReopenPath DEF Reviewer
<1>2. CASE Forks
  BY <1>2, TakeForksKeeps, SettleFirstKeeps, DropForksKeeps, ForkSubmitsKeeps, ForkEndsKeeps,
     CleanKeeps, TakeForksPath, SettleFirstPath, DropForksPath, ForksPath, CleanPath DEF Forks
<1>3. CASE Moves
  <2>1. CASE MoveBegins \/ MoveTimesOut
    <3>1. PathKept'
      BY <2>1, OthersPath DEF MoveBegins, MoveTimesOut, disk
    <3> QED  BY <2>1, <3>1, MoveBeginsKeeps, MoveTimesOutKeeps
  <2> QED  BY <1>3, <2>1, SwitchEndsKeeps, RecordSwitchedKeeps, SettleEndsKeeps,
              SwitchPath, RecordedPath, SettlePath DEF Moves
<1>4. CASE Prompts
  <2>1. PathKept'
    BY <1>4, OthersPath DEF Prompts, PromptStarts, PromptArrives, PromptFails, disk
  <2> QED  BY <1>4, <2>1, PromptStartsKeeps, PromptArrivesKeeps, PromptFailsKeeps DEF Prompts
<1>5. CASE Agent
  <2>1. PathKept'
    BY <1>5, OthersPath DEF Agent, AgentResumes, AgentIgnores, AgentSubmits, AgentIdles,
                            AgentRestarts, disk
  <2> QED  BY <1>5, <2>1, AgentResumesKeeps, AgentIgnoresKeeps, AgentSubmitsKeeps, AgentIdlesKeeps,
              AgentRestartsKeeps DEF Agent
<1>6. CASE UNCHANGED vars
  BY <1>6, StutterKeeps
<1> QED  BY <1>1, <1>2, <1>3, <1>4, <1>5, <1>6 DEF Next

\* The invariant holds in every state of a run, of the reviewer that knows its agent again and
\* of the one that does not: what the saved round, the fork records and the answers' paths say
\* agrees with what the reviewer has in hand, with the thread that moves the agent and with the
\* attempts of the prompts on their way.
THEOREM RunAheadInvariant == Spec => [](Inv /\ PathKept)
<1>1. Init => Inv /\ PathKept
  <2>1. Init => Inv
    BY InitHolds
  <2>2. Init => PathKept
    BY DEF Init, Opened, PathKept, NoSwitch
  <2> QED  BY <2>1, <2>2
<1>2. Inv /\ PathKept /\ [Next]_vars => (Inv /\ PathKept)'
  BY InvIsInductive
<1> QED  BY <1>1, <1>2, PTL DEF Spec

\* The types of the state of run-ahead.
THEOREM RunAheadTypes == Spec => []TypeOK
<1>1. Inv => TypeOK
  <2> SUFFICES ASSUME Inv PROVE TypeOK
    OBVIOUS
  <2>1. /\ round \in Rounds /\ forks \in [ForkIds -> Records] /\ path \in [Answers -> 0 .. MaxForks]
        /\ me \in Reviewers /\ queue \in Pairs /\ move \in MoveSteps /\ WorldTypes
    BY DEF Inv, RunAheadInv, Types
  <2>2. /\ DOMAIN me = DOMAIN Opened /\ me.step \in {"idle", "recording", "committed"}
        /\ me.erasing \subseteq ForkIds /\ me.vain \subseteq ForkIds /\ me.held \in Pairs
    BY <2>1 DEF Reviewers, Opened
  <2>3. {queue, sending, me.held, agent.doing} \subseteq (0 .. MaxAnswers) \X (0 .. MaxAttempts)
    BY <2>1, <2>2 DEF WorldTypes, Pairs
  <2>4. {move.to, agent.session} \cup Range(typed) \subseteq Sessions
    BY <2>1, RunningTyped DEF MoveSteps, Running
  <2>5. move.at \in Steps
    BY <2>1 DEF MoveSteps
  <2> QED  BY <2>1, <2>2, <2>3, <2>4, <2>5 DEF TypeOK, Rounds, Records, WorldTypes, Steps
<1> QED  BY <1>1, RunAheadInvariant, PTL

\* As long as no thread moved the agent early, the session that it runs, that it was told to
\* resume or that the thread moves it to is never deleted; early or not, a fork whose turn the
\* round took is discarded only after a restart of the agent.
THEOREM AgentSessionNeverGoes == Spec => []AgentSessionStays
<1>1. Inv => AgentSessionStays
  <2> SUFFICES ASSUME Inv PROVE AgentSessionStays
    OBVIOUS
  <2>1. /\ SessionsKept(forks, me, move) /\ RecordsKept(forks) /\ PathsKept(round, forks, path)
        /\ WorldTypes /\ forks \in [ForkIds -> Records]
    BY DEF Inv, RunAheadInv, Types
  <2>2. \A f \in ForkIds : forks[f].discarded => ~IsAgentSession(forks[f])
    <3> SUFFICES ASSUME NEW f \in ForkIds, forks[f].discarded PROVE ~IsAgentSession(forks[f])
      OBVIOUS
    <3>1. forks[f] # NoFork
      BY DEF NoFork
    <3> QED  BY <2>1, <3>1 DEF RecordsKept
  <2>3. ~early => (Running \cup {move.to}) \cap erased = {}
    BY <2>1, <2>2 DEF SessionsKept, WorldTypes, Resumable
  <2>4. ASSUME NEW f \in ForkIds, NEW q \in Answers, <<q, f>> \in round.taken, forks[f].discarded
        PROVE  forks[f].continued = "restarted"
    <3>1. ~IsAgentSession(forks[f])
      BY <2>2, <2>4
    <3>2. \/ forks[f].continued \in {"switched", "restarted"}
          \/ f \in Late(forks)
      BY <2>1, <2>4 DEF PathsKept
    <3> QED  BY <3>1, <3>2 DEF IsAgentSession, IsUnsettled, Late
  <2>5. /\ ~early => Running \cap erased = {}
        /\ ~early /\ move # NoMove => move.to \notin erased
    BY <2>3
  <2> QED  BY <2>4, <2>5 DEF AgentSessionStays
<1> QED  BY <1>1, RunAheadInvariant, PTL

-----------------------------------------------------------------------------
(* What the sessions hold, of a reviewer that knows its agent again. *)

\* A session may still be asked when it gains a turn of the agent.
LEMMA GoodGrows ==
    ASSUME NEW turns, NEW held, Good(turns, held), NEW q, q # 0
    PROVE  Good(turns, held \cup {<<q, 0>>})
BY DEF Good, TurnGood, Kickoff

\* And when the round takes a turn that it holds.
LEMMA GoodTakes ==
    ASSUME NEW turns, NEW held, Good(turns, held), NEW t \in held
    PROVE  Good(turns \cup {t}, held)
BY DEF Good, TurnGood

\* A new agent's session may be asked any answer.
LEMMA NewIsGood ==
    ASSUME NEW fs, WorldKept(fs), NEW turns PROVE Good(turns, contents[NewSession])
BY DEF WorldKept, Good, TurnGood, Kickoff

\* An agent without the hooks is a new one, and was told nothing.
Hookless == agent.hooks = "none" => typed = <<>> /\ agent.session = NewSession

\* So may the one of an agent without the hooks, which is a new one.
LEMMA NewIsCalm ==
    ASSUME NEW fs, WorldKept(fs), Hookless, agent.hooks = "none", NEW turns
    PROVE  Calm(turns)
<1>1. Range(<<>>) = {}
  BY DEF Range
<1> QED  BY <1>1, NewIsGood DEF Hookless, Calm, Runs, Running

\* The session of a calm agent that was not moved early.
LEMMA CalmAgent ==
    ASSUME NEW turns, Calm(turns) PROVE early \/ Good(turns, contents[agent.session])
BY DEF Calm, Runs, Running

\* What the sessions hold stays right where nothing that it depends on changes.
LEMMA SameMeets ==
    ASSUME UNCHANGED <<agent, typed, contents, early>>, sending' \in {sending, NoTurn},
           Meets(round'.taken, forks', path', me', move'), OutKept(round', forks', me')
    PROVE  MeetsInv'
BY DEF MeetsInv, Meets, WorldKept, CalmKept, Calm, SwitchGood, LateGood, SettleGood, OutKept, Runs, Running

\* The reviewer m2 has in hand what m has.
HandsAs(m, m2) ==
    /\ m2.settling = m.settling /\ m2.switching.fork = m.switching.fork
    /\ m2.step = "committed" <=> m.step = "committed"
    /\ m2.switching = NoSwitch <=> m.switching = NoSwitch

\* It stays right of forks that play the same parts.
LEMMA RolesMeet ==
    ASSUME NEW turns, NEW fs, NEW fs2, SameRoles(fs, fs2), NEW p, NEW m \in Reviewers, NEW m2,
           HandsAs(m, m2), NEW mv, Meets(turns, fs, p, m, mv)
    PROVE  Meets(turns, fs2, p, m2, mv)
<1>1. /\ m.switching # NoSwitch => m.switching.fork \in ForkIds
      /\ m.settling # NoSettling => m.settling.fork \in ForkIds
  BY DEF Reviewers, Switches, Settlings
<1>2. Late(fs2) = Late(fs) /\ Moving(m2) = Moving(m)
  BY DEF Late, SameRoles, IsUnsettled, HandsAs, Moving
<1>3. \A f \in ForkIds : Target(fs2, f, p, turns) = Target(fs, f, p, turns)
  BY DEF SameRoles, Target
<1>4. WorldKept(fs2)
  BY DEF Meets, WorldKept, SameRoles
<1>5. CalmKept(turns, fs2, m2, mv)
  BY <1>2 DEF Meets, CalmKept, HandsAs
<1>6. SwitchGood(turns, fs2, m2)
  BY <1>1 DEF Meets, SwitchGood, SameRoles, HandsAs
<1>7. LateGood(turns, fs2, p)
  <2>1. \A f \in Late(fs) : f \in ForkIds
    BY DEF Late
  <2> QED  BY <1>2, <1>3, <2>1 DEF Meets, LateGood, SameRoles
<1>8. SettleGood(turns, fs2, p, m2)
  BY <1>1, <1>3 DEF Meets, SettleGood, SameRoles, HandsAs
<1> QED  BY <1>4, <1>5, <1>6, <1>7, <1>8 DEF Meets

\* A path leads to a fork of its answer.
PathsLead(fs, p) == \A q \in Answers : p[q] # 0 => fs[p[q]].answer = q

\* A settling goes to the fork only where its answer has a turn.
LEMMA TargetUnasked ==
    ASSUME NEW fs, NEW p, PathsLead(fs, p), NEW f \in ForkIds,
           NEW turns, ~Answered(turns, fs[f].answer)
    PROVE  Target(fs, f, p, turns) = fs[f].from
<1>1. \A q \in Answers : p[q] = f => q = fs[f].answer
  BY Bounds DEF PathsLead, ForkIds
<1> QED  BY <1>1 DEF Target, RoundTook, Answered

\* And there where the path of that answer leads to it.
LEMMA TargetAsked ==
    ASSUME NEW fs, NEW p, PathsLead(fs, p), NEW f \in ForkIds,
           NEW turns, Target(fs, f, p, turns) = f, fs[f].from # f
    PROVE  p[fs[f].answer] = f /\ Answered(turns, fs[f].answer)
<1>1. \A q \in Answers : p[q] = f => q = fs[f].answer
  BY Bounds DEF PathsLead, ForkIds
<1>2. RoundTook(f, p, turns)
  BY DEF Target
<1> QED  BY <1>1, <1>2 DEF RoundTook, Answered

\* The paths may change of answers without a turn.
LEMMA PathsMeet ==
    ASSUME NEW fs, NEW p, NEW p2, PathsLead(fs, p), PathsLead(fs, p2),
           NEW turns, \A f \in Late(fs) : ~Answered(turns, fs[f].answer),
           LateGood(turns, fs, p)
    PROVE  LateGood(turns, fs, p2)
<1>1. \A f \in Late(fs) : Target(fs, f, p2, turns) = Target(fs, f, p, turns)
  BY TargetUnasked DEF Late
<1> QED  BY <1>1 DEF LateGood

\* A settling starts.
LEMMA SettleMeets ==
    ASSUME NEW rd, NEW fs, NEW p, NEW m, NEW f \in Late(fs), NEW s, NEW mv,
           s.switching = NoSwitch, s.settling.fork = f, s.settling.to = Target(fs, f, p, rd.taken),
           PathsLead(fs, p), fs[f].from # f,
           WorldKept(fs), LateGood(rd.taken, fs, p), NEW fs1, CalmKept(rd.taken, fs1, m, mv),
           agent.hooks = "heard" \/ ~Answered(rd.taken, fs[f].answer), NEW mv2
    PROVE  Meets(rd.taken, fs, p, s, mv2) /\ OutKept(rd, fs, s)
<1>1. f \in ForkIds /\ f # 0
  BY Bounds DEF Late, ForkIds
<1>2. s.settling # NoSettling /\ Moving(s)
  BY <1>1 DEF NoSettling, Moving
<1>3. CalmKept(rd.taken, fs, s, mv2)
  BY <1>2 DEF CalmKept
<1>4. s.settling.to = f => <<fs[f].answer, f>> \in rd.taken
  <2> SUFFICES ASSUME Target(fs, f, p, rd.taken) = f PROVE <<fs[f].answer, f>> \in rd.taken
    OBVIOUS
  <2>1. p[fs[f].answer] = f /\ Answered(rd.taken, fs[f].answer)
    BY <1>1, TargetAsked
  <2> QED  BY <2>1 DEF LateGood
<1>5. SettleGood(rd.taken, fs, p, s)
  BY <1>4 DEF SettleGood
<1> QED  BY <1>2, <1>3, <1>5 DEF Meets, SwitchGood, OutKept

\* No fork is left that the agent may resume.
LEMMA LeftMeets ==
    ASSUME NEW rd, NEW fs, NEW p, NEW m, NEW fs2, NEW m2, NEW mv, NEW mv2,
           WorldKept(fs), CalmKept(rd.taken, fs, m, mv), Calm(rd.taken), Late(fs2) = {},
           \A g \in ForkIds : fs2[g] # NoFork => fs[g] # NoFork /\ fs2[g].answer = fs[g].answer,
           m2.switching = NoSwitch, m2.settling = NoSettling
    PROVE  Meets(rd.taken, fs2, p, m2, mv2) /\ OutKept(rd, fs2, m2)
<1>1. WorldKept(fs2)
  BY DEF WorldKept
<1>2. CalmKept(rd.taken, fs2, m2, mv2)
  BY DEF CalmKept
<1> QED  BY <1>1, <1>2 DEF Meets, SwitchGood, LateGood, SettleGood, OutKept

\* The forks fs2 are some of fs, and none is left that the agent may resume.
LeavesNone(fs, fs2) ==
    /\ Late(fs2) = {} /\ fs2 \in [ForkIds -> Records]
    /\ \A g \in ForkIds : fs2[g] # NoFork => fs[g] # NoFork /\ fs2[g].answer = fs[g].answer

\* The fork f of fs is not resumed any more, as continued in c, and is discarded or not.
LEMMA NoneLate ==
    ASSUME NEW fs \in [ForkIds -> Records], OneLate(fs), NEW f \in Late(fs),
           NEW c \in {"none", "undone", "restarted", "switched"}
    PROVE  /\ LeavesNone(fs, Continue(fs, f, c))
           /\ LeavesNone(fs, Discard(Continue(fs, f, c), {f}))
<1> DEFINE cs == Continue(fs, f, c)
           gone == Discard(cs, {f})
<1>1. /\ cs \in [ForkIds -> Records] /\ cs[f].continued = c /\ cs[f].answer = fs[f].answer
      /\ \A g \in ForkIds \ {f} : cs[g] = fs[g]
  BY DEF Continue, Records, Late
<1>2. fs[f] # NoFork
  BY DEF Late, IsUnsettled, NoFork
<1>3. Late(cs) = {}
  BY <1>1 DEF Late, OneLate, IsUnsettled
<1>4. \A g \in ForkIds : cs[g] # NoFork => fs[g] # NoFork /\ cs[g].answer = fs[g].answer
  BY <1>1, <1>2
<1>5. LeavesNone(fs, cs)
  BY <1>1, <1>3, <1>4 DEF LeavesNone
<1> HIDE DEF cs
<1>6. \A r \in Records : LET d == [r EXCEPT !.discarded = TRUE, !.turn = FALSE] IN
        d \in Records /\ d.answer = r.answer /\ d.continued = r.continued
  BY DEF Records
<1>7. \A g \in ForkIds : gone[g] \in Records /\ gone[g].answer = cs[g].answer
                         /\ gone[g].continued = cs[g].continued
  BY <1>1, <1>6 DEF Discard
<1>8. Late(gone) = {}
  BY <1>3, <1>7 DEF Late, IsUnsettled
<1>9. \A g \in ForkIds \ {f} : gone[g] = cs[g]
  BY DEF Discard
<1>10. gone \in [ForkIds -> Records]
  BY <1>7 DEF Discard
<1>11. LeavesNone(fs, gone)
  BY <1>1, <1>2, <1>4, <1>7, <1>8, <1>9, <1>10 DEF LeavesNone
<1> QED  BY <1>5, <1>11 DEF cs

\* A prompt is held back or sent.
LEMMA HoldOrSendMeets ==
    ASSUME NEW rd, NEW fs \in [ForkIds -> Records], NEW p, NEW m \in Reviewers,
           NEW q \in 0 .. MaxAnswers, NEW a \in 0 .. MaxAttempts,
           OneLate(fs), \A f \in Late(fs) : fs[f].from # f /\ PathsLead(fs, p), Hookless,
           Meets(rd.taken, fs, p, m, move), HoldOrSend(fs, m, p, rd.taken, q, a)
    PROVE  Meets(rd.taken, forks', p, me', move') /\ OutKept(rd, forks', me')
<1> DEFINE waits == [m EXCEPT !.pending = q, !.held = <<q, a>>]
           sends == [m EXCEPT !.pending = q]
           f == Min(Unsettled(fs, m))
<1>1. <<q, a>> \in Pairs
  BY DEF Pairs
<1>2. /\ HandsAs(m, waits) /\ HandsAs(m, sends) /\ waits \in Reviewers /\ sends \in Reviewers
  BY <1>1 DEF Reviewers, HandsAs
<1>3. SameRoles(fs, fs)
  BY DEF SameRoles
<1> HIDE DEF waits, sends
<1>4. ASSUME Moving(m), me' = waits, forks' = fs, move' = move
      PROVE  Meets(rd.taken, forks', p, me', move') /\ OutKept(rd, forks', me')
  <2>1. Moving(waits)
    BY <1>2, <1>4 DEF Moving, HandsAs
  <2>2. Meets(rd.taken, fs, p, waits, move)
    BY <1>2, <1>3, RolesMeet
  <2> QED  BY <1>4, <2>1, <2>2 DEF OutKept
<1>5. ASSUME ~Moving(m), Unsettled(fs, m) # {}
      PROVE  /\ f \in Late(fs) /\ fs[f].from # f /\ PathsLead(fs, p)
             /\ m.switching = NoSwitch /\ m.settling = NoSettling
  <2>1. m.switching = NoSwitch /\ m.settling = NoSettling
    BY <1>5 DEF Moving
  <2>2. Late(fs) # {}
    BY <1>5 DEF Unsettled, Late
  <2>3. f \in Late(fs)
    BY <2>1, <2>2, MinOfLate
  <2> HIDE DEF f
  <2> QED  BY <2>1, <2>3
<1>6. ASSUME ~Moving(m), Unsettled(fs, m) # {}, agent.hooks = "heard",
             me' = Settling(waits, fs, f, p, rd.taken, FALSE), forks' = fs
      PROVE  Meets(rd.taken, forks', p, me', move') /\ OutKept(rd, forks', me')
  <2> HIDE DEF f
  <2>1. /\ me'.switching = NoSwitch /\ me'.settling.fork = f
        /\ me'.settling.to = Target(fs, f, p, rd.taken)
    BY <1>2, <1>5, <1>6 DEF Settling, Reviewers, HandsAs
  <2>2. WorldKept(fs) /\ LateGood(rd.taken, fs, p) /\ CalmKept(rd.taken, fs, m, move)
    BY DEF Meets
  <2>3. f \in Late(fs) /\ fs[f].from # f /\ PathsLead(fs, p)
    BY <1>5, <1>6
  <2>4. Meets(rd.taken, fs, p, me', move') /\ OutKept(rd, fs, me')
    BY <1>6, <2>1, <2>2, <2>3, SettleMeets
  <2> QED  BY <1>6, <2>4
<1>7. ASSUME ~Moving(m), Unsettled(fs, m) # {}, agent.hooks = "none",
             me' = Erasing(sends, {f}), forks' = Restarted(fs, f)
      PROVE  Meets(rd.taken, forks', p, me', move') /\ OutKept(rd, forks', me')
  <2> HIDE DEF f
  <2>1. me'.switching = NoSwitch /\ me'.settling = NoSettling
    BY <1>2, <1>5, <1>7 DEF Erasing, Reviewers, HandsAs
  <2>2. Calm(rd.taken)
    BY <1>7, NewIsCalm DEF Meets
  <2>3. /\ Late(forks') = {}
        /\ \A g \in ForkIds : forks'[g] # NoFork => fs[g] # NoFork /\ forks'[g].answer = fs[g].answer
    <3>1. LeavesNone(fs, Restarted(fs, f))
      BY <1>5, <1>7, NoneLate DEF Restarted
    <3> QED  BY <1>7, <3>1 DEF LeavesNone
  <2> QED  BY <2>1, <2>2, <2>3, LeftMeets DEF Meets
<1>8. ASSUME ~Moving(m), Unsettled(fs, m) # {} => agent.hooks = "unheard",
             me' = sends, forks' = fs, move' = NoMove
      PROVE  Meets(rd.taken, forks', p, me', move') /\ OutKept(rd, forks', me')
  <2>1. Unsettled(fs, m) = {}
    BY <1>8 DEF Meets, WorldKept
  <2>2. Late(fs) = {}
    BY <1>8, <2>1, Bounds DEF Moving, Unsettled, Late, NoSwitch, ForkIds
  <2>3. me'.switching = NoSwitch /\ me'.settling = NoSettling
    BY <1>2, <1>8 DEF HandsAs, Moving
  <2>4. Calm(rd.taken)
    BY <1>8, <2>2 DEF Meets, CalmKept
  <2> QED  BY <1>8, <2>2, <2>3, <2>4, LeftMeets DEF Meets
<1> QED
  BY <1>4, <1>6, <1>7, <1>8 DEF HoldOrSend, waits, sends

\* The agent was moved, and no fork is left that it may resume.
LEMMA AfterMovedMeets ==
    ASSUME NEW rd, NEW fs \in [ForkIds -> Records], NEW p, NEW m \in Reviewers,
           m.switching = NoSwitch, m.settling = NoSettling, Late(fs) = {},
           Hookless, Meets(rd.taken, fs, p, m, move), AfterMoved(fs, m, p, rd.taken)
    PROVE  Meets(rd.taken, forks', p, me', move') /\ OutKept(rd, forks', me')
<1> DEFINE free == [m EXCEPT !.held = NoTurn]
<1>1. NoTurn \in Pairs /\ m.held[1] \in 0 .. MaxAnswers /\ m.held[2] \in 0 .. MaxAttempts
  BY Bounds DEF NoTurn, Pairs, Reviewers
<1>2. /\ free \in Reviewers /\ HandsAs(m, free) /\ free.erasing = m.erasing
      /\ free.switching = NoSwitch /\ free.settling = NoSettling
  BY <1>1 DEF Reviewers, HandsAs
<1>3. Meets(rd.taken, fs, p, free, move)
  BY <1>2, RolesMeet DEF SameRoles
<1>4. \/ HoldOrSend(fs, free, p, rd.taken, m.held[1], m.held[2])
      \/ me' = free /\ forks' = fs
  BY DEF AfterMoved
<1> HIDE DEF free
<1>6. CASE HoldOrSend(fs, free, p, rd.taken, m.held[1], m.held[2])
  BY <1>1, <1>2, <1>3, <1>6, HoldOrSendMeets DEF OneLate
<1>7. CASE me' = free /\ forks' = fs
  <2>1. Calm(rd.taken)
    BY DEF Meets, CalmKept, Moving
  <2> QED  BY <1>2, <1>7, <2>1, LeftMeets DEF Meets
<1> QED  BY <1>4, <1>6, <1>7

\* A switch to the fork f starts: nothing else is in hand, the agent runs the session that
\* the fork was taken of, and the fork's answer has no turn.
LEMMA SwitchBeginsMeets ==
    ASSUME Inv, MeetsInv, NEW f \in ForkIds, NEW m \in Reviewers, m.settling = NoSettling,
           NEW fs, SameRoles(forks, fs), Late(fs) = {}, ~Moving(me), Unchanged(f),
           ~Answered(round.taken, forks[f].answer), forks[f] # NoFork,
           PathsLead(forks, path),
           forks' = Continue(fs, f, "switching"), me'.switching.fork = f,
           me'.settling = NoSettling, me'.step # "committed"
    PROVE  Meets(round.taken, forks', path, me', move') /\ OutKept(round', forks', me')
<1> DEFINE turns == round.taken
           q == forks[f].answer
<1>1. /\ fs \in [ForkIds -> Records] /\ fs[f].answer = q /\ fs[f].from = forks[f].from
  BY DEF SameRoles
<1>2. /\ forks' \in [ForkIds -> Records] /\ forks'[f].answer = q /\ forks'[f].from = forks[f].from
      /\ \A g \in ForkIds \ {f} : forks'[g] = fs[g]
  <2>1. LET r == [fs[f] EXCEPT !.continued = "switching"] IN
        r \in Records /\ r.answer = q /\ r.from = forks[f].from
    BY <1>1 DEF Records
  <2> QED  BY <1>1, <2>1 DEF Continue
<1>3. Late(forks') \subseteq {f}
  BY <1>2 DEF Late
<1>4. Late(forks) = {}
  BY DEF Late, SameRoles, IsUnsettled
<1>5. /\ Calm(turns) /\ agent.session = forks[f].from
      /\ early \/ Good(turns, contents[agent.session])
  BY <1>4, CalmAgent DEF MeetsInv, Meets, CalmKept, Unchanged
<1>6. contents[agent.session] = contents[f] \ {<<q, f>>}
  BY DEF Unchanged
<1>7. f # 0 /\ me'.switching # NoSwitch /\ Moving(me')
  BY Bounds DEF ForkIds, NoSwitch, Moving
<1>8. WorldKept(forks')
  <2>1. \A g \in ForkIds : forks'[g] # NoFork => forks[g] # NoFork /\ forks'[g].answer = forks[g].answer
    BY <1>1, <1>2 DEF SameRoles
  <2> QED  BY <2>1 DEF MeetsInv, Meets, WorldKept
<1>9. CalmKept(turns, forks', me', move')
  BY <1>5, <1>7 DEF MeetsInv, Meets, CalmKept
<1>10. SwitchGood(turns, forks', me')
  <2>1. early \/ \A t \in contents[f] : TurnGood(turns, t) \/ t = <<q, f>>
    BY <1>5, <1>6 DEF Good
  <2>2. early \/ (Kickoff \in contents[f] => turns \subseteq contents[f])
    BY <1>5, <1>6, <1>7 DEF Good, Kickoff
  <2> QED  BY <1>2, <2>1, <2>2 DEF SwitchGood
<1>11. LateGood(turns, forks', path)
  <2>1. Target(forks', f, path, turns) = forks[f].from
    <3>1. Target(forks, f, path, turns) = forks[f].from
      BY TargetUnasked
    <3> QED  BY <1>2, <3>1 DEF Target
  <2>2. early \/ Good(turns, contents[Target(forks', f, path, turns)])
    BY <1>5, <2>1
  <2> QED  BY <1>2, <1>3, <2>2 DEF LateGood
<1> QED  BY <1>7, <1>8, <1>9, <1>10, <1>11 DEF Meets, SettleGood, OutKept

\* What layer by layer the invariant says of the state a step starts from.
LEMMA MeetsFacts ==
    ASSUME Inv
    PROVE  /\ me \in Reviewers /\ round \in Rounds /\ forks \in [ForkIds -> Records]
           /\ path \in [Answers -> 0 .. MaxForks] /\ contents \in [Sessions -> SUBSET Turns]
           /\ OneLate(forks) /\ RecordsKept(forks) /\ PathsLead(forks, path) /\ Hookless
           /\ me.switching # NoSwitch =>
                /\ me.switching.fork \in Late(forks) /\ me.settling = NoSettling
                /\ me.taken = 0 /\ me.finishing = 0
           /\ me.settling # NoSettling => me.settling.fork \in Late(forks)
<1>1. /\ me.switching # NoSwitch => me.switching.fork \in Late(forks)
      /\ me.settling # NoSettling => me.settling.fork \in Late(forks)
  BY MovingFork DEF Inv, RunAheadInv
<1>2. me.switching # NoSwitch => me.taken = 0 /\ me.finishing = 0 /\ me.settling = NoSettling
  BY NothingInHand DEF Moving, Inv, RunAheadInv, SwitchKept
<1>3. PathsLead(forks, path) /\ Hookless
  BY DEF Inv, RunAheadInv, PathsKept, PathsLead, SessionsKept, Hookless
<1> QED  BY <1>1, <1>2, <1>3 DEF Inv, RunAheadInv, Types, WorldTypes

\* Paths that change in a step.
LEMMA PathChanges ==
    ASSUME Inv, MeetsInv, NEW p, PathsLead(forks, p),
           \/ p = path
           \/ /\ me.settling = NoSettling
              /\ \A f \in Late(forks) : ~Answered(round.taken, forks[f].answer)
    PROVE  Meets(round.taken, forks, p, me, move)
<1>1. CASE p = path
  BY <1>1 DEF MeetsInv
<1>2. CASE /\ me.settling = NoSettling
           /\ \A f \in Late(forks) : ~Answered(round.taken, forks[f].answer)
  <2>1. LateGood(round.taken, forks, p)
    BY <1>2, MeetsFacts, PathsMeet DEF MeetsInv, Meets
  <2> QED  BY <1>2, <2>1 DEF MeetsInv, Meets, SettleGood
<1> QED  BY <1>1, <1>2

\* The answer of a switch has no turn before the round takes it.
LEMMA SwitchUnasked ==
    ASSUME Inv, MeetsInv, me.switching # NoSwitch, me.step # "committed"
    PROVE  /\ me.settling = NoSettling
           /\ \A f \in Late(forks) : ~Answered(round.taken, forks[f].answer)
<1>1. \A f \in Late(forks) : f = me.switching.fork
  BY MeetsFacts DEF OneLate
<1> QED  BY <1>1, MeetsFacts DEF MeetsInv, Meets, SwitchGood

\* A fork in hand, or waited for, leaves nothing to resume.
LEMMA InHand ==
    ASSUME Inv, NEW f \in {me.taken, me.finishing}, f # 0
    PROVE  /\ f \in ForkIds /\ forks[f] # NoFork /\ Late(forks) = {} /\ ~Moving(me)
           /\ me.switching = NoSwitch /\ me.settling = NoSettling
           /\ f = me.finishing => forks[f].answer = round.out /\ round.out # 0
           /\ f = me.taken => forks[f].answer = round.made + 1
BY Bounds DEF Inv, RunAheadInv, Types, TakenKept, FinishingKept, Prepared, Reviewers, ForkIds, Moving

\* The answer without a turn has none, nor has the next.
LEMMA NoTurnYet ==
    ASSUME Inv
    PROVE  /\ round.out # 0 => ~Answered(round.taken, round.out)
           /\ ~Answered(round.taken, round.made + 1)
<1>1. round \in Rounds /\ RoundKept(round)
  BY DEF Inv, RunAheadInv, Types
<1>2. round.out # 0 => ~Answered(round.taken, round.out)
  BY <1>1 DEF RoundKept, Given, Answered
<1>3. \A t \in round.taken : t[1] <= round.made
  BY <1>1 DEF RoundKept
<1>4. round.made \in Nat
  BY <1>1, Bounds DEF Rounds
<1> QED  BY <1>2, <1>3, <1>4 DEF Answered

\* An answer is held back or sent: by the reviewer m, with the forks fs.
LEMMA AskMeets ==
    ASSUME Inv, MeetsInv, NEW fs, NEW m \in Reviewers, NEW q \in 0 .. MaxAnswers,
           NEW a \in 0 .. MaxAttempts, SameRoles(forks, fs), HandsAs(me, m),
           PathsLead(forks, path'), path' \in [Answers -> 0 .. MaxForks],
           \/ path' = path
           \/ /\ me.settling = NoSettling
              /\ \A f \in Late(forks) : ~Answered(round.taken, forks[f].answer),
           HoldOrSend(fs, m, path', round.taken, q, a),
           UNCHANGED <<sending, world>>, round'.taken = round.taken
    PROVE  MeetsInv'
<1>1. Meets(round.taken, forks, path', me, move)
  BY PathChanges
<1>2. Meets(round.taken, fs, path', m, move)
  BY <1>1, MeetsFacts, RolesMeet
<1>3. /\ fs \in [ForkIds -> Records] /\ OneLate(fs) /\ RecordsKept(fs)
  <2>1. Late(fs) = Late(forks)
    BY DEF SameRoles, Late, IsUnsettled
  <2>2. RecordsKept(fs)
    BY MeetsFacts DEF RecordsKept, SameRoles, IsAgentSession, Followed
  <2> QED  BY <2>1, <2>2, MeetsFacts DEF OneLate, SameRoles
<1>4. PathsLead(fs, path')
  <2>1. \A x \in Answers : path'[x] # 0 => path'[x] \in ForkIds
    BY Bounds DEF ForkIds
  <2> QED  BY <2>1 DEF PathsLead, SameRoles
<1>5. Hookless /\ \A f \in Late(fs) : fs[f].from # f /\ PathsLead(fs, path')
  <2>1. \A f \in Late(fs) : f \in ForkIds /\ fs[f] # NoFork
    BY DEF Late, IsUnsettled, NoFork
  <2> QED  BY <1>3, <1>4, <2>1, MeetsFacts DEF RecordsKept
<1>6. HoldOrSend(fs, m, path', round'.taken, q, a) /\ Meets(round'.taken, fs, path', m, move)
  BY <1>2
<1>7. Meets(round'.taken, forks', path', me', move') /\ OutKept(round', forks', me')
  BY <1>3, <1>4, <1>5, <1>6, HoldOrSendMeets
<1> QED  BY <1>7, SameMeets DEF world

\* Steps that leave alone what the agent does, and the parts of the forks.
LEMMA QuietMeets ==
    ASSUME Inv, MeetsInv, SameRoles(forks, forks'), HandsAs(me, me'), PathsLead(forks, path'),
           \/ path' = path
           \/ /\ me.settling = NoSettling
              /\ \A f \in Late(forks) : ~Answered(round.taken, forks[f].answer),
           round'.taken = round.taken, round'.out \in {0, round.out} \/ Late(forks) = {},
           UNCHANGED <<move, agent, typed, contents, early>>, sending' \in {sending, NoTurn}
    PROVE  MeetsInv'
<1>1. Meets(round.taken, forks, path', me, move)
  BY PathChanges
<1>2. Meets(round'.taken, forks', path', me', move')
  BY <1>1, MeetsFacts, RolesMeet
<1>3. Late(forks') = Late(forks) /\ Moving(me') = Moving(me)
  BY DEF SameRoles, Late, IsUnsettled, HandsAs, Moving
<1>4. OutKept(round', forks', me')
  BY <1>3 DEF MeetsInv, OutKept
<1> QED  BY <1>2, <1>4, SameMeets

\* A path that leads nowhere any more.
LEMMA PathDropped ==
    ASSUME Inv, NEW q PROVE PathsLead(forks, [path EXCEPT ![q] = 0])
BY MeetsFacts DEF PathsLead

\* The session of the kickoff holds the kickoff.
LEMMA InitMeets == Init => MeetsInv
<1> SUFFICES ASSUME Init PROVE MeetsInv
  OBVIOUS
<1>1. /\ Late(forks) = {} /\ me.switching = NoSwitch /\ me.settling = NoSettling
      /\ sending = NoTurn /\ agent.doing = NoTurn /\ agent.hooks = "heard" /\ typed = <<>>
      /\ agent.session = 0 /\ round.taken = {Kickoff}
  BY DEF Init, Late, NoFork, IsUnsettled, Opened
<1>2. 0 \in Sessions /\ NewSession \in Sessions /\ NewSession # 0
  BY Bounds DEF Sessions, NewSession
<1>3. contents[0] = {Kickoff} /\ contents[NewSession] = {}
  BY <1>2 DEF Init
<1>4. Calm(round.taken)
  <2>1. Range(<<>>) = {}
    BY DEF Range
  <2>2. Runs \subseteq {0}
    BY <1>1, <2>1 DEF Runs, Running
  <2> QED  BY <1>1, <1>3, <2>2 DEF Calm, Good, TurnGood, Kickoff
<1>5. WorldKept(forks)
  BY <1>1, <1>3 DEF WorldKept, Init
<1> QED
  BY <1>1, <1>4, <1>5 DEF MeetsInv, Meets, CalmKept, SwitchGood, LateGood, SettleGood, OutKept

\* The answer is asked once more.
LEMMA RetryMeets == ASSUME Inv, MeetsInv, Retry PROVE MeetsInv'
<1> DEFINE q == round.retry
           a == round.attempt + 1
           m == [me EXCEPT !.access = a]
<1>1. /\ q \in 0 .. MaxAnswers /\ a \in 0 .. MaxAttempts /\ a \in 0 .. MaxAttempts + MaxForks
      /\ UNCHANGED <<path, sending, world>> /\ HoldOrSend(forks, m, path, round.taken, q, a)
      /\ round' = [round EXCEPT !.out = q, !.attempt = a]
  BY MeetsFacts, Bounds DEF Retry, Rounds
<1> HIDE DEF a, q
<1>2. m \in Reviewers /\ HandsAs(me, m)
  BY <1>1, MeetsFacts DEF Reviewers, HandsAs
<1>3. round'.taken = round.taken
  BY <1>1, MeetsFacts DEF Rounds
<1>4. SameRoles(forks, forks)
  BY MeetsFacts DEF SameRoles
<1>5. /\ path' = path /\ path' \in [Answers -> 0 .. MaxForks] /\ PathsLead(forks, path')
      /\ HoldOrSend(forks, m, path', round.taken, q, a)
  BY <1>1, MeetsFacts
<1> HIDE DEF m
<1> QED  BY <1>1, <1>2, <1>3, <1>4, <1>5, AskMeets

\* An answer that waited for its fork loses its path, and has no turn.
LEMMA StopMeets == ASSUME Inv, MeetsInv, Stop PROVE MeetsInv'
<1> DEFINE f == IF me.finishing # 0 THEN me.finishing ELSE me.switching.fork
           g == me.finishing
           q == me.pending
           a == round.attempt + 1
           waited == me.finishing # 0 \/ (me.switching.waited /\ ~me.switching.stopped)
           asked == [me EXCEPT !.finishing = 0, !.access = a]
           without == Erasing(asked, {g} \ {0})
           stopped == [without EXCEPT !.switching.stopped = me.switching.waited]
           fs == Discard(forks, {g})
<1>1. me.step = "idle" /\ UNCHANGED <<sending, world>>
  BY DEF Stop, Idle
<1>2. g # 0 => g \in ForkIds /\ forks[g] # NoFork /\ Late(forks) = {} /\ me.switching = NoSwitch
               /\ me.settling = NoSettling
  BY InHand
<1>3. CASE /\ waited /\ a <= MaxAttempts /\ round' = [round EXCEPT !.attempt = a]
           /\ path' = [path EXCEPT ![forks[f].answer] = 0]
           /\ HoldOrSend(fs, stopped, path', round.taken, q, a)
  <2>1. q \in 0 .. MaxAnswers /\ a \in 0 .. MaxAttempts /\ a \in 0 .. MaxAttempts + MaxForks
    BY <1>3, MeetsFacts, Bounds DEF Reviewers, Rounds
  <2>2. SameRoles(forks, fs)
    <3>1. \A x \in {g} \cap ForkIds : forks[x] # NoFork
      BY <1>2, Bounds DEF ForkIds
    <3> QED  BY <3>1, MeetsFacts, DiscardRoles
  <2>3. round'.taken = round.taken
    BY <1>3, MeetsFacts DEF Rounds
  <2>4. PathsLead(forks, path') /\ path' \in [Answers -> 0 .. MaxForks]
    <3>1. 0 \in 0 .. MaxForks
      BY Bounds
    <3> QED  BY <1>3, <3>1, PathDropped, MeetsFacts
  <2>5. /\ me.settling = NoSettling
        /\ \A x \in Late(forks) : ~Answered(round.taken, forks[x].answer)
    <3>1. CASE g # 0
      BY <1>2, <3>1
    <3>2. CASE g = 0
      <4>1. me.switching.waited
        BY <1>3, <3>2
      <4>2. me.switching # NoSwitch
        BY <4>1 DEF NoSwitch
      <4> QED  BY <1>1, <4>2, SwitchUnasked
    <3> QED  BY <3>1, <3>2
  <2> HIDE DEF a
  <2>6. /\ without \in Reviewers /\ without.switching = me.switching /\ HandsAs(me, without)
    <3>1. {g} \ {0} \subseteq ForkIds /\ 0 \in 0 .. MaxForks
      BY <1>2, Bounds
    <3>2. asked \in Reviewers /\ asked.switching = me.switching /\ HandsAs(me, asked)
      BY <2>1, <3>1, MeetsFacts DEF Reviewers, HandsAs
    <3> HIDE DEF asked, g
    <3> QED  BY <3>1, <3>2 DEF Reviewers, HandsAs, Erasing
  <2> HIDE DEF without, fs, q
  <2>7. stopped \in Reviewers /\ HandsAs(me, stopped)
    <3>1. CASE me.switching \in Switches
      <4> DEFINE y == [me.switching EXCEPT !.stopped = me.switching.waited]
      <4>1. stopped = [without EXCEPT !.switching = y]
        BY <2>6
      <4>2. y \in Switches /\ y.fork = me.switching.fork
        BY <3>1 DEF Switches
      <4>3. y # NoSwitch /\ me.switching # NoSwitch
        BY <3>1, <4>2, Bounds DEF Switches, ForkIds, NoSwitch
      <4> HIDE DEF y
      <4> QED  BY <2>6, <4>1, <4>2, <4>3 DEF Reviewers, HandsAs
    <3>2. CASE me.switching = NoSwitch
      <4>1. [NoSwitch EXCEPT !.stopped = NoSwitch.waited] = NoSwitch
        <5>1. NoSwitch.waited = NoSwitch.stopped
          BY DEF NoSwitch
        <5>2. NoSwitch = [x \in DOMAIN NoSwitch |-> NoSwitch[x]] /\ NoSwitch.stopped = NoSwitch["stopped"]
          BY DEF NoSwitch
        <5> QED  BY <5>1, <5>2
      <4>2. stopped = [without EXCEPT !.switching = NoSwitch]
        BY <2>6, <3>2, <4>1
      <4> QED  BY <2>6, <3>2, <4>2 DEF Reviewers, HandsAs
    <3> QED  BY <3>1, <3>2, MeetsFacts DEF Reviewers
  <2> HIDE DEF stopped
  <2> QED  BY <1>1, <1>3, <2>1, <2>2, <2>3, <2>4, <2>5, <2>7, AskMeets
<1>4. CASE /\ round' = [round EXCEPT !.out = 0]
           /\ me' = [me EXCEPT !.access = 0, !.pending = 0] /\ queue' = NoTurn
           /\ UNCHANGED <<forks, path, move>>
  <2>1. HandsAs(me, me') /\ round'.taken = round.taken /\ round'.out = 0
    BY <1>4, MeetsFacts DEF Reviewers, HandsAs, Rounds
  <2>2. SameRoles(forks, forks') /\ PathsLead(forks, path')
    BY <1>4, MeetsFacts DEF SameRoles
  <2> QED  BY <1>1, <1>4, <2>1, <2>2, QuietMeets DEF world
<1> QED  BY <1>3, <1>4 DEF Stop

\* So does an answer that is cancelled.
LEMMA CancelMeets == ASSUME Inv, MeetsInv, CancelAnswer PROVE MeetsInv'
<1> DEFINE q == round.retry
           f == me.finishing
           m == [me EXCEPT !.access = 0, !.pending = 0, !.finishing = 0]
<1>1. /\ round' = [round EXCEPT !.out = 0, !.retry = 0] /\ UNCHANGED <<sending, move, world>>
  BY DEF CancelAnswer
<1>2. round'.taken = round.taken /\ round'.out = 0
  BY <1>1, MeetsFacts DEF Rounds
<1>3. f # 0 => f \in ForkIds /\ forks[f] # NoFork /\ Late(forks) = {} /\ me.settling = NoSettling
  BY InHand
<1>4. CASE /\ me' = Erasing(m, {f} \ {0})
           /\ forks' = Discard(forks, {f})
           /\ path' = IF f # 0 THEN [path EXCEPT ![q] = 0] ELSE path
  <2>1. HandsAs(me, me')
    <3>1. m \in Reviewers /\ HandsAs(me, m)
      <4>1. 0 \in 0 .. MaxAnswers /\ 0 \in 0 .. MaxAttempts + MaxForks /\ 0 \in 0 .. MaxForks
        BY Bounds
      <4> QED  BY <4>1, MeetsFacts DEF Reviewers, HandsAs
    <3> HIDE DEF m
    <3> QED  BY <1>4, <3>1 DEF Erasing, Reviewers, HandsAs
  <2>2. SameRoles(forks, forks')
    <3>1. \A x \in {f} \cap ForkIds : forks[x] # NoFork
      BY <1>3, Bounds DEF ForkIds
    <3> QED  BY <1>4, <3>1, MeetsFacts, DiscardRoles
  <2>3. PathsLead(forks, path')
    BY <1>4, PathDropped, MeetsFacts
  <2>4. \/ path' = path
        \/ /\ me.settling = NoSettling
           /\ \A x \in Late(forks) : ~Answered(round.taken, forks[x].answer)
    BY <1>3, <1>4
  <2> QED  BY <1>1, <1>2, <2>1, <2>2, <2>3, <2>4, QuietMeets DEF world
<1>5. CASE UNCHANGED <<me, queue, forks, path>>
  <2>1. HandsAs(me, me') /\ SameRoles(forks, forks') /\ PathsLead(forks, path')
    BY <1>5, MeetsFacts DEF HandsAs, SameRoles
  <2> QED  BY <1>1, <1>2, <1>5, <2>1, QuietMeets DEF world
<1> QED  BY <1>4, <1>5 DEF CancelAnswer

\* An answer is switched to, waits for its fork, or is asked of the agent.
LEMMA AnswerMeets == ASSUME Inv, MeetsInv, Answer PROVE MeetsInv'
<1> DEFINE q == round.made + 1
           a == round.attempt + 1
           f == me.taken
           bare == f # 0 /\ agent.hooks = "heard" /\ Unchanged(f)
           asked == [me EXCEPT !.access = a, !.taken = 0]
           fs == Discard(forks, {f})
           m == Erasing(asked, {f} \ {0})
<1>1. /\ me.step = "idle" /\ q \in 0 .. MaxAnswers /\ q \in Answers /\ a \in 0 .. MaxAttempts
      /\ a \in 0 .. MaxAttempts + MaxForks /\ UNCHANGED <<sending, world>>
  BY MeetsFacts, Bounds DEF Answer, Idle, Rounds, Answers
<1>2. round'.taken = round.taken
  BY <1>1, MeetsFacts DEF Answer, Rounds
<1>3. f # 0 => /\ f \in ForkIds /\ forks[f] # NoFork /\ Late(forks) = {} /\ ~Moving(me)
               /\ me.switching = NoSwitch /\ me.settling = NoSettling /\ forks[f].answer = q
  BY InHand
<1>4. ~Answered(round.taken, q)
  BY NoTurnYet
<1>5. /\ asked \in Reviewers /\ HandsAs(me, asked) /\ asked.settling = me.settling
      /\ asked.switching = me.switching /\ asked.step = "idle"
  <2>1. 0 \in 0 .. MaxForks
    BY Bounds
  <2> HIDE DEF a
  <2> QED  BY <1>1, <2>1, MeetsFacts DEF Reviewers, HandsAs
<1> HIDE DEF asked, a, q, f, bare
<1>6. CASE bare /\ SwitchBegins(forks, asked, f, a, FALSE, "recording") /\ UNCHANGED path
  <2>1. f # 0 /\ Unchanged(f)
    BY <1>6 DEF bare
  <2>2. SameRoles(forks, forks) /\ PathsLead(forks, path)
    BY MeetsFacts DEF SameRoles
  <2>3. forks' = Continue(forks, f, "switching")
    BY <1>6 DEF SwitchBegins
  <2>4. /\ me'.switching.fork = f /\ me'.settling = NoSettling /\ me'.step # "committed"
    <3>1. [NoSwitch EXCEPT !.fork = f, !.attempt = a, !.waited = FALSE].fork = f
      BY DEF NoSwitch
    <3> QED  BY <1>3, <1>5, <1>6, <2>1, <3>1 DEF SwitchBegins, Reviewers
  <2>5. Meets(round.taken, forks', path, me', move') /\ OutKept(round', forks', me')
    BY <1>3, <1>4, <1>5, <2>1, <2>2, <2>3, <2>4, SwitchBeginsMeets
  <2> QED  BY <1>1, <1>2, <1>6, <2>5, SameMeets DEF world
<1>7. CASE /\ bare /\ me' = [asked EXCEPT !.finishing = f, !.pending = q]
           /\ path' = [path EXCEPT ![q] = f] /\ UNCHANGED <<forks, move>>
  <2>1. f # 0
    BY <1>7 DEF bare
  <2>2. HandsAs(me, me')
    BY <1>5, <1>7 DEF HandsAs, Reviewers
  <2>3. PathsLead(forks, path')
    BY <1>3, <1>7, <2>1, MeetsFacts DEF PathsLead
  <2>4. SameRoles(forks, forks')
    BY <1>7, MeetsFacts DEF SameRoles
  <2> QED  BY <1>1, <1>2, <1>3, <1>7, <2>1, <2>2, <2>3, <2>4, QuietMeets DEF world
<1>8. CASE HoldOrSend(fs, m, path, round.taken, q, a) /\ UNCHANGED path
  <2>1. SameRoles(forks, fs)
    <3>1. \A x \in {f} \cap ForkIds : forks[x] # NoFork
      BY <1>3, Bounds DEF ForkIds
    <3> QED  BY <3>1, MeetsFacts, DiscardRoles
  <2>2. m \in Reviewers /\ HandsAs(me, m)
    <3>1. {f} \ {0} \subseteq ForkIds
      BY <1>3
    <3> QED  BY <1>5, <3>1 DEF Reviewers, Erasing, HandsAs
  <2> HIDE DEF fs, m
  <2>3. /\ path' = path /\ path' \in [Answers -> 0 .. MaxForks] /\ PathsLead(forks, path')
        /\ HoldOrSend(fs, m, path', round.taken, q, a)
    BY <1>8, MeetsFacts
  <2> QED  BY <1>1, <1>2, <2>1, <2>2, <2>3, AskMeets
<1> QED  BY <1>6, <1>7, <1>8 DEF Answer, q, a, f, bare, asked

\* The path of a switch leads to its fork before the round has the turn.
LEMMA RecordAnswerMeets == ASSUME Inv, MeetsInv, RecordAnswer PROVE MeetsInv'
<1>1. /\ me.step = "recording" /\ path' = [path EXCEPT ![me.pending] = me.switching.fork]
      /\ me' = [me EXCEPT !.step = "idle"]
      /\ UNCHANGED <<round, forks, sending, move, world>>
  BY DEF RecordAnswer
<1>2. /\ me.switching # NoSwitch /\ me.pending = forks[me.switching.fork].answer
  BY <1>1 DEF Inv, RunAheadInv, MoveKept, SwitchKept
<1>3. HandsAs(me, me')
  BY <1>1, MeetsFacts DEF HandsAs, Reviewers
<1>4. PathsLead(forks, path')
  BY <1>1, <1>2, MeetsFacts DEF PathsLead
<1>5. SameRoles(forks, forks')
  BY <1>1, MeetsFacts DEF SameRoles
<1>6. /\ me.settling = NoSettling
      /\ \A f \in Late(forks) : ~Answered(round.taken, forks[f].answer)
  BY <1>1, <1>2, SwitchUnasked
<1> QED  BY <1>1, <1>3, <1>4, <1>5, <1>6, QuietMeets DEF world

\* A fork that is dropped was never the agent's.
LEMMA DropForksMeets == ASSUME Inv, MeetsInv, DropForks PROVE MeetsInv'
<1> DEFINE f == me.taken
           m == [me EXCEPT !.taken = 0]
<1>1. /\ f # 0 /\ forks' = Discard(forks, {f}) /\ me' = Erasing(m, {f})
      /\ UNCHANGED <<round, path, sending, move, world>>
  BY DEF DropForks
<1>2. forks[f] # NoFork
  BY <1>1, InHand
<1>3. SameRoles(forks, forks')
  BY <1>1, <1>2, MeetsFacts, DiscardRoles
<1>4. HandsAs(me, me')
  <2>1. 0 \in 0 .. MaxForks
    BY Bounds
  <2>2. m \in Reviewers /\ HandsAs(me, m)
    BY <2>1, MeetsFacts DEF Reviewers, HandsAs
  <2> HIDE DEF m, f
  <2> QED  BY <1>1, <2>2 DEF Erasing, Reviewers, HandsAs
<1> QED  BY <1>1, <1>3, <1>4, MeetsFacts, QuietMeets DEF world

\* Nor one that is deleted.
LEMMA CleanMeets == ASSUME Inv, MeetsInv, NEW f \in ForkIds, Clean(f) PROVE MeetsInv'
<1>1. /\ f \in me.erasing /\ forks' = [forks EXCEPT ![f].cleaned = TRUE]
      /\ me' = [me EXCEPT !.erasing = @ \ {f}]
      /\ UNCHANGED <<round, path, sending, move, agent, typed, contents, early>>
  BY DEF Clean
<1>2. forks[f].discarded
  BY <1>1 DEF Inv, RunAheadInv, SessionsKept
<1>3. SameRoles(forks, forks')
  <2>1. forks[f] # NoFork
    BY <1>2 DEF NoFork
  <2>2. LET r == [forks[f] EXCEPT !.cleaned = TRUE] IN
        /\ r \in Records /\ r.answer = forks[f].answer /\ r.from = forks[f].from
        /\ r.continued = forks[f].continued /\ r.discarded /\ r # NoFork
    BY <1>2, MeetsFacts DEF Records, NoFork
  <2> QED  BY <1>1, <1>2, <2>1, <2>2, MeetsFacts DEF SameRoles
<1>4. HandsAs(me, me')
  BY <1>1, MeetsFacts DEF Reviewers, HandsAs
<1> QED  BY <1>1, <1>3, <1>4, MeetsFacts, QuietMeets

\* The answer goes to the agent, which no longer waits for the fork.
LEMMA AnswerToAgentMeets ==
    ASSUME Inv, MeetsInv, me.finishing # 0, NEW fs, SameRoles(forks, fs),
           AnswerToAgent(fs, forks[me.finishing].answer), UNCHANGED <<round, sending, world>>
    PROVE  MeetsInv'
<1> DEFINE f == me.finishing
           q == forks[f].answer
           n == [me EXCEPT !.finishing = 0]
           m == Erasing(n, {f})
           gone == Discard(fs, {f})
<1>1. /\ f \in ForkIds /\ forks[f] # NoFork /\ Late(forks) = {} /\ me.settling = NoSettling
  BY InHand
<1>2. /\ q \in 0 .. MaxAnswers /\ round.attempt \in 0 .. MaxAttempts /\ 0 \in 0 .. MaxForks
  BY <1>1, MeetsFacts, Bounds DEF Records, Rounds
<1>3. path' = [path EXCEPT ![q] = 0] /\ HoldOrSend(gone, m, path', round.taken, q, round.attempt)
  BY DEF AnswerToAgent
<1>4. PathsLead(forks, path') /\ path' \in [Answers -> 0 .. MaxForks]
  BY <1>2, <1>3, PathDropped, MeetsFacts
<1>5. SameRoles(forks, gone)
  <2>1. fs \in [ForkIds -> Records] /\ fs[f] # NoFork
    BY <1>1 DEF SameRoles
  <2>2. SameRoles(fs, gone)
    BY <2>1, DiscardRoles
  <2>3. \A g \in ForkIds : IsAgentSession(fs[g]) <=> IsAgentSession(forks[g])
    BY DEF SameRoles, IsAgentSession
  <2> QED  BY <2>2, <2>3 DEF SameRoles
<1>6. m \in Reviewers /\ HandsAs(me, m)
  <2>1. n \in Reviewers /\ HandsAs(me, n)
    BY <1>2, MeetsFacts DEF Reviewers, HandsAs
  <2> HIDE DEF n, f
  <2> QED  BY <1>1, <2>1 DEF Erasing, Reviewers, HandsAs
<1> HIDE DEF m, gone, q, f
<1> QED  BY <1>1, <1>2, <1>3, <1>4, <1>5, <1>6, AskMeets

\* A fork submits its turn, or ends.
LEMMA ForksMeet ==
    ASSUME Inv, MeetsInv, NEW f \in ForkIds, ForkSubmits(f) \/ ForkEnds(f) PROVE MeetsInv'
<1>1. f \in {me.taken, me.finishing} /\ f # 0 /\ me.step = "idle"
  <2>1. f # 0
    BY Bounds DEF ForkIds
  <2> QED  BY <2>1 DEF ForkSubmits, ForkEnds, Idle
<1>2. UNCHANGED <<round, sending, world>>
  BY DEF ForkSubmits, ForkEnds
<1>3. /\ forks[f] # NoFork /\ Late(forks) = {} /\ ~Moving(me) /\ me.settling = NoSettling
  BY <1>1, InHand
<1>4. SameRoles(forks, [forks EXCEPT ![f].turn = TRUE])
      /\ SameRoles(forks, [forks EXCEPT ![f].ended = TRUE])
  BY <1>3, MeetsFacts, ForkMarked
<1>5. ASSUME NEW fs, SameRoles(forks, fs), forks' = fs, UNCHANGED <<path, me, move>> PROVE MeetsInv'
  <2>1. HandsAs(me, me')
    BY <1>5 DEF HandsAs
  <2> QED  BY <1>2, <1>5, <2>1, MeetsFacts, QuietMeets DEF world
<1>6. ASSUME NEW fs, SameRoles(forks, fs), f = me.finishing, AnswerToAgent(fs, forks[f].answer)
      PROVE  MeetsInv'
  BY <1>1, <1>2, <1>6, AnswerToAgentMeets
<1>7. ASSUME f = me.finishing, Unchanged(f), UNCHANGED path,
             SwitchBegins([forks EXCEPT ![f].turn = TRUE], [me EXCEPT !.finishing = 0],
                          f, round.attempt, TRUE, "idle")
      PROVE  MeetsInv'
  <2> DEFINE fs == [forks EXCEPT ![f].turn = TRUE]
             m == [me EXCEPT !.finishing = 0]
  <2>1. SameRoles(forks, fs) /\ Late(fs) = {}
    BY <1>3, <1>4 DEF SameRoles, Late, IsUnsettled
  <2>2. m \in Reviewers /\ m.settling = NoSettling
    <3>1. 0 \in 0 .. MaxForks
      BY Bounds
    <3> QED  BY <1>3, <3>1, MeetsFacts DEF Reviewers
  <2>3. SwitchBegins(fs, m, f, round.attempt, TRUE, "idle")
    BY <1>7
  <2> HIDE DEF fs, m
  <2>4. forks' = Continue(fs, f, "switching")
    BY <2>3 DEF SwitchBegins
  <2>5. /\ me'.switching.fork = f /\ me'.settling = NoSettling /\ me'.step # "committed"
    <3>1. [NoSwitch EXCEPT !.fork = f, !.attempt = round.attempt, !.waited = TRUE].fork = f
      BY DEF NoSwitch
    <3> QED  BY <2>2, <2>3, <3>1 DEF SwitchBegins, Reviewers
  <2>6. ~Answered(round.taken, forks[f].answer)
    BY <1>1, <1>7, InHand, NoTurnYet
  <2>7. Meets(round.taken, forks', path, me', move') /\ OutKept(round', forks', me')
    BY <1>3, <1>7, <2>1, <2>2, <2>4, <2>5, <2>6, MeetsFacts, SwitchBeginsMeets
  <2> QED  BY <1>2, <1>7, <2>7, SameMeets DEF world
<1> QED
  BY <1>4, <1>5, <1>6, <1>7 DEF ForkSubmits, ForkEnds

\* A fork starts as a copy of what the calm agent holds, and the turn it prepares.
LEMMA TakeForksMeets == ASSUME Inv, MeetsInv, TakeForks PROVE MeetsInv'
<1>1. /\ me.taken = 0 /\ ~Moving(me) /\ AgentIdle /\ Unsettled(forks, me) = {}
      /\ UNCHANGED <<round, path, sending, move, agent, typed, early>>
  BY DEF TakeForks
<1>2. PICK f \in ForkIds :
        /\ \A g \in ForkIds : (forks[g] = NoFork) <=> (g >= f)
        /\ forks' = [forks EXCEPT ![f] = [NoFork EXCEPT !.answer = round.made + 1,
                                                        !.from = agent.session]]
        /\ contents' = [contents EXCEPT ![f] = contents[agent.session] \cup {<<round.made + 1, f>>}]
        /\ me' = [me EXCEPT !.taken = f]
  BY DEF TakeForks
<1> forks[f] = NoFork
  BY <1>2, Bounds DEF ForkIds
<1>3. me.switching = NoSwitch /\ me.settling = NoSettling
  BY <1>1 DEF Moving
<1>4. Late(forks) = {}
  BY <1>1, <1>3, Bounds DEF Unsettled, Late, NoSwitch, ForkIds
<1>5. /\ forks'[f].answer = round.made + 1 /\ forks'[f].continued = "none"
      /\ \A g \in ForkIds \ {f} : forks'[g] = forks[g]
  <2>1. LET r == [NoFork EXCEPT !.answer = round.made + 1, !.from = agent.session] IN
        r.answer = round.made + 1 /\ r.continued = "none"
    BY DEF NoFork
  <2> QED  BY <1>2, <2>1, MeetsFacts
<1>6. Late(forks') = {}
  BY <1>4, <1>5 DEF Late, IsUnsettled
<1>7. /\ agent.session \in Sessions /\ agent.session # f /\ NewSession # f /\ NewSession \in Sessions
      /\ ForkIds \subseteq Sessions
  <2>1. agent.session \in Sessions /\ NewSession \notin ForkIds /\ NewSession \in Sessions
        /\ ForkIds \subseteq Sessions
    BY Bounds DEF Inv, WorldTypes, NewSession, ForkIds, Sessions
  <2>2. \A s \in Running \cap ForkIds : forks[s] # NoFork
    BY DEF Inv, RunAheadInv, SessionsKept, Resumable
  <2>3. agent.session \in Running
    BY DEF Running
  <2> QED  BY <1>2, <2>1, <2>2, <2>3
<1>14. Runs \subseteq Sessions \ {f} /\ Runs' = Runs
  <2>1. Running \subseteq Sessions /\ f \notin Running
    BY RunningTyped DEF Inv, RunAheadInv, SessionsKept, Resumable
  <2> QED  BY <1>1, <2>1 DEF Runs, Running
<1>8. /\ contents'[agent.session] = contents[agent.session]
      /\ \A s \in Sessions \ {f} : contents'[s] = contents[s]
      /\ contents'[NewSession] = contents[NewSession]
      /\ contents'[f] = contents[agent.session] \cup {<<round.made + 1, f>>}
      /\ \A g \in ForkIds \ {f} : contents'[g] = contents[g]
  BY <1>2, <1>7, MeetsFacts
<1>9. me'.switching = NoSwitch /\ me'.settling = NoSettling
  BY <1>2, <1>3, MeetsFacts DEF Reviewers
<1>10. Calm(round.taken)
  BY <1>1, <1>4 DEF MeetsInv, Meets, CalmKept
<1>11. Calm(round.taken)'
  BY <1>1, <1>8, <1>10, <1>14 DEF Calm
<1>12. WorldKept(forks)'
  <2>1. \A g \in ForkIds : forks'[g] # NoFork => <<forks'[g].answer, g>> \in contents'[g]
    BY <1>5, <1>8 DEF MeetsInv, Meets, WorldKept
  <2> QED  BY <1>1, <1>8, <2>1 DEF MeetsInv, Meets, WorldKept, AgentIdle
<1>13. CalmKept(round.taken, forks, me, move)'
  <2>1. sending' # NoTurn => ~Answered(round'.taken, sending'[1])
    BY <1>1 DEF MeetsInv, Meets, CalmKept
  <2> QED  BY <1>11, <2>1 DEF CalmKept
<1> QED
  BY <1>6, <1>9, <1>12, <1>13 DEF MeetsInv, Meets, SwitchGood, LateGood, SettleGood, OutKept

\* The agent settles while nobody waits for it.
LEMMA SettleFirstMeets == ASSUME Inv, MeetsInv, SettleFirst PROVE MeetsInv'
<1> DEFINE f == Min(Unsettled(forks, me))
<1>1. /\ ~Moving(me) /\ Unsettled(forks, me) # {} /\ UNCHANGED <<round, path, sending, world>>
      /\ \/ /\ agent.hooks = "heard" /\ me' = Settling(me, forks, f, path, round.taken, TRUE)
            /\ UNCHANGED forks
         \/ /\ agent.hooks = "none" /\ me' = Erasing(me, {f}) /\ forks' = Restarted(forks, f)
  BY DEF SettleFirst
<1>2. me.switching = NoSwitch /\ me.settling = NoSettling
  BY <1>1 DEF Moving
<1>3. f \in Late(forks)
  <2>1. Late(forks) # {}
    BY <1>1 DEF Unsettled, Late
  <2> QED  BY <1>2, <2>1, MeetsFacts, MinOfLate
<1> HIDE DEF f
<1>4. forks[f].from # f
  <2>1. forks[f] # NoFork /\ f \in ForkIds
    BY <1>3 DEF Late, IsUnsettled, NoFork
  <2> QED  BY <2>1, MeetsFacts DEF RecordsKept
<1>5. Meets(round.taken, forks', path, me', move') /\ OutKept(round, forks', me')
  <2>1. CASE agent.hooks = "heard" /\ me' = Settling(me, forks, f, path, round.taken, TRUE)
             /\ UNCHANGED forks
    <3>1. /\ me'.switching = NoSwitch /\ me'.settling.fork = f
          /\ me'.settling.to = Target(forks, f, path, round.taken)
      BY <1>2, <2>1, MeetsFacts DEF Settling, Reviewers
    <3>2. /\ WorldKept(forks) /\ LateGood(round.taken, forks, path)
          /\ CalmKept(round.taken, forks, me, move) /\ PathsLead(forks, path)
      BY MeetsFacts DEF MeetsInv, Meets
    <3>3. Meets(round.taken, forks, path, me', move') /\ OutKept(round, forks, me')
      BY <1>3, <1>4, <2>1, <3>1, <3>2, SettleMeets
    <3> QED  BY <2>1, <3>3
  <2>2. CASE agent.hooks = "none" /\ me' = Erasing(me, {f}) /\ forks' = Restarted(forks, f)
    <3>1. me'.switching = NoSwitch /\ me'.settling = NoSettling
      BY <1>2, <2>2, MeetsFacts DEF Erasing, Reviewers
    <3>2. Calm(round.taken)
      BY <2>2, NewIsCalm, MeetsFacts DEF MeetsInv, Meets
    <3>3. /\ Late(forks') = {}
          /\ \A g \in ForkIds : forks'[g] # NoFork
                => forks[g] # NoFork /\ forks'[g].answer = forks[g].answer
      <4>1. LeavesNone(forks, Restarted(forks, f))
        BY <1>3, MeetsFacts, NoneLate DEF Restarted
      <4> QED  BY <2>2, <4>1 DEF LeavesNone
    <3> QED  BY <3>1, <3>2, <3>3, LeftMeets DEF MeetsInv, Meets
  <2> QED  BY <1>1, <2>1, <2>2
<1> QED  BY <1>1, <1>5, SameMeets DEF world

\* The process ends, and the next knows the agent again.
LEMMA ReopenMeets == ASSUME KnownAgain, Inv, MeetsInv, Reopen PROVE MeetsInv'
<1> DEFINE left == LeftForks(forks)
           f == me.finishing
<1>1. /\ round' = [round EXCEPT !.out = 0] /\ forks' = Discard(forks, left)
      /\ me' = Erasing(Opened, left) /\ sending' = NoTurn /\ UNCHANGED <<typed, contents, early>>
      /\ agent' = [agent EXCEPT !.hooks = IF @ = "heard" /\ ~KnownAgain THEN "unheard" ELSE @]
      /\ path' = path \/ (f # 0 /\ path' = [path EXCEPT ![forks[f].answer] = 0])
  BY DEF Reopen
<1>2. agent' = agent
  <2>1. agent.hooks \in {"heard", "unheard", "none"} /\ agent = [agent EXCEPT !.hooks = agent.hooks]
    BY DEF Inv, WorldTypes
  <2> QED  BY <1>1, <2>1
<1>3. me'.switching = NoSwitch /\ me'.settling = NoSettling
  BY <1>1 DEF Erasing, Opened
<1>4. round'.taken = round.taken /\ round'.out = 0
  BY <1>1, MeetsFacts DEF Rounds
<1>5. SameRoles(forks, forks')
  <2>1. \A x \in left \cap ForkIds : forks[x] # NoFork
    BY DEF LeftForks
  <2> HIDE DEF left
  <2> QED  BY <1>1, <2>1, MeetsFacts, DiscardRoles
<1>6. Late(forks') = Late(forks)
  BY <1>5 DEF SameRoles, Late, IsUnsettled
<1>7. Late(forks) = {} => Calm(round.taken)
  BY MeetsFacts DEF MeetsInv, Meets, CalmKept, Moving
<1>8. LateGood(round.taken, forks', path')
  <2>1. CASE Late(forks) = {}
    BY <1>6, <2>1 DEF LateGood
  <2>2. CASE path' = path
    <3>1. \A g \in ForkIds : Target(forks', g, path, round.taken) = Target(forks, g, path, round.taken)
      BY <1>5 DEF SameRoles, Target
    <3>2. \A g \in Late(forks) : g \in ForkIds /\ forks'[g].answer = forks[g].answer
      BY <1>5 DEF SameRoles, Late
    <3>3. LateGood(round.taken, forks, path)
      BY DEF MeetsInv, Meets
    <3> QED  BY <1>6, <2>2, <3>1, <3>2, <3>3 DEF LateGood
  <2> QED  BY <1>1, <2>1, <2>2, InHand
<1>9. WorldKept(forks')
  BY <1>5 DEF SameRoles, MeetsInv, Meets, WorldKept
<1>10. CalmKept(round.taken, forks', me', move')
       <=> /\ ~Moving(me') /\ Late(forks') = {} => Calm(round.taken)
           /\ sending # NoTurn => Calm(round.taken) /\ ~Answered(round.taken, sending[1])
  BY <1>3 DEF CalmKept
<1>11. CalmKept(round.taken, forks', me', move')
  BY <1>6, <1>7, <1>10 DEF MeetsInv, Meets, CalmKept
<1>12. Meets(round.taken, forks', path', me', move')
  BY <1>3, <1>8, <1>9, <1>11 DEF Meets, SwitchGood, SettleGood
<1> QED  BY <1>1, <1>2, <1>4, <1>12, SameMeets DEF OutKept

\* The facts of the thread and of the agent that the steps of both need.
LEMMA AgentFacts ==
    ASSUME Inv
    PROVE  /\ move \in MoveSteps
           /\ agent \in [session : Sessions, hooks : {"heard", "unheard", "none"}, doing : Pairs]
           /\ ~Moving(me) => move.at = "none"
           /\ me.switching # NoSwitch /\ me.step = "committed" => move.at = "none"
           /\ move.at = "moved" => Runs \subseteq {move.to, NewSession}
           /\ move.at \notin {"none", "draining"} => sending = NoTurn
           /\ NewSession \in Sessions /\ NewSession \notin ForkIds /\ ForkIds \subseteq Sessions
<1>1. NoMove.at = "none"
  BY DEF NoMove
<1>2. NewSession \in Sessions /\ NewSession \notin ForkIds /\ ForkIds \subseteq Sessions
  BY Bounds DEF NewSession, Sessions, ForkIds
<1> QED  BY <1>1, <1>2 DEF Inv, RunAheadInv, Types, WorldTypes, MoveKept, SwitchKept

\* The moving thread goes on, or the agent with what it was told to resume: the agent is told to
\* resume another session only while nobody types a prompt.
LEMMA MovesMeet ==
    ASSUME Inv, MeetsInv, UNCHANGED <<round, forks, path, me, sending, contents>>,
           agent'.hooks = agent.hooks, early => early',
           agent'.doing # NoTurn => agent' = agent /\ typed' = typed,
           \/ Runs' \subseteq Runs
           \/ /\ sending = NoTurn /\ Moving(me)
              /\ me.switching # NoSwitch
                    => me.step # "committed" /\ move'.at \notin {"draining", "failed"},
           move'.at \in {"draining", "failed"} => move.at \in {"draining", "failed"}
    PROVE  MeetsInv'
<1>1. WorldKept(forks)'
  <2>1. agent'.doing # NoTurn => /\ typed' = <<>>
                                 /\ <<agent'.doing[1], 0>> \in contents'[agent'.session]
    BY DEF MeetsInv, Meets, WorldKept
  <2> QED  BY <2>1 DEF MeetsInv, Meets, WorldKept
<1>2. CalmKept(round.taken, forks, me, move)'
  <2>1. CASE Runs' \subseteq Runs
    <3>1. Calm(round.taken) => Calm(round.taken)'
      BY <2>1 DEF Calm
    <3> QED  BY <3>1 DEF MeetsInv, Meets, CalmKept
  <2>2. CASE /\ sending = NoTurn /\ Moving(me)
             /\ me.switching # NoSwitch
                   => me.step # "committed" /\ move'.at \notin {"draining", "failed"}
    BY <2>2 DEF CalmKept, Moving
  <2> QED  BY <2>1, <2>2
<1>3. SwitchGood(round.taken, forks, me)' /\ LateGood(round.taken, forks, path)'
  BY DEF MeetsInv, Meets, SwitchGood, LateGood
<1>4. SettleGood(round.taken, forks, path, me)' /\ OutKept(round, forks, me)'
  BY DEF MeetsInv, Meets, SettleGood, OutKept
<1> QED  BY <1>1, <1>2, <1>3, <1>4 DEF MeetsInv, Meets

\* What the agent was told to resume and did not yet says that it does nothing else.
LEMMA Told ==
    ASSUME Inv, MeetsInv, typed # <<>>
    PROVE  /\ agent.doing = NoTurn
           /\ Tail(typed) \in Seq(Sessions) /\ Range(Tail(typed)) \subseteq Range(typed)
           /\ Head(typed) \in Range(typed)
<1>1. typed \in Seq(Sessions)
  BY DEF Inv, WorldTypes
<1> QED  BY <1>1, RangeOfTail DEF MeetsInv, Meets, WorldKept

\* A session is typed to an agent that is being moved.
LEMMA MoveBeginsMeets == ASSUME Inv, MeetsInv, MoveBegins PROVE MeetsInv'
<1>1. /\ move.at = "draining" /\ sending = NoTurn
      /\ UNCHANGED <<round, forks, path, me, sending, agent, contents, early>>
      /\ \/ move' = [move EXCEPT !.at = "typed"] /\ agent.doing = NoTurn
         \/ move' = [move EXCEPT !.at = "failed"] /\ UNCHANGED typed
  BY DEF MoveBegins, disk, AgentIdle
<1>2. Moving(me) /\ (me.switching # NoSwitch => me.step # "committed")
  BY <1>1, AgentFacts
<1>3. \/ move'.at = "typed" /\ agent.doing = NoTurn
      \/ move'.at = "failed" /\ typed' = typed /\ Runs' = Runs
  BY <1>1, AgentFacts DEF MoveSteps, Runs, Running
<1> QED  BY <1>1, <1>2, <1>3, MovesMeet

\* The thread no longer waits for it.
LEMMA MoveTimesOutMeets == ASSUME Inv, MeetsInv, MoveTimesOut PROVE MeetsInv'
<1>1. move' = [move EXCEPT !.at = "typed in vain"]
      /\ UNCHANGED <<round, forks, path, me, sending, agent, typed, contents, early>>
  BY DEF MoveTimesOut, disk, world
<1>2. move'.at = "typed in vain" /\ Runs' = Runs
  BY <1>1, AgentFacts DEF MoveSteps, Runs, Running
<1> QED  BY <1>1, <1>2, MovesMeet

\* The agent runs one of the sessions it was told to resume.
LEMMA AgentResumesMeets == ASSUME Inv, MeetsInv, AgentResumes PROVE MeetsInv'
<1>1. /\ typed # <<>> /\ agent.doing = NoTurn /\ typed' = Tail(typed)
      /\ agent' = [agent EXCEPT !.session = Head(typed)]
      /\ UNCHANGED <<round, forks, path, me, sending, contents>>
  BY DEF AgentResumes, AgentIdle, disk
<1>0. (move' = [move EXCEPT !.at = "moved"] \/ move' = move) /\ (early => early')
  <2>1. CASE UNCHANGED <<move, early>>
    BY <2>1
  <2>2. CASE /\ move' = [move EXCEPT !.at = "moved"]
             /\ early' = (early \/ ~(Range(typed') \subseteq {move.to}))
    BY <2>2
  <2> QED  BY <2>1, <2>2 DEF AgentResumes
<1>2. agent'.hooks = agent.hooks /\ agent'.doing = NoTurn /\ agent'.session = Head(typed)
  BY <1>1, AgentFacts
<1>3. move'.at = "moved" \/ move'.at = move.at
  BY <1>0, AgentFacts DEF MoveSteps
<1>4. Running' \subseteq Running
  BY <1>1, <1>2, Told DEF Running
<1>5. Runs' \subseteq Runs
  BY <1>0, <1>4 DEF Runs
<1> QED  BY <1>0, <1>1, <1>2, <1>3, <1>5, MovesMeet

\* It never does.
LEMMA AgentIgnoresMeets == ASSUME Inv, MeetsInv, AgentIgnores PROVE MeetsInv'
<1>1. /\ typed # <<>> /\ typed' = Tail(typed)
      /\ UNCHANGED <<round, forks, path, me, sending, move, agent, contents, early>>
  BY DEF AgentIgnores, disk
<1>2. Runs' \subseteq Runs
  BY <1>1, Told DEF Runs, Running
<1> QED  BY <1>1, <1>2, Told, MovesMeet

\* What the agent does ends, while it stays in its session.
LEMMA AgentIdlesMeets == ASSUME Inv, MeetsInv, AgentIdles PROVE MeetsInv'
<1>1. /\ agent' = [agent EXCEPT !.doing = NoTurn]
      /\ UNCHANGED <<round, forks, path, me, sending, move, typed, contents, early>>
  BY DEF AgentIdles, disk
<1>2. agent'.hooks = agent.hooks /\ agent'.session = agent.session /\ agent'.doing = NoTurn
  BY <1>1, AgentFacts
<1>3. Calm(round.taken)' <=> Calm(round.taken)
  BY <1>1, <1>2 DEF Calm, Runs, Running
<1> QED
  BY <1>1, <1>2, <1>3 DEF MeetsInv, Meets, WorldKept, CalmKept, SwitchGood, LateGood, SettleGood, OutKept

\* A new agent's session holds nothing of the round.
LEMMA AgentRestartsMeets == ASSUME Inv, MeetsInv, AgentRestarts PROVE MeetsInv'
<1>1. /\ agent.session # NewSession /\ contents[NewSession] = {} /\ typed' = <<>>
      /\ contents' = [contents EXCEPT ![NewSession] = {<<0, 1>>}]
      /\ UNCHANGED <<round, forks, path, me, sending, move, early>>
  BY DEF AgentRestarts, disk
<1>2. PICK hooks \in {"heard", "none"} :
        agent' = [session |-> NewSession, hooks |-> hooks, doing |-> NoTurn]
  BY DEF AgentRestarts
<1>3. agent'.session = NewSession /\ agent'.hooks # "unheard" /\ agent'.doing = NoTurn
  BY <1>2
<1>4. agent.hooks = "heard"
  <2>1. agent.hooks # "none"
    BY <1>1, MeetsFacts DEF Hookless
  <2> QED  BY <2>1, AgentFacts DEF MeetsInv, Meets, WorldKept
<1>5. /\ contents'[NewSession] = {<<0, 1>>}
      /\ \A s \in Sessions \ {NewSession} : contents'[s] = contents[s]
  BY <1>1, AgentFacts, MeetsFacts
<1>6. \A turns : Good(turns, {<<0, 1>>}) /\ Good(turns, {}) 
  BY DEF Good, TurnGood, Kickoff
<1>7. Calm(round.taken)'
  <2>1. Range(<<>>) = {}
    BY DEF Range
  <2>2. Runs' \subseteq {NewSession}
    BY <1>1, <1>3, <2>1 DEF Runs, Running
  <2> QED  BY <1>5, <1>6, <2>2 DEF Calm
<1>8. WorldKept(forks)'
  <2>1. \A f \in ForkIds : contents'[f] = contents[f]
    BY <1>5, AgentFacts
  <2> QED  BY <1>1, <1>3, <1>5, <2>1 DEF MeetsInv, Meets, WorldKept
<1>9. CalmKept(round.taken, forks, me, move)'
  BY <1>1, <1>7 DEF MeetsInv, Meets, CalmKept
<1>10. SwitchGood(round.taken, forks, me)'
  <2>1. me.switching # NoSwitch => contents'[me.switching.fork] = contents[me.switching.fork]
    BY <1>5, MeetsFacts, AgentFacts DEF Late
  <2> QED  BY <1>1, <2>1 DEF MeetsInv, Meets, SwitchGood
<1>11. LateGood(round.taken, forks, path)'
  <2> SUFFICES ASSUME NEW f \in Late(forks) PROVE
        /\ early \/ Good(round.taken, contents'[Target(forks, f, path, round.taken)])
        /\ path[forks[f].answer] = f /\ Answered(round.taken, forks[f].answer)
              => <<forks[f].answer, f>> \in round.taken
    BY <1>1 DEF LateGood
  <2>1. Target(forks, f, path, round.taken) \in Sessions
    BY MeetsFacts, AgentFacts DEF Target, Late, Records
  <2>2. early \/ Good(round.taken, contents[Target(forks, f, path, round.taken)])
    BY <1>4 DEF MeetsInv, Meets, LateGood
  <2>3. early \/ Good(round.taken, contents'[Target(forks, f, path, round.taken)])
    BY <1>5, <1>6, <2>1, <2>2
  <2> QED  BY <1>4, <2>3 DEF MeetsInv, Meets, LateGood
<1>12. SettleGood(round.taken, forks, path, me)' /\ OutKept(round, forks, me)'
  BY <1>1, <1>4 DEF MeetsInv, Meets, SettleGood, OutKept
<1> QED  BY <1>8, <1>9, <1>10, <1>11, <1>12 DEF MeetsInv, Meets

\* The prompt that starts is the round's last attempt: the agent is calm, since it was moved, or
\* a fork that it may resume would have kept the answer back.
LEMMA PromptStartsMeets == ASSUME Inv, MeetsInv, PromptStarts PROVE MeetsInv'
<1>1. /\ queue # NoTurn /\ ~Moving(me) /\ sending' = AwaitedTurn
      /\ UNCHANGED <<round, forks, path, me, move, agent, typed, contents, early>>
  BY DEF PromptStarts, disk, world
<1>2. CASE sending' = NoTurn
  BY <1>1, <1>2, SameMeets DEF MeetsInv
<1>3. CASE sending' = queue /\ queue = <<round.out, round.attempt>>
  <2>1. queue[1] # 0
    BY <1>1 DEF Inv, RunAheadInv, AttemptsKept, Asked
  <2>2. round.out # 0 /\ sending'[1] = round.out
    BY <1>3, <2>1
  <2>3. ~Answered(round.taken, sending'[1])
    BY <2>2, NoTurnYet
  <2>4. Calm(round.taken)
    <3>1. CASE agent.hooks = "none"
      BY <3>1, MeetsFacts, NewIsCalm DEF MeetsInv, Meets
    <3>2. CASE agent.hooks = "heard"
      BY <1>1, <2>2, <3>2 DEF MeetsInv, Meets, OutKept, CalmKept
    <3> QED  BY <3>1, <3>2, AgentFacts DEF MeetsInv, Meets, WorldKept
  <2>5. Calm(round.taken)'
    BY <1>1, <2>4 DEF Calm, Runs, Running
  <2>6. CalmKept(round.taken, forks, me, move)'
    BY <1>1, <2>3, <2>5 DEF CalmKept
  <2> QED
    BY <1>1, <2>6 DEF MeetsInv, Meets, WorldKept, SwitchGood, LateGood, SettleGood, OutKept
<1> QED  BY <1>1, <1>2, <1>3 DEF AwaitedTurn

\* The agent takes it, and its session holds a turn of its own.
LEMMA PromptArrivesMeets == ASSUME Inv, MeetsInv, PromptArrives PROVE MeetsInv'
<1> DEFINE q == sending[1]
           s == agent.session
<1>1. /\ sending # NoTurn /\ agent' = [agent EXCEPT !.doing = sending] /\ sending' = NoTurn
      /\ contents' = [contents EXCEPT ![s] = @ \cup {<<q, 0>>}]
      /\ UNCHANGED <<round, forks, path, me, move, typed, early>> /\ typed = <<>>
  BY DEF PromptArrives, disk
<1>2. q # 0
  BY <1>1 DEF Inv, RunAheadInv, AttemptsKept, Asked
<1>3. /\ agent'.session = s /\ agent'.hooks = agent.hooks /\ agent'.doing = sending /\ s \in Sessions
  BY <1>1, AgentFacts
<1>4. /\ contents'[s] = contents[s] \cup {<<q, 0>>}
      /\ \A r \in Sessions \ {s} : contents'[r] = contents[r]
  BY <1>1, <1>3, MeetsFacts
<1> HIDE DEF q, s
<1>5. \A r \in Sessions : /\ Good(round.taken, contents[r]) => Good(round.taken, contents'[r])
                          /\ contents[r] \subseteq contents'[r]
                          /\ contents'[r] \subseteq contents[r] \cup {<<q, 0>>}
  <2>1. Good(round.taken, contents[s]) => Good(round.taken, contents[s] \cup {<<q, 0>>})
    BY <1>2, GoodGrows
  <2> QED  BY <1>4, <2>1
<1>6. WorldKept(forks)'
  <2>1. \A t \in contents'[NewSession] : t = <<0, 1>> \/ (t[2] = 0 /\ t[1] # 0)
    BY <1>2, <1>5, AgentFacts DEF MeetsInv, Meets, WorldKept
  <2>2. <<agent'.doing[1], 0>> \in contents'[agent'.session]
    BY <1>3, <1>4 DEF q
  <2>3. \A f \in ForkIds : forks'[f] # NoFork => <<forks'[f].answer, f>> \in contents'[f]
    BY <1>1, <1>5, AgentFacts DEF MeetsInv, Meets, WorldKept
  <2> QED  BY <1>1, <1>3, <2>1, <2>2, <2>3 DEF MeetsInv, Meets, WorldKept
<1>7. Calm(round.taken) => Calm(round.taken)'
  <2>1. Runs' = Runs
    BY <1>1, <1>3 DEF s, Runs, Running
  <2>2. Runs \subseteq Sessions
    BY RunningTyped DEF Inv, Runs
  <2> QED  BY <1>1, <1>5, <2>1, <2>2 DEF Calm
<1>8. CalmKept(round.taken, forks, me, move)'
  BY <1>1, <1>7 DEF MeetsInv, Meets, CalmKept
<1>9. SwitchGood(round.taken, forks, me)'
  <2> SUFFICES ASSUME me.switching # NoSwitch, me.step # "committed"
               PROVE  LET f == me.switching.fork
                          x == forks[f].answer
                      IN /\ ~Answered(round.taken, x)
                         /\ early \/
                            /\ \A t \in contents'[f] : TurnGood(round.taken, t) \/ t = <<x, f>>
                            /\ Kickoff \in contents'[f] => round.taken \subseteq contents'[f]
    BY <1>1 DEF SwitchGood
  <2> DEFINE f == me.switching.fork
  <2>1. f \in Sessions
    BY MeetsFacts, AgentFacts DEF Late
  <2>2. SwitchGood(round.taken, forks, me)
    BY DEF MeetsInv, Meets
  <2>3. TurnGood(round.taken, <<q, 0>>) /\ Kickoff # <<q, 0>>
    BY <1>2 DEF TurnGood, Kickoff
  <2> QED  BY <1>5, <2>1, <2>2, <2>3 DEF SwitchGood
<1>10. LateGood(round.taken, forks, path)'
  <2>1. \A f \in Late(forks) : Target(forks, f, path, round.taken) \in Sessions
    BY MeetsFacts, AgentFacts DEF Target, Late, Records
  <2> QED  BY <1>1, <1>3, <1>5, <2>1 DEF MeetsInv, Meets, LateGood
<1>11. SettleGood(round.taken, forks, path, me)' /\ OutKept(round, forks, me)'
  BY <1>1, <1>3 DEF MeetsInv, Meets, SettleGood, OutKept
<1> QED  BY <1>6, <1>8, <1>9, <1>10, <1>11 DEF MeetsInv, Meets

\* The turn waits for Retry.
LEMMA PromptFailsMeets == ASSUME Inv, MeetsInv, PromptFails PROVE MeetsInv'
<1>1. /\ sending' = NoTurn /\ round' = TurnFailed(round, me, sending[1], sending[2])
      /\ UNCHANGED <<forks, path, me, move, agent, typed, contents, early>>
  BY DEF PromptFails, world
<1>2. round'.taken = round.taken /\ round'.out \in {0, round.out}
  BY <1>1, MeetsFacts DEF TurnFailed, Rounds
<1>3. HandsAs(me, me') /\ SameRoles(forks, forks') /\ PathsLead(forks, path')
  BY <1>1, MeetsFacts DEF HandsAs, SameRoles
<1> QED  BY <1>1, <1>2, <1>3, QuietMeets

\* The round takes the agent's own turn, which the agent's session holds.
LEMMA AgentSubmitsMeets == ASSUME Inv, MeetsInv, AgentSubmits PROVE MeetsInv'
<1> DEFINE q == agent.doing[1]
           authorized == me.access = agent.doing[2]
<1>1. /\ ~AgentIdle /\ UNCHANGED <<forks, path, me, sending, move, typed, contents, early>>
      /\ agent' = [agent EXCEPT !.doing = NoTurn,
                                !.hooks = IF authorized /\ @ = "unheard" THEN "heard" ELSE @]
      /\ round' = IF authorized /\ round.out = q
                  THEN [round EXCEPT !.taken = @ \cup {<<q, 0>>}, !.out = 0, !.retry = 0]
                  ELSE round
  BY DEF AgentSubmits
<1>2. agent.hooks # "unheard"
  BY DEF MeetsInv, Meets, WorldKept
<1>3. /\ agent'.session = agent.session /\ agent'.doing = NoTurn /\ agent'.hooks = agent.hooks
  BY <1>1, <1>2, AgentFacts
<1>4. WorldKept(forks)'
  BY <1>1, <1>3 DEF MeetsInv, Meets, WorldKept
<1>5. CASE authorized /\ round.out = q
  <2>1. /\ agent.doing[2] = round.attempt /\ round.out \in Answers
        /\ ~Moving(me) /\ me.switching = NoSwitch /\ me.settling = NoSettling
    BY <1>1, <1>5, TakenTurn DEF Moving
  <2>2. round'.taken = round.taken \cup {<<q, 0>>} /\ round'.out = 0
    BY <1>1, <1>5, MeetsFacts DEF Rounds
  <2>3. sending = NoTurn
    <3>1. Asked(sending, round) /\ (sending # NoTurn => agent.doing[2] < sending[2])
      BY DEF Inv, RunAheadInv, AttemptsKept
    <3>2. round.attempt \in Nat /\ sending[2] \in Nat
      BY MeetsFacts, Bounds DEF Rounds, Inv, WorldTypes, Pairs
    <3> QED  BY <2>1, <3>1, <3>2 DEF Asked
  <2>4. <<q, 0>> \in contents[agent.session] /\ Running = {agent.session}
    <3>1. Range(<<>>) = {}
      BY DEF Range
    <3> QED  BY <1>1, <3>1 DEF MeetsInv, Meets, WorldKept, AgentIdle, Running
  <2>5. Late(forks) = {} \/ agent.hooks = "none"
    <3>1. round.out # 0
      BY <2>1, Bounds DEF Answers
    <3> QED  BY <2>1, <3>1, AgentFacts, <1>2 DEF MeetsInv, OutKept
  <2>6. CalmKept(round.taken, forks, me, move)'
    <3>1. ASSUME Late(forks) = {} PROVE Calm(round.taken)'
      <4>1. Calm(round.taken)
        BY <2>1, <3>1 DEF MeetsInv, Meets, CalmKept
      <4>2. early \/ Good(round.taken \cup {<<q, 0>>}, contents[agent.session])
        BY <2>4, <4>1, CalmAgent, GoodTakes
      <4>3. Runs' = Runs /\ Runs \subseteq {agent.session} /\ (early => Runs = {})
        BY <1>1, <1>3, <2>4 DEF Runs, Running
      <4> QED  BY <1>1, <2>2, <4>2, <4>3 DEF Calm
    <3> QED  BY <1>1, <2>1, <2>3, <3>1 DEF CalmKept
  <2>7. LateGood(round.taken, forks, path)' /\ OutKept(round, forks, me)'
    BY <1>1, <1>3, <2>2, <2>5 DEF LateGood, OutKept
  <2> QED  BY <1>1, <1>4, <2>1, <2>6, <2>7 DEF MeetsInv, Meets, SwitchGood, SettleGood
<1>6. CASE round' = round
  <2>1. Calm(round.taken)' <=> Calm(round.taken)
    BY <1>1, <1>3, <1>6 DEF Calm, Runs, Running
  <2>2. CalmKept(round.taken, forks, me, move)'
    BY <1>1, <1>6, <2>1 DEF MeetsInv, Meets, CalmKept
  <2> QED
    BY <1>1, <1>3, <1>4, <1>6, <2>2 DEF MeetsInv, Meets, SwitchGood, LateGood, SettleGood, OutKept
<1> QED  BY <1>1, <1>5, <1>6

\* The switch ends: the agent runs the fork's session, whose turn the round takes, or it is put
\* back where it was.
LEMMA SwitchEndsMeets == ASSUME Inv, PathKept, MeetsInv, SwitchEnds PROVE MeetsInv'
<1> DEFINE f == me.switching.fork
           q == forks[f].answer
           turns == round.taken
           plain == IF me.switching.stopped THEN path ELSE [path EXCEPT ![q] = 0]
           ended == [me EXCEPT !.switching = NoSwitch]
           gone == Discard(Continue(forks, f, "none"), {f})
           late == Continue(forks, f, "typed")
<1>1. /\ me.switching # NoSwitch /\ me.step = "idle" /\ UNCHANGED <<sending, world>>
  BY DEF SwitchEnds, Idle
<1>2. /\ f \in Late(forks) /\ f \in ForkIds /\ forks[f] # NoFork /\ me.settling = NoSettling
      /\ Late(forks) = {f}
  <2>1. f \in Late(forks) /\ me.settling = NoSettling
    BY <1>1, MeetsFacts
  <2> HIDE DEF f
  <2>2. f \in ForkIds /\ forks[f] # NoFork /\ Late(forks) = {f}
    BY <2>1, MeetsFacts DEF Late, OneLate, IsUnsettled, NoFork
  <2> QED  BY <2>1, <2>2
<1>3. ~Answered(turns, q)
  BY <1>1, <1>2, SwitchUnasked
<1>4. q \in Answers /\ forks[f].from # f
  <2>1. forks[f] \in Records /\ forks[f].answer # 0 /\ forks[f].from # f
    BY <1>2, MeetsFacts DEF RecordsKept
  <2> QED  BY <2>1, Bounds DEF Records, Answers
<1>5. ended \in Reviewers /\ ended.switching = NoSwitch /\ ended.settling = NoSettling
  BY <1>2, MeetsFacts DEF Reviewers
<1>6. /\ PathsLead(forks, plain)
      /\ WorldKept(forks) /\ LateGood(turns, forks, path) /\ CalmKept(turns, forks, me, move)
  BY PathDropped, MeetsFacts DEF MeetsInv, Meets
<1> HIDE DEF plain, q, f, ended
<1>7. CASE /\ move.at = "moved" /\ ~me.switching.stopped
           /\ round' = [round EXCEPT !.taken = @ \cup {<<q, f>>}, !.out = 0, !.retry = 0]
           /\ me' = [me EXCEPT !.step = "committed"] /\ UNCHANGED <<forks, path>>
  <2>1. round'.taken = turns \cup {<<q, f>>}
    BY <1>7, MeetsFacts DEF Rounds
  <2>2. /\ me'.step = "committed" /\ me'.switching = me.switching /\ me'.settling = NoSettling
        /\ Moving(me')
    BY <1>1, <1>2, <1>7, MeetsFacts DEF Reviewers, Moving
  <2>3. Runs \subseteq {f, NewSession} /\ sending = NoTurn /\ (early => Runs = {})
    <3>1. move.to = f
      BY <1>1 DEF Inv, RunAheadInv, SwitchKept, f
    <3> QED  BY <1>7, <3>1, AgentFacts DEF Runs
  <2>4. path[q] = f
    BY <1>1, <1>7 DEF PathKept, f, q
  <2>5. early \/ Good(round'.taken, contents[f])
    <3>1. early \/ /\ \A t \in contents[f] : TurnGood(turns, t) \/ t = <<q, f>>
                   /\ Kickoff \in contents[f] => turns \subseteq contents[f]
      BY <1>1 DEF MeetsInv, Meets, SwitchGood, f, q
    <3>2. <<q, f>> \in contents[f]
      BY <1>2, <1>6 DEF WorldKept, q
    <3> QED  BY <2>1, <3>1, <3>2 DEF Good, TurnGood
  <2>6. Calm(round'.taken)
    BY <1>6, <2>3, <2>5, NewIsGood DEF Calm
  <2>7. Target(forks, f, path, round'.taken) = f
    BY <1>4, <2>1, <2>4 DEF Target, RoundTook
  <2>8. LateGood(round'.taken, forks, path)
    BY <1>2, <2>1, <2>5, <2>7 DEF LateGood, q
  <2>9. CalmKept(round'.taken, forks, me', move')
    BY <2>3, <2>6 DEF CalmKept
  <2>10. Meets(round'.taken, forks', path', me', move') /\ OutKept(round', forks', me')
    BY <1>6, <1>7, <2>2, <2>8, <2>9 DEF Meets, SwitchGood, SettleGood, OutKept
  <2> QED  BY <1>1, <2>10, SameMeets DEF world
<1>8. ASSUME NEW fs \in {forks, late}, Undo(fs, me, plain, turns, f), path' = plain,
             round'.taken = turns
      PROVE  MeetsInv'
  <2>1. /\ fs[f].answer = q /\ fs[f].from = forks[f].from /\ IsUnsettled(fs[f])
        /\ \A g \in ForkIds \ {f} : fs[g] = forks[g]
    <3>1. LET r == [forks[f] EXCEPT !.continued = "typed"] IN
          r.answer = q /\ r.from = forks[f].from /\ IsUnsettled(r)
      BY <1>2, MeetsFacts DEF Records, IsUnsettled, q
    <3>2. CASE fs = forks
      BY <1>2, <3>2 DEF Late, q
    <3>3. CASE fs = late
      <4>1. fs[f] = [forks[f] EXCEPT !.continued = "typed"] /\ \A g \in ForkIds \ {f} : fs[g] = forks[g]
        BY <1>2, <3>3, MeetsFacts DEF Continue
      <4> QED  BY <3>1, <4>1
    <3> QED  BY <1>8, <3>2, <3>3
  <2>2. f \in Late(fs) /\ Late(fs) = {f}
    BY <1>2, <2>1 DEF Late
  <2>3. WorldKept(fs)
    BY <1>2, <1>6, <2>1 DEF WorldKept, q
  <2>4. PathsLead(fs, plain)
    <3>1. \A x \in ForkIds : fs[x].answer = forks[x].answer
      BY <2>1 DEF q
    <3>2. plain \in [Answers -> 0 .. MaxForks]
      <4>1. 0 \in 0 .. MaxForks /\ path \in [Answers -> 0 .. MaxForks]
        BY MeetsFacts, Bounds
      <4> QED  BY <4>1 DEF plain
    <3>3. \A x \in Answers : plain[x] # 0 => plain[x] \in ForkIds
      BY <3>2, Bounds DEF ForkIds
    <3> QED  BY <1>6, <3>1, <3>3 DEF PathsLead
  <2>5. LateGood(turns, fs, plain)
    <3>1. Target(fs, f, plain, turns) = forks[f].from
      BY <1>2, <1>3, <2>1, <2>4, TargetUnasked
    <3>2. Target(forks, f, path, turns) = forks[f].from
      BY <1>2, <1>3, MeetsFacts, TargetUnasked DEF q
    <3> QED  BY <1>2, <1>3, <1>6, <2>1, <2>2, <3>1, <3>2 DEF LateGood
  <2>6. me' = Settling(ended, fs, f, plain, turns, TRUE) /\ forks' = fs
    BY <1>8 DEF Undo, ended
  <2>7. /\ me'.switching = NoSwitch /\ me'.settling.fork = f
        /\ me'.settling.to = Target(fs, f, plain, turns)
    BY <1>5, <2>6 DEF Settling, Reviewers
  <2>8. Meets(round.taken, fs, plain, me', move') /\ OutKept(round', fs, me')
    <3>1. Meets(round.taken, fs, plain, me', move')
      BY <1>3, <1>4, <1>6, <2>1, <2>2, <2>3, <2>4, <2>5, <2>7, SettleMeets
    <3>2. me'.settling # NoSettling
      BY <1>2, <2>7, Bounds DEF NoSettling, ForkIds
    <3> QED  BY <3>1, <3>2 DEF OutKept, Moving
  <2>9. Meets(round'.taken, forks', path', me', move') /\ OutKept(round', forks', me')
    BY <1>8, <2>6, <2>8
  <2> QED  BY <1>1, <2>9, SameMeets DEF world
<1>9. CASE /\ move.at = "failed" /\ path' = plain /\ round'.taken = turns
           /\ AfterMoved(gone, Erasing(ended, {f}), plain, turns)
  <2> DEFINE m == Erasing(ended, {f})
  <2>1. m \in Reviewers /\ m.switching = NoSwitch /\ m.settling = NoSettling
    BY <1>2, <1>5 DEF Reviewers, Erasing
  <2>2. /\ Late(gone) = {} /\ gone \in [ForkIds -> Records]
        /\ \A g \in ForkIds : gone[g] # NoFork => forks[g] # NoFork /\ gone[g].answer = forks[g].answer
    <3>1. OneLate(forks) /\ forks \in [ForkIds -> Records] /\ f \in Late(forks)
      BY <1>2, MeetsFacts
    <3> QED  BY <3>1, NoneLate DEF LeavesNone
  <2> HIDE DEF m, gone
  <2>3. Calm(round.taken)
    BY <1>1, <1>6, <1>9 DEF CalmKept
  <2>4. Meets(round.taken, gone, plain, m, move)
    BY <1>6, <2>1, <2>2, <2>3, LeftMeets
  <2>5. Meets(round'.taken, gone, plain, m, move) /\ AfterMoved(gone, m, plain, round'.taken)
    BY <1>9, <2>4 DEF m
  <2>6. Meets(round'.taken, forks', plain, me', move') /\ OutKept(round', forks', me')
    BY <2>1, <2>2, <2>5, MeetsFacts, AfterMovedMeets
  <2> QED  BY <1>1, <1>9, <2>6, SameMeets DEF world
<1>10. \A x, y : TurnFailed(round, me, x, y).taken = turns
  BY MeetsFacts DEF TurnFailed, Rounds
<1> DEFINE delivering == ~me.switching.stopped /\ me.pending = q
           failed == TurnFailed(round, me, q, me.switching.attempt)
<1>11. \/ /\ move.at = "moved" /\ delivering
          /\ round' = [round EXCEPT !.taken = @ \cup {<<q, f>>}, !.out = 0, !.retry = 0]
          /\ me' = [me EXCEPT !.step = "committed"] /\ UNCHANGED <<forks, path>>
       \/ /\ round' = IF delivering THEN failed ELSE round
          /\ path' = plain /\ Undo(forks, me, plain, turns, f)
       \/ round' = failed /\ path' = plain /\ Undo(late, me, plain, turns, f)
       \/ /\ move.at = "failed" /\ round' = failed /\ path' = plain
          /\ AfterMoved(gone, Erasing(ended, {f}), plain, turns)
  BY DEF SwitchEnds, f, q, plain, ended
<1>12. failed.taken = turns /\ (delivering => ~me.switching.stopped)
  BY <1>10
<1> HIDE DEF delivering, failed, gone, late, turns
<1>13. CASE /\ move.at = "moved" /\ delivering
            /\ round' = [round EXCEPT !.taken = @ \cup {<<q, f>>}, !.out = 0, !.retry = 0]
            /\ me' = [me EXCEPT !.step = "committed"] /\ UNCHANGED <<forks, path>>
  BY <1>7, <1>12, <1>13
<1>14. ASSUME round' = (IF delivering THEN failed ELSE round), path' = plain,
              Undo(forks, me, plain, turns, f)
       PROVE  MeetsInv'
  <2>1. round'.taken = turns
    BY <1>12, <1>14 DEF turns
  <2> QED  BY <1>8, <1>14, <2>1
<1>15. ASSUME round' = failed, path' = plain, Undo(late, me, plain, turns, f) PROVE MeetsInv'
  BY <1>8, <1>12, <1>15
<1>16. CASE /\ move.at = "failed" /\ round' = failed /\ path' = plain
            /\ AfterMoved(gone, Erasing(ended, {f}), plain, turns)
  BY <1>9, <1>12, <1>16
<1> QED  BY <1>11, <1>13, <1>14, <1>15, <1>16

\* The agent runs the fork's session, and the answer's prompt, if it is sent again, meets it.
LEMMA RecordSwitchedMeets == ASSUME Inv, MeetsInv, RecordSwitched PROVE MeetsInv'
<1> DEFINE f == me.switching.fork
           fs == Continue(forks, f, "switched")
           m == [me EXCEPT !.step = "idle", !.switching = NoSwitch, !.access = MaxAttempts + f]
<1>1. /\ me.step = "committed" /\ AfterMoved(fs, m, path, round.taken)
      /\ UNCHANGED <<round, path, sending, world>>
  BY DEF RecordSwitched
<1>2. me.switching # NoSwitch
  BY <1>1 DEF Inv, RunAheadInv, MoveKept
<1>3. f \in Late(forks) /\ me.settling = NoSettling /\ f \in ForkIds
  BY <1>2, MeetsFacts DEF Late
<1> HIDE DEF f
<1>4. MaxAttempts + f \in 0 .. MaxAttempts + MaxForks
  BY <1>3, Bounds DEF ForkIds
<1>5. m \in Reviewers /\ m.switching = NoSwitch /\ m.settling = NoSettling
  BY <1>3, <1>4, MeetsFacts DEF Reviewers
<1>6. LeavesNone(forks, fs)
  BY <1>3, MeetsFacts, NoneLate
<1> HIDE DEF fs, m
<1>7. Calm(round.taken) /\ WorldKept(forks) /\ CalmKept(round.taken, forks, me, move)
  BY <1>1, <1>2 DEF MeetsInv, Meets, CalmKept
<1>8. Meets(round.taken, fs, path, m, move)
  BY <1>5, <1>6, <1>7, LeftMeets DEF LeavesNone
<1>9. Meets(round'.taken, fs, path, m, move) /\ AfterMoved(fs, m, path, round'.taken)
  BY <1>1, <1>8
<1>10. Meets(round'.taken, forks', path, me', move') /\ OutKept(round', forks', me')
  BY <1>5, <1>6, <1>9, MeetsFacts, AfterMovedMeets DEF LeavesNone
<1> QED  BY <1>1, <1>10, SameMeets DEF world

\* The agent was put on the session it is to settle on, or the settling waits for a later one.
LEMMA SettleEndsMeets == ASSUME Inv, MeetsInv, SettleEnds PROVE MeetsInv'
<1> DEFINE f == me.settling.fork
           turns == round.taken
           ended == [me EXCEPT !.settling = NoSettling]
<1>1. /\ me.settling # NoSettling /\ UNCHANGED <<path, sending, world>>
  BY DEF SettleEnds
<1>2. /\ f \in Late(forks) /\ me.switching = NoSwitch /\ Moving(me) /\ f \in ForkIds
  BY <1>1, MeetsFacts DEF Moving, Late
<1>3. /\ WorldKept(forks) /\ CalmKept(turns, forks, me, move) /\ LateGood(turns, forks, path)
  BY DEF MeetsInv, Meets
<1>4. move.at = "moved" => Calm(turns)
  <2> SUFFICES ASSUME move.at = "moved" PROVE Calm(turns)
    OBVIOUS
  <2>1. Runs \subseteq {me.settling.to, NewSession}
    BY <1>1, AgentFacts DEF Inv, RunAheadInv, SettleKept
  <2> SUFFICES ASSUME NEW s \in Runs, s # NewSession PROVE Good(turns, contents[s])
    BY <1>3, NewIsGood DEF Calm
  <2>2. s = me.settling.to /\ ~early
    BY <2>1 DEF Runs
  <2>3. agent.hooks = "heard"
    <3>1. Range(<<>>) = {}
      BY DEF Range
    <3>2. agent.hooks # "none"
      BY <3>1, MeetsFacts DEF Hookless, Runs, Running
    <3> QED  BY <1>3, <3>2, AgentFacts DEF WorldKept
  <2>4. me.settling.to = Target(forks, f, path, turns)
    BY <1>1, <2>3 DEF MeetsInv, Meets, SettleGood
  <2> QED  BY <1>2, <1>3, <2>2, <2>3, <2>4 DEF LateGood
<1>5. ASSUME NEW v \in SUBSET ForkIds
      PROVE  LET m == [ended EXCEPT !.vain = v] IN
             m \in Reviewers /\ m.switching = NoSwitch /\ m.settling = NoSettling
  BY <1>2, MeetsFacts DEF Reviewers
<1>6. /\ me.vain \ {f} \in SUBSET ForkIds /\ me.vain \cup {f} \in SUBSET ForkIds
      /\ me.vain \cup {} \in SUBSET ForkIds
  BY <1>2, MeetsFacts DEF Reviewers
<1> HIDE DEF f
<1>7. ASSUME move.at = "moved", NEW fs, LeavesNone(forks, fs), NEW m \in Reviewers,
             m.switching = NoSwitch, m.settling = NoSettling,
             AfterMoved(fs, m, path, turns), round' = round
      PROVE  MeetsInv'
  <2>1. Meets(round.taken, fs, path, m, move)
    BY <1>3, <1>4, <1>7, LeftMeets DEF LeavesNone
  <2>2. Meets(round'.taken, fs, path, m, move) /\ AfterMoved(fs, m, path, round'.taken)
    BY <1>7, <2>1
  <2>3. Meets(round'.taken, forks', path, me', move') /\ OutKept(round', forks', me')
    BY <1>7, <2>2, MeetsFacts, AfterMovedMeets DEF LeavesNone
  <2> QED  BY <1>1, <2>3, SameMeets DEF world
<1> DEFINE back == [ended EXCEPT !.vain = @ \ {f}]
           stays == Continue(forks, f, "switched")
           gone == Discard(Continue(forks, f, "undone"), {f})
<1>8. LeavesNone(forks, stays) /\ LeavesNone(forks, gone)
  BY <1>2, MeetsFacts, NoneLate
<1>9. /\ back \in Reviewers /\ back.switching = NoSwitch /\ back.settling = NoSettling
      /\ back.erasing \cup {f} \in SUBSET ForkIds
  <2>1. back = [ended EXCEPT !.vain = me.vain \ {f}]
    BY MeetsFacts DEF Reviewers
  <2>2. back \in Reviewers /\ back.switching = NoSwitch /\ back.settling = NoSettling
    BY <1>5, <1>6, <2>1
  <2> HIDE DEF back
  <2> QED  BY <1>2, <2>2 DEF Reviewers
<1>10. ASSUME move.at = "moved", AfterMoved(stays, back, path, turns), round' = round PROVE MeetsInv'
  BY <1>7, <1>8, <1>9, <1>10
<1>11. ASSUME move.at = "moved", AfterMoved(gone, Erasing(back, {f}), path, turns), round' = round
       PROVE  MeetsInv'
  <2> HIDE DEF back
  <2>1. /\ Erasing(back, {f}) \in Reviewers /\ Erasing(back, {f}).switching = NoSwitch
        /\ Erasing(back, {f}).settling = NoSettling
    BY <1>9 DEF Reviewers, Erasing
  <2> QED  BY <1>7, <1>8, <1>11, <2>1
<1>12. ASSUME forks' \in {Continue(forks, f, "typed"), forks}, NEW v \in SUBSET ForkIds,
              me' = [ended EXCEPT !.vain = v, !.held = NoTurn],
              round' = TurnFailed(round, me, me.held[1], me.held[2]), move' = NoMove
       PROVE  MeetsInv'
  <2>1. me' \in Reviewers /\ me'.switching = NoSwitch /\ me'.settling = NoSettling
    <3>1. NoTurn \in Pairs
      BY Bounds DEF NoTurn, Pairs
    <3> QED  BY <1>2, <1>12, <3>1, MeetsFacts DEF Reviewers
  <2>2. \A g \in ForkIds :
          /\ forks'[g].answer = forks[g].answer /\ forks'[g].from = forks[g].from
          /\ forks'[g] # NoFork => forks[g] # NoFork
          /\ IsUnsettled(forks'[g]) <=> IsUnsettled(forks[g])
    <3>1. LET r == [forks[f] EXCEPT !.continued = "typed"] IN
          r.answer = forks[f].answer /\ r.from = forks[f].from /\ IsUnsettled(r)
      BY <1>2, MeetsFacts DEF Records, IsUnsettled
    <3>2. IsUnsettled(forks[f]) /\ forks[f] # NoFork
      BY <1>2 DEF Late, IsUnsettled, NoFork
    <3>3. CASE forks' = Continue(forks, f, "typed")
      <4>1. /\ forks'[f] = [forks[f] EXCEPT !.continued = "typed"]
            /\ \A g \in ForkIds \ {f} : forks'[g] = forks[g]
        BY <1>2, <3>3, MeetsFacts DEF Continue
      <4> QED  BY <3>1, <3>2, <4>1
    <3> QED  BY <1>12, <3>3
  <2>3. round'.taken = turns
    BY <1>12, MeetsFacts DEF TurnFailed, Rounds
  <2>4. round'.out = 0
    <3>1. round.out # 0 => me.pending = round.out /\ me.held = <<round.out, round.attempt>>
      BY <1>2 DEF Inv, RunAheadInv, AttemptsKept
    <3> QED  BY <1>12, <3>1, MeetsFacts DEF TurnFailed, Rounds
  <2>5. Late(forks') = Late(forks) /\ WorldKept(forks')
    BY <1>3, <2>2 DEF Late, WorldKept
  <2>6. LateGood(turns, forks', path)
    <3>1. \A g \in ForkIds : Target(forks', g, path, turns) = Target(forks, g, path, turns)
      BY <2>2 DEF Target
    <3>2. \A g \in Late(forks) : g \in ForkIds /\ forks'[g].answer = forks[g].answer
      BY <2>2 DEF Late
    <3> QED  BY <1>3, <2>5, <3>1, <3>2 DEF LateGood
  <2>7. CalmKept(turns, forks', me', move')
    BY <1>1, <1>2, <1>3, <2>1, <2>5 DEF CalmKept
  <2>8. Meets(turns, forks', path, me', move')
    BY <2>1, <2>5, <2>6, <2>7 DEF Meets, SwitchGood, SettleGood
  <2>9. Meets(round'.taken, forks', path', me', move') /\ OutKept(round', forks', me')
    BY <1>1, <2>3, <2>4, <2>8 DEF OutKept
  <2> QED  BY <1>1, <2>9, SameMeets DEF world
<1>13. CASE /\ move.at \in {"failed", "typed in vain"} /\ move' = NoMove
            /\ forks' = IF forks[f].continued = "switching" THEN Continue(forks, f, "typed") ELSE forks
            /\ \E v \in {{}, {f}} : me' = [ended EXCEPT !.vain = @ \cup v, !.held = NoTurn]
            /\ round' = TurnFailed(round, me, me.held[1], me.held[2])
  <2>1. PICK v \in {{}, {f}} : me' = [ended EXCEPT !.vain = @ \cup v, !.held = NoTurn]
    BY <1>13
  <2>2. me' = [ended EXCEPT !.vain = me.vain \cup v, !.held = NoTurn]
    BY <2>1, MeetsFacts DEF Reviewers
  <2>3. me.vain \cup v \in SUBSET ForkIds /\ forks' \in {Continue(forks, f, "typed"), forks}
    BY <1>6, <1>13, <2>1
  <2> HIDE DEF ended
  <2> QED  BY <1>12, <1>13, <2>2, <2>3
<1> HIDE DEF back, stays, gone
<1>14. \/ /\ move.at = "moved" /\ round' = round
          /\ AfterMoved(stays, back, path, turns) \/ AfterMoved(gone, Erasing(back, {f}), path, turns)
       \/ /\ move.at \in {"failed", "typed in vain"} /\ move' = NoMove
          /\ forks' = IF forks[f].continued = "switching" THEN Continue(forks, f, "typed") ELSE forks
          /\ \E v \in {{}, {f}} : me' = [ended EXCEPT !.vain = @ \cup v, !.held = NoTurn]
          /\ round' = TurnFailed(round, me, me.held[1], me.held[2])
  BY DEF SettleEnds, f, back, stays, gone
<1> QED  BY <1>10, <1>11, <1>13, <1>14

\* A step in which nothing happens changes nothing of it.
LEMMA StutterMeets == ASSUME MeetsInv, UNCHANGED vars PROVE MeetsInv'
<1>1. /\ Meets(round'.taken, forks', path', me', move') /\ OutKept(round', forks', me')
      /\ UNCHANGED <<agent, typed, contents, sending, early>>
  BY DEF MeetsInv, vars, disk, world
<1> QED  BY <1>1, SameMeets

\* Every step keeps what the sessions hold right, of a reviewer that knows its agent again.
LEMMA MeetsIsInductive == ASSUME KnownAgain, Inv, PathKept, MeetsInv, [Next]_vars PROVE MeetsInv'
<1>1. CASE Reviewer
  BY <1>1, AnswerMeets, RecordAnswerMeets, RetryMeets, StopMeets, CancelMeets, ReopenMeets DEF Reviewer
<1>2. CASE Forks
  BY <1>2, TakeForksMeets, SettleFirstMeets, DropForksMeets, ForksMeet, CleanMeets DEF Forks
<1>3. CASE Moves
  BY <1>3, MoveBeginsMeets, MoveTimesOutMeets, SwitchEndsMeets, RecordSwitchedMeets, SettleEndsMeets
     DEF Moves
<1>4. CASE Prompts
  BY <1>4, PromptStartsMeets, PromptArrivesMeets, PromptFailsMeets DEF Prompts
<1>5. CASE Agent
  BY <1>5, AgentResumesMeets, AgentIgnoresMeets, AgentSubmitsMeets, AgentIdlesMeets,
     AgentRestartsMeets DEF Agent
<1>6. CASE UNCHANGED vars
  BY <1>6, StutterMeets
<1> QED  BY <1>1, <1>2, <1>3, <1>4, <1>5, <1>6 DEF Next

\* What the sessions hold agrees with the round in every state of a run whose reviewer knows its
\* agent again: when nothing is unsettled and no thread moved the agent early, its session, and
\* each that it was told to resume, holds no prepared turn but those that the round took, and all
\* of those where it was there at the kickoff; and so does the session that each settling would
\* put it on.
THEOREM SessionsMeetRound == ASSUME KnownAgain PROVE Spec => [](Inv /\ PathKept /\ MeetsInv)
<1>1. Init => Inv /\ PathKept /\ MeetsInv
  <2>1. Init => PathKept
    BY DEF Init, Opened, PathKept, NoSwitch
  <2> QED  BY <2>1, InitHolds, InitMeets
<1>2. Inv /\ PathKept /\ MeetsInv /\ [Next]_vars => (Inv /\ PathKept /\ MeetsInv)'
  BY InvIsInductive, MeetsIsInductive
<1> QED  BY <1>1, <1>2, PTL DEF Spec

\* A prompt is typed only to an agent whose session, and each that it was told to resume, holds no
\* prepared turn but those that the round took, none of the answer it is asked, and, where the
\* agent was there at the kickoff, every turn that the round took; as long as no thread moved the
\* agent on the resume of an earlier command.
THEOREM PromptsMeetTheRound == ASSUME KnownAgain PROVE Spec => []PromptMeetsRound
<1>1. Inv /\ MeetsInv => PromptMeetsRound
  <2> SUFFICES ASSUME Inv, MeetsInv, sending # NoTurn, ~early, NEW s \in Running
               PROVE  /\ \A turn \in contents[s] : turn[2] # 0 /\ turn # <<0, 1>>
                             => turn \in round.taken /\ turn[1] # sending[1]
                      /\ Kickoff \in contents[s] => round.taken \subseteq contents[s]
    BY DEF PromptMeetsRound
  <2>1. Calm(round.taken) /\ ~Answered(round.taken, sending[1])
    BY DEF MeetsInv, Meets, CalmKept
  <2>2. Good(round.taken, contents[s])
    BY <2>1 DEF Calm, Runs
  <2> QED  BY <2>1, <2>2 DEF Good, TurnGood, Answered
<1> QED  BY <1>1, SessionsMeetRound, PTL

\* The agent settles on a fork's session only when the round took that fork's own turn.
THEOREM SettlesOnTakenTurns == ASSUME KnownAgain PROVE Spec => []FollowsTaken
<1>1. MeetsInv => FollowsTaken
  BY DEF MeetsInv, Meets, SettleGood, FollowsTaken
<1> QED  BY <1>1, SessionsMeetRound, PTL
=============================================================================
