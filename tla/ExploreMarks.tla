----------------------------- MODULE ExploreMarks -----------------------------
(***************************************************************************)
(* The review marks that an Explore round sets and gives back              *)
(* (crates/review-explore-session: marks.rs, unmark.rs, cancel.rs), on the *)
(* tracker that every reviewer process of the repository shares            *)
(* (crates/review-state/src/review.rs).                                    *)
(*                                                                         *)
(* The marks and the round are two files with two locks.  Each call of the *)
(* tracker is one step, since it reads and writes under the marks lock, and *)
(* so is each update of the saved round; between two of them the reviewers *)
(* of other workspaces mark by hand and the process may end.  The code may *)
(* change at any time: which files still have the diff that the round      *)
(* captured is chosen anew wherever it is read.  A file without text lines *)
(* is a file with one line.                                                *)
(***************************************************************************)
EXTENDS ExploreRound

CONSTANTS
    Files,    \* the changed files of the review
    Size,     \* bound: changed lines of a file, which are one hunk
    MaxNamed, \* bound: lines that one turn asks to mark or to reopen
    Crashes   \* the jobs during which the process may end: "mark", "unmark"

\* A round has its kickoff, and may be implemented.
ASSUME MarksAssumption ==
    /\ MaxIds > 0 /\ MaxDeliveries > 0 /\ Size \in Nat /\ MaxNamed \in Nat
    /\ Crashes \subseteq {"mark", "unmark"}

Lines == Files \X (1 .. Size)
In(f) == {l \in Lines : l[1] = f}
FilesOf(lines) == {l[1] : l \in lines}

\* MarkAuthor; an open line has none.
Nobody == [by |-> "nobody", id |-> 0]
Reviewer == [by |-> "reviewer", id |-> 0]
Explore(answer) == [by |-> "explore", id |-> answer]
ExploreRead(request) == [by |-> "read", id |-> request]
Authors == {Reviewer} \cup {Explore(a) : a \in Ids} \cup {ExploreRead(q) : q \in Ids}

VARIABLES
    saved,    \* the round on disk
    asked,    \* the marks that each question of the conversation asks for
    board,    \* the answers at the drawing board
    recorded, \* ExploreRound.marks, by request; answer 0 with `set` FALSE is none
    mark,     \* the tracker: who marked each line
    job,      \* what the session is in the middle of
    own,      \* history: lines that a reviewer marked by hand, as far as it can tell
    left      \* history: the files that cancelled answers kept marks in, see CancelCommit

round == <<saved, asked, board, recorded>>
vars == <<round, mark, job, own, left>>

NoAsk == [reviewed |-> {}, reopened |-> {}]
NoMarks == [set |-> FALSE, answer |-> 0, reviewed |-> {}, reopened |-> {}]
Idle == [op |-> "idle"]

\* The kickoff was posted, and nothing is marked.
Init ==
    /\ saved = PostKickoff(EmptyRound, 1)
    /\ asked = [q \in Ids |-> NoAsk]
    /\ board = {} /\ recorded = [q \in Ids |-> NoMarks]
    /\ mark = [l \in Lines |-> Nobody]
    /\ job = Idle /\ own = {} /\ left = {}

\* TurnMarks::author.
AuthorOf(q, answer) == IF answer = 0 THEN ExploreRead(q) ELSE Explore(answer)

ReplyOf(r, a) == (CHOOSE x \in Range(r.answers) : x.id = a).in_reply_to
TurnOf(r, q) == CHOOSE t \in Range(r.conversation) : t.request = q

-----------------------------------------------------------------------------
(* The tracker. *)

\* The lines an edit takes: those selected, or their whole hunk when they would
\* not come out as picked (settle).  It takes none when the reviewer moved to
\* another change: edit then returns ChangeChanged, which neither marking nor
\* giving back looks at.
Picks(f, lines) == IF lines = {} THEN {{}} ELSE {{}, lines, In(f)}

\* ReviewTracker::reopen_lines and accept_lines, of the lines the edit takes.
ReopenLines(m, picked) == [l \in Lines |-> IF l \in picked THEN Nobody ELSE m[l]]
AcceptLines(m, picked, author) ==
    [l \in Lines |-> IF l \in picked /\ m[l] = Nobody THEN author ELSE m[l]]

OpenLines(m) == {l \in Lines : m[l] = Nobody}

-----------------------------------------------------------------------------
(* Applying a turn's marks. *)

MarkJob(q, answer, ask, files) ==
    [op |-> "mark", turn |-> q, author |-> AuthorOf(q, answer), answer |-> answer,
     ask |-> ask, todo |-> files,
     stage |-> "next", file |-> <<>>, before |-> <<>>, reviewed |-> {}, reopened |-> {}]

\* ExploreSession::apply_marks, up to its first file: on the markable files, those
\* that did not change now or when the turn was written.  A repository that is not
\* ready has none, and leaves a record without marks.
ApplyMarks(q, answer, ask) ==
    \E markable \in SUBSET FilesOf(ask.reviewed \cup ask.reopened) :
        job' = MarkJob(q, answer, ask, markable)

\* FileRequest::apply: read the file's lines, reopen, mark, read them again.
ReadBefore(f) ==
    /\ job.op = "mark" /\ job.stage = "next" /\ f \in job.todo
    /\ job' = [job EXCEPT !.stage = "reopen", !.file = f, !.before = mark]
    /\ UNCHANGED <<round, mark, own, left>>

Reopen ==
    /\ job.op = "mark" /\ job.stage = "reopen"
    /\ \E picked \in Picks(job.file, {l \in job.ask.reopened \cap In(job.file) :
                                         mark[l] # Nobody}) :
         mark' = ReopenLines(mark, picked)
    /\ job' = [job EXCEPT !.stage = "accept"]
    /\ UNCHANGED <<round, own, left>>

Accept ==
    /\ job.op = "mark" /\ job.stage = "accept"
    /\ \E picked \in Picks(job.file, job.ask.reviewed \cap In(job.file) \cap OpenLines(mark)) :
         mark' = AcceptLines(mark, picked, job.author)
    /\ job' = [job EXCEPT !.stage = "after"]
    /\ UNCHANGED <<round, own, left>>

\* Mutant of Between: a line taken over counts as marked, not as reopened.
BetweenTaken(f, before, after, author) ==
    [reviewed |-> {l \in In(f) : \/ before[l] = Nobody /\ after[l] # Nobody
                                 \/ after[l] = author /\ before[l] \notin {Nobody, author}},
     reopened |-> {<<l, before[l]>> : l \in {k \in In(f) : before[k] # Nobody
                                                           /\ after[k] = Nobody}}]

\* Mutant of Between: lines that were open count as taken from someone.
BetweenOpened(f, before, after, author) ==
    [reviewed |-> {l \in In(f) : \/ before[l] = Nobody /\ after[l] # Nobody
                                 \/ after[l] = author /\ before[l] \notin {Nobody, author}},
     reopened |-> {<<l, before[l]>> : l \in {k \in In(f) : after[k] # before[k]}}]

\* FileChange::between: a line the author took over from another is reopened
\* from that one and marked.
Between(f, before, after, author) ==
    [reviewed |-> {l \in In(f) : \/ before[l] = Nobody /\ after[l] # Nobody
                                 \/ after[l] = author /\ before[l] \notin {Nobody, author}},
     reopened |-> {<<l, before[l]>> : l \in {k \in In(f) : before[k] # Nobody
                                                           /\ after[k] # before[k]}}]

ReadAfter ==
    /\ job.op = "mark" /\ job.stage = "after"
    /\ LET change == Between(job.file, job.before, mark, job.author)
       IN  job' = [job EXCEPT !.stage = "next", !.todo = @ \ {job.file},
                       !.file = <<>>, !.before = <<>>,
                       !.reviewed = @ \cup change.reviewed,
                       !.reopened = @ \cup change.reopened]
    /\ UNCHANGED <<round, mark, own, left>>

\* The end of apply_marks: the round records what changed.  Storage that fails here
\* leaves the same as a process that ends here.
Record ==
    /\ job.op = "mark" /\ job.stage = "next" /\ job.todo = {}
    /\ recorded' = [recorded EXCEPT ![job.turn] =
           [set |-> TRUE, answer |-> job.answer, reviewed |-> job.reviewed,
            reopened |-> job.reopened]]
    /\ job' = Idle
    /\ UNCHANGED <<saved, asked, board, mark, own, left>>

-----------------------------------------------------------------------------
(* The interview. *)

\* ExploreSession::commit: an accepted conclusion's marks apply at once; those of
\* a question wait.  A turn at the drawing board concludes and asks for none.
AgentTurn(question, ask) ==
    LET q == saved.outstanding
        answer == IF saved.turns[q].answer THEN q ELSE 0
    IN
    /\ job = Idle /\ q # 0 /\ MaySubmit(saved, q)
    /\ q \in board => ~question /\ ask = NoAsk
    /\ saved' = Submit(saved, q, question)
    /\ asked' = IF question THEN [asked EXCEPT ![q] = ask] ELSE asked
    /\ IF ~question /\ ask # NoAsk
       THEN ApplyMarks(q, answer, ask)
       ELSE job' = Idle
    /\ UNCHANGED <<board, recorded, mark, own, left>>

\* ExploreSession::apply_answered_marks: whether the saved answer q has marks to
\* apply.
AnswersMarks(r, q, boards) ==
    LET to == ReplyOf(r, q)
    IN  /\ q \notin boards /\ ~recorded[to].set
        /\ TurnOf(r, to).next /\ asked[to] # NoAsk

\* The end of ExploreSession::deliver_turn: marks before the prompt.
Deliver(r, q, boards) ==
    IF r.turns[q].answer /\ AnswersMarks(r, q, boards)
    THEN ApplyMarks(ReplyOf(r, q), q, asked[ReplyOf(r, q)])
    ELSE job' = Idle

\* Requests are numbered as they are made; the last one is a turn of the round, or
\* cancelled and not told yet.
IsNext(q) ==
    LET made == Turns(saved) \cup saved.cancelled
    IN  q - 1 \in made /\ \A p \in made : p < q

Answer(q, to, atBoard) ==
    LET r == PostAnswer(saved, q, to)
        turn == TurnOf(saved, to)
    IN
    /\ job = Idle /\ IsNext(q) /\ MayPost(saved, to)
    /\ atBoard => turn.next
    /\ board' = IF atBoard \/ (~turn.next /\ turn.answer \in board)
                THEN board \cup {q} ELSE board
    /\ saved' = r
    /\ Deliver(r, q, board')
    /\ UNCHANGED <<asked, recorded, mark, own, left>>

\* Command::Retry, after Stop waiting, a prompt that failed or a restart.
Retry ==
    LET q == saved.retry IN
    /\ job = Idle /\ q # 0 /\ MayPostAgain(saved, q)
    /\ saved.turns[q].attempt < MaxAttempts
    /\ saved' = PostAgain(saved, q)
    /\ Deliver(saved', q, board)
    /\ UNCHANGED <<asked, board, recorded, mark, own, left>>

-----------------------------------------------------------------------------
(* Giving marks back. *)

\* Mutant of RecordsOf: the answered question's marks go first.
RecordsOfQuestionFirst(r, a, gone) ==
    LET to == ReplyOf(r, a)
    IN  {[turn |-> q, by |-> Explore(a), of |-> recorded[q],
          rank |-> IF q = a THEN 2 * a ELSE 2 * a + 1] :
             q \in {p \in {to, a} :
                       /\ recorded[p].set
                       /\ p = to => recorded[p].answer = a
                       /\ p = a => recorded[p].answer \notin gone \ {a}}}

\* CancelledAnswer.marks: those of a conclusion after it, then those of the
\* question it answered, which it applied.  The highest rank goes first.
RecordsOf(r, a, gone) ==
    LET to == ReplyOf(r, a)
    IN  {[turn |-> q, by |-> Explore(a), of |-> recorded[q],
          rank |-> IF q = a THEN 2 * a + 1 ELSE 2 * a] :
             q \in {p \in {to, a} :
                       /\ recorded[p].set
                       /\ p = to => recorded[p].answer = a
                       /\ p = a => recorded[p].answer \notin gone \ {a}}}

UnmarkJob(then, answer, plan) ==
    [op |-> "unmark", then |-> then, answer |-> answer, plan |-> plan,
     giving |-> <<>>, stage |-> "poll", files |-> {}, file |-> <<>>, held |-> {}, back |-> {},
     unchanged |-> {}, missed |-> {}, failed |-> FALSE]

\* ExploreSession::cancel_from: checked against the saved round, then the marks
\* of each answer that goes, latest first.
CancelFrom(a) ==
    LET gone == AnswersFrom(saved, a)
    IN
    /\ job = Idle /\ MayCancelFrom(saved, a)
    /\ job' = UnmarkJob("cancel", a, UNION {RecordsOf(saved, b, gone) : b \in gone})
    /\ UNCHANGED <<round, mark, own, left>>

\* reopen_round_marks: with no lines to give back, what the turn holds reopens.
HeldOnly(marks) == [marks EXCEPT !.reopened = {}]

\* ExploreSession::prepare_implementation, of a round concluded at the drawing
\* board: every turn's marks reopen first.
AtBoard(r) ==
    ConclusionRequest(r) # 0 /\ r.answers # <<>> /\ Last(r.answers).id \in board
Implement ==
    /\ job = Idle /\ Implementations(saved) = {} /\ MayAuthorize(saved, 1)
    /\ IF AtBoard(saved)
       THEN /\ job' = UnmarkJob("implement", 0,
                   {[turn |-> q, by |-> AuthorOf(q, recorded[q].answer),
                     of |-> HeldOnly(recorded[q]), rank |-> 0] :
                         q \in {p \in Ids : recorded[p].set}})
            /\ UNCHANGED saved
       ELSE saved' = Authorize(saved, 1) /\ job' = Idle
    /\ UNCHANGED <<asked, board, recorded, mark, own, left>>

\* The records that may be next: a repository that is not ready leaves one out.
Foremost == {x \in job.plan : \A y \in job.plan : y.rank <= x.rank}

\* Lines whose reviewers' marks this history cannot follow: those that a hunk taken
\* whole takes along, those that are not given back, since their file changed or the
\* edit took none, and those of a file that is passed over.
Unfollowed(lines) == own' = own \ lines

\* The files that a record names.
NamedBy(marks) == FilesOf(marks.reviewed \cup {x[1] : x \in marks.reopened})

\* ExploreSession::unmark of one record: the files of the snapshot that it names.  The
\* others, which were renamed or reverted or are of another change, are passed over in
\* silence, with the lines that the record's author holds there: `missed`.
UnmarkPoll ==
    /\ job.op = "unmark" /\ job.stage = "poll"
    /\ \E x \in Foremost : \E files \in SUBSET NamedBy(x.of) :
       \E unchanged \in SUBSET (files \cap FilesOf({y[1] : y \in x.of.reopened})) :
         LET absent == UNION {In(f) : f \in NamedBy(x.of) \ files} IN
         /\ job' = [job EXCEPT !.stage = "files", !.unchanged = unchanged, !.giving = x,
                        !.plan = @ \ {x}, !.files = files,
                        !.missed = @ \cup {<<l[1], x.by>> : l \in {k \in absent : mark[k] = x.by}}]
         /\ Unfollowed(absent)
    /\ UNCHANGED <<round, mark, left>>

\* A repository that is not ready refuses Cancel at once, and Implement after the
\* other turns.
UnmarkFails ==
    /\ job.op = "unmark" /\ job.stage = "poll"
    /\ \E x \in Foremost :
         job' = IF job.then = "cancel" THEN Idle
                ELSE [job EXCEPT !.plan = @ \ {x}, !.failed = TRUE]
    /\ UNCHANGED <<round, mark, own, left>>

\* FileUnmark::apply: the lines the author holds, and, in a file that did not
\* change, the lines to give back.
UnmarkRead(f) ==
    /\ job.op = "unmark" /\ job.stage = "files" /\ f \in job.files
    /\ job' = [job EXCEPT !.stage = "reopen", !.file = f,
                   !.held = {l \in In(f) : mark[l] = job.giving.by},
                   !.back = IF f \in job.unchanged
                            THEN {x \in job.giving.of.reopened : x[1] \in In(f)}
                            ELSE {}]
    /\ Unfollowed(IF f \in job.unchanged THEN {}
                  ELSE {x[1] : x \in job.giving.of.reopened} \cap In(f))
    /\ UNCHANGED <<round, mark, left>>

UnmarkReopen ==
    /\ job.op = "unmark" /\ job.stage = "reopen"
    /\ \E picked \in Picks(job.file, job.held) :
         /\ mark' = ReopenLines(mark, picked)
         /\ IF job.held \subseteq picked
            THEN /\ job' = [job EXCEPT !.stage = "restore"]
                 /\ Unfollowed(picked \ job.held)
            ELSE /\ job' = [job EXCEPT !.stage = "restore",
                                !.missed = @ \cup {<<job.file, job.giving.by>>}]
                 /\ Unfollowed(In(job.file))
    /\ UNCHANGED <<round, left>>

\* The lines of one previous author that are open go back to it.
UnmarkRestore(previous) ==
    /\ job.op = "unmark" /\ job.stage = "restore"
    /\ \E x \in job.back : x[2] = previous
    /\ LET lines == {x[1] : x \in {y \in job.back : y[2] = previous}} \cap OpenLines(mark)
       IN  \E picked \in Picks(job.file, lines) :
             /\ mark' = AcceptLines(mark, picked, previous)
             /\ Unfollowed((picked \ lines) \cup (lines \ picked))
    /\ job' = [job EXCEPT !.back = {x \in @ : x[2] # previous}]
    /\ UNCHANGED <<round, left>>

UnmarkedFile ==
    /\ job.op = "unmark" /\ job.stage = "restore" /\ job.back = {}
    /\ job' = [job EXCEPT !.stage = "files", !.files = @ \ {job.file},
                   !.file = <<>>, !.held = {}]
    /\ UNCHANGED <<round, mark, own, left>>

UnmarkedTurn ==
    /\ job.op = "unmark" /\ job.stage = "files" /\ job.files = {}
    /\ job' = [job EXCEPT !.stage = "poll", !.giving = <<>>, !.unchanged = {}]
    /\ UNCHANGED <<round, mark, own, left>>

\* The marks are given back: the round forgets the answers.  Storage may fail,
\* or the round may have moved on; then the answers stay.  What a file still has of
\* the marks that the cancellation missed stays in it for good: `left`.
CancelCommit ==
    LET gone == AnswersFrom(saved, job.answer)
        kept(q) == q \notin gone
    IN
    /\ job.op = "unmark" /\ job.stage = "poll" /\ job.plan = {} /\ job.then = "cancel"
    /\ \/ /\ saved' = CancelAnswersFrom(saved, job.answer)
          /\ asked' = [q \in Ids |-> IF kept(q) THEN asked[q] ELSE NoAsk]
          /\ board' = board \ gone
          /\ recorded' = [q \in Ids |-> IF kept(q) /\ recorded[q].answer \notin gone
                                        THEN recorded[q] ELSE NoMarks]
          /\ left' = left \cup {x \in job.missed : \E l \in In(x[1]) : mark[l] = x[2]}
       \/ UNCHANGED <<round, left>>
    /\ job' = Idle
    /\ UNCHANGED <<mark, own>>

\* Mutant of ImplementCommit: a turn whose marks were not given back stops nothing.
ImplementDespite ==
    /\ job.op = "unmark" /\ job.stage = "poll" /\ job.plan = {}
    /\ job.then = "implement"
    /\ saved' = Authorize(saved, 1)
    /\ job' = Idle
    /\ UNCHANGED <<asked, board, recorded, mark, own, left>>

\* reopen_round_marks failed when a turn's marks were not given back: then nothing
\* is authorized.
ImplementCommit ==
    /\ job.op = "unmark" /\ job.stage = "poll" /\ job.plan = {}
    /\ job.then = "implement"
    /\ saved' = IF job.failed THEN saved ELSE Authorize(saved, 1)
    /\ job' = Idle
    /\ UNCHANGED <<asked, board, recorded, mark, own, left>>

\* The process ends and another starts, which restores the round; its turn waits
\* for Retry.
Restart ==
    /\ job.op \in Crashes \cup {"idle"}
    /\ job' = Idle
    /\ saved' = StopTurn(saved)
    /\ UNCHANGED <<asked, board, recorded, mark, own, left>>

-----------------------------------------------------------------------------
(* The reviewers of other workspaces. *)

\* `marked` became theirs, of the lines they touched; while a job runs, nobody can
\* tell whether its reads saw that.  A file with marks that are left is not followed.
Owned(touched, marked) ==
    own' = (own \ touched) \cup
           (IF job = Idle THEN {l \in marked : l[1] \notin FilesOf(left)} ELSE {})

\* mark_hunk and review_hunks_where: open lines are marked, reviewed ones reopen.
HandMark(l) ==
    /\ mark[l] = Nobody
    /\ mark' = AcceptLines(mark, {l}, Reviewer) /\ Owned({l}, {l})
    /\ UNCHANGED <<round, job, left>>
HandReopen(l) ==
    /\ mark[l] # Nobody
    /\ mark' = ReopenLines(mark, {l}) /\ Owned({l}, {})
    /\ UNCHANGED <<round, job, left>>

\* ReviewTracker::mark and unreview: the whole file, whoever marked its lines.
HandMarkFile(f) ==
    /\ mark' = [l \in Lines |-> IF l \in In(f) THEN Reviewer ELSE mark[l]]
    /\ mark' # mark /\ Owned(In(f), In(f))
    /\ UNCHANGED <<round, job, left>>
HandReopenFile(f) ==
    /\ mark' = ReopenLines(mark, In(f))
    /\ mark' # mark /\ Owned(In(f), {})
    /\ UNCHANGED <<round, job, left>>

-----------------------------------------------------------------------------
Asks == {ask \in [reviewed : SUBSET Lines, reopened : SUBSET Lines] :
            Cardinality(ask.reviewed) + Cardinality(ask.reopened) <= MaxNamed}

Session ==
    \/ \E question \in BOOLEAN, ask \in Asks : AgentTurn(question, ask)
    \/ \E q, to \in Ids, atBoard \in BOOLEAN : Answer(q, to, atBoard)
    \/ \E a \in Ids : CancelFrom(a)
    \/ Retry \/ Implement \/ Restart

Marking == (\E f \in Files : ReadBefore(f)) \/ Reopen \/ Accept \/ ReadAfter \/ Record

Unmarking ==
    \/ \E f \in Files : UnmarkRead(f)
    \/ \E author \in Authors : UnmarkRestore(author)
    \/ UnmarkPoll \/ UnmarkFails \/ UnmarkReopen \/ UnmarkedFile \/ UnmarkedTurn
    \/ CancelCommit \/ ImplementCommit

Others ==
    \/ \E l \in Lines : HandMark(l) \/ HandReopen(l)
    \/ \E f \in Files : HandMarkFile(f) \/ HandReopenFile(f)

Next == Session \/ Marking \/ Unmarking \/ Others

Spec == Init /\ [][Next]_vars

-----------------------------------------------------------------------------
(* Properties. *)

\* The types of the marks and of what the round records of them.
TypeOK ==
    /\ saved \in Round /\ board \subseteq Ids /\ asked \in [Ids -> Asks]
    /\ mark \in [Lines -> Authors \cup {Nobody}]
    /\ recorded \in [Ids -> [set : BOOLEAN, answer : {0} \cup Ids,
                             reviewed : SUBSET Lines,
                             reopened : SUBSET (Lines \X Authors)]]
    /\ job.op \in {"idle", "mark", "unmark"}
    /\ own \subseteq Lines /\ left \subseteq Files \X Authors

\* "All carry the author of the answer that applies them, so cancelling it gives
\* them back": no line stays reviewed in the name of an answer the round no
\* longer has, but in a file that the cancellation missed, which was not in the
\* snapshot or not edited then; in whatever order answers took lines from one
\* another, whatever others marked meanwhile, and also when a cancellation failed
\* half way and was made again.
CancelGivesBack ==
    job = Idle =>
        \A l \in Lines : mark[l].by = "explore" =>
            mark[l].id \in AnswerIds(saved) \/ <<l[1], mark[l]>> \in left

\* A line a reviewer marked by hand is still theirs, or the round has on record
\* that it was taken from them: no turn, and no cancellation of one, loses a mark
\* of a file that it edits.
OwnMarksReturn ==
    job = Idle =>
        \A l \in own :
            \/ mark[l] = Reviewer
            \/ \E q \in Ids : <<l, Reviewer>> \in recorded[q].reopened

\* What the job passed over, or a cancellation before it.
Missed == left \cup (IF job.op = "unmark" THEN job.missed ELSE {})

\* "What the round's answers settled goes back to review": when an implementation
\* at the drawing board is authorized, no turn of the round holds a line, but in the
\* files that were missed.
BoardReopensRound ==
    [][Implementations(saved) = {} /\ Implementations(saved') # {} /\ AtBoard(saved) =>
         \A l \in Lines :
             mark[l].by \in {"explore", "read"} => <<l[1], mark[l]>> \in Missed]_vars
=============================================================================
