-------------------------- MODULE ExploreMarksProofs --------------------------
(***************************************************************************)
(* The review marks of an Explore round, proved for any number of files,   *)
(* lines, requests and answers, and whatever reviewers of other workspaces *)
(* mark meanwhile.                                                         *)
(*                                                                         *)
(* Whoever holds a line for the round is on its record (HeldInv), and what *)
(* a record gives back goes to an author on an earlier record (RecordInv). *)
(* So a cancellation, which takes its records in that order, reopens every *)
(* line of an answer that goes, those it has itself given back to one      *)
(* included (DueInv); but not in a file that it passes over or whose edit  *)
(* takes nothing, which counts as missed and stays so (left).  A line      *)
(* taken from a reviewer is given back with the record that took it, since *)
(* all that took or held the line later goes first (OwnInv), except in a   *)
(* missed file, where lines are no longer followed (FollowedInv).          *)
(*                                                                         *)
(* The types hold whatever job a process ends in.  The rest is of          *)
(* processes that do not end between an answer's marks and their record,   *)
(* where the run marks_crash shows that it fails.                          *)
(***************************************************************************)
EXTENDS ExploreMarks, ExploreRoundProofs

-----------------------------------------------------------------------------
(* The types. *)

\* TurnMarks, and who may hold a line.
TurnMarks == [set : BOOLEAN, answer : {0} \cup Ids, reviewed : SUBSET Lines,
              reopened : SUBSET (Lines \X Authors)]
Holders == Authors \cup {Nobody}

\* What the plan has of one record.
Entries == [turn : Ids, by : Authors, of : TurnMarks, rank : Nat]

MarkJobs ==
    [op : {"mark"}, turn : Ids, author : Authors, answer : {0} \cup Ids, ask : Asks,
     todo : SUBSET Files, stage : {"next", "reopen", "accept", "after"},
     file : Files \cup {<<>>}, before : [Lines -> Holders] \cup {<<>>},
     reviewed : SUBSET Lines, reopened : SUBSET (Lines \X Authors)]

UnmarkJobs ==
    [op : {"unmark"}, then : {"cancel", "implement"}, answer : {0} \cup Ids,
     plan : SUBSET Entries, giving : Entries \cup {<<>>},
     stage : {"poll", "files", "reopen", "restore"}, files : SUBSET Files,
     file : Files \cup {<<>>}, held : SUBSET Lines, back : SUBSET (Lines \X Authors),
     unchanged : SUBSET Files, missed : SUBSET (Files \X Authors), failed : BOOLEAN]

\* A job is at a file of those it has to do, and what it checked of the round stands.
JobTypes ==
    \/ job = Idle
    \/ /\ job \in MarkJobs
       /\ job.stage # "next" => job.file \in job.todo /\ job.before \in [Lines -> Holders]
    \/ /\ job \in UnmarkJobs
       /\ job.stage # "poll" => job.giving \in Entries
       /\ job.stage \in {"reopen", "restore"} => job.file \in job.files
       /\ job.then = "cancel" => MayCancelFrom(saved, job.answer)
       /\ job.then = "implement" => MayAuthorize(saved, 1)

-----------------------------------------------------------------------------
(* The invariant: the round. *)

\* The requests there were, those of cancelled answers included.
Made(r) == Turns(r) \cup r.cancelled

\* A round of n requests, which all still have their turn or were cancelled since; no
\* question of it was revised.
RoundOf(r, n) ==
    /\ n \in Ids /\ WellFormed(r, n)
    /\ n \in Made(r) /\ \A q \in Made(r) : q <= n
    /\ \A q \in Turns(r) : \A p \in r.turns[q].cancelled : p <= n
    /\ \A i \in DOMAIN r.conversation :
         r.conversation[i].answer \in {0, r.conversation[i].request}
    /\ \A i \in DOMAIN r.answers : r.answers[i].in_reply_to < r.answers[i].id

RoundInv == \E n \in Ids : RoundOf(saved, n)

-----------------------------------------------------------------------------
(* The invariant: what the round has on record. *)

\* The order in which records give back: by their answers, and those of a question
\* before those of the conclusion that the answer led to.
Rank(q, b) == IF b = 0 THEN 0 ELSE IF q = b THEN 2 * b + 1 ELSE 2 * b
RankOf(q) == Rank(q, recorded[q].answer)
Holder(q) == AuthorOf(q, recorded[q].answer)

\* A record is of a turn that is still there, and so is the answer that carries it:
\* the one that the turn follows, or one to it.
Recorded(q) ==
    LET b == recorded[q].answer
    IN  /\ InConversation(saved, q) /\ b \in {0} \cup AnswerIds(saved)
        /\ b = 0 => q \notin AnswerIds(saved)
        /\ b # 0 => q = b \/ q = ReplyOf(saved, b)

\* An agent, which marks in the name of an answer or of a request.
IsAgent(author) == author.by \in {"explore", "read"}

\* A record says that this author marked lines of the file, or a cancellation left some.
OnRecord(f, author) ==
    \/ <<f, author>> \in left
    \/ \E q \in Ids :
         recorded[q].set /\ Holder(q) = author /\ f \in FilesOf(recorded[q].reviewed)

\* So does a record that gives back after one of this rank, or a cancellation left some.
OnEarlier(f, author, rank) ==
    \/ <<f, author>> \in left
    \/ \E q \in Ids :
         /\ recorded[q].set /\ Holder(q) = author /\ f \in FilesOf(recorded[q].reviewed)
         /\ recorded[q].answer # 0 => RankOf(q) < rank

\* One author for a line.
OnePerLine(pairs) == \A x, y \in pairs : x[1] = y[1] => x = y

RecordInv ==
    \A q \in Ids : recorded[q].set =>
        /\ Recorded(q) /\ OnePerLine(recorded[q].reopened)
        /\ \A x \in recorded[q].reopened :
             IsAgent(x[2]) => OnEarlier(x[1][1], x[2], RankOf(q))

-----------------------------------------------------------------------------
(* The invariant: applying marks. *)

\* What the job marks is on record of nothing yet, and later than all that is.
Latest ==
    /\ ~recorded[job.turn].set /\ InConversation(saved, job.turn)
    /\ job.author = AuthorOf(job.turn, job.answer)
    /\ job.answer \in {0} \cup AnswerIds(saved)
    /\ job.answer = 0 => AnswerIds(saved) = {}
    /\ job.answer # 0 =>
         /\ \A b \in AnswerIds(saved) : b <= job.answer
         /\ \/ job.turn = job.answer
            \/ job.turn = ReplyOf(saved, job.answer) /\ ~recorded[job.answer].set

\* What it has done is of files that are done, and whoever it took a line from is on
\* record.
MarkInv ==
    job.op = "mark" =>
        /\ Latest
        /\ \A l \in job.reviewed : l[1] \notin job.todo
        /\ \A x \in job.reopened : x[1][1] \notin job.todo
        /\ OnePerLine(job.reopened)
        /\ \A x \in job.reopened : IsAgent(x[2]) => OnRecord(x[1][1], x[2])
        /\ job.stage # "next" =>
             \A l \in In(job.file) : IsAgent(job.before[l]) => OnRecord(job.file, job.before[l])

\* Whoever holds a line for the round is on record, or is the job that runs.
HeldInv ==
    \A l \in Lines : IsAgent(mark[l]) =>
        \/ OnRecord(l[1], mark[l])
        \/ /\ job.op = "mark" /\ mark[l] = job.author
           /\ \/ l[1] \in FilesOf(job.reviewed)
              \/ job.stage = "after" /\ l[1] = job.file

-----------------------------------------------------------------------------
(* The invariant: giving marks back. *)

\* What the plan has of a record.
Entry(q) == [turn |-> q, by |-> Holder(q), of |-> recorded[q], rank |-> RankOf(q)]

\* The answers that a cancellation takes, and the record it is at.
Gone == AnswersFrom(saved, job.answer)
Giving == job.stage # "poll"
AtWork == IF Giving THEN {job.giving} ELSE {}

\* The authors that hold no line when the job is done.
Due(author) ==
    IF job.then = "cancel" THEN author.by = "explore" /\ author.id \in Gone
    ELSE ~job.failed /\ IsAgent(author)

\* Each line of such an author is one that the plan reopens, in this record or a later
\* one, or that it missed; so is each line that is given back to such an author.
DueInv ==
    job.op = "unmark" =>
        /\ \A l \in Lines : Due(mark[l]) =>
             \/ <<l[1], mark[l]>> \in left \cup job.missed
             \/ \E x \in job.plan : x.by = mark[l] /\ l[1] \in FilesOf(x.of.reviewed)
             \/ /\ Giving /\ job.giving.by = mark[l] /\ l[1] \in job.files
                /\ ~(job.stage = "restore" /\ l[1] = job.file)
        /\ \A x \in job.plan \cup AtWork : \A y \in x.of.reopened : Due(y[2]) =>
             \/ <<y[1][1], y[2]>> \in left
             \/ \E z \in job.plan :
                  z.by = y[2] /\ z.rank < x.rank /\ y[1][1] \in FilesOf(z.of.reviewed)

\* The plan is of records of the answers that go, and the record it is at comes first.
UnmarkInv ==
    job.op = "unmark" =>
        /\ job.then = "cancel" =>
             \A x \in job.plan \cup AtWork : \E q \in Ids :
                 recorded[q].set /\ recorded[q].answer \in Gone /\ x = Entry(q)
        /\ job.then = "implement" => \A x \in job.plan \cup AtWork : x.of.reopened = {}
        /\ \A x \in job.plan \cup AtWork : IsAgent(x.by)
        /\ Giving => \A x \in job.plan : x.rank <= job.giving.rank
        /\ job.stage \in {"reopen", "restore"} =>
             job.back \subseteq {x \in job.giving.of.reopened : x[1] \in In(job.file)}
        /\ job.stage = "reopen" =>
             /\ job.held \subseteq In(job.file)
             /\ \A l \in In(job.file) : mark[l] = job.giving.by => l \in job.held
             /\ \A l \in own \cap job.held : mark[l] = job.giving.by

-----------------------------------------------------------------------------
(* The invariant: lines that a reviewer marked. *)

\* The answer b and those after it, and the reviewer.
Since(b, author) == author = Reviewer \/ (author.by = "explore" /\ author.id >= b)

\* The line was taken from the reviewer by the record of q.  Its answer goes together
\* with all that took or held the line since.
TakenBy(q, l, author) ==
    /\ recorded[q].set /\ <<l, Reviewer>> \in recorded[q].reopened
    /\ recorded[q].answer # 0 =>
         /\ author = Nobody \/ Since(recorded[q].answer, author)
         /\ \A p \in Ids : recorded[p].set /\ RankOf(p) > RankOf(q) =>
              \A x \in recorded[p].reopened : x[1] = l => Since(recorded[q].answer, x[2])

\* The cancellation that runs still comes to the record of q, and to this line of it.
Comes(q, l) ==
    \/ Entry(q) \in job.plan
    \/ /\ Giving /\ job.giving = Entry(q) /\ l[1] \in job.files
       /\ job.stage \in {"reopen", "restore"} /\ l[1] = job.file =>
            /\ <<l, Reviewer>> \in job.back
            /\ job.stage = "restore" => mark[l] = Nobody

\* Where no marks are being applied.
Returns(l) ==
    \/ mark[l] = Reviewer
    \/ \E q \in Ids :
         /\ TakenBy(q, l, mark[l])
         /\ job.op = "unmark" /\ job.then = "cancel" /\ recorded[q].answer \in Gone => Comes(q, l)

\* Where they are: the author before this job is known of a line it is at.
TakenUpTo(l, author) ==
    \/ author = Reviewer
    \/ \E q \in Ids :
         /\ TakenBy(q, l, author)
         /\ recorded[q].answer # 0 =>
              \A x \in job.reopened : x[1] = l => Since(recorded[q].answer, x[2])

AtFile(l) == job.stage # "next" /\ l[1] = job.file
ReturnsAfter(l) ==
    \/ /\ AtFile(l) /\ TakenUpTo(l, job.before[l])
       /\ mark[l] \in {job.before[l], Nobody, job.author}
    \/ ~AtFile(l) /\ TakenUpTo(l, mark[l])
    \/ ~AtFile(l) /\ <<l, Reviewer>> \in job.reopened /\ mark[l] \in {Nobody, job.author}

OwnInv == \A l \in own : IF job.op = "mark" THEN ReturnsAfter(l) ELSE Returns(l)

\* They are of files that no giving back missed.
FollowedInv == \A l \in own : l[1] \notin FilesOf(Missed)

-----------------------------------------------------------------------------
(* The invariant, and what it rests on. *)

MarksInv == RecordInv /\ MarkInv /\ HeldInv /\ DueInv /\ UnmarkInv /\ OwnInv

-----------------------------------------------------------------------------
(* The round. *)

\* Requests are numbered, none with 0.
LEMMA IdsAreNat == Ids \subseteq Nat /\ 0 \notin Ids /\ {0} \cup Ids \subseteq Nat
BY DEF Ids

\* The turn that an answer of the round is to.
LEMMA ReplyIs ==
    ASSUME NEW r, NEW n, WellFormed(r, n), NEW i \in DOMAIN r.answers
    PROVE  ReplyOf(r, r.answers[i].id) = r.answers[i].in_reply_to
<1> DEFINE a == r.answers
<1>1. /\ DOMAIN a = 1 .. Len(a) /\ Len(a) \in Nat
      /\ \A j \in DOMAIN a : a[j].id \in Nat
      /\ \A j, k \in DOMAIN a : j < k => a[j].id < a[k].id
  BY AnswerTypes DEF WellFormed, Numbered
<1> HIDE DEF a
<1>2. ASSUME NEW x \in Range(a), x.id = a[i].id
      PROVE  x = a[i]
  <2>1. PICK j \in DOMAIN a : x = a[j]
    BY DEF Range
  <2>2. i \in DOMAIN a
    BY DEF a
  <2>3. ~(i < j) /\ ~(j < i)
    BY <1>1, <1>2, <2>1, <2>2
  <2> QED
    BY <1>1, <2>1, <2>2, <2>3
<1>3. a[i] \in Range(a)
  BY DEF Range, a
<1>4. (CHOOSE x \in Range(a) : x.id = a[i].id) = a[i]
  BY <1>2, <1>3
<1> QED
  BY <1>4 DEF ReplyOf, a

\* It is one of the conversation, with a lower number.
LEMMA ReplyIsTurn ==
    ASSUME NEW r, NEW n, RoundOf(r, n), NEW b \in AnswerIds(r)
    PROVE  /\ ReplyOf(r, b) \in Ids /\ ReplyOf(r, b) < b /\ InConversation(r, ReplyOf(r, b))
           /\ b \in Ids /\ b <= n
<1>1. WellFormed(r, n) /\ r \in Round
  BY DEF RoundOf, WellFormed
<1>2. PICK i \in DOMAIN r.answers : r.answers[i].id = b
  BY DEF AnswerIds
<1>3. ReplyOf(r, b) = r.answers[i].in_reply_to
  BY <1>1, <1>2, ReplyIs
<1>4. r.answers[i].in_reply_to \in Ids /\ b \in Ids
  BY <1>1, <1>2, AnswerTypes
<1>5. r.answers[i].in_reply_to < r.answers[i].id
  BY DEF RoundOf
<1>6. InConversation(r, r.answers[i].in_reply_to)
  BY <1>1 DEF WellFormed, Replied, InConversation
<1>7. b <= n
  BY <1>1, <1>2 DEF WellFormed, Numbered
<1> QED
  BY <1>2, <1>3, <1>4, <1>5, <1>6, <1>7

\* Answers that stay where they are stay answers to the same turns.
LEMMA ReplyStands ==
    ASSUME NEW r, NEW n, WellFormed(r, n), NEW s, NEW m, WellFormed(s, m),
           NEW i \in DOMAIN r.answers, i \in DOMAIN s.answers, s.answers[i] = r.answers[i]
    PROVE  ReplyOf(s, r.answers[i].id) = ReplyOf(r, r.answers[i].id)
<1>1. ReplyOf(r, r.answers[i].id) = r.answers[i].in_reply_to
  BY ReplyIs
<1>2. ReplyOf(s, s.answers[i].id) = s.answers[i].in_reply_to
  BY ReplyIs
<1> QED
  BY <1>1, <1>2

\* A turn of the conversation is one of the requests made.
LEMMA TurnsAreMade ==
    ASSUME NEW r, NEW n, RoundOf(r, n), NEW q, InConversation(r, q)
    PROVE  q \in Ids /\ q <= n
<1>1. r \in Round
  BY DEF RoundOf, WellFormed
<1>2. PICK i \in DOMAIN r.conversation : r.conversation[i].request = q
  BY DEF InConversation
<1> QED
  BY <1>1, <1>2, ConversationTypes DEF RoundOf, WellFormed, Numbered

\* Submit, PostAnswer and the others, of a round: a record with the same requests.
LEMMA SameRound ==
    ASSUME NEW r, NEW n, RoundOf(r, n), NEW s, WellFormed(s, n),
           s.cancelled = r.cancelled, Turns(s) = Turns(r), s.answers = r.answers,
           \A q \in Turns(s) : s.turns[q].cancelled = r.turns[q].cancelled,
           \A i \in DOMAIN s.conversation :
             s.conversation[i].answer \in {0, s.conversation[i].request}
    PROVE  RoundOf(s, n)
BY DEF RoundOf, Made

\* The kickoff.
LEMMA KickoffRound ==
    RoundOf(PostKickoff(EmptyRound, 1), 1)
<1> DEFINE s == PostKickoff(EmptyRound, 1)
<1>1. WellFormed(s, 1) /\ 1 \in Ids
  BY MarksAssumption, RoundAssumption, KickoffIsWellFormed DEF Ids
<1>2. EmptyRound \in Round
  BY EmptyIsWellFormed DEF WellFormed
<1>3. Pended(EmptyRound, s, 1) /\ s.answers = EmptyRound.answers
  BY <1>1, <1>2, PendFields DEF PostKickoff
<1>4. /\ EmptyRound.cancelled = {} /\ EmptyRound.retry = 0 /\ EmptyRound.answers = <<>>
      /\ EmptyRound.conversation = <<>> /\ \A q \in Ids : EmptyRound.turns[q].attempt = 0
  BY DEF EmptyRound, NoTurn
<1> HIDE DEF s
<1>5. s.cancelled = {} /\ s.turns[1].cancelled = {} /\ s.answers = <<>> /\ s.conversation = <<>>
  BY <1>3, <1>4 DEF Pended, ToTell
<1>6. Turns(s) = {1}
  <2>1. s.turns[1].attempt = 1 /\ \A q \in Ids \ {1} : s.turns[q].attempt = 0
    BY <1>3, <1>4 DEF Pended
  <2> QED
    BY <1>1, <2>1 DEF Turns
<1>7. RoundOf(s, 1)
  BY <1>1, <1>5, <1>6 DEF RoundOf, Made
<1> QED
  BY <1>7 DEF s

\* An answer has the next number, and is the last.
LEMMA AnsweredRound ==
    ASSUME NEW r, NEW n, RoundOf(r, n), NEW q \in Ids, q - 1 \in Made(r),
           \A p \in Made(r) : p < q, NEW to \in Ids, MayPost(r, to)
    PROVE  LET s == PostAnswer(r, q, to)
           IN  /\ RoundOf(s, q) /\ q = n + 1
               /\ AnswerIds(s) = AnswerIds(r) \cup {q}
               /\ ReplyOf(s, q) = to
               /\ \A b \in AnswerIds(r) : ReplyOf(s, b) = ReplyOf(r, b) /\ b < q
               /\ s.conversation = r.conversation /\ s.implementations = r.implementations
<1> DEFINE s == PostAnswer(r, q, to)
<1>1. WellFormed(r, n) /\ r \in Round /\ n \in Ids /\ n \in Nat /\ q \in Nat /\ MaxIds \in Nat
  BY RoundAssumption, IdsAreNat DEF RoundOf, WellFormed
<1>2. q = n + 1 /\ n < MaxIds
  <2>1. n < q /\ q - 1 <= n
    BY DEF RoundOf
  <2>2. q <= MaxIds
    BY <1>1 DEF Ids
  <2> QED
    BY <1>1, <2>1, <2>2
<1>3. WellFormed(s, q)
  BY <1>1, <1>2, AnswerIsWellFormed
<1>4. /\ Pended(r, s, q) /\ AnswerIds(s) = AnswerIds(r) \cup {q}
      /\ s.answers = Append(r.answers, [id |-> q, in_reply_to |-> to])
  BY <1>1, AnswerFields
<1> HIDE DEF s
<1>5. /\ DOMAIN r.answers = 1 .. Len(r.answers) /\ Len(r.answers) \in Nat
      /\ DOMAIN s.answers = 1 .. (Len(r.answers) + 1)
      /\ \A i \in DOMAIN r.answers : s.answers[i] = r.answers[i]
      /\ s.answers[Len(r.answers) + 1] = [id |-> q, in_reply_to |-> to]
  BY <1>1, <1>4, AnswerTypes
<1>6. ReplyOf(s, q) = to
  <2>1. Len(r.answers) + 1 \in DOMAIN s.answers
    BY <1>5
  <2>2. ReplyOf(s, s.answers[Len(r.answers) + 1].id) = s.answers[Len(r.answers) + 1].in_reply_to
    BY <1>3, <2>1, ReplyIs
  <2> QED
    BY <1>5, <2>2
<1>7. ASSUME NEW b \in AnswerIds(r)
      PROVE  ReplyOf(s, b) = ReplyOf(r, b) /\ b < q
  <2>1. PICK i \in DOMAIN r.answers : r.answers[i].id = b
    BY DEF AnswerIds
  <2>2. i \in DOMAIN s.answers
    BY <1>5
  <2>3. ReplyOf(s, r.answers[i].id) = ReplyOf(r, r.answers[i].id)
    BY <1>1, <1>3, <1>5, <2>2, ReplyStands
  <2>4. b <= n /\ b \in Nat
    BY <1>1, IdsAreNat, ReplyIsTurn
  <2> QED
    BY <1>1, <1>2, <2>1, <2>3, <2>4
<1>8. Turns(s) = Turns(r) \cup {q} /\ s.cancelled = {}
  BY <1>4 DEF Pended, Turns
<1>9. /\ \A p \in Made(r) : p \in Nat /\ p <= q
      /\ \A p \in Turns(r) : \A o \in r.turns[p].cancelled : o \in Nat /\ o <= q
  <2>1. Made(r) \subseteq Nat
    BY <1>1, IdsAreNat DEF Made, Turns, Round
  <2>2. \A p \in Turns(r) : r.turns[p].cancelled \subseteq Nat
    BY <1>1, RecordTypes, IdsAreNat DEF Turns
  <2> QED
    BY <1>1, <1>2, <2>1, <2>2 DEF RoundOf
<1>10. \A p \in Turns(s) : \A o \in s.turns[p].cancelled : o <= q
  <2>1. ASSUME NEW p \in Turns(r), p # q
        PROVE  \A o \in s.turns[p].cancelled : o <= q
    BY <1>4, <1>9, <2>1 DEF Pended, Turns
  <2>2. \A o \in s.turns[q].cancelled : o <= q
    <3>1. s.turns[q].cancelled = ToTell(r)
      BY <1>4 DEF Pended
    <3>2. r.retry # 0 => r.retry \in Turns(r)
      BY <1>1 DEF WellFormed
    <3> QED
      BY <1>9, <3>1, <3>2 DEF ToTell, Made
  <2> QED
    BY <1>8, <2>1, <2>2
<1>11. \A i \in DOMAIN s.answers : s.answers[i].in_reply_to < s.answers[i].id
  <2>1. to < q
    <3>1. to <= n
      BY TurnsAreMade DEF MayPost
    <3> QED
      BY <1>1, <1>2, <3>1, IdsAreNat
  <2>2. ASSUME NEW i \in DOMAIN s.answers, i # Len(r.answers) + 1
        PROVE  s.answers[i].in_reply_to < s.answers[i].id
    <3>1. i \in DOMAIN r.answers
      BY <1>5, <2>2
    <3> QED
      BY <1>5, <3>1 DEF RoundOf
  <2> QED
    BY <1>5, <2>1, <2>2
<1>12. RoundOf(s, q)
  <2>1. q \in Made(s) /\ \A p \in Made(s) : p <= q
    BY <1>1, <1>8, <1>9 DEF Made
  <2>2. \A i \in DOMAIN s.conversation :
          s.conversation[i].answer \in {0, s.conversation[i].request}
    BY <1>4 DEF RoundOf, Pended
  <2> QED
    BY <1>3, <1>10, <1>11, <2>1, <2>2 DEF RoundOf
<1> QED
  BY <1>2, <1>4, <1>6, <1>7, <1>12 DEF s, Pended

\* The same request again.
LEMMA RetriedRound ==
    ASSUME NEW r, NEW n, RoundOf(r, n), NEW q \in Ids, MayPostAgain(r, q)
    PROVE  LET s == PostAgain(r, q)
           IN  /\ RoundOf(s, n) /\ q = n /\ s.conversation = r.conversation
               /\ s.answers = r.answers /\ s.implementations = r.implementations
<1> DEFINE s == PostAgain(r, q)
<1>1. WellFormed(r, n)
  BY DEF RoundOf
<1>2. /\ WellFormed(s, n)
      /\ s.conversation = r.conversation /\ s.answers = r.answers /\ s.cancelled = r.cancelled
      /\ s.implementations = r.implementations /\ Turns(s) = Turns(r)
      /\ s.turns[q].cancelled = r.turns[q].cancelled
      /\ \A o \in Ids \ {q} : s.turns[o] = r.turns[o]
  BY <1>1, AgainIsWellFormed
<1>3. q = n
  BY <1>1, IdsAreNat DEF MayPostAgain, WellFormed
<1> HIDE DEF s
<1>4. \A o \in Turns(s) : s.turns[o].cancelled = r.turns[o].cancelled
  BY <1>2 DEF Turns
<1>5. \A i \in DOMAIN s.conversation :
        s.conversation[i].answer \in {0, s.conversation[i].request}
  BY <1>2 DEF RoundOf
<1>6. RoundOf(s, n)
  BY <1>2, <1>4, <1>5, SameRound
<1> QED
  BY <1>2, <1>3, <1>6 DEF s

\* A round that waits for nobody.
LEMMA StoppedRound ==
    ASSUME NEW r, NEW n, RoundOf(r, n)
    PROVE  LET s == StopTurn(r)
           IN  /\ RoundOf(s, n) /\ s.conversation = r.conversation /\ s.answers = r.answers
               /\ s.implementations = r.implementations
<1> DEFINE s == StopTurn(r)
<1>1. WellFormed(r, n)
  BY DEF RoundOf
<1>2. /\ WellFormed(s, n) /\ s.turns = r.turns
      /\ s.conversation = r.conversation /\ s.answers = r.answers /\ s.cancelled = r.cancelled
      /\ s.implementations = r.implementations
  BY <1>1, StoppedIsWellFormed
<1> HIDE DEF s
<1>3. RoundOf(s, n)
  BY <1>2 DEF RoundOf, Made, Turns
<1> QED
  BY <1>2, <1>3 DEF s

\* An implementation request.
LEMMA AuthorizedRound ==
    ASSUME NEW r, NEW n, RoundOf(r, n), MayAuthorize(r, 1)
    PROVE  LET s == Authorize(r, 1)
           IN  RoundOf(s, n) /\ s.conversation = r.conversation /\ s.answers = r.answers
<1> DEFINE s == Authorize(r, 1)
<1>1. WellFormed(r, n) /\ 1 \in Deliveries
  BY MarksAssumption, RoundAssumption DEF RoundOf, Deliveries
<1>2. /\ WellFormed(s, n) /\ s.turns = r.turns
      /\ s.conversation = r.conversation /\ s.answers = r.answers /\ s.cancelled = r.cancelled
  BY <1>1, AuthorizeIsWellFormed
<1> HIDE DEF s
<1>3. RoundOf(s, n)
  BY <1>2 DEF RoundOf, Made, Turns
<1> QED
  BY <1>2, <1>3 DEF s

\* A turn of the agent joins the conversation; it follows the last answer, or there is
\* none yet.
LEMMA SubmittedRound ==
    ASSUME NEW r, NEW n, RoundOf(r, n), NEW q \in Ids, MaySubmit(r, q), NEW question \in BOOLEAN
    PROVE  LET s == Submit(r, q, question)
           IN  /\ RoundOf(s, n) /\ s.answers = r.answers /\ s.implementations = r.implementations
               /\ ~InConversation(r, q)
               /\ \A p : InConversation(s, p) <=> InConversation(r, p) \/ p = q
               /\ r.turns[q].answer => q \in AnswerIds(r) /\ \A b \in AnswerIds(r) : b <= q
               /\ ~r.turns[q].answer => AnswerIds(r) = {}
<1> DEFINE s == Submit(r, q, question)
           answer == IF r.turns[q].answer THEN q ELSE 0
           t == [request |-> q, next |-> question, answer |-> answer]
           l == Len(r.conversation) + 1
<1>1. WellFormed(r, n) /\ r \in Round /\ n \in Nat /\ q \in Nat /\ q # 0
  BY IdsAreNat DEF RoundOf, WellFormed
<1>2. /\ WellFormed(s, n) /\ s.turns = r.turns /\ s.answers = r.answers
      /\ s.cancelled = r.cancelled /\ s.implementations = r.implementations /\ r.retry = q
  BY <1>1, SubmitIsWellFormed
<1>3. s.conversation = Append(r.conversation, t)
  BY <1>1 DEF Submit, Round
<1>4. t \in ConversationTurn /\ t.request = q /\ t.answer \in {0, q}
  BY DEF ConversationTurn
<1> HIDE DEF s, t, answer
<1>5. /\ l \in DOMAIN s.conversation /\ s.conversation[l] = t
      /\ \A i \in DOMAIN r.conversation :
           i \in DOMAIN s.conversation /\ s.conversation[i] = r.conversation[i]
      /\ \A i \in DOMAIN s.conversation : i = l \/ i \in DOMAIN r.conversation
  BY <1>1, <1>3, <1>4, Appended, ConversationTypes
<1> HIDE DEF l
<1>6. \A p : InConversation(s, p) <=> InConversation(r, p) \/ p = q
  BY <1>4, <1>5 DEF InConversation
<1>7. \A i \in DOMAIN s.conversation :
        s.conversation[i].answer \in {0, s.conversation[i].request}
  BY <1>4, <1>5 DEF RoundOf
<1>8. RoundOf(s, n)
  BY <1>2, <1>7 DEF RoundOf, Made, Turns
<1>9. q = n
  BY <1>1, <1>2 DEF WellFormed
<1>10. r.turns[q].answer => q \in AnswerIds(r) /\ \A b \in AnswerIds(r) : b <= q
  BY <1>1, <1>9, ReplyIsTurn DEF WellFormed
<1>11. ~r.turns[q].answer => AnswerIds(r) = {}
  BY <1>1, <1>2 DEF WellFormed, AnswerIds
<1> QED
  BY <1>2, <1>6, <1>8, <1>10, <1>11 DEF s, MaySubmit

\* Answers go, with the turns that followed them and no others.
LEMMA CancelledRound ==
    ASSUME NEW r, NEW n, RoundOf(r, n), NEW a, MayCancelFrom(r, a)
    PROVE  LET s == CancelAnswersFrom(r, a)
               gone == AnswersFrom(r, a)
           IN  /\ RoundOf(s, n) /\ AnswerIds(s) = AnswerIds(r) \ gone
               /\ gone = {b \in AnswerIds(r) : b >= a} /\ a \in Ids
               /\ \A b \in AnswerIds(s) : ReplyOf(s, b) = ReplyOf(r, b)
               /\ \A p : InConversation(r, p) /\ p \notin gone => InConversation(s, p)
               /\ s.implementations = r.implementations
<1> DEFINE s == CancelAnswersFrom(r, a)
           gone == AnswersFrom(r, a)
<1>1. WellFormed(r, n) /\ r \in Round /\ a \in AnswerIds(r)
  BY DEF RoundOf, WellFormed, MayCancelFrom
<1>2. /\ WellFormed(s, n) /\ AnswerIds(s) = AnswerIds(r) \ gone /\ Turns(s) = Turns(r) \ gone
  BY <1>1, CancelIsWellFormed
<1>3. /\ s.answers = SubSeq(r.answers, 1, From(r, a) - 1)
      /\ s.conversation = KeptTurns(r, gone)
      /\ s.cancelled = r.cancelled \cup gone
           \cup (IF r.retry \in gone THEN r.turns[r.retry].cancelled ELSE {})
      /\ \A q \in Ids : s.turns[q] = IF q \in gone THEN NoTurn ELSE r.turns[q]
      /\ s.implementations = r.implementations
  BY <1>1, CancelFields
<1>4. /\ From(r, a) \in DOMAIN r.answers
      /\ gone = {b \in AnswerIds(r) : b >= a}
  BY <1>1, AnswersGo
<1>5. /\ \A i \in DOMAIN s.conversation :
           /\ i \in DOMAIN r.conversation /\ s.conversation[i] = r.conversation[i]
           /\ r.conversation[i].answer \notin gone
      /\ \A i \in DOMAIN r.conversation :
           r.conversation[i].answer \notin gone => i \in DOMAIN s.conversation
  BY <1>1, <1>3, KeptAreFirst
<1>6. AnswerIds(r) \subseteq Ids /\ 0 \notin gone /\ a \in Ids /\ \A b \in AnswerIds(r) : b <= n
  BY <1>1, <1>4, AnswerTypes, IdsAreNat, ReplyIsTurn
<1> HIDE DEF s, gone
<1>7. \A i \in DOMAIN s.answers : i \in DOMAIN r.answers /\ s.answers[i] = r.answers[i]
  BY <1>1, <1>3, <1>4, AnswerTypes
<1>8. ASSUME NEW b \in AnswerIds(s)
      PROVE  ReplyOf(s, b) = ReplyOf(r, b)
  <2>1. PICK i \in DOMAIN s.answers : s.answers[i].id = b
    BY DEF AnswerIds
  <2>2. i \in DOMAIN r.answers /\ s.answers[i] = r.answers[i]
    BY <1>7
  <2> QED
    BY <1>1, <1>2, <2>1, <2>2, ReplyStands
<1>9. ASSUME NEW p, InConversation(r, p), p \notin gone
      PROVE  InConversation(s, p)
  <2>1. PICK i \in DOMAIN r.conversation : r.conversation[i].request = p
    BY <1>9 DEF InConversation
  <2>2. r.conversation[i].answer \notin gone
    BY <1>6, <1>9, <2>1 DEF RoundOf
  <2>3. i \in DOMAIN s.conversation /\ s.conversation[i] = r.conversation[i]
    BY <1>5, <2>1, <2>2
  <2> QED
    BY <2>1, <2>3 DEF InConversation
<1>10. \A i \in DOMAIN s.conversation :
         s.conversation[i].answer \in {0, s.conversation[i].request}
  BY <1>5 DEF RoundOf
<1>11. \A i \in DOMAIN s.answers : s.answers[i].in_reply_to < s.answers[i].id
  BY <1>7 DEF RoundOf
<1>12. n \in Made(s) /\ \A q \in Made(s) : q <= n
  <2>1. n \in Made(s)
    BY <1>2, <1>3 DEF RoundOf, Made
  <2>2. \A q \in gone : q <= n
    BY <1>4, <1>6
  <2>3. r.retry \in gone => \A q \in r.turns[r.retry].cancelled : q <= n
    BY <1>1, <1>6 DEF RoundOf, WellFormed
  <2> QED
    BY <1>2, <1>3, <2>1, <2>2, <2>3 DEF RoundOf, Made
<1>13. \A q \in Turns(s) : \A p \in s.turns[q].cancelled : p <= n
  BY <1>2, <1>3 DEF RoundOf, Turns
<1>14. RoundOf(s, n)
  BY <1>2, <1>10, <1>11, <1>12, <1>13 DEF RoundOf
<1> QED
  BY <1>2, <1>3, <1>4, <1>6, <1>8, <1>9, <1>14 DEF s, gone

-----------------------------------------------------------------------------
(* Lines, authors and jobs. *)

\* Lines are of files.
LEMMA LineTypes ==
    /\ \A l \in Lines : l[1] \in Files
    /\ \A S \in SUBSET Lines : FilesOf(S) \subseteq Files
    /\ \A S \in SUBSET (Lines \X Authors) : {x[1] : x \in S} \in SUBSET Lines
    /\ \A f : In(f) \in SUBSET Lines /\ \A l \in In(f) : l[1] = f
    /\ \A l \in Lines : l \in In(l[1])
<1>1. \A l \in Lines : l[1] \in Files
  BY DEF Lines
<1>2. \A S \in SUBSET (Lines \X Authors) : {x[1] : x \in S} \in SUBSET Lines
  OBVIOUS
<1> QED
  BY <1>1, <1>2 DEF FilesOf, In

\* Who may hold a line.
LEMMA AuthorTypes ==
    /\ Reviewer \in Authors /\ Nobody \notin Authors /\ ~IsAgent(Nobody) /\ ~IsAgent(Reviewer)
    /\ \A a \in Ids : Explore(a) \in Authors /\ ExploreRead(a) \in Authors
    /\ \A a \in Ids : IsAgent(Explore(a)) /\ IsAgent(ExploreRead(a))
    /\ \A q, b : b = 0 => AuthorOf(q, b) = ExploreRead(q)
    /\ \A q, b : b # 0 => AuthorOf(q, b) = Explore(b)
    /\ \A a : Explore(a).by = "explore" /\ Explore(a).id = a
    /\ \A q : ExploreRead(q).by = "read" /\ ExploreRead(q).id = q
    /\ \A x \in Authors : \/ x = Reviewer
                          \/ x.by = "explore" /\ x.id \in Ids /\ x = Explore(x.id)
                          \/ x.by = "read" /\ x.id \in Ids /\ x = ExploreRead(x.id)
<1>1. Nobody.by = "nobody" /\ Reviewer.by = "reviewer"
  BY DEF Nobody, Reviewer
<1>2. /\ \A a : Explore(a).by = "explore" /\ Explore(a).id = a
      /\ \A q : ExploreRead(q).by = "read" /\ ExploreRead(q).id = q
  BY DEF Explore, ExploreRead
<1>3. Nobody \notin Authors
  BY <1>1, <1>2 DEF Authors
<1>4. ~IsAgent(Nobody) /\ ~IsAgent(Reviewer)
  BY <1>1 DEF IsAgent
<1>5. \A a \in Ids : IsAgent(Explore(a)) /\ IsAgent(ExploreRead(a))
  BY <1>2 DEF IsAgent
<1>6. /\ \A q, b : b = 0 => AuthorOf(q, b) = ExploreRead(q)
      /\ \A q, b : b # 0 => AuthorOf(q, b) = Explore(b)
  BY DEF AuthorOf
<1>7. Reviewer \in Authors /\ \A a \in Ids : Explore(a) \in Authors /\ ExploreRead(a) \in Authors
  BY DEF Authors
<1>8. ASSUME NEW x \in Authors
      PROVE  \/ x = Reviewer
             \/ x.by = "explore" /\ x.id \in Ids /\ x = Explore(x.id)
             \/ x.by = "read" /\ x.id \in Ids /\ x = ExploreRead(x.id)
  <2>1. CASE x = Reviewer
    BY <2>1
  <2>2. ASSUME NEW a \in Ids, x = Explore(a)
        PROVE  x.by = "explore" /\ x.id \in Ids /\ x = Explore(x.id)
    BY <1>2, <2>2
  <2>3. ASSUME NEW a \in Ids, x = ExploreRead(a)
        PROVE  x.by = "read" /\ x.id \in Ids /\ x = ExploreRead(x.id)
    BY <1>2, <2>3
  <2> QED
    BY <2>1, <2>2, <2>3 DEF Authors
<1> QED
  BY <1>2, <1>3, <1>4, <1>5, <1>6, <1>7, <1>8

\* The author of a turn's marks.
LEMMA AuthorOfTypes ==
    ASSUME NEW q \in Ids, NEW b \in {0} \cup Ids
    PROVE  AuthorOf(q, b) \in Authors /\ IsAgent(AuthorOf(q, b))
BY AuthorTypes

\* What the session is in the middle of.
LEMMA JobIs ==
    ASSUME JobTypes
    PROVE  /\ job.op = "idle" <=> job = Idle
           /\ job.op = "mark" <=> job \in MarkJobs
           /\ job.op = "unmark" <=> job \in UnmarkJobs
           /\ job.op = "mark" /\ job.stage # "next" =>
                job.file \in job.todo /\ job.before \in [Lines -> Holders]
           /\ job.op = "unmark" =>
                /\ job.stage # "poll" => job.giving \in Entries
                /\ job.stage \in {"reopen", "restore"} => job.file \in job.files
                /\ job.then = "cancel" => MayCancelFrom(saved, job.answer)
                /\ job.then = "implement" => MayAuthorize(saved, 1)
<1>1. Idle.op = "idle"
  BY DEF Idle
<1>2. \A j \in MarkJobs : j.op = "mark"
  BY DEF MarkJobs
<1>3. \A j \in UnmarkJobs : j.op = "unmark"
  BY DEF UnmarkJobs
<1> QED
  BY <1>1, <1>2, <1>3 DEF JobTypes

\* The fields of a job that marks.
LEMMA MarkFields ==
    ASSUME NEW j \in MarkJobs
    PROVE  /\ j.op = "mark" /\ j.turn \in Ids /\ j.author \in Authors
           /\ j.answer \in {0} \cup Ids /\ j.ask \in Asks /\ j.todo \subseteq Files
           /\ j.stage \in {"next", "reopen", "accept", "after"}
           /\ j.reviewed \in SUBSET Lines /\ j.reopened \in SUBSET (Lines \X Authors)
BY DEF MarkJobs

\* The fields of a job that gives back.
LEMMA UnmarkFields ==
    ASSUME NEW j \in UnmarkJobs
    PROVE  /\ j.op = "unmark" /\ j.then \in {"cancel", "implement"}
           /\ j.answer \in {0} \cup Ids /\ j.plan \in SUBSET Entries
           /\ j.stage \in {"poll", "files", "reopen", "restore"}
           /\ j.files \in SUBSET Files /\ j.held \in SUBSET Lines
           /\ j.back \in SUBSET (Lines \X Authors) /\ j.failed \in BOOLEAN
           /\ j.missed \in SUBSET (Files \X Authors)
BY DEF UnmarkJobs

\* The fields of what the plan has of a record, and of the record.
LEMMA EntryFields ==
    ASSUME NEW x \in Entries
    PROVE  /\ x.turn \in Ids /\ x.by \in Authors /\ x.of \in TurnMarks /\ x.rank \in Nat
           /\ x.of.reviewed \in SUBSET Lines /\ x.of.reopened \in SUBSET (Lines \X Authors)
<1>1. x.turn \in Ids /\ x.by \in Authors /\ x.of \in TurnMarks /\ x.rank \in Nat
  BY DEF Entries
<1>2. \A m \in TurnMarks :
        m.reviewed \in SUBSET Lines /\ m.reopened \in SUBSET (Lines \X Authors)
  BY DEF TurnMarks
<1> QED
  BY <1>1, <1>2

\* Applying a turn's marks starts a job.
LEMMA ApplyMarksTypes ==
    ASSUME NEW q \in Ids, NEW answer \in {0} \cup Ids, NEW ask \in Asks,
           ApplyMarks(q, answer, ask)
    PROVE  /\ job' \in MarkJobs /\ job'.stage = "next" /\ job'.turn = q
           /\ job'.answer = answer /\ job'.author = AuthorOf(q, answer)
           /\ job'.reviewed = {} /\ job'.reopened = {}
<1>1. PICK files \in SUBSET FilesOf(ask.reviewed \cup ask.reopened) :
            job' = MarkJob(q, answer, ask, files)
  BY DEF ApplyMarks
<1>2. files \in SUBSET Files
  <2>1. ask.reviewed \cup ask.reopened \in SUBSET Lines
    BY DEF Asks
  <2> QED
    BY <2>1, LineTypes
<1>3. MarkJob(q, answer, ask, files) \in MarkJobs
  BY <1>2, AuthorOfTypes DEF MarkJob, MarkJobs
<1> QED
  BY <1>1, <1>3 DEF MarkJob

\* A job that gives back starts with a plan.
LEMMA UnmarkJobTypes ==
    ASSUME NEW then \in {"cancel", "implement"}, NEW answer \in {0} \cup Ids,
           NEW plan \in SUBSET Entries, NEW j, j = UnmarkJob(then, answer, plan)
    PROVE  /\ j \in UnmarkJobs /\ j.op = "unmark" /\ j.stage = "poll" /\ j.plan = plan
           /\ j.then = then /\ j.answer = answer /\ ~j.failed /\ j.missed = {}
BY DEF UnmarkJob, UnmarkJobs

\* The tracker's edits.
LEMMA EditTypes ==
    ASSUME NEW m \in [Lines -> Holders], NEW picked, NEW author \in Holders
    PROVE  /\ ReopenLines(m, picked) \in [Lines -> Holders]
           /\ \A l \in Lines : ReopenLines(m, picked)[l] = IF l \in picked THEN Nobody ELSE m[l]
           /\ AcceptLines(m, picked, author) \in [Lines -> Holders]
           /\ \A l \in Lines : AcceptLines(m, picked, author)[l] =
                                 IF l \in picked /\ m[l] = Nobody THEN author ELSE m[l]
BY DEF ReopenLines, AcceptLines, Holders

\* What the change c of a file holds, told line by line.
ChangeIs(c, f, before, after, author) ==
    /\ c.reviewed \in SUBSET Lines /\ c.reopened \in SUBSET (Lines \X Authors)
    /\ \A l \in In(f) : l \in c.reviewed <=>
         \/ before[l] = Nobody /\ after[l] # Nobody
         \/ after[l] = author /\ before[l] \notin {Nobody, author}
    /\ \A l \in c.reviewed : l[1] = f
    /\ \A x \in c.reopened :
         /\ x[1] \in In(f) /\ x[1][1] = f /\ x[2] = before[x[1]]
         /\ before[x[1]] # Nobody /\ after[x[1]] # before[x[1]]
    /\ \A l \in In(f) : before[l] # Nobody /\ after[l] # before[l] =>
         <<l, before[l]>> \in c.reopened

\* What changed in a file, of lines that went from one author to another.
LEMMA ChangeTypes ==
    ASSUME NEW f, NEW before \in [Lines -> Holders], NEW after \in [Lines -> Holders],
           NEW author \in Authors, NEW c, c = Between(f, before, after, author)
    PROVE  ChangeIs(c, f, before, after, author)
<1> DEFINE S == {k \in In(f) : before[k] # Nobody /\ after[k] # before[k]}
<1>1. In(f) \in SUBSET Lines /\ \A l \in In(f) : l[1] = f
  BY LineTypes
<1>2. /\ c.reviewed = {l \in In(f) : \/ before[l] = Nobody /\ after[l] # Nobody
                                     \/ after[l] = author /\ before[l] \notin {Nobody, author}}
      /\ c.reopened = {<<l, before[l]>> : l \in S}
  BY DEF Between
<1>3. \A l \in S : l \in In(f) /\ l \in Lines /\ before[l] \in Authors
  BY <1>1 DEF Holders
<1>4. c.reopened \in SUBSET (Lines \X Authors)
  BY <1>2, <1>3
<1>5. \A x \in c.reopened :
         /\ x[1] \in In(f) /\ x[1][1] = f /\ x[2] = before[x[1]]
         /\ before[x[1]] # Nobody /\ after[x[1]] # before[x[1]]
  <2> TAKE x \in c.reopened
  <2>1. PICK l \in S : x = <<l, before[l]>>
    BY <1>2
  <2>2. x[1] = l /\ x[2] = before[l]
    BY <2>1
  <2> QED
    BY <1>1, <2>1, <2>2
<1>6. \A l \in In(f) : before[l] # Nobody /\ after[l] # before[l] =>
                    <<l, before[l]>> \in c.reopened
  BY <1>2
<1> QED
  BY <1>1, <1>2, <1>4, <1>5, <1>6 DEF ChangeIs

-----------------------------------------------------------------------------
(* The types hold in every state, whatever job the process ends in. *)

\* The marks and what the round records of them.
MarkTypes ==
    /\ board \subseteq Ids /\ asked \in [Ids -> Asks]
    /\ mark \in [Lines -> Holders] /\ recorded \in [Ids -> TurnMarks]
    /\ own \subseteq Lines /\ left \subseteq Files \X Authors

TypeInv == RoundInv /\ MarkTypes /\ JobTypes

\* They are the types of the run.
LEMMA TypesHold ==
    ASSUME TypeInv
    PROVE  TypeOK
<1>1. saved \in Round
  BY DEF TypeInv, RoundInv, RoundOf, WellFormed
<1>2. job.op \in {"idle", "mark", "unmark"}
  BY DEF TypeInv, JobTypes, Idle, MarkJobs, UnmarkJobs
<1> QED
  BY <1>1, <1>2 DEF TypeInv, MarkTypes, TypeOK, TurnMarks, Holders

\* Nothing is marked at first, and no question asks for marks.
LEMMA TypesAtFirst ==
    Init => TypeInv
<1> SUFFICES ASSUME Init PROVE TypeInv
  OBVIOUS
<1>1. 1 \in Ids
  BY MarksAssumption, RoundAssumption DEF Ids
<1>2. RoundInv
  BY <1>1, KickoffRound DEF Init, RoundInv
<1>3. NoAsk \in Asks
  <2>1. Cardinality({}) = 0
    BY FS_EmptySet
  <2>2. {} \in SUBSET Lines
    OBVIOUS
  <2>3. 0 + 0 <= MaxNamed
    BY MarksAssumption
  <2> QED
    BY <2>1, <2>2, <2>3 DEF NoAsk, Asks
<1>4. NoMarks \in TurnMarks /\ Nobody \in Holders
  BY DEF NoMarks, TurnMarks, Holders
<1>5. MarkTypes
  BY <1>3, <1>4 DEF Init, MarkTypes
<1> QED
  BY <1>2, <1>5 DEF Init, TypeInv, JobTypes

\* A turn of the agent.
LEMMA AgentTurnTypes ==
    ASSUME TypeInv, NEW question \in BOOLEAN, NEW ask \in Asks, AgentTurn(question, ask)
    PROVE  /\ TypeInv'
           /\ \/ job' = Idle
              \/ ApplyMarks(saved.outstanding,
                            IF saved.turns[saved.outstanding].answer
                            THEN saved.outstanding ELSE 0, ask)
<1> DEFINE q == saved.outstanding
           answer == IF saved.turns[q].answer THEN q ELSE 0
<1>1. PICK n : RoundOf(saved, n)
  BY DEF TypeInv, RoundInv
<1>2. q \in Ids /\ MaySubmit(saved, q) /\ saved' = Submit(saved, q, question)
  <2>1. saved \in Round
    BY <1>1 DEF RoundOf, WellFormed
  <2> QED
    BY <2>1 DEF AgentTurn, Round
<1>3. RoundOf(saved', n)
  BY <1>1, <1>2, SubmittedRound
<1>4. RoundInv'
  BY <1>3, <1>1 DEF RoundInv, RoundOf
<1>5. MarkTypes'
  BY <1>2 DEF AgentTurn, TypeInv, MarkTypes
<1>6. job' = Idle \/ ApplyMarks(q, answer, ask)
  BY DEF AgentTurn
<1>7. JobTypes'
  <2>1. CASE job' = Idle
    BY <2>1 DEF JobTypes
  <2>2. CASE ApplyMarks(q, answer, ask)
    <3>1. answer \in {0} \cup Ids
      BY <1>2
    <3>2. job' \in MarkJobs /\ job'.stage = "next"
      BY <1>2, <2>2, <3>1, ApplyMarksTypes
    <3> QED
      BY <3>2 DEF JobTypes
  <2> QED
    BY <1>6, <2>1, <2>2
<1> QED
  BY <1>4, <1>5, <1>6, <1>7 DEF TypeInv

\* The end of a turn's delivery.
LEMMA DeliverTypes ==
    ASSUME TypeInv, NEW r, NEW n, RoundOf(r, n), NEW q \in Ids, NEW boards,
           r.turns[q].answer => q \in AnswerIds(r), Deliver(r, q, boards)
    PROVE  \/ job' = Idle
           \/ /\ q \in AnswerIds(r) /\ ~recorded[ReplyOf(r, q)].set
              /\ job' \in MarkJobs /\ job'.stage = "next" /\ job'.turn = ReplyOf(r, q)
              /\ job'.answer = q /\ job'.author = AuthorOf(ReplyOf(r, q), q)
              /\ job'.reviewed = {} /\ job'.reopened = {}
<1>1. CASE r.turns[q].answer /\ AnswersMarks(r, q, boards)
  <2>1. ApplyMarks(ReplyOf(r, q), q, asked[ReplyOf(r, q)]) /\ ~recorded[ReplyOf(r, q)].set
    BY <1>1 DEF Deliver, AnswersMarks
  <2>2. ReplyOf(r, q) \in Ids
    BY <1>1, ReplyIsTurn
  <2>3. asked[ReplyOf(r, q)] \in Asks
    BY <2>2 DEF TypeInv, MarkTypes
  <2> QED
    BY <1>1, <2>1, <2>2, <2>3, ApplyMarksTypes
<1>2. CASE ~(r.turns[q].answer /\ AnswersMarks(r, q, boards))
  BY <1>2 DEF Deliver
<1> QED
  BY <1>1, <1>2

\* An answer of the reviewer.
LEMMA AnswerTypesHold ==
    ASSUME TypeInv, NEW q \in Ids, NEW to \in Ids, NEW atBoard \in BOOLEAN,
           Answer(q, to, atBoard)
    PROVE  TypeInv'
<1>1. PICK n : RoundOf(saved, n)
  BY DEF TypeInv, RoundInv
<1>2. /\ MayPost(saved, to) /\ saved' = PostAnswer(saved, q, to)
      /\ q - 1 \in Made(saved) /\ \A p \in Made(saved) : p < q
  BY DEF Answer, IsNext, Made
<1>3. RoundOf(saved', q) /\ AnswerIds(saved') = AnswerIds(saved) \cup {q}
  BY <1>1, <1>2, AnsweredRound
<1>4. RoundInv'
  BY <1>3 DEF RoundInv
<1>5. board' \subseteq Ids
  BY DEF Answer, TypeInv, MarkTypes
<1>6. MarkTypes'
  BY <1>5 DEF Answer, TypeInv, MarkTypes
<1>7. Deliver(saved', q, board')
  BY <1>2 DEF Answer
<1>8. JobTypes'
  BY <1>3, <1>7, DeliverTypes DEF JobTypes
<1> QED
  BY <1>4, <1>6, <1>8 DEF TypeInv

\* Retry of the turn.
LEMMA RetryTypesHold ==
    ASSUME TypeInv, Retry
    PROVE  TypeInv'
<1> DEFINE q == saved.retry
<1>1. PICK n : RoundOf(saved, n)
  BY DEF TypeInv, RoundInv
<1>2. WellFormed(saved, n) /\ saved \in Round
  BY <1>1 DEF RoundOf, WellFormed
<1>3. q \in Ids /\ MayPostAgain(saved, q) /\ saved' = PostAgain(saved, q)
  BY <1>2 DEF Retry, Round
<1>4. RoundOf(saved', n) /\ q = n
  BY <1>1, <1>3, RetriedRound
<1>5. RoundInv'
  BY <1>1, <1>4 DEF RoundInv, RoundOf
<1>6. MarkTypes'
  BY DEF Retry, TypeInv, MarkTypes
<1>7. Deliver(saved', q, board)
  BY DEF Retry
<1>8. saved'.turns[q].answer => q \in AnswerIds(saved')
  BY <1>3, <1>4 DEF RoundOf, WellFormed
<1>9. JobTypes'
  BY <1>3, <1>4, <1>7, <1>8, DeliverTypes DEF JobTypes
<1> QED
  BY <1>5, <1>6, <1>9 DEF TypeInv

\* What a cancelled answer b has to give back of one record.
EntryOf(q, b) == [turn |-> q, by |-> Explore(b), of |-> recorded[q],
                  rank |-> IF q = b THEN 2 * b + 1 ELSE 2 * b]

\* What it has to give back of them all.
LEMMA RecordsAre ==
    ASSUME TypeInv, NEW b \in AnswerIds(saved), NEW gone
    PROVE  /\ RecordsOf(saved, b, gone) \in SUBSET Entries
           /\ \A x \in RecordsOf(saved, b, gone) :
                \E q \in Ids :
                  /\ q \in {ReplyOf(saved, b), b} /\ recorded[q].set
                  /\ q # b => recorded[q].answer = b
                  /\ q = b => recorded[q].answer \notin gone \ {b}
                  /\ x = EntryOf(q, b)
           /\ \A q \in {ReplyOf(saved, b), b} :
                recorded[q].set /\ recorded[q].answer = b =>
                  EntryOf(q, b) \in RecordsOf(saved, b, gone)
<1> DEFINE to == ReplyOf(saved, b)
           S == {p \in {to, b} : /\ recorded[p].set
                                 /\ p = to => recorded[p].answer = b
                                 /\ p = b => recorded[p].answer \notin gone \ {b}}
<1>1. to \in Ids /\ b \in Ids /\ to < b
  BY ReplyIsTurn DEF TypeInv, RoundInv
<1>2. RecordsOf(saved, b, gone) = {EntryOf(q, b) : q \in S}
  BY DEF RecordsOf, EntryOf
<1>3. \A q \in S : q \in Ids /\ EntryOf(q, b) \in Entries
  <2> TAKE q \in S
  <2>1. q \in Ids /\ Explore(b) \in Authors /\ recorded[q] \in TurnMarks
    BY <1>1, AuthorTypes DEF TypeInv, MarkTypes
  <2>2. (IF q = b THEN 2 * b + 1 ELSE 2 * b) \in Nat
    BY <1>1, IdsAreNat
  <2> QED
    BY <2>1, <2>2 DEF Entries, EntryOf
<1>4. \A q \in {to, b} : recorded[q].set /\ recorded[q].answer = b => q \in S
  OBVIOUS
<1> QED
  BY <1>2, <1>3, <1>4

\* Cancel, up to the first record.
LEMMA CancelTypesHold ==
    ASSUME TypeInv, NEW a \in Ids, CancelFrom(a)
    PROVE  TypeInv'
<1> DEFINE gone == AnswersFrom(saved, a)
           plan == UNION {RecordsOf(saved, b, gone) : b \in gone}
<1>1. PICK n : RoundOf(saved, n)
  BY DEF TypeInv, RoundInv
<1>2. MayCancelFrom(saved, a) /\ job' = UnmarkJob("cancel", a, plan) /\ saved' = saved
  BY DEF CancelFrom, round
<1>3. gone \subseteq AnswerIds(saved)
  BY <1>1, <1>2, CancelledRound
<1>4. plan \in SUBSET Entries
  <2>1. \A b \in gone : RecordsOf(saved, b, gone) \in SUBSET Entries
    BY <1>3, RecordsAre
  <2> QED
    BY <2>1
<1>5. job' \in UnmarkJobs /\ job'.stage = "poll" /\ job'.then = "cancel" /\ job'.answer = a
  <2>1. PICK entries \in SUBSET Entries : job' = UnmarkJob("cancel", a, entries)
    BY <1>2, <1>4
  <2>2. a \in {0} \cup Ids
    OBVIOUS
  <2> QED
    <3>1. "cancel" \in {"cancel", "implement"}
      OBVIOUS
    <3> QED
      BY <2>1, <2>2, <3>1, UnmarkJobTypes
<1>6. JobTypes'
  BY <1>2, <1>5 DEF JobTypes
<1>7. RoundInv' /\ MarkTypes'
  BY DEF CancelFrom, round, TypeInv, RoundInv, MarkTypes
<1> QED
  BY <1>6, <1>7 DEF TypeInv

\* Implement, up to the first record.
LEMMA ImplementTypesHold ==
    ASSUME TypeInv, Implement
    PROVE  TypeInv'
<1> DEFINE entry(q) == [turn |-> q, by |-> AuthorOf(q, recorded[q].answer),
                        of |-> HeldOnly(recorded[q]), rank |-> 0]
           plan == {entry(q) : q \in {p \in Ids : recorded[p].set}}
<1>1. PICK n : RoundOf(saved, n)
  BY DEF TypeInv, RoundInv
<1>2. MayAuthorize(saved, 1)
  BY DEF Implement
<1>3. \A q \in Ids : entry(q) \in Entries
  <2> TAKE q \in Ids
  <2>1. recorded[q] \in TurnMarks
    BY DEF TypeInv, MarkTypes
  <2>2. HeldOnly(recorded[q]) \in TurnMarks /\ recorded[q].answer \in {0} \cup Ids
    BY <2>1 DEF HeldOnly, TurnMarks
  <2>3. AuthorOf(q, recorded[q].answer) \in Authors
    BY <2>2, AuthorOfTypes
  <2> QED
    BY <2>2, <2>3 DEF Entries
<1>4. plan \in SUBSET Entries
  BY <1>3
<1>5. MarkTypes'
  BY DEF Implement, TypeInv, MarkTypes
<1> HIDE DEF entry
<1>6. CASE AtBoard(saved)
  <2>1. job' = UnmarkJob("implement", 0, plan) /\ saved' = saved
    BY <1>6 DEF Implement, entry
  <2>2. job' \in UnmarkJobs /\ job'.stage = "poll" /\ job'.then = "implement"
    <3>1. PICK entries \in SUBSET Entries : job' = UnmarkJob("implement", 0, entries)
      BY <1>4, <2>1
    <3> QED
      BY <3>1, UnmarkJobTypes
  <2>3. JobTypes'
    BY <1>2, <2>1, <2>2 DEF JobTypes
  <2>4. RoundInv'
    BY <2>1 DEF TypeInv, RoundInv
  <2> QED
    BY <1>5, <2>3, <2>4 DEF TypeInv
<1>7. CASE ~AtBoard(saved)
  <2>1. saved' = Authorize(saved, 1) /\ job' = Idle
    BY <1>7 DEF Implement
  <2>2. RoundInv'
    BY <1>1, <1>2, <2>1, AuthorizedRound DEF RoundInv, RoundOf
  <2> QED
    BY <1>5, <2>1, <2>2 DEF TypeInv, JobTypes
<1> QED
  BY <1>6, <1>7

\* Another process.
LEMMA RestartTypesHold ==
    ASSUME TypeInv, Restart
    PROVE  TypeInv'
<1>1. PICK n : RoundOf(saved, n)
  BY DEF TypeInv, RoundInv
<1>2. RoundOf(saved', n)
  BY <1>1, StoppedRound DEF Restart
<1>3. RoundInv'
  BY <1>1, <1>2 DEF RoundInv, RoundOf
<1> QED
  BY <1>3 DEF Restart, TypeInv, MarkTypes, JobTypes

\* Applying the marks to a file.
LEMMA MarkingTypesHold ==
    ASSUME TypeInv, Marking
    PROVE  TypeInv'
<1>1. mark \in [Lines -> Holders] /\ recorded \in [Ids -> TurnMarks]
  BY DEF TypeInv, MarkTypes
<1>2. JobTypes
  BY DEF TypeInv
<1>3. job.op = "mark" /\ job \in MarkJobs
  <2>1. job.op = "mark"
    BY DEF Marking, ReadBefore, Reopen, Accept, ReadAfter, Record
  <2> QED
    BY <1>2, <2>1, JobIs
<1>4. /\ job.turn \in Ids /\ job.author \in Authors /\ job.answer \in {0} \cup Ids
      /\ job.reviewed \in SUBSET Lines /\ job.reopened \in SUBSET (Lines \X Authors)
      /\ job.todo \subseteq Files
  BY <1>3, MarkFields
<1>5. ASSUME NEW f \in Files, ReadBefore(f)
      PROVE  TypeInv'
  <2>1. job' = [job EXCEPT !.stage = "reopen", !.file = f, !.before = mark] /\ f \in job.todo
    BY <1>5 DEF ReadBefore
  <2>2. /\ job' \in MarkJobs /\ job'.file = f /\ job'.todo = job.todo
        /\ job'.before = mark
    BY <1>1, <1>3, <2>1 DEF MarkJobs
  <2> QED
    BY <1>1, <1>5, <2>1, <2>2 DEF ReadBefore, round, TypeInv, RoundInv, MarkTypes, JobTypes
<1>6. CASE Reopen
  <2>1. job' = [job EXCEPT !.stage = "accept"] /\ job.stage = "reopen"
    BY <1>6 DEF Reopen
  <2>2. /\ job' \in MarkJobs /\ job'.file = job.file /\ job'.todo = job.todo
        /\ job'.before = job.before
    BY <1>3, <2>1 DEF MarkJobs
  <2>3. job.file \in job.todo /\ job.before \in [Lines -> Holders]
    BY <1>2, <1>3, <2>1, JobIs
  <2>4. JobTypes'
    BY <2>2, <2>3 DEF JobTypes
  <2>5. mark' \in [Lines -> Holders]
    <3>1. PICK picked : mark' = ReopenLines(mark, picked)
      BY <1>6 DEF Reopen
    <3>2. Nobody \in Holders
      BY DEF Holders
    <3> QED
      BY <1>1, <3>1, <3>2, EditTypes
  <2> QED
    BY <1>6, <2>4, <2>5 DEF Reopen, round, TypeInv, RoundInv, MarkTypes
<1>7. CASE Accept
  <2>1. job' = [job EXCEPT !.stage = "after"] /\ job.stage = "accept"
    BY <1>7 DEF Accept
  <2>2. /\ job' \in MarkJobs /\ job'.file = job.file /\ job'.todo = job.todo
        /\ job'.before = job.before
    BY <1>3, <2>1 DEF MarkJobs
  <2>3. job.file \in job.todo /\ job.before \in [Lines -> Holders]
    BY <1>2, <1>3, <2>1, JobIs
  <2>4. JobTypes'
    BY <2>2, <2>3 DEF JobTypes
  <2>5. mark' \in [Lines -> Holders]
    <3>1. PICK picked : mark' = AcceptLines(mark, picked, job.author)
      BY <1>7 DEF Accept
    <3>2. job.author \in Holders
      BY <1>4 DEF Holders
    <3> QED
      BY <1>1, <3>1, <3>2, EditTypes
  <2> QED
    BY <1>7, <2>4, <2>5 DEF Accept, round, TypeInv, RoundInv, MarkTypes
<1>8. CASE ReadAfter
  <2> DEFINE change == Between(job.file, job.before, mark, job.author)
  <2>1. /\ job.stage = "after"
        /\ job' = [job EXCEPT !.stage = "next", !.todo = job.todo \ {job.file},
                       !.file = <<>>, !.before = <<>>,
                       !.reviewed = job.reviewed \cup change.reviewed,
                       !.reopened = job.reopened \cup change.reopened]
    BY <1>8 DEF ReadAfter
  <2>2. job.before \in [Lines -> Holders]
    BY <1>2, <1>3, <2>1, JobIs
  <2>3. change.reviewed \in SUBSET Lines /\ change.reopened \in SUBSET (Lines \X Authors)
    <3>1. mark \in [Lines -> Holders] /\ job.author \in Authors
      BY <1>1, <1>4
    <3>2. change = Between(job.file, job.before, mark, job.author)
      OBVIOUS
    <3> HIDE DEF change
    <3>3. ChangeIs(change, job.file, job.before, mark, job.author)
      BY <2>2, <3>1, <3>2, ChangeTypes
    <3> QED
      BY <3>3 DEF ChangeIs
  <2> HIDE DEF change
  <2>4. /\ job.reviewed \cup change.reviewed \in SUBSET Lines
        /\ job.reopened \cup change.reopened \in SUBSET (Lines \X Authors)
        /\ job.todo \ {job.file} \in SUBSET Files
    BY <1>4, <2>3
  <2>5. job' \in MarkJobs /\ job'.stage = "next"
    BY <1>3, <2>1, <2>4 DEF MarkJobs
  <2> QED
    BY <1>8, <2>5 DEF ReadAfter, round, TypeInv, RoundInv, MarkTypes, JobTypes
<1>9. CASE Record
  <2>1. [set |-> TRUE, answer |-> job.answer, reviewed |-> job.reviewed,
         reopened |-> job.reopened] \in TurnMarks
    BY <1>4 DEF TurnMarks
  <2>2. recorded' \in [Ids -> TurnMarks]
    BY <1>1, <1>4, <1>9, <2>1 DEF Record
  <2> QED
    BY <1>9, <2>2 DEF Record, TypeInv, RoundInv, MarkTypes, JobTypes
<1> QED
  BY <1>5, <1>6, <1>7, <1>8, <1>9 DEF Marking

\* Giving marks back, up to the commit.
LEMMA UnmarkingTypesHold ==
    ASSUME TypeInv, Unmarking, ~CancelCommit, ~ImplementCommit
    PROVE  TypeInv'
<1>1. mark \in [Lines -> Holders] /\ JobTypes
  BY DEF TypeInv, MarkTypes
<1>2. job.op = "unmark" /\ job \in UnmarkJobs
  <2>1. job.op = "unmark"
    BY DEF Unmarking, UnmarkRead, UnmarkRestore, UnmarkPoll, UnmarkFails, UnmarkReopen,
           UnmarkedFile, UnmarkedTurn
  <2> QED
    BY <1>1, <2>1, JobIs
<1>3. /\ job.plan \in SUBSET Entries /\ job.back \in SUBSET (Lines \X Authors)
      /\ job.files \in SUBSET Files /\ job.held \in SUBSET Lines
      /\ job.missed \in SUBSET (Files \X Authors)
      /\ job.stage # "poll" => job.giving \in Entries
      /\ job.stage \in {"reopen", "restore"} => job.file \in job.files
      /\ job.then = "cancel" => MayCancelFrom(saved, job.answer)
      /\ job.then = "implement" => MayAuthorize(saved, 1)
  BY <1>1, <1>2, UnmarkFields, JobIs
<1>4. saved' = saved /\ asked' = asked /\ board' = board /\ recorded' = recorded
  BY DEF Unmarking, UnmarkRead, UnmarkRestore, UnmarkPoll, UnmarkFails, UnmarkReopen,
         UnmarkedFile, UnmarkedTurn, round
<1>5. own' \subseteq Lines /\ left' = left
  BY DEF Unmarking, UnmarkRead, UnmarkRestore, UnmarkPoll, UnmarkFails, UnmarkReopen,
         UnmarkedFile, UnmarkedTurn, Unfollowed, TypeInv, MarkTypes
\* What is left to show.
<1>6. ASSUME JobTypes', mark' \in [Lines -> Holders]
      PROVE  TypeInv'
  BY <1>4, <1>5, <1>6 DEF TypeInv, RoundInv, MarkTypes
<1>7. CASE UnmarkPoll
  <2> DEFINE absent(x, files) == UNION {In(f) : f \in NamedBy(x.of) \ files}
             missed(x, files) == {<<l[1], x.by>> : l \in {k \in absent(x, files) : mark[k] = x.by}}
  <2>1. PICK x \in Foremost : \E files \in SUBSET NamedBy(x.of) :
          \E unchanged \in SUBSET (files \cap FilesOf({y[1] : y \in x.of.reopened})) :
            job' = [job EXCEPT !.stage = "files", !.unchanged = unchanged, !.giving = x,
                       !.plan = job.plan \ {x}, !.files = files,
                       !.missed = job.missed \cup missed(x, files)]
    BY <1>7 DEF UnmarkPoll
  <2>2. PICK files \in SUBSET NamedBy(x.of) :
          \E unchanged \in SUBSET (files \cap FilesOf({y[1] : y \in x.of.reopened})) :
            job' = [job EXCEPT !.stage = "files", !.unchanged = unchanged, !.giving = x,
                       !.plan = job.plan \ {x}, !.files = files,
                       !.missed = job.missed \cup missed(x, files)]
    BY <2>1
  <2>9. PICK unchanged \in SUBSET (files \cap FilesOf({y[1] : y \in x.of.reopened})) :
            job' = [job EXCEPT !.stage = "files", !.unchanged = unchanged, !.giving = x,
                       !.plan = job.plan \ {x}, !.files = files,
                       !.missed = job.missed \cup missed(x, files)]
    BY <2>2
  <2>3. x \in Entries /\ job.plan \ {x} \in SUBSET Entries
    BY <1>3 DEF Foremost
  <2>4. /\ files \in SUBSET Files /\ missed(x, files) \in SUBSET (Files \X Authors)
        /\ files \cap FilesOf({y[1] : y \in x.of.reopened}) \in SUBSET Files
    <3>1. x.of.reviewed \in SUBSET Lines /\ {y[1] : y \in x.of.reopened} \in SUBSET Lines
      BY <2>3, EntryFields, LineTypes
    <3>2. files \in SUBSET Files
      BY <3>1, <2>2, LineTypes DEF NamedBy
    <3>3. absent(x, files) \in SUBSET Lines
      BY LineTypes
    <3>4. \A l \in absent(x, files) : l[1] \in Files
      BY <3>3, LineTypes
    <3> QED
      BY <2>3, <3>2, <3>4, EntryFields
  <2> HIDE DEF missed
  <2>5. job' \in UnmarkJobs
    <3>1. unchanged \in SUBSET Files
      BY <2>4
    <3>2. job.missed \cup missed(x, files) \in SUBSET (Files \X Authors)
      BY <1>3, <2>4
    <3> QED
      BY <1>2, <1>3, <2>9, <2>3, <2>4, <3>1, <3>2 DEF UnmarkJobs
  <2>6. job'.giving = x /\ job'.stage = "files" /\ job'.then = job.then /\ job'.answer = job.answer
    BY <1>2, <2>9 DEF UnmarkJobs
  <2>7. JobTypes'
    BY <1>3, <1>4, <2>3, <2>5, <2>6 DEF JobTypes
  <2> QED
    BY <1>1, <1>6, <1>7, <2>7 DEF UnmarkPoll
<1>8. CASE UnmarkFails
  <2>1. PICK x \in Foremost : job' = IF job.then = "cancel" THEN Idle
                ELSE [job EXCEPT !.plan = job.plan \ {x}, !.failed = TRUE]
    BY <1>8 DEF UnmarkFails
  <2>2. job' # Idle => job' \in UnmarkJobs /\ job'.then = job.then /\ job'.stage = "poll"
          /\ job'.answer = job.answer
    BY <1>2, <1>3, <1>8, <2>1 DEF UnmarkJobs, UnmarkFails
  <2>3. JobTypes'
    BY <1>3, <1>4, <2>2 DEF JobTypes
  <2> QED
    BY <1>1, <1>6, <1>8, <2>3 DEF UnmarkFails
<1>9. ASSUME NEW f \in Files, UnmarkRead(f)
      PROVE  TypeInv'
  <2> DEFINE held == {l \in In(f) : mark[l] = job.giving.by}
             back == IF f \in job.unchanged
                     THEN {x \in job.giving.of.reopened : x[1] \in In(f)} ELSE {}
  <2>1. /\ job.stage = "files" /\ f \in job.files
        /\ job' = [job EXCEPT !.stage = "reopen", !.file = f, !.held = held, !.back = back]
    BY <1>9 DEF UnmarkRead
  <2>2. held \in SUBSET Lines /\ back \in SUBSET (Lines \X Authors)
    BY <1>3, <2>1, EntryFields, LineTypes
  <2> HIDE DEF held, back
  <2>3. /\ job' \in UnmarkJobs /\ job'.stage = "reopen" /\ job'.giving = job.giving
        /\ job'.file = f /\ job'.files = job.files /\ job'.then = job.then
        /\ job'.answer = job.answer
    BY <1>2, <2>1, <2>2 DEF UnmarkJobs
  <2>4. JobTypes'
    BY <1>3, <1>4, <2>1, <2>3 DEF JobTypes
  <2> QED
    BY <1>1, <1>6, <1>9, <2>4 DEF UnmarkRead
<1>10. CASE UnmarkReopen
  <2>1. /\ job.stage = "reopen"
        /\ \E missed \in SUBSET (Files \X Authors) :
             job' = [job EXCEPT !.stage = "restore", !.missed = missed]
    <3>1. job.stage = "reopen"
      BY <1>10 DEF UnmarkReopen
    <3>2. job.missed \cup {<<job.file, job.giving.by>>} \in SUBSET (Files \X Authors)
      BY <1>3, <3>1, EntryFields
    <3> QED
      BY <1>3, <1>10, <3>1, <3>2 DEF UnmarkReopen
  <2>2. /\ job' \in UnmarkJobs /\ job'.stage = "restore" /\ job'.giving = job.giving
        /\ job'.file = job.file /\ job'.files = job.files /\ job'.then = job.then
        /\ job'.answer = job.answer
    BY <1>2, <2>1 DEF UnmarkJobs
  <2>3. JobTypes'
    BY <1>3, <1>4, <2>1, <2>2 DEF JobTypes
  <2>4. PICK picked : mark' = ReopenLines(mark, picked)
    BY <1>10 DEF UnmarkReopen
  <2>5. Nobody \in Holders
    BY DEF Holders
  <2> QED
    BY <1>1, <1>6, <2>3, <2>4, <2>5, EditTypes
<1>11. ASSUME NEW previous \in Authors, UnmarkRestore(previous)
       PROVE  TypeInv'
  <2>1. /\ job' = [job EXCEPT !.back = {x \in job.back : x[2] # previous}]
        /\ job.stage = "restore"
    BY <1>11 DEF UnmarkRestore
  <2>2. {x \in job.back : x[2] # previous} \in SUBSET (Lines \X Authors)
    BY <1>3
  <2>3. /\ job' \in UnmarkJobs /\ job'.stage = "restore" /\ job'.giving = job.giving
        /\ job'.file = job.file /\ job'.files = job.files /\ job'.then = job.then
        /\ job'.answer = job.answer
    BY <1>2, <2>1, <2>2 DEF UnmarkJobs
  <2>4. JobTypes'
    BY <1>3, <1>4, <2>1, <2>3 DEF JobTypes
  <2>5. PICK picked : mark' = AcceptLines(mark, picked, previous)
    BY <1>11 DEF UnmarkRestore
  <2>6. previous \in Holders
    BY DEF Holders
  <2> QED
    BY <1>1, <1>6, <2>4, <2>5, <2>6, EditTypes
<1>12. CASE UnmarkedFile
  <2>1. /\ job' = [job EXCEPT !.stage = "files", !.files = job.files \ {job.file},
                       !.file = <<>>, !.held = {}]
        /\ job.stage = "restore"
    BY <1>12 DEF UnmarkedFile
  <2>2. /\ job' \in UnmarkJobs /\ job'.stage = "files" /\ job'.giving = job.giving
        /\ job'.then = job.then /\ job'.answer = job.answer
    BY <1>2, <1>3, <2>1 DEF UnmarkJobs
  <2>3. JobTypes'
    BY <1>3, <1>4, <2>1, <2>2 DEF JobTypes
  <2> QED
    BY <1>1, <1>6, <1>12, <2>3 DEF UnmarkedFile
<1>13. CASE UnmarkedTurn
  <2>1. job' = [job EXCEPT !.stage = "poll", !.giving = <<>>, !.unchanged = {}]
    BY <1>13 DEF UnmarkedTurn
  <2>2. /\ job' \in UnmarkJobs /\ job'.stage = "poll"
        /\ job'.then = job.then /\ job'.answer = job.answer
    BY <1>2, <2>1 DEF UnmarkJobs
  <2>3. JobTypes'
    BY <1>3, <1>4, <2>2 DEF JobTypes
  <2> QED
    BY <1>1, <1>6, <1>13, <2>3 DEF UnmarkedTurn
<1> QED
  BY <1>7, <1>8, <1>9, <1>10, <1>11, <1>12, <1>13 DEF Unmarking

\* What Cancel and Implement commit.
LEMMA CommitTypesHold ==
    ASSUME TypeInv, CancelCommit \/ ImplementCommit
    PROVE  TypeInv'
<1>1. PICK n : RoundOf(saved, n)
  BY DEF TypeInv, RoundInv
<1>2. JobTypes /\ job \in UnmarkJobs /\ NoMarks \in TurnMarks
  BY JobIs DEF TypeInv, CancelCommit, ImplementCommit, NoMarks, TurnMarks
<1>3. NoAsk \in Asks
  <2>1. Cardinality({}) = 0
    BY FS_EmptySet
  <2>2. {} \in SUBSET Lines /\ 0 + 0 <= MaxNamed
    BY MarksAssumption
  <2> QED
    BY <2>1, <2>2 DEF NoAsk, Asks
<1>4. CASE CancelCommit
  <2>1. MayCancelFrom(saved, job.answer)
    BY <1>2, <1>4, JobIs DEF CancelCommit
  <2>2. saved' = saved \/ saved' = CancelAnswersFrom(saved, job.answer)
    BY <1>4 DEF CancelCommit, round
  <2>3. RoundOf(saved', n)
    BY <1>1, <2>1, <2>2, CancelledRound
  <2>4. asked' \in [Ids -> Asks] /\ recorded' \in [Ids -> TurnMarks] /\ board' \subseteq Ids
    BY <1>2, <1>3, <1>4 DEF CancelCommit, round, TypeInv, MarkTypes
  <2>5. left' \in SUBSET (Files \X Authors) /\ job' = Idle /\ mark' = mark /\ own' = own
    <3>1. job.missed \in SUBSET (Files \X Authors) /\ left \in SUBSET (Files \X Authors)
      BY <1>2, UnmarkFields DEF TypeInv, MarkTypes
    <3> QED
      BY <1>4, <3>1 DEF CancelCommit
  <2>6. MarkTypes'
    BY <2>4, <2>5 DEF TypeInv, MarkTypes
  <2> QED
    BY <1>1, <2>3, <2>5, <2>6 DEF TypeInv, RoundInv, RoundOf, JobTypes
<1>5. CASE ImplementCommit
  <2>1. MayAuthorize(saved, 1)
    BY <1>2, <1>5, JobIs DEF ImplementCommit
  <2>2. RoundOf(saved', n)
    BY <1>1, <1>5, <2>1, AuthorizedRound DEF ImplementCommit
  <2> QED
    BY <1>1, <1>5, <2>2
    DEF ImplementCommit, TypeInv, RoundInv, RoundOf, MarkTypes, JobTypes
<1> QED
  BY <1>4, <1>5

\* The reviewers of other workspaces.
LEMMA OthersTypesHold ==
    ASSUME TypeInv, Others
    PROVE  TypeInv' /\ round' = round /\ job' = job /\ left' = left
<1>1. mark \in [Lines -> Holders] /\ Nobody \in Holders /\ Reviewer \in Holders
  BY AuthorTypes DEF TypeInv, MarkTypes, Holders
<1>2. round' = round /\ job' = job /\ left' = left
  BY DEF Others, HandMark, HandReopen, HandMarkFile, HandReopenFile
<1>3. mark' \in [Lines -> Holders] /\ own' \subseteq Lines
  <2>0. \A f : In(f) \in SUBSET Lines
    BY LineTypes
  <2>1. ASSUME NEW l \in Lines, HandMark(l) \/ HandReopen(l)
        PROVE  mark' \in [Lines -> Holders] /\ own' \subseteq Lines
    <3>1. mark' = AcceptLines(mark, {l}, Reviewer) \/ mark' = ReopenLines(mark, {l})
      BY <2>1 DEF HandMark, HandReopen
    <3>2. mark' \in [Lines -> Holders]
      <4>1. CASE mark' = AcceptLines(mark, {l}, Reviewer)
        BY <1>1, <4>1, EditTypes
      <4>2. CASE mark' = ReopenLines(mark, {l})
        BY <1>1, <4>2, EditTypes
      <4> QED
        BY <3>1, <4>1, <4>2
    <3>3. own' \subseteq Lines
      BY <2>1 DEF HandMark, HandReopen, Owned, TypeInv, MarkTypes
    <3> QED
      BY <3>2, <3>3
  <2>2. ASSUME NEW f \in Files, HandMarkFile(f) \/ HandReopenFile(f)
        PROVE  mark' \in [Lines -> Holders] /\ own' \subseteq Lines
    <3>1. \/ mark' = [l \in Lines |-> IF l \in In(f) THEN Reviewer ELSE mark[l]]
          \/ mark' = ReopenLines(mark, In(f))
      BY <2>2 DEF HandMarkFile, HandReopenFile
    <3>2. mark' \in [Lines -> Holders]
      <4>1. CASE mark' = ReopenLines(mark, In(f))
        BY <1>1, <4>1, EditTypes
      <4>2. CASE mark' = [l \in Lines |-> IF l \in In(f) THEN Reviewer ELSE mark[l]]
        BY <1>1, <4>2
      <4> QED
        BY <3>1, <4>1, <4>2
    <3>3. own' \subseteq Lines
      BY <2>0, <2>2 DEF HandMarkFile, HandReopenFile, Owned, TypeInv, MarkTypes
    <3> QED
      BY <3>2, <3>3
  <2> QED
    BY <2>1, <2>2 DEF Others
<1> QED
  BY <1>2, <1>3 DEF round, TypeInv, RoundInv, MarkTypes, JobTypes

\* A step of the session, of a reviewer or of another process.
LEMMA TypesStay ==
    TypeInv /\ [Next]_vars => TypeInv'
<1> SUFFICES ASSUME TypeInv, [Next]_vars PROVE TypeInv'
  OBVIOUS
<1>1. CASE Session
  BY <1>1, AgentTurnTypes, AnswerTypesHold, CancelTypesHold, RetryTypesHold,
     ImplementTypesHold, RestartTypesHold DEF Session
<1>2. CASE Marking
  BY <1>2, MarkingTypesHold
<1>3. CASE Unmarking
  BY <1>3, UnmarkingTypesHold, CommitTypesHold
<1>4. CASE Others
  BY <1>4, OthersTypesHold
<1>5. CASE UNCHANGED vars
  BY <1>5 DEF vars, round, TypeInv, RoundInv, MarkTypes, JobTypes
<1> QED
  BY <1>1, <1>2, <1>3, <1>4, <1>5 DEF Next

\* The types of the marks and of what a round records of them, in every state.
THEOREM MarksAreTyped == Spec => []TypeOK
<1>1. TypeInv => TypeOK
  BY TypesHold
<1> QED
  BY <1>1, TypesAtFirst, TypesStay, PTL DEF Spec

-----------------------------------------------------------------------------
(* Records and their order. *)

\* What is on record depends on the records alone, and on what was left.
LEMMA SameRecords ==
    ASSUME recorded' = recorded, left' = left
    PROVE  /\ \A q : RankOf(q)' = RankOf(q) /\ Holder(q)' = Holder(q) /\ Entry(q)' = Entry(q)
           /\ \A f, author : OnRecord(f, author)' <=> OnRecord(f, author)
           /\ \A f, author, rank : OnEarlier(f, author, rank)' <=> OnEarlier(f, author, rank)
           /\ \A q, l, author : TakenBy(q, l, author)' <=> TakenBy(q, l, author)
<1>1. \A q : RankOf(q)' = RankOf(q) /\ Holder(q)' = Holder(q)
  BY DEF RankOf, Holder
<1>2. \A q : Entry(q)' = Entry(q)
  BY <1>1 DEF Entry
<1>3. \A f, author : OnRecord(f, author)' <=> OnRecord(f, author)
  BY <1>1 DEF OnRecord
<1>4. \A f, author, rank : OnEarlier(f, author, rank)' <=> OnEarlier(f, author, rank)
  BY <1>1 DEF OnEarlier
<1>5. \A q, l, author : TakenBy(q, l, author)' <=> TakenBy(q, l, author)
  BY <1>1 DEF TakenBy
<1> QED
  BY <1>1, <1>2, <1>3, <1>4, <1>5

\* The order of two records of answers: by the answers, and then the conclusion's last.
LEMMA RankOrder ==
    ASSUME NEW q, NEW b \in Ids, NEW p, NEW c \in Ids
    PROVE  /\ Rank(q, b) \in Nat /\ Rank(q, b) > 0 /\ Rank(q, 0) = 0
           /\ b < c => Rank(q, b) < Rank(p, c)
           /\ Rank(q, b) <= Rank(p, c) => b <= c
           /\ q # b => Rank(q, b) < Rank(b, b)
           /\ Rank(q, b) = Rank(p, c) => b = c /\ (q = b <=> p = c)
<1>1. b \in Nat /\ c \in Nat /\ b > 0 /\ c > 0
  BY DEF Ids
<1>2. Rank(q, b) = 2 * b \/ Rank(q, b) = 2 * b + 1
  BY <1>1 DEF Rank
<1>3. Rank(p, c) = 2 * c \/ Rank(p, c) = 2 * c + 1
  BY <1>1 DEF Rank
<1>4. Rank(q, b) \in Nat /\ Rank(q, b) > 0 /\ Rank(q, 0) = 0
  BY <1>1, <1>2 DEF Rank
<1>5. b < c => Rank(q, b) < Rank(p, c)
  BY <1>1, <1>2, <1>3
<1>6. Rank(q, b) <= Rank(p, c) => b <= c
  BY <1>1, <1>2, <1>3
<1>7. q # b => Rank(q, b) < Rank(b, b)
  BY <1>1 DEF Rank
<1>8. Rank(q, b) = Rank(p, c) => b = c /\ (q = b <=> p = c)
  BY <1>1 DEF Rank
<1> QED
  BY <1>4, <1>5, <1>6, <1>7, <1>8

\* What one record says of its turn and its answer.
LEMMA RecordIs ==
    ASSUME TypeInv, RecordInv, NEW q \in Ids, recorded[q].set
    PROVE  LET b == recorded[q].answer
           IN  /\ InConversation(saved, q) /\ b \in {0} \cup Ids /\ b \in Nat
               /\ Holder(q) \in Authors /\ IsAgent(Holder(q)) /\ RankOf(q) \in Nat
               /\ b = 0 => /\ q \notin AnswerIds(saved) /\ RankOf(q) = 0
                           /\ Holder(q) = ExploreRead(q)
               /\ b # 0 => /\ b \in Ids /\ b \in AnswerIds(saved) /\ RankOf(q) > 0
                           /\ q = b \/ (q = ReplyOf(saved, b) /\ q < b)
                           /\ Holder(q) = Explore(b)
<1> DEFINE b == recorded[q].answer
<1>1. PICK n : RoundOf(saved, n)
  BY DEF TypeInv, RoundInv
<1>2. Recorded(q)
  BY DEF RecordInv
<1>3. b \in {0} \cup Ids /\ b \in Nat
  <2>1. recorded[q] \in TurnMarks
    BY DEF TypeInv, MarkTypes
  <2> QED
    BY <2>1, IdsAreNat DEF TurnMarks
<1>4. Holder(q) \in Authors /\ IsAgent(Holder(q))
  BY <1>3, AuthorOfTypes DEF Holder
<1>5. /\ b = 0 => RankOf(q) = 0 /\ Holder(q) = ExploreRead(q)
      /\ b # 0 => RankOf(q) \in Nat /\ RankOf(q) > 0 /\ Holder(q) = Explore(b)
  <2>1. CASE b = 0
    BY <2>1, AuthorTypes DEF RankOf, Rank, Holder
  <2>2. CASE b # 0
    BY <1>3, <2>2, AuthorTypes, RankOrder DEF RankOf, Holder
  <2> QED
    BY <2>1, <2>2
<1>6. b # 0 => b \in AnswerIds(saved) /\ (q = b \/ (q = ReplyOf(saved, b) /\ q < b))
  <2>1. b # 0 => b \in AnswerIds(saved) /\ (q = b \/ q = ReplyOf(saved, b))
    BY <1>2 DEF Recorded
  <2>2. b \in AnswerIds(saved) => ReplyOf(saved, b) < b
    BY <1>1, ReplyIsTurn
  <2> QED
    BY <2>1, <2>2
<1> QED
  BY <1>2, <1>3, <1>4, <1>5, <1>6 DEF Recorded

\* Two records of one place in the order are one.
LEMMA RankIsOne ==
    ASSUME TypeInv, RecordInv, NEW q \in Ids, NEW p \in Ids, recorded[q].set, recorded[p].set,
           recorded[q].answer # 0, recorded[p].answer # 0, RankOf(q) = RankOf(p)
    PROVE  q = p
<1> DEFINE b == recorded[q].answer
           c == recorded[p].answer
<1>1. b \in Ids /\ (q = b \/ (q = ReplyOf(saved, b) /\ q < b))
  BY RecordIs
<1>2. c \in Ids /\ (p = c \/ (p = ReplyOf(saved, c) /\ p < c))
  BY RecordIs
<1>3. Rank(q, b) = Rank(p, c)
  BY DEF RankOf
<1>4. b = c /\ (q = b <=> p = c)
  BY <1>1, <1>2, <1>3, RankOrder
<1> QED
  BY <1>1, <1>2, <1>4

\* Answers of the round, and those that go.
LEMMA GoneAre ==
    ASSUME TypeInv, NEW a, MayCancelFrom(saved, a)
    PROVE  /\ AnswersFrom(saved, a) = {b \in AnswerIds(saved) : b >= a}
           /\ AnswerIds(saved) \subseteq Ids /\ a \in Ids /\ 0 \notin AnswersFrom(saved, a)
<1>1. PICK n : RoundOf(saved, n)
  BY DEF TypeInv, RoundInv
<1>2. AnswersFrom(saved, a) = {b \in AnswerIds(saved) : b >= a} /\ a \in Ids
  BY <1>1, CancelledRound
<1>3. AnswerIds(saved) \subseteq Ids
  BY <1>1, ReplyIsTurn
<1> QED
  BY <1>2, <1>3, IdsAreNat

\* A record goes with its turn, or with a later answer.
LEMMA GoneRecords ==
    ASSUME TypeInv, RecordInv, NEW a, MayCancelFrom(saved, a), NEW q \in Ids, recorded[q].set,
           q \in AnswersFrom(saved, a)
    PROVE  recorded[q].answer \in AnswersFrom(saved, a) /\ recorded[q].answer >= q
<1> DEFINE b == recorded[q].answer
           gone == AnswersFrom(saved, a)
<1>1. gone = {c \in AnswerIds(saved) : c >= a} /\ AnswerIds(saved) \subseteq Ids /\ a \in Ids
  BY GoneAre
<1>2. b # 0
  BY <1>1, RecordIs
<1>3. b \in Ids /\ b \in AnswerIds(saved) /\ (q = b \/ q < b)
  BY <1>2, RecordIs
<1>4. b \in Nat /\ q \in Nat /\ a \in Nat
  BY <1>1, <1>3, IdsAreNat
<1> QED
  BY <1>1, <1>3, <1>4

\* Cancel takes the records of the answers that go, each as the round has it.
LEMMA CancelPlan ==
    ASSUME TypeInv, RecordInv, NEW a, MayCancelFrom(saved, a)
    PROVE  LET gone == AnswersFrom(saved, a)
               plan == UNION {RecordsOf(saved, b, gone) : b \in gone}
           IN  /\ \A x \in plan : \E q \in Ids :
                    recorded[q].set /\ recorded[q].answer \in gone /\ x = Entry(q)
               /\ \A q \in Ids : recorded[q].set /\ recorded[q].answer \in gone =>
                    Entry(q) \in plan
<1> DEFINE gone == AnswersFrom(saved, a)
           plan == UNION {RecordsOf(saved, b, gone) : b \in gone}
<1>1. gone \subseteq AnswerIds(saved) /\ gone \subseteq Ids /\ 0 \notin gone
  BY GoneAre
<1>2. ASSUME NEW q \in Ids, recorded[q].set, recorded[q].answer # 0
      PROVE  Entry(q) = EntryOf(q, recorded[q].answer)
  <2>1. Holder(q) = Explore(recorded[q].answer)
    BY <1>2, RecordIs
  <2>2. RankOf(q) = IF q = recorded[q].answer
                    THEN 2 * recorded[q].answer + 1 ELSE 2 * recorded[q].answer
    BY <1>2 DEF RankOf, Rank
  <2> QED
    BY <2>1, <2>2 DEF Entry, EntryOf
<1>3. ASSUME NEW x \in plan
      PROVE  \E q \in Ids : recorded[q].set /\ recorded[q].answer \in gone /\ x = Entry(q)
  <2>1. PICK b \in gone : x \in RecordsOf(saved, b, gone)
    BY <1>3
  <2>2. PICK q \in Ids :
          /\ q \in {ReplyOf(saved, b), b} /\ recorded[q].set
          /\ q # b => recorded[q].answer = b
          /\ q = b => recorded[q].answer \notin gone \ {b}
          /\ x = EntryOf(q, b)
    <3>1. b \in AnswerIds(saved)
      BY <1>1, <2>1
    <3> HIDE DEF gone
    <3> QED
      BY <2>1, <3>1, RecordsAre
  <2>3. recorded[q].answer = b
    BY <2>2, GoneRecords
  <2> QED
    BY <1>1, <1>2, <2>2, <2>3
<1>4. ASSUME NEW q \in Ids, recorded[q].set, recorded[q].answer \in gone
      PROVE  Entry(q) \in plan
  <2> DEFINE b == recorded[q].answer
  <2>1. b # 0 /\ b \in AnswerIds(saved)
    BY <1>1, <1>4
  <2>2. q \in {ReplyOf(saved, b), b}
    BY <1>4, <2>1, RecordIs
  <2>3. EntryOf(q, b) \in RecordsOf(saved, b, gone)
    BY <1>4, <2>1, <2>2, RecordsAre
  <2> QED
    BY <1>2, <1>4, <2>1, <2>3
<1> QED
  BY <1>3, <1>4

-----------------------------------------------------------------------------
(* The interview keeps the invariant. *)

\* While no job runs, who holds a line for the round is on record, and a reviewer's
\* line returns.
LEMMA NoJob ==
    ASSUME TypeInv, MarksInv, job.op # "mark"
    PROVE  /\ \A l \in Lines : IsAgent(mark[l]) => OnRecord(l[1], mark[l])
           /\ \A l \in own : \/ mark[l] = Reviewer
                             \/ \E q \in Ids : TakenBy(q, l, mark[l])
BY DEF MarksInv, HeldInv, OwnInv, Returns

\* A job that marks begins with nothing, or there is none.
LEMMA JobBegins ==
    ASSUME TypeInv, MarksInv, job.op # "mark",
           recorded' = recorded, left' = left, mark' = mark, own' = own,
           \/ job' = Idle
           \/ job'.op = "mark" /\ job'.stage = "next" /\ job'.reviewed = {} /\ job'.reopened = {}
    PROVE  HeldInv' /\ DueInv' /\ UnmarkInv' /\ OwnInv'
<1>1. job'.op # "unmark"
  BY DEF Idle
<1>2. HeldInv'
  BY NoJob, SameRecords DEF HeldInv
<1>3. ASSUME NEW l \in own
      PROVE  IF job'.op = "mark" THEN ReturnsAfter(l)' ELSE Returns(l)'
  <2>1. \/ mark[l]' = Reviewer
        \/ \E q \in Ids : TakenBy(q, l, mark[l])'
    <3>1. mark[l] = Reviewer \/ \E q \in Ids : TakenBy(q, l, mark[l])
      BY <1>3, NoJob
    <3> QED
      BY <3>1, SameRecords
  <2>2. CASE job' = Idle
    BY <1>1, <2>1, <2>2 DEF Returns, Idle
  <2>3. CASE job'.op = "mark" /\ job'.stage = "next" /\ job'.reopened = {}
    <3>1. TakenUpTo(l, mark[l])'
      BY <2>1, <2>3 DEF TakenUpTo
    <3>2. ~AtFile(l)'
      BY <2>3 DEF AtFile
    <3> QED
      BY <2>3, <3>1, <3>2 DEF ReturnsAfter
  <2> QED
    BY <2>2, <2>3
<1>4. OwnInv'
  BY <1>3 DEF OwnInv
<1> QED
  BY <1>1, <1>2, <1>4 DEF DueInv, UnmarkInv

\* A round with the turns and answers there were, and perhaps new ones, has the same
\* on record.
LEMMA RecordsStay ==
    ASSUME TypeInv, RecordInv, recorded' = recorded,
           \A p : InConversation(saved, p) =>
             /\ InConversation(saved', p)
             /\ p \in AnswerIds(saved') => p \in AnswerIds(saved),
           AnswerIds(saved) \subseteq AnswerIds(saved'),
           \A b \in AnswerIds(saved) : ReplyOf(saved', b) = ReplyOf(saved, b), left' = left
    PROVE  RecordInv'
<1> SUFFICES ASSUME NEW q \in Ids, recorded'[q].set
             PROVE  /\ Recorded(q)' /\ OnePerLine(recorded'[q].reopened)
                    /\ \A x \in recorded'[q].reopened :
                         IsAgent(x[2]) => OnEarlier(x[1][1], x[2], RankOf(q))'
  BY DEF RecordInv
<1>1. /\ Recorded(q) /\ OnePerLine(recorded[q].reopened)
      /\ \A x \in recorded[q].reopened : IsAgent(x[2]) => OnEarlier(x[1][1], x[2], RankOf(q))
  BY DEF RecordInv
<1>2. Recorded(q)'
  BY <1>1 DEF Recorded
<1>3. \A x \in recorded[q].reopened : IsAgent(x[2]) => OnEarlier(x[1][1], x[2], RankOf(q))'
  BY <1>1, SameRecords
<1> QED
  BY <1>1, <1>2, <1>3

\* A turn of the agent.
LEMMA AgentTurnMarks ==
    ASSUME TypeInv, MarksInv, NEW question \in BOOLEAN, NEW ask \in Asks,
           AgentTurn(question, ask), left' = left
    PROVE  MarksInv'
<1> DEFINE q == saved.outstanding
           answer == IF saved.turns[q].answer THEN q ELSE 0
<1>1. PICK n : RoundOf(saved, n)
  BY DEF TypeInv, RoundInv
<1>2. q \in Ids /\ MaySubmit(saved, q) /\ saved' = Submit(saved, q, question)
  <2>1. saved \in Round
    BY <1>1 DEF RoundOf, WellFormed
  <2> QED
    BY <2>1 DEF AgentTurn, Round
<1>3. /\ saved'.answers = saved.answers /\ ~InConversation(saved, q)
      /\ \A p : InConversation(saved', p) <=> InConversation(saved, p) \/ p = q
      /\ saved.turns[q].answer => q \in AnswerIds(saved) /\ \A b \in AnswerIds(saved) : b <= q
      /\ ~saved.turns[q].answer => AnswerIds(saved) = {}
  BY <1>1, <1>2, SubmittedRound
<1>4. job = Idle /\ recorded' = recorded /\ mark' = mark /\ own' = own
  BY DEF AgentTurn
<1>5. AnswerIds(saved') = AnswerIds(saved) /\ \A b : ReplyOf(saved', b) = ReplyOf(saved, b)
  BY <1>3 DEF AnswerIds, ReplyOf
<1>6. RecordInv'
  BY <1>3, <1>4, <1>5, RecordsStay DEF MarksInv
<1>7. CASE job' = Idle
  <2>1. MarkInv'
    BY <1>7 DEF MarkInv, Idle
  <2> QED
    BY <1>4, <1>6, <1>7, <2>1, JobBegins DEF MarksInv, Idle
<1>8. CASE ApplyMarks(q, answer, ask)
  <2>1. answer \in {0} \cup Ids
    BY <1>2
  <2>2. /\ job'.stage = "next" /\ job'.turn = q /\ job'.op = "mark"
        /\ job'.answer = answer /\ job'.author = AuthorOf(q, answer)
        /\ job'.reviewed = {} /\ job'.reopened = {}
    BY <1>2, <1>8, <2>1, ApplyMarksTypes, MarkFields
  <2>3. ~recorded'[q].set
    BY <1>2, <1>3, <1>4 DEF MarksInv, RecordInv, Recorded
  <2>4. InConversation(saved', q)
    BY <1>3
  <2>5. CASE saved.turns[q].answer
    <3>1. answer = q /\ q # 0
      BY <1>2, <2>5, IdsAreNat
    <3>2. MarkInv'
      BY <1>3, <1>5, <2>2, <2>3, <2>4, <2>5, <3>1 DEF MarkInv, Latest, OnePerLine
    <3> QED
      BY <1>4, <1>6, <2>2, <3>2, JobBegins DEF MarksInv, Idle
  <2>6. CASE ~saved.turns[q].answer
    <3>1. answer = 0
      BY <2>6
    <3>2. MarkInv'
      BY <1>3, <1>5, <2>2, <2>3, <2>4, <2>6, <3>1 DEF MarkInv, Latest, OnePerLine
    <3> QED
      BY <1>4, <1>6, <2>2, <3>2, JobBegins DEF MarksInv, Idle
  <2> QED
    BY <2>5, <2>6
<1> QED
  BY <1>7, <1>8, AgentTurnTypes

\* A delivery that applies a question's marks does so in the name of the last answer.
LEMMA DeliveredMarks ==
    ASSUME TypeInv, MarksInv, RecordInv', NEW n, RoundOf(saved', n), NEW q \in Ids, q = n,
           NEW boards, saved'.turns[q].answer => q \in AnswerIds(saved'),
           Deliver(saved', q, boards), job = Idle, ~recorded[q].set,
           recorded' = recorded, mark' = mark, own' = own, left' = left
    PROVE  MarksInv'
<1>1. CASE job' = Idle
  <2>1. MarkInv'
    BY <1>1 DEF MarkInv, Idle
  <2> QED
    BY <1>1, <2>1, JobBegins DEF MarksInv, Idle
<1>2. CASE job' # Idle
  <2>1. /\ q \in AnswerIds(saved') /\ ~recorded[ReplyOf(saved', q)].set
        /\ job' \in MarkJobs /\ job'.stage = "next" /\ job'.turn = ReplyOf(saved', q)
        /\ job'.answer = q /\ job'.author = AuthorOf(ReplyOf(saved', q), q)
        /\ job'.reviewed = {} /\ job'.reopened = {}
    BY <1>2, DeliverTypes
  <2>2. job'.op = "mark" /\ q # 0
    BY <2>1, MarkFields, IdsAreNat
  <2>3. InConversation(saved', ReplyOf(saved', q)) /\ \A b \in AnswerIds(saved') : b <= q
    BY <2>1, ReplyIsTurn
  <2>4. MarkInv'
    BY <2>1, <2>2, <2>3 DEF MarkInv, Latest, OnePerLine
  <2> QED
    BY <2>1, <2>2, <2>4, JobBegins DEF MarksInv, Idle
<1> QED
  BY <1>1, <1>2

\* An answer of the reviewer.
LEMMA AnswerMarks ==
    ASSUME TypeInv, MarksInv, NEW q \in Ids, NEW to \in Ids, NEW atBoard \in BOOLEAN,
           Answer(q, to, atBoard), left' = left
    PROVE  MarksInv'
<1>1. PICK n : RoundOf(saved, n)
  BY DEF TypeInv, RoundInv
<1>2. /\ MayPost(saved, to) /\ saved' = PostAnswer(saved, q, to)
      /\ q - 1 \in Made(saved) /\ \A p \in Made(saved) : p < q
  BY DEF Answer, IsNext, Made
<1>3. /\ RoundOf(saved', q) /\ q = n + 1 /\ AnswerIds(saved') = AnswerIds(saved) \cup {q}
      /\ \A b \in AnswerIds(saved) : ReplyOf(saved', b) = ReplyOf(saved, b)
      /\ saved'.conversation = saved.conversation
  BY <1>1, <1>2, AnsweredRound
<1>4. job = Idle /\ recorded' = recorded /\ mark' = mark /\ own' = own /\ Deliver(saved', q, board')
  BY DEF Answer
<1>5. \A p : InConversation(saved, p) => InConversation(saved', p) /\ p # q
  <2>1. \A p : InConversation(saved', p) <=> InConversation(saved, p)
    BY <1>3 DEF InConversation
  <2>2. \A p : InConversation(saved, p) => p \in Ids /\ p <= n
    BY <1>1, TurnsAreMade
  <2>3. \A p \in Ids : p <= n => p # q
    <3>1. n \in Nat /\ Ids \subseteq Nat
      BY <1>1, IdsAreNat DEF RoundOf
    <3> QED
      BY <1>3, <3>1
  <2> QED
    BY <2>1, <2>2, <2>3
<1>6. RecordInv'
  BY <1>3, <1>4, <1>5, RecordsStay DEF MarksInv
<1>7. ~recorded[q].set
  BY <1>5 DEF MarksInv, RecordInv, Recorded
<1> QED
  BY <1>3, <1>4, <1>6, <1>7, DeliveredMarks

\* Retry of the turn.
LEMMA RetryMarks ==
    ASSUME TypeInv, MarksInv, Retry, left' = left
    PROVE  MarksInv'
<1> DEFINE q == saved.retry
<1>1. PICK n : RoundOf(saved, n)
  BY DEF TypeInv, RoundInv
<1>2. WellFormed(saved, n) /\ saved \in Round
  BY <1>1 DEF RoundOf, WellFormed
<1>3. q \in Ids /\ MayPostAgain(saved, q) /\ saved' = PostAgain(saved, q)
  BY <1>2 DEF Retry, Round
<1>4. /\ RoundOf(saved', n) /\ q = n /\ saved'.conversation = saved.conversation
      /\ saved'.answers = saved.answers
  BY <1>1, <1>3, RetriedRound
<1>5. /\ job = Idle /\ recorded' = recorded /\ mark' = mark /\ own' = own
      /\ Deliver(saved', q, board)
  BY DEF Retry
<1>6. /\ \A p : InConversation(saved', p) <=> InConversation(saved, p)
      /\ AnswerIds(saved') = AnswerIds(saved)
      /\ \A b : ReplyOf(saved', b) = ReplyOf(saved, b)
  BY <1>4 DEF InConversation, AnswerIds, ReplyOf
<1>7. RecordInv'
  BY <1>5, <1>6, RecordsStay DEF MarksInv
<1>8. ~recorded[q].set
  BY <1>3 DEF MayPostAgain, MarksInv, RecordInv, Recorded
<1>9. saved'.turns[q].answer => q \in AnswerIds(saved')
  BY <1>3, <1>4 DEF RoundOf, WellFormed
<1> QED
  BY <1>3, <1>4, <1>5, <1>7, <1>8, <1>9, DeliveredMarks

\* Another process, that found no job which marks.
LEMMA RestartMarks ==
    ASSUME TypeInv, MarksInv, Restart, "mark" \notin Crashes, left' = left
    PROVE  MarksInv'
<1>1. PICK n : RoundOf(saved, n)
  BY DEF TypeInv, RoundInv
<1>2. /\ job.op # "mark" /\ job' = Idle /\ recorded' = recorded /\ mark' = mark /\ own' = own
      /\ saved' = StopTurn(saved)
  BY DEF Restart
<1>3. /\ saved'.conversation = saved.conversation /\ saved'.answers = saved.answers
  BY <1>1, <1>2, StoppedRound
<1>4. /\ \A p : InConversation(saved', p) <=> InConversation(saved, p)
      /\ AnswerIds(saved') = AnswerIds(saved)
      /\ \A b : ReplyOf(saved', b) = ReplyOf(saved, b)
  BY <1>3 DEF InConversation, AnswerIds, ReplyOf
<1>5. RecordInv'
  BY <1>2, <1>4, RecordsStay DEF MarksInv
<1>6. MarkInv'
  BY <1>2 DEF MarkInv, Idle
<1> QED
  BY <1>2, <1>5, <1>6, JobBegins DEF MarksInv

-----------------------------------------------------------------------------
(* Applying marks keeps the invariant. *)

\* While the round stands, so does what it has on record.
LEMMA RoundStands ==
    ASSUME RecordInv, round' = round, left' = left
    PROVE  RecordInv' /\ recorded' = recorded /\ saved' = saved
<1>1. recorded' = recorded /\ saved' = saved
  BY DEF round
<1> QED
  BY <1>1, SameRecords DEF RecordInv, Recorded

\* The job's record comes after all there are.
LEMMA RankTop ==
    ASSUME TypeInv, RecordInv, job \in MarkJobs, Latest,
           NEW q \in Ids, recorded[q].set, recorded[q].answer # 0
    PROVE  /\ job.answer # 0 /\ RankOf(q) < Rank(job.turn, job.answer)
           /\ Since(recorded[q].answer, job.author)
<1> DEFINE b == recorded[q].answer
           c == job.answer
<1>1. b \in Ids /\ b \in AnswerIds(saved) /\ (q = b \/ (q = ReplyOf(saved, b) /\ q < b))
  BY RecordIs
<1>2. c # 0 /\ c \in Ids /\ b <= c /\ job.turn \in Ids
  BY <1>1, MarkFields DEF Latest
<1>3. RankOf(q) < Rank(job.turn, c)
  <2>1. CASE b < c
    BY <1>1, <1>2, <2>1, RankOrder DEF RankOf
  <2>2. CASE b = c
    <3>1. q # job.turn
      BY DEF Latest
    <3>2. CASE job.turn = c
      <4>1. q # b
        BY <2>2, <3>1, <3>2
      <4> QED
        BY <1>1, <1>2, <2>2, <3>2, <4>1, RankOrder DEF RankOf
    <3>3. CASE job.turn = ReplyOf(saved, c) /\ ~recorded[c].set
      <4>1. q = c \/ q = ReplyOf(saved, c)
        BY <1>1, <2>2
      <4> QED
        BY <3>1, <3>3, <4>1
    <3> QED
      BY <1>2, <3>2, <3>3 DEF Latest
  <2>3. b \in Nat /\ c \in Nat
    BY <1>1, <1>2, IdsAreNat
  <2> QED
    BY <1>2, <2>1, <2>2, <2>3
<1>4. Since(b, job.author)
  <2>1. job.author = Explore(c)
    BY <1>2, AuthorTypes DEF Latest
  <2> QED
    BY <1>2, <2>1, AuthorTypes DEF Since
<1> QED
  BY <1>2, <1>3, <1>4

\* A file's lines are read: whoever holds one is on record.
LEMMA ReadBeforeMarks ==
    ASSUME TypeInv, MarksInv, NEW f \in Files, ReadBefore(f), left' = left
    PROVE  MarksInv'
<1>1. job \in MarkJobs /\ job.op = "mark" /\ job.stage = "next" /\ f \in job.todo
  BY JobIs DEF ReadBefore, TypeInv
<1>2. round' = round /\ mark' = mark /\ own' = own
  BY DEF ReadBefore
<1>3. /\ job'.op = "mark" /\ job'.stage = "reopen" /\ job'.file = f /\ job'.before = mark
      /\ job'.turn = job.turn /\ job'.author = job.author /\ job'.answer = job.answer
      /\ job'.todo = job.todo /\ job'.reviewed = job.reviewed /\ job'.reopened = job.reopened
  BY <1>1 DEF ReadBefore, MarkJobs
<1>4. RecordInv' /\ recorded' = recorded /\ saved' = saved
  BY <1>2, RoundStands DEF MarksInv
<1>5. MarkInv'
  <2>1. ASSUME NEW l \in In(f), IsAgent(mark[l])
        PROVE  OnRecord(f, mark[l])
    <3>1. l \in Lines /\ l[1] = f
      BY LineTypes
    <3>2. f \notin FilesOf(job.reviewed)
      BY <1>1 DEF MarksInv, MarkInv, FilesOf
    <3> QED
      BY <1>1, <2>1, <3>1, <3>2 DEF MarksInv, HeldInv
  <2>2. \A l \in In(f) : IsAgent(mark[l]) => OnRecord(f, mark[l])'
    BY <1>2, <1>4, <2>1, SameRecords
  <2>3. \A x \in job.reopened : IsAgent(x[2]) => OnRecord(x[1][1], x[2])'
    BY <1>1, <1>4, SameRecords DEF MarksInv, MarkInv
  <2>4. Latest'
    BY <1>1, <1>3, <1>4 DEF MarksInv, MarkInv, Latest
  <2> QED
    BY <1>1, <1>2, <1>3, <2>2, <2>3, <2>4 DEF MarksInv, MarkInv
<1>6. HeldInv'
  BY <1>1, <1>2, <1>3, <1>4, SameRecords DEF MarksInv, HeldInv
<1>7. ASSUME NEW l \in own
      PROVE  ReturnsAfter(l)'
  <2>1. \/ TakenUpTo(l, mark[l])
        \/ <<l, Reviewer>> \in job.reopened /\ mark[l] \in {Nobody, job.author}
    BY <1>1, <1>7 DEF MarksInv, OwnInv, ReturnsAfter, AtFile
  <2>2. TakenUpTo(l, mark[l]) => TakenUpTo(l, mark[l])'
    BY <1>2, <1>3, <1>4, SameRecords DEF TakenUpTo
  <2>3. CASE l[1] = f
    <3>1. <<l, Reviewer>> \notin job.reopened
      BY <1>1, <2>3 DEF MarksInv, MarkInv
    <3>2. AtFile(l)'
      BY <1>3, <2>3 DEF AtFile
    <3>3. TakenUpTo(l, job.before[l])'
      BY <1>2, <1>3, <2>1, <2>2, <3>1 DEF TakenUpTo
    <3>4. mark'[l] = job'.before[l]
      BY <1>2, <1>3
    <3> QED
      BY <3>2, <3>3, <3>4 DEF ReturnsAfter
  <2>4. CASE l[1] # f
    <3>1. ~AtFile(l)'
      BY <1>3, <2>4 DEF AtFile
    <3> QED
      BY <1>2, <1>3, <2>1, <2>2, <3>1 DEF ReturnsAfter
  <2> QED
    BY <2>3, <2>4
<1>8. OwnInv'
  BY <1>2, <1>3, <1>7 DEF OwnInv
<1> QED
  BY <1>3, <1>4, <1>5, <1>6, <1>8 DEF MarksInv, DueInv, UnmarkInv

\* An edit takes lines of the file, those selected among them, or none.
LEMMA PicksAre ==
    ASSUME NEW f, NEW lines, lines \subseteq In(f), NEW picked \in Picks(f, lines)
    PROVE  picked \subseteq In(f) /\ (lines \subseteq picked \/ picked = {})
BY DEF Picks

\* An edit of the job's file: its lines go to nobody or to the job's author.
LEMMA EditMarks ==
    ASSUME TypeInv, MarksInv, job \in MarkJobs, job'.op = "mark", job.stage # "next",
           round' = round, own' = own,
           job'.stage \in {"accept", "after"}, job'.file = job.file, job'.before = job.before,
           job'.turn = job.turn, job'.author = job.author, job'.answer = job.answer,
           job'.todo = job.todo, job'.reviewed = job.reviewed, job'.reopened = job.reopened,
           \A l \in Lines : \/ mark'[l] = mark[l]
                            \/ l[1] = job.file /\ mark'[l] = Nobody
                            \/ l[1] = job.file /\ mark'[l] = job.author /\ job'.stage = "after",
           job.stage # "after", left' = left
    PROVE  MarksInv'
<1>1. job.op = "mark"
  BY MarkFields
<1>2. RecordInv' /\ recorded' = recorded /\ saved' = saved
  BY RoundStands DEF MarksInv
<1>3. MarkInv'
  <2>1. Latest'
    BY <1>1, <1>2 DEF MarksInv, MarkInv, Latest
  <2> QED
    BY <1>1, <1>2, <2>1, SameRecords DEF MarksInv, MarkInv
<1>4. HeldInv'
  <2> SUFFICES ASSUME NEW l \in Lines, IsAgent(mark'[l])
               PROVE  \/ OnRecord(l[1], mark[l])'
                      \/ /\ mark'[l] = job.author
                         /\ \/ l[1] \in FilesOf(job.reviewed)
                            \/ job'.stage = "after" /\ l[1] = job.file
    BY DEF HeldInv
  <2>1. mark'[l] # Nobody
    BY AuthorTypes
  <2>2. CASE mark'[l] = mark[l]
    <3>1. OnRecord(l[1], mark[l]) => OnRecord(l[1], mark[l])'
      BY <1>2, <2>2, SameRecords
    <3> QED
      BY <1>1, <2>2, <3>1 DEF MarksInv, HeldInv
  <2> QED
    BY <2>1, <2>2
<1>5. ASSUME NEW l \in own
      PROVE  ReturnsAfter(l)'
  <2>0. l \in Lines
    BY DEF TypeInv, MarkTypes
  <2>1. ReturnsAfter(l)
    BY <1>1, <1>5 DEF MarksInv, OwnInv
  <2>2. AtFile(l)' <=> AtFile(l)
    BY DEF AtFile
  <2>3. CASE AtFile(l)
    <3>1. TakenUpTo(l, job.before[l]) /\ mark[l] \in {job.before[l], Nobody, job.author}
      BY <2>1, <2>3 DEF ReturnsAfter
    <3>2. TakenUpTo(l, job.before[l])'
      BY <1>2, <3>1, SameRecords DEF TakenUpTo
    <3>3. mark'[l] \in {job.before[l], Nobody, job.author}
      BY <2>0, <3>1
    <3> QED
      BY <2>2, <2>3, <3>2, <3>3 DEF ReturnsAfter
  <2>4. CASE ~AtFile(l)
    <3>1. mark'[l] = mark[l]
      BY <2>0, <2>4 DEF AtFile
    <3>2. TakenUpTo(l, mark[l]) => TakenUpTo(l, mark[l])'
      BY <1>2, <3>1, SameRecords DEF TakenUpTo
    <3> QED
      BY <2>1, <2>2, <2>4, <3>1, <3>2 DEF ReturnsAfter
  <2> QED
    BY <2>3, <2>4
<1>6. OwnInv'
  BY <1>5 DEF OwnInv
<1> QED
  BY <1>2, <1>3, <1>4, <1>6 DEF MarksInv, DueInv, UnmarkInv

\* Lines that the turn asks to reopen.
LEMMA ReopenMarks ==
    ASSUME TypeInv, MarksInv, Reopen, left' = left
    PROVE  MarksInv'
<1>1. job \in MarkJobs /\ job.stage = "reopen" /\ round' = round /\ own' = own
  BY JobIs DEF Reopen, TypeInv
<1>2. /\ job'.op = "mark" /\ job'.stage = "accept" /\ job'.file = job.file
      /\ job'.before = job.before
      /\ job'.turn = job.turn /\ job'.author = job.author /\ job'.answer = job.answer
      /\ job'.todo = job.todo /\ job'.reviewed = job.reviewed /\ job'.reopened = job.reopened
  BY <1>1 DEF Reopen, MarkJobs
<1> DEFINE lines == {l \in job.ask.reopened \cap In(job.file) : mark[l] # Nobody}
<1>3. PICK picked \in Picks(job.file, lines) : mark' = ReopenLines(mark, picked)
  BY DEF Reopen
<1>4. picked \subseteq In(job.file)
  BY PicksAre
<1>5. \A l \in Lines : mark'[l] = mark[l] \/ (l[1] = job.file /\ mark'[l] = Nobody)
  BY <1>3, <1>4, LineTypes DEF ReopenLines
<1> QED
  BY <1>1, <1>2, <1>5, EditMarks

\* Lines that it asks to mark.
LEMMA AcceptMarks ==
    ASSUME TypeInv, MarksInv, Accept, left' = left
    PROVE  MarksInv'
<1>1. job \in MarkJobs /\ job.stage = "accept" /\ round' = round /\ own' = own
  BY JobIs DEF Accept, TypeInv
<1>2. /\ job'.op = "mark" /\ job'.stage = "after" /\ job'.file = job.file
      /\ job'.before = job.before
      /\ job'.turn = job.turn /\ job'.author = job.author /\ job'.answer = job.answer
      /\ job'.todo = job.todo /\ job'.reviewed = job.reviewed /\ job'.reopened = job.reopened
  BY <1>1 DEF Accept, MarkJobs
<1> DEFINE lines == job.ask.reviewed \cap In(job.file) \cap OpenLines(mark)
<1>3. PICK picked \in Picks(job.file, lines) : mark' = AcceptLines(mark, picked, job.author)
  BY DEF Accept
<1>4. picked \subseteq In(job.file)
  BY PicksAre
<1>5. \A l \in Lines : mark'[l] = mark[l] \/ (l[1] = job.file /\ mark'[l] = job.author)
  BY <1>3, <1>4, LineTypes DEF AcceptLines
<1> QED
  BY <1>1, <1>2, <1>5, EditMarks

\* The file is read again: what changed in it is the job's.
LEMMA ReadAfterMarks ==
    ASSUME TypeInv, MarksInv, ReadAfter, left' = left
    PROVE  MarksInv'
<1> DEFINE change == Between(job.file, job.before, mark, job.author)
<1>1. job \in MarkJobs /\ job.op = "mark" /\ job.stage = "after"
  BY JobIs DEF ReadAfter, TypeInv
<1>2. round' = round /\ mark' = mark /\ own' = own
  BY DEF ReadAfter
<1>3. /\ job.before \in [Lines -> Holders] /\ mark \in [Lines -> Holders]
      /\ job.author \in Authors /\ job.file \in job.todo
  BY <1>1, JobIs, MarkFields DEF TypeInv, MarkTypes
<1>4. /\ change.reviewed \in SUBSET Lines /\ change.reopened \in SUBSET (Lines \X Authors)
      /\ \A l \in In(job.file) : l \in change.reviewed <=>
           \/ job.before[l] = Nobody /\ mark[l] # Nobody
           \/ mark[l] = job.author /\ job.before[l] \notin {Nobody, job.author}
      /\ \A l \in change.reviewed : l[1] = job.file
      /\ \A x \in change.reopened :
           /\ x[1] \in In(job.file) /\ x[1][1] = job.file /\ x[2] = job.before[x[1]]
           /\ job.before[x[1]] # Nobody /\ mark[x[1]] # job.before[x[1]]
      /\ \A l \in In(job.file) : job.before[l] # Nobody /\ mark[l] # job.before[l] =>
           <<l, job.before[l]>> \in change.reopened
  <2>1. change = Between(job.file, job.before, mark, job.author)
    OBVIOUS
  <2>2. /\ job.before \in [Lines -> Holders] /\ mark \in [Lines -> Holders]
        /\ job.author \in Authors
    BY <1>3
  <2> HIDE DEF change
  <2>3. ChangeIs(change, job.file, job.before, mark, job.author)
    BY <2>1, <2>2, ChangeTypes
  <2> QED
    BY <2>3 DEF ChangeIs
<1>5. job' = [job EXCEPT !.stage = "next", !.todo = job.todo \ {job.file},
                       !.file = <<>>, !.before = <<>>,
                       !.reviewed = job.reviewed \cup change.reviewed,
                       !.reopened = job.reopened \cup change.reopened]
  BY DEF ReadAfter
<1> HIDE DEF change
<1>6. /\ job'.op = "mark" /\ job'.stage = "next"
      /\ job'.turn = job.turn /\ job'.author = job.author /\ job'.answer = job.answer
      /\ job'.todo = job.todo \ {job.file}
      /\ job'.reviewed = job.reviewed \cup change.reviewed
      /\ job'.reopened = job.reopened \cup change.reopened
  BY <1>1, <1>5 DEF MarkJobs
<1>7. RecordInv' /\ recorded' = recorded /\ saved' = saved
  BY <1>2, RoundStands DEF MarksInv
<1>8. /\ Latest /\ OnePerLine(job.reopened)
      /\ \A l \in job.reviewed : l[1] \notin job.todo
      /\ \A x \in job.reopened : x[1][1] \notin job.todo
      /\ \A x \in job.reopened : IsAgent(x[2]) => OnRecord(x[1][1], x[2])
      /\ \A l \in In(job.file) : IsAgent(job.before[l]) => OnRecord(job.file, job.before[l])
  BY <1>1 DEF MarksInv, MarkInv
<1>9. MarkInv'
  <2>1. Latest'
    BY <1>6, <1>7, <1>8 DEF Latest
  <2>2. \A l \in job'.reviewed : l[1] \notin job'.todo
    BY <1>4, <1>6, <1>8
  <2>3. \A x \in job'.reopened : x[1][1] \notin job'.todo
    BY <1>4, <1>6, <1>8
  <2>4. OnePerLine(job.reopened)'
    <3>1. \A x \in job.reopened : x[1][1] # job.file
      BY <1>3, <1>8
    <3>2. \A x, y \in change.reopened : x[1] = y[1] => x = y
      <4> SUFFICES ASSUME NEW x \in change.reopened, NEW y \in change.reopened, x[1] = y[1]
                   PROVE  x = y
        OBVIOUS
      <4>1. x[2] = y[2]
        BY <1>4
      <4>2. x \in Lines \X Authors /\ y \in Lines \X Authors
        BY <1>4
      <4> QED
        BY <4>1, <4>2
    <3>3. \A x \in change.reopened : x[1][1] = job.file
      BY <1>4
    <3>4. \A x, y \in job.reopened : x[1] = y[1] => x = y
      BY <1>8 DEF OnePerLine
    <3>5. ASSUME NEW x \in job.reopened \cup change.reopened,
                 NEW y \in job.reopened \cup change.reopened, x[1] = y[1]
          PROVE  x = y
      <4>1. x \in job.reopened <=> y \in job.reopened
        BY <3>1, <3>3, <3>5
      <4> QED
        BY <3>2, <3>4, <3>5, <4>1
    <3> QED
      BY <1>6, <3>5 DEF OnePerLine
  <2>5. \A x \in job'.reopened : IsAgent(x[2]) => OnRecord(x[1][1], x[2])'
    <3>1. ASSUME NEW x \in change.reopened, IsAgent(x[2])
          PROVE  OnRecord(x[1][1], x[2])
      BY <1>4, <1>8, <3>1
    <3> QED
      BY <1>6, <1>7, <1>8, <3>1, SameRecords
  <2> QED
    BY <1>6, <2>1, <2>2, <2>3, <2>4, <2>5 DEF MarkInv
<1>10. HeldInv'
  <2> SUFFICES ASSUME NEW l \in Lines, IsAgent(mark[l])
               PROVE  OnRecord(l[1], mark[l])
                        \/ (mark[l] = job.author /\ l[1] \in FilesOf(job'.reviewed))
    BY <1>2, <1>6, <1>7, SameRecords DEF HeldInv
  <2>1. \/ OnRecord(l[1], mark[l])
        \/ /\ mark[l] = job.author
           /\ l[1] \in FilesOf(job.reviewed) \/ l[1] = job.file
    BY <1>1 DEF MarksInv, HeldInv
  <2>2. FilesOf(job.reviewed) \subseteq FilesOf(job'.reviewed)
    BY <1>6 DEF FilesOf
  <2>3. CASE mark[l] = job.author /\ l[1] = job.file
    <3>1. l \in In(job.file)
      BY <2>3, LineTypes
    <3>2. CASE job.before[l] = job.author
      BY <1>8, <2>3, <3>1, <3>2
    <3>3. CASE job.before[l] # job.author
      <4>1. mark[l] # Nobody
        BY AuthorTypes
      <4>2. l \in change.reviewed
        BY <1>4, <2>3, <3>1, <3>3, <4>1
      <4> QED
        BY <1>6, <2>3, <4>2 DEF FilesOf
    <3> QED
      BY <3>2, <3>3
  <2> QED
    BY <2>1, <2>2, <2>3
<1>11. ASSUME NEW l \in own
       PROVE  TakenUpTo(l, mark[l])'
                \/ (<<l, Reviewer>> \in job'.reopened /\ mark[l] \in {Nobody, job.author})
  <2>0. l \in Lines
    BY DEF TypeInv, MarkTypes
  <2>1. ReturnsAfter(l)
    BY <1>1, <1>11 DEF MarksInv, OwnInv
  <2>2. CASE l[1] # job.file
    <3>1. TakenUpTo(l, mark[l])
            \/ (<<l, Reviewer>> \in job.reopened /\ mark[l] \in {Nobody, job.author})
      BY <2>1, <2>2 DEF ReturnsAfter, AtFile
    <3>2. \A x \in job'.reopened : x[1] = l => x \in job.reopened
      BY <1>4, <1>6, <2>2
    <3>3. TakenUpTo(l, mark[l]) => TakenUpTo(l, mark[l])'
      BY <1>2, <1>7, <3>2, SameRecords DEF TakenUpTo
    <3> QED
      BY <1>6, <3>1, <3>3
  <2>3. CASE l[1] = job.file
    <3>0. l \in In(job.file)
      BY <2>0, <2>3, LineTypes
    <3>1. TakenUpTo(l, job.before[l]) /\ mark[l] \in {job.before[l], Nobody, job.author}
      BY <1>1, <2>1, <2>3 DEF ReturnsAfter, AtFile
    <3>2. \A x \in job'.reopened : x[1] = l =>
            x \in change.reopened /\ x[2] = job.before[l] /\ mark[l] # job.before[l]
                                  /\ job.before[l] # Nobody
      BY <1>3, <1>4, <1>6, <1>8, <2>3
    <3>3. CASE mark[l] = job.before[l]
      BY <1>2, <1>7, <3>1, <3>2, <3>3, SameRecords DEF TakenUpTo
    <3>4. CASE mark[l] # job.before[l] /\ job.before[l] = Reviewer
      <4>1. <<l, Reviewer>> \in change.reopened
        BY <1>4, <3>0, <3>4, AuthorTypes
      <4> QED
        BY <1>6, <3>1, <3>4, <4>1
    <3>5. CASE mark[l] # job.before[l] /\ job.before[l] # Reviewer
      <4>1. PICK q \in Ids : TakenBy(q, l, job.before[l])
        BY <3>1, <3>5 DEF TakenUpTo
      <4>2. recorded[q].answer # 0 => Since(recorded[q].answer, job.author)
        BY <1>1, <1>8, <4>1, RankTop DEF TakenBy, MarksInv
      <4>3. TakenBy(q, l, mark[l])
        BY <3>1, <3>5, <4>1, <4>2 DEF TakenBy
      <4>4. recorded[q].answer # 0 =>
              \A x \in job'.reopened : x[1] = l => Since(recorded[q].answer, x[2])
        BY <3>2, <4>1 DEF TakenBy
      <4> QED
        BY <1>2, <1>7, <4>3, <4>4, SameRecords DEF TakenUpTo
    <3> QED
      BY <3>3, <3>4, <3>5
  <2> QED
    BY <2>2, <2>3
<1>12. OwnInv'
  <2>1. \A l \in own : ~AtFile(l)'
    BY <1>6 DEF AtFile
  <2> QED
    BY <1>2, <1>6, <1>11, <2>1 DEF OwnInv, ReturnsAfter
<1> QED
  BY <1>6, <1>7, <1>9, <1>10, <1>12 DEF MarksInv, DueInv, UnmarkInv

\* The round records what changed, after all it has on record.
LEMMA RecordMarks ==
    ASSUME TypeInv, MarksInv, Record, left' = left
    PROVE  MarksInv'
<1> DEFINE new == [set |-> TRUE, answer |-> job.answer, reviewed |-> job.reviewed,
                   reopened |-> job.reopened]
<1>1. job \in MarkJobs /\ job.op = "mark" /\ job.stage = "next"
  BY JobIs DEF Record, TypeInv
<1>0. PICK t \in Ids : t = job.turn
  BY <1>1, MarkFields
<1>2. /\ t = job.turn /\ job.answer \in {0} \cup Ids /\ job.author \in Authors
      /\ job.reviewed \in SUBSET Lines /\ job.reopened \in SUBSET (Lines \X Authors)
  BY <1>0, <1>1, MarkFields
<1>3. /\ saved' = saved /\ mark' = mark /\ own' = own /\ job' = Idle
      /\ recorded' = [recorded EXCEPT ![t] = new]
  BY <1>0 DEF Record
<1>4. /\ recorded'[t] = new /\ \A q \in Ids : q # t => recorded'[q] = recorded[q]
  BY <1>2, <1>3 DEF TypeInv, MarkTypes
<1>5. /\ recorded'[t].set /\ recorded'[t].answer = job.answer
      /\ recorded'[t].reviewed = job.reviewed /\ recorded'[t].reopened = job.reopened
  BY <1>4
<1> HIDE DEF new
<1>6. /\ Latest /\ OnePerLine(job.reopened) /\ ~recorded[t].set
      /\ \A x \in job.reopened : IsAgent(x[2]) => OnRecord(x[1][1], x[2])
  BY <1>0, <1>1 DEF MarksInv, MarkInv, Latest
<1>7. \A q \in Ids : recorded[q].set =>
        /\ q # t /\ recorded'[q] = recorded[q]
        /\ RankOf(q)' = RankOf(q) /\ Holder(q)' = Holder(q)
  BY <1>4, <1>6 DEF RankOf, Holder
<1>8. RankOf(t)' = Rank(t, job.answer) /\ Holder(t)' = job.author
  BY <1>2, <1>5, <1>6 DEF RankOf, Holder, Latest
<1>9. \A q \in Ids : recorded[q].set /\ recorded[q].answer # 0 =>
        /\ job.answer # 0 /\ RankOf(q) < Rank(t, job.answer)
        /\ Since(recorded[q].answer, job.author)
  BY <1>1, <1>2, <1>6, RankTop DEF MarksInv
<1>10. \A f, author : OnRecord(f, author) =>
         OnRecord(f, author)' /\ OnEarlier(f, author, RankOf(t))'
  <2> SUFFICES ASSUME NEW f, NEW author, OnRecord(f, author)
               PROVE  OnRecord(f, author)' /\ OnEarlier(f, author, RankOf(t))'
    OBVIOUS
  <2>0. CASE <<f, author>> \in left
    BY <2>0 DEF OnRecord, OnEarlier
  <2>1. ASSUME NEW q \in Ids, recorded[q].set, Holder(q) = author,
               f \in FilesOf(recorded[q].reviewed)
        PROVE  OnRecord(f, author)' /\ OnEarlier(f, author, RankOf(t))'
    BY <1>7, <1>8, <1>9, <2>1 DEF OnRecord, OnEarlier
  <2> QED
    BY <2>0, <2>1 DEF OnRecord
<1>11. RecordInv'
  <2> SUFFICES ASSUME NEW q \in Ids, recorded'[q].set
               PROVE  /\ Recorded(q)' /\ OnePerLine(recorded'[q].reopened)
                      /\ \A x \in recorded'[q].reopened :
                           IsAgent(x[2]) => OnEarlier(x[1][1], x[2], RankOf(q))'
    BY DEF RecordInv
  <2>1. CASE q = t
    <3>1. Recorded(t)'
      <4>1. job.answer = 0 => t \notin AnswerIds(saved)
        BY <1>6 DEF Latest
      <4> QED
        BY <1>2, <1>3, <1>5, <1>6, <4>1 DEF Recorded, Latest
    <3> QED
      BY <1>5, <1>6, <1>10, <2>1, <3>1
  <2>2. CASE q # t
    <3>1. recorded'[q] = recorded[q] /\ recorded[q].set
      BY <1>4, <2>2
    <3>2. Recorded(q)'
      BY <1>3, <3>1 DEF Recorded, MarksInv, RecordInv
    <3>3. ASSUME NEW x \in recorded[q].reopened, IsAgent(x[2])
          PROVE  OnEarlier(x[1][1], x[2], RankOf(q))'
      <4>1. OnEarlier(x[1][1], x[2], RankOf(q))
        BY <3>1, <3>3 DEF MarksInv, RecordInv
      <4> QED
        BY <1>7, <3>1, <4>1 DEF OnEarlier
    <3> QED
      BY <3>1, <3>2, <3>3 DEF MarksInv, RecordInv
  <2> QED
    BY <2>1, <2>2
<1>12. HeldInv'
  <2> SUFFICES ASSUME NEW l \in Lines, IsAgent(mark[l])
               PROVE  OnRecord(l[1], mark[l])'
    BY <1>3 DEF HeldInv
  <2>1. CASE OnRecord(l[1], mark[l])
    BY <1>3, <1>10, <2>1
  <2>2. CASE mark[l] = job.author /\ l[1] \in FilesOf(job.reviewed)
    BY <1>2, <1>3, <1>5, <1>8, <2>2 DEF OnRecord
  <2> QED
    BY <1>1, <2>1, <2>2 DEF MarksInv, HeldInv
<1>13. ASSUME NEW l \in own
       PROVE  Returns(l)'
  <2>1. \/ TakenUpTo(l, mark[l])
        \/ <<l, Reviewer>> \in job.reopened /\ mark[l] \in {Nobody, job.author}
    BY <1>1, <1>13 DEF MarksInv, OwnInv, ReturnsAfter, AtFile
  <2>2. ASSUME NEW q \in Ids, TakenBy(q, l, mark[l])'
        PROVE  Returns(l)'
    BY <1>3, <2>2 DEF Returns, Idle
  <2>3. CASE mark[l] = Reviewer
    BY <1>3, <2>3 DEF Returns
  <2>4. ASSUME NEW q \in Ids, TakenBy(q, l, mark[l]),
               recorded[q].answer # 0 =>
                 \A x \in job.reopened : x[1] = l => Since(recorded[q].answer, x[2])
        PROVE  Returns(l)'
    <3>1. recorded[q].set /\ recorded'[q] = recorded[q] /\ RankOf(q)' = RankOf(q)
      BY <1>7, <2>4 DEF TakenBy
    <3>2. ASSUME recorded[q].answer # 0, NEW p \in Ids, recorded'[p].set,
                 RankOf(p)' > RankOf(q), NEW x \in recorded'[p].reopened, x[1] = l
          PROVE  Since(recorded[q].answer, x[2])
      <4>1. CASE p = t
        BY <1>5, <2>4, <3>2, <4>1
      <4>2. CASE p # t
        <5>1. recorded'[p] = recorded[p] /\ RankOf(p)' = RankOf(p)
          BY <1>4, <1>7, <3>2, <4>2
        <5> QED
          BY <2>4, <3>2, <5>1 DEF TakenBy
      <4> QED
        BY <4>1, <4>2
    <3>3. TakenBy(q, l, mark[l])'
      BY <1>3, <2>4, <3>1, <3>2 DEF TakenBy
    <3> QED
      BY <2>2, <3>3
  <2>5. CASE <<l, Reviewer>> \in job.reopened /\ mark[l] \in {Nobody, job.author}
    <3>1. job.answer # 0 => Since(job.answer, job.author)
      <4>1. job.answer # 0 => job.author = Explore(job.answer) /\ job.answer \in Nat
        BY <1>2, <1>6, AuthorTypes, IdsAreNat DEF Latest
      <4> QED
        BY <4>1, AuthorTypes DEF Since
    <3>2. ASSUME job.answer # 0, NEW p \in Ids, recorded'[p].set, RankOf(p)' > RankOf(t)'
          PROVE  FALSE
      <4>0. RankOf(t)' \in Nat /\ RankOf(t)' > 0
        BY <1>2, <1>8, <3>2, RankOrder
      <4>1. p # t
        BY <3>2, <4>0
      <4>2. recorded[p].set /\ RankOf(p)' = RankOf(p)
        BY <1>4, <1>7, <3>2, <4>1
      <4>3. RankOf(p) \in Nat /\ (recorded[p].answer = 0 => RankOf(p) = 0)
        BY <4>2, RecordIs DEF MarksInv
      <4>4. CASE recorded[p].answer = 0
        BY <3>2, <4>0, <4>2, <4>3, <4>4
      <4>5. CASE recorded[p].answer # 0
        BY <1>8, <1>9, <3>2, <4>0, <4>2, <4>3, <4>5
      <4> QED
        BY <4>4, <4>5
    <3>3. TakenBy(t, l, mark[l])'
      BY <1>2, <1>3, <1>5, <2>5, <3>1, <3>2 DEF TakenBy
    <3> QED
      BY <1>2, <2>2, <3>3
  <2> QED
    BY <2>1, <2>3, <2>4, <2>5 DEF TakenUpTo
<1>14. OwnInv'
  BY <1>3, <1>13 DEF OwnInv, Idle
<1> QED
  BY <1>3, <1>11, <1>12, <1>14 DEF MarksInv, DueInv, UnmarkInv, MarkInv, Idle

-----------------------------------------------------------------------------
(* Giving marks back keeps the invariant. *)

\* Cancel: what the answers that go hold is in its plan, and what it gives back to one
\* of them it gives back before that one.
LEMMA CancelFromMarks ==
    ASSUME TypeInv, MarksInv, NEW a \in Ids, CancelFrom(a), left' = left
    PROVE  MarksInv'
<1>1. /\ job = Idle /\ MayCancelFrom(saved, a)
      /\ round' = round /\ mark' = mark /\ own' = own
  BY DEF CancelFrom
<1>2. RecordInv' /\ recorded' = recorded /\ saved' = saved
  BY <1>1, RoundStands DEF MarksInv
<1>0. PICK gone : gone = AnswersFrom(saved, a)
  OBVIOUS
<1>3. PICK plan \in SUBSET Entries :
        /\ job' = UnmarkJob("cancel", a, plan)
        /\ \A x \in plan : \E q \in Ids :
             recorded[q].set /\ recorded[q].answer \in gone /\ x = Entry(q)
        /\ \A q \in Ids : recorded[q].set /\ recorded[q].answer \in gone => Entry(q) \in plan
  <2> DEFINE entries == UNION {RecordsOf(saved, b, AnswersFrom(saved, a)) :
                                  b \in AnswersFrom(saved, a)}
  <2>1. job' = UnmarkJob("cancel", a, entries)
    BY DEF CancelFrom
  <2>2. entries \in SUBSET Entries
    <3>1. \A b \in AnswersFrom(saved, a) :
            RecordsOf(saved, b, AnswersFrom(saved, a)) \in SUBSET Entries
      BY <1>1, GoneAre, RecordsAre
    <3> QED
      BY <3>1
  <2>3. /\ \A x \in entries : \E q \in Ids :
             recorded[q].set /\ recorded[q].answer \in AnswersFrom(saved, a) /\ x = Entry(q)
        /\ \A q \in Ids : recorded[q].set /\ recorded[q].answer \in AnswersFrom(saved, a) =>
             Entry(q) \in entries
    BY <1>1, CancelPlan DEF MarksInv
  <2> HIDE DEF entries
  <2> QED
    BY <1>0, <2>1, <2>2, <2>3
<1>4. /\ job'.op = "unmark" /\ job'.stage = "poll" /\ job'.plan = plan
      /\ job'.then = "cancel" /\ job'.answer = a
  <2>1. a \in {0} \cup Ids
    OBVIOUS
  <2> QED
    BY <1>3, <2>1, UnmarkJobTypes
<1>5. Gone' = gone /\ AtWork' = {} /\ ~Giving' /\ 0 \notin gone
  BY <1>0, <1>1, <1>2, <1>4, GoneAre DEF Gone, AtWork, Giving
<1>6. \A q \in Ids : Entry(q)' = Entry(q) /\ Entry(q).by = Holder(q) /\ Entry(q).of = recorded[q]
                     /\ Entry(q).rank = RankOf(q)
  BY <1>2, SameRecords DEF Entry
<1>7. \A q \in Ids : recorded[q].set => IsAgent(Holder(q))
  BY RecordIs DEF MarksInv
<1>8. UnmarkInv'
  <2>1. \A x \in plan : \E q \in Ids :
             recorded'[q].set /\ recorded'[q].answer \in gone /\ x = Entry(q)'
    BY <1>2, <1>3, <1>6
  <2>2. \A x \in plan : IsAgent(x.by)
    BY <1>3, <1>6, <1>7
  <2> QED
    BY <1>4, <1>5, <2>1, <2>2 DEF UnmarkInv
<1>9. \A author : Due(author)' <=> author.by = "explore" /\ author.id \in gone
  BY <1>4, <1>5 DEF Due
<1>10. \A q \in Ids : recorded[q].set /\ Holder(q).by = "explore" /\ Holder(q).id \in gone =>
         recorded[q].answer \in gone /\ recorded[q].answer # 0
  <2> SUFFICES ASSUME NEW q \in Ids, recorded[q].set, Holder(q).by = "explore",
                      Holder(q).id \in gone
               PROVE  recorded[q].answer \in gone /\ recorded[q].answer # 0
    OBVIOUS
  <2>1. recorded[q].answer = 0 => Holder(q) = ExploreRead(q)
    BY RecordIs DEF MarksInv
  <2>2. recorded[q].answer # 0
    BY <2>1, AuthorTypes
  <2>3. Holder(q) = Explore(recorded[q].answer)
    BY <2>2, RecordIs DEF MarksInv
  <2> QED
    BY <2>2, <2>3, AuthorTypes
<1>11. DueInv'
  <2>1. ASSUME NEW l \in Lines, mark[l].by = "explore", mark[l].id \in gone
        PROVE  \/ <<l[1], mark[l]>> \in left
               \/ \E x \in plan : x.by = mark[l] /\ l[1] \in FilesOf(x.of.reviewed)
    <3> SUFFICES ASSUME <<l[1], mark[l]>> \notin left
                 PROVE  \E x \in plan : x.by = mark[l] /\ l[1] \in FilesOf(x.of.reviewed)
      OBVIOUS
    <3>1. OnRecord(l[1], mark[l])
      BY <1>1, <2>1, NoJob DEF IsAgent, Idle
    <3>2. PICK q \in Ids : /\ recorded[q].set /\ Holder(q) = mark[l]
                           /\ l[1] \in FilesOf(recorded[q].reviewed)
      BY <3>1 DEF OnRecord
    <3> QED
      BY <1>3, <1>6, <1>10, <2>1, <3>2
  <2>2. ASSUME NEW x \in plan, NEW y \in x.of.reopened, y[2].by = "explore", y[2].id \in gone
        PROVE  \/ <<y[1][1], y[2]>> \in left
               \/ \E z \in plan :
                    z.by = y[2] /\ z.rank < x.rank /\ y[1][1] \in FilesOf(z.of.reviewed)
    <3> SUFFICES ASSUME <<y[1][1], y[2]>> \notin left
                 PROVE  \E z \in plan :
                          z.by = y[2] /\ z.rank < x.rank /\ y[1][1] \in FilesOf(z.of.reviewed)
      OBVIOUS
    <3>1. PICK q \in Ids :
             recorded[q].set /\ recorded[q].answer \in gone /\ x = Entry(q)
      BY <1>3
    <3>2. OnEarlier(y[1][1], y[2], RankOf(q))
      BY <1>6, <2>2, <3>1 DEF IsAgent, MarksInv, RecordInv
    <3>3. PICK p \in Ids :
            /\ recorded[p].set /\ Holder(p) = y[2] /\ y[1][1] \in FilesOf(recorded[p].reviewed)
            /\ recorded[p].answer # 0 => RankOf(p) < RankOf(q)
      BY <3>2 DEF OnEarlier
    <3>4. recorded[p].answer \in gone /\ recorded[p].answer # 0
      BY <1>10, <2>2, <3>3
    <3> QED
      BY <1>3, <1>6, <3>1, <3>3, <3>4
  <2> QED
    BY <1>1, <1>4, <1>5, <1>9, <2>1, <2>2 DEF DueInv
<1>12. HeldInv'
  BY <1>1, <1>2, <1>4, NoJob, SameRecords DEF HeldInv, Idle
<1>13. ASSUME NEW l \in own
       PROVE  Returns(l)'
  <2>1. mark[l] = Reviewer \/ \E q \in Ids : TakenBy(q, l, mark[l])
    BY <1>1, <1>13, NoJob DEF Idle
  <2>2. ASSUME NEW q \in Ids, TakenBy(q, l, mark[l])
        PROVE  Returns(l)'
    <3>1. TakenBy(q, l, mark[l])' /\ recorded[q].set
      BY <1>1, <1>2, <2>2, SameRecords DEF TakenBy
    <3>2. recorded'[q].answer \in Gone' => Entry(q)' \in job'.plan
      BY <1>2, <1>3, <1>4, <1>5, <1>6, <3>1
    <3> QED
      BY <3>1, <3>2 DEF Returns, Comes
  <2>3. mark[l] = Reviewer => Returns(l)'
    BY <1>1 DEF Returns
  <2> QED
    BY <2>1, <2>2, <2>3
<1>14. OwnInv'
  BY <1>1, <1>4, <1>13 DEF OwnInv
<1> QED
  BY <1>2, <1>4, <1>8, <1>11, <1>12, <1>14 DEF MarksInv, MarkInv

\* An implementation request leaves the conversation and the answers as they are.
LEMMA AuthorizedRecords ==
    ASSUME TypeInv, RecordInv, MayAuthorize(saved, 1), saved' = Authorize(saved, 1),
           recorded' = recorded, left' = left
    PROVE  RecordInv'
<1>1. PICK n : RoundOf(saved, n)
  BY DEF TypeInv, RoundInv
<1>2. saved'.conversation = saved.conversation /\ saved'.answers = saved.answers
  BY <1>1, AuthorizedRound
<1>3. /\ \A p : InConversation(saved', p) <=> InConversation(saved, p)
      /\ AnswerIds(saved') = AnswerIds(saved)
      /\ \A b : ReplyOf(saved', b) = ReplyOf(saved, b)
  BY <1>2 DEF InConversation, AnswerIds, ReplyOf
<1> QED
  BY <1>3, RecordsStay

\* Implement: all that is held for the round is in its plan.
LEMMA ImplementMarks ==
    ASSUME TypeInv, MarksInv, Implement, left' = left
    PROVE  MarksInv'
<1>1. /\ job = Idle /\ recorded' = recorded /\ mark' = mark /\ own' = own
      /\ MayAuthorize(saved, 1)
  BY DEF Implement
<1>2. CASE ~AtBoard(saved)
  <2>1. saved' = Authorize(saved, 1) /\ job' = Idle
    BY <1>2 DEF Implement
  <2>2. RecordInv'
    BY <1>1, <2>1, AuthorizedRecords DEF MarksInv
  <2> QED
    BY <1>1, <2>1, <2>2, JobBegins DEF MarksInv, MarkInv, Idle
<1>3. CASE AtBoard(saved)
  <2> DEFINE entry(q) == [turn |-> q, by |-> AuthorOf(q, recorded[q].answer),
                          of |-> HeldOnly(recorded[q]), rank |-> 0]
             entries == {entry(q) : q \in {p \in Ids : recorded[p].set}}
  <2>1. job' = UnmarkJob("implement", 0, entries) /\ round' = round
    BY <1>3 DEF Implement, round
  <2>2. RecordInv' /\ saved' = saved
    BY <2>1, RoundStands DEF MarksInv
  <2>3. \A q \in Ids : recorded[q] \in TurnMarks
    BY DEF TypeInv, MarkTypes
  <2>4. \A q \in Ids : recorded[q].set =>
          /\ entry(q) \in Entries /\ IsAgent(entry(q).by) /\ entry(q).by = Holder(q)
          /\ entry(q).of.reopened = {} /\ entry(q).of.reviewed = recorded[q].reviewed
    <3> SUFFICES ASSUME NEW q \in Ids, recorded[q].set
                 PROVE  /\ entry(q) \in Entries /\ IsAgent(entry(q).by)
                        /\ entry(q).by = Holder(q) /\ entry(q).of.reopened = {}
                        /\ entry(q).of.reviewed = recorded[q].reviewed
      OBVIOUS
    <3>1. /\ HeldOnly(recorded[q]) \in TurnMarks /\ HeldOnly(recorded[q]).reopened = {}
          /\ HeldOnly(recorded[q]).reviewed = recorded[q].reviewed
      BY <2>3 DEF HeldOnly, TurnMarks
    <3>2. AuthorOf(q, recorded[q].answer) = Holder(q)
      BY DEF Holder
    <3>3. Holder(q) \in Authors /\ IsAgent(Holder(q))
      BY RecordIs DEF MarksInv
    <3> QED
      BY <3>1, <3>2, <3>3 DEF Entries
  <2>5. PICK plan \in SUBSET Entries :
          /\ job' = UnmarkJob("implement", 0, plan)
          /\ \A x \in plan : x.of.reopened = {} /\ IsAgent(x.by)
          /\ \A q \in Ids : recorded[q].set => \E x \in plan :
               x.by = Holder(q) /\ x.of.reviewed = recorded[q].reviewed
    <3>1. entries \in SUBSET Entries
      BY <2>4
    <3>2. \A x \in entries : x.of.reopened = {} /\ IsAgent(x.by)
      BY <2>4
    <3>3. \A q \in Ids : recorded[q].set => \E x \in entries :
               x.by = Holder(q) /\ x.of.reviewed = recorded[q].reviewed
      <4> SUFFICES ASSUME NEW q \in Ids, recorded[q].set
                   PROVE  \E x \in entries :
                            x.by = Holder(q) /\ x.of.reviewed = recorded[q].reviewed
        OBVIOUS
      <4>1. entry(q) \in entries
        OBVIOUS
      <4> HIDE DEF entry, entries
      <4> QED
        BY <2>4, <4>1
    <3> HIDE DEF entries
    <3> QED
      BY <2>1, <3>1, <3>2, <3>3
  <2>6. /\ job'.op = "unmark" /\ job'.stage = "poll" /\ job'.plan = plan
        /\ job'.then = "implement" /\ ~job'.failed
    BY <2>5, UnmarkJobTypes
  <2>7. AtWork' = {} /\ ~Giving' /\ \A author : Due(author)' <=> IsAgent(author)
    BY <2>6 DEF AtWork, Giving, Due, IsAgent
  <2>8. UnmarkInv'
    BY <2>5, <2>6, <2>7 DEF UnmarkInv
  <2>9. DueInv'
    <3>1. ASSUME NEW l \in Lines, IsAgent(mark[l])
          PROVE  \/ <<l[1], mark[l]>> \in left
                 \/ \E x \in plan : x.by = mark[l] /\ l[1] \in FilesOf(x.of.reviewed)
      <4>1. OnRecord(l[1], mark[l])
        BY <1>1, <3>1, NoJob DEF Idle
      <4>2. ASSUME NEW q \in Ids, recorded[q].set, Holder(q) = mark[l],
                   l[1] \in FilesOf(recorded[q].reviewed)
            PROVE  \E x \in plan : x.by = mark[l] /\ l[1] \in FilesOf(x.of.reviewed)
        BY <2>5, <4>2
      <4> QED
        BY <4>1, <4>2 DEF OnRecord
    <3> QED
      BY <1>1, <2>5, <2>6, <2>7, <3>1 DEF DueInv
  <2>10. HeldInv'
    BY <1>1, <2>6, NoJob, SameRecords DEF HeldInv, Idle
  <2>11. ASSUME NEW l \in own
         PROVE  Returns(l)'
    <3>1. mark[l] = Reviewer \/ \E q \in Ids : TakenBy(q, l, mark[l])
      BY <1>1, <2>11, NoJob DEF Idle
    <3>2. mark[l]' = Reviewer \/ \E q \in Ids : TakenBy(q, l, mark[l])'
      BY <1>1, <3>1, SameRecords
    <3> QED
      BY <2>6, <3>2 DEF Returns
  <2>12. OwnInv'
    BY <1>1, <2>6, <2>11 DEF OwnInv
  <2> QED
    BY <2>2, <2>6, <2>8, <2>9, <2>10, <2>12 DEF MarksInv, MarkInv
<1> QED
  BY <1>2, <1>3

\* A job that goes on giving back.
LEMMA SameJob ==
    ASSUME MarksInv, job.op = "unmark", round' = round, job'.op = "unmark",
           job'.then = job.then, job'.answer = job.answer, job'.failed <=> job.failed, left' = left
    PROVE  /\ RecordInv' /\ MarkInv' /\ recorded' = recorded /\ saved' = saved /\ Gone' = Gone
           /\ \A author : Due(author)' <=> Due(author)
           /\ \A q : Entry(q)' = Entry(q)
<1>1. RecordInv' /\ recorded' = recorded /\ saved' = saved
  BY RoundStands DEF MarksInv
<1>2. Gone' = Gone
  BY <1>1 DEF Gone
<1>3. \A author : Due(author)' <=> Due(author)
  BY <1>2 DEF Due
<1> QED
  BY <1>1, <1>2, <1>3, SameRecords DEF MarkInv

\* A reviewer's line returns as before, if the job comes to it as before.
LEMMA ReturnsAgain ==
    ASSUME MarksInv, job.op = "unmark", round' = round, job'.op = "unmark",
           job'.then = job.then, job'.answer = job.answer, job'.failed <=> job.failed,
           NEW l \in own, mark'[l] = mark[l],
           \A q \in Ids :
             recorded[q].set /\ <<l, Reviewer>> \in recorded[q].reopened /\ Comes(q, l) =>
               Comes(q, l)',
           left' = left
    PROVE  Returns(l)'
<1>1. recorded' = recorded /\ Gone' = Gone
  BY SameJob
<1>2. Returns(l)
  BY DEF MarksInv, OwnInv
<1>3. mark[l] = Reviewer => Returns(l)'
  BY DEF Returns
<1>4. ASSUME NEW q \in Ids, TakenBy(q, l, mark[l]),
             job.then = "cancel" /\ recorded[q].answer \in Gone => Comes(q, l)
      PROVE  Returns(l)'
  <2>1. TakenBy(q, l, mark[l])'
    BY <1>1, <1>4, SameRecords
  <2>2. recorded[q].set /\ <<l, Reviewer>> \in recorded[q].reopened
    BY <1>4 DEF TakenBy
  <2>3. job'.then = "cancel" /\ recorded'[q].answer \in Gone' => Comes(q, l)'
    BY <1>1, <1>4, <2>2
  <2> QED
    BY <2>1, <2>3 DEF Returns
<1> QED
  BY <1>2, <1>3, <1>4 DEF Returns

\* The next record: all of its files are ahead, and what it gives back to someone who is
\* still to give up their lines is given back first.
LEMMA PollMarks ==
    ASSUME TypeInv, MarksInv, UnmarkPoll, left' = left
    PROVE  MarksInv'
<1> DEFINE absentOf(x, files) == UNION {In(f) : f \in NamedBy(x.of) \ files}
           missedOf(x, files) ==
               {<<l[1], x.by>> : l \in {k \in absentOf(x, files) : mark[k] = x.by}}
           goesOn(x, files, unchanged) ==
               job' = [job EXCEPT !.stage = "files", !.unchanged = unchanged, !.giving = x,
                           !.plan = job.plan \ {x}, !.files = files,
                           !.missed = job.missed \cup missedOf(x, files)]
<1>1. /\ job \in UnmarkJobs /\ job.op = "unmark" /\ job.stage = "poll"
      /\ round' = round /\ mark' = mark
  BY JobIs DEF UnmarkPoll, TypeInv
<1>21. PICK x \in Foremost : \E files \in SUBSET NamedBy(x.of) :
         \E unchanged \in SUBSET (files \cap FilesOf({y[1] : y \in x.of.reopened})) :
           goesOn(x, files, unchanged) /\ own' = own \ absentOf(x, files)
  BY DEF UnmarkPoll, Unfollowed
<1>22. PICK files \in SUBSET NamedBy(x.of) :
         \E unchanged \in SUBSET (files \cap FilesOf({y[1] : y \in x.of.reopened})) :
           goesOn(x, files, unchanged) /\ own' = own \ absentOf(x, files)
  BY <1>21
<1> DEFINE absent == absentOf(x, files)
           missed == missedOf(x, files)
<1>2. /\ own' = own \ absent
      /\ \E unchanged : goesOn(x, files, unchanged)
  BY <1>22
<1>3. /\ job'.op = "unmark" /\ job'.stage = "files" /\ job'.giving = x
      /\ job'.plan = job.plan \ {x} /\ job'.files = files
      /\ job'.missed = job.missed \cup missed
      /\ job'.then = job.then /\ job'.answer = job.answer /\ (job'.failed <=> job.failed)
  <2> HIDE DEF missedOf
  <2> QED
    BY <1>1, <1>2 DEF UnmarkJobs
\* A line in a file that the record names is in one that is visited, or absent.
<1>23. \A l \in Lines : l[1] \in NamedBy(x.of) => l[1] \in files \/ l \in absent
  BY LineTypes
<1>24. \A l \in absent : mark[l] = x.by => <<l[1], mark[l]>> \in missed
  OBVIOUS
<1> HIDE DEF absentOf, missedOf, absent, missed
<1>4. /\ job.plan \subseteq Entries /\ x \in job.plan /\ x \in Entries /\ x.rank \in Nat
      /\ \A y \in job.plan : y.rank \in Nat /\ y.rank <= x.rank
  BY <1>1, UnmarkFields, EntryFields DEF Foremost
<1>5. AtWork = {} /\ ~Giving /\ AtWork' = {x} /\ Giving'
  BY <1>1, <1>3 DEF AtWork, Giving
<1>6. /\ RecordInv' /\ MarkInv' /\ recorded' = recorded /\ saved' = saved /\ Gone' = Gone
      /\ \A author : Due(author)' <=> Due(author)
      /\ \A q : Entry(q)' = Entry(q)
  BY <1>1, <1>3, SameJob
<1>7. job'.plan \cup AtWork' = job.plan
  BY <1>3, <1>4, <1>5
<1>8. UnmarkInv'
  BY <1>1, <1>3, <1>4, <1>5, <1>6, <1>7 DEF MarksInv, UnmarkInv
<1>9. FilesOf(x.of.reviewed) \subseteq NamedBy(x.of)
  BY DEF NamedBy, FilesOf
<1>10. DueInv'
  <2>1. ASSUME NEW l \in Lines, Due(mark[l])
        PROVE  \/ <<l[1], mark[l]>> \in left \cup job'.missed
               \/ \E y \in job'.plan : y.by = mark[l] /\ l[1] \in FilesOf(y.of.reviewed)
               \/ x.by = mark[l] /\ l[1] \in job'.files
    <3>1. \/ <<l[1], mark[l]>> \in left \cup job.missed
          \/ \E y \in job.plan : y.by = mark[l] /\ l[1] \in FilesOf(y.of.reviewed)
      BY <1>1, <1>5, <2>1 DEF MarksInv, DueInv
    <3>2. ASSUME x.by = mark[l], l[1] \in FilesOf(x.of.reviewed)
          PROVE  l[1] \in files \/ <<l[1], mark[l]>> \in missed
      BY <1>9, <1>23, <1>24, <3>2
    <3> QED
      BY <1>3, <3>1, <3>2
  <2>2. ASSUME NEW w \in job.plan, NEW y \in w.of.reopened, Due(y[2]),
               <<y[1][1], y[2]>> \notin left
        PROVE  \E z \in job'.plan :
                 z.by = y[2] /\ z.rank < w.rank /\ y[1][1] \in FilesOf(z.of.reviewed)
    <3>1. PICK z \in job.plan :
             z.by = y[2] /\ z.rank < w.rank /\ y[1][1] \in FilesOf(z.of.reviewed)
      BY <1>1, <2>2 DEF MarksInv, DueInv
    <3>2. z # x
      BY <1>4, <3>1
    <3> QED
      BY <1>3, <3>1, <3>2
  <2> QED
    BY <1>1, <1>3, <1>5, <1>6, <1>7, <2>1, <2>2 DEF DueInv
<1>11. HeldInv'
  BY <1>1, <1>3, <1>6, NoJob, SameRecords DEF HeldInv
<1>12. ASSUME NEW l \in own'
       PROVE  Returns(l)'
  <2>0. l \in own /\ l \in Lines /\ l \notin absent
    BY <1>2, <1>12 DEF TypeInv, MarkTypes
  <2>1. ASSUME NEW q \in Ids, recorded[q].set, <<l, Reviewer>> \in recorded[q].reopened,
               Comes(q, l)
        PROVE  Comes(q, l)'
    <3>1. Entry(q) \in job.plan
      BY <1>5, <2>1 DEF Comes
    <3>2. CASE Entry(q) # x
      BY <1>3, <1>6, <3>1, <3>2 DEF Comes
    <3>3. CASE Entry(q) = x
      <4>1. <<l, Reviewer>> \in x.of.reopened
        BY <2>1, <3>3 DEF Entry
      <4>2. l[1] \in NamedBy(x.of)
        BY <4>1 DEF NamedBy, FilesOf
      <4>3. l[1] \in files
        BY <1>23, <2>0, <4>2
      <4> QED
        BY <1>3, <1>5, <1>6, <3>3, <4>3 DEF Comes
    <3> QED
      BY <3>2, <3>3
  <2> QED
    BY <1>1, <1>3, <2>0, <2>1, ReturnsAgain
<1>13. OwnInv'
  BY <1>3, <1>12 DEF OwnInv
<1> QED
  BY <1>6, <1>8, <1>10, <1>11, <1>13 DEF MarksInv

\* A repository that is not ready: Cancel gives up, and Implement is refused at the end.
LEMMA FailsMarks ==
    ASSUME TypeInv, MarksInv, UnmarkFails, left' = left
    PROVE  MarksInv'
<1>1. /\ job \in UnmarkJobs /\ job.op = "unmark" /\ job.stage = "poll"
      /\ round' = round /\ mark' = mark /\ own' = own
  BY JobIs DEF UnmarkFails, TypeInv
<1>2. PICK x \in Foremost :
        job' = IF job.then = "cancel" THEN Idle
               ELSE [job EXCEPT !.plan = job.plan \ {x}, !.failed = TRUE]
  BY DEF UnmarkFails
<1>3. RecordInv' /\ recorded' = recorded /\ saved' = saved
  BY <1>1, RoundStands DEF MarksInv
<1>4. CASE job.then = "cancel"
  <2>1. job' = Idle
    BY <1>2, <1>4
  <2> QED
    BY <1>1, <1>3, <2>1, JobBegins DEF MarksInv, MarkInv, Idle
<1>5. CASE job.then # "cancel"
  <2>1. /\ job'.op = "unmark" /\ job'.stage = "poll" /\ job'.plan = job.plan \ {x}
        /\ job'.then = "implement" /\ job'.failed
    BY <1>1, <1>2, <1>5, UnmarkFields DEF UnmarkJobs
  <2>2. AtWork' = {} /\ ~Giving' /\ \A author : ~Due(author)'
    BY <2>1 DEF AtWork, Giving, Due
  <2>3. job.then = "implement"
    BY <1>1, <1>5, UnmarkFields
  <2>4. UnmarkInv'
    BY <1>1, <2>1, <2>2, <2>3 DEF MarksInv, UnmarkInv
  <2>5. DueInv'
    BY <2>2 DEF DueInv
  <2>6. HeldInv'
    BY <1>1, <1>3, <2>1, NoJob, SameRecords DEF HeldInv
  <2>7. ASSUME NEW l \in own
        PROVE  Returns(l)'
    <3>1. mark[l] = Reviewer \/ \E q \in Ids : TakenBy(q, l, mark[l])
      BY <1>1, <2>7, NoJob
    <3>2. mark[l]' = Reviewer \/ \E q \in Ids : TakenBy(q, l, mark[l])'
      BY <1>1, <1>3, <3>1, SameRecords
    <3> QED
      BY <2>1, <3>2 DEF Returns
  <2>8. OwnInv'
    BY <1>1, <2>1, <2>7 DEF OwnInv
  <2> QED
    BY <1>3, <2>1, <2>4, <2>5, <2>6, <2>8 DEF MarksInv, MarkInv
<1> QED
  BY <1>4, <1>5

\* A file is read: what its author holds there, and what it gives back there.
LEMMA UnmarkReadMarks ==
    ASSUME TypeInv, MarksInv, NEW f \in Files, UnmarkRead(f), left' = left
    PROVE  MarksInv'
<1> DEFINE held == {l \in In(f) : mark[l] = job.giving.by}
           pairs == {x \in job.giving.of.reopened : x[1] \in In(f)}
           back == IF f \in job.unchanged THEN pairs ELSE {}
<1>1. /\ job \in UnmarkJobs /\ job.op = "unmark" /\ job.stage = "files" /\ f \in job.files
      /\ round' = round /\ mark' = mark
      /\ own' = own \ (IF f \in job.unchanged THEN {}
                       ELSE {x[1] : x \in job.giving.of.reopened} \cap In(f))
  BY JobIs DEF UnmarkRead, Unfollowed, TypeInv
<1>2. job' = [job EXCEPT !.stage = "reopen", !.file = f, !.held = held, !.back = back]
  BY DEF UnmarkRead
<1>3. /\ job'.op = "unmark" /\ job'.stage = "reopen" /\ job'.giving = job.giving
      /\ job'.plan = job.plan /\ job'.files = job.files /\ job'.file = f
      /\ job'.held = held /\ job'.back = back /\ job'.missed = job.missed
      /\ job'.then = job.then /\ job'.answer = job.answer /\ (job'.failed <=> job.failed)
  BY <1>1, <1>2 DEF UnmarkJobs
<1>4. AtWork' = AtWork /\ Giving' /\ Giving
  BY <1>1, <1>3 DEF AtWork, Giving
<1>5. /\ RecordInv' /\ MarkInv' /\ recorded' = recorded /\ saved' = saved /\ Gone' = Gone
      /\ \A author : Due(author)' <=> Due(author)
      /\ \A q : Entry(q)' = Entry(q)
  BY <1>1, <1>3, SameJob
<1>6. UnmarkInv'
  BY <1>1, <1>3, <1>4, <1>5 DEF MarksInv, UnmarkInv
<1>7. DueInv'
  BY <1>1, <1>3, <1>4, <1>5 DEF MarksInv, DueInv
<1>8. HeldInv'
  BY <1>1, <1>3, <1>5, NoJob, SameRecords DEF HeldInv
<1>9. ASSUME NEW l \in own'
      PROVE  Returns(l)'
  <2>0. l \in own /\ l \in Lines
    BY <1>1, <1>9 DEF TypeInv, MarkTypes
  <2>1. ASSUME NEW q \in Ids, <<l, Reviewer>> \in recorded[q].reopened, Comes(q, l)
        PROVE  Comes(q, l)'
    <3>1. CASE Entry(q) \in job.plan
      BY <1>3, <1>5, <3>1 DEF Comes
    <3>2. CASE job.giving = Entry(q) /\ l[1] \in job.files
      <4>1. <<l, Reviewer>> \in job.giving.of.reopened
        BY <2>1, <3>2 DEF Entry
      <4>2. ASSUME l[1] = f
            PROVE  <<l, Reviewer>> \in back
        <5>1. l \in In(f)
          BY <2>0, <4>2, LineTypes
        <5>2. f \in job.unchanged
          <6>1. l \in {x[1] : x \in job.giving.of.reopened}
            BY <4>1
          <6> QED
            BY <1>1, <1>9, <5>1, <6>1
        <5> QED
          BY <4>1, <5>1, <5>2
      <4> QED
        BY <1>3, <1>4, <1>5, <3>2, <4>2 DEF Comes
    <3> QED
      BY <2>1, <3>1, <3>2 DEF Comes
  <2> QED
    BY <1>1, <1>3, <2>0, <2>1, ReturnsAgain
<1>10. OwnInv'
  BY <1>3, <1>9 DEF OwnInv
<1> QED
  BY <1>5, <1>6, <1>7, <1>8, <1>10 DEF MarksInv

\* A file is done.
LEMMA UnmarkedFileMarks ==
    ASSUME TypeInv, MarksInv, UnmarkedFile, left' = left
    PROVE  MarksInv'
<1>1. /\ job \in UnmarkJobs /\ job.op = "unmark" /\ job.stage = "restore" /\ job.back = {}
      /\ round' = round /\ mark' = mark /\ own' = own
  BY JobIs DEF UnmarkedFile, TypeInv
<1>2. /\ job'.op = "unmark" /\ job'.stage = "files" /\ job'.giving = job.giving
      /\ job'.plan = job.plan /\ job'.files = job.files \ {job.file} /\ job'.missed = job.missed
      /\ job'.then = job.then /\ job'.answer = job.answer /\ (job'.failed <=> job.failed)
  BY <1>1 DEF UnmarkedFile, UnmarkJobs
<1>3. AtWork' = AtWork /\ Giving' /\ Giving
  BY <1>1, <1>2 DEF AtWork, Giving
<1>4. /\ RecordInv' /\ MarkInv' /\ recorded' = recorded /\ saved' = saved /\ Gone' = Gone
      /\ \A author : Due(author)' <=> Due(author)
      /\ \A q : Entry(q)' = Entry(q)
  BY <1>1, <1>2, SameJob
<1>5. UnmarkInv'
  BY <1>1, <1>2, <1>3, <1>4 DEF MarksInv, UnmarkInv
<1>6. DueInv'
  BY <1>1, <1>2, <1>3, <1>4 DEF MarksInv, DueInv
<1>7. HeldInv'
  BY <1>1, <1>2, <1>4, NoJob, SameRecords DEF HeldInv
<1>8. ASSUME NEW l \in own
      PROVE  Returns(l)'
  <2>1. ASSUME NEW q \in Ids, Comes(q, l)
        PROVE  Comes(q, l)'
    BY <1>1, <1>2, <1>3, <1>4, <2>1 DEF Comes
  <2> QED
    BY <1>1, <1>2, <2>1, ReturnsAgain
<1>9. OwnInv'
  BY <1>1, <1>2, <1>8 DEF OwnInv
<1> QED
  BY <1>4, <1>5, <1>6, <1>7, <1>9 DEF MarksInv

\* A record is done.
LEMMA UnmarkedTurnMarks ==
    ASSUME TypeInv, MarksInv, UnmarkedTurn, left' = left
    PROVE  MarksInv'
<1>1. /\ job \in UnmarkJobs /\ job.op = "unmark" /\ job.stage = "files" /\ job.files = {}
      /\ round' = round /\ mark' = mark /\ own' = own
  BY JobIs DEF UnmarkedTurn, TypeInv
<1>2. /\ job'.op = "unmark" /\ job'.stage = "poll" /\ job'.plan = job.plan
      /\ job'.missed = job.missed
      /\ job'.then = job.then /\ job'.answer = job.answer /\ (job'.failed <=> job.failed)
  BY <1>1 DEF UnmarkedTurn, UnmarkJobs
<1>3. AtWork' = {} /\ ~Giving'
  BY <1>2 DEF AtWork, Giving
<1>4. /\ RecordInv' /\ MarkInv' /\ recorded' = recorded /\ saved' = saved /\ Gone' = Gone
      /\ \A author : Due(author)' <=> Due(author)
      /\ \A q : Entry(q)' = Entry(q)
  BY <1>1, <1>2, SameJob
<1>5. UnmarkInv'
  BY <1>1, <1>2, <1>3, <1>4 DEF MarksInv, UnmarkInv
<1>6. DueInv'
  BY <1>1, <1>2, <1>3, <1>4 DEF MarksInv, DueInv
<1>7. HeldInv'
  BY <1>1, <1>2, <1>4, NoJob, SameRecords DEF HeldInv
<1>8. ASSUME NEW l \in own
      PROVE  Returns(l)'
  <2>1. ASSUME NEW q \in Ids, Comes(q, l)
        PROVE  Comes(q, l)'
    BY <1>1, <1>2, <1>3, <1>4, <2>1 DEF Comes
  <2> QED
    BY <1>1, <1>2, <2>1, ReturnsAgain
<1>9. OwnInv'
  BY <1>1, <1>2, <1>8 DEF OwnInv
<1> QED
  BY <1>4, <1>5, <1>6, <1>7, <1>9 DEF MarksInv

\* The record that a cancellation is at is the last whose author, or a later answer,
\* holds lines.
LEMMA HeldByGiving ==
    ASSUME TypeInv, MarksInv, job.op = "unmark", job.then = "cancel", Giving,
           NEW q \in Ids, recorded[q].set, recorded[q].answer \in Gone, job.giving = Entry(q),
           NEW l \in Lines, mark[l].by = "explore", mark[l].id >= recorded[q].answer,
           l[1] \notin FilesOf(Missed)
    PROVE  mark[l] = job.giving.by
<1> DEFINE b == recorded[q].answer
<1>1. /\ job \in UnmarkJobs /\ MayCancelFrom(saved, job.answer)
  BY JobIs DEF TypeInv
<1>2. /\ Gone = {c \in AnswerIds(saved) : c >= job.answer}
      /\ AnswerIds(saved) \subseteq Ids /\ job.answer \in Ids /\ 0 \notin Gone
  BY <1>1, GoneAre DEF Gone
<1>3. b \in Ids /\ b # 0 /\ b >= job.answer /\ Holder(q) = Explore(b)
  BY <1>2, RecordIs DEF MarksInv
<1>4. OnRecord(l[1], mark[l])
  BY NoJob DEF IsAgent
<1>0. \A a : <<l[1], a>> \notin left \cup job.missed
  BY DEF Missed, FilesOf
<1>5. PICK p \in Ids : recorded[p].set /\ Holder(p) = mark[l]
  BY <1>0, <1>4 DEF OnRecord
<1>6. recorded[p].answer # 0
  <2>1. recorded[p].answer = 0 => Holder(p) = ExploreRead(p)
    BY <1>5, RecordIs DEF MarksInv
  <2> QED
    BY <1>5, <2>1, AuthorTypes
<1>7. PICK c \in Ids : c \in AnswerIds(saved) /\ mark[l] = Explore(c) /\ c = mark[l].id
  BY <1>5, <1>6, RecordIs, AuthorTypes DEF MarksInv
<1>8. c \in Gone
  <2>1. c \in Nat /\ b \in Nat /\ job.answer \in Nat
    BY <1>2, <1>3, IdsAreNat
  <2> QED
    BY <1>2, <1>3, <1>7, <2>1
<1>9. Due(mark[l])
  BY <1>7, <1>8 DEF Due
<1>10. CASE \E x \in job.plan : x.by = mark[l]
  <2>1. PICK x \in job.plan : x.by = mark[l]
    BY <1>10
  <2>2. PICK o \in Ids : recorded[o].set /\ recorded[o].answer \in Gone /\ x = Entry(o)
    BY <2>1 DEF MarksInv, UnmarkInv
  <2>3. recorded[o].answer # 0 /\ recorded[o].answer \in Ids
    BY <1>2, <2>2
  <2>4. Explore(recorded[o].answer) = Explore(c)
    BY <1>7, <2>1, <2>2, <2>3, RecordIs DEF Entry, MarksInv
  <2>5. recorded[o].answer = c
    BY <2>4, AuthorTypes
  <2>6. x.rank <= job.giving.rank
    BY <2>1 DEF MarksInv, UnmarkInv
  <2>7. Rank(o, c) <= Rank(q, b)
    BY <2>2, <2>5, <2>6 DEF Entry, RankOf
  <2>8. c <= b
    BY <1>3, <2>7, RankOrder
  <2>9. c \in Nat /\ b \in Nat
    BY <1>3, IdsAreNat
  <2> QED
    BY <1>3, <1>7, <2>8, <2>9 DEF Entry
<1> QED
  BY <1>0, <1>9, <1>10 DEF MarksInv, DueInv

\* The lines that the author holds reopen.
LEMMA UnmarkReopenMarks ==
    ASSUME TypeInv, MarksInv, FollowedInv, UnmarkReopen, left' = left
    PROVE  MarksInv'
<1>1. /\ job \in UnmarkJobs /\ job.op = "unmark" /\ job.stage = "reopen" /\ round' = round
      /\ job.giving \in Entries /\ job.file \in job.files
  BY JobIs DEF UnmarkReopen, TypeInv
<1>2. /\ job'.op = "unmark" /\ job'.stage = "restore" /\ job'.giving = job.giving
      /\ job'.plan = job.plan /\ job'.files = job.files /\ job'.file = job.file
      /\ job'.back = job.back
      /\ job'.then = job.then /\ job'.answer = job.answer /\ (job'.failed <=> job.failed)
  <2>1. \/ job' = [job EXCEPT !.stage = "restore"]
        \/ job' = [job EXCEPT !.stage = "restore",
                             !.missed = job.missed \cup {<<job.file, job.giving.by>>}]
    BY DEF UnmarkReopen
  <2> QED
    BY <1>1, <2>1 DEF UnmarkJobs
\* Either they all do, or the edit took none and they are missed.
<1>3. PICK picked \in Picks(job.file, job.held) :
        /\ mark' = ReopenLines(mark, picked)
        /\ \/ /\ job.held \subseteq picked /\ own' = own \ (picked \ job.held)
              /\ job'.missed = job.missed
           \/ /\ ~(job.held \subseteq picked) /\ own' = own \ In(job.file)
              /\ job'.missed = job.missed \cup {<<job.file, job.giving.by>>}
  <2>1. PICK picked \in Picks(job.file, job.held) :
          /\ mark' = ReopenLines(mark, picked)
          /\ \/ /\ job.held \subseteq picked /\ own' = own \ (picked \ job.held)
                /\ job' = [job EXCEPT !.stage = "restore"]
             \/ /\ ~(job.held \subseteq picked) /\ own' = own \ In(job.file)
                /\ job' = [job EXCEPT !.stage = "restore",
                                !.missed = job.missed \cup {<<job.file, job.giving.by>>}]
    BY DEF UnmarkReopen, Unfollowed
  <2>2. /\ job' = [job EXCEPT !.stage = "restore"] => job'.missed = job.missed
        /\ job' = [job EXCEPT !.stage = "restore",
                            !.missed = job.missed \cup {<<job.file, job.giving.by>>}] =>
             job'.missed = job.missed \cup {<<job.file, job.giving.by>>}
    BY <1>1 DEF UnmarkJobs
  <2> QED
    BY <2>1, <2>2
<1>4. AtWork' = AtWork /\ Giving' /\ Giving /\ AtWork = {job.giving}
  BY <1>1, <1>2 DEF AtWork, Giving
<1>5. /\ RecordInv' /\ MarkInv' /\ recorded' = recorded /\ saved' = saved /\ Gone' = Gone
      /\ \A author : Due(author)' <=> Due(author)
      /\ \A q : Entry(q)' = Entry(q)
  BY <1>1, <1>2, SameJob
<1>6. /\ job.held \subseteq In(job.file)
      /\ \A l \in In(job.file) : mark[l] = job.giving.by => l \in job.held
      /\ \A l \in own \cap job.held : mark[l] = job.giving.by
      /\ IsAgent(job.giving.by)
  BY <1>1, <1>4 DEF MarksInv, UnmarkInv
<1>7. picked \subseteq In(job.file)
  BY <1>6, PicksAre
<1>8. \A l \in Lines : mark'[l] = IF l \in picked THEN Nobody ELSE mark[l]
  BY <1>3 DEF ReopenLines
<1>9. UnmarkInv'
  BY <1>1, <1>2, <1>4, <1>5 DEF MarksInv, UnmarkInv
<1>10. DueInv'
  <2>1. ASSUME NEW l \in Lines, Due(mark'[l])
        PROVE  \/ <<l[1], mark'[l]>> \in left \cup job'.missed
               \/ \E x \in job.plan : x.by = mark'[l] /\ l[1] \in FilesOf(x.of.reviewed)
               \/ job.giving.by = mark'[l] /\ l[1] \in job.files /\ l[1] # job.file
    <3>1. ~Due(Nobody)
      BY AuthorTypes DEF Due, IsAgent
    <3>2. mark'[l] = mark[l] /\ l \notin picked
      BY <1>8, <2>1, <3>1
    <3>3. \/ <<l[1], mark[l]>> \in left \cup job.missed
          \/ \E x \in job.plan : x.by = mark[l] /\ l[1] \in FilesOf(x.of.reviewed)
          \/ job.giving.by = mark[l] /\ l[1] \in job.files
      BY <1>1, <2>1, <3>2 DEF MarksInv, DueInv
    <3>4. l[1] = job.file /\ mark[l] = job.giving.by => <<l[1], mark[l]>> \in job'.missed
      <4>1. l[1] = job.file => l \in In(job.file)
        BY LineTypes
      <4>2. l[1] = job.file /\ mark[l] = job.giving.by => ~(job.held \subseteq picked)
        BY <1>6, <3>2, <4>1
      <4> QED
        BY <1>3, <4>2
    <3>5. job.missed \subseteq job'.missed
      BY <1>3
    <3> QED
      BY <3>2, <3>3, <3>4, <3>5
  <2> QED
    BY <1>1, <1>2, <1>4, <1>5, <2>1 DEF MarksInv, DueInv
<1>11. HeldInv'
  <2> SUFFICES ASSUME NEW l \in Lines, IsAgent(mark'[l])
               PROVE  OnRecord(l[1], mark[l])'
    BY DEF HeldInv
  <2>1. mark'[l] = mark[l]
    BY <1>8, AuthorTypes
  <2>2. OnRecord(l[1], mark[l])
    BY <1>1, <2>1, NoJob
  <2> QED
    BY <1>5, <2>1, <2>2, SameRecords
<1>12. ASSUME NEW l \in own'
       PROVE  Returns(l)'
  <2>0. /\ l \in own /\ l \in Lines /\ l[1] \notin FilesOf(Missed)
        /\ l \in picked => l \in job.held
        /\ l \in job.held => l \in picked
    <3>1. l \in own /\ l \in Lines
      BY <1>3, <1>12 DEF TypeInv, MarkTypes
    <3>2. l[1] \notin FilesOf(Missed)
      BY <3>1 DEF FollowedInv
    <3>3. CASE job.held \subseteq picked
      BY <1>3, <1>12, <3>1, <3>2, <3>3
    <3>4. CASE ~(job.held \subseteq picked)
      BY <1>3, <1>6, <1>7, <1>12, <3>1, <3>2, <3>4
    <3> QED
      BY <3>3, <3>4
  <2>1. CASE mark[l] = Reviewer
    <3>1. l \notin picked
      BY <1>6, <2>0, <2>1, AuthorTypes
    <3> QED
      BY <1>8, <2>0, <2>1, <3>1 DEF Returns
  <2>2. ASSUME NEW q \in Ids, TakenBy(q, l, mark[l]), mark[l] # Reviewer,
               job.then = "cancel" /\ recorded[q].answer \in Gone => Comes(q, l)
        PROVE  Returns(l)'
    <3>1. TakenBy(q, l, mark'[l])
      BY <1>8, <2>0, <2>2 DEF TakenBy
    <3>2. TakenBy(q, l, mark[l])'
      BY <1>5, <3>1, SameRecords
    <3>3. recorded[q].set /\ recorded[q].answer \in {0} \cup Ids
      BY <2>2, RecordIs DEF TakenBy, MarksInv
    <3>4. ASSUME job.then = "cancel", recorded[q].answer \in Gone, job.giving = Entry(q),
                 l[1] = job.file
          PROVE  mark'[l] = Nobody
      <4>1. recorded[q].answer # 0
        <5>1. MayCancelFrom(saved, job.answer)
          BY <1>1, <3>4, JobIs DEF TypeInv
        <5> QED
          BY <3>4, <5>1, GoneAre DEF Gone
      <4>2. CASE mark[l] = Nobody
        BY <1>8, <2>0, <4>2
      <4>3. CASE mark[l] # Nobody
        <5>1. mark[l].by = "explore" /\ mark[l].id >= recorded[q].answer
          BY <2>2, <4>1, <4>3 DEF TakenBy, Since
        <5>2. mark[l] = job.giving.by
          BY <1>1, <1>4, <2>0, <3>3, <3>4, <5>1, HeldByGiving
        <5>3. l \in In(job.file)
          BY <2>0, <3>4, LineTypes
        <5> QED
          BY <1>6, <1>7, <1>8, <2>0, <5>2, <5>3
      <4> QED
        BY <4>2, <4>3
    <3>5. job.then = "cancel" /\ recorded[q].answer \in Gone => Comes(q, l)'
      BY <1>1, <1>2, <1>4, <1>5, <2>2, <3>4 DEF Comes
    <3> QED
      BY <1>2, <1>5, <3>2, <3>5 DEF Returns
  <2> QED
    BY <1>1, <2>0, <2>1, <2>2 DEF MarksInv, OwnInv, Returns
<1>13. OwnInv'
  BY <1>2, <1>12 DEF OwnInv
<1> QED
  BY <1>5, <1>9, <1>10, <1>11, <1>13 DEF MarksInv

\* Lines go back to whom they were taken from, where nobody has them.
LEMMA UnmarkRestoreMarks ==
    ASSUME TypeInv, MarksInv, NEW previous \in Authors, UnmarkRestore(previous), left' = left
    PROVE  MarksInv'
<1>1. /\ job \in UnmarkJobs /\ job.op = "unmark" /\ job.stage = "restore" /\ round' = round
      /\ job.giving \in Entries /\ job.file \in job.files
  BY JobIs DEF UnmarkRestore, TypeInv
<1>2. /\ job'.op = "unmark" /\ job'.stage = "restore" /\ job'.giving = job.giving
      /\ job'.plan = job.plan /\ job'.files = job.files /\ job'.file = job.file
      /\ job'.back = {x \in job.back : x[2] # previous} /\ job'.missed = job.missed
      /\ job'.then = job.then /\ job'.answer = job.answer /\ (job'.failed <=> job.failed)
  BY <1>1 DEF UnmarkRestore, UnmarkJobs
<1>3. PICK lines :
        /\ lines = {x[1] : x \in {y \in job.back : y[2] = previous}} \cap OpenLines(mark)
        /\ \E picked \in Picks(job.file, lines) :
             /\ mark' = AcceptLines(mark, picked, previous)
             /\ own' = own \ ((picked \ lines) \cup (lines \ picked))
  BY DEF UnmarkRestore, Unfollowed
<1>4. PICK picked \in Picks(job.file, lines) :
        /\ mark' = AcceptLines(mark, picked, previous)
        /\ own' = own \ ((picked \ lines) \cup (lines \ picked))
  BY <1>3
<1>5. AtWork' = AtWork /\ Giving' /\ Giving /\ AtWork = {job.giving}
  BY <1>1, <1>2 DEF AtWork, Giving
<1>6. /\ RecordInv' /\ MarkInv' /\ recorded' = recorded /\ saved' = saved /\ Gone' = Gone
      /\ \A author : Due(author)' <=> Due(author)
      /\ \A q : Entry(q)' = Entry(q)
  BY <1>1, <1>2, SameJob
<1>7. /\ job.giving.of.reopened \in SUBSET (Lines \X Authors)
      /\ \A x \in job.back :
           x \in job.giving.of.reopened /\ x[1] \in In(job.file) /\ x[1][1] = job.file
      /\ \A x \in job.back : x = <<x[1], x[2]>>
  <2>1. job.giving.of.reopened \in SUBSET (Lines \X Authors)
    BY <1>1, EntryFields
  <2>2. \A x \in job.back : x \in job.giving.of.reopened /\ x[1] \in In(job.file)
    BY <1>1 DEF MarksInv, UnmarkInv
  <2>3. \A l \in In(job.file) : l[1] = job.file
    BY LineTypes
  <2> QED
    BY <2>1, <2>2, <2>3
<1>8. PICK y \in job.back : y[2] = previous
  BY DEF UnmarkRestore
<1>9. lines \subseteq In(job.file) /\ picked \subseteq In(job.file)
  <2>1. lines \subseteq In(job.file)
    BY <1>3, <1>7
  <2> QED
    BY <2>1, PicksAre
<1>10. \A l \in Lines : mark'[l] = IF l \in picked /\ mark[l] = Nobody THEN previous ELSE mark[l]
  BY <1>4 DEF AcceptLines
\* Only Cancel gives back, and of a record.
<1>11. job.then = "cancel"
  <2>1. job.then = "implement" => job.giving.of.reopened = {}
    BY <1>1, <1>5 DEF MarksInv, UnmarkInv
  <2>2. y \in job.giving.of.reopened
    BY <1>7
  <2> QED
    BY <1>1, <2>1, <2>2, UnmarkFields
<1>12. PICK p \in Ids : /\ recorded[p].set /\ recorded[p].answer \in Gone /\ job.giving = Entry(p)
  BY <1>1, <1>5, <1>11 DEF MarksInv, UnmarkInv
<1>13. /\ Gone = {b \in AnswerIds(saved) : b >= job.answer} /\ 0 \notin Gone
       /\ AnswerIds(saved) \subseteq Ids /\ job.answer \in Ids
  <2>1. MayCancelFrom(saved, job.answer)
    BY <1>1, <1>11, JobIs DEF TypeInv
  <2> QED
    BY <2>1, GoneAre DEF Gone
<1>14. job.giving.of.reopened = recorded[p].reopened /\ job.giving.rank = RankOf(p)
  BY <1>12 DEF Entry
<1>15. UnmarkInv'
  BY <1>1, <1>2, <1>5, <1>6 DEF MarksInv, UnmarkInv
<1>16. DueInv'
  <2>1. ASSUME NEW l \in Lines, Due(mark'[l])
        PROVE  \/ <<l[1], mark'[l]>> \in left \cup job'.missed
               \/ \E x \in job.plan : x.by = mark'[l] /\ l[1] \in FilesOf(x.of.reviewed)
               \/ job.giving.by = mark'[l] /\ l[1] \in job.files /\ l[1] # job.file
    <3>1. CASE mark'[l] = mark[l]
      BY <1>1, <1>2, <2>1, <3>1 DEF MarksInv, DueInv
    <3>2. CASE mark'[l] = previous /\ l \in picked
      <4>1. l[1] = job.file /\ y[1][1] = job.file
        BY <1>7, <1>9, <3>2, LineTypes
      <4>2. Due(y[2]) /\ y \in job.giving.of.reopened
        BY <1>7, <1>8, <2>1, <3>2
      <4>3. \/ <<y[1][1], y[2]>> \in left
            \/ \E z \in job.plan : z.by = y[2] /\ y[1][1] \in FilesOf(z.of.reviewed)
        BY <1>1, <1>5, <4>2 DEF MarksInv, DueInv
      <4> QED
        BY <1>8, <3>2, <4>1, <4>3
    <3> QED
      BY <1>10, <3>1, <3>2
  <2> QED
    BY <1>1, <1>2, <1>5, <1>6, <2>1 DEF MarksInv, DueInv
<1>17. HeldInv'
  <2> SUFFICES ASSUME NEW l \in Lines, IsAgent(mark'[l])
               PROVE  OnRecord(l[1], mark[l])'
    BY DEF HeldInv
  <2>1. OnRecord(l[1], mark'[l])
    <3>1. CASE mark'[l] = mark[l]
      BY <1>1, <3>1, NoJob
    <3>2. CASE mark'[l] = previous /\ l \in picked
      <4>1. l[1] = job.file /\ y[1][1] = job.file
        BY <1>7, <1>9, <3>2, LineTypes
      <4>2. OnEarlier(y[1][1], y[2], RankOf(p))
        BY <1>7, <1>8, <1>12, <1>14, <3>2 DEF MarksInv, RecordInv
      <4> QED
        BY <1>8, <3>2, <4>1, <4>2 DEF OnEarlier, OnRecord
    <3> QED
      BY <1>10, <3>1, <3>2
  <2> QED
    BY <1>6, <2>1, SameRecords
<1>18. ASSUME NEW l \in own'
       PROVE  Returns(l)'
  <2>0. l \in own /\ l \in Lines /\ (l \in picked <=> l \in lines)
    BY <1>4, <1>18 DEF TypeInv, MarkTypes
  <2>1. CASE mark[l] = Reviewer
    <3>1. mark'[l] = Reviewer
      BY <1>10, <2>0, <2>1, AuthorTypes
    <3> QED
      BY <3>1 DEF Returns
  <2>2. ASSUME NEW q \in Ids, TakenBy(q, l, mark[l]), mark'[l] # Reviewer,
               recorded[q].answer \in Gone => Comes(q, l)
        PROVE  Returns(l)'
    <3>0. recorded[q].set /\ <<l, Reviewer>> \in recorded[q].reopened
      BY <2>2 DEF TakenBy
    \* What goes back to an agent went to it after, or is the reviewer's.
    <3>1. CASE l \in picked /\ mark[l] = Nobody
      <4>1. mark'[l] = previous /\ l \in lines /\ previous # Reviewer
        BY <1>10, <2>0, <2>2, <3>1
      <4>2. <<l, previous>> \in recorded[p].reopened
        <5>1. PICK x \in job.back : x[2] = previous /\ x[1] = l
          BY <1>3, <4>1
        <5> QED
          BY <1>7, <1>14, <5>1
      <4>3. q # p
        <5>1. OnePerLine(recorded[p].reopened)
          BY <1>12 DEF MarksInv, RecordInv
        <5>2. q = p => <<l, previous>> = <<l, Reviewer>>
          BY <3>0, <4>2, <5>1 DEF OnePerLine
        <5> QED
          BY <4>1, <5>2
      <4>4. /\ recorded[q].answer \in {0} \cup Ids /\ recorded[p].answer \in Ids
            /\ RankOf(p) \in Nat /\ RankOf(q) \in Nat
        BY <1>12, <1>13, <3>0, RecordIs DEF MarksInv
      <4>5. ASSUME recorded[q].answer \in Gone
            PROVE  RankOf(q) < RankOf(p) /\ Comes(q, l)'
        <5>1. Comes(q, l)
          BY <2>2, <4>5
        <5>2. job.giving # Entry(q)
          BY <1>12, <4>3 DEF Entry
        <5>3. Entry(q) \in job.plan
          BY <5>1, <5>2 DEF Comes
        <5>4. RankOf(q) <= RankOf(p)
          BY <1>1, <1>5, <1>14, <5>3 DEF MarksInv, UnmarkInv, Entry
        <5>5. RankOf(q) # RankOf(p)
          BY <1>12, <1>13, <3>0, <4>3, <4>5, RankIsOne DEF MarksInv
        <5>6. Comes(q, l)'
          BY <1>2, <1>6, <5>3 DEF Comes
        <5> QED
          BY <4>4, <5>4, <5>5, <5>6
      <4>6. ASSUME recorded[q].answer # 0
            PROVE  Since(recorded[q].answer, previous)
        <5>1. CASE RankOf(p) > RankOf(q)
          BY <1>12, <2>2, <4>2, <4>6, <5>1 DEF TakenBy
        <5>2. CASE RankOf(p) <= RankOf(q)
          <6>1. recorded[q].answer \in Ids /\ recorded[q].answer \in AnswerIds(saved)
            BY <3>0, <4>6, RecordIs DEF MarksInv
          <6>2. recorded[p].answer <= recorded[q].answer
            BY <4>4, <5>2, <6>1, RankOrder DEF RankOf
          <6>3. recorded[q].answer \in Gone
            <7>1. /\ recorded[p].answer \in Nat /\ recorded[q].answer \in Nat
                  /\ job.answer \in Nat /\ recorded[p].answer >= job.answer
              BY <1>12, <1>13, <4>4, <6>1, IdsAreNat
            <7> QED
              BY <1>13, <6>1, <6>2, <7>1
          <6> QED
            BY <4>4, <4>5, <5>2, <6>3
        <5> QED
          BY <4>4, <5>1, <5>2
      <4>7. TakenBy(q, l, previous)
        BY <2>2, <4>6 DEF TakenBy
      <4>8. TakenBy(q, l, mark[l])'
        BY <1>6, <4>1, <4>7, SameRecords
      <4> QED
        BY <1>6, <4>5, <4>8 DEF Returns
    <3>2. CASE ~(l \in picked /\ mark[l] = Nobody)
      <4>1. mark'[l] = mark[l]
        BY <1>10, <2>0, <3>2
      <4>2. TakenBy(q, l, mark[l])'
        BY <1>6, <2>2, <4>1, SameRecords
      <4>3. ASSUME Comes(q, l)
            PROVE  Comes(q, l)'
        <5>1. CASE Entry(q) \in job.plan
          BY <1>2, <1>6, <5>1 DEF Comes
        <5>2. CASE /\ job.giving = Entry(q) /\ l[1] \in job.files
                   /\ l[1] = job.file => <<l, Reviewer>> \in job.back /\ mark[l] = Nobody
          <6>1. ASSUME l[1] = job.file
                PROVE  previous # Reviewer
            <7>1. l \notin picked
              BY <3>2, <5>2, <6>1
            <7>2. previous = Reviewer => l \in lines
              BY <1>3, <2>0, <5>2, <6>1 DEF OpenLines
            <7> QED
              BY <2>0, <7>1, <7>2
          <6> QED
            BY <1>2, <1>5, <1>6, <4>1, <5>2, <6>1 DEF Comes
        <5> QED
          BY <1>1, <4>3, <5>1, <5>2 DEF Comes
      <4> QED
        BY <1>6, <2>2, <4>2, <4>3 DEF Returns
    <3> QED
      BY <3>1, <3>2
  <2>3. mark'[l] = Reviewer => Returns(l)'
    BY DEF Returns
  <2> QED
    BY <1>1, <1>11, <2>0, <2>1, <2>2, <2>3 DEF MarksInv, OwnInv, Returns
<1>19. OwnInv'
  BY <1>2, <1>18 DEF OwnInv
<1> QED
  BY <1>6, <1>15, <1>16, <1>17, <1>19 DEF MarksInv

\* Cancel: the answers go with their records, and nobody holds a line for them.
LEMMA CancelCommitMarks ==
    ASSUME TypeInv, MarksInv, CancelCommit
    PROVE  MarksInv'
<1>1. /\ job \in UnmarkJobs /\ job.op = "unmark" /\ job.stage = "poll" /\ job.plan = {}
      /\ job.then = "cancel" /\ job' = Idle /\ mark' = mark /\ own' = own
      /\ MayCancelFrom(saved, job.answer)
  BY JobIs DEF CancelCommit, TypeInv
<1> DEFINE kept(q) == q \notin Gone /\ recorded[q].answer \notin Gone
           keptMarks == {x \in job.missed : \E l \in In(x[1]) : mark[l] = x[2]}
           forgets == /\ saved' = CancelAnswersFrom(saved, job.answer)
                      /\ recorded' = [q \in Ids |-> IF kept(q) THEN recorded[q] ELSE NoMarks]
                      /\ left' = left \cup keptMarks
<1>4. (round' = round /\ left' = left) \/ forgets
  BY DEF CancelCommit, Gone, round
<1>2. CASE round' = round /\ left' = left
  <2>1. RecordInv' /\ recorded' = recorded /\ saved' = saved
    BY <1>2, RoundStands DEF MarksInv
  <2> QED
    BY <1>1, <1>2, <2>1, JobBegins DEF MarksInv, MarkInv, Idle
<1>3. CASE forgets
  <2>0. PICK n : RoundOf(saved, n)
    BY DEF TypeInv, RoundInv
  <2>1. /\ saved' = CancelAnswersFrom(saved, job.answer)
        /\ recorded' = [q \in Ids |-> IF q \notin Gone /\ recorded[q].answer \notin Gone
                                      THEN recorded[q] ELSE NoMarks]
    BY <1>3
  <2>2. /\ AnswerIds(saved') = AnswerIds(saved) \ Gone
        /\ \A b \in AnswerIds(saved') : ReplyOf(saved', b) = ReplyOf(saved, b)
        /\ \A p : InConversation(saved, p) /\ p \notin Gone => InConversation(saved', p)
    BY <1>1, <2>0, <2>1, CancelledRound DEF Gone
  <2>3. /\ Gone = {b \in AnswerIds(saved) : b >= job.answer} /\ 0 \notin Gone
        /\ AnswerIds(saved) \subseteq Ids /\ job.answer \in Ids
    BY <1>1, GoneAre DEF Gone
  <2>4. \A q \in Ids : recorded[q].set /\ recorded[q].answer \notin Gone =>
          q \notin Gone /\ recorded'[q] = recorded[q]
    BY <1>1, <2>1, GoneRecords DEF Gone, MarksInv
  <2>5. \A q \in Ids : recorded'[q].set =>
          recorded[q].set /\ recorded[q].answer \notin Gone /\ recorded'[q] = recorded[q]
    BY <2>1 DEF NoMarks
  <2>6. \A q \in Ids : recorded'[q] = recorded[q] =>
          RankOf(q)' = RankOf(q) /\ Holder(q)' = Holder(q)
    BY DEF RankOf, Holder
  <2>7. RecordInv'
    <3> SUFFICES ASSUME NEW q \in Ids, recorded'[q].set
                 PROVE  /\ Recorded(q)' /\ OnePerLine(recorded'[q].reopened)
                        /\ \A x \in recorded'[q].reopened :
                             IsAgent(x[2]) => OnEarlier(x[1][1], x[2], RankOf(q))'
      BY DEF RecordInv
    <3>1. /\ recorded[q].set /\ recorded[q].answer \notin Gone /\ recorded'[q] = recorded[q]
          /\ q \notin Gone
      BY <2>4, <2>5
    <3>2. Recorded(q) /\ OnePerLine(recorded[q].reopened)
      BY <3>1 DEF MarksInv, RecordInv
    <3>3. Recorded(q)'
      <4>1. InConversation(saved', q)
        BY <2>2, <3>1, <3>2 DEF Recorded
      <4>2. recorded[q].answer # 0 =>
              /\ recorded[q].answer \in AnswerIds(saved')
              /\ ReplyOf(saved', recorded[q].answer) = ReplyOf(saved, recorded[q].answer)
        BY <2>2, <3>1, <3>2 DEF Recorded
      <4> QED
        BY <2>2, <3>1, <3>2, <4>1, <4>2 DEF Recorded
    <3>4. ASSUME NEW x \in recorded[q].reopened, IsAgent(x[2])
          PROVE  OnEarlier(x[1][1], x[2], RankOf(q))'
      <4>1. OnEarlier(x[1][1], x[2], RankOf(q))
        BY <3>1, <3>4 DEF MarksInv, RecordInv
      <4>0. CASE <<x[1][1], x[2]>> \in left
        BY <1>3, <4>0 DEF OnEarlier
      <4> SUFFICES ASSUME <<x[1][1], x[2]>> \notin left
                   PROVE  OnEarlier(x[1][1], x[2], RankOf(q))'
        BY <4>0
      <4>2. PICK p \in Ids :
              /\ recorded[p].set /\ Holder(p) = x[2]
              /\ x[1][1] \in FilesOf(recorded[p].reviewed)
              /\ recorded[p].answer # 0 => RankOf(p) < RankOf(q)
        BY <4>1 DEF OnEarlier
      <4>3. recorded[p].answer \notin Gone
        <5>1. CASE recorded[p].answer = 0
          BY <2>3, <5>1
        <5>2. CASE recorded[p].answer # 0
          <6>1. recorded[p].answer \in Ids /\ RankOf(p) > 0 /\ RankOf(p) \in Nat
            BY <4>2, <5>2, RecordIs DEF MarksInv
          <6>2. /\ recorded[q].answer \in {0} \cup Ids /\ RankOf(q) \in Nat
                /\ recorded[q].answer = 0 => RankOf(q) = 0
                /\ recorded[q].answer # 0 => recorded[q].answer \in AnswerIds(saved)
            BY <3>1, RecordIs DEF MarksInv
          <6>3. recorded[q].answer # 0
            BY <4>2, <5>2, <6>1, <6>2
          <6>4. recorded[p].answer <= recorded[q].answer
            <7>1. RankOf(p) <= RankOf(q)
              BY <4>2, <5>2, <6>1, <6>2
            <7> QED
              BY <6>1, <6>2, <6>3, <7>1, RankOrder DEF RankOf
          <6>5. /\ recorded[p].answer \in Nat /\ recorded[q].answer \in Nat
                /\ job.answer \in Nat /\ ~(recorded[q].answer >= job.answer)
            BY <2>3, <3>1, <6>1, <6>2, <6>3, IdsAreNat
          <6> QED
            BY <2>3, <6>4, <6>5
        <5> QED
          BY <5>1, <5>2
      <4> QED
        BY <2>4, <2>6, <3>1, <4>2, <4>3 DEF OnEarlier
    <3> QED
      BY <3>1, <3>2, <3>3, <3>4
  <2>8. HeldInv'
    <3> SUFFICES ASSUME NEW l \in Lines, IsAgent(mark[l])
                 PROVE  OnRecord(l[1], mark[l])'
      BY <1>1 DEF HeldInv
    <3>1. OnRecord(l[1], mark[l])
      BY <1>1, NoJob
    \* What the cancellation missed is left.
    <3>0. CASE <<l[1], mark[l]>> \in left \cup job.missed
      <4>1. l \in In(l[1])
        BY LineTypes
      <4>2. <<l[1], mark[l]>> \in job.missed => <<l[1], mark[l]>> \in keptMarks
        BY <4>1
      <4> QED
        BY <1>1, <1>3, <3>0, <4>2 DEF OnRecord
    <3> SUFFICES ASSUME <<l[1], mark[l]>> \notin left \cup job.missed
                 PROVE  OnRecord(l[1], mark[l])'
      BY <3>0
    <3>2. PICK q \in Ids : /\ recorded[q].set /\ Holder(q) = mark[l]
                           /\ l[1] \in FilesOf(recorded[q].reviewed)
      BY <3>1 DEF OnRecord
    <3>3. recorded[q].answer \notin Gone
      <4>1. ~Due(mark[l])
        BY <1>1 DEF MarksInv, DueInv, Giving
      <4>2. recorded[q].answer \in Gone => mark[l] = Explore(recorded[q].answer)
        BY <2>3, <3>2, RecordIs DEF MarksInv
      <4> QED
        BY <1>1, <4>1, <4>2, AuthorTypes DEF Due
    <3> QED
      BY <1>1, <2>4, <2>6, <3>2, <3>3 DEF OnRecord
  <2>9. ASSUME NEW l \in own
        PROVE  Returns(l)'
    <3>1. CASE mark[l] = Reviewer
      BY <1>1, <3>1 DEF Returns
    <3>2. ASSUME NEW q \in Ids, TakenBy(q, l, mark[l]),
                 recorded[q].answer \in Gone => Comes(q, l)
          PROVE  Returns(l)'
      <4>1. ~Comes(q, l)
        BY <1>1 DEF Comes, Giving
      <4>2. /\ recorded[q].set /\ recorded'[q] = recorded[q] /\ RankOf(q)' = RankOf(q)
        BY <2>4, <2>6, <3>2, <4>1 DEF TakenBy
      <4>3. \A p \in Ids : recorded'[p].set =>
              recorded[p].set /\ recorded'[p] = recorded[p] /\ RankOf(p)' = RankOf(p)
        BY <2>5, <2>6
      <4>4. TakenBy(q, l, mark[l])'
        BY <1>1, <3>2, <4>2, <4>3 DEF TakenBy
      <4> QED
        BY <1>1, <4>4 DEF Returns, Idle
    <3> QED
      BY <1>1, <2>9, <3>1, <3>2 DEF MarksInv, OwnInv, Returns
  <2>10. OwnInv'
    BY <1>1, <2>9 DEF OwnInv, Idle
  <2> QED
    BY <1>1, <2>7, <2>8, <2>10 DEF MarksInv, MarkInv, DueInv, UnmarkInv, Idle
<1> QED
  BY <1>2, <1>3, <1>4

\* Implement: the request is authorized, or refused.
LEMMA ImplementCommitMarks ==
    ASSUME TypeInv, MarksInv, ImplementCommit, left' = left
    PROVE  MarksInv'
<1>1. /\ job \in UnmarkJobs /\ job.op = "unmark" /\ job' = Idle /\ mark' = mark /\ own' = own
      /\ recorded' = recorded /\ MayAuthorize(saved, 1)
  BY JobIs DEF ImplementCommit, TypeInv
<1>2. RecordInv'
  <2>1. CASE saved' = saved
    BY <1>1, <2>1, RecordsStay DEF MarksInv
  <2>2. CASE saved' = Authorize(saved, 1)
    BY <1>1, <2>2, AuthorizedRecords DEF MarksInv
  <2> QED
    BY <2>1, <2>2 DEF ImplementCommit
<1> QED
  BY <1>1, <1>2, JobBegins DEF MarksInv, MarkInv, Idle

\* A reviewer by hand: no line becomes the round's, and it is the reviewer's that is
\* followed from now on.
LEMMA OthersMarks ==
    ASSUME TypeInv, MarksInv, Others, left' = left
    PROVE  MarksInv'
<1>1. round' = round /\ job' = job
  BY OthersTypesHold
<1>2. RecordInv' /\ recorded' = recorded /\ saved' = saved
  BY <1>1, RoundStands DEF MarksInv
<1>3. /\ \A l \in Lines : mark'[l] = mark[l] \/ mark'[l] \in {Nobody, Reviewer}
      /\ \A l \in own' : \/ job = Idle /\ mark'[l] = Reviewer
                         \/ l \in own /\ mark'[l] = mark[l]
  <2>0. \A f : In(f) \in SUBSET Lines
    BY LineTypes
  <2>1. ASSUME NEW k \in Lines, HandMark(k) \/ HandReopen(k)
        PROVE  /\ \A l \in Lines : mark'[l] = mark[l] \/ mark'[l] \in {Nobody, Reviewer}
               /\ \A l \in own' : \/ job = Idle /\ mark'[l] = Reviewer
                                  \/ l \in own /\ mark'[l] = mark[l]
    <3>1. own \subseteq Lines
      BY DEF TypeInv, MarkTypes
    <3> QED
      BY <2>1, <3>1 DEF HandMark, HandReopen, Owned, AcceptLines, ReopenLines
  <2>2. ASSUME NEW f \in Files, HandMarkFile(f) \/ HandReopenFile(f)
        PROVE  /\ \A l \in Lines : mark'[l] = mark[l] \/ mark'[l] \in {Nobody, Reviewer}
               /\ \A l \in own' : \/ job = Idle /\ mark'[l] = Reviewer
                                  \/ l \in own /\ mark'[l] = mark[l]
    <3>1. own \subseteq Lines
      BY DEF TypeInv, MarkTypes
    <3> QED
      BY <2>0, <2>2, <3>1 DEF HandMarkFile, HandReopenFile, Owned, ReopenLines
  <2> QED
    BY <2>1, <2>2 DEF Others
<1>4. own' \subseteq Lines
  BY OthersTypesHold DEF TypeInv, MarkTypes
<1>5. MarkInv'
  <2>1. ASSUME job.op = "mark"
        PROVE  Latest'
    BY <1>1, <1>2, <2>1 DEF MarksInv, MarkInv, Latest
  <2> QED
    BY <1>1, <1>2, <2>1, SameRecords DEF MarksInv, MarkInv
<1>6. \A l \in Lines : IsAgent(mark'[l]) => mark'[l] = mark[l]
  BY <1>3, AuthorTypes
<1>7. HeldInv'
  <2> SUFFICES ASSUME NEW l \in Lines, IsAgent(mark'[l])
               PROVE  \/ OnRecord(l[1], mark[l])'
                      \/ /\ job.op = "mark" /\ mark'[l] = job.author
                         /\ \/ l[1] \in FilesOf(job.reviewed)
                            \/ job.stage = "after" /\ l[1] = job.file
    BY <1>1 DEF HeldInv
  <2>1. mark'[l] = mark[l]
    BY <1>6
  <2>2. OnRecord(l[1], mark[l]) => OnRecord(l[1], mark[l])'
    BY <1>2, <2>1, SameRecords
  <2> QED
    BY <2>1, <2>2 DEF MarksInv, HeldInv
<1>8. ASSUME job.op = "unmark"
      PROVE  /\ AtWork' = AtWork /\ Gone' = Gone /\ (Giving' <=> Giving)
             /\ \A author : Due(author)' <=> Due(author)
             /\ \A q : Entry(q)' = Entry(q)
  <2>1. job'.op = "unmark" /\ job'.then = job.then /\ job'.answer = job.answer
        /\ (job'.failed <=> job.failed)
    BY <1>1, <1>8
  <2> QED
    BY <1>1, <1>8, <2>1, SameJob DEF AtWork, Giving
<1>9. DueInv'
  <2>1. ASSUME job.op = "unmark", NEW l \in Lines, Due(mark'[l])
        PROVE  mark'[l] = mark[l]
    <3>1. IsAgent(mark'[l])
      BY <2>1 DEF Due, IsAgent
    <3> QED
      BY <1>6, <3>1
  <2> QED
    BY <1>1, <1>8, <2>1 DEF MarksInv, DueInv
<1>10. UnmarkInv'
  <2>1. ASSUME job.op = "unmark", job.stage = "reopen"
        PROVE  /\ \A l \in In(job.file) : mark'[l] = job.giving.by => l \in job.held
               /\ \A l \in own' \cap job.held : mark'[l] = job.giving.by
    <3>1. /\ IsAgent(job.giving.by)
          /\ \A l \in In(job.file) : mark[l] = job.giving.by => l \in job.held
          /\ \A l \in own \cap job.held : mark[l] = job.giving.by
      BY <2>1 DEF MarksInv, UnmarkInv, AtWork, Giving
    <3>2. In(job.file) \in SUBSET Lines /\ job # Idle
      BY <2>1, LineTypes DEF Idle
    <3> QED
      BY <1>3, <1>6, <3>1, <3>2
  <2> QED
    BY <1>1, <1>2, <1>8, <2>1 DEF MarksInv, UnmarkInv
<1>11. ASSUME NEW l \in own', job.op # "mark"
       PROVE  Returns(l)'
  <2>1. CASE mark'[l] = Reviewer
    BY <2>1 DEF Returns
  <2>2. CASE l \in own /\ mark'[l] = mark[l]
    <3>1. CASE job.op = "unmark"
      <4>1. \A q \in Ids : Comes(q, l) => Comes(q, l)'
        BY <1>1, <1>8, <2>2, <3>1 DEF Comes
      <4>2. job'.op = "unmark" /\ job'.then = job.then /\ job'.answer = job.answer
            /\ (job'.failed <=> job.failed)
        BY <1>1, <3>1
      <4> QED
        BY <1>1, <2>2, <3>1, <4>1, <4>2, ReturnsAgain
    <3>2. CASE job.op # "unmark"
      <4>1. mark[l] = Reviewer \/ \E q \in Ids : TakenBy(q, l, mark[l])
        BY <1>11, <2>2, NoJob
      <4>2. mark[l]' = Reviewer \/ \E q \in Ids : TakenBy(q, l, mark[l])'
        BY <1>2, <2>2, <4>1, SameRecords
      <4> QED
        BY <1>1, <3>2, <4>2 DEF Returns
    <3> QED
      BY <3>1, <3>2
  <2> QED
    BY <1>3, <2>1, <2>2
<1>12. ASSUME NEW l \in own', job.op = "mark"
       PROVE  ReturnsAfter(l)'
  <2>1. l \in own /\ mark'[l] = mark[l]
    BY <1>3, <1>12 DEF Idle
  <2>2. ReturnsAfter(l)
    BY <1>12, <2>1 DEF MarksInv, OwnInv
  <2>3. /\ TakenUpTo(l, mark[l]) => TakenUpTo(l, mark[l])'
        /\ TakenUpTo(l, job.before[l]) => TakenUpTo(l, job.before[l])'
    BY <1>1, <1>2, <2>1, SameRecords DEF TakenUpTo
  <2>4. AtFile(l)' <=> AtFile(l)
    BY <1>1 DEF AtFile
  <2> QED
    BY <1>1, <2>1, <2>2, <2>3, <2>4 DEF ReturnsAfter
<1>13. OwnInv'
  BY <1>1, <1>11, <1>12 DEF OwnInv
<1> QED
  BY <1>2, <1>5, <1>7, <1>9, <1>10, <1>13 DEF MarksInv

-----------------------------------------------------------------------------
(* Theorems. *)

\* Nothing is on record at first.
LEMMA MarksAtFirst ==
    Init => MarksInv
<1> SUFFICES ASSUME Init PROVE MarksInv
  OBVIOUS
<1>1. \A q \in Ids : ~recorded[q].set
  BY DEF Init, NoMarks
<1>2. job.op = "idle" /\ own = {}
  BY DEF Init, Idle
<1>3. \A l \in Lines : ~IsAgent(mark[l])
  BY AuthorTypes DEF Init
<1> QED
  BY <1>1, <1>2, <1>3
  DEF MarksInv, RecordInv, MarkInv, HeldInv, DueInv, UnmarkInv, OwnInv

\* Only a cancellation that is made leaves marks.
LEMMA LeftStays ==
    ASSUME [Next]_vars, ~CancelCommit
    PROVE  left' = left
<1>1. CASE Session
  BY <1>1 DEF Session, AgentTurn, Answer, CancelFrom, Retry, Implement, Restart
<1>2. CASE Marking
  BY <1>2 DEF Marking, ReadBefore, Reopen, Accept, ReadAfter, Record
<1>3. CASE Unmarking
  BY <1>3 DEF Unmarking, UnmarkRead, UnmarkRestore, UnmarkPoll, UnmarkFails, UnmarkReopen,
     UnmarkedFile, UnmarkedTurn, ImplementCommit
<1>4. CASE Others
  BY <1>4 DEF Others, HandMark, HandReopen, HandMarkFile, HandReopenFile
<1>5. CASE UNCHANGED vars
  BY <1>5 DEF vars
<1> QED
  BY <1>1, <1>2, <1>3, <1>4, <1>5 DEF Next

\* No line is followed in a file that a cancellation missed.
LEMMA FollowedStays ==
    TypeInv /\ FollowedInv /\ [Next]_vars => FollowedInv'
<1> SUFFICES ASSUME TypeInv, FollowedInv, [Next]_vars PROVE FollowedInv'
  OBVIOUS
\* What is enough in most steps.
<1>1. ASSUME own' \subseteq own, Missed' \subseteq Missed
      PROVE  FollowedInv'
  BY <1>1 DEF FollowedInv, FilesOf
<1>2. ASSUME own' \subseteq own, left' = left,
             job'.op # "unmark" \/ job'.missed = {} \/ job' = job
      PROVE  FollowedInv'
  BY <1>1, <1>2 DEF Missed
<1>3. CASE Session
  <2>1. own' = own /\ left' = left
    BY <1>3 DEF Session, AgentTurn, Answer, CancelFrom, Retry, Implement, Restart
  <2>2. ASSUME NEW q, NEW answer, NEW ask, ApplyMarks(q, answer, ask)
        PROVE  job'.op # "unmark"
    BY <2>2 DEF ApplyMarks, MarkJob
  <2>3. Idle.op # "unmark"
    BY DEF Idle
  <2>4. ASSUME NEW r, NEW q, NEW boards, Deliver(r, q, boards)
        PROVE  job'.op # "unmark"
    BY <2>2, <2>3, <2>4 DEF Deliver
  <2>5. ASSUME NEW question \in BOOLEAN, NEW ask \in Asks, AgentTurn(question, ask)
        PROVE  job'.op # "unmark"
    BY <2>2, <2>3, <2>5 DEF AgentTurn
  <2>6. ASSUME NEW q \in Ids, NEW to \in Ids, NEW atBoard \in BOOLEAN, Answer(q, to, atBoard)
        PROVE  job'.op # "unmark"
    BY <2>4, <2>6 DEF Answer
  <2>7. ASSUME NEW a \in Ids, CancelFrom(a)
        PROVE  job'.missed = {}
    BY <2>7 DEF CancelFrom, UnmarkJob
  <2>8. Retry => job'.op # "unmark"
    BY <2>4 DEF Retry
  <2>9. Implement => job'.op # "unmark" \/ job'.missed = {}
    BY <2>3 DEF Implement, UnmarkJob
  <2>10. Restart => job'.op # "unmark"
    BY <2>3 DEF Restart
  <2> QED
    BY <1>2, <1>3, <2>1, <2>5, <2>6, <2>7, <2>8, <2>9, <2>10 DEF Session
<1>4. CASE Marking
  <2>1. own' = own /\ left' = left
    BY <1>4 DEF Marking, ReadBefore, Reopen, Accept, ReadAfter, Record
  <2>2. job \in MarkJobs
    BY <1>4, JobIs DEF Marking, ReadBefore, Reopen, Accept, ReadAfter, Record, TypeInv
  <2>3. (\E f \in Files : ReadBefore(f)) \/ Reopen \/ Accept => job'.op # "unmark"
    BY <2>2 DEF ReadBefore, Reopen, Accept, MarkJobs
  <2>4. ReadAfter => job'.op # "unmark"
    <3> DEFINE change == Between(job.file, job.before, mark, job.author)
    <3>1. ReadAfter =>
            job' = [job EXCEPT !.stage = "next", !.todo = job.todo \ {job.file},
                        !.file = <<>>, !.before = <<>>,
                        !.reviewed = job.reviewed \cup change.reviewed,
                        !.reopened = job.reopened \cup change.reopened]
      BY DEF ReadAfter
    <3> HIDE DEF change
    <3> QED
      BY <2>2, <3>1 DEF MarkJobs
  <2>5. Record => job'.op # "unmark"
    BY DEF Record, Idle
  <2> QED
    BY <1>2, <1>4, <2>1, <2>3, <2>4, <2>5 DEF Marking
<1>5. ASSUME Unmarking, ~CancelCommit, ~ImplementCommit
      PROVE  FollowedInv'
  <2>1. job \in UnmarkJobs /\ job.op = "unmark" /\ left' = left /\ own \subseteq Lines
    BY <1>5, JobIs
    DEF Unmarking, UnmarkRead, UnmarkRestore, UnmarkPoll, UnmarkFails, UnmarkReopen,
        UnmarkedFile, UnmarkedTurn, TypeInv, MarkTypes
  \* What a step misses is not followed.
  <2>2. ASSUME NEW new, job'.missed = job.missed \cup new, own' \subseteq own,
               \A l \in own' : l[1] \notin FilesOf(new)
        PROVE  FollowedInv'
    <3>1. Missed' \subseteq Missed \cup new
      BY <2>1, <2>2 DEF Missed
    <3> QED
      BY <2>2, <3>1 DEF FollowedInv, FilesOf
  <2>3. CASE UnmarkPoll
    <3> DEFINE absent(x, files) == UNION {In(f) : f \in NamedBy(x.of) \ files}
               new(x, files) == {<<l[1], x.by>> : l \in {k \in absent(x, files) : mark[k] = x.by}}
    <3>1. PICK x \in Foremost : \E files \in SUBSET NamedBy(x.of) :
            /\ job'.missed = job.missed \cup new(x, files)
            /\ own' = own \ absent(x, files)
      <4>1. PICK x \in Foremost : \E files \in SUBSET NamedBy(x.of) : \E unchanged :
              /\ job' = [job EXCEPT !.stage = "files", !.unchanged = unchanged, !.giving = x,
                             !.plan = job.plan \ {x}, !.files = files,
                             !.missed = job.missed \cup new(x, files)]
              /\ own' = own \ absent(x, files)
        BY <2>3 DEF UnmarkPoll, Unfollowed
      <4> HIDE DEF new, absent
      <4> QED
        BY <2>1, <4>1 DEF UnmarkJobs
    <3>2. PICK files \in SUBSET NamedBy(x.of) :
            /\ job'.missed = job.missed \cup new(x, files)
            /\ own' = own \ absent(x, files)
      BY <3>1
    <3>3. ASSUME NEW l \in own', l[1] \in FilesOf(new(x, files))
          PROVE  FALSE
      <4>1. PICK k \in absent(x, files) : k[1] = l[1]
        BY <3>3 DEF FilesOf
      <4>2. PICK f \in NamedBy(x.of) \ files : k \in In(f)
        BY <4>1
      <4>3. l \in In(f)
        BY <2>1, <3>2, <3>3, <4>1, <4>2, LineTypes
      <4> QED
        BY <3>2, <3>3, <4>2, <4>3
    <3> QED
      BY <2>2, <3>2, <3>3
  <2>4. CASE UnmarkReopen
    <3>1. \/ job'.missed = job.missed \cup {} /\ own' \subseteq own
          \/ /\ job'.missed = job.missed \cup {<<job.file, job.giving.by>>}
             /\ own' = own \ In(job.file)
      BY <2>1, <2>4 DEF UnmarkReopen, Unfollowed, UnmarkJobs
    <3>2. \A l \in own' : l[1] \notin FilesOf({})
      BY DEF FilesOf
    <3>3. own' = own \ In(job.file) =>
            \A l \in own' : l[1] \notin FilesOf({<<job.file, job.giving.by>>})
      BY <2>1, LineTypes DEF FilesOf
    <3> QED
      BY <2>2, <3>1, <3>2, <3>3
  <2>5. ASSUME NEW f \in Files, UnmarkRead(f)
        PROVE  own' \subseteq own /\ job'.missed = job.missed
    BY <2>1, <2>5 DEF UnmarkRead, Unfollowed, UnmarkJobs
  <2>6. ASSUME NEW previous \in Authors, UnmarkRestore(previous)
        PROVE  own' \subseteq own /\ job'.missed = job.missed
    BY <2>1, <2>6 DEF UnmarkRestore, Unfollowed, UnmarkJobs
  <2>7. ASSUME UnmarkFails
        PROVE  own' \subseteq own /\ (job'.op # "unmark" \/ job'.missed = job.missed)
    BY <2>1, <2>7 DEF UnmarkFails, UnmarkJobs, Idle
  <2>8. ASSUME UnmarkedFile \/ UnmarkedTurn
        PROVE  own' \subseteq own /\ job'.missed = job.missed
    BY <2>1, <2>8 DEF UnmarkedFile, UnmarkedTurn, UnmarkJobs
  <2>9. ASSUME own' \subseteq own, job'.op # "unmark" \/ job'.missed = job.missed
        PROVE  FollowedInv'
    BY <1>1, <2>1, <2>9 DEF Missed
  <2> QED
    BY <1>5, <2>3, <2>4, <2>5, <2>6, <2>7, <2>8, <2>9 DEF Unmarking
<1>6. CASE CancelCommit
  <2>1. job.op = "unmark" /\ own' = own /\ left' \subseteq left \cup job.missed /\ job' = Idle
    BY <1>6 DEF CancelCommit
  <2> QED
    BY <1>1, <2>1 DEF Missed, Idle
<1>7. CASE ImplementCommit
  BY <1>2, <1>7 DEF ImplementCommit, Idle
<1>8. CASE Others
  <2>1. job' = job /\ left' = left
    BY <1>8 DEF Others, HandMark, HandReopen, HandMarkFile, HandReopenFile
  <2>2. own' \subseteq own \cup (IF job = Idle THEN {l \in own' : l[1] \notin FilesOf(left)}
                                 ELSE {})
    BY <1>8 DEF Others, HandMark, HandReopen, HandMarkFile, HandReopenFile, Owned
  <2>3. job = Idle => Missed = left
    BY DEF Missed, Idle
  <2>4. Missed' = Missed
    BY <2>1 DEF Missed
  <2> QED
    BY <2>2, <2>3, <2>4 DEF FollowedInv
<1>9. CASE UNCHANGED vars
  BY <1>2, <1>9 DEF vars
<1> QED
  BY <1>3, <1>4, <1>5, <1>6, <1>7, <1>8, <1>9 DEF Next

\* A step keeps the invariant, if processes do not end between marks and their record.
LEMMA MarksStay ==
    ASSUME "mark" \notin Crashes
    PROVE  TypeInv /\ MarksInv /\ FollowedInv /\ [Next]_vars => MarksInv'
<1> SUFFICES ASSUME TypeInv, MarksInv, FollowedInv, [Next]_vars PROVE MarksInv'
  OBVIOUS
<1>6. CASE CancelCommit
  BY <1>6, CancelCommitMarks
<1> SUFFICES ASSUME left' = left, ~CancelCommit PROVE MarksInv'
  BY <1>6, LeftStays
<1>1. CASE Session
  BY <1>1, AgentTurnMarks, AnswerMarks, CancelFromMarks, RetryMarks, ImplementMarks,
     RestartMarks DEF Session
<1>2. CASE Marking
  BY <1>2, ReadBeforeMarks, ReopenMarks, AcceptMarks, ReadAfterMarks, RecordMarks DEF Marking
<1>3. CASE Unmarking
  BY <1>3, UnmarkReadMarks, UnmarkRestoreMarks, PollMarks, FailsMarks, UnmarkReopenMarks,
     UnmarkedFileMarks, UnmarkedTurnMarks, ImplementCommitMarks
  DEF Unmarking
<1>4. CASE Others
  BY <1>4, OthersMarks
<1>5. CASE UNCHANGED vars
  <2>1. round' = round /\ mark' = mark /\ job' = job /\ own' = own
    BY <1>5 DEF vars
  <2>2. RecordInv' /\ recorded' = recorded /\ saved' = saved /\ left' = left
    BY <2>1, RoundStands DEF MarksInv
  <2> QED
    BY <2>1, <2>2 DEF MarksInv, MarkInv, Latest, HeldInv, DueInv, UnmarkInv, OwnInv,
       OnRecord, Holder, Due, Gone, Giving, AtWork, Entry, RankOf, Returns,
       ReturnsAfter, TakenBy, TakenUpTo, AtFile, Comes
<1> QED
  BY <1>1, <1>2, <1>3, <1>4, <1>5 DEF Next

\* While the process does not end between an answer's marks and their record: who holds
\* a line is on record, and a cancellation comes to all of its answers' lines, or has
\* missed their files, which were not in the snapshot or not edited then.
THEOREM RoundOwnsItsMarks ==
    ASSUME "mark" \notin Crashes
    PROVE  Spec => [](TypeInv /\ MarksInv /\ FollowedInv)
<1>1. Init => TypeInv /\ MarksInv /\ FollowedInv
  BY TypesAtFirst, MarksAtFirst DEF Init, FollowedInv
<1>2. TypeInv /\ MarksInv /\ FollowedInv /\ [Next]_vars => (TypeInv /\ MarksInv /\ FollowedInv)'
  BY TypesStay, MarksStay, FollowedStays
<1> QED
  BY <1>1, <1>2, PTL DEF Spec

\* No line stays reviewed in the name of an answer that the round no longer has, but in
\* a file that its cancellation missed.
THEOREM CancelledMarksGoBack ==
    ASSUME "mark" \notin Crashes
    PROVE  Spec => []CancelGivesBack
<1>1. TypeInv /\ MarksInv => CancelGivesBack
  <2> SUFFICES ASSUME TypeInv, MarksInv, job = Idle, NEW l \in Lines, mark[l].by = "explore",
                      <<l[1], mark[l]>> \notin left
               PROVE  mark[l].id \in AnswerIds(saved)
    BY DEF CancelGivesBack
  <2>1. OnRecord(l[1], mark[l])
    BY NoJob DEF IsAgent, Idle
  <2>2. PICK q \in Ids : recorded[q].set /\ Holder(q) = mark[l]
    BY <2>1 DEF OnRecord
  <2>3. recorded[q].answer = 0 => Holder(q) = ExploreRead(q)
    BY <2>2, RecordIs DEF MarksInv
  <2>4. recorded[q].answer # 0
    BY <2>2, <2>3, AuthorTypes
  <2>5. recorded[q].answer \in AnswerIds(saved) /\ Holder(q) = Explore(recorded[q].answer)
    BY <2>2, <2>4, RecordIs DEF MarksInv
  <2> QED
    BY <2>2, <2>5, AuthorTypes
<1> QED
  BY <1>1, RoundOwnsItsMarks, PTL

\* A line that a reviewer marked is theirs, or on record as taken from them.
THEOREM ReviewersMarksReturn ==
    ASSUME "mark" \notin Crashes
    PROVE  Spec => []OwnMarksReturn
<1>1. TypeInv /\ MarksInv => OwnMarksReturn
  BY NoJob DEF OwnMarksReturn, TakenBy, Idle
<1> QED
  BY <1>1, RoundOwnsItsMarks, PTL

\* When an implementation at the drawing board is authorized, the round holds no line,
\* but in files that giving back missed.
THEOREM ImplementationReopensRound ==
    ASSUME "mark" \notin Crashes
    PROVE  Spec => BoardReopensRound
<1> DEFINE A == Implementations(saved) = {} /\ Implementations(saved') # {} /\ AtBoard(saved) =>
                  \A l \in Lines :
                      mark[l].by \in {"explore", "read"} => <<l[1], mark[l]>> \in Missed
<1>1. TypeInv /\ MarksInv /\ [Next]_vars => A
  <2> SUFFICES ASSUME TypeInv, MarksInv, [Next]_vars, Implementations(saved) = {},
                      Implementations(saved') # {}, AtBoard(saved)
               PROVE  \A l \in Lines : IsAgent(mark[l]) => <<l[1], mark[l]>> \in Missed
    BY DEF IsAgent
  <2>0. PICK n : RoundOf(saved, n)
    BY DEF TypeInv, RoundInv
  <2>1. saved'.implementations # saved.implementations
    BY DEF Implementations
  <2>2. CASE ImplementCommit
    <3>1. /\ job.op = "unmark" /\ job.stage = "poll" /\ job.plan = {} /\ job.then = "implement"
          /\ ~job.failed
      BY <2>1, <2>2 DEF ImplementCommit
    <3> QED
      BY <3>1 DEF MarksInv, DueInv, Due, Giving, Missed
  <2>3. ASSUME NEW question \in BOOLEAN, NEW ask \in Asks, AgentTurn(question, ask)
        PROVE  FALSE
    <3>1. saved.outstanding \in Ids
      BY <2>0, <2>3 DEF AgentTurn, RoundOf, WellFormed, Round
    <3>2. MaySubmit(saved, saved.outstanding)
            /\ saved' = Submit(saved, saved.outstanding, question)
      BY <2>3 DEF AgentTurn
    <3> QED
      BY <2>0, <2>1, <3>1, <3>2, SubmittedRound
  <2>4. ASSUME NEW q \in Ids, NEW to \in Ids, NEW atBoard \in BOOLEAN, Answer(q, to, atBoard)
        PROVE  FALSE
    <3>1. /\ MayPost(saved, to) /\ saved' = PostAnswer(saved, q, to)
          /\ q - 1 \in Made(saved) /\ \A p \in Made(saved) : p < q
      BY <2>4 DEF Answer, IsNext, Made
    <3> QED
      BY <2>0, <2>1, <3>1, AnsweredRound
  <2>5. ~Retry
    <3> SUFFICES ASSUME Retry PROVE FALSE
      OBVIOUS
    <3>1. saved.retry \in Ids /\ MayPostAgain(saved, saved.retry)
            /\ saved' = PostAgain(saved, saved.retry)
      BY <2>0 DEF Retry, RoundOf, WellFormed, Round
    <3> QED
      BY <2>0, <2>1, <3>1, RetriedRound
  <2>6. ~Restart
    BY <2>0, <2>1, StoppedRound DEF Restart
  <2>7. ~Implement
    BY <2>1 DEF Implement
  <2>8. ~CancelCommit
    <3> SUFFICES ASSUME CancelCommit PROVE FALSE
      OBVIOUS
    <3>1. MayCancelFrom(saved, job.answer)
      BY JobIs DEF CancelCommit, TypeInv
    <3>2. saved' = CancelAnswersFrom(saved, job.answer) \/ saved' = saved
      BY DEF CancelCommit, round
    <3> QED
      BY <2>0, <2>1, <3>1, <3>2, CancelledRound
  <2>9. saved' # saved
    BY <2>1
  <2>10. /\ \A a \in Ids : ~CancelFrom(a)
         /\ ~Marking /\ ~Others /\ ~UNCHANGED vars
    BY <2>9 DEF CancelFrom, Marking, ReadBefore, Reopen, Accept, ReadAfter, Record,
         Others, HandMark, HandReopen, HandMarkFile, HandReopenFile, round, vars
  <2>11. Unmarking => ImplementCommit
    BY <2>8, <2>9 DEF Unmarking, UnmarkRead, UnmarkRestore, UnmarkPoll, UnmarkFails,
         UnmarkReopen, UnmarkedFile, UnmarkedTurn, round
  <2>12. ImplementCommit
    BY <2>3, <2>4, <2>5, <2>6, <2>7, <2>10, <2>11 DEF Next, Session
  <2> QED
    BY <2>2, <2>12
<1>2. TypeInv /\ MarksInv /\ [Next]_vars => [A]_vars
  BY <1>1
<1>3. BoardReopensRound <=> [][A]_vars
  BY DEF BoardReopensRound
<1> QED
  BY <1>2, <1>3, RoundOwnsItsMarks, PTL DEF Spec

=============================================================================
