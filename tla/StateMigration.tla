--------------------------- MODULE StateMigration ---------------------------
(***************************************************************************)
(* The merge of the review states that each workspace kept for itself into *)
(* the state its repository's workspaces share (crates/review-state-       *)
(* migration, review-store/src/workspace_state.rs, review-threads/src/     *)
(* merge.rs), for the threads of one review.                               *)
(*                                                                         *)
(* Reviewers of this build work on the shared book; reviewers of an        *)
(* earlier build still run and work on the folder of their own workspace,  *)
(* which they create again after it moved.  Each open of a reviewer        *)
(* migrates, under one lock of all migrations, which no reviewer of an     *)
(* earlier build takes: it lists the folders, backs them up, and merges    *)
(* and moves one after the other.  It may end between any two steps.       *)
(***************************************************************************)
EXTENDS ReviewThreads, Positions

CONSTANTS
    Workspaces,  \* those whose folders belong to the repository
    NoFolder,    \* the folder a workspace does not have
    MaxMessages, \* bound: messages stored, of one thread
    MaxAcross,   \* bound: messages stored, of several threads
    MaxOpens     \* bound: migrations

ASSUME MigrationAssumption ==
    /\ NoFolder \notin Book \cup Workspaces
    /\ Tabs # {}
    /\ {MaxMessages, MaxAcross, MaxOpens} \subseteq Nat

VARIABLES
    shared,    \* the book of the shared state
    folders,   \* the book of each workspace's own state
    retired,   \* those moved to merged-workspaces/, by workspace
    recorded,  \* whether migration.json names a backup
    changed,   \* the folders changed since the backup it names, or tries to, started
    backups,   \* the complete backups, in time order, each what it holds
    job,       \* the migration that runs
    opens,
    late,      \* history: what was stored in a folder between its merge and its move
    latest     \* history: what was stored when the latest backup was taken

disk == <<shared, folders, retired, recorded, changed, backups>>
vars == <<disk, job, opens, late, latest>>

Ids(b) == {b.log[i].id : i \in DOMAIN b.log}

Present == {w \in Workspaces : folders[w] # NoFolder}

NoJob == [step |-> "none", todo |-> {}, at |-> NoFolder, found |-> <<>>]

\* What a backup holds: the folders in `copied`, and the shared book or NoFolder.
BackupOf(copied, book) ==
    [folders |-> [w \in Workspaces |-> IF w \in copied THEN folders[w] ELSE NoFolder],
     shared |-> book]

Init ==
    /\ shared = EmptyBook
    /\ folders = [w \in Workspaces |-> NoFolder]
    /\ retired = [w \in Workspaces |-> {}]
    /\ recorded = FALSE /\ changed = {} /\ backups = <<>>
    /\ job = NoJob /\ opens = 0
    /\ late = {} /\ latest = {}

-----------------------------------------------------------------------------
(* ReviewThreads::merge. *)

\* Mutant of Lacking: only those of the threads that b lacks.
InNewThreads(b, o) == {i \in DOMAIN o.log : b.open[o.log[i].thread] = "absent"}

\* The messages of o that b lacks, as o's positions.
Lacking(b, o) == {i \in DOMAIN o.log : ~Known(b, o.log[i].id)}

\* Mutant of Arriving: they take their numbers in another order.
Unsorted(b, o) ==
    [k \in 1 .. Cardinality(Lacking(b, o)) |->
        o.log[Nth(Lacking(b, o), Cardinality(Lacking(b, o)) + 1 - k)]]

\* They follow in o's posting order.
Arriving(b, o) == Picked(o.log, Lacking(b, o))

\* The merged number of o's message i.
Position(log, o, i) == CHOOSE j \in DOMAIN log : log[j].id = o.log[i].id

\* What o's position p in the thread t covered, in the merged log.
Translate(log, o, t, p) ==
    Latest({Position(log, o, i) : i \in {k \in InThread(o, t) : k <= p}})

\* Mutant of MergedResolution: it opens whatever thread something arrives in.
AnyOpens(b, o, t) ==
    CASE b.open[t] = "absent" -> o.open[t]
      [] Lacking(b, o) # {} -> "open"
      [] OTHER -> b.open[t]

\* A resolved thread of b opens for what arrives from o, where it is open.
MergedResolution(b, o, t) ==
    CASE b.open[t] = "absent" -> o.open[t]
      [] o.open[t] = "open" /\ InThread(o, t) \cap Lacking(b, o) # {} -> "open"
      [] OTHER -> b.open[t]

\* Mutant of Merge: all that the other book holds arrives.
MergeAll(b, o) == [b EXCEPT !.log = @ \o o.log]

\* The book b with what o, of the same review, holds besides.
Merge(b, o) ==
    LET log == b.log \o Arriving(b, o) IN
    [log |-> log,
     open |-> [t \in Threads |-> MergedResolution(b, o, t)],
     answered |-> [t \in Threads |->
                    Max({b.answered[t], Translate(log, o, t, o.answered[t])})]]

-----------------------------------------------------------------------------
(* The reviewers. *)

Everything == UNION {Ids(b) : b \in {shared} \cup {folders[w] : w \in Present}
                                    \cup UNION {retired[w] : w \in Workspaces}}

\* A thread of no book: its identity is fresh.
New(t) ==
    \A b \in {shared} \cup {folders[w] : w \in Present} \cup UNION {retired[w] : w \in Workspaces} :
        b.open[t] = "absent"

\* A message's identity, for the thread t.
Fresh(id, t) ==
    /\ id \notin Everything
    /\ Cardinality(Everything) < IF \A s \in Threads \ {t} : New(s) THEN MaxMessages ELSE MaxAcross

\* A thread that book b can be written in; the conversation of a round that reviewers of
\* workspace w show, and that moved with their folder, also without the book.
Writable(b, w, t) ==
    b.open[t] # "absent" \/ New(t) \/ (t \in Rounds /\ \E r \in retired[w] : r.open[t] # "absent")

\* Every way to write book b: a comment, an agent's reply, and the thread's resolution.
Commented(b, id, t) == Post(b, [id |-> id, thread |-> t, from |-> CHOOSE tab \in Tabs : TRUE,
                                in_reply_to |-> NoMessage])
Replied(b, id, c) == Answer(b, [id |-> id, thread |-> c.thread, from |-> "agent",
                                in_reply_to |-> c.id])

\* A reviewer of an earlier build, of workspace w, writes its own state, which it creates
\* where it moved: update_threads.
EarlierBuild(w) ==
    LET b == IF folders[w] = NoFolder THEN EmptyBook ELSE folders[w]
        writes(written) ==
            /\ folders' = [folders EXCEPT ![w] = written]
            /\ changed' = changed \cup {w}
            /\ late' = IF job.at = w THEN late \cup (Ids(written) \ Ids(b)) ELSE late
    IN
    /\ \/ \E id \in MessageIds, t \in Threads :
            Fresh(id, t) /\ Writable(b, w, t) /\ writes(Commented(b, id, t))
       \/ \E id \in MessageIds : \E i \in DOMAIN b.log :
            /\ Fresh(id, b.log[i].thread) /\ b.log[i].from # "agent"
            /\ writes(Replied(b, id, b.log[i]))
       \/ \E t \in Threads :
            b.open[t] # "absent"
            /\ writes(SetResolution(b, t, IF b.open[t] = "open" THEN "resolved" ELSE "open"))
    /\ UNCHANGED <<shared, retired, recorded, backups, job, opens, latest>>

\* A reviewer of this build writes the shared state.
ThisBuild ==
    /\ \/ \E id \in MessageIds, t \in Threads :
            /\ Fresh(id, t) /\ (shared.open[t] # "absent" \/ New(t))
            /\ shared' = Commented(shared, id, t)
       \/ \E id \in MessageIds : \E i \in DOMAIN shared.log :
            /\ Fresh(id, shared.log[i].thread) /\ shared.log[i].from # "agent"
            /\ shared' = Replied(shared, id, shared.log[i])
       \/ \E t \in Threads :
            /\ shared.open[t] # "absent"
            /\ shared' = SetResolution(shared, t,
                            IF shared.open[t] = "open" THEN "resolved" ELSE "open")
    /\ UNCHANGED <<folders, retired, recorded, changed, backups, job, opens, late, latest>>

-----------------------------------------------------------------------------
(* A migration. *)

\* migrate: the folders it lists, under the lock of every migration.  The time that
\* before_merge notes is that of the backup of all folders until one is on record.
List ==
    /\ job = NoJob /\ opens < MaxOpens /\ Present # {}
    /\ job' = [step |-> "listed", todo |-> Present, at |-> NoFolder, found |-> folders]
    /\ opens' = opens + 1
    /\ changed' = IF recorded THEN changed ELSE {}
    /\ UNCHANGED <<shared, folders, retired, recorded, backups, late, latest>>

\* backup::before_merge, without a record: every folder is copied, not the shared state.
CopyAll ==
    /\ job.step = "listed" /\ ~recorded
    /\ backups' = Append(backups, BackupOf(job.todo, NoFolder))
    /\ job' = [job EXCEPT !.step = "copied"]
    /\ latest' = UNION {Ids(folders[w]) : w \in job.todo}
    /\ UNCHANGED <<shared, folders, retired, recorded, changed, opens, late>>

\* Mutant of RecordBackup: a folder that changed since the copy counts as unchanged.
RecordNow ==
    /\ job.step = "copied"
    /\ recorded' = TRUE /\ changed' = {}
    /\ job' = [job EXCEPT !.step = "merging"]
    /\ UNCHANGED <<shared, folders, retired, backups, opens, late, latest>>

\* write_record.
RecordBackup ==
    /\ job.step = "copied"
    /\ recorded' = TRUE
    /\ job' = [job EXCEPT !.step = "merging"]
    /\ UNCHANGED <<shared, folders, retired, changed, backups, opens, late, latest>>

\* Mutant of CopyChanged: a later backup leaves the shared state out as well.
CopyFolders ==
    /\ job.step = "listed" /\ recorded
    /\ LET copied == changed \cap job.todo IN
        IF copied = {}
        THEN UNCHANGED <<backups, latest>>
        ELSE /\ backups' = Append(backups, BackupOf(copied, NoFolder))
             /\ latest' = Ids(shared) \cup UNION {Ids(folders[w]) : w \in job.todo}
    /\ job' = [job EXCEPT !.step = "merging"]
    /\ UNCHANGED <<shared, folders, retired, recorded, changed, opens, late>>

\* backup::before_merge, with a record: what changed since, with the shared state.
CopyChanged ==
    /\ job.step = "listed" /\ recorded
    /\ LET copied == changed \cap job.todo IN
        IF copied = {}
        THEN UNCHANGED <<backups, latest>>
        ELSE /\ backups' = Append(backups, BackupOf(copied, shared))
             /\ latest' = Ids(shared) \cup UNION {Ids(folders[w]) : w \in job.todo}
    /\ job' = [job EXCEPT !.step = "merging"]
    /\ UNCHANGED <<shared, folders, retired, recorded, changed, opens, late>>

\* ReviewStore::merge_threads.
MergeThreads(w) ==
    /\ job.step = "merging" /\ job.at = NoFolder /\ w \in job.todo
    /\ shared' = Merge(shared, folders[w])
    /\ job' = [job EXCEPT !.at = w]
    /\ UNCHANGED <<folders, retired, recorded, changed, backups, opens, late, latest>>

\* What is left of the migration that moved its folder.
Moved == IF job.todo = {job.at} THEN NoJob
         ELSE [job EXCEPT !.todo = @ \ {job.at}, !.at = NoFolder]

\* ReviewStore::retire_workspace_state.
Retire ==
    /\ job.at # NoFolder
    /\ retired' = [retired EXCEPT ![job.at] = @ \cup {folders[job.at]}]
    /\ folders' = [folders EXCEPT ![job.at] = NoFolder]
    /\ changed' = changed \ {job.at}
    /\ job' = Moved
    /\ UNCHANGED <<shared, recorded, backups, opens, late, latest>>

\* It fails, or its process ends.
Stops ==
    /\ job # NoJob
    /\ job' = NoJob
    /\ UNCHANGED <<disk, opens, late, latest>>

Migrate == List \/ CopyAll \/ RecordBackup \/ CopyChanged \/ Retire \/ Stops
           \/ \E w \in Workspaces : MergeThreads(w)

Next == ThisBuild \/ Migrate \/ \E w \in Workspaces : EarlierBuild(w)

Spec == Init /\ [][Next]_vars

-----------------------------------------------------------------------------
(* Properties. *)

\* Types, and that a migration moves what it merged.
Folder(b) == b = NoFolder \/ (b.log \in Seq(Message) /\ b.open \in [Threads -> Resolution]
                               /\ b.answered \in [Threads -> 0 .. Len(b.log)])
TypeOK ==
    /\ shared # NoFolder /\ Folder(shared)
    /\ \A w \in Workspaces : Folder(folders[w]) /\ \A b \in retired[w] : Folder(b)
    /\ recorded \in BOOLEAN /\ changed \subseteq Workspaces
    /\ job.step \in {"none", "listed", "copied", "merging"}
    /\ job.todo \subseteq Present /\ job.at \in job.todo \cup {NoFolder}

\* Every message is in the shared state, or in a folder that the next open merges: none is
\* only where no reviewer looks, whatever step the process ends at, but what a reviewer of an
\* earlier build stored between the merge of its folder and its move.
NothingLost ==
    Everything \ late \subseteq Ids(shared) \cup UNION {Ids(folders[w]) : w \in Present}

\* Comment i of thread t waits for an answer.
Unanswered(b, t, i) == i > b.answered[t] /\ ~IsAnswered(b, t, i)

\* The comments of thread t that wait, by identity.
WaitIn(b, t) == {b.log[i].id : i \in {k \in Comments(b, t) : Unanswered(b, t, k)}}
CommentsIn(b, t) == {b.log[i].id : i \in Comments(b, t)}

\* "Its pending comments stay pending and its answered ones answered": a comment of a folder
\* waits in the merged book exactly if it waits in each of the books that hold it, in an open
\* thread where it arrives from one; and a thread to which nothing arrives stays as it is.
MergeKeepsAnswers ==
    \A w \in Present, t \in Threads :
        LET b == shared
            o == folders[w]
            merged == Merge(b, o)
        IN
        /\ \A id \in CommentsIn(o, t) :
             id \in WaitIn(merged, t)
                <=> id \in WaitIn(o, t) /\ (id \in CommentsIn(b, t) => id \in WaitIn(b, t))
        /\ CommentsIn(o, t) \ CommentsIn(b, t) # {} /\ o.open[t] = "open"
             => merged.open[t] = "open"
        /\ InThread(o, t) \cap Lacking(b, o) = {} => Pending(merged, t) = Pending(b, t)

\* A merge that is done again, as after an end between the merge and the move, changes
\* nothing, and two folders give the same book in either order, up to its own.
MergedAgain ==
    \A w \in Present :
        LET merged == Merge(shared, folders[w]) IN
        /\ Merge(merged, folders[w]) = merged
        /\ \A v \in Present \ {w} :
             LET one == Merge(merged, folders[v])
                 other == Merge(Merge(shared, folders[v]), folders[w])
             IN one.open = other.open /\ \A t \in Threads : WaitIn(one, t) = WaitIn(other, t)

\* What a migration found in a folder is in a complete backup before it is merged.
BackedUp ==
    job.step = "merging" =>
        \A w \in job.todo : Ids(job.found[w]) \subseteq
            UNION {Ids(backups[i].folders[w]) :
                     i \in {k \in DOMAIN backups : backups[k].folders[w] # NoFolder}}

\* RESTORE.md: the first backup and every later one over it, in time order, bring back what
\* was stored when the latest was taken; at the first one, what the folders held.
LastWith(has(_)) == Latest({i \in DOMAIN backups : has(backups[i])})
Restored ==
    LET sharedAt == LastWith(LAMBDA b : b.shared # NoFolder)
        folderAt(w) == LastWith(LAMBDA b : b.folders[w] # NoFolder)
    IN  (IF sharedAt = 0 THEN {} ELSE Ids(backups[sharedAt].shared))
        \cup UNION {IF folderAt(w) = 0 THEN {} ELSE Ids(backups[folderAt(w)].folders[w])
                      : w \in Workspaces}
RestoreBringsBack == latest \subseteq Restored
=============================================================================
