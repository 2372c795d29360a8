------------------------------ MODULE WordLog ------------------------------
(***************************************************************************)
(* The word log (src/backend/src/words/mod.rs) and `page_words`, the table *)
(* that index/words.rs derives from it.                                    *)
(*                                                                         *)
(* The log is authored: one append-only file per month.  The table is a    *)
(* reading of it.  One asynchronous mutex (`WordLog::gate`) is held by     *)
(* `record` across "append the line, insert its row", and by a fold across *)
(* "read the log, replace the table".  Inside the mutex lives `seen`, what *)
(* this process last knew each month file to be; the watcher reads the log *)
(* back only when the files no longer match it.                            *)
(*                                                                         *)
(* The rest of the world is not behind that mutex: another program (a      *)
(* `git pull`, a file copied from another machine) may replace a month     *)
(* file at any moment, and the process may die in the middle of a line.    *)
(*                                                                         *)
(* A file is abstracted to the set of its lines that parse and to whether  *)
(* its last line lacks a newline; its stamp (length and modification time) *)
(* to a number that every write moves.  The table is abstracted to how     *)
(* many rows each observation has: the order of the rows is left to the    *)
(* module PageIndex.                                                       *)
(***************************************************************************)
EXTENDS Naturals, FiniteSets

CONSTANTS
    Recorders,   \* tasks that record an observation: API requests, the watcher, the scan
    Folders,     \* tasks that read the log back: the watcher, the startup scan, /api/reindex
    Months,      \* the month files
    Obs,         \* the observations anybody ever writes down
    MonthOf,     \* the month file an observation's instant puts it in
    NoTask,      \* nobody holds the gate
    NoObs,       \* a recorder at rest has nothing to record
    Unknown,     \* `seen` is None
    MaxPulls,    \* bound: how often another program replaces a month file
    MaxCrashes   \* bound: how often the process dies

ASSUME TasksAssumption == /\ Recorders \cap Folders = {}
                          /\ NoTask \notin Recorders \cup Folders
ASSUME MonthAssumption == MonthOf \in [Obs -> Months] /\ NoObs \notin Obs
ASSUME UnknownAssumption == Unknown \notin [Months -> Nat]
ASSUME BoundsAssumption == MaxPulls \in Nat /\ MaxCrashes \in Nat

VARIABLES
    \* On disk.
    lines,    \* the observations each month file reads back
    torn,     \* months whose last line has no newline
    stamp,    \* each month file's stamp; 0 while there is no such file
    rows,     \* page_words: how many rows each observation has
    \* In memory, lost with the process.
    phase,    \* "down", "starting" (reconciling) or "up"
    holder,   \* the task holding the gate
    seen,     \* WordLog::gate: the stamps last known, or Unknown
    pc,       \* where each task is
    job,      \* the observation a recorder is recording
    force,    \* whether a folder reads without asking `unchanged` (sync_words)
    \* Locals of whoever holds the gate.
    known,    \* append: the file was still what this process last saw
    taken,    \* read: the stamps taken before anything was read
    unread,   \* read: the month files still to be read
    got,      \* read: the observations read
    \* What happened, for the properties; the code keeps none of this.
    used,     \* observations somebody has written or tried to write
    acked,    \* observations whose append answered Ok
    drift,    \* <<observation, why>>: a row and its line allowed to disagree
    pulls, crashes

disk    == <<lines, torn, stamp, rows>>
local   == <<known, taken, unread, got>>
history == <<used, acked, drift, pulls, crashes>>
vars    == <<lines, torn, stamp, rows, phase, holder, seen, pc, job, force,
             known, taken, unread, got, used, acked, drift, pulls, crashes>>

Tasks    == Recorders \cup Folders

\* This process takes month m's file to be what it last read or wrote.
Trusts(m) == seen # Unknown /\ seen[m] = stamp[m]

Readable == UNION {lines[m] : m \in Months}

\* Why a row and its line may disagree while nothing looks out of date:
\* record_words failed; the line was fused onto a torn one; another program
\* wrote in the instant before or after our own line; rebuild_words failed.
Reasons == {"unindexed", "fused", "before", "after", "unfolded"}
Drifted(o, why) == \E w \in why : <<o, w>> \in drift

PcStates == {"idle", "waiting", "held", "checked", "written", "logged",
             "stamped", "read"}
InGate   == PcStates \ {"idle", "waiting"}

Init ==
    /\ lines = [m \in Months |-> {}]
    /\ torn = [m \in Months |-> FALSE]
    /\ stamp = [m \in Months |-> 0]
    /\ rows = [o \in Obs |-> 0]
    /\ phase = "down"
    /\ holder = NoTask
    /\ seen = Unknown
    /\ pc = [t \in Tasks |-> "idle"]
    /\ job = [r \in Recorders |-> NoObs]
    /\ force = [f \in Folders |-> FALSE]
    /\ known = FALSE
    /\ taken = [m \in Months |-> 0]
    /\ unread = {}
    /\ got = {}
    /\ used = {} /\ acked = {} /\ drift = {}
    /\ pulls = 0 /\ crashes = 0

-----------------------------------------------------------------------------
(* The gate: WordLog::hold, and the guard's drop.                          *)

\* A bug the gate could have: two WordLogs opened over one directory, each with
\* a mutex of its own.
Acquire_OwnGate(t) ==
    /\ pc[t] = "waiting"
    /\ holder' = t
    /\ pc' = [pc EXCEPT ![t] = "held"]
    /\ UNCHANGED <<disk, phase, seen, job, force, local, history>>

Acquire(t) ==
    /\ pc[t] = "waiting" /\ holder = NoTask
    /\ holder' = t
    /\ pc' = [pc EXCEPT ![t] = "held"]
    /\ UNCHANGED <<disk, phase, seen, job, force, local, history>>

Locals0 ==
    /\ known' = FALSE
    /\ taken' = [m \in Months |-> 0]
    /\ unread' = {}
    /\ got' = {}

\* The task leaves its critical section and is done; its locals go with it.
Release(t) ==
    /\ holder' = NoTask
    /\ pc' = [pc EXCEPT ![t] = "idle"]
    /\ job' = [r \in Recorders |-> IF r = t THEN NoObs ELSE job[r]]
    /\ force' = [f \in Folders |-> f # t /\ force[f]]
    /\ Locals0

At(t, where) == pc[t] = where

-----------------------------------------------------------------------------
(* words::record, on whose behalf observe, moved, split, merged and        *)
(* deleted run.                                                            *)

Record(r, o) ==
    /\ phase = "up" /\ pc[r] = "idle" /\ o \notin used
    /\ pc' = [pc EXCEPT ![r] = "waiting"]
    /\ job' = [job EXCEPT ![r] = o]
    /\ used' = used \cup {o}
    /\ UNCHANGED <<disk, phase, holder, seen, force, local, acked, drift, pulls, crashes>>

\* A bug Held::append could have: not asking, so that stamping the file after
\* the line claims somebody else's lines have been read.
Check_NotAsking(r) ==
    /\ At(r, "held")
    /\ known' = (seen # Unknown)
    /\ pc' = [pc EXCEPT ![r] = "checked"]
    /\ UNCHANGED <<disk, phase, holder, seen, job, force, taken, unread, got, history>>

\* Held::append asks, before writing, whether the file is still what this
\* process last saw; a file it cannot stamp counts as one it does not know.
Check(r) ==
    LET m == MonthOf[job[r]] IN
    /\ At(r, "held")
    /\ \E stamped \in BOOLEAN :
           known' = (stamped /\ seen # Unknown /\ seen[m] = stamp[m])
    /\ pc' = [pc EXCEPT ![r] = "checked"]
    /\ UNCHANGED <<disk, phase, holder, seen, job, force, taken, unread, got, history>>

\* A bug FileStamp could have: a time alone, too coarse to move with a line.
AppendLine_CoarseStamp(o) ==
    LET m == MonthOf[o] IN
    /\ lines' = IF torn[m] THEN lines ELSE [lines EXCEPT ![m] = @ \cup {o}]
    /\ torn' = [torn EXCEPT ![m] = FALSE]
    /\ UNCHANGED stamp

\* What putting the text of o, newline included, at the end of its month file
\* does to it.  After a torn line the two become one line, and o is not read
\* back as a line of its own.
AppendLine(o) ==
    LET m == MonthOf[o] IN
    /\ lines' = IF torn[m] THEN lines ELSE [lines EXCEPT ![m] = @ \cup {o}]
    /\ torn' = [torn EXCEPT ![m] = FALSE]
    /\ stamp' = [stamp EXCEPT ![m] = @ + 1]

\* What the first part of that text does: it may stop short of parsing, or
\* only short of its newline.
AppendPart(o) ==
    LET m == MonthOf[o] IN
    /\ \/ lines' = lines
       \/ ~torn[m] /\ lines' = [lines EXCEPT ![m] = @ \cup {o}]
    /\ torn' = [torn EXCEPT ![m] = TRUE]
    /\ stamp' = [stamp EXCEPT ![m] = @ + 1]

Write(r) ==
    LET o == job[r] IN
    /\ At(r, "checked")
    /\ AppendLine(o)
    /\ drift' = IF torn[MonthOf[o]] THEN drift \cup {<<o, "fused">>} ELSE drift
    /\ pc' = [pc EXCEPT ![r] = "written"]
    /\ UNCHANGED <<rows, phase, holder, seen, job, force, local, used, acked, pulls, crashes>>

\* The file would not open or the write failed part of the way through:
\* `record` says so in the log and gives up, and `seen` keeps what it held.
WriteFails(r) ==
    /\ At(r, "checked")
    /\ \/ UNCHANGED <<lines, torn, stamp>>
       \/ AppendPart(job[r])
    /\ Release(r)
    /\ UNCHANGED <<rows, phase, seen, history>>

\* A bug `record` could have: WordLog::append holds the gate for the line alone,
\* so that the row goes in after it was let go.
Restamp_LettingGo(r) ==
    LET m == MonthOf[job[r]] IN
    /\ At(r, "written")
    /\ \E stamped \in BOOLEAN :
           seen' = IF known /\ stamped THEN [seen EXCEPT ![m] = stamp[m]] ELSE Unknown
    /\ acked' = acked \cup {job[r]}
    /\ holder' = NoTask
    /\ pc' = [pc EXCEPT ![r] = "logged"]
    /\ UNCHANGED <<disk, phase, job, force, local, used, drift, pulls, crashes>>

\* Held::append stamps the file it has just written, if it knew it before.
Restamp(r) ==
    LET m == MonthOf[job[r]] IN
    /\ At(r, "written")
    /\ \E stamped \in BOOLEAN :
           seen' = IF known /\ stamped THEN [seen EXCEPT ![m] = stamp[m]] ELSE Unknown
    /\ acked' = acked \cup {job[r]}
    /\ pc' = [pc EXCEPT ![r] = "logged"]
    /\ UNCHANGED <<disk, phase, holder, job, force, local, used, drift, pulls, crashes>>

Insert(r) ==
    /\ At(r, "logged")
    /\ rows' = [rows EXCEPT ![job[r]] = @ + 1]
    /\ Release(r)
    /\ UNCHANGED <<lines, torn, stamp, phase, seen, history>>

\* Index::record_words failed: the line stays, without its row.
InsertFails(r) ==
    /\ At(r, "logged")
    /\ drift' = drift \cup {<<job[r], "unindexed">>}
    /\ Release(r)
    /\ UNCHANGED <<disk, phase, seen, used, acked, pulls, crashes>>

RecorderStep(r) == \/ Check(r) \/ Write(r) \/ WriteFails(r)
                   \/ Restamp(r) \/ Insert(r) \/ InsertFails(r)

-----------------------------------------------------------------------------
(* index::sync::sync_words (always reads) and refresh_words (reads unless  *)
(* Held::unchanged), both through fold_words.                              *)

Fold(f, always) ==
    /\ phase = "up" /\ pc[f] = "idle"
    /\ pc' = [pc EXCEPT ![f] = "waiting"]
    /\ force' = [force EXCEPT ![f] = always]
    /\ UNCHANGED <<disk, phase, holder, seen, job, local, history>>

\* While the process starts, the end of the fold is what lets it come up.
NextPhase(ok) == phase' = IF phase = "starting" THEN IF ok THEN "up" ELSE "down"
                          ELSE phase

Unchanged(f) ==
    /\ At(f, "held") /\ ~force[f] /\ seen = stamp
    /\ Release(f)
    /\ UNCHANGED <<disk, phase, seen, history>>

\* A bug a fold could have: trying an unreadable log again, gate in hand.
ReadFails_Retrying(f) ==
    /\ At(f, "held") \/ At(f, "stamped")
    /\ pc' = [pc EXCEPT ![f] = "held"]
    /\ UNCHANGED <<disk, phase, holder, seen, job, force, local, history>>

\* The stamps come first, so that a line landing while the files are read is a
\* change the next time anybody asks.  (`unchanged` also answers false when
\* it cannot stamp the files.)
TakeStamps(f) ==
    /\ At(f, "held")
    /\ taken' = stamp
    /\ unread' = {m \in Months : stamp[m] > 0}
    /\ got' = {}
    /\ pc' = [pc EXCEPT ![f] = "stamped"]
    /\ UNCHANGED <<disk, phase, holder, seen, job, force, known, history>>

ReadMonth(f, m) ==
    /\ At(f, "stamped") /\ m \in unread
    /\ got' = got \cup lines[m]
    /\ unread' = unread \ {m}
    /\ UNCHANGED <<disk, phase, holder, seen, pc, job, force, known, taken, history>>

FinishRead(f) ==
    /\ At(f, "stamped") /\ unread = {}
    /\ seen' = taken
    /\ pc' = [pc EXCEPT ![f] = "read"]
    /\ UNCHANGED <<disk, phase, holder, job, force, local, history>>

\* An unreadable log is not an error: the wiki is served with the table as it is.
ReadFails(f) ==
    /\ At(f, "held") \/ At(f, "stamped")
    /\ NextPhase(TRUE)
    /\ Release(f)
    /\ UNCHANGED <<disk, seen, history>>

Rebuild(f) ==
    /\ At(f, "read")
    /\ rows' = [o \in Obs |-> IF o \in got THEN 1 ELSE 0]
    /\ drift' = {}
    /\ NextPhase(TRUE)
    /\ Release(f)
    /\ UNCHANGED <<lines, torn, stamp, seen, used, acked, pulls, crashes>>

\* Index::rebuild_words rolled its transaction back.  The read has already
\* recorded the stamps as seen.  The watcher carries on; the startup scan
\* refuses to start, and takes the process with it.
RebuildFails(f) ==
    /\ At(f, "read")
    /\ drift' = drift \cup {<<o, "unfolded">> : o \in {x \in Obs : rows[x] # IF x \in got THEN 1 ELSE 0}}
    /\ NextPhase(FALSE)
    /\ seen' = IF phase = "starting" THEN Unknown ELSE seen
    /\ Release(f)
    /\ UNCHANGED <<disk, used, acked, pulls, crashes>>

FolderStep(f) == \/ Unchanged(f) \/ TakeStamps(f) \/ FinishRead(f) \/ ReadFails(f)
                 \/ Rebuild(f) \/ RebuildFails(f)
                 \/ \E m \in Months : ReadMonth(f, m)

-----------------------------------------------------------------------------
(* The process and the world.                                              *)

\* server::start folds the log before anything else can record.
Start(f) ==
    /\ phase = "down"
    /\ phase' = "starting"
    /\ pc' = [pc EXCEPT ![f] = "waiting"]
    /\ force' = [force EXCEPT ![f] = TRUE]
    /\ UNCHANGED <<disk, holder, seen, job, local, history>>

\* The process dies.  Whoever was writing a line may have got some of it out.
Crash ==
    /\ phase # "down" /\ crashes < MaxCrashes
    /\ crashes' = crashes + 1
    /\ \/ UNCHANGED <<lines, torn, stamp>>
       \/ \E r \in Recorders : At(r, "checked") /\ AppendPart(job[r])
    /\ phase' = "down"
    /\ holder' = NoTask
    /\ seen' = Unknown
    /\ pc' = [t \in Tasks |-> "idle"]
    /\ job' = [r \in Recorders |-> NoObs]
    /\ force' = [f \in Folders |-> FALSE]
    /\ Locals0
    /\ UNCHANGED <<rows, used, acked, drift, pulls>>

\* Deleting index.db while nothing runs, which the documentation calls safe.
LoseIndex ==
    /\ phase = "down"
    /\ rows' = [o \in Obs |-> 0]
    /\ UNCHANGED <<lines, torn, stamp, phase, holder, seen, pc, job, force, local, history>>

\* The windows in which `append` cannot tell another program's write to month
\* m from its own: between the stamp before its line and the line, and
\* between the line and the stamp after.
Window(m) ==
    {w \in {<<"checked", "before">>, <<"written", "after">>} :
        known /\ \E r \in Recorders : At(r, w[1]) /\ MonthOf[job[r]] = m}

\* Another program replaces a month file with one that gained an observation
\* or lost one.
Pull(m, o) ==
    /\ pulls < MaxPulls
    /\ pulls' = pulls + 1
    /\ MonthOf[o] = m
    /\ \/ o \notin used /\ lines' = [lines EXCEPT ![m] = @ \cup {o}]
       \/ o \in lines[m] /\ lines' = [lines EXCEPT ![m] = @ \ {o}]
    /\ torn' = [torn EXCEPT ![m] = FALSE]
    /\ stamp' = [stamp EXCEPT ![m] = @ + 1]
    /\ used' = used \cup {o}
    /\ acked' = acked \ {o}
    /\ drift' = drift \cup {<<o, w[2]>> : w \in Window(m)}
    /\ UNCHANGED <<rows, phase, holder, seen, pc, job, force, local, crashes>>

Next ==
    \/ \E r \in Recorders, o \in Obs : Record(r, o)
    \/ \E t \in Tasks : Acquire(t)
    \/ \E r \in Recorders : RecorderStep(r)
    \/ \E f \in Folders, always \in BOOLEAN : Fold(f, always)
    \/ \E f \in Folders : FolderStep(f) \/ Start(f)
    \/ \E m \in Months, o \in Obs : Pull(m, o)
    \/ Crash
    \/ LoseIndex

\* Tasks run; tokio's mutex is first come, first served, so a waiter that
\* keeps being able to take the gate is not passed over for ever.
Fairness ==
    /\ \A t \in Tasks : SF_vars(Acquire(t))
    /\ \A r \in Recorders : WF_vars(RecorderStep(r))
    /\ \A f \in Folders : WF_vars(FolderStep(f))

Spec == Init /\ [][Next]_vars
FairSpec == Spec /\ Fairness

-----------------------------------------------------------------------------
(* Properties.                                                             *)

\* The state has the types the code declares, and a month file that has been
\* written to has a stamp.
TypeOK ==
    /\ lines \in [Months -> SUBSET Obs]
    /\ torn \in [Months -> BOOLEAN]
    /\ stamp \in [Months -> Nat]
    /\ rows \in [Obs -> Nat]
    /\ phase \in {"down", "starting", "up"}
    /\ holder \in Tasks \cup {NoTask}
    /\ seen \in [Months -> Nat] \cup {Unknown}
    /\ pc \in [Tasks -> PcStates]
    /\ job \in [Recorders -> Obs \cup {NoObs}]
    /\ force \in [Folders -> BOOLEAN]
    /\ known \in BOOLEAN
    /\ taken \in [Months -> Nat]
    /\ unread \in SUBSET Months
    /\ got \in SUBSET Obs
    /\ used \in SUBSET Obs
    /\ acked \in SUBSET Obs
    /\ drift \in SUBSET (Obs \X Reasons)
    /\ pulls \in 0..MaxPulls
    /\ \A m \in Months : lines[m] # {} \/ torn[m] => stamp[m] > 0
    /\ crashes \in 0..MaxCrashes

\* An observation has as many rows as lines.
Agrees(o) == rows[o] = IF o \in lines[MonthOf[o]] THEN 1 ELSE 0

\* While the gate is free and Held::unchanged would answer true, the table is
\* exactly the log: whoever skips the read loses nothing by it.  The
\* exceptions are the ones `drift` records as they happen.
UnchangedMeansFolded ==
    (holder = NoTask /\ seen = stamp) =>
        \A o \in Obs : Drifted(o, Reasons) \/ Agrees(o)

\* The reason the gate covers both halves of `record` and of a fold
\* (words/mod.rs, the comment on `gate`): no observation is ever counted twice.
NeverCountedTwice == \A o \in Obs : rows[o] <= 1

\* A request that records words is answered: nobody waits for the gate for
\* ever, whatever fails and whoever else reads or writes.
EveryRecordSettles == \A r \in Recorders : (pc[r] = "waiting") ~> (pc[r] = "idle")

\* A fold never loses a row unnoticed (the same comment: a rebuild that "read
\* the log before the line and replaced the table after the row would drop the
\* row"): a row it takes away has no line any more, or its month file has
\* moved on since and is read again before anything else is weighed.
NoRowLostUnnoticed ==
    [][\A o \in Obs : (rows'[o] < rows[o] /\ phase # "down") =>
           o \notin lines[MonthOf[o]] \/ ~Trusts(MonthOf[o])']_vars

=============================================================================
