------------------------------ MODULE TimeLog ------------------------------
(***************************************************************************)
(* The time log: its files (times/mod.rs, times/store.rs), the handlers    *)
(* that write them (api/times.rs) and the rows the index keeps of them     *)
(* (index/times.rs), with the watcher and the startup scan.                *)
(*                                                                         *)
(* An instant is a number of nanoseconds, PerSecond of them to a second.   *)
(* An id is the instant it spells: the second of the start it was minted   *)
(* from, and its nanoseconds with the nudge added, modulo a second.  What  *)
(* an entry holds beside its times is data; pages are a set, since reading *)
(* drops repetitions and the table ignores them.  A file's modification    *)
(* time is the number of times it was written: no two contents of one file *)
(* have the same.  Its size is a parameter, which may tell two contents    *)
(* apart or not.  The clock says anything whenever it is read, since it    *)
(* may be set back.  The log is wiki-wide, so nobody's view of it differs  *)
(* but in the titles of pages, which are left out.                         *)
(*                                                                         *)
(* Looking for a free id, the write, the look at the file's stamp and the  *)
(* row are an await each, and so are the text and the stamp of a read, and *)
(* what is done with it.  The same reads bring the rows in line for the    *)
(* watcher, the scan before serving, the watcher's rescans and a reindex.  *)
(***************************************************************************)
EXTENDS Integers, FiniteSets

CONSTANTS
    MaxInstant, PerSecond,
    MintAttempts,
    Names, NoName,      \* NoName is blank or too long
    Pages, Notes, NoNote,
    Length,             \* of each file that may be there, in bytes
    Clients,
    Watches,            \* whether a start may find a file system it can watch
    Drafts, Patches,    \* what clients send, see below
    FirstLogs,          \* the logs it may start with
    Edited,             \* what somebody with an editor leaves at a file
    None, Garbled, Clear,
    MaxRequests, MaxEdits, MaxScans, MaxMishaps, MaxInAll   \* bounds

Instants == 0..MaxInstant
Ids      == Instants
Entries  == [name : Names, start : Instants, end : Instants \cup {None},
             pages : SUBSET Pages, note : Notes \cup {NoNote}]
Bodies   == Entries \cup {None, Garbled}
Stamps   == [mtime : Nat, size : Nat]
Rows     == [name : Names, start : Instants, end : Instants \cup {None},
             pages : SUBSET Pages, note : Notes \cup {NoNote}, stamp : Stamps]

Watcher == "watcher"
Starter == "starter"
Actors  == Clients \cup {Watcher, Starter}

ASSUME TimesNone == None \notin Entries \cup Rows \cup Instants \cup {Garbled}
                    /\ Garbled \notin Entries /\ Clear # None
\* The instants there are make whole seconds: an id is one of them.
ASSUME TimesNumbers == /\ MaxInstant \in Nat /\ PerSecond \in Nat \ {0} /\ MintAttempts \in Nat
                       /\ (MaxInstant + 1) % PerSecond = 0
                       /\ {MaxRequests, MaxEdits, MaxScans, MaxMishaps, MaxInAll} \subseteq Nat
ASSUME TimesNames == NoName \notin Names
ASSUME TimesLengths == Length \in [Entries \cup {Garbled} -> Nat]
ASSUME TimesActors == Clients \cap {Watcher, Starter} = {} /\ Watches \subseteq BOOLEAN
\* A field None is one the request leaves out; an `end` of Clear is a null.
ASSUME TimesRequests ==
    /\ Drafts \subseteq [name : Names \cup {NoName}, start : Instants \cup {None},
                         end : Instants \cup {None}, pages : SUBSET Pages,
                         note : Notes \cup {NoNote}]
    /\ Patches \subseteq [name : Names \cup {NoName, None}, start : Instants \cup {None},
                          end : Instants \cup {None, Clear},
                          pages : (SUBSET Pages) \cup {None}, note : Notes \cup {NoNote, None}]
    /\ Edited \subseteq Bodies
ASSUME TimesFirst == /\ FirstLogs \subseteq [Ids -> Entries \cup {None}]
                     /\ \A log \in FirstLogs, i \in Ids :
                          log[i] # None /\ log[i].end # None => log[i].start <= log[i].end

VARIABLES
    files,    \* each id's file
    mtime,    \* its modification time
    rows,     \* the index
    phase,    \* "down", "starting", "reconciled" (not watching yet), "up", or
              \* "blind" (up, with nothing watching)
    dirty,    \* ids with file events the watcher has not taken yet
    task,     \* what each actor has in hand
    \* What happened, for the properties.
    late,     \* ids nobody looks at again although the row is not the file's: edited
              \* between the scan and the watch, entered by a request behind the
              \* file, left by a failure, or with the stamp of another text
    requests, edits, scans, mishaps   \* scans but for those a start begins with

bounds == <<requests, edits, scans, mishaps>>
vars == <<files, mtime, rows, phase, dirty, task, late, requests, edits, scans, mishaps>>

Rest == [at |-> "rest", op |-> "none", id |-> None, nudge |-> 0, base |-> None,
         draft |-> None, patch |-> None, stamp |-> None, walk |-> <<>>, todo |-> {}, gone |-> {}]

IsEntry(file) == file \notin {None, Garbled}
IsRunning(entry) == entry.end = None

Size(file) == IF file = None THEN 0 ELSE Length[file]
Stamp(i) == [mtime |-> mtime[i], size |-> Size(files[i])]

\* No bound on all of them together is reached.
Room == requests + edits + scans + mishaps < MaxInAll

Watching == phase = "up"
Serving  == phase \in {"up", "blind"}

-----------------------------------------------------------------------------
(* What an id and a request come to.                                       *)

\* The nanoseconds wrap around inside their second.
Mint(start, nudge) ==
    ((start \div PerSecond) * PerSecond) + (((start % PerSecond) + nudge) % PerSecond)

InRange(start, end) == end = None \/ start <= end

DraftOf(d, at) == [d EXCEPT !.start = IF d.start = None THEN at ELSE d.start]

Or(given, held) == IF given = None THEN held ELSE given
\* A list left out taken for an empty one.
Patched_Wholesale(entry, p) ==
    [name |-> Or(p.name, entry.name), start |-> Or(p.start, entry.start),
     end |-> IF p.end = Clear THEN None ELSE Or(p.end, entry.end),
     pages |-> Or(p.pages, {}), note |-> Or(p.note, entry.note)]

Patched(entry, p) ==
    [name |-> Or(p.name, entry.name), start |-> Or(p.start, entry.start),
     end |-> IF p.end = Clear THEN None ELSE Or(p.end, entry.end),
     pages |-> Or(p.pages, entry.pages), note |-> Or(p.note, entry.note)]

\* A clock set back would end it before it started.
Stopped(entry, at) == [entry EXCEPT !.end = IF at > entry.start THEN at ELSE entry.start]

\* Checking what the request names and nothing else.
Accepts_AsSent(draft, sent) ==
    /\ draft.name # NoName
    /\ sent.start # None /\ sent.end \notin {None, Clear} => sent.start <= sent.end

\* check_name and check_range, on what would be written.
Accepts(draft, sent) == draft.name # NoName /\ InRange(draft.start, draft.end)

-----------------------------------------------------------------------------
(* Requests.                                                               *)

At(a, where) == task[a].at = where
Scanning(a) == task[a].op \in {"scan", "reindex"}
Reading(a) == Scanning(a) \/ task[a].op = "watch"
Go(a, t) == task' = [task EXCEPT ![a] = t]
Answer(a) == Go(a, Rest)

\* Done with an entry: the next one of a scan or a batch, or the answer.
Turn(a) == LET t == task[a] IN
           IF Reading(a)
           THEN Go(a, [Rest EXCEPT !.at = "next", !.op = t.op, !.todo = t.todo, !.gone = t.gone])
           ELSE Answer(a)

Put(i, file) ==
    /\ files' = [files EXCEPT ![i] = file]
    /\ mtime' = [mtime EXCEPT ![i] = @ + 1]
    /\ dirty' = IF Watching THEN dirty \cup {i} ELSE dirty

Ask(c) ==
    /\ Serving /\ At(c, "rest") /\ requests < MaxRequests /\ Room
    /\ requests' = requests + 1
    /\ \/ \E d \in Drafts, now \in Instants :
            LET draft == DraftOf(d, now) IN
            IF Accepts(draft, d)
            THEN Go(c, [Rest EXCEPT !.at = "probe", !.op = "create", !.draft = draft])
            ELSE Answer(c)
       \/ \E i \in Ids, p \in Patches :
            Go(c, [Rest EXCEPT !.at = "read", !.op = "patch", !.id = i, !.patch = p])
       \/ \E i \in Ids, op \in {"stop", "delete"} :
            Go(c, [Rest EXCEPT !.at = IF op = "stop" THEN "read" ELSE "unlink",
                               !.op = op, !.id = i])
    /\ UNCHANGED <<files, mtime, rows, phase, dirty, late, edits, scans, mishaps>>

AskReindex(c) ==
    /\ Serving /\ At(c, "rest") /\ scans < MaxScans /\ Room
    /\ scans' = scans + 1
    /\ Go(c, [Rest EXCEPT !.at = "clear", !.op = "reindex"])
    /\ UNCHANGED <<files, mtime, rows, phase, dirty, late, requests, edits, mishaps>>

\* One id after another until there is no file: NoFreeId after MintAttempts.
Probe(c) ==
    /\ At(c, "probe")
    /\ LET t == task[c]
           i == Mint(t.draft.start, t.nudge)
       IN IF t.nudge >= MintAttempts THEN Answer(c)
          ELSE IF files[i] = None
               THEN Go(c, [t EXCEPT !.at = "write", !.id = i, !.stamp = Stamp(i)])
          ELSE Go(c, [t EXCEPT !.nudge = @ + 1])
    /\ UNCHANGED <<files, mtime, rows, phase, dirty, late, bounds>>

\* The text of the entry to patch or to stop: 404 without a file.
Read(c) ==
    /\ At(c, "read")
    /\ LET t == task[c] IN
       IF files[t.id] = None THEN Answer(c)
       ELSE Go(c, [t EXCEPT !.at = "readstat", !.base = files[t.id]])
    /\ UNCHANGED <<files, mtime, rows, phase, dirty, late, bounds>>

\* And then its stamp, of whatever is there by now, and what comes of it: an
\* error if nothing is, 422 without a readable one, 409 for a timer that is over.
\* Stopping compares nothing; patching checks what comes out.
Draw(c) ==
    /\ At(c, "readstat") /\ ~Reading(c)
    /\ \E now \in Instants :
       LET t == task[c]
           draft == IF t.op = "patch" THEN Patched(t.base, t.patch) ELSE Stopped(t.base, now)
           goesOn == IF t.op = "patch" THEN Accepts(draft, t.patch) ELSE IsRunning(t.base)
       IN IF files[t.id] = None \/ ~IsEntry(t.base) THEN Answer(c)
          ELSE IF goesOn THEN Go(c, [t EXCEPT !.at = "write", !.draft = draft])
          ELSE Answer(c)
    /\ UNCHANGED <<files, mtime, rows, phase, dirty, late, bounds>>

\* What was written is the writer's to enter.
Write(c) ==
    /\ At(c, "write")
    /\ Put(task[c].id, task[c].draft)
    /\ late' = late \ {task[c].id}
    /\ Go(c, [Rest EXCEPT !.at = "stat", !.id = task[c].id, !.draft = task[c].draft])
    /\ UNCHANGED <<rows, phase, bounds>>

\* The stamp of whatever is there by now: an error if nothing is.
Stat(c) ==
    /\ At(c, "stat")
    /\ LET t == task[c] IN
       IF files[t.id] = None THEN Answer(c)
       ELSE Go(c, [t EXCEPT !.at = "index", !.stamp = Stamp(t.id)])
    /\ UNCHANGED <<files, mtime, rows, phase, dirty, late, bounds>>

\* The row and what hangs on it are written afresh, whatever was there.
RowOf(entry, s, old) ==
    [name |-> entry.name, start |-> entry.start, end |-> entry.end,
     pages |-> entry.pages, note |-> entry.note, stamp |-> s]

\* upsert_time of an entry, remove_time of anything else.
EntryRow(i, file, s) == IF IsEntry(file) THEN RowOf(file, s, rows[i]) ELSE None

Says(row, file) == IF IsEntry(file)
                   THEN row # None /\ [f \in DOMAIN row \ {"stamp"} |-> row[f]] = file
                   ELSE row = None

\* A scan takes the entry for unchanged: the row has the stamp of the file.
Trusts(row, i) == row # None /\ files[i] # None /\ row.stamp = Stamp(i)

Enter(a, i, file, s) ==
    LET row == EntryRow(i, file, s) IN
    /\ rows' = [rows EXCEPT ![i] = row]
    /\ late' = IF Says(row, files[i]) THEN late \ {i}
               ELSE IF Trusts(row, i) \/ (a \in Clients /\ i \notin dirty) THEN late \cup {i}
               ELSE late

IndexEntry(a) ==
    /\ At(a, "index")
    /\ Enter(a, task[a].id, task[a].draft, task[a].stamp)
    /\ Turn(a)
    /\ UNCHANGED <<files, mtime, phase, dirty, bounds>>

Unlink(c) ==
    /\ At(c, "unlink")
    /\ LET t == task[c] IN
       IF files[t.id] = None
       THEN Answer(c) /\ UNCHANGED <<files, mtime, dirty, late>>
       ELSE /\ Put(t.id, None)
            /\ late' = late \ {t.id}
            /\ Go(c, [t EXCEPT !.at = "drop"])
    /\ UNCHANGED <<rows, phase, bounds>>

DropRow(a) ==
    /\ At(a, "drop")
    /\ Enter(a, task[a].id, None, None)
    /\ Turn(a)
    /\ UNCHANGED <<files, mtime, phase, dirty, bounds>>

-----------------------------------------------------------------------------
(* Bringing the rows in line: the watcher, sync_times and its callers.     *)

\* index.clear, for POST /api/reindex.
ClearRows(c) ==
    /\ At(c, "clear")
    /\ rows' = [i \in Ids |-> None]
    /\ Go(c, [task[c] EXCEPT !.at = "walk"])
    /\ UNCHANGED <<files, mtime, phase, dirty, late, bounds>>

Walk(a) ==
    /\ At(a, "walk")
    /\ Go(a, [task[a] EXCEPT !.at = "compare",
                             !.walk = [i \in {j \in Ids : files[j] # None} |-> Stamp(i)]])
    /\ UNCHANGED <<files, mtime, rows, phase, dirty, late, bounds>>

\* A file of the same length taken for the same file.
Compare_BySize(a) ==
    /\ At(a, "compare")
    /\ LET walk == task[a].walk
           indexed == {i \in Ids : rows[i] # None}
           unchanged == {i \in indexed \cap DOMAIN walk : rows[i].stamp.size = walk[i].size}
       IN Go(a, [task[a] EXCEPT !.at = "next", !.walk = <<>>,
                                !.todo = DOMAIN walk \ unchanged, !.gone = indexed \ DOMAIN walk])
    /\ UNCHANGED <<files, mtime, rows, phase, dirty, late, bounds>>

\* The stamps of the index, against those of the walk.
Compare(a) ==
    /\ At(a, "compare")
    /\ LET walk == task[a].walk
           indexed == {i \in Ids : rows[i] # None}
           unchanged == {i \in indexed \cap DOMAIN walk : rows[i].stamp = walk[i]}
       IN Go(a, [task[a] EXCEPT !.at = "next", !.walk = <<>>,
                                !.todo = DOMAIN walk \ unchanged, !.gone = indexed \ DOMAIN walk])
    /\ UNCHANGED <<files, mtime, rows, phase, dirty, late, bounds>>

\* The text of the next entry, in whatever order.
Look(a) ==
    /\ At(a, "next")
    /\ \E i \in task[a].todo :
         LET t == [task[a] EXCEPT !.id = i, !.todo = @ \ {i}]
         IN Go(a, IF files[i] = None THEN [t EXCEPT !.at = "drop"]
                  ELSE [t EXCEPT !.at = "readstat", !.base = files[i]])
    /\ UNCHANGED <<files, mtime, rows, phase, dirty, late, bounds>>

\* And then its modification time; its size is the text's.  What cannot be read
\* loses its row.
LookAgain(a) ==
    /\ At(a, "readstat") /\ Reading(a)
    /\ LET t == [task[a] EXCEPT !.base = None]
           text == task[a].base
       IN Go(a, IF files[t.id] = None \/ ~IsEntry(text) THEN [t EXCEPT !.at = "drop"]
                ELSE [t EXCEPT !.at = "index", !.draft = text,
                               !.stamp = [mtime |-> mtime[t.id], size |-> Size(text)]])
    /\ UNCHANGED <<files, mtime, rows, phase, dirty, late, bounds>>

\* A scan then drops what it met no file for.
DropGone(a) ==
    /\ At(a, "next") /\ task[a].todo = {}
    /\ \E i \in task[a].gone :
         /\ Enter(a, i, None, None)
         /\ Go(a, [task[a] EXCEPT !.gone = @ \ {i}])
    /\ UNCHANGED <<files, mtime, phase, dirty, bounds>>

Done(a) ==
    /\ At(a, "next") /\ task[a].todo = {} /\ task[a].gone = {}
    /\ phase' = IF a = Starter THEN "reconciled" ELSE phase
    /\ Answer(a)
    /\ UNCHANGED <<files, mtime, rows, dirty, late, bounds>>

\* The debouncer delivers the events that have settled and holds back the others.
TakeEvents(taken, t) ==
    /\ Watching /\ At(Watcher, "rest")
    /\ dirty' = dirty \ taken
    /\ Go(Watcher, t)
    /\ UNCHANGED <<files, mtime, rows, phase, late, requests, edits, mishaps>>

\* Each of them names an entry: look at those.
Batch ==
    /\ \E taken \in (SUBSET dirty) \ {{}} :
          TakeEvents(taken, [Rest EXCEPT !.at = "next", !.op = "watch", !.todo = taken])
    /\ UNCHANGED scans

\* One of them, of the time log's or not, names a directory: look at everything.
Rescan ==
    /\ scans < MaxScans /\ Room /\ scans' = scans + 1
    /\ \E taken \in SUBSET dirty : TakeEvents(taken, [Rest EXCEPT !.at = "walk", !.op = "scan"])

-----------------------------------------------------------------------------
(* The server and the world.                                               *)

\* A server that has read its log.
Init ==
    /\ files \in FirstLogs /\ mtime = [i \in Ids |-> 0]
    /\ rows = [i \in Ids |-> IF IsEntry(files[i]) THEN RowOf(files[i], Stamp(i), None) ELSE None]
    /\ phase = "up" /\ dirty = {}
    /\ task = [a \in Actors |-> Rest]
    /\ late = {} /\ requests = 0 /\ edits = 0 /\ scans = 0 /\ mishaps = 0

Start ==
    /\ phase = "down" /\ phase' = "starting"
    /\ Go(Starter, [Rest EXCEPT !.at = "walk", !.op = "scan"])
    /\ UNCHANGED <<files, mtime, rows, dirty, late, bounds>>

\* server::start, once reconcile is over: adoption, binding, watcher::spawn.
Serve ==
    /\ phase = "reconciled"
    /\ \E watched \in Watches : phase' = IF watched THEN "up" ELSE "blind"
    /\ UNCHANGED <<files, mtime, rows, dirty, task, late, bounds>>

\* The process ends, whatever it is in the middle of.
Stop ==
    /\ phase # "down" /\ phase' = "down"
    /\ mishaps < MaxMishaps /\ Room /\ mishaps' = mishaps + 1
    /\ task' = [a \in Actors |-> Rest] /\ dirty' = {}
    /\ UNCHANGED <<files, mtime, rows, late, requests, edits, scans>>

\* What an actor that gives up leaves as it is.
Left(t) == CASE t.at \in {"walk", "compare"} -> Ids
             [] t.at \in {"stat", "index", "drop"} -> {t.id} \cup t.todo \cup t.gone
             [] t.at = "next" -> t.todo \cup t.gone
             [] OTHER -> {}

\* A write, of the file or of a row, or a query of a scan returns an error.  So
\* does the request; a scan is given up, and a start with it; a batch goes on.
Fail(a) ==
    /\ task[a].at \in {"write", "stat", "index", "unlink", "drop", "clear", "walk", "compare", "next"}
    /\ mishaps < MaxMishaps /\ Room /\ mishaps' = mishaps + 1
    /\ LET t == task[a] IN
       IF t.op = "watch" /\ t.at \in {"index", "drop"}
       THEN Turn(a) /\ late' = late \cup {i \in {t.id} : ~Says(rows[i], files[i])}
       ELSE /\ t.op # "watch" /\ Answer(a)
            /\ late' = late \cup {i \in Left(t) : ~Says(rows[i], files[i])}
    /\ phase' = IF a = Starter THEN "down" ELSE phase
    /\ UNCHANGED <<files, mtime, rows, dirty, requests, edits, scans>>

\* Somebody with an editor.  Nobody looks while the scan is at it, between the
\* scan and the watch, or where nothing can be watched.
Edit ==
    /\ edits < MaxEdits /\ Room /\ edits' = edits + 1
    /\ \E i \in Ids, file \in Edited :
         /\ files[i] # file /\ Put(i, file)
         /\ late' = IF phase \in {"up", "down"} THEN late \ {i} ELSE late \cup {i}
    /\ UNCHANGED <<rows, phase, task, requests, scans, mishaps>>

Request(c) == Ask(c) \/ AskReindex(c) \/ Probe(c) \/ Read(c) \/ Draw(c)
              \/ Write(c) \/ Stat(c) \/ Unlink(c) \/ ClearRows(c)
Step(a) == \/ IndexEntry(a) \/ DropRow(a) \/ Walk(a) \/ Compare(a) \/ Look(a) \/ LookAgain(a)
           \/ DropGone(a) \/ Done(a) \/ Fail(a)
Next == \/ \E c \in Clients : Request(c)
        \/ \E a \in Actors : Step(a)
        \/ Batch \/ Rescan \/ Start \/ Serve \/ Stop \/ Edit

Spec == Init /\ [][Next]_vars

-----------------------------------------------------------------------------
(* Properties.                                                             *)

TypeOK ==
    /\ files \in [Ids -> Bodies] /\ mtime \in [Ids -> Nat]
    /\ rows \in [Ids -> Rows \cup {None}]
    /\ dirty \subseteq Ids /\ late \subseteq Ids

\* api/times.rs:932, 650-652: only somebody with an editor leaves an entry that ends
\* before it starts; no request writes one, not when it moves only the start or
\* only the end of what it found, nor when it stops by a clock that was set back.
Upright(entry) == entry.end # None => entry.start <= entry.end
NeverInverted == \A i \in Ids : IsEntry(files[i]) => Upright(files[i]) \/ files[i] \in Edited

\* The files are of their kinds, and of no kind that inverts a span.
EntriesAreSound == TypeOK /\ NeverInverted

\* api/times.rs:516-518, index/sync.rs:3-5: once nobody is at it and the watcher has
\* taken every event, the index says of each file what the file says, whoever
\* entered it, in whatever order, and wherever the process stopped.  The
\* exceptions are the ids that are late.
AtRest == Serving /\ dirty = {} /\ \A a \in Actors : At(a, "rest")
RowsMatchEntries == AtRest => \A i \in Ids \ late : Says(rows[i], files[i])

\* A request acts on the entry that is there when it writes as if nobody else
\* had been at it: a stop ends a running timer, a patch changes what it names and
\* nothing else, unless the file has changed since it looked; and a create takes
\* the place of nothing (mod.rs:136-140) that was not put there while it looked.
RequestsActAtOnce ==
    [][\A c \in Clients :
         LET t == task[c]
             old == files[t.id]
             new == files'[t.id]
         IN (t.at = "write" /\ task'[c].at = "stat") =>
            CASE t.op = "create" -> old = None \/ mtime[t.id] # t.stamp.mtime
              [] t.op = "stop"   -> old = t.base => /\ IsRunning(old) /\ ~IsRunning(new)
                                                    /\ new = [old EXCEPT !.end = new.end]
              [] t.op = "patch"  -> old = t.base =>
                    \A f \in DOMAIN new : t.patch[f] = None => new[f] = old[f]]_vars
=============================================================================
