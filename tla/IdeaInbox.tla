----------------------------- MODULE IdeaInbox -----------------------------
(***************************************************************************)
(* The idea inbox at work: the handlers (api/ideas.rs), the rules they ask *)
(* of the files (ideas/service.rs), the files (ideas/store.rs), and the    *)
(* scan and the watcher that bring the index (module IdeaFold) in line.    *)
(*                                                                         *)
(* A decision is taken by looking at the folded tables, reading the files  *)
(* it names, writing an event file and putting it in the index: an await   *)
(* between each, nothing held across them, and a process that may end at   *)
(* any.  Deleting a capture goes on from there to its file and its row.    *)
(*                                                                         *)
(* Left out besides what IdeaFold leaves out: requests refused for what    *)
(* they say (no text, no name, no seeds), and the page a promotion names,  *)
(* which is read first and taken to be there.  Ids are instants to the     *)
(* nanosecond, and no two the same: looking for a free one is left out.    *)
(* A capture keeps the instant it was born with.  Corrected text changes   *)
(* no table here, so a stamp says whether there is a row; a file changed   *)
(* while the first scan runs is module PageIndex's subject.                *)
(***************************************************************************)
EXTENDS IdeaFold

CONSTANTS
    Clients,   \* requests that may be under way at the same time
    Born,      \* when each capture was created
    Watched,   \* whether there is a watcher
    MaxRequests, MaxFailures, MaxEdits, MaxCrashes   \* bounds

ASSUME BornAssumption == Born \in [Captures -> Moments]
ASSUME WatchedAssumption == Watched \in BOOLEAN
ASSUME InboxBoundsAssumption == {MaxRequests, MaxFailures, MaxEdits, MaxCrashes} \subseteq Nat

VARIABLES
    captureFiles,  \* captures/: the captures with a file
    ideaFiles,     \* threads/: the seeds each idea's file lists
    eventFiles,    \* events/
    minted,        \* captures and ideas there have been
    clock,         \* the latest instant a decision was taken at
    phase,         \* "down", "starting" or "up"
    dirty,         \* records to be read again by the scan or the watcher
    reading,       \* the record it has just read, and what it found
    task,          \* what each request is in the middle of
    late,          \* records a request entered after their file had changed again
    requests, failures, edits, crashes

files  == <<captureFiles, ideaFiles, eventFiles>>
bounds == <<requests, failures, edits, crashes>>
vars   == <<captures, threads, events, membership, rejections, standing, archived, pairs,
            captureFiles, ideaFiles, eventFiles, minted, clock, phase, dirty, reading, task, late,
            requests, failures, edits, crashes>>

Capture(c) == <<"capture", c>>
Idea(i)    == <<"idea", i>>
Decision(e) == <<"event", e>>
Records == {Capture(c) : c \in Captures} \cup {Idea(i) : i \in Ideas}
               \cup {Decision(e) : e \in EventIds}

\* Something has been read or nothing has: `None` is no finding.
ASSUME NoFindingAssumption ==
    \A record \in Records, found \in Moments \cup Seeds \cup Event \cup {None} :
        [record |-> record, found |-> found] # None

\* What a request asks: the decision it is to record, or one of four others.
Asks == Event \cup Shape({"create_capture", "patch_capture"}, {None}, Singles, {None})
              \cup Shape({"create_idea"}, Ideas, Seeds, {None})
              \cup Shape({"patch_idea"}, Ideas, {{}}, {None})
IsDecision(ask) == ask \in Event

Nothing == [kind |-> "none", idea |-> None, captures |-> {}, page |-> None]
Idle == [at |-> "idle", ask |-> Nothing, left |-> {}, id |-> None, seeds |-> None]

InboxInit ==
    /\ FoldInit
    /\ captureFiles \in SUBSET Captures
    /\ ideaFiles \in [Ideas -> {None} \cup ((SUBSET captureFiles) \ {{}})]
    /\ eventFiles = [e \in EventIds |-> None]
    /\ minted = {Capture(c) : c \in captureFiles} \cup
                {Idea(i) : i \in {j \in Ideas : ideaFiles[j] # None}}
    /\ clock = 0
    /\ phase = "down"
    /\ dirty = {}
    /\ reading = None
    /\ task = [r \in Clients |-> Idle]
    /\ late = {}
    /\ requests = 0 /\ failures = 0 /\ edits = 0 /\ crashes = 0

Written(record) ==
    \/ \E c \in captureFiles : record = Capture(c)
    \/ \E i \in Ideas : record = Idea(i) /\ ideaFiles[i] # None
    \/ \E e \in EventIds : record = Decision(e) /\ eventFiles[e] # None

FileOf(record) ==
    CASE record[1] = "capture" -> IF record[2] \in captureFiles THEN Born[record[2]] ELSE None
      [] record[1] = "idea"    -> ideaFiles[record[2]]
      [] record[1] = "event"   -> eventFiles[record[2]]

Notice(record) ==
    dirty' = IF phase = "up" /\ Watched THEN dirty \cup {record} ELSE dirty

Stop(r) == task' = [task EXCEPT ![r] = Idle]
Go(r, at) == task' = [task EXCEPT ![r].at = at]

(***************************************************************************)
(* What each handler requires of the folded tables before it decides.  A   *)
(* request that asks for what is already so, or may not be, stops here.    *)
(***************************************************************************)
Live(i) == {c \in membership[i] : captures[c] # None}

\* Counting captures whose files are gone.
DependsOn_Missing(i, c) ==
    /\ c \in membership[i]
    /\ ~standing[i].retired
    /\ Cardinality(membership[i]) <= 1

\* Index::ideas_holding and IdeaHold::depends_on_it.
DependsOn(i, c) ==
    /\ c \in membership[i]
    /\ ~standing[i].retired
    /\ Cardinality(Live(i)) <= 1

MayConnect(i, c) == c \notin membership[i]
MayDisconnect(i, c) == c \in membership[i] /\ Cardinality(membership[i]) > 1
MayReject(i, C) ==
    IF i = None THEN C \notin pairs ELSE C \cap rejections[i] = {}
MayReopen(i) == standing[i].retired
MayDelete(c) == \A i \in Ideas : ~DependsOn(i, c)

Allowed(ask) ==
    LET i == ask.idea  C == ask.captures IN
    /\ i # None => threads[i] # None
    /\ ask.kind \in Archiving \cup {"capture_deleted"} => \A c \in C : captures[c] # None
    /\ CASE ask.kind = "capture_connected"      -> \A c \in C : MayConnect(i, c)
         [] ask.kind = "capture_disconnected"   -> \A c \in C : MayDisconnect(i, c)
         [] ask.kind = "candidate_rejected"     -> MayReject(i, C)
         [] ask.kind = "candidate_reconsidered" -> ~MayReject(i, C)
         [] ask.kind = "idea_retired"           -> ~standing[i].retired
         [] ask.kind = "idea_reopened"          -> MayReopen(i)
         [] ask.kind = "idea_promoted"          -> ask.page \notin standing[i].promoted
         [] ask.kind = "capture_archived"       -> C \cap archived = {}
         [] ask.kind = "capture_restored"       -> C \subseteq archived
         [] ask.kind = "capture_deleted"        -> \A c \in C : MayDelete(c)
         [] OTHER                               -> TRUE

(***************************************************************************)
(* A request.  A decision's id is minted when it is decided; a new         *)
(* capture's and a new idea's are chosen when they are asked for, and are  *)
(* free: no two instants are the same.                                     *)
(***************************************************************************)
Named(ask) ==
    IF ask.kind = "create_capture" THEN {}
    ELSE {Capture(c) : c \in ask.captures}
             \cup (IF ask.idea = None \/ ask.kind = "create_idea" THEN {} ELSE {Idea(ask.idea)})

New(ask) ==
    IF ask.kind = "create_capture" THEN {Capture(c) : c \in ask.captures}
    ELSE IF ask.kind = "create_idea" THEN {Idea(ask.idea)} ELSE {}

Ask(r, ask) ==
    /\ phase = "up" /\ task[r] = Idle /\ requests < MaxRequests
    /\ \A q \in Clients : New(ask) \cap (minted \cup New(task[q].ask)) = {}
    /\ Named(ask) \subseteq minted
    /\ task' = [task EXCEPT ![r] =
           [Idle EXCEPT !.at = IF IsDecision(ask) THEN "check"
                               ELSE IF Named(ask) = {} THEN "put" ELSE "refer",
                        !.ask = ask,
                        !.left = Named(ask)]]
    /\ requests' = requests + 1
    /\ UNCHANGED <<tables, files, minted, clock, phase, dirty, reading, late, failures, edits, crashes>>

\* Two decisions of one instant share a file.
Check_SameInstant(r) ==
    /\ task[r].at = "check"
    /\ IF Allowed(task[r].ask)
       THEN \E now \in {e \in EventIds : e >= clock} :
              /\ \A e \in EventIds : e >= clock => now <= e
              /\ clock' = now
              /\ task' = [task EXCEPT ![r].at = "refer", ![r].id = now]
       ELSE Stop(r) /\ UNCHANGED clock
    /\ UNCHANGED <<tables, files, minted, phase, dirty, reading, late, bounds>>

\* A deletion that goes straight to the file.
Check_Unrecorded(r) ==
    /\ task[r].at = "check"
    /\ IF Allowed(task[r].ask)
       THEN \E now \in {e \in EventIds : e > clock} :
              /\ \A e \in EventIds : e > clock => now <= e
              /\ clock' = now
              /\ task' = [task EXCEPT ![r].at = IF task[r].ask.kind = "capture_deleted"
                                               THEN "unlink" ELSE "refer",
                                     ![r].id = now]
       ELSE Stop(r) /\ UNCHANGED clock
    /\ UNCHANGED <<tables, files, minted, phase, dirty, reading, late, bounds>>

\* `record`: the instant is taken before the files are looked at.
Check(r) ==
    /\ task[r].at = "check"
    /\ IF Allowed(task[r].ask)
       THEN \E now \in {e \in EventIds : e > clock} :
              /\ \A e \in EventIds : e > clock => now <= e
              /\ clock' = now
              /\ task' = [task EXCEPT ![r].at = "refer", ![r].id = now]
       ELSE Stop(r) /\ UNCHANGED clock
    /\ UNCHANGED <<tables, files, minted, phase, dirty, reading, late, bounds>>

\* The thread that was read is not kept.
Refer_Forgetting(r) ==
    /\ task[r].at = "refer"
    /\ \E record \in task[r].left :
          IF Written(record)
          THEN LET left == task[r].left \ {record}
               IN task' = [task EXCEPT ![r].left = left,
                                       ![r].at = IF left = {} THEN "put" ELSE "refer"]
          ELSE Stop(r)
    /\ UNCHANGED <<tables, files, minted, clock, phase, dirty, reading, late, bounds>>

\* One file the request names is read; a record that is not there ends it.
Refer(r) ==
    /\ task[r].at = "refer"
    /\ \E record \in task[r].left :
          IF Written(record)
          THEN LET left == task[r].left \ {record}
                   next == [task[r] EXCEPT !.left = left,
                                           !.at = IF left = {} THEN "put" ELSE "refer",
                                           !.seeds = IF record \in {Idea(i) : i \in Ideas}
                                                     THEN ideaFiles[record[2]] ELSE @]
               IN task' = [task EXCEPT ![r] = next]
          ELSE Stop(r)
    /\ UNCHANGED <<tables, files, minted, clock, phase, dirty, reading, late, bounds>>

PutCapture(r) ==
    \E c \in task[r].ask.captures :
        /\ captureFiles' = captureFiles \cup {c}
        /\ Notice(Capture(c))
        /\ UNCHANGED <<ideaFiles, eventFiles>>

\* A new thread has the seeds asked for, a renamed one those it was read with.
PutIdea(r) ==
    LET i == task[r].ask.idea IN
    /\ ideaFiles' = [ideaFiles EXCEPT ![i] =
           IF task[r].ask.kind = "create_idea" THEN task[r].ask.captures ELSE task[r].seeds]
    /\ Notice(Idea(i))
    /\ UNCHANGED <<captureFiles, eventFiles>>

PutEvent(r) ==
    /\ eventFiles' = [eventFiles EXCEPT ![task[r].id] = task[r].ask]
    /\ Notice(Decision(task[r].id))
    /\ UNCHANGED <<captureFiles, ideaFiles>>

Put(r) ==
    /\ task[r].at = "put"
    /\ CASE task[r].ask.kind \in {"create_capture", "patch_capture"} -> PutCapture(r)
         [] task[r].ask.kind \in {"create_idea", "patch_idea"}       -> PutIdea(r)
         [] OTHER                                                    -> PutEvent(r)
    /\ task' = [task EXCEPT ![r].at = "index",
                            ![r].seeds = IF task[r].ask.kind = "create_idea"
                                         THEN task[r].ask.captures ELSE @]
    /\ minted' = minted \cup New(task[r].ask)
    /\ UNCHANGED <<tables, clock, phase, reading, late, bounds>>

Late(record, entered) ==
    late' = IF FileOf(record) = entered THEN late ELSE late \cup {record}

EnterCapture(r) ==
    \E c \in task[r].ask.captures : UpsertCapture(c, Born[c]) /\ Late(Capture(c), Born[c])

EnterIdea(r) ==
    LET i == task[r].ask.idea IN
    UpsertIdea(i, task[r].seeds) /\ Late(Idea(i), task[r].seeds)

EnterEvent(r) ==
    /\ UpsertEvent(task[r].id, task[r].ask)
    /\ Late(Decision(task[r].id), task[r].ask)

Enter(r) ==
    /\ task[r].at = "index"
    /\ CASE task[r].ask.kind \in {"create_capture", "patch_capture"} -> EnterCapture(r)
         [] task[r].ask.kind \in {"create_idea", "patch_idea"}       -> EnterIdea(r)
         [] OTHER                                                    -> EnterEvent(r)
    /\ IF task[r].ask.kind = "capture_deleted" THEN Go(r, "unlink") ELSE Stop(r)
    /\ UNCHANGED <<files, minted, clock, phase, dirty, reading, bounds>>

\* service::delete_capture, which finds no file if another request was first.
Unlink(r) ==
    /\ task[r].at = "unlink"
    /\ \E c \in task[r].ask.captures :
          IF c \in captureFiles
          THEN captureFiles' = captureFiles \ {c} /\ Notice(Capture(c)) /\ Go(r, "drop")
          ELSE Stop(r) /\ UNCHANGED <<captureFiles, dirty>>
    /\ UNCHANGED <<tables, ideaFiles, eventFiles, minted, clock, phase, reading, late, bounds>>

Drop(r) ==
    /\ task[r].at = "drop"
    /\ \E c \in task[r].ask.captures : RemoveCapture(c) /\ Late(Capture(c), None)
    /\ Stop(r)
    /\ UNCHANGED <<files, minted, clock, phase, dirty, reading, bounds>>

\* The step at hand fails, and the request answers with an error.
Fail(r) ==
    /\ task[r].at \in {"put", "index", "unlink", "drop"} /\ failures < MaxFailures
    /\ Stop(r)
    /\ failures' = failures + 1
    /\ UNCHANGED <<tables, files, minted, clock, phase, dirty, reading, late, requests, edits, crashes>>

(***************************************************************************)
(* The scan before serving and the watcher after: both read a record and   *)
(* enter what is there, or drop the row.                                   *)
(***************************************************************************)
Read ==
    /\ reading = None
    /\ \E record \in dirty :
          /\ reading' = [record |-> record, found |-> FileOf(record)]
          /\ dirty' = dirty \ {record}
          /\ late' = late \ {record}
    /\ UNCHANGED <<tables, files, minted, clock, phase, task, bounds>>

\* A capture whose file has gone keeps its row.
ReindexCapture_Keeping(c, found) ==
    IF found = None THEN UNCHANGED tables ELSE UpsertCapture(c, found)

ReindexCapture(c, found) == IF found = None THEN RemoveCapture(c) ELSE UpsertCapture(c, found)
ReindexIdea(i, found)    == IF found = None THEN RemoveIdea(i) ELSE UpsertIdea(i, found)
ReindexEvent(e, found)   == IF found = None THEN RemoveEvent(e) ELSE UpsertEvent(e, found)

Reindex ==
    /\ reading # None
    /\ LET key == reading.record[2] IN
       \/ reading.record[1] = "capture" /\ ReindexCapture(key, reading.found)
       \/ reading.record[1] = "idea" /\ ReindexIdea(key, reading.found)
       \/ reading.record[1] = "event" /\ ReindexEvent(key, reading.found)
    /\ reading' = None
    /\ UNCHANGED <<files, minted, clock, phase, dirty, task, late, bounds>>

RowOf(record) ==
    CASE record[1] = "capture" -> captures[record[2]]
      [] record[1] = "idea"    -> threads[record[2]]
      [] record[1] = "event"   -> events[record[2]]

\* Records whose stamp is not the row's: with or without a file, but not both.
Stale == {record \in Records : RowOf(record) # FileOf(record)}

Start ==
    /\ phase = "down"
    /\ phase' = "starting"
    /\ dirty' = Stale
    /\ UNCHANGED <<tables, files, minted, clock, reading, task, late, bounds>>

Serve ==
    /\ phase = "starting" /\ dirty = {} /\ reading = None
    /\ phase' = "up"
    /\ UNCHANGED <<tables, files, minted, clock, dirty, reading, task, late, bounds>>

Crash ==
    /\ phase # "down" /\ crashes < MaxCrashes
    /\ phase' = "down"
    /\ dirty' = {}
    /\ reading' = None
    /\ task' = [r \in Clients |-> Idle]
    /\ crashes' = crashes + 1
    /\ UNCHANGED <<tables, files, minted, clock, late, requests, failures, edits>>

\* Somebody deletes the database.
LoseIndex ==
    /\ phase = "down"
    /\ Clear
    /\ UNCHANGED <<files, minted, clock, phase, dirty, reading, task, late, bounds>>

(***************************************************************************)
(* Somebody with the disk: git, an editor, a file manager.                 *)
(***************************************************************************)
EditCapture(c) ==
    /\ captureFiles' = IF c \in captureFiles THEN captureFiles \ {c} ELSE captureFiles \cup {c}
    /\ minted' = minted \cup {Capture(c)}
    /\ Notice(Capture(c))
    /\ UNCHANGED <<ideaFiles, eventFiles>>

EditIdea(i, seeds) ==
    /\ ideaFiles[i] # seeds
    /\ ideaFiles' = [ideaFiles EXCEPT ![i] = seeds]
    /\ minted' = minted \cup {Idea(i)}
    /\ Notice(Idea(i))
    /\ UNCHANGED <<captureFiles, eventFiles>>

EraseEvent(e) ==
    /\ eventFiles[e] # None
    /\ eventFiles' = [eventFiles EXCEPT ![e] = None]
    /\ Notice(Decision(e))
    /\ UNCHANGED <<captureFiles, ideaFiles, minted>>

Edit ==
    /\ phase # "starting" /\ edits < MaxEdits
    /\ \/ \E c \in Captures : EditCapture(c)
       \/ \E i \in Ideas, seeds \in Seeds \cup {None} : EditIdea(i, seeds)
       \/ \E e \in EventIds : EraseEvent(e)
    /\ edits' = edits + 1
    /\ UNCHANGED <<tables, clock, phase, reading, task, late, requests, failures, crashes>>

InboxNext ==
    \/ \E r \in Clients : \/ \E ask \in Asks : Ask(r, ask)
                          \/ Check(r) \/ Refer(r) \/ Put(r) \/ Enter(r)
                          \/ Unlink(r) \/ Drop(r) \/ Fail(r)
    \/ Read \/ Reindex
    \/ Start \/ Serve \/ Crash \/ LoseIndex
    \/ Edit

InboxSpec == InboxInit /\ [][InboxNext]_vars

-----------------------------------------------------------------------------
(* What a request or a reader has in hand fits the step it is at.           *)
Steps == {"idle", "check", "refer", "put", "index", "unlink", "drop"}
Hands == [at : Steps, ask : Asks \cup {Nothing}, left : SUBSET Records,
          id : EventIds \cup {None}, seeds : Seeds \cup {None}]
Findings == {None}
    \cup [record : {Capture(c) : c \in Captures},   found : Moments \cup {None}]
    \cup [record : {Idea(i) : i \in Ideas},         found : Seeds \cup {None}]
    \cup [record : {Decision(e) : e \in EventIds},  found : Event \cup {None}]

HandFits(hand) ==
    /\ hand.at # "idle" => hand.ask \in Asks
    /\ hand.at = "check" => IsDecision(hand.ask)
    /\ hand.at \in {"unlink", "drop"} => hand.ask.kind = "capture_deleted"
    /\ hand.id # None <=> IsDecision(hand.ask) /\ hand.at # "check"
    /\ hand.ask.kind = "patch_idea" =>
          /\ hand.at = "refer" => hand.left = {Idea(hand.ask.idea)}
          /\ hand.at \in {"put", "index"} => hand.seeds # None
    /\ hand.ask.kind = "create_idea" /\ hand.at = "index" => hand.seeds # None

InboxTypeOK ==
    /\ TablesTypeOK
    /\ captureFiles \in SUBSET Captures
    /\ ideaFiles \in [Ideas -> Seeds \cup {None}]
    /\ eventFiles \in [EventIds -> Event \cup {None}]
    /\ minted \in SUBSET Records
    /\ clock \in Nat
    /\ dirty \in SUBSET Records
    /\ phase \in {"down", "starting", "up"}
    /\ reading \in Findings
    /\ task \in [Clients -> Hands]
    /\ \A r \in Clients : HandFits(task[r])

(* What the inbox does to the tables is what IdeaFold says is done to them: *)
(* one event's row never gives way to another's, so it is enough that an    *)
(* operation refolds what the event it enters or removes names              *)
(* (refold_for_event).                                                      *)
ImplementsFold == FoldSpec

(* Once every request is answered and the watcher has looked at what it     *)
(* heard of, the three mirrored tables are the files, and so, with          *)
(* FoldIsCurrent, the folded ones are what the files add up to: whoever     *)
(* wrote them, in whatever order, and wherever the process stopped.  But    *)
(* for `late`: a handler enters its row an await after its file, and if     *)
(* the file was changed and looked at in between, nobody looks again.       *)
InboxMatchesFiles ==
    phase = "up" /\ dirty = {} /\ reading = None /\ (\A r \in Clients : task[r] = Idle)
        => \A record \in Records \ late : RowOf(record) = FileOf(record)

(* "The decision is recorded before the file goes, so an interrupted        *)
(* delete leaves an event saying what was meant rather than a gap saying    *)
(* nothing" (delete_capture): a capture there once was and whose file is    *)
(* gone has its deletion in the log, wherever the process stopped.          *)
DeletionsOnRecord ==
    \A c \in Captures :
        Capture(c) \in minted /\ c \notin captureFiles
            => \E e \in EventIds : /\ eventFiles[e] # None
                                   /\ eventFiles[e].kind = "capture_deleted"
                                   /\ eventFiles[e].captures = {c}

(* "Duplicate idempotent API actions do not write duplicate events"         *)
(* (knowledge-base/idea-inbox.md): with one request at a time, each         *)
(* decision about a thing is the opposite of the one before it, and the     *)
(* first the opposite of how it started, across restarts at any step.       *)
Opposes(kind, i, C) ==
    CASE kind = "capture_connected"      -> ~(C \subseteq ideaFiles[i])
      [] kind = "capture_disconnected"   -> C \subseteq ideaFiles[i]
      [] OTHER -> kind \in {"candidate_rejected", "idea_retired", "capture_archived"}
DecisionsAlternate ==
    \A kinds \in {Connecting, Judging, Retiring, Archiving} : \A e \in EventIds :
        eventFiles[e] # None /\ eventFiles[e].kind \in kinds =>
            LET event  == eventFiles[e]
                before == {f \in About(eventFiles, kinds, event.idea, event.captures) : f < e}
            IN IF before = {} THEN Opposes(event.kind, event.idea, event.captures)
               ELSE \A f \in Newest(before) : eventFiles[f].kind # event.kind

\* An idea's state as its files have it, whatever the index says.
HasEvidence(i) == Members(ideaFiles, eventFiles, i) \cap captureFiles # {}
IsLive(i) == ideaFiles[i] # None /\ ~Retired(eventFiles, i)

(* "Removing its last connection is refused" (knowledge-base/               *)
(* idea-inbox.md): with one request at a time, no idea is left with         *)
(* nothing connected.                                                       *)
NeverEmpty ==
    \A i \in Ideas : ideaFiles[i] # None => Members(ideaFiles, eventFiles, i) # {}

(* What deleting a capture is refused for: with one request at a time, an   *)
(* idea that was never reopened, and from which nothing was disconnected,   *)
(* is not left without evidence.                                            *)
EvidenceKept ==
    \A i \in Ideas : IsLive(i) /\ ~HasEvidence(i) =>
        \E e \in EventIds : /\ eventFiles[e] # None
                            /\ eventFiles[e].idea = i
                            /\ eventFiles[e].kind \in {"idea_reopened", "capture_disconnected"}
=============================================================================
