-------------------------- MODULE WordLog_proofs --------------------------
(***************************************************************************)
(* That the gate does its work, for any number of tasks, months and        *)
(* observations, any number of crashes and foreign writes.                 *)
(*                                                                         *)
(* None of the three safety properties of WordLog is inductive: each needs *)
(* what the holder of the gate is in the middle of.  WordLogInv adds that. *)
(***************************************************************************)
EXTENDS WordLog, TLAPS

-----------------------------------------------------------------------------
(* The inductive invariant.                                                *)

\* A recorder and a folder are each only ever at their own steps.
Shape ==
    /\ \A r \in Recorders : pc[r] \in {"idle", "waiting", "held", "checked", "written", "logged"}
    /\ \A f \in Folders : pc[f] \in {"idle", "waiting", "held", "stamped", "read"}

\* The gate excludes: whoever is past it is its holder, and nobody else.
Gate == \A t \in Tasks : pc[t] \in InGate <=> holder = t

\* Each recorder works on an observation of its own.
Jobs ==
    /\ \A r \in Recorders : pc[r] = "idle" <=> job[r] = NoObs
    /\ \A r \in Recorders : job[r] # NoObs => job[r] \in used
    /\ \A r, s \in Recorders : (r # s /\ job[r] # NoObs) => job[r] # job[s]

\* Nothing anywhere holds an observation before it has been made.
Nowhere(o) == rows[o] = 0 /\ o \notin lines[MonthOf[o]] /\ o \notin got
Fresh == \A o \in Obs : o \notin used => Nowhere(o)

\* Neither a line nor a row before its time.
Unwritten == \A r \in Recorders : pc[r] \in {"waiting", "held", "checked"} => Nowhere(job[r])
Unindexed == \A r \in Recorders : pc[r] \in {"written", "logged"} => rows[job[r]] = 0

Home == \A m \in Months : \A o \in lines[m] : MonthOf[o] = m

\* Stamps only grow, so a remembered one is never ahead of its file.
Stamps == \A m \in Months : /\ seen # Unknown => seen[m] <= stamp[m]
                            /\ taken[m] <= stamp[m]

\* A process that is down has no tasks, one that is starting has one.
Quiet ==
    /\ phase = "down" => /\ holder = NoTask /\ seen = Unknown
                         /\ \A t \in Tasks : pc[t] = "idle"
    /\ phase = "starting" => \E f \in Folders : \A t \in Tasks : t # f => pc[t] = "idle"

\* What a fold has read of month m is the file, unless the file has moved on.
ReadOf(m) == taken[m] = stamp[m] =>
                 \A o \in Obs : MonthOf[o] = m => (o \in got <=> o \in lines[m])
Reading ==
    \A f \in Folders :
        /\ pc[f] = "stamped" => /\ \A o \in got : MonthOf[o] \notin unread
                                /\ \A m \in Months \ unread : ReadOf(m)
        /\ pc[f] = "read" => /\ seen = taken
                             /\ \A m \in Months : ReadOf(m)

\* The table agrees with month m, but for the line being recorded.
Pending(o) == \E r \in Recorders : pc[r] \in {"written", "logged"} /\ job[r] = o
Settled(m) == \A o \in Obs : MonthOf[o] = m => Drifted(o, Reasons) \/ Pending(o) \/ Agrees(o)

\* A month this process trusts is settled, except between a read and its
\* rebuild; so is the month a recorder found to be known.
Folded  == \A m \in Months : Trusts(m) => Settled(m) \/ \E f \in Folders : pc[f] = "read"
Knowing == \A r \in Recorders : (pc[r] \in {"checked", "written"} /\ known) =>
               seen # Unknown /\ Settled(MonthOf[job[r]])
Landed  == \A r \in Recorders :
               \/ pc[r] = "written" /\ known
               \/ pc[r] = "logged" /\ Trusts(MonthOf[job[r]])
               => job[r] \in lines[MonthOf[job[r]]] \/ Drifted(job[r], Reasons)

WordLogInv == /\ TypeOK /\ Shape /\ Gate /\ Jobs /\ Fresh /\ Unwritten /\ Unindexed
              /\ Home /\ Stamps /\ Quiet /\ Reading /\ Folded /\ Knowing /\ Landed
              /\ NeverCountedTwice

-----------------------------------------------------------------------------
(* Lemmas about one state, and about what settles a month.                 *)

USE TasksAssumption, MonthAssumption, UnknownAssumption, BoundsAssumption

\* A recorder that is doing something has an observation to do it with, and it
\* alone is past the gate when it is past the gate.
LEMMA AtWork ==
    ASSUME WordLogInv, NEW r \in Recorders, pc[r] # "idle"
    PROVE  /\ job[r] \in Obs /\ job[r] \in used
           /\ MonthOf[job[r]] \in Months
           /\ pc[r] # "waiting" =>
                 /\ holder = r
                 /\ \A t \in Tasks : t # r => pc[t] \in {"idle", "waiting"}
  BY DEF WordLogInv, TypeOK, Jobs, Shape, Gate, InGate, PcStates, Tasks

\* The same of a folder: while it is past the gate no line is pending.
LEMMA AtFold ==
    ASSUME WordLogInv, NEW f \in Folders, pc[f] \notin {"idle", "waiting"}
    PROVE  /\ holder = f
           /\ \A t \in Tasks : t # f => pc[t] \in {"idle", "waiting"}
           /\ \A o \in Obs : ~Pending(o)
  BY DEF WordLogInv, TypeOK, Shape, Gate, InGate, PcStates, Tasks, Pending

\* With the gate free no line is pending and no read is waiting to be put in
\* the table.
LEMMA AtRest ==
    ASSUME WordLogInv, holder = NoTask
    PROVE  /\ \A t \in Tasks : pc[t] \in {"idle", "waiting"}
           /\ \A o \in Obs : ~Pending(o)
           /\ \A m \in Months : Trusts(m) => Settled(m)
  BY DEF WordLogInv, TypeOK, Shape, Gate, InGate, PcStates, Tasks, Pending, Folded

\* A month stays as settled as it was while nobody touches lines and rows.
LEMMA SameSettled ==
    ASSUME UNCHANGED <<lines, rows, drift>>,
           \A o \in Obs : Pending(o)' <=> Pending(o)
    PROVE  \A m \in Months : Settled(m)' <=> Settled(m)
  BY DEF Settled, Agrees, Drifted

-----------------------------------------------------------------------------
(* Each action keeps the invariant.                                        *)

\* Letting the gate go leaves everything it touches with its type.
LEMMA ReleaseType ==
    ASSUME TypeOK, NEW t \in Tasks, Release(t)
    PROVE  /\ holder' \in Tasks \cup {NoTask} /\ pc' \in [Tasks -> PcStates]
           /\ job' \in [Recorders -> Obs \cup {NoObs}] /\ force' \in [Folders -> BOOLEAN]
           /\ known' \in BOOLEAN /\ taken' \in [Months -> Nat]
           /\ unread' \in SUBSET Months /\ got' \in SUBSET Obs
<1> USE DEF Release, Locals0
<1>1. pc' \in [Tasks -> PcStates]
  BY DEF TypeOK, PcStates
<1>2. holder' \in Tasks \cup {NoTask} /\ job' \in [Recorders -> Obs \cup {NoObs}]
  BY DEF TypeOK
<1>3. force' \in [Folders -> BOOLEAN]
  BY DEF TypeOK
<1>4. /\ known' \in BOOLEAN /\ taken' \in [Months -> Nat]
      /\ unread' \in SUBSET Months /\ got' \in SUBSET Obs
  OBVIOUS
<1> QED BY <1>1, <1>2, <1>3, <1>4

\* A line cut short leaves its file with the type it had.
LEMMA AppendPartType ==
    ASSUME TypeOK, NEW o \in Obs, AppendPart(o)
    PROVE  /\ lines' \in [Months -> SUBSET Obs]
           /\ torn' \in [Months -> BOOLEAN] /\ stamp' \in [Months -> Nat]
           /\ \A m \in Months : lines'[m] # {} \/ torn'[m] => stamp'[m] > 0
<1> USE DEF AppendPart, TypeOK
<1>1. MonthOf[o] \in Months
  OBVIOUS
<1>2. lines' \in [Months -> SUBSET Obs]
  BY <1>1
<1>3. torn' \in [Months -> BOOLEAN]
  BY <1>1
<1>4. stamp' \in [Months -> Nat]
  BY <1>1
<1>5. \A m \in Months : lines'[m] # {} \/ torn'[m] => stamp'[m] > 0
  BY <1>1
<1> QED BY <1>2, <1>3, <1>4, <1>5

LEMMA AcquireInv ==
    ASSUME WordLogInv, NEW t \in Tasks, Acquire(t)
    PROVE  WordLogInv'
<1> USE DEF WordLogInv, TypeOK, disk, local, history, Tasks, Acquire
<1>b. \A x \in Obs : Pending(x)' <=> Pending(x)
  BY DEF Pending, Shape
<1>c. \A x \in Months : Settled(x)' <=> Settled(x)
  BY <1>b, SameSettled
<1>1. TypeOK'
  BY DEF PcStates, Reasons
<1>2. Shape' /\ Gate' /\ Quiet'
  BY DEF Shape, Gate, Quiet, InGate, PcStates
<1>3. Jobs'
  BY DEF Jobs, Shape, Gate, InGate, PcStates
<1>4. Fresh' /\ Unwritten' /\ Unindexed' /\ Home' /\ NeverCountedTwice'
  BY DEF Fresh, Unwritten, Unindexed, Nowhere, Home, NeverCountedTwice, Jobs, Shape, Gate, InGate, PcStates
<1>5. Stamps' /\ Reading'
  BY DEF Stamps, Reading, ReadOf, Gate, Shape, InGate, PcStates, Home
<1>6. Folded'
  BY <1>c DEF Folded, Trusts, Knowing, Shape, Stamps
<1>7. Knowing' /\ Landed'
  <2>1. \A x \in Recorders : pc'[x] \in {"checked", "written", "logged"} =>
            pc[x] = pc'[x] /\ job'[x] = job[x] /\ job[x] \in Obs
    BY DEF Jobs, Shape
  <2>2. Knowing'
    BY <2>1, <1>c DEF Knowing
  <2>3. Landed'
    BY <2>1 DEF Landed, Trusts, Drifted
  <2> QED BY <2>2, <2>3
<1> QED BY <1>1, <1>2, <1>3, <1>4, <1>5, <1>6, <1>7

LEMMA RecordInv ==
    ASSUME WordLogInv, NEW r \in Recorders, NEW o \in Obs, Record(r, o)
    PROVE  WordLogInv'
<1> USE DEF WordLogInv, TypeOK, disk, local, history, Tasks, Record
<1>b. \A x \in Obs : Pending(x)' <=> Pending(x)
  BY DEF Pending, Shape
<1>c. \A x \in Months : Settled(x)' <=> Settled(x)
  BY <1>b, SameSettled
<1>1. TypeOK'
  BY DEF PcStates, Reasons
<1>2. Shape' /\ Gate' /\ Quiet'
  BY DEF Shape, Gate, Quiet, InGate, PcStates
<1>3. Jobs'
  BY DEF Jobs, Shape, Gate, InGate, PcStates
<1>4. Fresh' /\ Unwritten' /\ Unindexed' /\ Home' /\ NeverCountedTwice'
  BY DEF Fresh, Unwritten, Unindexed, Nowhere, Home, NeverCountedTwice, Jobs, Shape, Gate, InGate, PcStates
<1>5. Stamps' /\ Reading'
  BY DEF Stamps, Reading, ReadOf, Gate, Shape, InGate, PcStates, Home
<1>6. Folded'
  BY <1>c DEF Folded, Trusts, Knowing, Shape, Stamps
<1>7. Knowing' /\ Landed'
  <2>1. \A x \in Recorders : pc'[x] \in {"checked", "written", "logged"} =>
            pc[x] = pc'[x] /\ job'[x] = job[x] /\ job[x] \in Obs
    BY DEF Jobs, Shape
  <2>2. Knowing'
    BY <2>1, <1>c DEF Knowing
  <2>3. Landed'
    BY <2>1 DEF Landed, Trusts, Drifted
  <2> QED BY <2>2, <2>3
<1> QED BY <1>1, <1>2, <1>3, <1>4, <1>5, <1>6, <1>7

LEMMA CheckInv ==
    ASSUME WordLogInv, NEW r \in Recorders, Check(r)
    PROVE  WordLogInv'
<1> USE DEF WordLogInv, TypeOK, disk, local, history, Tasks, Check, At
<1>a. job[r] \in Obs /\ job[r] \in used /\ MonthOf[job[r]] \in Months /\ holder = r
      /\ \A t \in Tasks : t # r => pc[t] \in {"idle", "waiting"}
  BY AtWork
<1>b. \A x \in Obs : Pending(x)' <=> Pending(x)
  BY <1>a DEF Pending, Shape
<1>c. \A x \in Months : Settled(x)' <=> Settled(x)
  BY <1>b, SameSettled
<1>1. TypeOK'
  BY <1>a DEF PcStates, Reasons
<1>2. Shape' /\ Gate' /\ Quiet'
  BY <1>a DEF Shape, Gate, Quiet, InGate, PcStates
<1>3. Jobs'
  BY <1>a DEF Jobs, Shape, Gate, InGate, PcStates
<1>4. Fresh' /\ Unwritten' /\ Unindexed' /\ Home' /\ NeverCountedTwice'
  BY <1>a DEF Fresh, Unwritten, Unindexed, Nowhere, Home, NeverCountedTwice, Jobs, Shape, Gate, InGate, PcStates
<1>5. Stamps' /\ Reading'
  BY <1>a DEF Stamps, Reading, ReadOf, Gate, Shape, InGate, PcStates, Home
<1>6. Folded'
  BY <1>a, <1>c DEF Folded, Trusts, Knowing, Shape, Stamps
<1>7. Knowing' /\ Landed'
  BY <1>a, <1>c DEF Knowing, Landed, Folded, Trusts, Drifted, Shape, Stamps
<1> QED BY <1>1, <1>2, <1>3, <1>4, <1>5, <1>6, <1>7

LEMMA WriteInv ==
    ASSUME WordLogInv, NEW r \in Recorders, Write(r)
    PROVE  WordLogInv'
<1> USE DEF WordLogInv, TypeOK, disk, local, history, Tasks, Write, AppendLine, At
<1>a. job[r] \in Obs /\ job[r] \in used /\ MonthOf[job[r]] \in Months /\ holder = r
      /\ \A t \in Tasks : t # r => pc[t] \in {"idle", "waiting"}
  BY AtWork
<1>1. TypeOK'
  BY <1>a DEF PcStates, Reasons
<1>2. Shape' /\ Gate' /\ Quiet'
  BY <1>a DEF Shape, Gate, Quiet, InGate, PcStates
<1>3. Jobs'
  BY <1>a DEF Jobs, Shape, Gate, InGate, PcStates
<1>4. Fresh' /\ Unwritten' /\ Unindexed' /\ Home' /\ NeverCountedTwice'
  BY <1>a DEF Fresh, Unwritten, Unindexed, Nowhere, Home, NeverCountedTwice, Jobs, Shape, Gate, InGate, PcStates
<1>5. Stamps' /\ Reading'
  BY <1>a DEF Stamps, Reading, ReadOf, Gate, Shape, InGate, PcStates, Home
<1>6. Folded'
  <2> SUFFICES ASSUME NEW m \in Months, Trusts(m)', NEW x \in Obs, MonthOf[x] = m
               PROVE  Drifted(x, Reasons)' \/ Agrees(x)'
    BY DEF Folded, Settled
  <2>1. Trusts(m) /\ m # MonthOf[job[r]]
    BY <1>a DEF Trusts, Stamps
  <2>2. ~Pending(x) /\ Settled(m)
    BY <1>a, <2>1 DEF Folded, Pending
  <2> QED BY <2>1, <2>2, <1>a DEF Settled, Agrees, Drifted
<1>7. Knowing' /\ Landed'
  BY <1>a DEF Knowing, Landed, Folded, Trusts, Settled, Pending, Agrees, Drifted, Reasons, Stamps, Quiet, Home, Shape, Jobs
<1> QED BY <1>1, <1>2, <1>3, <1>4, <1>5, <1>6, <1>7

LEMMA WriteFailsInv ==
    ASSUME WordLogInv, NEW r \in Recorders, WriteFails(r)
    PROVE  WordLogInv'
<1> USE DEF WordLogInv, TypeOK, disk, local, history, Tasks, WriteFails, AppendPart, Release, Locals0, At
<1>a. job[r] \in Obs /\ job[r] \in used /\ MonthOf[job[r]] \in Months /\ holder = r
      /\ \A t \in Tasks : t # r => pc[t] \in {"idle", "waiting"}
  BY AtWork
<1>1. TypeOK'
  <2> HIDE DEF AppendPart, Release, Locals0
  <2>1. /\ lines' \in [Months -> SUBSET Obs]
        /\ torn' \in [Months -> BOOLEAN] /\ stamp' \in [Months -> Nat]
        /\ \A m \in Months : lines'[m] # {} \/ torn'[m] => stamp'[m] > 0
    BY <1>a, AppendPartType
  <2> QED BY <2>1, ReleaseType
<1>2. Shape' /\ Gate' /\ Quiet'
  BY <1>a DEF Shape, Gate, Quiet, InGate, PcStates
<1>3. Jobs'
  BY <1>a DEF Jobs, Shape, Gate, InGate, PcStates
<1>4. Fresh' /\ Unwritten' /\ Unindexed' /\ Home' /\ NeverCountedTwice'
  BY <1>a DEF Fresh, Unwritten, Unindexed, Nowhere, Home, NeverCountedTwice, Jobs, Shape, Gate, InGate, PcStates
<1>5. Stamps' /\ Reading'
  BY <1>a DEF Stamps, Reading, ReadOf, Gate, Shape, InGate, PcStates, Home
<1>6. Folded'
  <2> SUFFICES ASSUME NEW m \in Months, Trusts(m)', NEW x \in Obs, MonthOf[x] = m
               PROVE  Drifted(x, Reasons)' \/ Agrees(x)'
    BY DEF Folded, Settled
  <2>1. Trusts(m) /\ lines'[m] = lines[m]
    BY <1>a DEF Trusts, Stamps
  <2>2. ~Pending(x) /\ Settled(m)
    BY <1>a, <2>1 DEF Folded, Pending
  <2> QED BY <2>1, <2>2 DEF Settled, Agrees, Drifted
<1>7. Knowing' /\ Landed'
  BY <1>a DEF Knowing, Landed, Folded, Trusts, Settled, Pending, Agrees, Drifted, Reasons, Stamps, Quiet, Home, Shape, Jobs
<1> QED BY <1>1, <1>2, <1>3, <1>4, <1>5, <1>6, <1>7

LEMMA RestampInv ==
    ASSUME WordLogInv, NEW r \in Recorders, Restamp(r)
    PROVE  WordLogInv'
<1> USE DEF WordLogInv, TypeOK, disk, local, history, Tasks, Restamp, At
<1>a. job[r] \in Obs /\ job[r] \in used /\ MonthOf[job[r]] \in Months /\ holder = r
      /\ \A t \in Tasks : t # r => pc[t] \in {"idle", "waiting"}
  BY AtWork
<1>b. \A x \in Obs : Pending(x)' <=> Pending(x)
  BY <1>a DEF Pending, Shape
<1>c. \A x \in Months : Settled(x)' <=> Settled(x)
  BY <1>b, SameSettled
<1>1. TypeOK'
  <2>1. known => seen \in [Months -> Nat]
    BY DEF Knowing
  <2>2. seen' \in [Months -> Nat] \cup {Unknown}
    BY <1>a, <2>1
  <2>3. pc' \in [Tasks -> PcStates] /\ acked' \in SUBSET Obs
    BY <1>a DEF PcStates
  <2> QED BY <2>2, <2>3
<1>2. Shape' /\ Gate' /\ Quiet'
  BY <1>a DEF Shape, Gate, Quiet, InGate, PcStates
<1>3. Jobs'
  BY <1>a DEF Jobs, Shape, Gate, InGate, PcStates
<1>4. Fresh' /\ Unwritten' /\ Unindexed' /\ Home' /\ NeverCountedTwice'
  BY <1>a DEF Fresh, Unwritten, Unindexed, Nowhere, Home, NeverCountedTwice, Jobs, Shape, Gate, InGate, PcStates
<1>5. Stamps' /\ Reading'
  <2>1. Stamps'
    BY <1>a DEF Stamps, Knowing
  <2>2. Reading'
    BY <1>a DEF Reading, ReadOf, Shape, InGate
  <2> QED BY <2>1, <2>2
<1>6. Folded'
  BY <1>a, <1>c DEF Folded, Trusts, Knowing, Shape, Stamps
<1>7. Knowing' /\ Landed'
  BY <1>a, <1>c DEF Knowing, Landed, Folded, Trusts, Drifted, Shape, Stamps
<1> QED BY <1>1, <1>2, <1>3, <1>4, <1>5, <1>6, <1>7

LEMMA InsertInv ==
    ASSUME WordLogInv, NEW r \in Recorders, Insert(r)
    PROVE  WordLogInv'
<1> USE DEF WordLogInv, TypeOK, disk, local, history, Tasks, Insert, Release, Locals0, At
<1>a. job[r] \in Obs /\ job[r] \in used /\ MonthOf[job[r]] \in Months /\ holder = r
      /\ \A t \in Tasks : t # r => pc[t] \in {"idle", "waiting"}
  BY AtWork
<1>1. TypeOK'
  <2>1. rows' \in [Obs -> Nat]
    BY <1>a
  <2>9. r \in Tasks
    OBVIOUS
  <2> QED BY <2>1, <2>9, ReleaseType
<1>2. Shape' /\ Gate' /\ Quiet'
  BY <1>a DEF Shape, Gate, Quiet, InGate, PcStates
<1>3. Jobs'
  BY <1>a DEF Jobs, Shape, Gate, InGate, PcStates
<1>4. Fresh' /\ Unwritten' /\ Unindexed' /\ Home' /\ NeverCountedTwice'
  BY <1>a DEF Fresh, Unwritten, Unindexed, Nowhere, Home, NeverCountedTwice, Jobs, Shape, Gate, InGate, PcStates
<1>5. Stamps' /\ Reading'
  BY <1>a DEF Stamps, Reading, ReadOf, Gate, Shape, InGate, PcStates, Home
<1>6. Folded'
  <2> SUFFICES ASSUME NEW m \in Months, Trusts(m), NEW x \in Obs, MonthOf[x] = m
               PROVE  Drifted(x, Reasons) \/ rows'[x] = IF x \in lines[m] THEN 1 ELSE 0
    BY DEF Folded, Settled, Trusts, Drifted, Agrees
  <2>1. CASE x = job[r]
    BY <2>1, <1>a DEF Landed, Unindexed
  <2>2. CASE x # job[r]
    <3>1. ~Pending(x)
      BY <1>a, <2>2 DEF Pending
    <3>2. Settled(m)
      BY <1>a DEF Folded
    <3> QED BY <2>2, <3>1, <3>2, <1>a DEF Settled, Agrees
  <2> QED BY <2>1, <2>2
<1>7. Knowing' /\ Landed'
  BY <1>a DEF Knowing, Landed, Folded, Trusts, Settled, Pending, Agrees, Drifted, Reasons, Stamps, Quiet, Home, Shape, Jobs
<1> QED BY <1>1, <1>2, <1>3, <1>4, <1>5, <1>6, <1>7

LEMMA InsertFailsInv ==
    ASSUME WordLogInv, NEW r \in Recorders, InsertFails(r)
    PROVE  WordLogInv'
<1> USE DEF WordLogInv, TypeOK, disk, local, history, Tasks, InsertFails, Release, Locals0, At
<1>a. job[r] \in Obs /\ job[r] \in used /\ MonthOf[job[r]] \in Months /\ holder = r
      /\ \A t \in Tasks : t # r => pc[t] \in {"idle", "waiting"}
  BY AtWork
<1>1. TypeOK'
  <2>1. drift' \in SUBSET (Obs \X Reasons)
    BY <1>a DEF Reasons
  <2>9. r \in Tasks
    OBVIOUS
  <2> QED BY <2>1, <2>9, ReleaseType
<1>2. Shape' /\ Gate' /\ Quiet'
  BY <1>a DEF Shape, Gate, Quiet, InGate, PcStates
<1>3. Jobs'
  BY <1>a DEF Jobs, Shape, Gate, InGate, PcStates
<1>4. Fresh' /\ Unwritten' /\ Unindexed' /\ Home' /\ NeverCountedTwice'
  BY <1>a DEF Fresh, Unwritten, Unindexed, Nowhere, Home, NeverCountedTwice, Jobs, Shape, Gate, InGate, PcStates
<1>5. Stamps' /\ Reading'
  BY <1>a DEF Stamps, Reading, ReadOf, Gate, Shape, InGate, PcStates, Home
<1>6. Folded'
  BY <1>a DEF Folded, Trusts, Settled, Pending, Agrees, Drifted, Reasons, Stamps, Knowing, Landed, Quiet, Reading, ReadOf, Home, Shape
<1>7. Knowing' /\ Landed'
  BY <1>a DEF Knowing, Landed, Folded, Trusts, Settled, Pending, Agrees, Drifted, Reasons, Stamps, Quiet, Home, Shape, Jobs
<1> QED BY <1>1, <1>2, <1>3, <1>4, <1>5, <1>6, <1>7

LEMMA FoldInv ==
    ASSUME WordLogInv, NEW f \in Folders, NEW always \in BOOLEAN, Fold(f, always)
    PROVE  WordLogInv'
<1> USE DEF WordLogInv, TypeOK, disk, local, history, Tasks, Fold
<1>b. \A x \in Obs : Pending(x)' <=> Pending(x)
  BY DEF Pending, Shape
<1>c. \A x \in Months : Settled(x)' <=> Settled(x)
  BY <1>b, SameSettled
<1>1. TypeOK'
  BY DEF PcStates, Reasons
<1>2. Shape' /\ Gate' /\ Quiet'
  BY DEF Shape, Gate, Quiet, InGate, PcStates
<1>3. Jobs'
  BY DEF Jobs, Shape, Gate, InGate, PcStates
<1>4. Fresh' /\ Unwritten' /\ Unindexed' /\ Home' /\ NeverCountedTwice'
  BY DEF Fresh, Unwritten, Unindexed, Nowhere, Home, NeverCountedTwice, Jobs, Shape, Gate, InGate, PcStates
<1>5. Stamps' /\ Reading'
  BY DEF Stamps, Reading, ReadOf, Gate, Shape, InGate, PcStates, Home
<1>6. Folded'
  BY <1>c DEF Folded, Trusts, Knowing, Shape, Stamps
<1>7. Knowing' /\ Landed'
  <2>1. \A x \in Recorders : pc'[x] \in {"checked", "written", "logged"} =>
            pc[x] = pc'[x] /\ job'[x] = job[x] /\ job[x] \in Obs
    BY DEF Jobs, Shape
  <2>2. Knowing'
    BY <2>1, <1>c DEF Knowing
  <2>3. Landed'
    BY <2>1 DEF Landed, Trusts, Drifted
  <2> QED BY <2>2, <2>3
<1> QED BY <1>1, <1>2, <1>3, <1>4, <1>5, <1>6, <1>7

LEMMA UnchangedInv ==
    ASSUME WordLogInv, NEW f \in Folders, Unchanged(f)
    PROVE  WordLogInv'
<1> USE DEF WordLogInv, TypeOK, disk, local, history, Tasks, Unchanged, Release, Locals0, At
<1>a. holder = f /\ (\A t \in Tasks : t # f => pc[t] \in {"idle", "waiting"})
      /\ \A x \in Obs : ~Pending(x)
  BY AtFold
<1>b. \A x \in Obs : Pending(x)' <=> Pending(x)
  BY <1>a DEF Pending, Shape
<1>c. \A x \in Months : Settled(x)' <=> Settled(x)
  BY <1>b, SameSettled
<1>1. TypeOK'
  BY <1>a DEF PcStates, Reasons
<1>2. Shape' /\ Gate' /\ Quiet'
  BY <1>a DEF Shape, Gate, Quiet, InGate, PcStates
<1>3. Jobs'
  BY <1>a DEF Jobs, Shape, Gate, InGate, PcStates
<1>4. Fresh' /\ Unwritten' /\ Unindexed' /\ Home' /\ NeverCountedTwice'
  BY <1>a DEF Fresh, Unwritten, Unindexed, Nowhere, Home, NeverCountedTwice, Jobs, Shape, Gate, InGate, PcStates
<1>5. Stamps' /\ Reading'
  BY <1>a DEF Stamps, Reading, ReadOf, Gate, Shape, InGate, PcStates, Home
<1>6. Folded'
  BY <1>a, <1>c DEF Folded, Trusts, Knowing, Shape, Stamps
<1>7. Knowing' /\ Landed'
  BY <1>a, <1>c DEF Knowing, Landed, Folded, Trusts, Drifted, Shape, Stamps
<1> QED BY <1>1, <1>2, <1>3, <1>4, <1>5, <1>6, <1>7

LEMMA TakeStampsInv ==
    ASSUME WordLogInv, NEW f \in Folders, TakeStamps(f)
    PROVE  WordLogInv'
<1> USE DEF WordLogInv, TypeOK, disk, local, history, Tasks, TakeStamps, At
<1>a. holder = f /\ (\A t \in Tasks : t # f => pc[t] \in {"idle", "waiting"})
      /\ \A x \in Obs : ~Pending(x)
  BY AtFold
<1>b. \A x \in Obs : Pending(x)' <=> Pending(x)
  BY <1>a DEF Pending, Shape
<1>c. \A x \in Months : Settled(x)' <=> Settled(x)
  BY <1>b, SameSettled
<1>1. TypeOK'
  BY <1>a DEF PcStates, Reasons
<1>2. Shape' /\ Gate' /\ Quiet'
  BY <1>a DEF Shape, Gate, Quiet, InGate, PcStates
<1>3. Jobs'
  BY <1>a DEF Jobs, Shape, Gate, InGate, PcStates
<1>4. Fresh' /\ Unwritten' /\ Unindexed' /\ Home' /\ NeverCountedTwice'
  BY <1>a DEF Fresh, Unwritten, Unindexed, Nowhere, Home, NeverCountedTwice, Jobs, Shape, Gate, InGate, PcStates
<1>5. Stamps' /\ Reading'
  BY <1>a DEF Stamps, Reading, ReadOf, Gate, Shape, InGate, PcStates, Home
<1>6. Folded'
  BY <1>a, <1>c DEF Folded, Trusts, Knowing, Shape, Stamps
<1>7. Knowing' /\ Landed'
  BY <1>a, <1>c DEF Knowing, Landed, Folded, Trusts, Drifted, Shape, Stamps
<1> QED BY <1>1, <1>2, <1>3, <1>4, <1>5, <1>6, <1>7

LEMMA ReadMonthInv ==
    ASSUME WordLogInv, NEW f \in Folders, NEW m \in Months, ReadMonth(f, m)
    PROVE  WordLogInv'
<1> USE DEF WordLogInv, TypeOK, disk, local, history, Tasks, ReadMonth, At
<1>a. holder = f /\ (\A t \in Tasks : t # f => pc[t] \in {"idle", "waiting"})
      /\ \A x \in Obs : ~Pending(x)
  BY AtFold
<1>b. \A x \in Obs : Pending(x)' <=> Pending(x)
  BY <1>a DEF Pending, Shape
<1>c. \A x \in Months : Settled(x)' <=> Settled(x)
  BY <1>b, SameSettled
<1>1. TypeOK'
  BY <1>a DEF PcStates, Reasons
<1>2. Shape' /\ Gate' /\ Quiet'
  BY <1>a DEF Shape, Gate, Quiet, InGate, PcStates
<1>3. Jobs'
  BY <1>a DEF Jobs, Shape, Gate, InGate, PcStates
<1>4. Fresh' /\ Unwritten' /\ Unindexed' /\ Home' /\ NeverCountedTwice'
  BY <1>a DEF Fresh, Unwritten, Unindexed, Nowhere, Home, NeverCountedTwice, Jobs, Shape, Gate, InGate, PcStates
<1>5. Stamps' /\ Reading'
  BY <1>a DEF Stamps, Reading, ReadOf, Gate, Shape, InGate, PcStates, Home
<1>6. Folded'
  BY <1>a, <1>c DEF Folded, Trusts, Knowing, Shape, Stamps
<1>7. Knowing' /\ Landed'
  BY <1>a, <1>c DEF Knowing, Landed, Folded, Trusts, Drifted, Shape, Stamps
<1> QED BY <1>1, <1>2, <1>3, <1>4, <1>5, <1>6, <1>7

LEMMA FinishReadInv ==
    ASSUME WordLogInv, NEW f \in Folders, FinishRead(f)
    PROVE  WordLogInv'
<1> USE DEF WordLogInv, TypeOK, disk, local, history, Tasks, FinishRead, At
<1>a. holder = f /\ (\A t \in Tasks : t # f => pc[t] \in {"idle", "waiting"})
      /\ \A x \in Obs : ~Pending(x)
  BY AtFold
<1>b. \A x \in Obs : Pending(x)' <=> Pending(x)
  BY <1>a DEF Pending, Shape
<1>c. \A x \in Months : Settled(x)' <=> Settled(x)
  BY <1>b, SameSettled
<1>1. TypeOK'
  BY <1>a DEF PcStates, Reasons
<1>2. Shape' /\ Gate' /\ Quiet'
  BY <1>a DEF Shape, Gate, Quiet, InGate, PcStates
<1>3. Jobs'
  BY <1>a DEF Jobs, Shape, Gate, InGate, PcStates
<1>4. Fresh' /\ Unwritten' /\ Unindexed' /\ Home' /\ NeverCountedTwice'
  BY <1>a DEF Fresh, Unwritten, Unindexed, Nowhere, Home, NeverCountedTwice, Jobs, Shape, Gate, InGate, PcStates
<1>5. Stamps' /\ Reading'
  BY <1>a DEF Stamps, Reading, ReadOf, Gate, Shape, InGate, PcStates, Home
<1>6. Folded'
  BY <1>a, <1>c DEF Folded, Trusts, Knowing, Shape, Stamps
<1>7. Knowing' /\ Landed'
  BY <1>a, <1>c DEF Knowing, Landed, Folded, Trusts, Drifted, Shape, Stamps
<1> QED BY <1>1, <1>2, <1>3, <1>4, <1>5, <1>6, <1>7

LEMMA ReadFailsInv ==
    ASSUME WordLogInv, NEW f \in Folders, ReadFails(f)
    PROVE  WordLogInv'
<1> USE DEF WordLogInv, TypeOK, disk, local, history, Tasks, ReadFails, NextPhase, Release, Locals0, At
<1>a. holder = f /\ (\A t \in Tasks : t # f => pc[t] \in {"idle", "waiting"})
      /\ \A x \in Obs : ~Pending(x)
  BY AtFold
<1>b. \A x \in Obs : Pending(x)' <=> Pending(x)
  BY <1>a DEF Pending, Shape
<1>c. \A x \in Months : Settled(x)' <=> Settled(x)
  BY <1>b, SameSettled
<1>1. TypeOK'
  BY <1>a DEF PcStates, Reasons
<1>2. Shape' /\ Gate' /\ Quiet'
  BY <1>a DEF Shape, Gate, Quiet, InGate, PcStates
<1>3. Jobs'
  BY <1>a DEF Jobs, Shape, Gate, InGate, PcStates
<1>4. Fresh' /\ Unwritten' /\ Unindexed' /\ Home' /\ NeverCountedTwice'
  BY <1>a DEF Fresh, Unwritten, Unindexed, Nowhere, Home, NeverCountedTwice, Jobs, Shape, Gate, InGate, PcStates
<1>5. Stamps' /\ Reading'
  BY <1>a DEF Stamps, Reading, ReadOf, Gate, Shape, InGate, PcStates, Home
<1>6. Folded'
  BY <1>a, <1>c DEF Folded, Trusts, Knowing, Shape, Stamps
<1>7. Knowing' /\ Landed'
  BY <1>a, <1>c DEF Knowing, Landed, Folded, Trusts, Drifted, Shape, Stamps
<1> QED BY <1>1, <1>2, <1>3, <1>4, <1>5, <1>6, <1>7

LEMMA RebuildInv ==
    ASSUME WordLogInv, NEW f \in Folders, Rebuild(f)
    PROVE  WordLogInv'
<1> USE DEF WordLogInv, TypeOK, disk, local, history, Tasks, Rebuild, NextPhase, Release, Locals0, At
<1>a. holder = f /\ (\A t \in Tasks : t # f => pc[t] \in {"idle", "waiting"})
      /\ \A x \in Obs : ~Pending(x)
  BY AtFold
<1>1. TypeOK'
  BY <1>a DEF PcStates, Reasons
<1>2. Shape' /\ Gate' /\ Quiet'
  BY <1>a DEF Shape, Gate, Quiet, InGate, PcStates
<1>3. Jobs'
  BY <1>a DEF Jobs, Shape, Gate, InGate, PcStates
<1>4. Fresh' /\ Unwritten' /\ Unindexed' /\ Home' /\ NeverCountedTwice'
  BY <1>a DEF Fresh, Unwritten, Unindexed, Nowhere, Home, NeverCountedTwice, Jobs, Shape, Gate, InGate, PcStates
<1>5. Stamps' /\ Reading'
  BY <1>a DEF Stamps, Reading, ReadOf, Gate, Shape, InGate, PcStates, Home
<1>6. Folded'
  BY <1>a DEF Folded, Trusts, Settled, Pending, Agrees, Drifted, Reasons, Stamps, Knowing, Landed, Quiet, Reading, ReadOf, Home, Shape
<1>7. Knowing' /\ Landed'
  BY <1>a DEF Knowing, Landed, Folded, Trusts, Settled, Pending, Agrees, Drifted, Reasons, Stamps, Quiet, Home, Shape, Jobs
<1> QED BY <1>1, <1>2, <1>3, <1>4, <1>5, <1>6, <1>7

LEMMA RebuildFailsInv ==
    ASSUME WordLogInv, NEW f \in Folders, RebuildFails(f)
    PROVE  WordLogInv'
<1> USE DEF WordLogInv, TypeOK, disk, local, history, Tasks, RebuildFails, NextPhase, Release, Locals0, At
<1>a. holder = f /\ (\A t \in Tasks : t # f => pc[t] \in {"idle", "waiting"})
      /\ \A x \in Obs : ~Pending(x)
  BY AtFold
<1>1. TypeOK'
  <2>1. drift' \in SUBSET (Obs \X Reasons) /\ phase' \in {"down", "starting", "up"}
        /\ seen' \in [Months -> Nat] \cup {Unknown}
    BY DEF Reasons
  <2>9. f \in Tasks
    OBVIOUS
  <2> QED BY <2>1, <2>9, ReleaseType
<1>2. Shape' /\ Gate' /\ Quiet'
  BY <1>a DEF Shape, Gate, Quiet, InGate, PcStates
<1>3. Jobs'
  BY <1>a DEF Jobs, Shape, Gate, InGate, PcStates
<1>4. Fresh' /\ Unwritten' /\ Unindexed' /\ Home' /\ NeverCountedTwice'
  BY <1>a DEF Fresh, Unwritten, Unindexed, Nowhere, Home, NeverCountedTwice, Jobs, Shape, Gate, InGate, PcStates
<1>5. Stamps' /\ Reading'
  BY <1>a DEF Stamps, Reading, ReadOf, Gate, Shape, InGate, PcStates, Home
<1>6. Folded'
  BY <1>a DEF Folded, Trusts, Settled, Pending, Agrees, Drifted, Reasons, Stamps, Knowing, Landed, Quiet, Reading, ReadOf, Home, Shape
<1>7. Knowing' /\ Landed'
  BY <1>a DEF Knowing, Landed, Folded, Trusts, Settled, Pending, Agrees, Drifted, Reasons, Stamps, Quiet, Home, Shape, Jobs
<1> QED BY <1>1, <1>2, <1>3, <1>4, <1>5, <1>6, <1>7

LEMMA StartInv ==
    ASSUME WordLogInv, NEW f \in Folders, Start(f)
    PROVE  WordLogInv'
<1> USE DEF WordLogInv, TypeOK, disk, local, history, Tasks, Start
<1>b. \A x \in Obs : Pending(x)' <=> Pending(x)
  BY DEF Pending, Shape
<1>c. \A x \in Months : Settled(x)' <=> Settled(x)
  BY <1>b, SameSettled
<1>1. TypeOK'
  BY DEF PcStates, Reasons
<1>2. Shape' /\ Gate' /\ Quiet'
  BY DEF Shape, Gate, Quiet, InGate, PcStates
<1>3. Jobs'
  BY DEF Jobs, Shape, Gate, InGate, PcStates
<1>4. Fresh' /\ Unwritten' /\ Unindexed' /\ Home' /\ NeverCountedTwice'
  BY DEF Fresh, Unwritten, Unindexed, Nowhere, Home, NeverCountedTwice, Jobs, Shape, Gate, InGate, PcStates
<1>5. Stamps' /\ Reading'
  BY DEF Stamps, Reading, ReadOf, Gate, Shape, InGate, PcStates, Home
<1>6. Folded'
  BY DEF Folded, Trusts, Quiet
<1>7. Knowing' /\ Landed'
  BY DEF Knowing, Landed, Trusts, Quiet
<1> QED BY <1>1, <1>2, <1>3, <1>4, <1>5, <1>6, <1>7

LEMMA CrashInv ==
    ASSUME WordLogInv, Crash
    PROVE  WordLogInv'
<1> USE DEF WordLogInv, TypeOK, disk, local, history, Tasks, Crash, AppendPart, Locals0, At
<1>1. TypeOK'
  <2> HIDE DEF AppendPart
  <2>1. \A r \in Recorders : At(r, "checked") => job[r] \in Obs
    BY AtWork
  <2>2. /\ lines' \in [Months -> SUBSET Obs]
        /\ torn' \in [Months -> BOOLEAN] /\ stamp' \in [Months -> Nat]
        /\ \A m \in Months : lines'[m] # {} \/ torn'[m] => stamp'[m] > 0
    BY <2>1, AppendPartType
  <2>3. /\ known' \in BOOLEAN /\ taken' \in [Months -> Nat]
        /\ unread' \in SUBSET Months /\ got' \in SUBSET Obs
    OBVIOUS
  <2>4. /\ pc' \in [Tasks -> PcStates] /\ force' \in [Folders -> BOOLEAN]
        /\ job' \in [Recorders -> Obs \cup {NoObs}]
    BY DEF PcStates
  <2> QED BY <2>2, <2>3, <2>4
<1>2. Shape' /\ Gate' /\ Quiet'
  BY DEF Shape, Gate, Quiet, InGate, PcStates
<1>3. Jobs'
  BY DEF Jobs, Shape, Gate, InGate, PcStates
<1>4. Fresh' /\ Unwritten' /\ Unindexed' /\ Home' /\ NeverCountedTwice'
  BY DEF Fresh, Unwritten, Unindexed, Nowhere, Home, NeverCountedTwice, Jobs, Shape, Gate, InGate, PcStates
<1>5. Stamps' /\ Reading'
  BY DEF Stamps, Reading, ReadOf, Gate, Shape, InGate, PcStates, Home
<1>6. Folded'
  BY DEF Folded, Trusts, Settled, Pending, Agrees, Drifted, Reasons, Stamps, Knowing, Landed, Quiet, Reading, ReadOf, Home, Shape
<1>7. Knowing' /\ Landed'
  BY DEF Knowing, Landed, Folded, Trusts, Settled, Pending, Agrees, Drifted, Reasons, Stamps, Quiet, Home, Shape, Jobs
<1> QED BY <1>1, <1>2, <1>3, <1>4, <1>5, <1>6, <1>7

LEMMA LoseIndexInv ==
    ASSUME WordLogInv, LoseIndex
    PROVE  WordLogInv'
<1> USE DEF WordLogInv, TypeOK, disk, local, history, Tasks, LoseIndex
<1>1. TypeOK'
  BY DEF PcStates, Reasons
<1>2. Shape' /\ Gate' /\ Quiet'
  BY DEF Shape, Gate, Quiet, InGate, PcStates
<1>3. Jobs'
  BY DEF Jobs, Shape, Gate, InGate, PcStates
<1>4. Fresh' /\ Unwritten' /\ Unindexed' /\ Home' /\ NeverCountedTwice'
  BY DEF Fresh, Unwritten, Unindexed, Nowhere, Home, NeverCountedTwice, Jobs, Shape, Gate, InGate, PcStates
<1>5. Stamps' /\ Reading'
  BY DEF Stamps, Reading, ReadOf, Gate, Shape, InGate, PcStates, Home
<1>6. Folded'
  BY DEF Folded, Trusts, Settled, Pending, Agrees, Drifted, Reasons, Stamps, Knowing, Landed, Quiet, Reading, ReadOf, Home, Shape
<1>7. Knowing' /\ Landed'
  BY DEF Knowing, Landed, Folded, Trusts, Settled, Pending, Agrees, Drifted, Reasons, Stamps, Quiet, Home, Shape, Jobs
<1> QED BY <1>1, <1>2, <1>3, <1>4, <1>5, <1>6, <1>7

LEMMA PullInv ==
    ASSUME WordLogInv, NEW m \in Months, NEW o \in Obs, Pull(m, o)
    PROVE  WordLogInv'
<1> USE DEF WordLogInv, TypeOK, disk, local, history, Tasks, Pull, Window, At
<1>1. TypeOK'
  BY DEF PcStates, Reasons
<1>2. Shape' /\ Gate' /\ Quiet'
  BY DEF Shape, Gate, Quiet, InGate, PcStates
<1>3. Jobs'
  BY DEF Jobs, Shape, Gate, InGate, PcStates
<1>4. Fresh' /\ Unwritten' /\ Unindexed' /\ Home' /\ NeverCountedTwice'
  BY DEF Fresh, Unwritten, Unindexed, Nowhere, Home, NeverCountedTwice, Jobs, Shape, Gate, InGate, PcStates
<1>5. Stamps' /\ Reading'
  BY DEF Stamps, Reading, ReadOf, Gate, Shape, InGate, PcStates, Home
<1>6. Folded'
  <2> SUFFICES ASSUME NEW n \in Months, Trusts(n)', NEW x \in Obs, MonthOf[x] = n,
                      ~\E f \in Folders : pc[f] = "read"
               PROVE  Drifted(x, Reasons)' \/ Pending(x)' \/ Agrees(x)'
    BY DEF Folded, Settled
  <2>1. Trusts(n) /\ n # m
    BY DEF Trusts, Stamps
  <2>2. Settled(n) /\ lines'[n] = lines[n]
    BY <2>1 DEF Folded
  <2> QED BY <2>2 DEF Settled, Agrees, Drifted, Pending
<1>7. Knowing'
  <2> SUFFICES ASSUME NEW r \in Recorders, pc[r] \in {"checked", "written"}, known
               PROVE  seen # Unknown /\ Settled(MonthOf[job[r]])'
    BY DEF Knowing
  <2>1. seen # Unknown /\ Settled(MonthOf[job[r]])
    BY DEF Knowing
  <2>2. MonthOf[job[r]] = m => Drifted(o, Reasons)'
    <3> SUFFICES ASSUME MonthOf[job[r]] = m
                 PROVE  \E w \in Reasons : <<o, w>> \in drift'
      BY DEF Drifted
    <3>1. CASE pc[r] = "checked"
      <4>1. <<"checked", "before">> \in Window(m)
        BY <3>1
      <4>2. <<o, "before">> \in drift'
        BY <4>1
      <4> QED BY <4>2 DEF Reasons
    <3>2. CASE pc[r] = "written"
      <4>1. <<"written", "after">> \in Window(m)
        BY <3>2
      <4>2. <<o, "after">> \in drift'
        BY <4>1
      <4> QED BY <4>2 DEF Reasons
    <3> QED BY <3>1, <3>2
  <2>3. ASSUME NEW x \in Obs, MonthOf[x] = MonthOf[job[r]]
        PROVE  Drifted(x, Reasons)' \/ Pending(x)' \/ Agrees(x)'
    <3>1. CASE x = o
      BY <2>2, <2>3, <3>1
    <3>2. CASE x # o
      <4>1. Drifted(x, Reasons) \/ Pending(x) \/ Agrees(x)
        BY <2>1, <2>3 DEF Settled
      <4>2. x \in lines'[MonthOf[x]] <=> x \in lines[MonthOf[x]]
        BY <3>2
      <4>3. (Drifted(x, Reasons) => Drifted(x, Reasons)') /\ (Pending(x) => Pending(x)')
        BY DEF Drifted, Pending
      <4> QED BY <4>1, <4>2, <4>3 DEF Agrees
    <3> QED BY <3>1, <3>2
  <2> QED BY <2>1, <2>3 DEF Settled
<1>8. Landed'
  <2> SUFFICES ASSUME NEW r \in Recorders,
                      \/ pc[r] = "written" /\ known
                      \/ pc[r] = "logged" /\ Trusts(MonthOf[job[r]])'
               PROVE  job[r] \in lines'[MonthOf[job[r]]] \/ Drifted(job[r], Reasons)'
    BY DEF Landed
  <2>1. job[r] \in Obs /\ MonthOf[job[r]] \in Months
    BY AtWork
  <2>2. CASE pc[r] = "written" /\ known /\ o = job[r]
    <3>1. <<"written", "after">> \in Window(MonthOf[o])
      BY <2>2
    <3>2. <<o, "after">> \in drift'
      BY <3>1
    <3> QED BY <2>2, <3>2 DEF Drifted, Reasons
  <2>3. CASE pc[r] = "written" /\ known /\ o # job[r]
    <3>1. job[r] \in lines[MonthOf[job[r]]] \/ Drifted(job[r], Reasons)
      BY <2>3 DEF Landed
    <3>2. Drifted(job[r], Reasons) => Drifted(job[r], Reasons)'
      BY DEF Drifted
    <3>3. job[r] \in lines[MonthOf[job[r]]] => job[r] \in lines'[MonthOf[job[r]]]
      BY <2>1, <2>3
    <3> QED BY <3>1, <3>2, <3>3
  <2>4. CASE pc[r] = "logged" /\ Trusts(MonthOf[job[r]])'
    <3>1. Trusts(MonthOf[job[r]]) /\ MonthOf[job[r]] # m
      BY <2>1, <2>4 DEF Trusts, Stamps
    <3> QED BY <2>1, <2>4, <3>1 DEF Landed, Drifted
  <2> QED BY <2>2, <2>3, <2>4
<1> QED BY <1>1, <1>2, <1>3, <1>4, <1>5, <1>6, <1>7, <1>8

-----------------------------------------------------------------------------
(* The theorems.                                                           *)

LEMMA InitInv == Init => WordLogInv
<1> SUFFICES ASSUME Init PROVE WordLogInv
  OBVIOUS
<1> USE DEF Init, Tasks
<1>1. TypeOK
  <2>1. seen \in [Months -> Nat] \cup {Unknown} /\ pc \in [Tasks -> PcStates]
    BY DEF PcStates
  <2>2. /\ lines \in [Months -> SUBSET Obs] /\ torn \in [Months -> BOOLEAN]
        /\ job \in [Recorders -> Obs \cup {NoObs}] /\ force \in [Folders -> BOOLEAN]
    OBVIOUS
  <2>3. stamp \in [Months -> Nat] /\ rows \in [Obs -> Nat] /\ taken \in [Months -> Nat]
    OBVIOUS
  <2>4. \A m \in Months : lines[m] = {} /\ ~torn[m]
    OBVIOUS
  <2>5. /\ phase \in {"down", "starting", "up"} /\ holder \in Tasks \cup {NoTask}
        /\ known \in BOOLEAN /\ unread \in SUBSET Months /\ got \in SUBSET Obs
        /\ used \in SUBSET Obs /\ acked \in SUBSET Obs /\ drift \in SUBSET (Obs \X Reasons)
    OBVIOUS
  <2>6. pulls \in 0..MaxPulls /\ crashes \in 0..MaxCrashes
    BY SMT
  <2> HIDE DEF Init
  <2> QED BY <2>1, <2>2, <2>3, <2>4, <2>5, <2>6 DEF TypeOK
<1>2. Shape /\ Gate /\ Jobs /\ Quiet
  BY DEF Shape, Gate, Jobs, Quiet, InGate, PcStates
<1>3. Fresh /\ Unwritten /\ Unindexed /\ Home /\ NeverCountedTwice
  BY DEF Fresh, Nowhere, Unwritten, Unindexed, Home, NeverCountedTwice
<1>4. Stamps /\ Reading /\ Folded /\ Knowing /\ Landed
  BY DEF Stamps, Reading, Folded, Trusts, Knowing, Landed
<1> QED BY <1>1, <1>2, <1>3, <1>4 DEF WordLogInv

LEMMA NextInv == WordLogInv /\ [Next]_vars => WordLogInv'
<1> SUFFICES ASSUME WordLogInv, [Next]_vars PROVE WordLogInv'
  OBVIOUS
<1>1. ASSUME NEW r \in Recorders, RecorderStep(r) PROVE WordLogInv'
  BY <1>1, CheckInv, WriteInv, WriteFailsInv, RestampInv, InsertInv, InsertFailsInv
     DEF RecorderStep
<1>2. ASSUME NEW f \in Folders, FolderStep(f) PROVE WordLogInv'
  BY <1>2, UnchangedInv, TakeStampsInv, ReadMonthInv, FinishReadInv, ReadFailsInv,
     RebuildInv, RebuildFailsInv DEF FolderStep
<1>3. CASE UNCHANGED vars
  <2> USE <1>3 DEF vars
  <2>1. TypeOK' = TypeOK
    BY DEF TypeOK
  <2>2. /\ Shape' = Shape /\ Gate' = Gate /\ Jobs' = Jobs /\ Quiet' = Quiet
        /\ Home' = Home /\ Unindexed' = Unindexed /\ NeverCountedTwice' = NeverCountedTwice
    BY DEF Shape, Gate, Jobs, Quiet, Home, Unindexed, NeverCountedTwice
  <2>3. Fresh' = Fresh /\ Unwritten' = Unwritten
    BY DEF Fresh, Nowhere, Unwritten
  <2>4. Stamps' = Stamps /\ Reading' = Reading
    BY DEF Stamps, Reading, ReadOf
  <2>5. Folded' = Folded /\ Knowing' = Knowing /\ Landed' = Landed
    BY DEF Folded, Trusts, Settled, Pending, Agrees, Drifted, Knowing, Landed
  <2> QED BY <2>1, <2>2, <2>3, <2>4, <2>5 DEF WordLogInv
<1> QED
  BY <1>1, <1>2, <1>3, RecordInv, AcquireInv, FoldInv, StartInv, PullInv, CrashInv,
     LoseIndexInv DEF Next

\* Every state the program reaches satisfies the invariant.
THEOREM WordLogInvariant == Spec => []WordLogInv
  BY InitInv, NextInv, PTL DEF Spec

\* Type correctness.
THEOREM WordLogTypes == Spec => []TypeOK
<1>1. WordLogInv => TypeOK
  BY DEF WordLogInv
<1> QED BY <1>1, WordLogInvariant, PTL

\* words/mod.rs, Held::unchanged: when it may answer true with nobody holding
\* the gate, the table is the log.
THEOREM WordLogUnchanged == Spec => []UnchangedMeansFolded
<1>1. WordLogInv => UnchangedMeansFolded
  <2> SUFFICES ASSUME WordLogInv, holder = NoTask, seen = stamp, NEW o \in Obs
               PROVE  Drifted(o, Reasons) \/ Agrees(o)
    BY DEF UnchangedMeansFolded
  <2>1. Trusts(MonthOf[o])
    BY DEF WordLogInv, TypeOK, Trusts
  <2> QED BY <2>1, AtRest DEF Settled
<1> QED BY <1>1, WordLogInvariant, PTL

\* words/mod.rs, the comment on the gate: no observation is counted twice.
THEOREM WordLogCountsOnce == Spec => []NeverCountedTwice
<1>1. WordLogInv => NeverCountedTwice
  BY DEF WordLogInv
<1> QED BY <1>1, WordLogInvariant, PTL

\* The same comment: a fold takes no row away whose line is still there, except
\* out of a month it no longer trusts and will read again.
THEOREM WordLogKeepsRows == Spec => NoRowLostUnnoticed
<1> DEFINE Kept == \A o \in Obs : (rows'[o] < rows[o] /\ phase # "down") =>
                      o \notin lines[MonthOf[o]] \/ ~Trusts(MonthOf[o])'
<1>1. ASSUME WordLogInv, WordLogInv', [Next]_vars PROVE [Kept]_vars
  <2>1. CASE UNCHANGED rows
    BY <1>1, <2>1 DEF WordLogInv, TypeOK
  <2>2. ASSUME NEW r \in Recorders, Insert(r) PROVE Kept
    BY <1>1, <2>2 DEF Insert, WordLogInv, TypeOK
  <2>3. ASSUME NEW f \in Folders, Rebuild(f) PROVE Kept
    <3> SUFFICES ASSUME NEW o \in Obs, rows'[o] < rows[o], Trusts(MonthOf[o])'
                 PROVE  o \notin lines[MonthOf[o]]
      OBVIOUS
    <3>1. o \notin got
      BY <1>1, <2>3 DEF Rebuild, WordLogInv, TypeOK, NeverCountedTwice
    <3>2. ReadOf(MonthOf[o]) /\ taken[MonthOf[o]] = stamp[MonthOf[o]]
      BY <1>1, <2>3 DEF Rebuild, At, Trusts, WordLogInv, TypeOK, Reading
    <3> QED BY <3>1, <3>2 DEF ReadOf
  <2>4. CASE LoseIndex
    BY <2>4 DEF LoseIndex
  <2> QED
    BY <1>1, <2>1, <2>2, <2>3, <2>4
    DEF Next, RecorderStep, FolderStep, Record, Acquire, Fold, Check, Write, WriteFails,
        Restamp, InsertFails, Unchanged, TakeStamps, ReadMonth, FinishRead, ReadFails,
        RebuildFails, Start, Pull, Crash, vars, disk
<1> QED BY <1>1, WordLogInvariant, PTL DEF Spec, NoRowLostUnnoticed
=============================================================================
