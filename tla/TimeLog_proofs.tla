--------------------------- MODULE TimeLog_proofs ---------------------------
(***************************************************************************)
(* That no request writes an entry that ends before it starts; that each   *)
(* acts on the entry that is there as if nobody else had been at it; and   *)
(* that, once everybody is at rest, the index says what the files say.     *)
(*                                                                         *)
(* The first two are about what a request has in hand between its read and *)
(* its write (WriteFits).  For the third, for each entry whose row is not  *)
(* what its file says somebody is on the way to it: an event, or an actor  *)
(* with the entry before it (AllCovered).  After a stop that somebody is   *)
(* the next start, whose scan trusts a row that has its file's stamp; so a *)
(* row that has it says what the file says, but for the late (RowsFit),    *)
(* which keeps because no row, and nothing read, is stamped ahead of its   *)
(* file.  And what the watcher and the starting scan have in hand is what  *)
(* is there, unless somebody has told of a change since they looked, or    *)
(* nobody will (SightFits).                                                *)
(***************************************************************************)
EXTENDS TimeLog, TLAPS

Phases  == {"down", "starting", "reconciled", "up", "blind"}
Readers == {"scan", "reindex", "watch"}
OpsOf(a) == IF a = Watcher THEN {"none", "scan", "watch"}
            ELSE IF a = Starter THEN {"none", "scan"}
            ELSE {"none", "create", "patch", "stop", "delete", "reindex"}
Places == {"rest", "probe", "read", "readstat", "write", "stat", "index", "unlink", "drop",
           "clear", "walk", "compare", "next"}
Walks == (UNION {[S -> Stamps] : S \in SUBSET Ids}) \cup {<<>>}
Tasks == [at : Places, op : {"none", "create", "patch", "stop", "delete"} \cup Readers,
          id : Ids \cup {None}, nudge : Nat, base : Bodies, draft : Entries \cup {None},
          patch : Patches \cup {None}, stamp : Stamps \cup {None}, walk : Walks,
          todo : SUBSET Ids, gone : SUBSET Ids]

\* Who does what, where.
OpFits(a, t) ==
    /\ t.op \in OpsOf(a)
    /\ t.at = "rest" => t = Rest
    /\ t.at = "probe" => t.op = "create"
    /\ t.at = "read" => t.op \in {"stop", "patch"}
    /\ t.at = "readstat" => t.op \in Readers \cup {"stop", "patch"}
    /\ t.at = "write" => t.op \in {"create", "stop", "patch"}
    /\ t.at \in {"stat", "index"} => t.op \in Readers \cup {"none"}
    /\ t.op = "none" /\ a \notin Clients => t.at = "rest"
    /\ t.at = "unlink" => t.op = "delete"
    /\ t.at = "drop" => t.op \in Readers \cup {"delete"}
    /\ t.at = "clear" => t.op = "reindex"
    /\ t.at \in {"walk", "compare"} => t.op \in {"scan", "reindex"}
    /\ t.at = "stat" => t.op = "none"
    /\ t.at = "next" => t.op \in Readers
    /\ t.op \notin Readers \/ t.at \in {"clear", "walk", "compare"} => t.todo = {} /\ t.gone = {}

\* What is about to be written, and where.
WriteFits(t) ==
    /\ t.op = "create" => /\ t.stamp \in Stamps /\ t.stamp.mtime <= mtime[t.id]
                          /\ t.stamp.mtime = mtime[t.id] => files[t.id] = None
    /\ t.op = "stop" => /\ t.base \in Entries /\ IsRunning(t.base) /\ ~IsRunning(t.draft)
                        /\ t.draft = [t.base EXCEPT !.end = t.draft.end]
    /\ t.op = "patch" => t.base \in Entries /\ t.draft = Patched(t.base, t.patch)

\* What is in hand at each step.
DataFits(t) ==
    /\ t.at \in {"read", "readstat", "write", "stat", "index", "unlink", "drop"} => t.id \in Ids
    /\ t.at \in {"probe", "write"} => t.draft \in Entries /\ Upright(t.draft)
    /\ t.at \in {"stat", "index"} => t.draft \in Entries
    /\ t.at = "readstat" => t.base # None
    /\ t.op = "patch" => t.patch \in Patches
    /\ t.at = "index" => t.stamp \in Stamps /\ t.stamp.mtime <= mtime[t.id]
    /\ t.at = "compare" => DOMAIN t.walk \subseteq Ids
    /\ t.at = "write" => WriteFits(t)

Fits(a, t) == t \in Tasks /\ OpFits(a, t) /\ DataFits(t)
TasksFit == task \in [Actors -> Tasks] /\ \A a \in Actors : Fits(a, task[a])

\* When an actor may be at something.
Permitted(a) == IF a = Starter THEN phase = "starting"
                ELSE IF a = Watcher THEN Watching ELSE Serving
PhasesFit == /\ \A a \in Actors : task[a].at # "rest" => Permitted(a)
             /\ ~Watching => dirty = {}

Typed == TypeOK /\ phase \in Phases

\* A row is not ahead of its file, and says what the file says when a scan trusts it.
Behind(i) == rows[i] # None => rows[i].stamp.mtime <= mtime[i]
Vouches(i) == i \notin late /\ Trusts(rows[i], i) => Says(rows[i], files[i])
RowsFit == \A i \in Ids : Behind(i) /\ Vouches(i)

\* What the watcher and the starting scan have in hand is what is there, but for e:
\* what has been told of, or is late.
SightFits(t, e) ==
    /\ t.todo \cap t.gone = {}
    /\ t.at # "next" => t.id \notin t.gone
    /\ \A i \in t.gone \ e : files[i] = None
    /\ t.at = "compare" => \A i \in Ids \ (e \cup DOMAIN t.walk) : files[i] = None
    /\ t.id \notin e =>
         /\ t.at = "readstat" => t.base = files[t.id]
         /\ t.at = "index" => t.draft = files[t.id]
         /\ t.at = "drop" => ~IsEntry(files[t.id])
Excused(a) == IF a = Starter THEN late ELSE dirty
SightsFit == \A a \in {Watcher, Starter} : SightFits(task[a], Excused(a))

\* t puts i's row right, or has it among the late.
WillLook(t, i) == IF i \in DOMAIN t.walk THEN rows[i] = None \/ rows[i].stamp # t.walk[i]
                                         ELSE rows[i] # None
Covers(t, i) ==
    \/ t.at = "walk"
    \/ t.at = "compare" /\ WillLook(t, i)
    \/ i \in t.todo \cup t.gone
    \/ t.at = "readstat" /\ t.op \in Readers /\ t.id = i
    \/ t.at = "stat" /\ t.id = i /\ files[i] # None
    \/ t.at \in {"index", "drop"} /\ t.id = i
AllCovered == \A i \in Ids \ late :
    Says(rows[i], files[i]) \/ phase = "down" \/ i \in dirty \/ \E a \in Actors : Covers(task[a], i)

IInv == Typed /\ NeverInverted /\ TasksFit /\ PhasesFit /\ RowsFit /\ SightsFit /\ AllCovered

-----------------------------------------------------------------------------
(* What an id, a request and a row come to.                                *)

\* The second a start is in is one of those there are, and so is what it spells.
LEMMA MintIsId ==
    ASSUME NEW start \in Instants, NEW nudge \in Nat
    PROVE  Mint(start, nudge) \in Ids
<1> DEFINE P == PerSecond
           q == start \div P
           k == (MaxInstant + 1) \div P
           r == ((start % P) + nudge) % P
<1>1. P \in Nat /\ P > 0 /\ MaxInstant \in Nat /\ start \in Nat /\ start <= MaxInstant
  BY TimesNumbers DEF Instants
<1>2. q \in Nat /\ q * P <= start /\ start % P \in Nat
  BY <1>1
<1>3. k \in Nat /\ MaxInstant + 1 = k * P
  BY <1>1, TimesNumbers
<1>4. r \in 0..(P - 1)
  BY <1>1, <1>2
<1>5. q + 1 <= k
  <2>1. SUFFICES ASSUME k <= q PROVE FALSE
    BY <1>2, <1>3
  <2>2. k * P <= q * P
    BY <1>1, <1>2, <1>3, <2>1
  <2> QED BY <1>1, <1>2, <1>3, <2>2
<1>6. (q + 1) * P <= k * P
  BY <1>1, <1>2, <1>3, <1>5
<1>7. (q + 1) * P = q * P + P
  BY <1>1, <1>2
<1>8. q * P \in Nat
  BY <1>1, <1>2
<1>9. q * P + r \in 0..MaxInstant
  <2> DEFINE a == q * P
             b == (q + 1) * P
             d == k * P
  <2>1. a \in Nat /\ b = a + P /\ b <= d /\ d = MaxInstant + 1
    BY <1>3, <1>6, <1>7, <1>8
  <2> HIDE DEF a, b, d, q, k, r, P
  <2>2. a + r \in 0..MaxInstant
    BY <1>1, <1>4, <2>1
  <2> QED BY <2>2 DEF a
<1> QED BY <1>9 DEF Mint, Ids, Instants

\* What is there and can be read is an entry.
LEMMA EntriesAreThere == ASSUME NEW file \in Bodies PROVE IsEntry(file) <=> file \in Entries
BY TimesNone DEF Bodies, IsEntry

LEMMA StampsAre ==
    ASSUME TypeOK, NEW i \in Ids
    PROVE  /\ Stamp(i) \in Stamps /\ Stamp(i).mtime = mtime[i]
           /\ mtime[i] \in Nat /\ files[i] \in Bodies
           /\ \A file \in Bodies : Size(file) \in Nat
<1>1. \A file \in Bodies : Size(file) \in Nat
  BY TimesLengths DEF Size, Bodies
<1> QED BY <1>1 DEF TypeOK, Stamp, Stamps

\* A row says of its file what it was entered from.
LEMMA RowSays ==
    ASSUME NEW file \in Entries, NEW s \in Stamps, NEW old
    PROVE  /\ RowOf(file, s, old) \in Rows /\ RowOf(file, s, old) # None
           /\ RowOf(file, s, old).stamp = s /\ Says(RowOf(file, s, old), file)
<1> DEFINE row == RowOf(file, s, old)
<1>1. row \in Rows /\ row.stamp = s
  BY DEF RowOf, Rows, Entries
<1>2. row # None
  BY <1>1, TimesNone
<1>3. DOMAIN row \ {"stamp"} = {"name", "start", "end", "pages", "note"}
  BY DEF RowOf
<1>4. [f \in {"name", "start", "end", "pages", "note"} |-> row[f]] = file
  BY DEF RowOf, Entries
<1>5. file \in Bodies
  BY DEF Bodies
<1> QED BY <1>1, <1>2, <1>3, <1>4, <1>5, EntriesAreThere DEF Says

LEMMA EnteredRow ==
    ASSUME NEW i, NEW file \in Bodies, NEW s, file # None => s \in Stamps
    PROVE  /\ EntryRow(i, file, s) \in Rows \cup {None} /\ Says(EntryRow(i, file, s), file)
           /\ EntryRow(i, file, s) # None => EntryRow(i, file, s).stamp = s /\ file \in Entries
<1>1. CASE file \in Entries
  <2>1. file # None /\ EntryRow(i, file, s) = RowOf(file, s, rows[i])
    BY <1>1, EntriesAreThere, TimesNone DEF EntryRow
  <2> QED BY <1>1, <2>1, RowSays
<1>2. CASE file \notin Entries
  BY <1>2, EntriesAreThere DEF EntryRow, Says
<1> QED BY <1>1, <1>2

-----------------------------------------------------------------------------
(* What lasts while other things change.                                   *)

LEMMA ActorsApart == /\ Watcher \notin Clients /\ Starter \notin Clients /\ Watcher # Starter
                     /\ Watcher \in Actors /\ Starter \in Actors /\ Clients \subseteq Actors
BY TimesActors DEF Watcher, Starter, Actors

LEMMA NoneIsNoId == None \notin Ids
BY TimesNone DEF Ids

\* An actor that does nothing.
LEMMA RestFits ==
    /\ Rest \in Tasks /\ Rest.at = "rest" /\ Rest.op = "none"
    /\ \A a \in Actors : Fits(a, Rest)
    /\ \A e : SightFits(Rest, e)
    /\ \A i \in Ids : ~Covers(Rest, i)
<1>1. <<>> \in Walks /\ None \in Bodies
  BY DEF Walks, Bodies
<1>2. Rest \in Tasks /\ Rest.at = "rest" /\ Rest.op = "none"
  BY <1>1 DEF Rest, Tasks, Places
<1>3. ASSUME NEW a \in Actors PROVE OpFits(a, Rest) /\ DataFits(Rest)
  BY DEF Rest, OpFits, DataFits, OpsOf, Readers
<1>4. \A e : SightFits(Rest, e)
  BY DEF Rest, SightFits
<1>5. \A i \in Ids : ~Covers(Rest, i)
  BY DEF Rest, Covers
<1> QED BY <1>2, <1>3, <1>4, <1>5 DEF Fits

\* No file is younger than it was, and one that is not older is as it was.
Ages == \A i \in Ids : /\ mtime[i] \in Nat /\ mtime'[i] \in Nat /\ mtime[i] <= mtime'[i]
                       /\ mtime'[i] = mtime[i] => files'[i] = files[i]

LEMMA FitsLasts == ASSUME NEW a, NEW t, Fits(a, t), Ages PROVE Fits(a, t)'
<1>1. ASSUME t.at = "index" PROVE t.stamp.mtime <= mtime'[t.id]
  <2>1. t.id \in Ids /\ t.stamp.mtime \in Nat /\ t.stamp.mtime <= mtime[t.id]
    BY <1>1 DEF Fits, DataFits, Stamps
  <2> QED BY <2>1 DEF Ages
<1>2. ASSUME t.at = "write", t.op = "create"
      PROVE  t.stamp.mtime <= mtime'[t.id] /\ (t.stamp.mtime = mtime'[t.id] => files'[t.id] = None)
  <2>1. /\ t.id \in Ids /\ t.stamp.mtime \in Nat /\ t.stamp.mtime <= mtime[t.id]
        /\ t.stamp.mtime = mtime[t.id] => files[t.id] = None
    BY <1>2 DEF Fits, DataFits, WriteFits, Stamps
  <2> QED BY <2>1 DEF Ages
<1>3. DataFits(t)'
  BY <1>1, <1>2 DEF Fits, DataFits, WriteFits
<1> QED BY <1>3 DEF Fits, OpFits

LEMMA SightLasts ==
    ASSUME NEW a, NEW t, Fits(a, t), NEW e, NEW f, SightFits(t, e), e \subseteq f,
           \A i \in Ids \ f : files'[i] = files[i]
    PROVE  SightFits(t, f)'
<1>1. t.gone \subseteq Ids /\ (t.at \in {"readstat", "index", "drop"} => t.id \in Ids)
  BY DEF Fits, Tasks, DataFits
<1>2. t.id \notin f => /\ t.at = "readstat" => t.base = files'[t.id]
                       /\ t.at = "index" => t.draft = files'[t.id]
                       /\ t.at = "drop" => ~IsEntry(files'[t.id])
  BY <1>1 DEF SightFits
<1> QED BY <1>1, <1>2 DEF SightFits, IsEntry

LEMMA CoverLasts ==
    ASSUME NEW t, NEW i, Covers(t, i), files'[i] = files[i], rows'[i] = rows[i]
    PROVE  Covers(t, i)'
BY DEF Covers, WillLook

LEMMA TrustLasts ==
    ASSUME NEW row, NEW i, files'[i] = files[i], mtime'[i] = mtime[i]
    PROVE  Trusts(row, i)' <=> Trusts(row, i)
BY DEF Trusts, Stamp, Size

LEMMA InHand ==
    ASSUME IInv, NEW a \in Actors
    PROVE  /\ Fits(a, task[a]) /\ task[a] \in Tasks
           /\ task[a].at # "rest" => Permitted(a)
           /\ a \in {Watcher, Starter} => SightFits(task[a], Excused(a))
BY DEF IInv, TasksFit, PhasesFit, SightsFit, Fits

-----------------------------------------------------------------------------
(* Steps that change what one actor has in hand, and no file nor row.      *)

LEMMA TaskMoves ==
    ASSUME IInv, NEW a \in Actors, NEW t, Fits(a, t), Go(a, t),
           UNCHANGED <<files, mtime, rows>>,
           late \subseteq late', late' \subseteq Ids,
           dirty' \subseteq Ids, dirty \subseteq dirty' \/ a = Watcher,
           phase' \in Phases, ~Watching' => dirty' = {},
           t.at # "rest" => Permitted(a)',
           \A b \in Actors \ {a} : task[b].at # "rest" => Permitted(b)',
           a \in {Watcher, Starter} => SightFits(t, IF a = Starter THEN late' ELSE dirty'),
           \A i \in Ids \ late' :
               (Covers(task[a], i) \/ phase = "down" \/ i \in dirty \ dirty')
                   => (Says(rows[i], files[i]) \/ phase' = "down" \/ i \in dirty' \/ Covers(t, i))
    PROVE  IInv'
<1>1. /\ task'[a] = t /\ task' \in [Actors -> Tasks]
      /\ \A b \in Actors \ {a} : task'[b] = task[b]
  BY DEF IInv, TasksFit, Go, Fits
<1>2. Typed' /\ NeverInverted'
  BY DEF IInv, Typed, TypeOK, NeverInverted
<1>3. Ages
  BY DEF IInv, Typed, TypeOK, Ages
<1>4. ASSUME NEW b \in Actors
      PROVE  Fits(b, task[b])' /\ (task'[b].at # "rest" => Permitted(b)')
  <2>1. PICK u : u = task'[b]
    OBVIOUS
  <2>2. Fits(b, u)
    BY <1>1, <2>1, InHand
  <2>3. Fits(b, u)'
    BY <1>3, <2>2, FitsLasts
  <2> QED BY <1>1, <2>1, <2>3
<1>5. TasksFit' /\ PhasesFit'
  BY <1>1, <1>4 DEF TasksFit, PhasesFit
<1>6. RowsFit'
  <2> SUFFICES ASSUME NEW i \in Ids PROVE Behind(i)' /\ Vouches(i)'
    BY DEF RowsFit
  <2>1. Behind(i) /\ Vouches(i)
    BY DEF IInv, RowsFit
  <2>2. PICK row : row = rows[i]
    OBVIOUS
  <2>3. Trusts(row, i)' <=> Trusts(row, i)
    BY TrustLasts
  <2> QED BY <2>1, <2>2, <2>3 DEF Behind, Vouches
<1>7. ASSUME NEW b \in {Watcher, Starter} PROVE SightFits(task[b], Excused(b))'
  <2>1. PICK u : u = task'[b]
    OBVIOUS
  <2>2. PICK e : e = IF b = a THEN Excused(b)' ELSE Excused(b)
    OBVIOUS
  <2>3. PICK f : f = Excused(b)'
    OBVIOUS
  <2>4. b \in Actors
    BY ActorsApart
  <2>5. SightFits(u, e)
    BY <1>1, <2>1, <2>2, <2>4, InHand DEF Excused
  <2>6. e \subseteq f
    BY <2>2, <2>3, ActorsApart DEF Excused
  <2>7. Fits(b, u)
    BY <1>1, <2>1, <2>4, InHand
  <2>8. SightFits(u, f)'
    BY <2>5, <2>6, <2>7, SightLasts
  <2> QED BY <2>1, <2>3, <2>8
<1>8. AllCovered'
  <2> SUFFICES ASSUME NEW i \in Ids \ late'
               PROVE  (Says(rows[i], files[i]) \/ phase = "down" \/ i \in dirty)' \/ \E b \in Actors : Covers(task[b], i)'
    BY DEF AllCovered
  <2>1. CASE Covers(t, i)
    BY <1>1, <2>1, CoverLasts
  <2>2. ASSUME NEW b \in Actors, b # a, Covers(task[b], i)
        PROVE  Covers(task[b], i)'
    <3>1. PICK u : u = task[b]
      OBVIOUS
    <3> QED BY <1>1, <2>2, <3>1, CoverLasts
  <2>3. Says(rows[i], files[i]) \/ phase = "down" \/ i \in dirty \/ \E b \in Actors : Covers(task[b], i)
    BY DEF IInv, AllCovered
  <2> QED BY <2>1, <2>2, <2>3
<1> QED BY <1>2, <1>5, <1>6, <1>7, <1>8 DEF IInv, SightsFit

\* Where no phase, event nor late entry is at stake.
Stands == UNCHANGED <<files, mtime, rows, phase, dirty, late>>

LEMMA HandMoves ==
    ASSUME IInv, NEW a \in Actors, NEW t, Fits(a, t), Go(a, t), Stands,
           t.at # "rest" => Permitted(a),
           a \in {Watcher, Starter} => SightFits(t, Excused(a)),
           \A i \in Ids \ late : Covers(task[a], i) => Says(rows[i], files[i]) \/ Covers(t, i)
    PROVE  IInv'
<1>1. late' \subseteq Ids /\ dirty' \subseteq Ids /\ phase' \in Phases
  BY DEF IInv, Typed, TypeOK, Stands
<1>2. Watching' = Watching /\ \A b : Permitted(b)' = Permitted(b)
  BY DEF Watching, Permitted, Serving, Stands
<1>3. ~Watching' => dirty' = {}
  BY <1>2 DEF IInv, PhasesFit, Stands
<1>4. \A b \in Actors \ {a} : task[b].at # "rest" => Permitted(b)'
  BY <1>2 DEF IInv, PhasesFit
<1>5. a \in {Watcher, Starter} => SightFits(t, IF a = Starter THEN late' ELSE dirty')
  BY DEF Excused, Stands
<1> QED BY <1>1, <1>2, <1>3, <1>4, <1>5, TaskMoves DEF Stands

\* An actor that has nobody's row before it answers.
LEMMA AnswersKeep ==
    ASSUME IInv, NEW a \in Actors, Answer(a), Stands, \A i \in Ids \ late : ~Covers(task[a], i)
    PROVE  IInv'
BY RestFits, HandMoves DEF Answer

\* So does a request, whose own steps nobody relies on, or goes on.
LEMMA RequestMoves ==
    ASSUME IInv, NEW c \in Clients, NEW t, Fits(c, t), Go(c, t), Stands, Serving,
           task[c].op \notin Readers, task[c].at \notin {"stat", "index", "drop"}
    PROVE  IInv'
<1>1. c \in Actors /\ c \notin {Watcher, Starter} /\ Permitted(c)
  BY ActorsApart DEF Permitted
<1>2. Fits(c, task[c])
  BY <1>1, InHand
<1>3. \A i \in Ids : ~Covers(task[c], i)
  BY <1>2 DEF Fits, OpFits, Covers, Readers
<1> QED BY <1>1, <1>3, HandMoves

-----------------------------------------------------------------------------
(* Requests that only go on.                                               *)

LEMMA AskKeeps == ASSUME IInv, NEW c \in Clients, Ask(c) PROVE IInv'
<1>1. Stands /\ Serving /\ c \in Actors /\ task[c] = Rest
  <2>1. c \in Actors /\ task[c].at = "rest" /\ Serving /\ Stands
    BY ActorsApart DEF Ask, Stands, At
  <2> QED BY <2>1, InHand DEF Fits, OpFits
<1>2. task[c].op \notin Readers /\ task[c].at \notin {"stat", "index", "drop"}
  BY <1>1, RestFits DEF Readers
<1>3. ASSUME NEW d \in Drafts, NEW now \in Instants, Accepts(DraftOf(d, now), d),
             Go(c, [Rest EXCEPT !.at = "probe", !.op = "create", !.draft = DraftOf(d, now)])
      PROVE  IInv'
  <2> DEFINE draft == DraftOf(d, now)
             t == [Rest EXCEPT !.at = "probe", !.op = "create", !.draft = draft]
  <2>1. d \in [name : Names \cup {NoName}, start : Instants \cup {None},
               end : Instants \cup {None}, pages : SUBSET Pages, note : Notes \cup {NoNote}]
    BY TimesRequests
  <2>2. draft \in Entries /\ Upright(draft)
    BY <1>3, <2>1 DEF DraftOf, Accepts, InRange, Entries, Upright
  <2> HIDE DEF draft
  <2>3. t \in Tasks
    BY <2>2, RestFits DEF Tasks, Places
  <2>4. OpFits(c, t) /\ DataFits(t)
    BY <1>1, <2>2, ActorsApart DEF OpFits, DataFits, OpsOf, Readers, Rest
  <2>5. Go(c, t)
    BY <1>3 DEF draft
  <2> HIDE DEF t
  <2> QED BY <1>1, <1>2, <2>3, <2>4, <2>5, RequestMoves DEF Fits
<1>4. ASSUME NEW i \in Ids, NEW p \in Patches,
             Go(c, [Rest EXCEPT !.at = "read", !.op = "patch", !.id = i, !.patch = p])
      PROVE  IInv'
  <2> DEFINE t == [Rest EXCEPT !.at = "read", !.op = "patch", !.id = i, !.patch = p]
  <2>1. t \in Tasks
    BY RestFits DEF Tasks, Places
  <2>2. OpFits(c, t) /\ DataFits(t)
    BY ActorsApart DEF OpFits, DataFits, OpsOf, Readers, Rest
  <2> HIDE DEF t
  <2> QED BY <1>1, <1>2, <1>4, <2>1, <2>2, RequestMoves DEF Fits, t
<1>5. ASSUME NEW i \in Ids, NEW op \in {"stop", "delete"},
             Go(c, [Rest EXCEPT !.at = IF op = "stop" THEN "read" ELSE "unlink",
                                !.op = op, !.id = i])
      PROVE  IInv'
  <2> DEFINE t == [Rest EXCEPT !.at = IF op = "stop" THEN "read" ELSE "unlink", !.op = op, !.id = i]
  <2>1. t \in Tasks
    BY RestFits DEF Tasks, Places
  <2>2. OpFits(c, t) /\ DataFits(t)
    BY ActorsApart DEF OpFits, DataFits, OpsOf, Readers, Rest
  <2> HIDE DEF t
  <2> QED BY <1>1, <1>2, <1>5, <2>1, <2>2, RequestMoves DEF Fits, t
<1>6. CASE Answer(c)
  BY <1>1, <1>2, <1>6, RestFits, RequestMoves DEF Answer
<1>7. \/ Answer(c)
      \/ \E d \in Drafts, now \in Instants :
           /\ Accepts(DraftOf(d, now), d)
           /\ Go(c, [Rest EXCEPT !.at = "probe", !.op = "create", !.draft = DraftOf(d, now)])
      \/ \E i \in Ids, p \in Patches :
           Go(c, [Rest EXCEPT !.at = "read", !.op = "patch", !.id = i, !.patch = p])
      \/ \E i \in Ids, op \in {"stop", "delete"} :
           Go(c, [Rest EXCEPT !.at = IF op = "stop" THEN "read" ELSE "unlink",
                              !.op = op, !.id = i])
  BY DEF Ask
<1> QED BY <1>3, <1>4, <1>5, <1>6, <1>7

LEMMA AskReindexKeeps == ASSUME IInv, NEW c \in Clients, AskReindex(c) PROVE IInv'
<1> DEFINE t == [Rest EXCEPT !.at = "clear", !.op = "reindex"]
<1>1. Stands /\ Serving /\ c \in Actors /\ task[c].at = "rest"
  BY ActorsApart DEF AskReindex, Stands, At
<1>2. task[c] = Rest
  BY <1>1, InHand DEF Fits, OpFits
<1>3. t \in Tasks
  BY RestFits DEF Tasks, Places, Readers
<1>4. OpFits(c, t) /\ DataFits(t)
  BY ActorsApart DEF OpFits, DataFits, OpsOf, Readers, Rest
<1>5. Go(c, t)
  BY DEF AskReindex
<1>6. task[c].op \notin Readers /\ task[c].at \notin {"stat", "index", "drop"}
  BY <1>2, RestFits DEF Readers
<1> HIDE DEF t
<1> QED BY <1>1, <1>3, <1>4, <1>5, <1>6, RequestMoves DEF Fits

\* A request at a step of its own.
LEMMA Requested ==
    ASSUME IInv, NEW c \in Clients, task[c].at # "rest"
    PROVE  /\ c \in Actors /\ c \notin {Watcher, Starter} /\ Serving /\ phase # "starting"
           /\ Fits(c, task[c]) /\ task[c] \in Tasks
<1>1. c \in Actors /\ c \notin {Watcher, Starter}
  BY ActorsApart
<1> QED BY <1>1, InHand DEF Permitted, Serving

LEMMA ProbeKeeps == ASSUME IInv, NEW c \in Clients, Probe(c) PROVE IInv'
<1> DEFINE t == task[c]
           i == Mint(t.draft.start, t.nudge)
           found == [t EXCEPT !.at = "write", !.id = i, !.stamp = Stamp(i)]
           on == [t EXCEPT !.nudge = t.nudge + 1]
<1>1. /\ Stands /\ t.at = "probe" /\ Serving /\ t \in Tasks /\ OpFits(c, t) /\ DataFits(t)
      /\ t.op = "create" /\ t.nudge \in Nat
  BY Requested DEF Probe, Stands, At, Fits, OpFits, Tasks
<1>2. i \in Ids
  BY <1>1, MintIsId DEF DataFits, Entries
<1> HIDE DEF i
<1>3. Stamp(i) \in Stamps /\ Stamp(i).mtime = mtime[i] /\ mtime[i] \in Nat
  BY <1>2, StampsAre DEF IInv, Typed
<1>4. Fits(c, on)
  <2>1. on \in Tasks
    BY <1>1 DEF Tasks
  <2> QED BY <1>1, <2>1 DEF Tasks, Fits, OpFits, DataFits
<1>5. ASSUME files[i] = None PROVE Fits(c, found)
  <2>1. /\ found \in Tasks /\ found.at = "write" /\ found.op = "create" /\ found.id = i
        /\ found.stamp = Stamp(i) /\ found.draft = t.draft /\ found.todo = t.todo /\ found.gone = t.gone
    BY <1>1, <1>2, <1>3 DEF Tasks, Places
  <2> HIDE DEF found
  <2>2. DataFits(found)
    BY <1>1, <1>2, <1>3, <1>5, <2>1 DEF DataFits, WriteFits
  <2>3. OpFits(c, found)
    BY <1>1, <2>1 DEF OpFits, Readers
  <2> QED BY <2>1, <2>2, <2>3 DEF Fits
<1>6. Answer(c) \/ (files[i] = None /\ Go(c, found)) \/ Go(c, on)
  BY DEF Probe, i
<1>7. Fits(c, Rest) /\ t.op \notin Readers
  BY <1>1, Requested, RestFits DEF Readers
<1> HIDE DEF found, on
<1> QED BY <1>1, <1>4, <1>5, <1>6, <1>7, RequestMoves DEF Answer

LEMMA ReadKeeps == ASSUME IInv, NEW c \in Clients, Read(c) PROVE IInv'
<1> DEFINE t == task[c]
           next == [t EXCEPT !.at = "readstat", !.base = files[t.id]]
<1>1. /\ Stands /\ t.at = "read" /\ Serving /\ t \in Tasks /\ OpFits(c, t) /\ DataFits(t)
      /\ t.op \in {"stop", "patch"} /\ t.id \in Ids /\ Fits(c, Rest)
  BY Requested, RestFits DEF Read, Stands, At, Fits, OpFits, DataFits
<1>2. files[t.id] \in Bodies
  BY <1>1 DEF IInv, Typed, TypeOK
<1>3. ASSUME files[t.id] # None PROVE Fits(c, next)
  <2>1. /\ next \in Tasks /\ next.at = "readstat" /\ next.op = t.op /\ next.id = t.id
        /\ next.base = files[t.id] /\ next.patch = t.patch /\ next.todo = t.todo /\ next.gone = t.gone
    BY <1>1, <1>2 DEF Tasks, Places
  <2> HIDE DEF next
  <2>2. OpFits(c, next)
    BY <1>1, <2>1 DEF OpFits, Readers
  <2>3. DataFits(next)
    BY <1>1, <1>3, <2>1 DEF DataFits
  <2> QED BY <2>1, <2>2, <2>3 DEF Fits
<1>4. Answer(c) \/ (files[t.id] # None /\ Go(c, next))
  BY DEF Read
<1>5. t.op \notin Readers
  BY <1>1 DEF Readers
<1> HIDE DEF next
<1> QED BY <1>1, <1>3, <1>4, <1>5, RequestMoves DEF Answer

\* What comes of patching an entry.
LEMMA PatchedIsEntry ==
    ASSUME NEW entry \in Entries, NEW p \in Patches, Accepts(Patched(entry, p), p)
    PROVE  Patched(entry, p) \in Entries /\ Upright(Patched(entry, p))
<1>1. p \in [name : Names \cup {NoName, None}, start : Instants \cup {None},
             end : Instants \cup {None, Clear},
             pages : (SUBSET Pages) \cup {None}, note : Notes \cup {NoNote, None}]
  BY TimesRequests
<1>2. /\ Or(p.name, entry.name) \in Names \cup {NoName}
      /\ Or(p.start, entry.start) \in Instants
      /\ (IF p.end = Clear THEN None ELSE Or(p.end, entry.end)) \in Instants \cup {None}
      /\ Or(p.pages, entry.pages) \in SUBSET Pages /\ Or(p.note, entry.note) \in Notes \cup {NoNote}
  BY <1>1 DEF Or, Entries
<1>3. Patched(entry, p).name # NoName
  BY DEF Accepts
<1>4. Patched(entry, p) \in Entries
  BY <1>2, <1>3 DEF Patched, Entries
<1> QED BY <1>4 DEF Accepts, InRange, Upright

\* What comes of stopping a timer, whatever the clock says.
LEMMA StoppedIsEntry ==
    ASSUME NEW entry \in Entries, NEW now \in Instants
    PROVE  /\ Stopped(entry, now) \in Entries /\ Upright(Stopped(entry, now))
           /\ ~IsRunning(Stopped(entry, now))
           /\ Stopped(entry, now) = [entry EXCEPT !.end = Stopped(entry, now).end]
<1> DEFINE e == IF now > entry.start THEN now ELSE entry.start
<1>1. e \in Instants /\ e # None /\ entry.start <= e
  BY TimesNone DEF Entries, Instants
<1>2. Stopped(entry, now) = [entry EXCEPT !.end = e]
  BY DEF Stopped
<1> HIDE DEF e
<1>3. [entry EXCEPT !.end = e].end = e /\ [entry EXCEPT !.end = e].start = entry.start
      /\ [entry EXCEPT !.end = e] \in Entries
  BY <1>1 DEF Entries
<1> QED BY <1>1, <1>2, <1>3 DEF Upright, IsRunning

LEMMA DrawKeeps == ASSUME IInv, NEW c \in Clients, Draw(c) PROVE IInv'
<1> DEFINE t == task[c]
           next(draft) == [t EXCEPT !.at = "write", !.draft = draft]
<1>1. /\ Stands /\ t.at = "readstat" /\ Serving /\ t \in Tasks /\ OpFits(c, t) /\ DataFits(t)
      /\ t.op \in {"stop", "patch"} /\ t.op \notin Readers /\ t.id \in Ids /\ Fits(c, Rest)
  <2>1. /\ Stands /\ t.at = "readstat" /\ t.op \notin Readers
    BY DEF Draw, Stands, At, Reading, Scanning, Readers
  <2> QED BY <2>1, Requested, RestFits DEF Fits, OpFits, DataFits
<1>2. ASSUME NEW draft \in Entries, Upright(draft), t.base \in Entries,
             t.op = "patch" => draft = Patched(t.base, t.patch),
             t.op = "stop" => /\ IsRunning(t.base) /\ ~IsRunning(draft)
                              /\ draft = [t.base EXCEPT !.end = draft.end],
             Go(c, next(draft))
      PROVE  IInv'
  <2>1. PICK u : u = next(draft)
    OBVIOUS
  <2>2. /\ u \in Tasks /\ u.at = "write" /\ u.op = t.op /\ u.id = t.id /\ u.base = t.base
        /\ u.draft = draft /\ u.patch = t.patch /\ u.todo = t.todo /\ u.gone = t.gone
    BY <1>1, <2>1 DEF Tasks, Places
  <2>3. OpFits(c, u)
    BY <1>1, <2>2 DEF OpFits, Readers
  <2>4. WriteFits(u)
    BY <1>1, <1>2, <2>2 DEF WriteFits
  <2>5. DataFits(u)
    BY <1>1, <1>2, <2>2, <2>4 DEF DataFits
  <2>6. Go(c, u)
    BY <1>2, <2>1
  <2> QED BY <1>1, <2>2, <2>3, <2>5, <2>6, RequestMoves DEF Fits
<1>3. CASE Answer(c)
  BY <1>1, <1>3, RequestMoves DEF Answer
<1>4. CASE ~Answer(c)
  <2>1. PICK now \in Instants :
          LET draft == IF t.op = "patch" THEN Patched(t.base, t.patch) ELSE Stopped(t.base, now)
              goesOn == IF t.op = "patch" THEN Accepts(draft, t.patch) ELSE IsRunning(t.base)
          IN IsEntry(t.base) /\ goesOn /\ Go(c, next(draft))
    BY <1>4 DEF Draw
  <2>2. t.base \in Entries
    <3>1. t.base \in Bodies
      BY <1>1 DEF Tasks
    <3> QED BY <2>1, <3>1, EntriesAreThere
  <2>3. CASE t.op = "patch"
    <3>1. Accepts(Patched(t.base, t.patch), t.patch) /\ Go(c, next(Patched(t.base, t.patch)))
      BY <2>1, <2>3
    <3>2. Patched(t.base, t.patch) \in Entries /\ Upright(Patched(t.base, t.patch))
      BY <1>1, <2>2, <2>3, <3>1, PatchedIsEntry DEF DataFits
    <3> HIDE DEF next
    <3> QED BY <1>2, <2>2, <2>3, <3>1, <3>2
  <2>4. CASE t.op = "stop"
    <3>1. IsRunning(t.base) /\ Go(c, next(Stopped(t.base, now)))
      BY <2>1, <2>4
    <3> HIDE DEF next
    <3> QED BY <1>2, <2>2, <2>4, <3>1, StoppedIsEntry
  <2> QED BY <1>1, <2>3, <2>4
<1> QED BY <1>3, <1>4

\* The stamp of what is there, which no file is behind.
LEMMA StatKeeps == ASSUME IInv, NEW c \in Clients, Stat(c) PROVE IInv'
<1> DEFINE t == task[c]
           next == [t EXCEPT !.at = "index", !.stamp = Stamp(t.id)]
<1>1. /\ Stands /\ t.at = "stat" /\ Serving /\ t \in Tasks /\ Fits(c, t) /\ t.op = "none"
      /\ t.todo = {} /\ t.gone = {} /\ t.id \in Ids /\ t.draft \in Entries
      /\ c \in Actors /\ c \notin {Watcher, Starter}
  BY Requested DEF Stat, Stands, At, Fits, OpFits, DataFits, Readers
<1>2. Stamp(t.id) \in Stamps /\ Stamp(t.id).mtime = mtime[t.id] /\ mtime[t.id] \in Nat
  BY <1>1, StampsAre DEF IInv, Typed
<1>3. /\ next \in Tasks /\ next.at = "index" /\ next.op = "none" /\ next.id = t.id
      /\ next.draft = t.draft /\ next.stamp = Stamp(t.id) /\ next.todo = {} /\ next.gone = {}
  BY <1>1, <1>2 DEF Tasks, Places
<1> HIDE DEF next
<1>4. Fits(c, next)
  <2>1. OpFits(c, next)
    BY <1>1, <1>3 DEF Fits, OpFits, Readers
  <2>2. DataFits(next)
    BY <1>1, <1>2, <1>3 DEF DataFits
  <2> QED BY <1>3, <2>1, <2>2 DEF Fits
<1>5. Permitted(c)
  BY <1>1 DEF Permitted
<1>6. CASE files[t.id] = None
  <2>1. Answer(c) /\ \A i \in Ids : ~Covers(t, i)
    BY <1>1, <1>6 DEF Stat, Covers
  <2> QED BY <1>1, <2>1, AnswersKeep
<1>7. CASE files[t.id] # None
  <2>1. Go(c, next)
    BY <1>7 DEF Stat, next
  <2>2. \A i \in Ids : Covers(t, i) => Covers(next, i)
    BY <1>1, <1>3 DEF Covers
  <2> QED BY <1>1, <1>4, <1>5, <2>1, <2>2, HandMoves
<1> QED BY <1>6, <1>7

-----------------------------------------------------------------------------
(* Bringing the rows in line, but for the rows.                            *)

\* Somebody at an entry of a batch or a scan goes on with it.
LEMMA GoOn ==
    ASSUME IInv, NEW a \in Actors, task[a].at # "rest", NEW t, Fits(a, t), Go(a, t), Stands,
           a \in {Watcher, Starter} => SightFits(t, Excused(a)),
           \A i \in Ids \ late : Covers(task[a], i) => Says(rows[i], files[i]) \/ Covers(t, i)
    PROVE  IInv'
BY InHand, HandMoves

LEMMA WalkKeeps == ASSUME IInv, NEW a \in Actors, Walk(a) PROVE IInv'
<1> DEFINE t == task[a]
           W == [i \in {j \in Ids : files[j] # None} |-> Stamp(i)]
           u == [t EXCEPT !.at = "compare", !.walk = W]
<1>1. /\ Stands /\ t.at = "walk" /\ t \in Tasks /\ Fits(a, t) /\ Go(a, u)
      /\ t.todo = {} /\ t.gone = {} /\ t.op \in {"scan", "reindex"}
  BY InHand DEF Walk, Stands, At, Fits, OpFits
<1>2. W \in Walks /\ DOMAIN W = {j \in Ids : files[j] # None}
  <2>1. \A i \in Ids : Stamp(i) \in Stamps
    BY StampsAre DEF IInv, Typed
  <2>2. W \in [{j \in Ids : files[j] # None} -> Stamps]
    BY <2>1
  <2> QED BY <2>2 DEF Walks
<1>3. ASSUME NEW i \in Ids, files[i] # None PROVE W[i] = Stamp(i)
  BY <1>3
<1> HIDE DEF W
<1>4. /\ u \in Tasks /\ u.at = "compare" /\ u.op = t.op /\ u.id = t.id
      /\ u.walk = W /\ u.todo = {} /\ u.gone = {} /\ u.patch = t.patch
  BY <1>1, <1>2 DEF Tasks, Places
<1> HIDE DEF u
<1>5. Fits(a, u)
  <2>1. OpFits(a, u)
    BY <1>1, <1>4 DEF Fits, OpFits
  <2>2. DataFits(u)
    BY <1>1, <1>2, <1>4 DEF DataFits
  <2> QED BY <1>4, <2>1, <2>2 DEF Fits
<1>6. \A e : SightFits(u, e)
  BY <1>2, <1>4 DEF SightFits
<1>7. ASSUME NEW i \in Ids \ late PROVE Says(rows[i], files[i]) \/ Covers(u, i)
  <2>1. CASE files[i] # None
    <3>1. i \in DOMAIN u.walk /\ u.walk[i] = Stamp(i)
      BY <1>2, <1>3, <1>4, <2>1
    <3>2. Trusts(rows[i], i) => Says(rows[i], files[i])
      BY DEF IInv, RowsFit, Vouches
    <3> QED BY <1>4, <2>1, <3>1, <3>2 DEF Covers, WillLook, Trusts
  <2>2. CASE files[i] = None
    BY <1>2, <1>4, <2>2 DEF Covers, WillLook, Says, IsEntry
  <2> QED BY <2>1, <2>2
<1> QED BY <1>1, <1>5, <1>6, <1>7, GoOn

LEMMA CompareKeeps == ASSUME IInv, NEW a \in Actors, Compare(a) PROVE IInv'
<1> DEFINE t == task[a]
           indexed == {i \in Ids : rows[i] # None}
           unchanged == {i \in indexed \cap DOMAIN t.walk : rows[i].stamp = t.walk[i]}
           todo == DOMAIN t.walk \ unchanged
           gone == indexed \ DOMAIN t.walk
           u == [t EXCEPT !.at = "next", !.walk = <<>>, !.todo = todo, !.gone = gone]
<1>1. /\ Stands /\ t.at = "compare" /\ t \in Tasks /\ Fits(a, t) /\ Go(a, u)
      /\ DOMAIN t.walk \subseteq Ids /\ t.todo = {} /\ t.gone = {} /\ t.op \in {"scan", "reindex"}
      /\ (a \in {Watcher, Starter} => SightFits(t, Excused(a)))
  BY InHand DEF Compare, Stands, At, Fits, OpFits, DataFits
<1>2. todo \subseteq Ids /\ gone \subseteq Ids /\ todo \cap gone = {} /\ <<>> \in Walks
  BY <1>1 DEF Walks
<1>3. ASSUME NEW i \in Ids, WillLook(t, i) PROVE i \in todo \cup gone
  BY <1>3 DEF WillLook
<1>4. \A i \in gone : i \notin DOMAIN t.walk
  OBVIOUS
<1> HIDE DEF todo, gone
<1>5. /\ u \in Tasks /\ u.at = "next" /\ u.op = t.op /\ u.id = t.id
      /\ u.todo = todo /\ u.gone = gone /\ u.patch = t.patch
  BY <1>1, <1>2 DEF Tasks, Places
<1> HIDE DEF u
<1>6. Fits(a, u)
  <2>1. OpFits(a, u)
    BY <1>1, <1>5 DEF Fits, OpFits, Readers
  <2>2. DataFits(u)
    BY <1>1, <1>5 DEF DataFits
  <2> QED BY <1>5, <2>1, <2>2 DEF Fits
<1>7. ASSUME a \in {Watcher, Starter} PROVE SightFits(u, Excused(a))
  BY <1>1, <1>2, <1>4, <1>5, <1>7 DEF SightFits
<1>8. ASSUME NEW i \in Ids, Covers(t, i) PROVE Covers(u, i)
  <2>1. WillLook(t, i)
    BY <1>1, <1>8 DEF Covers
  <2> QED BY <1>3, <1>5, <2>1 DEF Covers
<1> QED BY <1>1, <1>6, <1>7, <1>8, GoOn

LEMMA LookKeeps == ASSUME IInv, NEW a \in Actors, Look(a) PROVE IInv'
<1> DEFINE t == task[a]
<1>1. /\ Stands /\ t.at = "next" /\ t \in Tasks /\ Fits(a, t) /\ t.op \in Readers
      /\ (a \in {Watcher, Starter} => SightFits(t, Excused(a)))
  BY InHand DEF Look, Stands, At, Fits, OpFits
<1>2. PICK i \in t.todo : LET r == [t EXCEPT !.id = i, !.todo = @ \ {i}]
                          IN Go(a, IF files[i] = None THEN [r EXCEPT !.at = "drop"]
                                   ELSE [r EXCEPT !.at = "readstat", !.base = files[i]])
  BY DEF Look
<1>3. i \in Ids /\ files[i] \in Bodies
  BY <1>1, <1>2 DEF Tasks, IInv, Typed, TypeOK
<1>4. PICK u : /\ Go(a, u)
               /\ \/ files[i] = None /\ u = [[t EXCEPT !.id = i, !.todo = @ \ {i}] EXCEPT !.at = "drop"]
                  \/ files[i] # None /\ u = [[t EXCEPT !.id = i, !.todo = @ \ {i}]
                                                EXCEPT !.at = "readstat", !.base = files[i]]
  BY <1>2
<1>5. /\ u \in Tasks /\ u.op = t.op /\ u.id = i /\ u.patch = t.patch
      /\ u.todo = t.todo \ {i} /\ u.gone = t.gone
      /\ \/ files[i] = None /\ u.at = "drop"
         \/ files[i] # None /\ u.at = "readstat" /\ u.base = files[i]
  BY <1>1, <1>3, <1>4 DEF Tasks, Places
<1>6. Fits(a, u)
  <2>1. OpFits(a, u)
    BY <1>1, <1>5 DEF Fits, OpFits, Readers
  <2>2. DataFits(u)
    BY <1>1, <1>3, <1>5 DEF DataFits, Readers
  <2> QED BY <1>5, <2>1, <2>2 DEF Fits
<1>7. ASSUME a \in {Watcher, Starter} PROVE SightFits(u, Excused(a))
  BY <1>1, <1>2, <1>5, <1>7 DEF SightFits, IsEntry
<1>8. ASSUME NEW j \in Ids, Covers(t, j) PROVE Covers(u, j)
  BY <1>1, <1>5, <1>8 DEF Covers
<1> QED BY <1>1, <1>4, <1>6, <1>7, <1>8, GoOn

LEMMA LookAgainKeeps == ASSUME IInv, NEW a \in Actors, LookAgain(a) PROVE IInv'
<1> DEFINE t == task[a]
           r == [t EXCEPT !.base = None]
           stamp == [mtime |-> mtime[t.id], size |-> Size(t.base)]
<1>1. /\ Stands /\ t.at = "readstat" /\ t \in Tasks /\ Fits(a, t) /\ t.op \in Readers
      /\ t.id \in Ids /\ t.base \in Bodies
      /\ (a \in {Watcher, Starter} => SightFits(t, Excused(a)))
  BY InHand DEF LookAgain, Stands, At, Fits, DataFits, Tasks, Reading, Scanning, Readers
<1>2. stamp \in Stamps /\ stamp.mtime = mtime[t.id] /\ mtime[t.id] \in Nat
  BY <1>1, StampsAre DEF Stamps, IInv, Typed
<1>3. IsEntry(t.base) <=> t.base \in Entries
  BY <1>1, EntriesAreThere
<1> HIDE DEF stamp
<1>4. PICK u : /\ Go(a, u)
               /\ \/ (files[t.id] = None \/ ~IsEntry(t.base)) /\ u = [r EXCEPT !.at = "drop"]
                  \/ IsEntry(t.base) /\ u = [r EXCEPT !.at = "index", !.draft = t.base, !.stamp = stamp]
  BY DEF LookAgain, stamp
<1>5. /\ u \in Tasks /\ u.op = t.op /\ u.id = t.id /\ u.patch = t.patch
      /\ u.todo = t.todo /\ u.gone = t.gone
      /\ \/ (files[t.id] = None \/ ~IsEntry(t.base)) /\ u.at = "drop"
         \/ u.at = "index" /\ u.draft = t.base /\ u.draft \in Entries /\ u.stamp = stamp
  <2>1. None \in Bodies
    BY DEF Bodies
  <2> QED BY <1>1, <1>2, <1>3, <1>4, <2>1 DEF Tasks, Places
<1>6. Fits(a, u)
  <2>1. OpFits(a, u)
    BY <1>1, <1>5 DEF Fits, OpFits, Readers
  <2>2. DataFits(u)
    BY <1>1, <1>2, <1>5 DEF DataFits, Readers
  <2> QED BY <1>5, <2>1, <2>2 DEF Fits
<1>7. ASSUME a \in {Watcher, Starter} PROVE SightFits(u, Excused(a))
  BY <1>1, <1>5, <1>7 DEF SightFits, IsEntry
<1>8. ASSUME NEW j \in Ids, Covers(t, j) PROVE Covers(u, j)
  BY <1>1, <1>5, <1>8 DEF Covers
<1> QED BY <1>1, <1>4, <1>6, <1>7, <1>8, GoOn

\* The last of a scan, and of the starting one the end of the phase.
LEMMA DoneKeeps == ASSUME IInv, NEW a \in Actors, Done(a) PROVE IInv'
<1>1. /\ UNCHANGED <<files, mtime, rows, dirty, late>> /\ Go(a, Rest)
      /\ phase' = IF a = Starter THEN "reconciled" ELSE phase
  BY DEF Done, Answer
<1>2. task[a].at = "next" /\ Permitted(a) /\ \A i \in Ids : ~Covers(task[a], i)
  BY InHand DEF Done, At, Covers
<1>3. late' \subseteq Ids /\ dirty' \subseteq Ids /\ phase' \in Phases /\ phase # "down"
  BY <1>1, <1>2 DEF IInv, Typed, TypeOK, Phases, Permitted, Watching, Serving
<1>4. ~Watching' => dirty' = {}
  BY <1>1, <1>2 DEF IInv, PhasesFit, Permitted, Watching
<1>5. \A b \in Actors \ {a} : task[b].at # "rest" => Permitted(b)'
  <2>1. CASE a = Starter
    BY <1>2, <2>1 DEF IInv, PhasesFit, Permitted, Watching, Serving
  <2>2. CASE a # Starter
    BY <1>1, <1>2, <2>2 DEF IInv, PhasesFit, Permitted, Watching, Serving
  <2> QED BY <2>1, <2>2
<1> QED BY <1>1, <1>2, <1>3, <1>4, <1>5, RestFits, TaskMoves

\* The watcher takes events, and has their entries before it.
LEMMA TakenKeeps ==
    ASSUME IInv, NEW taken \in SUBSET dirty, NEW t, TakeEvents(taken, t), Fits(Watcher, t),
           t.at \in {"next", "walk"}, t.gone = {}, t.id = None,
           t.at = "walk" \/ t.todo = taken
    PROVE  IInv'
<1>1. /\ UNCHANGED <<files, mtime, rows, phase, late>> /\ dirty' = dirty \ taken
      /\ Go(Watcher, t) /\ Watching /\ task[Watcher].at = "rest" /\ Watcher \in Actors
  BY ActorsApart DEF TakeEvents, At
<1>2. late' \subseteq Ids /\ dirty' \subseteq Ids /\ phase' \in Phases /\ phase # "down"
  BY <1>1 DEF IInv, Typed, TypeOK, Watching
<1>3. Watching' /\ \A b : Permitted(b)' = Permitted(b)
  BY <1>1 DEF Permitted, Watching, Serving
<1>4. Permitted(Watcher)' /\ \A b \in Actors \ {Watcher} : task[b].at # "rest" => Permitted(b)'
  <2>1. \A b \in Actors : task[b].at # "rest" => Permitted(b)
    BY DEF IInv, PhasesFit
  <2>2. Permitted(Watcher)
    BY <1>1, ActorsApart DEF Permitted
  <2> QED BY <1>3, <2>1, <2>2
<1>5. \A i \in Ids : ~Covers(task[Watcher], i)
  BY <1>1, InHand, RestFits DEF Fits, OpFits
<1>6. \A i \in dirty \ dirty' : Covers(t, i)
  BY <1>1 DEF Covers
<1>7. SightFits(t, dirty') /\ Watcher # Starter
  BY ActorsApart DEF SightFits
<1> QED BY <1>1, <1>2, <1>3, <1>4, <1>5, <1>6, <1>7, TaskMoves

LEMMA BatchKeeps == ASSUME IInv, Batch PROVE IInv'
<1>1. PICK taken \in SUBSET dirty :
         TakeEvents(taken, [Rest EXCEPT !.at = "next", !.op = "watch", !.todo = taken])
  BY DEF Batch
<1> DEFINE t == [Rest EXCEPT !.at = "next", !.op = "watch", !.todo = taken]
<1>2. taken \subseteq Ids
  BY <1>1 DEF IInv, Typed, TypeOK
<1>3. t \in Tasks /\ t.at = "next" /\ t.todo = taken /\ t.gone = {} /\ t.id = None
  BY <1>2, RestFits DEF Tasks, Places, Readers, Rest
<1>4. OpFits(Watcher, t) /\ DataFits(t)
  BY DEF OpFits, DataFits, OpsOf, Readers, Rest
<1> HIDE DEF t
<1> QED BY <1>1, <1>3, <1>4, TakenKeeps DEF Fits, t

LEMMA RescanKeeps == ASSUME IInv, Rescan PROVE IInv'
<1>1. PICK taken \in SUBSET dirty : TakeEvents(taken, [Rest EXCEPT !.at = "walk", !.op = "scan"])
  BY DEF Rescan
<1> DEFINE t == [Rest EXCEPT !.at = "walk", !.op = "scan"]
<1>2. t \in Tasks /\ t.at = "walk" /\ t.gone = {} /\ t.id = None
  BY RestFits DEF Tasks, Places, Readers, Rest
<1>3. OpFits(Watcher, t) /\ DataFits(t)
  BY DEF OpFits, DataFits, OpsOf, Readers, Rest
<1> HIDE DEF t
<1> QED BY <1>1, <1>2, <1>3, TakenKeeps DEF Fits, t

\* A start has every entry before it.
LEMMA StartKeeps == ASSUME IInv, Start PROVE IInv'
<1> DEFINE t == [Rest EXCEPT !.at = "walk", !.op = "scan"]
<1>1. /\ UNCHANGED <<files, mtime, rows, dirty, late>> /\ phase = "down" /\ phase' = "starting"
      /\ Go(Starter, t) /\ Starter \in Actors
  BY ActorsApart DEF Start
<1>2. t \in Tasks /\ t.at = "walk" /\ t.todo = {} /\ t.gone = {} /\ t.id = None
  BY RestFits DEF Tasks, Places, Readers, Rest
<1>3. OpFits(Starter, t) /\ DataFits(t)
  BY ActorsApart DEF OpFits, DataFits, OpsOf, Readers, Rest
<1> HIDE DEF t
<1>4. \A e : SightFits(t, e)
  BY <1>2 DEF SightFits
<1>5. \A i \in Ids : Covers(t, i)
  BY <1>2 DEF Covers
<1>6. late' \subseteq Ids /\ dirty' \subseteq Ids /\ phase' \in Phases /\ (~Watching' => dirty' = {})
  BY <1>1 DEF IInv, Typed, TypeOK, Phases, PhasesFit, Watching
<1>7. Permitted(Starter)' /\ \A b \in Actors \ {Starter} : task[b].at # "rest" => Permitted(b)'
  BY <1>1 DEF IInv, PhasesFit, Permitted, Watching, Serving
<1> QED BY <1>1, <1>2, <1>3, <1>4, <1>5, <1>6, <1>7, TaskMoves DEF Fits

LEMMA ServeKeeps == ASSUME IInv, Serve PROVE IInv'
<1>1. /\ UNCHANGED <<files, mtime, rows, dirty, task, late>> /\ phase = "reconciled"
      /\ phase' \in {"up", "blind"}
  BY DEF Serve
<1>2. \A a \in Actors : task[a].at = "rest"
  BY <1>1 DEF IInv, PhasesFit, Permitted, Watching, Serving
<1>3. task[Starter] = Rest /\ Starter \in Actors
  BY <1>2, InHand, ActorsApart DEF Fits, OpFits
<1>4. Go(Starter, Rest)
  BY <1>1, <1>3 DEF Go, IInv, TasksFit
<1>5. /\ late' \subseteq Ids /\ dirty' \subseteq Ids /\ phase' \in Phases /\ phase # "down"
      /\ ~Watching' => dirty' = {}
  BY <1>1 DEF IInv, Typed, TypeOK, Phases, PhasesFit, Watching
<1> QED BY <1>1, <1>2, <1>3, <1>4, <1>5, RestFits, TaskMoves

-----------------------------------------------------------------------------
(* Rows.                                                                   *)

\* Entering a row of what was read: a row that is not the file's is late, or
\* somebody is still on the way to it.
LEMMA EnterKeeps ==
    ASSUME IInv, NEW a \in Actors, NEW i \in Ids, NEW file \in Bodies, NEW s,
           file # None => s \in Stamps /\ s.mtime <= mtime[i],
           Enter(a, i, file, s), NEW t, Fits(a, t), Go(a, t), t.at \in {"rest", "next"},
           task[a].at # "rest", UNCHANGED <<files, mtime, phase, dirty>>,
           a \in {Watcher, Starter} => /\ i \notin Excused(a) => Says(EntryRow(i, file, s), files[i])
                                       /\ SightFits(t, Excused(a) \ {i}),
           \A j \in Ids \ {i} : Covers(task[a], j) => Covers(t, j)
    PROVE  IInv'
<1> DEFINE row == EntryRow(i, file, s)
<1>1. /\ task'[a] = t /\ task' \in [Actors -> Tasks]
      /\ \A b \in Actors \ {a} : task'[b] = task[b]
  BY DEF IInv, TasksFit, Go, Fits
<1>2. /\ row \in Rows \cup {None} /\ (row # None => row.stamp = s /\ s.mtime <= mtime[i])
  BY EnteredRow, TimesNone
<1>3. /\ rows' \in [Ids -> Rows \cup {None}] /\ rows'[i] = row
      /\ \A j \in Ids \ {i} : rows'[j] = rows[j]
  BY <1>2 DEF Enter, IInv, Typed, TypeOK
<1>4. /\ late \ {i} \subseteq late' /\ late' \subseteq late \cup {i}
      /\ Says(row, files[i]) \/ i \in late' \/ ~Trusts(row, i)
      /\ Says(row, files[i]) \/ i \in late' \/ i \in dirty \/ (a \notin Clients /\ late' = late)
  BY DEF Enter
<1> HIDE DEF row
<1>5. Typed' /\ NeverInverted'
  BY <1>3, <1>4 DEF IInv, Typed, TypeOK, NeverInverted
<1>6. Ages /\ \A b : Permitted(b)' = Permitted(b)
  BY DEF IInv, Typed, TypeOK, Ages, Permitted, Watching, Serving
<1>7. ASSUME NEW b \in Actors
      PROVE  Fits(b, task[b])' /\ (task'[b].at # "rest" => Permitted(b)')
  <2>1. PICK u : u = task'[b]
    OBVIOUS
  <2>2. Fits(b, u) /\ (u.at # "rest" => Permitted(b))
    BY <1>1, <2>1, InHand
  <2>3. Fits(b, u)'
    BY <1>6, <2>2, FitsLasts
  <2> QED BY <1>6, <2>1, <2>2, <2>3
<1>8. TasksFit' /\ PhasesFit'
  BY <1>1, <1>7 DEF TasksFit, PhasesFit, IInv, Watching
<1>9. RowsFit'
  <2> SUFFICES ASSUME NEW j \in Ids PROVE Behind(j)' /\ Vouches(j)'
    BY DEF RowsFit
  <2>1. Behind(j) /\ Vouches(j)
    BY DEF IInv, RowsFit
  <2>2. PICK r : r = rows'[j]
    OBVIOUS
  <2>3. Trusts(r, j)' <=> Trusts(r, j)
    BY TrustLasts
  <2>4. CASE j = i
    BY <1>2, <1>3, <1>4, <2>2, <2>3, <2>4 DEF Behind, Vouches
  <2>5. CASE j # i
    BY <1>3, <1>4, <2>1, <2>2, <2>3, <2>5 DEF Behind, Vouches
  <2> QED BY <2>4, <2>5
<1>10. ASSUME NEW b \in {Watcher, Starter} PROVE SightFits(task[b], Excused(b))'
  <2>1. PICK u : u = task'[b]
    OBVIOUS
  <2>2. PICK f : f = Excused(b)'
    OBVIOUS
  <2>3. b \in Actors /\ Fits(b, u)
    BY <1>1, <2>1, InHand, ActorsApart
  <2>4. CASE b = a \/ b = Watcher
    <3>1. PICK e : e = IF b = a THEN Excused(b) \ {i} ELSE Excused(b)
      OBVIOUS
    <3>2. SightFits(u, e)
      BY <1>1, <2>1, <2>3, <2>4, <3>1, InHand
    <3>3. e \subseteq f
      BY <1>4, <2>2, <2>4, <3>1, ActorsApart DEF Excused
    <3>4. SightFits(u, f)'
      BY <2>3, <3>2, <3>3, SightLasts
    <3> QED BY <2>1, <2>2, <3>4
  <2>5. CASE b = Starter /\ b # a
    <3>1. Permitted(a)
      BY InHand
    <3>2. task[b].at = "rest"
      BY <2>3, <2>5, <3>1, InHand DEF Permitted, Watching, Serving
    <3>3. u = Rest
      BY <1>1, <2>1, <2>3, <2>5, <3>2 DEF Fits, OpFits
    <3>4. SightFits(u, f)'
      BY <3>3 DEF SightFits, Rest
    <3> QED BY <2>1, <2>2, <3>4
  <2> QED BY <2>4, <2>5
<1>11. AllCovered'
  <2> SUFFICES ASSUME NEW j \in Ids \ late'
               PROVE  (Says(rows[j], files[j]) \/ phase = "down" \/ j \in dirty)' \/ \E b \in Actors : Covers(task[b], j)'
    BY DEF AllCovered
  <2>1. CASE j = i
    <3> SUFFICES ASSUME ~Says(row, files[i]), i \notin dirty PROVE FALSE
      BY <1>3, <2>1
    <3>1. a \in {Watcher, Starter} /\ late' = late
      BY <1>4, <2>1 DEF Actors
    <3>2. i \in Excused(a)
      BY <3>1 DEF row
    <3> QED BY <2>1, <3>1, <3>2 DEF Excused
  <2>2. CASE j # i
    <3>1. rows'[j] = rows[j] /\ j \notin late
      BY <1>3, <1>4, <2>2
    <3>2. Says(rows[j], files[j]) \/ phase = "down" \/ j \in dirty \/ \E b \in Actors : Covers(task[b], j)
      BY <3>1 DEF IInv, AllCovered
    <3>3. ASSUME NEW b \in Actors, Covers(task[b], j) PROVE Covers(task[b], j)'
      <4>1. PICK u : u = task'[b]
        OBVIOUS
      <4>2. Covers(u, j)
        BY <1>1, <2>2, <3>3, <4>1
      <4>3. Covers(u, j)'
        BY <3>1, <4>2, CoverLasts
      <4> QED BY <4>1, <4>3
    <3> QED BY <3>1, <3>2, <3>3
  <2> QED BY <2>1, <2>2
<1> QED BY <1>5, <1>8, <1>9, <1>10, <1>11 DEF IInv, SightsFit

\* On to the next entry, or to the answer.
LEMMA TurnsTo ==
    ASSUME IInv, NEW a \in Actors, Turn(a), task[a].at \in {"index", "drop"}
    PROVE  \E u : /\ Go(a, u) /\ Fits(a, u) /\ u.id = None /\ u.at \in {"rest", "next"}
                  /\ u.todo = task[a].todo /\ u.gone = task[a].gone
<1> DEFINE t == task[a]
           next == [Rest EXCEPT !.at = "next", !.op = t.op, !.todo = t.todo, !.gone = t.gone]
<1>1. t \in Tasks /\ Fits(a, t)
  BY InHand
<1>2. CASE t.op \in Readers
  <2>1. Go(a, next)
    BY <1>2 DEF Turn, Reading, Scanning, Readers
  <2>2. /\ next \in Tasks /\ next.at = "next" /\ next.op = t.op /\ next.id = None
        /\ next.todo = t.todo /\ next.gone = t.gone
    BY <1>1, RestFits DEF Tasks, Places, Rest
  <2> HIDE DEF next
  <2>3. OpFits(a, next) /\ DataFits(next)
    BY <1>1, <1>2, <2>2 DEF Fits, OpFits, DataFits, Readers
  <2> QED BY <2>1, <2>2, <2>3 DEF Fits
<1>3. CASE t.op \notin Readers
  <2>1. Go(a, Rest)
    BY <1>3 DEF Turn, Reading, Scanning, Readers, Answer
  <2>2. t.todo = {} /\ t.gone = {}
    BY <1>1, <1>3 DEF Fits, OpFits
  <2>3. Rest.id = None /\ Rest.todo = {} /\ Rest.gone = {}
    BY DEF Rest
  <2> QED BY <2>1, <2>2, <2>3, RestFits
<1> QED BY <1>2, <1>3

LEMMA IndexKeeps == ASSUME IInv, NEW a \in Actors, IndexEntry(a) \/ DropRow(a) PROVE IInv'
<1> DEFINE t == task[a]
           file == IF t.at = "index" THEN t.draft ELSE None
           s == IF t.at = "index" THEN t.stamp ELSE None
<1>1. /\ t.at \in {"index", "drop"} /\ Turn(a) /\ UNCHANGED <<files, mtime, phase, dirty>>
      /\ Enter(a, t.id, file, s)
  BY DEF IndexEntry, DropRow, At
<1>2. /\ Fits(a, t) /\ t.id \in Ids /\ (a \in {Watcher, Starter} => SightFits(t, Excused(a)))
  BY <1>1, InHand DEF Fits, DataFits
<1>3. file \in Bodies /\ (file # None => s \in Stamps /\ s.mtime <= mtime[t.id])
  BY <1>1, <1>2 DEF Fits, DataFits, Bodies
<1>4. PICK u : /\ Go(a, u) /\ Fits(a, u) /\ u.id = None /\ u.at \in {"rest", "next"}
               /\ u.todo = t.todo /\ u.gone = t.gone
  BY <1>1, TurnsTo
<1>5. \A i \in Ids \ {t.id} : Covers(t, i) => Covers(u, i)
  BY <1>1, <1>4 DEF Covers
<1>6. ASSUME a \in {Watcher, Starter}
      PROVE  /\ t.id \notin Excused(a) => Says(EntryRow(t.id, file, s), files[t.id])
             /\ SightFits(u, Excused(a) \ {t.id})
  <2>1. Says(EntryRow(t.id, file, s), file)
    BY <1>3, EnteredRow
  <2>2. ASSUME t.id \notin Excused(a), t.at = "index"
        PROVE  Says(EntryRow(t.id, file, s), files[t.id])
    <3>1. file = files[t.id]
      BY <1>2, <1>6, <2>2 DEF SightFits
    <3> QED BY <2>1, <3>1
  <2>3. ASSUME t.id \notin Excused(a), t.at = "drop"
        PROVE  Says(EntryRow(t.id, file, s), files[t.id])
    <3>1. ~IsEntry(files[t.id]) /\ file = None
      BY <1>2, <1>6, <2>3 DEF SightFits
    <3> QED BY <2>1, <3>1 DEF Says, IsEntry
  <2>4. SightFits(u, Excused(a) \ {t.id})
    <3>1. t.id \notin t.gone /\ t.todo \cap t.gone = {} /\ \A i \in t.gone \ Excused(a) : files[i] = None
      BY <1>1, <1>2, <1>6 DEF SightFits
    <3>2. None \notin u.gone
      BY <1>4, NoneIsNoId DEF Fits, Tasks
    <3> QED BY <1>4, <3>1, <3>2 DEF SightFits
  <2> QED BY <1>1, <2>2, <2>3, <2>4
<1> HIDE DEF file, s
<1> QED BY <1>1, <1>2, <1>3, <1>4, <1>5, <1>6, EnterKeeps

LEMMA DropGoneKeeps == ASSUME IInv, NEW a \in Actors, DropGone(a) PROVE IInv'
<1> DEFINE t == task[a]
<1>1. /\ t.at = "next" /\ t \in Tasks /\ Fits(a, t) /\ UNCHANGED <<files, mtime, phase, dirty>>
      /\ (a \in {Watcher, Starter} => SightFits(t, Excused(a)))
  BY InHand DEF DropGone, At
<1>2. PICK i \in t.gone : Enter(a, i, None, None) /\ Go(a, [t EXCEPT !.gone = @ \ {i}])
  BY DEF DropGone
<1>3. i \in Ids /\ None \in Bodies
  BY <1>1, <1>2 DEF Tasks, Bodies
<1>4. PICK u : u = [t EXCEPT !.gone = @ \ {i}]
  OBVIOUS
<1>5. /\ u \in Tasks /\ u.at = "next" /\ u.op = t.op /\ u.id = t.id /\ u.patch = t.patch
      /\ u.todo = t.todo /\ u.gone = t.gone \ {i}
  BY <1>1, <1>4 DEF Tasks
<1>6. Fits(a, u)
  <2>1. OpFits(a, u)
    BY <1>1, <1>5 DEF Fits, OpFits, Readers
  <2>2. DataFits(u)
    BY <1>1, <1>5 DEF Fits, DataFits
  <2> QED BY <1>5, <2>1, <2>2 DEF Fits
<1>7. \A j \in Ids \ {i} : Covers(t, j) => Covers(u, j)
  BY <1>1, <1>5 DEF Covers
<1>8. ASSUME a \in {Watcher, Starter}
      PROVE  /\ i \notin Excused(a) => Says(EntryRow(i, None, None), files[i])
             /\ SightFits(u, Excused(a) \ {i})
  <2>1. i \notin Excused(a) => files[i] = None
    BY <1>1, <1>2, <1>8 DEF SightFits
  <2>2. SightFits(u, Excused(a) \ {i})
    BY <1>1, <1>5, <1>8 DEF SightFits
  <2> QED BY <1>3, <2>1, <2>2, EnteredRow
<1>9. Go(a, u)
  BY <1>2, <1>4
<1> QED BY <1>1, <1>2, <1>3, <1>5, <1>6, <1>7, <1>8, <1>9, EnterKeeps

\* No row is left, and the reindex that took them out has its walk before it.
LEMMA ClearKeeps == ASSUME IInv, NEW c \in Clients, ClearRows(c) PROVE IInv'
<1> DEFINE t == task[c]
<1> PICK u : u = [t EXCEPT !.at = "walk"]
  OBVIOUS
<1>1. /\ UNCHANGED <<files, mtime, phase, dirty, late>> /\ rows' = [i \in Ids |-> None]
      /\ t.at = "clear" /\ Go(c, u)
  BY DEF ClearRows, At
<1>2. /\ t \in Tasks /\ Fits(c, t) /\ Serving /\ c \in Actors /\ c \notin {Watcher, Starter}
      /\ t.op = "reindex" /\ t.todo = {} /\ t.gone = {}
  BY <1>1, Requested DEF Fits, OpFits
<1>3. u \in Tasks /\ u.at = "walk" /\ u.op = "reindex" /\ u.id = t.id /\ u.todo = {} /\ u.gone = {}
  BY <1>2 DEF Tasks, Places
<1>4. Fits(c, u) /\ Permitted(c)
  BY <1>1, <1>2, <1>3 DEF Fits, OpFits, DataFits, Permitted
<1>5. /\ task'[c] = u /\ task' \in [Actors -> Tasks]
      /\ \A b \in Actors \ {c} : task'[b] = task[b]
  BY <1>1, <1>2, <1>3 DEF IInv, TasksFit, Go
<1>6. Typed' /\ NeverInverted'
  BY <1>1 DEF IInv, Typed, TypeOK, NeverInverted
<1>7. Ages /\ \A b : Permitted(b)' = Permitted(b)
  BY <1>1 DEF IInv, Typed, TypeOK, Ages, Permitted, Watching, Serving
<1>8. ASSUME NEW b \in Actors
      PROVE  Fits(b, task[b])' /\ (task'[b].at # "rest" => Permitted(b)')
  <2>1. PICK v : v = task'[b]
    OBVIOUS
  <2>2. Fits(b, v) /\ (v.at # "rest" => Permitted(b))
    BY <1>4, <1>5, <2>1, InHand
  <2>3. Fits(b, v)'
    BY <1>7, <2>2, FitsLasts
  <2> QED BY <1>7, <2>1, <2>2, <2>3
<1>9. TasksFit' /\ PhasesFit'
  BY <1>1, <1>5, <1>8 DEF TasksFit, PhasesFit, IInv, Watching
<1>10. RowsFit'
  BY <1>1 DEF RowsFit, Behind, Vouches, Trusts
<1>11. ASSUME NEW b \in {Watcher, Starter} PROVE SightFits(task[b], Excused(b))'
  <2>1. task'[b] = task[b] /\ b \in Actors /\ Excused(b)' = Excused(b)
    BY <1>1, <1>2, <1>5, ActorsApart DEF Excused
  <2>2. PICK v : v = task[b]
    OBVIOUS
  <2>3. PICK e : e = Excused(b)
    OBVIOUS
  <2>4. SightFits(v, e)'
    BY <1>1, <2>1, <2>2, <2>3, InHand, SightLasts
  <2> QED BY <2>1, <2>2, <2>3, <2>4
<1>12. AllCovered'
  <2>1. \A i \in Ids : Covers(u, i)'
    BY <1>3 DEF Covers
  <2> QED BY <1>2, <1>5, <2>1 DEF AllCovered
<1> QED BY <1>6, <1>9, <1>10, <1>11, <1>12 DEF IInv, SightsFit

\* Who gives up has what it was at among the late.
LEMMA FailKeeps == ASSUME IInv, NEW a \in Actors, Fail(a) PROVE IInv'
<1> DEFINE t == task[a]
<1>1. /\ UNCHANGED <<files, mtime, rows, dirty>> /\ phase' = IF a = Starter THEN "down" ELSE phase
      /\ t.at \in {"write", "stat", "index", "unlink", "drop", "clear", "walk", "compare", "next"}
  BY DEF Fail
<1>2. /\ t \in Tasks /\ Fits(a, t) /\ Permitted(a)
      /\ (a \in {Watcher, Starter} => SightFits(t, Excused(a)))
  BY <1>1, InHand
<1>3. PICK u, left : /\ Go(a, u) /\ Fits(a, u) /\ u.at \in {"rest", "next"}
                     /\ u = Rest \/ (a # Starter /\ u.todo = t.todo /\ u.gone = t.gone /\ u.id = None)
                     /\ left \subseteq Ids
                     /\ late' = late \cup {i \in left : ~Says(rows[i], files[i])}
                     /\ \A i \in Ids \ left : Covers(t, i) => Covers(u, i)
  <2>1. CASE t.op = "watch" /\ t.at \in {"index", "drop"}
    <3>1. Turn(a) /\ late' = late \cup {i \in {t.id} : ~Says(rows[i], files[i])}
      BY <2>1 DEF Fail
    <3>2. PICK u : /\ Go(a, u) /\ Fits(a, u) /\ u.id = None /\ u.at \in {"rest", "next"}
                   /\ u.todo = t.todo /\ u.gone = t.gone
      BY <2>1, <3>1, TurnsTo
    <3>3. t.id \in Ids /\ a # Starter
      BY <1>2, <2>1, ActorsApart DEF Fits, DataFits, OpFits, OpsOf
    <3>4. \A i \in Ids \ {t.id} : Covers(t, i) => Covers(u, i)
      BY <2>1, <3>2 DEF Covers
    <3> QED BY <3>1, <3>2, <3>3, <3>4
  <2>2. CASE ~(t.op = "watch" /\ t.at \in {"index", "drop"})
    <3>1. Go(a, Rest) /\ late' = late \cup {i \in Left(t) : ~Says(rows[i], files[i])}
      BY <2>2 DEF Fail, Answer
    <3>2. Left(t) \subseteq Ids
      BY <1>1, <1>2 DEF Left, Tasks, Fits, DataFits
    <3>3. \A i \in Ids : Covers(t, i) => i \in Left(t)
      BY <1>1, <1>2 DEF Left, Covers, Fits, OpFits, Readers
    <3> QED BY <3>1, <3>2, <3>3, RestFits
  <2> QED BY <2>1, <2>2
<1>4. late \subseteq late' /\ late' \subseteq Ids /\ dirty' \subseteq Ids /\ phase' \in Phases
  BY <1>1, <1>3 DEF IInv, Typed, TypeOK, Phases
<1>5. phase # "down"
  BY <1>2 DEF Permitted, Watching, Serving
<1>6. ~Watching' => dirty' = {}
  BY <1>1, <1>2 DEF IInv, PhasesFit, Permitted, Watching
<1>7. \A b \in Actors \ {a} : task[b].at # "rest" => Permitted(b)'
  <2>1. CASE a = Starter
    BY <1>2, <2>1 DEF IInv, PhasesFit, Permitted, Watching, Serving
  <2>2. CASE a # Starter
    BY <1>1, <1>2, <2>2 DEF IInv, PhasesFit, Permitted, Watching, Serving
  <2> QED BY <2>1, <2>2
<1>8. u.at # "rest" => Permitted(a)'
  BY <1>1, <1>2, <1>3, RestFits DEF Permitted, Watching, Serving
<1>9. a \in {Watcher, Starter} => SightFits(u, IF a = Starter THEN late' ELSE dirty')
  <2>1. CASE u = Rest
    BY <2>1, RestFits
  <2>2. CASE u # Rest /\ a = Watcher
    <3>1. SightFits(t, dirty) /\ None \notin t.gone
      BY <1>2, <2>2, NoneIsNoId, ActorsApart DEF Excused, Tasks
    <3>2. SightFits(u, dirty)
      BY <1>3, <2>2, <3>1 DEF SightFits
    <3> QED BY <1>1, <2>2, <3>2, ActorsApart
  <2> QED BY <1>3, <2>1, <2>2
<1>10. ASSUME NEW i \in Ids \ late', Covers(t, i)
       PROVE  Says(rows[i], files[i]) \/ Covers(u, i)
  BY <1>3, <1>10
<1> QED BY <1>1, <1>3, <1>4, <1>5, <1>6, <1>7, <1>8, <1>9, <1>10, TaskMoves

\* After a stop the next start has every entry before it.
LEMMA StopKeeps == ASSUME IInv, Stop PROVE IInv'
<1>1. /\ UNCHANGED <<files, mtime, rows, late>> /\ dirty' = {} /\ phase' = "down"
      /\ task' = [a \in Actors |-> Rest]
  BY DEF Stop
<1>2. Typed' /\ NeverInverted'
  BY <1>1 DEF IInv, Typed, TypeOK, NeverInverted, Phases
<1>3. TasksFit' /\ PhasesFit'
  <2>1. \A a \in Actors : Fits(a, Rest)'
    BY <1>1, RestFits, FitsLasts DEF Ages, IInv, Typed, TypeOK
  <2> QED BY <1>1, <2>1, RestFits DEF TasksFit, PhasesFit
<1>4. RowsFit'
  BY <1>1 DEF IInv, RowsFit, Behind, Vouches, Trusts, Stamp
<1>5. SightsFit'
  BY <1>1, ActorsApart DEF SightsFit, SightFits, Rest
<1>6. AllCovered'
  BY <1>1 DEF AllCovered
<1> QED BY <1>2, <1>3, <1>4, <1>5, <1>6 DEF IInv

-----------------------------------------------------------------------------
(* Files.                                                                  *)

\* A change of i's file by a request, or by somebody who is no actor: no row has
\* its stamp, and an event, the request, the next start, or nobody is left to look.
LEMMA FilesMove ==
    ASSUME IInv, NEW i \in Ids, NEW file \in Bodies, Put(i, file), UNCHANGED <<rows, phase>>,
           IsEntry(file) => Upright(file) \/ file \in Edited,
           NEW a \in Actors, NEW t, Fits(a, t)', Go(a, t), t.at # "rest" => Permitted(a),
           a \in {Watcher, Starter} => t = task[a],
           late \ {i} \subseteq late', late' \subseteq Ids,
           phase = "starting" => i \in late',
           i \in late' \/ Watching \/ phase = "down" \/ Covers(t, i)',
           \A j \in Ids \ {i} : Covers(task[a], j) => Covers(t, j)
    PROVE  IInv'
<1>1. /\ files \in [Ids -> Bodies] /\ mtime \in [Ids -> Nat] /\ rows \in [Ids -> Rows \cup {None}]
      /\ files' \in [Ids -> Bodies] /\ files'[i] = file
      /\ mtime' \in [Ids -> Nat] /\ mtime'[i] = mtime[i] + 1
      /\ \A j \in Ids \ {i} : files'[j] = files[j] /\ mtime'[j] = mtime[j]
      /\ dirty' = IF Watching THEN dirty \cup {i} ELSE dirty
  BY DEF Put, IInv, Typed, TypeOK
<1>2. Typed' /\ NeverInverted'
  BY <1>1 DEF IInv, Typed, TypeOK, NeverInverted
<1>3. Ages /\ \A b : Permitted(b)' = Permitted(b)
  BY <1>1 DEF Ages, Permitted, Watching, Serving
<1>4. task'[a] = t /\ \A b \in Actors \ {a} : task'[b] = task[b]
  BY DEF IInv, TasksFit, Go
<1>5. ASSUME NEW b \in Actors
      PROVE  Fits(b, task[b])' /\ (task'[b].at # "rest" => Permitted(b)')
  <2>1. CASE b = a
    BY <1>3, <1>4, <2>1
  <2>2. CASE b # a
    <3>1. PICK u : u = task[b]
      OBVIOUS
    <3>2. Fits(b, u)' /\ (u.at # "rest" => Permitted(b))
      BY <1>3, <3>1, InHand, FitsLasts
    <3> QED BY <1>3, <1>4, <2>2, <3>1, <3>2
  <2> QED BY <2>1, <2>2
<1>6. TasksFit' /\ PhasesFit'
  <2>1. t \in Tasks
    BY DEF Fits
  <2>2. task' \in [Actors -> Tasks]
    BY <2>1 DEF IInv, TasksFit, Go
  <2>3. ~Watching' => dirty' = {}
    BY <1>1 DEF IInv, PhasesFit, Watching
  <2> QED BY <1>5, <2>2, <2>3 DEF TasksFit, PhasesFit
<1>7. RowsFit'
  <2> SUFFICES ASSUME NEW j \in Ids PROVE Behind(j)' /\ Vouches(j)'
    BY DEF RowsFit
  <2>1. Behind(j) /\ Vouches(j)
    BY DEF IInv, RowsFit
  <2>2. PICK row : row = rows[j]
    OBVIOUS
  <2>3. CASE j = i
    <3>1. row # None => row.stamp.mtime \in Nat /\ row.stamp.mtime <= mtime[i]
      BY <1>1, <2>1, <2>2, <2>3 DEF Behind, Rows, Stamps
    <3>2. row # None => row.stamp.mtime <= mtime'[i] /\ row.stamp.mtime # mtime'[i]
      BY <1>1, <3>1
    <3> QED BY <2>2, <2>3, <3>2 DEF Behind, Vouches, Trusts, Stamp
  <2>4. CASE j # i
    <3>1. Trusts(row, j)' <=> Trusts(row, j)
      BY <1>1, <2>4, TrustLasts
    <3> QED BY <1>1, <2>1, <2>2, <2>4, <3>1 DEF Behind, Vouches
  <2> QED BY <2>3, <2>4
<1>8. ASSUME NEW b \in {Watcher, Starter} PROVE SightFits(task[b], Excused(b))'
  <2>1. PICK u : u = task'[b]
    OBVIOUS
  <2>2. PICK e : e = Excused(b)
    OBVIOUS
  <2>3. PICK f : f = Excused(b)'
    OBVIOUS
  <2>4. b \in Actors /\ u = task[b] /\ Fits(b, u)
    BY <1>4, <2>1, InHand, ActorsApart
  <2>5. CASE u.at = "rest"
    <3>1. u = Rest
      BY <2>4, <2>5 DEF Fits, OpFits
    <3>2. SightFits(u, f)'
      BY <3>1 DEF SightFits, Rest
    <3> QED BY <2>1, <2>3, <3>2
  <2>6. CASE u.at # "rest"
    <3>1. Permitted(b) /\ SightFits(u, e)
      BY <2>2, <2>4, <2>6, InHand
    <3>2. e \subseteq f /\ i \in f
      BY <1>1, <2>2, <2>3, <3>1, ActorsApart DEF Excused, Permitted
    <3>3. SightFits(u, f)'
      BY <1>1, <2>4, <3>1, <3>2, SightLasts
    <3> QED BY <2>1, <2>3, <3>3
  <2> QED BY <2>5, <2>6
<1>9. AllCovered'
  <2> SUFFICES ASSUME NEW j \in Ids \ late'
               PROVE  (Says(rows[j], files[j]) \/ phase = "down" \/ j \in dirty)' \/ \E b \in Actors : Covers(task[b], j)'
    BY DEF AllCovered
  <2>1. CASE j = i
    <3>1. CASE Covers(t, i)'
      BY <1>4, <2>1, <3>1
    <3> QED BY <1>1, <2>1, <3>1
  <2>2. CASE j # i
    <3>1. files'[j] = files[j] /\ rows'[j] = rows[j] /\ j \notin late
      BY <1>1, <2>2
    <3>2. Says(rows[j], files[j]) \/ phase = "down" \/ j \in dirty \/ \E b \in Actors : Covers(task[b], j)
      BY <3>1 DEF IInv, AllCovered
    <3>3. ASSUME NEW b \in Actors, Covers(task[b], j) PROVE Covers(task[b], j)'
      <4>1. PICK u : u = task'[b]
        OBVIOUS
      <4>2. Covers(u, j)
        BY <1>4, <2>2, <3>3, <4>1
      <4>3. Covers(u, j)'
        BY <3>1, <4>2, CoverLasts
      <4> QED BY <4>1, <4>3
    <3> QED BY <1>1, <3>1, <3>2, <3>3
  <2> QED BY <2>1, <2>2
<1> QED BY <1>2, <1>6, <1>7, <1>8, <1>9 DEF IInv, SightsFit

LEMMA WriteKeeps == ASSUME IInv, NEW c \in Clients, Write(c) PROVE IInv'
<1> DEFINE t == task[c]
<1> PICK u : u = [Rest EXCEPT !.at = "stat", !.id = t.id, !.draft = t.draft]
  OBVIOUS
<1>1. /\ t.at = "write" /\ Put(t.id, t.draft) /\ late' = late \ {t.id} /\ Go(c, u)
      /\ UNCHANGED <<rows, phase>>
  BY DEF Write, At
<1>2. /\ Fits(c, t) /\ t.id \in Ids /\ t.draft \in Entries /\ t.draft \in Bodies /\ Upright(t.draft)
      /\ c \in Actors /\ c \notin {Watcher, Starter} /\ Permitted(c) /\ phase # "starting"
  BY <1>1, Requested, InHand DEF Fits, DataFits, Bodies
<1>3. /\ u \in Tasks /\ u.at = "stat" /\ u.op = "none" /\ u.id = t.id /\ u.draft = t.draft
      /\ u.todo = {} /\ u.gone = {}
  BY <1>2, RestFits DEF Tasks, Places, Rest
<1>4. Fits(c, u)'
  BY <1>2, <1>3, ActorsApart DEF Fits, OpFits, DataFits, OpsOf, Readers
<1>6. \A j \in Ids : ~Covers(t, j)
  BY <1>1, <1>2 DEF Fits, OpFits, Covers, Readers
<1>7. late \ {t.id} \subseteq late' /\ late' \subseteq Ids
  BY <1>1 DEF IInv, Typed, TypeOK
<1>8. PICK i \in Ids : i = t.id
  BY <1>2
<1>9. PICK file \in Bodies : file = t.draft
  BY <1>2
<1>10. Covers(u, i)'
  <2>1. files'[i] # None
    BY <1>1, <1>2, <1>8, TimesNone DEF Put, IInv, Typed, TypeOK
  <2> QED BY <1>3, <1>8, <2>1 DEF Covers
<1>11. Put(i, file) /\ (IsEntry(file) => Upright(file) \/ file \in Edited)
  BY <1>1, <1>2, <1>8, <1>9
<1> QED BY <1>1, <1>2, <1>4, <1>6, <1>7, <1>8, <1>10, <1>11, FilesMove

LEMMA UnlinkKeeps == ASSUME IInv, NEW c \in Clients, Unlink(c) PROVE IInv'
<1> DEFINE t == task[c]
<1> PICK u : u = [t EXCEPT !.at = "drop"]
  OBVIOUS
<1>1. /\ t.at = "unlink" /\ t \in Tasks /\ Fits(c, t) /\ t.id \in Ids /\ t.op = "delete"
      /\ t.todo = {} /\ t.gone = {} /\ Serving /\ phase # "starting"
      /\ c \in Actors /\ c \notin {Watcher, Starter} /\ Permitted(c) /\ UNCHANGED <<rows, phase>>
  BY Requested, InHand DEF Unlink, At, Fits, OpFits, DataFits, Readers
<1>2. \A j \in Ids : ~Covers(t, j)
  BY <1>1 DEF Covers, Readers
<1>3. CASE files[t.id] = None
  BY <1>1, <1>2, <1>3, AnswersKeep DEF Unlink, Stands
<1>4. CASE files[t.id] # None
  <2>1. Put(t.id, None) /\ late' = late \ {t.id} /\ Go(c, u)
    BY <1>4 DEF Unlink
  <2>2. /\ u \in Tasks /\ u.at = "drop" /\ u.op = "delete" /\ u.id = t.id
        /\ u.todo = {} /\ u.gone = {}
    BY <1>1 DEF Tasks, Places
  <2>3. Fits(c, u)'
    BY <1>1, <2>2, ActorsApart DEF Fits, OpFits, DataFits, OpsOf, Readers
  <2>4. PICK i \in Ids : i = t.id
    BY <1>1
  <2>5. Covers(u, i)'
    BY <2>2, <2>4 DEF Covers
  <2>6. late \ {i} \subseteq late' /\ late' \subseteq Ids /\ None \in Bodies /\ ~IsEntry(None)
    BY <2>1, <2>4 DEF IInv, Typed, TypeOK, Bodies, IsEntry
  <2> QED BY <1>1, <1>2, <2>1, <2>3, <2>4, <2>5, <2>6, FilesMove
<1> QED BY <1>3, <1>4

LEMMA EditKeeps == ASSUME IInv, Edit PROVE IInv'
<1>1. PICK i \in Ids, file \in Edited :
        /\ Put(i, file)
        /\ late' = IF phase \in {"up", "down"} THEN late \ {i} ELSE late \cup {i}
  BY DEF Edit
<1>2. file \in Bodies /\ UNCHANGED <<rows, phase, task>>
  BY TimesRequests DEF Edit
<1>3. PICK t : t = task[Starter]
  OBVIOUS
<1>4. /\ Starter \in Actors /\ Fits(Starter, t) /\ (t.at # "rest" => Permitted(Starter))
  BY <1>3, InHand, ActorsApart
<1>5. Go(Starter, t)
  BY <1>2, <1>3, <1>4 DEF Go, IInv, TasksFit
<1>6. Ages
  BY <1>1, <1>2 DEF Put, Ages, IInv, Typed, TypeOK
<1>7. Fits(Starter, t)'
  BY <1>4, <1>6, FitsLasts
<1>8. /\ late \ {i} \subseteq late' /\ late' \subseteq Ids /\ (phase = "starting" => i \in late')
      /\ i \in late' \/ Watching \/ phase = "down"
  BY <1>1 DEF IInv, Typed, TypeOK, Watching
<1> QED BY <1>1, <1>2, <1>3, <1>4, <1>5, <1>7, <1>8, FilesMove

-----------------------------------------------------------------------------
(* The theorems.                                                           *)

LEMMA NextKeeps == ASSUME IInv, [Next]_vars PROVE IInv'
<1>1. CASE UNCHANGED vars
  <2>1. Ages
    BY <1>1, ActorsApart DEF Ages, vars, IInv, Typed, TypeOK
  <2>2. Typed' /\ NeverInverted' /\ PhasesFit'
    BY <1>1 DEF vars, IInv, Typed, TypeOK, NeverInverted, PhasesFit, Permitted, Watching, Serving
  <2>3. TasksFit'
    <3>1. ASSUME NEW a \in Actors PROVE Fits(a, task[a])'
      <4>1. PICK t : t = task[a]
        OBVIOUS
      <4> QED BY <1>1, <2>1, <4>1, InHand, FitsLasts DEF vars
    <3> QED BY <1>1, <3>1 DEF vars, IInv, TasksFit
  <2>4. RowsFit'
    BY <1>1 DEF vars, IInv, RowsFit, Behind, Vouches, Trusts, Stamp
  <2>5. SightsFit'
    BY <1>1 DEF vars, IInv, SightsFit, SightFits, Excused
  <2>6. AllCovered'
    BY <1>1 DEF vars, IInv, AllCovered, Covers, WillLook
  <2> QED BY <2>2, <2>3, <2>4, <2>5, <2>6 DEF IInv
<1>2. ASSUME NEW c \in Clients, Request(c) PROVE IInv'
  BY <1>2, AskKeeps, AskReindexKeeps, ProbeKeeps, ReadKeeps, DrawKeeps, WriteKeeps, StatKeeps,
     UnlinkKeeps, ClearKeeps DEF Request
<1>3. ASSUME NEW a \in Actors, Step(a) PROVE IInv'
  BY <1>3, IndexKeeps, WalkKeeps, CompareKeeps, LookKeeps, LookAgainKeeps, DropGoneKeeps,
     DoneKeeps, FailKeeps DEF Step
<1> QED BY <1>1, <1>2, <1>3, BatchKeeps, RescanKeeps, StartKeeps, ServeKeeps, StopKeeps, EditKeeps
        DEF Next

LEMMA InitHolds == ASSUME Init PROVE IInv
<1>1. /\ files \in [Ids -> Entries \cup {None}] /\ files \in [Ids -> Bodies]
      /\ mtime \in [Ids -> Nat] /\ \A i \in Ids : mtime[i] = 0
  BY TimesFirst DEF Init, Bodies
<1>2. ASSUME NEW i \in Ids
      PROVE  /\ rows[i] \in Rows \cup {None} /\ Says(rows[i], files[i])
             /\ rows[i] # None => rows[i].stamp.mtime = mtime[i]
  <2>1. Stamp(i) \in Stamps /\ Stamp(i).mtime = mtime[i]
    <3>1. \A file \in Bodies : Size(file) \in Nat
      BY TimesLengths DEF Size, Bodies
    <3> QED BY <1>1, <3>1 DEF Stamp, Stamps
  <2>2. CASE files[i] \in Entries
    <3>1. rows[i] = RowOf(files[i], Stamp(i), None)
      BY <1>1, <2>2, EntriesAreThere DEF Init
    <3> QED BY <2>1, <2>2, <3>1, RowSays
  <2>3. CASE files[i] \notin Entries
    <3>1. rows[i] = None /\ ~IsEntry(files[i])
      BY <1>1, <2>3, EntriesAreThere DEF Init
    <3> QED BY <3>1 DEF Says
  <2> QED BY <2>2, <2>3
<1>3. Typed
  <2>1. rows \in [Ids -> Rows \cup {None}]
    BY <1>2 DEF Init
  <2> QED BY <1>1, <2>1 DEF Init, Typed, TypeOK, Phases
<1>4. NeverInverted
  BY <1>1, TimesFirst DEF Init, NeverInverted, Upright, IsEntry
<1>5. TasksFit /\ PhasesFit /\ SightsFit
  <2>1. task \in [Actors -> Tasks] /\ \A a \in Actors : task[a] = Rest
    BY RestFits DEF Init
  <2> QED BY <2>1, RestFits, ActorsApart DEF TasksFit, PhasesFit, SightsFit, Init
<1>6. RowsFit
  <2> SUFFICES ASSUME NEW i \in Ids PROVE Behind(i) /\ Vouches(i)
    BY DEF RowsFit
  <2>1. rows[i] # None => rows[i].stamp.mtime = mtime[i] /\ mtime[i] \in Nat
    BY <1>1, <1>2
  <2> QED BY <1>2, <2>1 DEF Behind, Vouches
<1>7. AllCovered
  BY <1>2 DEF AllCovered
<1> QED BY <1>3, <1>4, <1>5, <1>6, <1>7 DEF IInv

THEOREM TimesInvariant == Spec => []IInv
BY InitHolds, NextKeeps, PTL DEF Spec

\* No request leaves an entry that ends before it starts (api/times.rs:932,
\* 650-652): not one that moves only its start or only its end, nor a stop by a
\* clock that was set back, whatever else is at the file between its read and its
\* write.
THEOREM TimesAreSound == Spec => []EntriesAreSound
<1>1. IInv => EntriesAreSound
  BY DEF IInv, Typed, EntriesAreSound
<1> QED BY <1>1, TimesInvariant, PTL

\* Once nobody is at it the index says of each file what the file says
\* (api/times.rs:516-518, index/sync.rs:3-5), for any ids, requests, edits, scans,
\* failures and stops, and whatever the lengths of the files tell a scan: but for
\* the late, which nobody looks at again until they are edited or written.
THEOREM TimesRowsMatch == Spec => []RowsMatchEntries
<1>1. IInv => RowsMatchEntries
  <2> SUFFICES ASSUME IInv, AtRest, NEW i \in Ids \ late PROVE Says(rows[i], files[i])
    BY DEF RowsMatchEntries
  <2>1. \A a \in Actors : ~Covers(task[a], i)
    BY InHand, RestFits DEF AtRest, At, Fits, OpFits
  <2>2. phase # "down" /\ dirty = {}
    BY DEF AtRest, Serving
  <2> QED BY <2>1, <2>2 DEF IInv, AllCovered
<1> QED BY <1>1, TimesInvariant, PTL

\* What a patch does not name it leaves as it is.
LEMMA PatchKeepsTheRest ==
    ASSUME NEW entry \in Entries, NEW p \in Patches
    PROVE  \A f \in DOMAIN Patched(entry, p) : p[f] = None => Patched(entry, p)[f] = entry[f]
<1>1. Clear # None
  BY TimesNone
<1> QED BY <1>1 DEF Patched, Or

\* Nothing but its own write takes a request from "write" to "stat".
LEMMA WritesOnly ==
    ASSUME IInv, [Next]_vars, NEW c \in Clients, task[c].at = "write", task'[c].at = "stat"
    PROVE  Write(c)
<1>1. c \in DOMAIN task /\ Rest.at = "rest" /\ c # Watcher /\ c # Starter
  BY RestFits, ActorsApart DEF IInv, TasksFit
<1>2. CASE UNCHANGED task
  BY <1>2
<1>3. CASE Stop
  BY <1>1, <1>3 DEF Stop, IInv, TasksFit
<1>4. ASSUME NEW a, a # c, NEW t, Go(a, t) PROVE FALSE
  BY <1>1, <1>4 DEF Go
<1>5. ASSUME NEW d \in Clients, Request(d), d # c PROVE FALSE
  <2>1. \E t : Go(d, t)
    BY <1>5 DEF Request, Ask, AskReindex, Probe, Read, Draw, Write, Stat, Unlink, ClearRows, Answer
  <2> QED BY <1>4, <1>5, <2>1
<1>6. ASSUME NEW a \in Actors, Step(a), a # c PROVE FALSE
  <2>1. \E t : Go(a, t)
    BY <1>6 DEF Step, IndexEntry, DropRow, Walk, Compare, Look, LookAgain, DropGone, Done, Fail,
                Turn, Answer
  <2> QED BY <1>4, <1>6, <2>1
<1>7. CASE Request(c) /\ ~Write(c)
  BY <1>7 DEF Request, Ask, AskReindex, Probe, Read, Draw, Stat, Unlink, ClearRows, At
<1>8. CASE Step(c)
  <2>1. Fail(c)
    BY <1>8 DEF Step, IndexEntry, DropRow, Walk, Compare, Look, LookAgain, DropGone, Done, At
  <2>2. Go(c, Rest)
    BY <2>1 DEF Fail, Answer
  <2> QED BY <1>1, <2>2 DEF Go
<1>9. CASE Batch \/ Rescan \/ Start
  <2>1. \E t : Go(Watcher, t) \/ Go(Starter, t)
    BY <1>9 DEF Batch, Rescan, TakeEvents, Start
  <2> QED BY <1>1, <1>4, <2>1
<1> QED BY <1>2, <1>3, <1>5, <1>6, <1>7, <1>8, <1>9 DEF Next, Serve, Edit, vars

\* A request acts on the entry that is there when it writes as if nobody else had
\* been at it, unless the file has changed since it looked (times/mod.rs:136-140).
THEOREM TimesActAtOnce == Spec => RequestsActAtOnce
<1> DEFINE Act(c) ==
         LET t == task[c]
             old == files[t.id]
             new == files'[t.id]
         IN (t.at = "write" /\ task'[c].at = "stat") =>
            CASE t.op = "create" -> old = None \/ mtime[t.id] # t.stamp.mtime
              [] t.op = "stop"   -> old = t.base => /\ IsRunning(old) /\ ~IsRunning(new)
                                                    /\ new = [old EXCEPT !.end = new.end]
              [] t.op = "patch"  -> old = t.base =>
                    \A f \in DOMAIN new : t.patch[f] = None => new[f] = old[f]
<1>1. ASSUME IInv, [Next]_vars, vars' # vars, NEW c \in Clients,
             task[c].at = "write", task'[c].at = "stat"
      PROVE  Act(c)
  <2> DEFINE t == task[c]
  <2>1. /\ WriteFits(t) /\ t.id \in Ids /\ t.op \in {"create", "stop", "patch"}
        /\ t.op = "patch" => t.patch \in Patches
    BY <1>1, Requested DEF Fits, OpFits, DataFits
  <2>2. Write(c)
    BY <1>1, WritesOnly
  <2>3. files'[t.id] = t.draft
    <3>1. files' = [files EXCEPT ![t.id] = t.draft]
      BY <2>2 DEF Write, Put
    <3>2. DOMAIN files = Ids
      BY <1>1 DEF IInv, Typed, TypeOK
    <3> QED BY <2>1, <3>1, <3>2
  <2>4. CASE t.op = "create"
    BY <2>1, <2>4 DEF WriteFits
  <2>5. CASE t.op = "stop"
    BY <2>1, <2>3, <2>5 DEF WriteFits
  <2>6. CASE t.op = "patch"
    <3>1. t.base \in Entries /\ t.draft = Patched(t.base, t.patch) /\ t.patch \in Patches
      BY <2>1, <2>6 DEF WriteFits
    <3>2. \A f \in DOMAIN Patched(t.base, t.patch) :
            t.patch[f] = None => Patched(t.base, t.patch)[f] = t.base[f]
      BY <3>1, PatchKeepsTheRest
    <3> QED BY <2>3, <2>6, <3>1, <3>2
  <2> QED BY <2>1, <2>4, <2>5, <2>6
<1>2. IInv /\ [Next]_vars => [\A c \in Clients : Act(c)]_vars
  BY <1>1
<1> QED BY <1>2, TimesInvariant, PTL DEF Spec, RequestsActAtOnce
=============================================================================
