-------------------------- MODULE PageIndex_proofs --------------------------
(***************************************************************************)
(* That the index at rest is what is on disk, for any number of pages,     *)
(* requests at a time, edits, stops and lost lines.                        *)
(*                                                                         *)
(* At rest says nothing of a moment when something is under way, so what   *)
(* keeps is that for each page whose row is not what its file says         *)
(* somebody is there to look at it: an event, or an actor on its way to    *)
(* the row (AllCovered).  After a stop that somebody is the next start,    *)
(* whose scan trusts a row that has its file's stamp; so a row that has it *)
(* must be right (VouchedIsTrue).  And what the watcher and the starting   *)
(* scan have in hand is what is there, unless somebody has told of a       *)
(* change since they looked (HandFits).                                    *)
(***************************************************************************)
EXTENDS PageIndex, FiniteSetTheorems, NaturalsInduction, WellFoundedInduction, TLAPS

Rows   == [body : Bodies, stamp : Stamps]
Walks  == (UNION {[S -> Stamps] : S \in SUBSET Slugs}) \cup {<<>>}
Phases == {"down", "starting", "reconciled", "up", "blind"}
Scans  == {"scan", "reindex", "watch"}
Moves  == {"move", "move onto itself"}
Ops    == {"none", "scan", "watch"} \cup Requests
OpsOf(a) == IF a = Watcher THEN {"none", "scan", "watch"}
            ELSE IF a = Starter THEN {"none", "scan"} ELSE {"none"} \cup Requests
Places == {"rest", "check", "write", "stat", "unlink", "rename", "read", "readstat", "vacate",
           "upsert", "drop", "remove", "observe", "moved", "close", "clear", "walk", "compare",
           "next"}

\* What an actor has in hand, and at each of its steps.
Tasks == [at : Places, op : Ops, slug : Slugs \cup {None}, src : Slugs \cup {None},
          body : Contents, stamp : Stamps \cup {None}, change : Changes \cup {None},
          walk : Walks, todo : SUBSET Slugs, gone : SUBSET Slugs]

OpFits(t) ==
    /\ t.at = "rest" => t = Rest
    /\ t.at = "check" => t.op \in {"create", "delete", "move"}
    /\ t.at \in {"write", "stat"} => t.op \in {"create", "replace", "patch"}
    /\ t.at = "unlink" => t.op = "delete"
    /\ t.at = "rename" => t.op = "move"
    /\ t.at \in {"vacate", "moved"} => t.op \in Moves
    /\ t.at = "clear" => t.op = "reindex"
    /\ t.at \in {"walk", "compare"} => t.op \in {"scan", "reindex"}
    /\ t.at \in {"next", "drop"} => t.op \in Scans
    /\ t.at \in {"read", "readstat"} => t.op \in Scans \cup Moves \cup {"patch"}
    /\ t.at \in {"remove", "close"} => t.op \in Scans \cup {"delete"}
    /\ t.at = "observe" => t.op \in Scans \cup {"create", "replace", "patch"}
    /\ t.at = "upsert" => t.op # "none" /\ t.op # "delete"
    /\ t.op \notin Scans => t.todo = {} /\ t.gone = {}
    /\ t.at \in {"clear", "walk", "compare"} => t.todo = {} /\ t.gone = {}

DataFits(t) ==
    /\ t.at \notin {"rest", "clear", "walk", "compare", "next"} => t.slug \in Slugs
    /\ t.op \in Moves => t.src \in Slugs
    /\ t.op \notin Moves => t.src = None
    /\ t.op = "move" => t.src # t.slug
    /\ t.at = "check" /\ t.op = "create" => t.body \in Bodies
    /\ t.at \in {"write", "stat", "vacate", "upsert"} => t.body \in Bodies
    /\ t.at = "readstat" => t.body # None
    /\ t.at \in {"vacate", "upsert"} => t.stamp \in Stamps /\ t.stamp.mtime <= clock
    /\ t.at \in {"observe", "moved"} => t.change \in Changes
    /\ t.at = "compare" => DOMAIN t.walk \subseteq Slugs

Fits(t) == t \in Tasks /\ OpFits(t) /\ DataFits(t)
TasksFit == task \in [Actors -> Tasks] /\ \A a \in Actors : Fits(task[a])

\* When an actor may be at something.
Permitted(a) == IF a = Starter THEN phase = "starting"
                ELSE IF a = Watcher THEN Watching ELSE Serving
PhasesFit == /\ \A a \in Actors : task[a].op \in OpsOf(a) /\ (~Idle(a) => Permitted(a))
             /\ ~Watching => dirty = {}

Typed == /\ disk \in [Slugs -> Contents] /\ mtime \in [Slugs -> Nat] /\ clock \in Nat
         /\ rows \in [Slugs -> Rows \cup {None}] /\ phase \in Phases
         /\ dirty \subseteq Slugs /\ missed \subseteq Slugs

StampsPast == \A p \in Slugs : mtime[p] <= clock /\ (rows[p] # None => rows[p].stamp.mtime <= clock)

VouchedIsTrue == \A p \in Slugs \ missed : Vouches(rows[p], p) => Reflects(rows[p], p)

\* The watcher and the starting scan have in hand what is there, but for what
\* has been told of, or is missed, since they looked.
Excused(a) == IF a = Starter THEN missed ELSE dirty
HandFits(t, late) ==
    /\ t.todo \cap t.gone = {}
    /\ t.at # "next" => t.slug \notin t.gone
    /\ \A p \in t.gone \ late : disk[p] = None
    /\ t.at = "compare" => \A p \in Slugs \ (late \cup DOMAIN t.walk) : disk[p] = None
    /\ t.slug \notin late =>
         /\ t.at = "readstat" => t.body = disk[t.slug]
         /\ t.at = "upsert" => Reflects([body |-> t.body, stamp |-> t.stamp], t.slug)
         /\ t.at \in {"remove", "drop"} => ~IsPage(disk[t.slug])
HandsFit == \A a \in {Watcher, Starter} : HandFits(task[a], Excused(a))

\* t puts p's row right, or has it among the missed.
WillLook(t, p) == IF p \in DOMAIN t.walk THEN rows[p] = None \/ rows[p].stamp # t.walk[p]
                                         ELSE rows[p] # None
Covers(t, p) ==
    \/ t.at \in {"clear", "walk"}
    \/ t.at = "compare" /\ WillLook(t, p)
    \/ p \in t.todo \cup t.gone
    \/ t.at \in {"read", "readstat"} /\ t.op \in Scans /\ t.slug = p
    \/ t.at \in {"read", "readstat"} /\ t.op = "move" /\ p \in {t.src, t.slug}
    \/ t.at = "stat" /\ t.slug = p /\ disk[p] # None
    \/ t.at \in {"upsert", "remove", "drop"} /\ t.slug = p
    \/ t.at = "vacate" /\ p \in {t.src, t.slug}

AllCovered == \A p \in Slugs \ missed :
    Reflects(rows[p], p) \/ phase = "down" \/ p \in dirty \/ \E a \in Actors : Covers(task[a], p)

Held == /\ Typed /\ TasksFit /\ PhasesFit /\ StampsPast
        /\ VouchedIsTrue /\ HandsFit /\ AllCovered

-----------------------------------------------------------------------------
(* What lasts while other things change.                                   *)

LEMMA ActorsApart == Watcher \notin Clients /\ Starter \notin Clients /\ Watcher # Starter
BY ActorsAssumption DEF Watcher, Starter

\* An actor that does nothing.
LEMMA RestFits ==
    /\ Fits(Rest) /\ \A a \in Actors : Rest.op \in OpsOf(a)
    /\ \A late : HandFits(Rest, late)
    /\ \A p \in Slugs : ~Covers(Rest, p)
<1>1. <<>> \in Walks
  BY DEF Walks
<1>2. None \in Contents
  BY DEF Contents
<1>3. Rest \in Tasks
  BY <1>1, <1>2 DEF Rest, Tasks, Places, Ops
<1>4. OpFits(Rest) /\ DataFits(Rest)
  BY WikiAssumption DEF Rest, OpFits, DataFits, Scans, Moves
<1>5. \A a \in Actors : Rest.op \in OpsOf(a)
  BY DEF Rest, OpsOf
<1>6. \A late : HandFits(Rest, late)
  BY DEF Rest, HandFits
<1>7. \A p \in Slugs : ~Covers(Rest, p)
  BY DEF Rest, Covers
<1> QED BY <1>3, <1>4, <1>5, <1>6, <1>7 DEF Fits

LEMMA FitsLasts ==
    ASSUME NEW t, Fits(t), clock \in Nat, clock' \in Nat, clock <= clock'
    PROVE  Fits(t)'
<1>1. t.at \in {"vacate", "upsert"} => t.stamp.mtime <= clock'
  BY DEF Fits, DataFits, Stamps
<1> QED BY <1>1 DEF Fits, OpFits, DataFits

LEMMA HandLasts ==
    ASSUME NEW t, NEW e, NEW f, HandFits(t, e), e \subseteq f, t.gone \subseteq Slugs,
           t.at \in {"readstat", "upsert", "remove", "drop"} => t.slug \in Slugs,
           \A p \in Slugs \ f : disk'[p] = disk[p] /\ mtime'[p] = mtime[p]
    PROVE  HandFits(t, f)'
<1>1. ASSUME t.slug \notin f, t.at = "upsert"
      PROVE  Reflects([body |-> t.body, stamp |-> t.stamp], t.slug)'
  BY <1>1 DEF HandFits, Reflects, Stamp, IsPage, WordsOf, Size
<1>2. ASSUME t.slug \notin f, t.at \in {"remove", "drop"}
      PROVE  ~IsPage(disk[t.slug])'
  BY <1>2 DEF HandFits, IsPage
<1> QED BY <1>1, <1>2 DEF HandFits

LEMMA CoverLasts ==
    ASSUME NEW t, NEW p, Covers(t, p), disk'[p] = disk[p], rows'[p] = rows[p]
    PROVE  Covers(t, p)'
BY DEF Covers, WillLook

LEMMA ReflectsLasts ==
    ASSUME NEW row, NEW p, disk'[p] = disk[p], mtime'[p] = mtime[p]
    PROVE  /\ Reflects(row, p)' <=> Reflects(row, p)
           /\ Vouches(row, p)' <=> Vouches(row, p)
BY DEF Reflects, Vouches, Stamp, IsPage, WordsOf, Size
-----------------------------------------------------------------------------
(* Steps that change what one actor has in hand, and no file nor row.      *)

LEMMA TaskMoves ==
    ASSUME Held, NEW a \in Actors, NEW t, Fits(t), t.op \in OpsOf(a),
           task' = [task EXCEPT ![a] = t],
           UNCHANGED <<disk, mtime, clock, rows>>,
           missed \subseteq missed', missed' \subseteq Slugs,
           dirty' \subseteq Slugs, dirty \subseteq dirty' \/ a = Watcher,
           phase' \in Phases, ~Watching' => dirty' = {},
           t.at # "rest" => Permitted(a)',
           \A b \in Actors \ {a} : ~Idle(b) => Permitted(b)',
           a \in {Watcher, Starter} => HandFits(t, IF a = Starter THEN missed' ELSE dirty'),
           \A p \in Slugs \ missed' :
               (Covers(task[a], p) \/ phase = "down" \/ p \in dirty \ dirty')
                   => (Reflects(rows[p], p) \/ phase' = "down" \/ p \in dirty' \/ Covers(t, p))
    PROVE  Held'
<1>1. task'[a] = t /\ DOMAIN task' = Actors /\ \A b \in Actors \ {a} : task'[b] = task[b]
  BY DEF Held, TasksFit
<1>2. Typed'
  BY DEF Held, Typed
<1>3. ASSUME NEW b \in Actors
      PROVE  Fits(task[b])' /\ task'[b].op \in OpsOf(b) /\ (task'[b].at # "rest" => Permitted(b)')
  <2>1. PICK u : u = task'[b]
    OBVIOUS
  <2>2. Fits(u) /\ u.op \in OpsOf(b)
    BY <1>1, <2>1 DEF Held, TasksFit, PhasesFit
  <2>3. Fits(u)'
    BY <2>2, FitsLasts DEF Held, Typed
  <2> QED BY <1>1, <2>1, <2>2, <2>3 DEF Idle, At
<1>4. TasksFit'
  <2>1. t \in Tasks
    BY DEF Fits
  <2>2. task' \in [Actors -> Tasks]
    BY <2>1 DEF Held, TasksFit
  <2> QED BY <1>3, <2>2 DEF TasksFit
<1>5. PhasesFit'
  BY <1>3 DEF PhasesFit, Idle, OpsOf
<1>6. StampsPast'
  BY DEF Held, StampsPast
<1>7. VouchedIsTrue'
  BY ReflectsLasts DEF Held, VouchedIsTrue
<1>8. ASSUME NEW b \in {Watcher, Starter}
      PROVE  HandFits(task[b], Excused(b))'
  <2>1. PICK u : u = task'[b]
    OBVIOUS
  <2>2. PICK e : e = IF b = a THEN Excused(b)' ELSE Excused(b)
    OBVIOUS
  <2>3. PICK f : f = Excused(b)'
    OBVIOUS
  <2>4. b \in Actors
    BY DEF Actors
  <2>5. HandFits(u, e)
    BY <1>1, <2>1, <2>2, <2>4 DEF Held, HandsFit, Excused
  <2>6. e \subseteq f
    BY <2>2, <2>3, ActorsApart DEF Excused
  <2>7. Fits(u)
    BY <1>1, <2>1, <2>4 DEF Held, TasksFit
  <2>8. u.gone \subseteq Slugs /\ (u.at \in {"readstat", "upsert", "remove", "drop"} => u.slug \in Slugs)
    BY <2>7 DEF Fits, Tasks, DataFits
  <2>9. HandFits(u, f)'
    BY <2>5, <2>6, <2>8, HandLasts
  <2> QED BY <2>1, <2>3, <2>9
<1>9. AllCovered'
  <2> SUFFICES ASSUME NEW p \in Slugs \ missed'
               PROVE  (Reflects(rows[p], p) \/ phase = "down" \/ p \in dirty)' \/ \E b \in Actors : Covers(task[b], p)'
    BY DEF AllCovered
  <2>1. CASE Reflects(rows[p], p)
    BY <2>1, ReflectsLasts
  <2>2. CASE Covers(t, p)
    BY <1>1, <2>2, CoverLasts
  <2>3. ASSUME NEW b \in Actors, b # a, Covers(task[b], p)
        PROVE  Covers(task[b], p)'
    <3>1. PICK u : u = task[b]
      OBVIOUS
    <3> QED BY <1>1, <2>3, <3>1, CoverLasts
  <2>4. Reflects(rows[p], p) \/ phase = "down" \/ p \in dirty \/ \E b \in Actors : Covers(task[b], p)
    BY DEF Held, AllCovered
  <2> QED BY <2>1, <2>2, <2>3, <2>4
<1> QED BY <1>2, <1>4, <1>5, <1>6, <1>7, <1>8, <1>9 DEF Held, HandsFit

\* Where no phase, event nor missed page is at stake.
LEMMA HandMoves ==
    ASSUME Held, NEW a \in Actors, NEW t, Fits(t), t.op \in OpsOf(a),
           task' = [task EXCEPT ![a] = t],
           UNCHANGED <<disk, mtime, clock, rows, dirty, phase, missed>>,
           t.at # "rest" => Permitted(a),
           a \in {Watcher, Starter} => HandFits(t, Excused(a)),
           \A p \in Slugs \ missed :
               Covers(task[a], p) => Reflects(rows[p], p) \/ Covers(t, p)
    PROVE  Held'
<1>1. Typed
  BY DEF Held
<1>2. missed \subseteq Slugs /\ dirty \subseteq Slugs /\ phase \in Phases
  BY <1>1 DEF Typed
<1>3. Watching' = Watching /\ \A b : Permitted(b)' = Permitted(b)
  BY DEF Watching, Permitted, Serving
<1>4. ~Watching' => dirty' = {}
  BY <1>3 DEF Held, PhasesFit
<1>5. \A b \in Actors \ {a} : ~Idle(b) => Permitted(b)'
  BY <1>3 DEF Held, PhasesFit
<1>6. a \in {Watcher, Starter} => HandFits(t, IF a = Starter THEN missed' ELSE dirty')
  BY DEF Excused
<1> QED BY <1>2, <1>3, <1>4, <1>5, <1>6, TaskMoves
-----------------------------------------------------------------------------
(* What an actor has in hand, and goes on with.                            *)

LEMMA InHand ==
    ASSUME Held, NEW a \in Actors
    PROVE  /\ Fits(task[a]) /\ task[a].op \in OpsOf(a)
           /\ task[a].at # "rest" => Permitted(a)
           /\ a \in {Watcher, Starter} => HandFits(task[a], Excused(a))
BY DEF Held, TasksFit, PhasesFit, HandsFit, Idle, At

LEMMA GoIs ==
    ASSUME NEW t \in Tasks, NEW where \in Places, NEW u, u = [t EXCEPT !.at = where]
    PROVE  /\ u \in Tasks /\ u.at = where /\ u.op = t.op /\ u.slug = t.slug /\ u.src = t.src
           /\ u.body = t.body /\ u.stamp = t.stamp /\ u.change = t.change /\ u.walk = t.walk
           /\ u.todo = t.todo /\ u.gone = t.gone
BY DEF Tasks

\* Who does what.
LEMMA WhoDoes ==
    ASSUME NEW a \in Actors, NEW op \in OpsOf(a)
    PROVE  /\ op \in Requests => a \in Clients
           /\ a \in Clients => op \in {"none"} \cup Requests
BY ActorsApart DEF OpsOf, Actors, Requests

LEMMA AskKeeps == ASSUME Held, NEW c \in Clients, Request(c) PROVE Held'
<1>1. ASSUME NEW where \in {"check", "write", "read", "clear"}, NEW t \in Tasks, Ask(c, where, t),
             Fits([t EXCEPT !.at = where]), t.op \in Requests
      PROVE  Held'
  <2>1. c \in Actors /\ task[c] = Rest /\ Permitted(c)
    BY <1>1, InHand, ActorsApart DEF Actors, Ask, Idle, At, Fits, OpFits, Permitted
  <2>2. PICK u : u = [t EXCEPT !.at = where]
    OBVIOUS
  <2>3. Fits(u) /\ u.op \in OpsOf(c)
    BY <1>1, <2>2, ActorsApart DEF Tasks, OpsOf
  <2>4. task' = [task EXCEPT ![c] = u] /\ UNCHANGED <<disk, mtime, clock, rows, dirty, phase, missed>>
    BY <1>1, <2>2 DEF Ask, Go, files, history
  <2>5. c \notin {Watcher, Starter}
    BY ActorsApart
  <2>6. \A p \in Slugs \ missed : ~Covers(task[c], p)
    BY <2>1, RestFits
  <2> QED BY <2>1, <2>3, <2>4, <2>5, <2>6, HandMoves
<1>2. Rest \in Tasks /\ DOMAIN Rest = {"at", "op", "slug", "src", "body", "stamp", "change", "walk", "todo", "gone"}
  BY RestFits DEF Fits, Rest
<1>3. \A b \in Bodies : b \in Contents
  BY DEF Contents
<1>4. ASSUME Create(c) PROVE Held'
  <2>1. PICK p \in Slugs, b \in Bodies :
            Ask(c, "check", [Rest EXCEPT !.op = "create", !.slug = p, !.body = b])
    BY <1>4 DEF Create
  <2>2. PICK t : t = [Rest EXCEPT !.op = "create", !.slug = p, !.body = b]
    OBVIOUS
  <2>3. t \in Tasks /\ t.op = "create"
    BY <1>2, <1>3, <2>2 DEF Tasks, Ops, Requests
  <2>4. Fits([t EXCEPT !.at = "check"])
    <3>1. PICK u : u = [t EXCEPT !.at = "check"]
      OBVIOUS
    <3>2. t.slug = p /\ t.src = None /\ t.body = b /\ t.todo = {} /\ t.gone = {}
      BY <1>2, <2>2 DEF Rest
    <3>3. /\ u \in Tasks /\ u.at = "check" /\ u.op = t.op /\ u.slug = t.slug /\ u.src = t.src
          /\ u.body = t.body /\ u.todo = t.todo /\ u.gone = t.gone
      <4>1. {"check", "read", "write", "clear"} \subseteq Places
        BY DEF Places
      <4> QED BY <2>3, <3>1, <4>1, GoIs
    <3>4. OpFits(u)
      BY <2>3, <3>2, <3>3 DEF OpFits, Scans, Moves
    <3>5. DataFits(u)
      BY <2>3, <3>2, <3>3 DEF DataFits, Scans, Moves
    <3> QED BY <3>1, <3>3, <3>4, <3>5 DEF Fits
  <2> QED BY <1>1, <2>1, <2>2, <2>3, <2>4 DEF Requests
<1>5. ASSUME Replace(c) PROVE Held'
  <2>1. PICK p \in Slugs, b \in Bodies :
            Ask(c, "write", [Rest EXCEPT !.op = "replace", !.slug = p, !.body = b])
    BY <1>5 DEF Replace
  <2>2. PICK t : t = [Rest EXCEPT !.op = "replace", !.slug = p, !.body = b]
    OBVIOUS
  <2>3. t \in Tasks /\ t.op = "replace"
    BY <1>2, <1>3, <2>2 DEF Tasks, Ops, Requests
  <2>4. Fits([t EXCEPT !.at = "write"])
    <3>1. PICK u : u = [t EXCEPT !.at = "write"]
      OBVIOUS
    <3>2. t.slug = p /\ t.src = None /\ t.body = b /\ t.todo = {} /\ t.gone = {}
      BY <1>2, <2>2 DEF Rest
    <3>3. /\ u \in Tasks /\ u.at = "write" /\ u.op = t.op /\ u.slug = t.slug /\ u.src = t.src
          /\ u.body = t.body /\ u.todo = t.todo /\ u.gone = t.gone
      <4>1. {"check", "read", "write", "clear"} \subseteq Places
        BY DEF Places
      <4> QED BY <2>3, <3>1, <4>1, GoIs
    <3>4. OpFits(u)
      BY <2>3, <3>2, <3>3 DEF OpFits, Scans, Moves
    <3>5. DataFits(u)
      BY <2>3, <3>2, <3>3 DEF DataFits, Scans, Moves
    <3> QED BY <3>1, <3>3, <3>4, <3>5 DEF Fits
  <2> QED BY <1>1, <2>1, <2>2, <2>3, <2>4 DEF Requests
<1>6. ASSUME Patch(c) \/ Delete(c) PROVE Held'
  <2>1. PICK p \in Slugs :
            \/ Ask(c, "read", [Rest EXCEPT !.op = "patch", !.slug = p])
            \/ Ask(c, "check", [Rest EXCEPT !.op = "delete", !.slug = p])
    BY <1>6 DEF Patch, Delete
  <2>2. PICK op \in {"patch", "delete"}, where \in {"read", "check"} :
            /\ Ask(c, where, [Rest EXCEPT !.op = op, !.slug = p])
            /\ op = "patch" <=> where = "read"
    BY <2>1
  <2>3. PICK t : t = [Rest EXCEPT !.op = op, !.slug = p]
    OBVIOUS
  <2>4. t \in Tasks /\ t.op = op
    BY <1>2, <2>3 DEF Tasks, Ops, Requests
  <2>5. Fits([t EXCEPT !.at = where])
    <3>1. PICK u : u = [t EXCEPT !.at = where]
      OBVIOUS
    <3>2. t.slug = p /\ t.src = None /\ t.todo = {} /\ t.gone = {}
      BY <1>2, <2>3 DEF Rest
    <3>3. /\ u \in Tasks /\ u.at = where /\ u.op = t.op /\ u.slug = t.slug /\ u.src = t.src
          /\ u.body = t.body /\ u.todo = t.todo /\ u.gone = t.gone
      <4>1. {"check", "read", "write", "clear"} \subseteq Places
        BY DEF Places
      <4> QED BY <2>4, <3>1, <4>1, GoIs
    <3>4. OpFits(u)
      BY <2>2, <2>4, <3>2, <3>3 DEF OpFits, Scans, Moves
    <3>5. DataFits(u)
      BY <2>2, <2>4, <3>2, <3>3 DEF DataFits, Scans, Moves
    <3> QED BY <3>1, <3>3, <3>4, <3>5 DEF Fits
  <2> QED BY <1>1, <2>2, <2>3, <2>4, <2>5 DEF Requests
<1>7. ASSUME MovePage(c) \/ MoveOntoItself(c) PROVE Held'
  <2>1. PICK p \in Slugs, q \in Slugs :
            \/ p # q /\ Ask(c, "check", [Rest EXCEPT !.op = "move", !.src = p, !.slug = q])
            \/ Ask(c, "read", [Rest EXCEPT !.op = "move onto itself", !.src = p, !.slug = q])
    BY <1>7 DEF MovePage, MoveOntoItself
  <2>2. PICK op \in Moves, where \in {"read", "check"} :
            /\ Ask(c, where, [Rest EXCEPT !.op = op, !.src = p, !.slug = q])
            /\ op = "move" <=> where = "check"
            /\ op = "move" => p # q
    BY <2>1 DEF Moves
  <2>3. PICK t : t = [Rest EXCEPT !.op = op, !.src = p, !.slug = q]
    OBVIOUS
  <2>4. t \in Tasks /\ t.op = op
    BY <1>2, <2>3 DEF Tasks, Ops, Requests, Moves
  <2>5. Fits([t EXCEPT !.at = where])
    <3>1. PICK u : u = [t EXCEPT !.at = where]
      OBVIOUS
    <3>2. t.slug = q /\ t.src = p /\ t.todo = {} /\ t.gone = {}
      BY <1>2, <2>3 DEF Rest
    <3>3. /\ u \in Tasks /\ u.at = where /\ u.op = t.op /\ u.slug = t.slug /\ u.src = t.src
          /\ u.body = t.body /\ u.todo = t.todo /\ u.gone = t.gone
      <4>1. {"check", "read", "write", "clear"} \subseteq Places
        BY DEF Places
      <4> QED BY <2>4, <3>1, <4>1, GoIs
    <3>4. OpFits(u)
      BY <2>2, <2>4, <3>2, <3>3 DEF OpFits, Scans, Moves
    <3>5. DataFits(u)
      BY <2>2, <2>4, <3>2, <3>3 DEF DataFits, Scans, Moves
    <3> QED BY <3>1, <3>3, <3>4, <3>5 DEF Fits
  <2> QED BY <1>1, <2>2, <2>3, <2>4, <2>5 DEF Requests, Moves
<1>8. ASSUME Reindex(c) PROVE Held'
  <2>1. PICK t : t = [Rest EXCEPT !.op = "reindex"]
    OBVIOUS
  <2>2. t \in Tasks /\ t.op = "reindex"
    BY <1>2, <2>1 DEF Tasks, Ops, Requests
  <2>3. Fits([t EXCEPT !.at = "clear"])
    <3>1. PICK u : u = [t EXCEPT !.at = "clear"]
      OBVIOUS
    <3>2. t.src = None /\ t.todo = {} /\ t.gone = {}
      BY <1>2, <2>1 DEF Rest
    <3>3. /\ u \in Tasks /\ u.at = "clear" /\ u.op = t.op /\ u.src = t.src
          /\ u.todo = t.todo /\ u.gone = t.gone
      <4>1. "clear" \in Places
        BY DEF Places
      <4> QED BY <2>2, <3>1, <4>1, GoIs
    <3>4. OpFits(u)
      BY <2>2, <3>2, <3>3 DEF OpFits, Scans, Moves
    <3>5. DataFits(u)
      BY <2>2, <3>2, <3>3 DEF DataFits, Scans, Moves
    <3> QED BY <3>1, <3>3, <3>4, <3>5 DEF Fits
  <2> QED BY <1>1, <1>8, <2>1, <2>2, <2>3 DEF Reindex, Requests
<1> QED BY <1>4, <1>5, <1>6, <1>7, <1>8 DEF Request

LEMMA GoOn ==
    ASSUME Held, NEW a \in Actors, NEW u, Fits(u), u.op = task[a].op, task[a].at # "rest",
           task' = [task EXCEPT ![a] = u],
           UNCHANGED <<disk, mtime, clock, rows, dirty, phase, missed>>,
           a \in {Watcher, Starter} => HandFits(u, Excused(a)),
           \A p \in Slugs \ missed :
               Covers(task[a], p) => Reflects(rows[p], p) \/ Covers(u, p)
    PROVE  Held'
<1>1. task[a].op \in OpsOf(a) /\ Permitted(a)
  BY InHand
<1> QED BY <1>1, HandMoves

LEMMA GiveUp ==
    ASSUME Held, NEW a \in Actors, Give(a),
           UNCHANGED <<disk, mtime, clock, rows, dirty, phase, missed>>,
           \A p \in Slugs \ missed : Covers(task[a], p) => Reflects(rows[p], p)
    PROVE  Held'
BY RestFits, HandMoves DEF Give, Rest

\* Requests do nothing that the watcher or a scan does.
LEMMA Requested ==
    ASSUME Held, NEW a \in Actors,
           task[a].at \in {"check", "write", "stat", "unlink", "rename", "vacate", "clear", "moved"}
    PROVE  a \in Clients /\ a \notin {Watcher, Starter}
<1>1. Fits(task[a]) /\ task[a].op \in OpsOf(a)
  BY InHand
<1>2. task[a].op \in Requests
  BY <1>1 DEF Fits, OpFits, Requests, Moves
<1> QED BY <1>1, <1>2, WhoDoes, ActorsApart

LEMMA CheckKeeps == ASSUME Held, NEW a \in Actors, Check(a) PROVE Held'
<1>1. PICK t : t = task[a]
  OBVIOUS
<1>2. Fits(t) /\ t.at = "check" /\ a \notin {Watcher, Starter}
  BY <1>1, InHand, Requested DEF Check, At
<1>3. UNCHANGED <<disk, mtime, clock, rows, dirty, phase, missed>>
  BY DEF Check, files, history
<1>4. \A p \in Slugs : ~Covers(t, p)
  BY <1>2 DEF Fits, OpFits, Covers, Scans
<1>5. CASE Refused(t)
  <2>1. Give(a)
    BY <1>1, <1>5 DEF Check
  <2> QED BY <1>1, <1>3, <1>4, <2>1, GiveUp
<1>6. CASE ~Refused(t)
  <2>1. PICK where : where = CASE t.op = "create" -> "write" [] t.op = "delete" -> "unlink"
                               [] t.op = "move" -> "rename"
    OBVIOUS
  <2>2. t.op \in {"create", "delete", "move"}
    BY <1>2 DEF Fits, OpFits
  <2>3. /\ where \in {"write", "unlink", "rename"} /\ (where = "write" <=> t.op = "create")
        /\ (where = "unlink" <=> t.op = "delete") /\ (where = "rename" <=> t.op = "move")
    BY <2>1, <2>2
  <2>4. PICK u : u = [t EXCEPT !.at = where]
    OBVIOUS
  <2>5. Go(a, where, t)
    BY <1>1, <1>6, <2>1 DEF Check
  <2>6. task' = [task EXCEPT ![a] = u]
    BY <2>4, <2>5 DEF Go
  <2>7. {"write", "unlink", "rename"} \subseteq Places
    BY DEF Places
  <2>8. /\ u \in Tasks /\ u.at = where /\ u.op = t.op /\ u.slug = t.slug /\ u.src = t.src
        /\ u.body = t.body /\ u.todo = t.todo /\ u.gone = t.gone
    BY <1>2, <2>3, <2>4, <2>7, GoIs DEF Fits
  <2>9. OpFits(u)
    BY <1>2, <2>3, <2>8 DEF Fits, OpFits, Scans
  <2>10. DataFits(u)
    BY <1>2, <2>3, <2>8 DEF Fits, DataFits
  <2>11. Fits(u) /\ u.op = task[a].op /\ task[a].at # "rest"
    BY <1>1, <1>2, <2>8, <2>9, <2>10 DEF Fits
  <2> QED BY <1>1, <1>2, <1>3, <1>4, <2>6, <2>11, GoOn
<1> QED BY <1>5, <1>6

LEMMA AbandonKeeps ==
    ASSUME Held, NEW a \in Actors, Abandon(a), task[a].at \in {"read", "readstat"},
           task[a].op \notin Scans, UNCHANGED <<disk, mtime, clock, rows, dirty, phase>>
    PROVE  Held'
<1>1. PICK t : t = task[a]
  OBVIOUS
<1>2. Fits(t) /\ Permitted(a)
  BY <1>1, InHand
<1>3. Typed /\ PhasesFit
  BY DEF Held
<1>4. missed \subseteq missed' /\ missed' \subseteq Slugs
  BY <1>1, <1>2, <1>3 DEF Abandon, Typed, Fits, DataFits, Moves
<1>5. Watching' = Watching /\ \A b \in Actors : Permitted(b)' = Permitted(b)
  BY DEF Watching, Permitted, Serving
<1>6. \A b \in Actors \ {a} : ~Idle(b) => Permitted(b)'
  BY <1>3, <1>5 DEF PhasesFit
<1>7. dirty' \subseteq Slugs /\ dirty \subseteq dirty' /\ phase' \in Phases /\ (~Watching' => dirty' = {})
  BY <1>3, <1>5 DEF Typed, PhasesFit
<1>8. phase # "down"
  BY <1>2 DEF Permitted, Watching, Serving
<1>9. ASSUME NEW p \in Slugs \ missed', Covers(t, p)
      PROVE  Reflects(rows[p], p) \/ p \in dirty'
  <2>1. t.op = "move" /\ p \in {t.src, t.slug}
    BY <1>1, <1>2, <1>9 DEF Covers, Fits, OpFits
  <2> QED BY <1>1, <1>9, <2>1 DEF Abandon
<1>10. Fits(Rest) /\ Rest.op \in OpsOf(a) /\ Rest.at = "rest"
  BY RestFits DEF Rest
<1>11. \A late : HandFits(Rest, late)
  BY RestFits
<1>12. task' = [task EXCEPT ![a] = Rest]
  BY DEF Abandon, Give
<1> QED BY <1>1, <1>4, <1>6, <1>7, <1>8, <1>9, <1>10, <1>11, <1>12, TaskMoves

\* The next place of somebody who reads, with what is read in hand.
LEMMA ReadsOn ==
    ASSUME Held, NEW a \in Actors, task[a].at \in {"read", "readstat"},
           NEW where \in {"readstat", "remove", "drop", "write", "vacate", "upsert"},
           NEW body \in Contents, NEW stamp \in Stamps \cup {None}, NEW u,
           u = [[task[a] EXCEPT !.body = body, !.stamp = stamp] EXCEPT !.at = where],
           OpFits(u), DataFits(u),
           where = "write" => task[a].op = "patch",
           where \in {"drop", "remove", "upsert"} => task[a].op \in Scans,
           where = "vacate" => task[a].op \in Moves,
           task' = [task EXCEPT ![a] = u],
           UNCHANGED <<disk, mtime, clock, rows, dirty, phase, missed>>,
           (a \in {Watcher, Starter} /\ task[a].slug \notin Excused(a)) =>
                /\ where = "readstat" => body = disk[task[a].slug]
                /\ where = "upsert" => Reflects([body |-> body, stamp |-> stamp], task[a].slug)
                /\ where \in {"remove", "drop"} => ~IsPage(disk[task[a].slug])
    PROVE  Held'
<1>1. PICK t : t = task[a]
  OBVIOUS
<1>2. Fits(t) /\ (a \in {Watcher, Starter} => HandFits(t, Excused(a)))
  BY <1>1, InHand
<1>3. PICK r : r = [t EXCEPT !.body = body, !.stamp = stamp]
  OBVIOUS
<1>4. /\ r \in Tasks /\ r.at = t.at /\ r.op = t.op /\ r.slug = t.slug /\ r.src = t.src
      /\ r.body = body /\ r.stamp = stamp /\ r.todo = t.todo /\ r.gone = t.gone
  BY <1>2, <1>3 DEF Fits, Tasks
<1>5. {"readstat", "remove", "drop", "write", "vacate", "upsert"} \subseteq Places
  BY DEF Places
<1>6. /\ u \in Tasks /\ u.at = where /\ u.op = t.op /\ u.slug = t.slug /\ u.src = t.src
      /\ u.body = body /\ u.stamp = stamp /\ u.todo = t.todo /\ u.gone = t.gone
  <2>1. u = [r EXCEPT !.at = where] /\ where \in Places
    BY <1>1, <1>3, <1>5
  <2>2. r \in Tasks
    BY <1>4
  <2>3. /\ u \in Tasks /\ u.at = where /\ u.op = r.op /\ u.slug = r.slug /\ u.src = r.src
        /\ u.body = r.body /\ u.stamp = r.stamp /\ u.todo = r.todo /\ u.gone = r.gone
    BY ONLY <2>1, <2>2, GoIs
  <2> QED BY <1>4, <2>3
<1>7. Fits(u) /\ u.op = t.op /\ t.at # "rest"
  BY <1>1, <1>6 DEF Fits
<1>8. ASSUME a \in {Watcher, Starter} PROVE HandFits(u, Excused(a))
  BY <1>1, <1>2, <1>6, <1>8 DEF HandFits
<1>9. ASSUME NEW p \in Slugs, Covers(t, p) PROVE Covers(u, p)
  BY <1>1, <1>2, <1>6, <1>9 DEF Covers, Fits, OpFits, Scans, Moves
<1> QED BY <1>1, <1>7, <1>8, <1>9, GoOn

LEMMA SizeIsNat == ASSUME NEW b \in Contents PROVE Size(WordsOf(b)) \in Nat
<1>1. WordsOf(b) \subseteq Words
  BY DEF WordsOf, IsPage, Contents, Bodies
<1>2. IsFiniteSet(WordsOf(b))
  BY <1>1, WikiAssumption, FS_Subset
<1> QED BY <1>2, FS_CardinalityType DEF Size

LEMMA ReadKeeps == ASSUME Held, NEW a \in Actors, Read(a) PROVE Held'
<1>1. PICK t : t = task[a]
  OBVIOUS
<1>2. Fits(t) /\ t.at = "read" /\ t \in Tasks
  BY <1>1, InHand DEF Read, At, Fits
<1>3. UNCHANGED <<disk, mtime, clock, rows, dirty, phase>>
  BY DEF Read, files
<1>4. t.slug \in Slugs /\ disk[t.slug] \in Contents
  BY <1>2 DEF Fits, DataFits, Held, Typed
<1>5. t.body \in Contents /\ t.stamp \in Stamps \cup {None}
  BY <1>2 DEF Tasks
<1>6. CASE disk[t.slug] # None
  <2>1. PICK u : u = [[t EXCEPT !.body = disk[t.slug], !.stamp = t.stamp] EXCEPT !.at = "readstat"]
    OBVIOUS
  <2>2. [t EXCEPT !.body = disk[t.slug], !.stamp = t.stamp] = [t EXCEPT !.body = disk[t.slug]]
    BY <1>2 DEF Tasks
  <2>3. Go(a, "readstat", [t EXCEPT !.body = disk[t.slug]]) /\ UNCHANGED missed
    BY <1>1, <1>6 DEF Read
  <2>4. task' = [task EXCEPT ![a] = u]
    BY <2>1, <2>2, <2>3 DEF Go
  <2>5. /\ u.at = "readstat" /\ u.op = t.op /\ u.slug = t.slug /\ u.src = t.src
        /\ u.body = disk[t.slug] /\ u.todo = t.todo /\ u.gone = t.gone
    BY <1>2, <2>1 DEF Tasks
  <2>6. OpFits(u)
    BY <1>2, <2>5 DEF Fits, OpFits
  <2>7. DataFits(u)
    BY <1>2, <1>4, <1>6, <2>5 DEF Fits, DataFits
  <2>8. PICK b \in Contents : b = disk[t.slug]
    BY <1>4
  <2> QED BY <1>1, <1>2, <1>3, <1>5, <2>1, <2>3, <2>4, <2>6, <2>7, <2>8, ReadsOn
<1>7. CASE disk[t.slug] = None /\ (t.op = "watch" \/ Scanning(a))
  <2>1. PICK where \in {"remove", "drop"} : Go(a, where, t) /\ UNCHANGED missed
    BY <1>1, <1>7 DEF Read
  <2>2. PICK u : u = [[t EXCEPT !.body = t.body, !.stamp = t.stamp] EXCEPT !.at = where]
    OBVIOUS
  <2>3. [t EXCEPT !.body = t.body, !.stamp = t.stamp] = t
    BY <1>2 DEF Tasks
  <2>4. task' = [task EXCEPT ![a] = u]
    BY <2>1, <2>2, <2>3 DEF Go
  <2>5. /\ u.at = where /\ u.op = t.op /\ u.slug = t.slug /\ u.src = t.src
        /\ u.todo = t.todo /\ u.gone = t.gone
    BY <1>2, <2>2 DEF Tasks
  <2>6. t.op \in Scans
    BY <1>1, <1>7 DEF Scanning, Scans
  <2>7. OpFits(u)
    BY <1>2, <2>5, <2>6 DEF Fits, OpFits
  <2>8. DataFits(u)
    BY <1>2, <1>4, <2>5, <2>6 DEF Fits, DataFits
  <2>9. ~IsPage(disk[t.slug])
    BY <1>7 DEF IsPage
  <2> QED BY <1>1, <1>2, <1>3, <1>5, <2>1, <2>2, <2>4, <2>6, <2>7, <2>8, <2>9, ReadsOn
<1>8. CASE disk[t.slug] = None /\ ~(t.op = "watch" \/ Scanning(a))
  <2>1. Abandon(a) /\ t.op \notin Scans
    BY <1>1, <1>8 DEF Read, Scans, Scanning
  <2> QED BY <1>1, <1>2, <1>3, <2>1, AbandonKeeps
<1> QED BY <1>6, <1>7, <1>8

LEMMA ReadStatKeeps == ASSUME Held, NEW a \in Actors, ReadStat(a) PROVE Held'
<1>1. PICK t : t = task[a]
  OBVIOUS
<1>2. Fits(t) /\ t.at = "readstat" /\ t \in Tasks
  BY <1>1, InHand DEF ReadStat, At, Fits
<1>3. UNCHANGED <<disk, mtime, clock, rows, dirty, phase>>
  BY DEF ReadStat, files
<1>4. t.slug \in Slugs /\ disk[t.slug] \in Contents /\ mtime[t.slug] \in Nat /\ mtime[t.slug] <= clock
  BY <1>2 DEF Fits, DataFits, Held, Typed, StampsPast
<1>5. t.body \in Contents /\ t.stamp \in Stamps \cup {None}
  BY <1>2 DEF Tasks
<1>6. a \in {Watcher, Starter} => HandFits(t, Excused(a))
  BY <1>1, InHand
<1>7. CASE (disk[t.slug] = None \/ t.body = Garbled) /\ (t.op = "watch" \/ Scanning(a))
  <2>1. Go(a, "drop", t) /\ UNCHANGED missed
    BY <1>1, <1>7 DEF ReadStat
  <2>2. PICK u : u = [[t EXCEPT !.body = t.body, !.stamp = t.stamp] EXCEPT !.at = "drop"]
    OBVIOUS
  <2>3. [t EXCEPT !.body = t.body, !.stamp = t.stamp] = t
    BY <1>2 DEF Tasks
  <2>4. task' = [task EXCEPT ![a] = u]
    BY <2>1, <2>2, <2>3 DEF Go
  <2>5. /\ u.at = "drop" /\ u.op = t.op /\ u.slug = t.slug /\ u.src = t.src
        /\ u.todo = t.todo /\ u.gone = t.gone
    BY <1>2, <2>2 DEF Tasks
  <2>6. t.op \in Scans
    BY <1>1, <1>7 DEF Scanning, Scans
  <2>7. OpFits(u)
    BY <1>2, <2>5, <2>6 DEF Fits, OpFits
  <2>8. DataFits(u)
    BY <1>2, <1>4, <2>5, <2>6 DEF Fits, DataFits
  <2>9. (a \in {Watcher, Starter} /\ t.slug \notin Excused(a)) => ~IsPage(disk[t.slug])
    BY <1>2, <1>6, <1>7 DEF IsPage, HandFits
  <2> QED BY <1>1, <1>2, <1>3, <1>5, <2>1, <2>2, <2>4, <2>6, <2>7, <2>8, <2>9, ReadsOn
<1>8. CASE (disk[t.slug] = None \/ t.body = Garbled) /\ ~(t.op = "watch" \/ Scanning(a))
  <2>1. Abandon(a) /\ t.op \notin Scans
    BY <1>1, <1>8 DEF ReadStat, Scans, Scanning
  <2> QED BY <1>1, <1>2, <1>3, <2>1, AbandonKeeps
<1>9. CASE ~(disk[t.slug] = None \/ t.body = Garbled)
  <2>1. PICK where : where = CASE t.op = "patch" -> "write" [] t.src # None -> "vacate"
                               [] OTHER -> "upsert"
    OBVIOUS
  <2>2. PICK stamp : stamp = [mtime |-> mtime[t.slug], size |-> Size(WordsOf(t.body))]
    OBVIOUS
  <2>3. Go(a, where, [t EXCEPT !.stamp = stamp]) /\ UNCHANGED missed
    BY <1>1, <1>9, <2>1, <2>2 DEF ReadStat
  <2>4. stamp \in Stamps /\ stamp.mtime <= clock
    BY <1>4, <1>5, <2>2, SizeIsNat DEF Stamps
  <2>5. t.src # None <=> t.op \in Moves
    BY <1>2, WikiAssumption DEF Fits, DataFits
  <2>6. t.op \in Scans \cup Moves \cup {"patch"}
    BY <1>2 DEF Fits, OpFits
  <2>7. /\ where \in {"write", "vacate", "upsert"} /\ (where = "write" <=> t.op = "patch")
        /\ (where = "vacate" <=> t.op \in Moves) /\ (where = "upsert" <=> t.op \in Scans)
    BY <2>1, <2>5, <2>6 DEF Moves, Scans
  <2>8. PICK u : u = [[t EXCEPT !.body = t.body, !.stamp = stamp] EXCEPT !.at = where]
    OBVIOUS
  <2>9. [t EXCEPT !.body = t.body, !.stamp = stamp] = [t EXCEPT !.stamp = stamp]
    BY <1>2 DEF Tasks
  <2>10. task' = [task EXCEPT ![a] = u]
    BY <2>3, <2>8, <2>9 DEF Go
  <2>11. /\ u.at = where /\ u.op = t.op /\ u.slug = t.slug /\ u.src = t.src /\ u.body = t.body
         /\ u.stamp = stamp /\ u.todo = t.todo /\ u.gone = t.gone
    BY <1>2, <2>8 DEF Tasks
  <2>12. t.body \in Bodies
    BY <1>2, <1>5, <1>9 DEF Contents, Fits, DataFits
  <2>13. OpFits(u)
    BY <1>2, <2>7, <2>11 DEF Fits, OpFits, Moves, Scans
  <2>14. DataFits(u)
    BY <1>2, <1>4, <2>4, <2>7, <2>11, <2>12 DEF Fits, DataFits
  <2>15. (a \in {Watcher, Starter} /\ t.slug \notin Excused(a)) =>
            Reflects([body |-> t.body, stamp |-> stamp], t.slug)
    <3>1. SUFFICES ASSUME t.body = disk[t.slug]
                   PROVE  Reflects([body |-> t.body, stamp |-> stamp], t.slug)
      BY <1>2, <1>6 DEF HandFits
    <3>2. IsPage(disk[t.slug])
      BY <1>9, <3>1 DEF IsPage
    <3>3. stamp = Stamp(t.slug)
      BY <2>2, <3>1 DEF Stamp
    <3> QED BY <3>1, <3>2, <3>3 DEF Reflects
  <2> QED BY <1>1, <1>2, <1>3, <1>5, <2>3, <2>4, <2>7, <2>8, <2>10, <2>13, <2>14, <2>15, ReadsOn
<1> QED BY <1>7, <1>8, <1>9
-----------------------------------------------------------------------------
(* The scan and the batch.                                                 *)

LEMMA WalkKeeps == ASSUME Held, NEW a \in Actors, Walk(a) PROVE Held'
<1>1. PICK t : t = task[a]
  OBVIOUS
<1>2. Fits(t) /\ t.at = "walk" /\ t \in Tasks /\ (a \in {Watcher, Starter} => HandFits(t, Excused(a)))
  BY <1>1, InHand DEF Walk, At, Fits
<1>3. UNCHANGED <<disk, mtime, clock, rows, dirty, phase, missed>>
  BY DEF Walk, files, history
<1>4. PICK W : W = [p \in {q \in Slugs : disk[q] # None} |-> Stamp(p)]
  OBVIOUS
<1>5. W \in [{q \in Slugs : disk[q] # None} -> Stamps]
  <2>1. ASSUME NEW p \in Slugs PROVE Stamp(p) \in Stamps
    BY SizeIsNat DEF Stamp, Stamps, Held, Typed
  <2> QED BY <1>4, <2>1
<1>6. W \in Walks /\ DOMAIN W = {q \in Slugs : disk[q] # None}
  BY <1>5 DEF Walks
<1>7. PICK u : u = [[t EXCEPT !.walk = W] EXCEPT !.at = "compare"]
  OBVIOUS
<1>8. /\ u \in Tasks /\ u.at = "compare" /\ u.op = t.op /\ u.slug = t.slug /\ u.src = t.src
      /\ u.walk = W /\ u.todo = t.todo /\ u.gone = t.gone
  BY <1>2, <1>6, <1>7 DEF Tasks, Places
<1>9. Go(a, "compare", [t EXCEPT !.walk = W])
  BY <1>1, <1>4 DEF Walk
<1>10. task' = [task EXCEPT ![a] = u]
  BY <1>7, <1>9 DEF Go
<1>11. Fits(u)
  <2>1. OpFits(u)
    BY <1>2, <1>8 DEF Fits, OpFits
  <2>2. DataFits(u)
    BY <1>2, <1>6, <1>8 DEF Fits, DataFits
  <2> QED BY <1>8, <2>1, <2>2 DEF Fits
<1>12. ASSUME a \in {Watcher, Starter} PROVE HandFits(u, Excused(a))
  BY <1>2, <1>6, <1>8, <1>12 DEF HandFits
<1>13. ASSUME NEW p \in Slugs \ missed PROVE Reflects(rows[p], p) \/ Covers(u, p)
  <2>1. CASE disk[p] # None
    <3>1. p \in DOMAIN u.walk /\ u.walk[p] = Stamp(p)
      BY <1>4, <1>6, <1>8, <2>1
    <3>2. Vouches(rows[p], p) => Reflects(rows[p], p)
      BY DEF Held, VouchedIsTrue
    <3> QED BY <1>8, <2>1, <3>1, <3>2 DEF Covers, WillLook, Vouches
  <2>2. CASE disk[p] = None
    <3>1. p \notin DOMAIN u.walk /\ ~IsPage(disk[p])
      BY <1>6, <1>8, <2>2 DEF IsPage
    <3> QED BY <1>8, <3>1 DEF Covers, WillLook, Reflects
  <2> QED BY <2>1, <2>2
<1> QED BY <1>1, <1>2, <1>3, <1>8, <1>10, <1>11, <1>12, <1>13, GoOn

LEMMA CompareKeeps == ASSUME Held, NEW a \in Actors, Compare(a) PROVE Held'
<1>1. PICK t : t = task[a]
  OBVIOUS
<1>2. Fits(t) /\ t.at = "compare" /\ t \in Tasks /\ (a \in {Watcher, Starter} => HandFits(t, Excused(a)))
  BY <1>1, InHand DEF Compare, At, Fits
<1>3. UNCHANGED <<disk, mtime, clock, rows, dirty, phase, missed>>
  BY DEF Compare, files, history
<1> DEFINE walk == t.walk
           indexed == {p \in Slugs : rows[p] # None}
           unchanged == {p \in indexed \cap DOMAIN walk : rows[p].stamp = walk[p]}
<1>4. PICK todo : todo = DOMAIN walk \ unchanged
  OBVIOUS
<1>5. PICK gone : gone = indexed \ DOMAIN walk
  OBVIOUS
<1>6. todo \subseteq Slugs /\ gone \subseteq Slugs /\ todo \cap gone = {} /\ t.op \in {"scan", "reindex"}
  BY <1>2, <1>4, <1>5 DEF Fits, DataFits, OpFits
<1>7. PICK u : u = [[t EXCEPT !.walk = <<>>, !.todo = todo, !.gone = gone] EXCEPT !.at = "next"]
  OBVIOUS
<1>8. <<>> \in Walks
  BY DEF Walks
<1>9. /\ u \in Tasks /\ u.at = "next" /\ u.op = t.op /\ u.slug = t.slug /\ u.src = t.src
      /\ u.todo = todo /\ u.gone = gone
  BY <1>2, <1>6, <1>7, <1>8 DEF Tasks, Places
<1>10. Go(a, "next", [t EXCEPT !.walk = <<>>, !.todo = todo, !.gone = gone])
  BY <1>1, <1>4, <1>5 DEF Compare
<1>11. task' = [task EXCEPT ![a] = u]
  BY <1>7, <1>10 DEF Go
<1>12. Fits(u)
  <2>1. OpFits(u)
    BY <1>6, <1>9 DEF OpFits, Scans
  <2>2. DataFits(u)
    BY <1>2, <1>6, <1>9 DEF Fits, DataFits
  <2> QED BY <1>9, <2>1, <2>2 DEF Fits
<1>13. ASSUME a \in {Watcher, Starter} PROVE HandFits(u, Excused(a))
  BY <1>2, <1>5, <1>6, <1>9, <1>13 DEF HandFits
<1>14. ASSUME NEW p \in Slugs, Covers(t, p) PROVE Covers(u, p)
  <2>1. WillLook(t, p)
    BY <1>2, <1>14 DEF Covers, Fits, OpFits
  <2>2. p \in todo \cup gone
    BY <1>4, <1>5, <2>1 DEF WillLook
  <2> QED BY <1>9, <2>2 DEF Covers
<1> QED BY <1>1, <1>2, <1>3, <1>9, <1>11, <1>12, <1>13, <1>14, GoOn

LEMMA PickPageKeeps == ASSUME Held, NEW a \in Actors, PickPage(a) PROVE Held'
<1>1. PICK t : t = task[a]
  OBVIOUS
<1>2. Fits(t) /\ t.at = "next" /\ t \in Tasks /\ (a \in {Watcher, Starter} => HandFits(t, Excused(a)))
  BY <1>1, InHand DEF PickPage, At, Fits
<1>3. UNCHANGED <<disk, mtime, clock, rows, dirty, phase, missed>>
  BY DEF PickPage, files, history
<1>4. PICK p \in t.todo : Go(a, "read", [t EXCEPT !.slug = p, !.todo = @ \ {p}])
  BY <1>1 DEF PickPage
<1>5. PICK u : u = [[t EXCEPT !.slug = p, !.todo = @ \ {p}] EXCEPT !.at = "read"]
  OBVIOUS
<1>6. p \in Slugs
  BY <1>2, <1>4 DEF Tasks
<1>7. /\ u \in Tasks /\ u.at = "read" /\ u.op = t.op /\ u.slug = p /\ u.src = t.src
      /\ u.todo = t.todo \ {p} /\ u.gone = t.gone
  BY <1>2, <1>5, <1>6 DEF Tasks, Places
<1>8. task' = [task EXCEPT ![a] = u]
  BY <1>4, <1>5 DEF Go
<1>9. Fits(u)
  <2>1. OpFits(u)
    BY <1>2, <1>7 DEF Fits, OpFits
  <2>2. DataFits(u)
    BY <1>2, <1>6, <1>7 DEF Fits, DataFits, OpFits, Scans
  <2> QED BY <1>7, <2>1, <2>2 DEF Fits
<1>10. ASSUME a \in {Watcher, Starter} PROVE HandFits(u, Excused(a))
  BY <1>2, <1>4, <1>7, <1>10 DEF HandFits
<1>11. ASSUME NEW q \in Slugs, Covers(t, q) PROVE Covers(u, q)
  BY <1>2, <1>7, <1>11 DEF Covers, Fits, OpFits
<1> QED BY <1>1, <1>2, <1>3, <1>7, <1>8, <1>9, <1>10, <1>11, GoOn

LEMMA PickGoneKeeps == ASSUME Held, NEW a \in Actors, PickGone(a) PROVE Held'
<1>1. PICK t : t = task[a]
  OBVIOUS
<1>2. Fits(t) /\ t.at = "next" /\ t \in Tasks /\ (a \in {Watcher, Starter} => HandFits(t, Excused(a)))
  BY <1>1, InHand DEF PickGone, At, Fits
<1>3. UNCHANGED <<disk, mtime, clock, rows, dirty, phase, missed>>
  BY DEF PickGone, files, history
<1>4. PICK p \in t.gone : Go(a, "remove", [t EXCEPT !.slug = p, !.gone = @ \ {p}])
  BY <1>1 DEF PickGone
<1>5. PICK u : u = [[t EXCEPT !.slug = p, !.gone = @ \ {p}] EXCEPT !.at = "remove"]
  OBVIOUS
<1>6. p \in Slugs
  BY <1>2, <1>4 DEF Tasks
<1>7. /\ u \in Tasks /\ u.at = "remove" /\ u.op = t.op /\ u.slug = p /\ u.src = t.src
      /\ u.todo = t.todo /\ u.gone = t.gone \ {p}
  BY <1>2, <1>5, <1>6 DEF Tasks, Places
<1>8. task' = [task EXCEPT ![a] = u]
  BY <1>4, <1>5 DEF Go
<1>9. Fits(u)
  <2>1. OpFits(u)
    BY <1>2, <1>7 DEF Fits, OpFits
  <2>2. DataFits(u)
    BY <1>2, <1>6, <1>7 DEF Fits, DataFits, OpFits, Scans
  <2> QED BY <1>7, <2>1, <2>2 DEF Fits
<1>10. ASSUME a \in {Watcher, Starter} PROVE HandFits(u, Excused(a))
  BY <1>2, <1>4, <1>7, <1>10 DEF HandFits, IsPage
<1>11. ASSUME NEW q \in Slugs, Covers(t, q) PROVE Covers(u, q)
  BY <1>2, <1>7, <1>11 DEF Covers, Fits, OpFits
<1> QED BY <1>1, <1>2, <1>3, <1>7, <1>8, <1>9, <1>10, <1>11, GoOn

\* On to the next page, or to the answer.
LEMMA TurnsTo ==
    ASSUME NEW a \in Actors, NEW t, t = task[a], Fits(t), t.at \in {"observe", "moved", "close", "drop"},
           Turn(a)
    PROVE  \E u : /\ task' = [task EXCEPT ![a] = u] /\ Fits(u)
                  /\ \/ u = Rest /\ t.op \notin Scans
                     \/ u.at = "next" /\ u.op = t.op /\ u.todo = t.todo /\ u.gone = t.gone /\ t.op \in Scans
                        /\ u.slug = t.slug
<1>1. CASE t.op \notin Scans
  <2>1. task' = [task EXCEPT ![a] = Rest]
    BY <1>1 DEF Turn, Scans
  <2> QED BY <1>1, <2>1, RestFits
<1>2. CASE t.op \in Scans
  <2>1. PICK u : u = [t EXCEPT !.at = "next"]
    OBVIOUS
  <2>2. task' = [task EXCEPT ![a] = u]
    BY <1>2, <2>1 DEF Turn, Scans, Go
  <2>3. /\ u \in Tasks /\ u.at = "next" /\ u.op = t.op /\ u.slug = t.slug /\ u.src = t.src
        /\ u.todo = t.todo /\ u.gone = t.gone
    BY <2>1 DEF Fits, Tasks, Places
  <2>4. OpFits(u)
    BY <1>2, <2>3 DEF OpFits
  <2>5. DataFits(u)
    BY <2>3 DEF Fits, DataFits
  <2> QED BY <1>2, <2>2, <2>3, <2>4, <2>5 DEF Fits
<1> QED BY <1>1, <1>2

LEMMA TurnKeeps ==
    ASSUME Held, NEW a \in Actors, Turn(a), task[a].at \in {"observe", "moved", "close"},
           UNCHANGED <<disk, mtime, clock, rows, dirty, phase, missed>>
    PROVE  Held'
<1>1. PICK t : t = task[a]
  OBVIOUS
<1>2. /\ Fits(t) /\ t.op \in OpsOf(a) /\ Permitted(a) /\ t.at \in {"observe", "moved", "close"}
      /\ (a \in {Watcher, Starter} => HandFits(t, Excused(a)))
  BY <1>1, InHand
<1>3. PICK u : /\ task' = [task EXCEPT ![a] = u] /\ Fits(u)
               /\ \/ u = Rest /\ t.op \notin Scans
                  \/ u.at = "next" /\ u.op = t.op /\ u.todo = t.todo /\ u.gone = t.gone
                     /\ t.op \in Scans /\ u.slug = t.slug
  BY <1>1, <1>2, TurnsTo
<1>4. u.op \in OpsOf(a)
  BY <1>2, <1>3, RestFits
<1>5. ASSUME a \in {Watcher, Starter} PROVE HandFits(u, Excused(a))
  BY <1>2, <1>3, <1>5, RestFits DEF HandFits
<1>6. ASSUME NEW p \in Slugs, Covers(t, p) PROVE Covers(u, p)
  <2>1. p \in t.todo \cup t.gone
    BY <1>2, <1>6 DEF Covers
  <2>2. t.op \in Scans
    BY <1>2, <2>1 DEF Fits, OpFits
  <2> QED BY <1>3, <2>1, <2>2, RestFits DEF Covers, Rest, Scans
<1> QED BY <1>1, <1>2, <1>3, <1>4, <1>5, <1>6, HandMoves

LEMMA RecordKeeps == ASSUME Held, NEW a \in Actors, Record(a) \/ LoseLine(a) PROVE Held'
<1>1. task[a].at \in {"observe", "moved", "close"}
  BY DEF Record, LoseLine, Due
<1>2. Turn(a) /\ UNCHANGED <<disk, mtime, clock, rows, dirty, phase, missed>>
  BY DEF Record, LoseLine, files, history
<1> QED BY <1>1, <1>2, TurnKeeps

LEMMA DoneKeeps == ASSUME Held, NEW a \in Actors, Done(a) PROVE Held'
<1>1. PICK t : t = task[a]
  OBVIOUS
<1>2. t.at = "next" /\ t.todo = {} /\ t.gone = {} /\ Permitted(a) /\ Typed /\ PhasesFit
  BY <1>1, InHand DEF Done, At, Held
<1>3. UNCHANGED <<disk, mtime, clock, rows, dirty, missed>> /\ task' = [task EXCEPT ![a] = Rest]
  BY DEF Done, files, history, Give
<1>4. phase' = IF a = Starter THEN "reconciled" ELSE phase
  BY DEF Done
<1>5. \A p \in Slugs : ~Covers(t, p)
  BY <1>2 DEF Covers
<1>6. Fits(Rest) /\ Rest.op \in OpsOf(a) /\ Rest.at = "rest"
  BY RestFits DEF Rest
<1>7. \A late : HandFits(Rest, late)
  BY RestFits
<1>8. missed' \subseteq Slugs /\ dirty' \subseteq Slugs /\ phase # "down"
  BY <1>2, <1>3 DEF Typed, Permitted, Watching, Serving
<1>9. \A b \in Actors \ {a} : ~Idle(b) => Permitted(b)'
  <2>1. CASE a = Starter
    BY <1>2, <2>1 DEF PhasesFit, Permitted, Watching, Serving
  <2>2. CASE a # Starter
    BY <1>2, <1>4, <2>2 DEF PhasesFit, Permitted, Watching, Serving
  <2> QED BY <2>1, <2>2
<1>10. phase' \in Phases /\ (~Watching' => dirty' = {})
  BY <1>2, <1>3, <1>4 DEF Typed, Phases, PhasesFit, Permitted, Watching
<1> QED BY <1>1, <1>3, <1>5, <1>6, <1>7, <1>8, <1>9, <1>10, TaskMoves

LEMMA TakeBatchKeeps == ASSUME Held, Batch \/ Rescan PROVE Held'
<1>1. PICK op \in {"watch", "scan"}, where \in {"next", "walk"}, slugs \in {dirty, {}} :
            /\ TakeBatch(op, where, slugs)
            /\ (op = "watch" /\ where = "next" /\ slugs = dirty) \/ (op = "scan" /\ where = "walk" /\ slugs = {})
  BY DEF Batch, Rescan
<1>2. Typed /\ PhasesFit /\ Watching /\ dirty' = {} /\ task[Watcher].at = "rest"
  BY <1>1 DEF Held, TakeBatch, Idle
<1>3. UNCHANGED <<disk, mtime, clock, rows, phase, missed>>
  BY <1>1 DEF TakeBatch, files, history
<1>4. Watcher \in Actors
  BY DEF Actors
<1>5. task[Watcher] = Rest
  BY <1>2, <1>4, InHand DEF Fits, OpFits
<1>6. PICK r : r = [Rest EXCEPT !.op = op, !.todo = slugs]
  OBVIOUS
<1>7. DOMAIN Rest = {"at", "op", "slug", "src", "body", "stamp", "change", "walk", "todo", "gone"}
  BY DEF Rest
<1>8. slugs \subseteq Slugs /\ Rest \in Tasks /\ op \in Ops
  BY <1>1, <1>2, RestFits DEF Typed, Fits, Ops
<1>9. r \in Tasks /\ r.op = op /\ r.todo = slugs /\ r.slug = None /\ r.src = None /\ r.gone = {}
  <2>1. r \in Tasks /\ r.op = op /\ r.todo = slugs /\ r.slug = Rest.slug /\ r.src = Rest.src /\ r.gone = Rest.gone
    BY <1>6, <1>8 DEF Tasks
  <2> QED BY <2>1 DEF Rest
<1>10. PICK u : u = [r EXCEPT !.at = where]
  OBVIOUS
<1>11. where \in Places
  BY DEF Places
<1>12. u \in Tasks /\ u.at = where /\ u.op = op /\ u.todo = slugs /\ u.slug = None /\ u.src = None /\ u.gone = {}
  BY <1>9, <1>10, <1>11, GoIs
<1>13. task' = [task EXCEPT ![Watcher] = u]
  BY <1>1, <1>6, <1>10 DEF TakeBatch, Go
<1>14. OpFits(u)
  BY <1>1, <1>12 DEF OpFits, Scans
<1>15. DataFits(u)
  BY <1>1, <1>12, WikiAssumption DEF DataFits, Scans, Moves
<1>16. Fits(u) /\ u.op \in OpsOf(Watcher)
  BY <1>12, <1>14, <1>15 DEF Fits, OpsOf
<1>17. HandFits(u, dirty')
  BY <1>1, <1>12 DEF HandFits
<1>18. \A p \in Slugs : ~Covers(task[Watcher], p)
  BY <1>5, RestFits
<1>19. \A p \in Slugs : p \in dirty => Covers(u, p)
  BY <1>1, <1>12 DEF Covers
<1>20. \A b \in Actors : Permitted(b)' = Permitted(b)
  BY <1>3 DEF Permitted, Watching, Serving
<1>21. Permitted(Watcher)' /\ \A b \in Actors \ {Watcher} : ~Idle(b) => Permitted(b)'
  BY <1>2, <1>3, <1>4, <1>20, ActorsApart DEF PhasesFit, Permitted, Watching
<1>22. phase' \in Phases /\ missed' \subseteq Slugs /\ dirty' \subseteq Slugs /\ phase # "down"
  BY <1>2, <1>3 DEF Typed, Watching
<1>23. HandFits(u, IF Watcher = Starter THEN missed' ELSE dirty')
  BY <1>17, ActorsApart
<1> QED BY <1>2, <1>3, <1>4, <1>13, <1>16, <1>18, <1>19, <1>21, <1>22, <1>23, TaskMoves

LEMMA StartKeeps == ASSUME Held, Start PROVE Held'
<1>1. Typed /\ PhasesFit /\ phase = "down" /\ phase' = "starting"
  BY DEF Held, Start
<1>2. UNCHANGED <<disk, mtime, clock, rows, dirty, missed>>
  BY DEF Start, files, history
<1>3. Starter \in Actors
  BY DEF Actors
<1>4. PICK r : r = [Rest EXCEPT !.op = "scan"]
  OBVIOUS
<1>5. r \in Tasks /\ r.op = "scan" /\ r.todo = {} /\ r.slug = None /\ r.src = None /\ r.gone = {}
  <2>1. r \in Tasks /\ r.op = "scan" /\ r.todo = Rest.todo /\ r.slug = Rest.slug /\ r.src = Rest.src /\ r.gone = Rest.gone
    BY <1>4, RestFits DEF Fits, Tasks, Ops
  <2> QED BY <2>1 DEF Rest
<1>6. PICK u : u = [r EXCEPT !.at = "walk"]
  OBVIOUS
<1>7. "walk" \in Places
  BY DEF Places
<1>8. u \in Tasks /\ u.at = "walk" /\ u.op = "scan" /\ u.todo = {} /\ u.slug = None /\ u.src = None /\ u.gone = {}
  BY <1>5, <1>6, <1>7, GoIs
<1>9. task' = [task EXCEPT ![Starter] = u]
  BY <1>4, <1>6 DEF Start, Go
<1>10. OpFits(u)
  BY <1>8 DEF OpFits, Scans
<1>11. DataFits(u)
  BY <1>8, WikiAssumption DEF DataFits, Scans, Moves
<1>12. Fits(u) /\ u.op \in OpsOf(Starter)
  BY <1>8, <1>10, <1>11, ActorsApart DEF Fits, OpsOf
<1>13. \A late : HandFits(u, late)
  BY <1>8 DEF HandFits
<1>14. \A p \in Slugs : Covers(u, p)
  BY <1>8 DEF Covers
<1>15. Permitted(Starter)' /\ \A b \in Actors \ {Starter} : ~Idle(b) => Permitted(b)'
  BY <1>1 DEF PhasesFit, Permitted, Watching, Serving
<1>16. phase' \in Phases /\ missed' \subseteq Slugs /\ dirty' \subseteq Slugs /\ (~Watching' => dirty' = {})
  BY <1>1, <1>2 DEF Typed, Phases, PhasesFit, Watching
<1> QED BY <1>2, <1>3, <1>9, <1>12, <1>13, <1>14, <1>15, <1>16, TaskMoves

LEMMA ServeKeeps == ASSUME Held, Serve PROVE Held'
<1>1. Typed /\ PhasesFit /\ phase = "reconciled" /\ phase' \in {"up", "blind"}
  BY DEF Held, Serve
<1>2. UNCHANGED <<disk, mtime, clock, rows, dirty, missed, task>>
  BY DEF Serve, files, history
<1>3. Starter \in Actors /\ DOMAIN task = Actors
  BY DEF Actors, Held, TasksFit
<1>4. \A a \in Actors : Idle(a)
  BY <1>1 DEF PhasesFit, Permitted, Watching, Serving
<1>5. task[Starter] = Rest
  BY <1>3, <1>4, InHand DEF Fits, OpFits, Idle
<1>6. task' = [task EXCEPT ![Starter] = Rest]
  <2>1. task \in [Actors -> Tasks]
    BY DEF Held, TasksFit
  <2> QED BY <1>2, <1>3, <1>5, <2>1
<1>7. Fits(Rest) /\ Rest.op \in OpsOf(Starter) /\ Rest.at = "rest"
  BY <1>3, RestFits DEF Rest
<1>8. \A late : HandFits(Rest, late)
  BY RestFits
<1>9. \A p \in Slugs : ~Covers(task[Starter], p)
  BY <1>5, RestFits
<1>10. \A b \in Actors \ {Starter} : ~Idle(b) => Permitted(b)'
  BY <1>4
<1>11. phase' \in Phases /\ missed' \subseteq Slugs /\ dirty' \subseteq Slugs /\ (~Watching' => dirty' = {}) /\ phase # "down"
  BY <1>1, <1>2 DEF Typed, Phases, PhasesFit, Watching
<1> QED BY <1>2, <1>3, <1>6, <1>7, <1>8, <1>9, <1>10, <1>11, TaskMoves-----------------------------------------------------------------------------
(* What a write is worth.                                                  *)

LEMMA MaxIsThere ==
    ASSUME NEW S \in SUBSET Nat, S # {}, NEW n \in Nat, \A x \in S : x <= n
    PROVE  Max(S) \in S
<1> DEFINE Bounds == {m \in Nat : \A x \in S : x <= m}
<1>1. PICK m \in Bounds : \A k \in Bounds : ~ (<<k, m>> \in OpToRel(<, Nat))
  BY NatLessThanWellFounded, WFMin
<1>2. m \in S
  <2>1. SUFFICES ASSUME m \notin S PROVE FALSE
    OBVIOUS
  <2>2. \A x \in S : x < m /\ x \in Nat
    BY <2>1
  <2>3. m - 1 \in Nat /\ \A x \in S : x <= m - 1
    <3>1. PICK x \in S : TRUE
      OBVIOUS
    <3> QED BY ONLY <2>2, <3>1, m \in Nat
  <2>4. <<m - 1, m>> \in OpToRel(<, Nat)
    BY <2>3 DEF OpToRel
  <2> QED BY <1>1, <2>3, <2>4
<1>3. \A y \in S : m >= y
  BY <1>1
<1> QED BY <1>2, <1>3 DEF Max

LEMMA LastTotalIsNat ==
    ASSUME NEW lines \in Seq(Lines), NEW p
    PROVE  LastTotal(lines, p) \in Nat \cup {None}
<1> DEFINE closing == {i \in DOMAIN lines : \/ lines[i].slug = p /\ lines[i].kind = "deleted"
                                            \/ lines[i].src = p /\ lines[i].kind = "moved"}
           open == {i \in DOMAIN lines : lines[i].slug = p /\ \A j \in closing : i > j}
<1>1. CASE open = {}
  BY <1>1 DEF LastTotal
<1>2. CASE open # {}
  <2>1. open \subseteq Nat /\ Len(lines) \in Nat /\ \A i \in open : i <= Len(lines)
    OBVIOUS
  <2>2. Max(open) \in open
    BY <1>2, <2>1, MaxIsThere
  <2>3. PICK i \in DOMAIN lines : i = Max(open)
    BY <2>2
  <2>4. lines[i] \in Lines
    OBVIOUS
  <2>5. lines[i].total \in Nat
    BY <2>4 DEF Lines
  <2>6. LastTotal(lines, p) = lines[i].total
    BY <1>2, <2>3 DEF LastTotal
  <2> QED BY <2>5, <2>6
<1> QED BY <1>1, <1>2

LEMMA WeighTyped ==
    ASSUME NEW last \in Nat \cup {None}, NEW before \in Bodies \cup {None}, NEW after \in Bodies
    PROVE  Weigh(last, before, after) \in Changes
<1>1. ASSUME NEW body \in Bodies PROVE Size(body) \in Nat
  BY <1>1, WikiAssumption, FS_Subset, FS_CardinalityType DEF Bodies, Size
<1>2. Size(after) \in Nat
  BY <1>1
<1>3. ASSUME NEW kind \in {"baseline", "observed", "net"}, NEW added \in Nat, NEW removed \in Nat
      PROVE  Change(kind, [added |-> added, removed |-> removed], Size(after)) \in Changes
  BY <1>2 DEF Change, Changes
<1>4. ASSUME before # None PROVE Change("observed", Churn(before, after), Size(after)) \in Changes
  <2>1. after \ before \in Bodies /\ before \ after \in Bodies
    BY <1>4 DEF Bodies
  <2> QED BY <1>1, <1>3, <2>1 DEF Churn
<1>5. ASSUME last # None PROVE Change("net", Net(last, Size(after)), Size(after)) \in Changes
  <2>1. PICK m \in Nat, n \in Nat : m = last /\ n = Size(after)
    BY <1>2, <1>5
  <2>2. (IF n > m THEN n - m ELSE 0) \in Nat /\ (IF m > n THEN m - n ELSE 0) \in Nat
    OBVIOUS
  <2> QED BY <1>3, <2>1, <2>2 DEF Net
<1>6. Change("baseline", Nothing, Size(after)) \in Changes /\ Change("observed", Nothing, Size(after)) \in Changes
  BY <1>3 DEF Nothing
<1> QED BY <1>4, <1>5, <1>6 DEF Weigh

-----------------------------------------------------------------------------
(* Rows.                                                                   *)

LEMMA PutKeeps ==
    ASSUME Held, NEW a \in Actors, NEW p \in Slugs, NEW row \in Rows \cup {None}, NEW t,
           Put(a, p, row), task' = [task EXCEPT ![a] = t], Fits(t), t.op \in OpsOf(a),
           task[a].at # "rest", t.at \notin {"stat", "compare"},
           row # None => row.stamp.mtime <= clock,
           UNCHANGED <<disk, mtime, clock, dirty, phase>>,
           a \in {Watcher, Starter} =>
                /\ Reflects(row, p) \/ p \in Excused(a)
                /\ HandFits(t, Excused(a) \ {p}),
           \A q \in Slugs \ {p} : Covers(task[a], q) => Covers(t, q)
    PROVE  Held'
<1>1. task'[a] = t /\ DOMAIN task' = Actors /\ \A b \in Actors \ {a} : task'[b] = task[b]
  BY DEF Held, TasksFit
<1>2. rows'[p] = row /\ \A q \in Slugs \ {p} : rows'[q] = rows[q]
  BY DEF Put, Held, Typed
<1>3. /\ missed \ {p} \subseteq missed' /\ missed' \subseteq missed \cup {p}
      /\ Reflects(row, p) \/ p \in missed' \/ ~Vouches(row, p)
      /\ Reflects(row, p) \/ p \in missed' \/ p \in dirty \/ (a \notin Clients /\ missed' = missed)
  BY DEF Put
<1>4. Typed'
  <2>1. rows' \in [Slugs -> Rows \cup {None}]
    BY DEF Held, Typed, Put
  <2> QED BY <1>3, <2>1 DEF Held, Typed
<1>5. Watching' = Watching /\ \A b : Permitted(b)' = Permitted(b)
  BY DEF Watching, Permitted, Serving
<1>6. ASSUME NEW b \in Actors
      PROVE  Fits(task[b])' /\ task'[b].op \in OpsOf(b) /\ (task'[b].at # "rest" => Permitted(b)')
  <2>1. PICK u : u = task'[b]
    OBVIOUS
  <2>2. Fits(u) /\ u.op \in OpsOf(b) /\ (u.at # "rest" => Permitted(b))
    BY <1>1, <2>1, InHand
  <2>3. Fits(u)'
    BY <2>2, FitsLasts DEF Held, Typed
  <2> QED BY <1>5, <2>1, <2>2, <2>3
<1>7. TasksFit'
  <2>1. t \in Tasks
    BY DEF Fits
  <2>2. task' \in [Actors -> Tasks]
    BY <2>1 DEF Held, TasksFit
  <2> QED BY <1>6, <2>2 DEF TasksFit
<1>8. PhasesFit'
  BY <1>5, <1>6 DEF PhasesFit, Idle, At, OpsOf, Held
<1>9. StampsPast'
  BY <1>2 DEF Held, StampsPast
<1>10. ASSUME NEW r, NEW q PROVE (Reflects(r, q)' <=> Reflects(r, q)) /\ (Vouches(r, q)' <=> Vouches(r, q))
  BY ReflectsLasts
<1>11. VouchedIsTrue'
  <2> SUFFICES ASSUME NEW q \in Slugs \ missed', Vouches(rows[q], q)' PROVE Reflects(rows[q], q)'
    BY DEF VouchedIsTrue
  <2>1. CASE q = p
    <3>1. Reflects(row, p) \/ ~Vouches(row, p)
      BY <1>3, <2>1
    <3> QED BY <1>2, <1>10, <2>1, <3>1
  <2>2. CASE q # p
    <3>1. rows'[q] = rows[q] /\ q \notin missed
      BY <1>2, <1>3, <2>2
    <3>2. Vouches(rows[q], q) => Reflects(rows[q], q)
      BY <3>1 DEF Held, VouchedIsTrue
    <3>3. PICK r : r = rows[q]
      OBVIOUS
    <3> QED BY <1>10, <3>1, <3>2, <3>3
  <2> QED BY <2>1, <2>2
<1>12. ASSUME NEW b \in {Watcher, Starter}
       PROVE  HandFits(task[b], Excused(b))'
  <2>1. b \in Actors
    BY DEF Actors
  <2>2. PICK u : u = task'[b]
    OBVIOUS
  <2>3. PICK e : e = IF b = a THEN Excused(b) \ {p} ELSE Excused(b)
    OBVIOUS
  <2>4. PICK f : f = Excused(b)'
    OBVIOUS
  <2>5. CASE b = a \/ b = Watcher
    <3>1. HandFits(u, e)
      BY <1>1, <2>1, <2>2, <2>3, <2>5, InHand
    <3>2. e \subseteq f
      BY <1>3, <2>3, <2>4, <2>5, ActorsApart DEF Excused
    <3>3. Fits(u)
      BY <1>1, <2>1, <2>2, InHand
    <3>4. u.gone \subseteq Slugs /\ (u.at \in {"readstat", "upsert", "remove", "drop"} => u.slug \in Slugs)
      BY <3>3 DEF Fits, Tasks, DataFits
    <3>5. HandFits(u, f)'
      BY <3>1, <3>2, <3>4, HandLasts
    <3> QED BY <2>2, <2>4, <3>5
  <2>6. CASE b = Starter /\ b # a
    <3>1. Permitted(a)
      BY InHand
    <3>2. task[b].at = "rest"
      BY <2>1, <2>6, <3>1, InHand DEF Permitted, Watching, Serving
    <3>3. u = Rest
      BY <1>1, <2>1, <2>2, <2>6, <3>2, InHand DEF Fits, OpFits
    <3>4. u.at = "rest" /\ u.todo = {} /\ u.gone = {}
      BY <3>3 DEF Rest
    <3>5. HandFits(u, f)'
      BY <3>4 DEF HandFits
    <3> QED BY <2>2, <2>4, <3>5
  <2> QED BY <2>5, <2>6
<1>13. AllCovered'
  <2> SUFFICES ASSUME NEW q \in Slugs \ missed'
               PROVE  (Reflects(rows[q], q) \/ phase = "down" \/ q \in dirty)' \/ \E b \in Actors : Covers(task[b], q)'
    BY DEF AllCovered
  <2>1. CASE q = p
    <3>1. CASE Reflects(row, p)
      BY <1>2, <1>10, <2>1, <3>1
    <3>2. CASE ~Reflects(row, p)
      <4> SUFFICES ASSUME p \notin dirty PROVE FALSE
        BY <2>1
      <4>1. a \in {Watcher, Starter} /\ missed' = missed
        BY <1>3, <2>1, <3>2 DEF Actors
      <4>2. p \in Excused(a) /\ p \notin missed
        BY <2>1, <3>2, <4>1
      <4> QED BY <2>1, <4>1, <4>2 DEF Excused
    <3> QED BY <3>1, <3>2
  <2>2. CASE q # p
    <3>1. rows'[q] = rows[q] /\ q \notin missed
      BY <1>2, <1>3, <2>2
    <3>2. Reflects(rows[q], q) \/ phase = "down" \/ q \in dirty \/ \E b \in Actors : Covers(task[b], q)
      BY <3>1 DEF Held, AllCovered
    <3>3. CASE Reflects(rows[q], q)
      <4>1. PICK r : r = rows[q]
        OBVIOUS
      <4> QED BY <1>10, <3>1, <3>3, <4>1
    <3>4. ASSUME NEW b \in Actors, Covers(task[b], q) PROVE Covers(task[b], q)'
      <4>1. PICK u : u = task'[b]
        OBVIOUS
      <4>2. Covers(u, q)
        BY <1>1, <2>2, <3>4, <4>1
      <4>3. Covers(u, q)'
        BY <3>1, <4>2, CoverLasts
      <4> QED BY <4>1, <4>3
    <3> QED BY <3>2, <3>3, <3>4
  <2> QED BY <2>1, <2>2
<1> QED BY <1>4, <1>7, <1>8, <1>9, <1>11, <1>12, <1>13 DEF Held, HandsFit
LEMMA VacateKeeps == ASSUME Held, NEW a \in Actors, Vacate(a) PROVE Held'
<1>1. PICK t : t = task[a]
  OBVIOUS
<1>2. Fits(t) /\ t.at = "vacate" /\ t.op \in OpsOf(a) /\ a \notin {Watcher, Starter}
  BY <1>1, InHand, Requested DEF Vacate, At
<1>3. t.src \in Slugs /\ t.slug \in Slugs /\ t.todo = {} /\ t.gone = {} /\ t.op \in Moves
  BY <1>2 DEF Fits, OpFits, DataFits, Moves, Scans
<1>4. PICK u : u = [t EXCEPT !.at = "upsert"]
  OBVIOUS
<1>5. "upsert" \in Places
  BY DEF Places
<1>6. /\ u \in Tasks /\ u.at = "upsert" /\ u.op = t.op /\ u.slug = t.slug /\ u.src = t.src
      /\ u.body = t.body /\ u.stamp = t.stamp /\ u.todo = t.todo /\ u.gone = t.gone
  BY <1>2, <1>4, <1>5, GoIs DEF Fits
<1>7. OpFits(u)
  BY <1>2, <1>3, <1>6 DEF Fits, OpFits, Moves
<1>8. DataFits(u)
  BY <1>2, <1>6 DEF Fits, DataFits
<1>9. Put(a, t.src, None) /\ task' = [task EXCEPT ![a] = u]
  BY <1>1, <1>4 DEF Vacate, Go
<1>10. UNCHANGED <<disk, mtime, clock, dirty, phase>>
  BY DEF Vacate, files
<1>11. ASSUME NEW q \in Slugs \ {t.src}, Covers(t, q) PROVE Covers(u, q)
  BY <1>2, <1>3, <1>6, <1>11 DEF Covers
<1>12. Fits(u) /\ u.op \in OpsOf(a) /\ task[a].at # "rest" /\ u.at \notin {"stat", "compare"}
  BY <1>1, <1>2, <1>6, <1>7, <1>8 DEF Fits
<1>13. PICK p \in Slugs : p = t.src
  BY <1>3
<1>14. PICK row \in Rows \cup {None} : row = None
  OBVIOUS
<1> QED BY <1>1, <1>2, <1>9, <1>10, <1>11, <1>12, <1>13, <1>14, PutKeeps

LEMMA UpsertKeeps == ASSUME Held, log \in Seq(Lines), NEW a \in Actors, Upsert(a) PROVE Held'
<1>1. PICK t : t = task[a]
  OBVIOUS
<1>2. /\ Fits(t) /\ t.at = "upsert" /\ t.op \in OpsOf(a) /\ t \in Tasks
      /\ (a \in {Watcher, Starter} => HandFits(t, Excused(a)))
  BY <1>1, InHand DEF Upsert, At, Fits
<1>3. PICK p \in Slugs : p = t.slug
  BY <1>2 DEF Fits, DataFits
<1>4. t.body \in Bodies /\ t.stamp \in Stamps /\ t.stamp.mtime <= clock
  BY <1>2 DEF Fits, DataFits
<1>5. PICK row \in Rows \cup {None} : row = [body |-> t.body, stamp |-> t.stamp]
  BY <1>4 DEF Rows
<1>6. PICK before : before = IF rows[p] = None THEN None ELSE rows[p].body
  OBVIOUS
<1>7. PICK change : change = Weigh(LastTotal(log, p), before, t.body)
  OBVIOUS
<1>8. change \in Changes
  <2>1. rows[p] \in Rows \cup {None}
    BY DEF Held, Typed
  <2>2. before \in Bodies \cup {None}
    BY <1>6, <2>1 DEF Rows
  <2> QED BY <1>4, <1>7, <2>2, LastTotalIsNat, WeighTyped
<1>9. PICK where : where = IF t.src # None THEN "moved" ELSE "observe"
  OBVIOUS
<1>10. where \in {"moved", "observe"} /\ (where = "moved" <=> t.op \in Moves)
  BY <1>2, <1>9, WikiAssumption DEF Fits, DataFits
<1>11. PICK u : u = [[t EXCEPT !.change = change] EXCEPT !.at = where]
  OBVIOUS
<1>12. /\ u \in Tasks /\ u.at = where /\ u.op = t.op /\ u.slug = t.slug /\ u.src = t.src
       /\ u.change = change /\ u.todo = t.todo /\ u.gone = t.gone
  BY <1>2, <1>8, <1>10, <1>11 DEF Tasks, Places
<1>13. OpFits(u)
  <2>1. t.op \in Ops /\ t.op \notin {"none", "delete"}
    BY <1>2 DEF Tasks, Fits, OpFits
  <2> QED BY <1>2, <1>10, <1>12, <2>1 DEF Fits, OpFits, Moves, Scans, Ops, Requests
<1>14. DataFits(u)
  BY <1>2, <1>8, <1>10, <1>12 DEF Fits, DataFits
<1>15. Put(a, p, row)
  BY <1>1, <1>3, <1>5 DEF Upsert
<1>16. Go(a, where, [t EXCEPT !.change = change])
  BY <1>1, <1>3, <1>6, <1>7, <1>9 DEF Upsert
<1>17. task' = [task EXCEPT ![a] = u]
  BY <1>11, <1>16 DEF Go
<1>18. UNCHANGED <<disk, mtime, clock, dirty, phase>>
  BY DEF Upsert, files
<1>19. ASSUME NEW q \in Slugs \ {p}, Covers(t, q) PROVE Covers(u, q)
  BY <1>2, <1>3, <1>12, <1>19 DEF Covers
<1>20. Fits(u) /\ u.op \in OpsOf(a) /\ task[a].at # "rest" /\ u.at \notin {"stat", "compare"}
  BY <1>1, <1>2, <1>10, <1>12, <1>13, <1>14 DEF Fits
<1>21. ASSUME a \in {Watcher, Starter}
       PROVE  (Reflects(row, p) \/ p \in Excused(a)) /\ HandFits(u, Excused(a) \ {p})
  BY <1>2, <1>3, <1>5, <1>10, <1>12, <1>21 DEF HandFits
<1>22. row # None => row.stamp.mtime <= clock
  BY <1>4, <1>5
<1> QED BY <1>1, <1>15, <1>17, <1>18, <1>19, <1>20, <1>21, <1>22, PutKeeps

LEMMA RemoveKeeps == ASSUME Held, NEW a \in Actors, Remove(a) PROVE Held'
<1>1. PICK t : t = task[a]
  OBVIOUS
<1>2. /\ Fits(t) /\ t.at = "remove" /\ t.op \in OpsOf(a)
      /\ (a \in {Watcher, Starter} => HandFits(t, Excused(a)))
  BY <1>1, InHand DEF Remove, At
<1>3. PICK p \in Slugs : p = t.slug
  BY <1>2 DEF Fits, DataFits
<1>4. PICK u : u = [t EXCEPT !.at = "close"]
  OBVIOUS
<1>5. "close" \in Places
  BY DEF Places
<1>6. /\ u \in Tasks /\ u.at = "close" /\ u.op = t.op /\ u.slug = t.slug /\ u.src = t.src
      /\ u.todo = t.todo /\ u.gone = t.gone
  BY <1>2, <1>4, <1>5, GoIs DEF Fits
<1>7. OpFits(u)
  BY <1>2, <1>6 DEF Fits, OpFits
<1>8. DataFits(u)
  BY <1>2, <1>6 DEF Fits, DataFits
<1>9. PICK row \in Rows \cup {None} : row = None
  OBVIOUS
<1>10. Put(a, p, row) /\ task' = [task EXCEPT ![a] = u]
  BY <1>1, <1>3, <1>4, <1>9 DEF Remove, Go
<1>11. UNCHANGED <<disk, mtime, clock, dirty, phase>>
  BY DEF Remove, files
<1>12. ASSUME NEW q \in Slugs \ {p}, Covers(t, q) PROVE Covers(u, q)
  BY <1>2, <1>3, <1>6, <1>12 DEF Covers
<1>13. Fits(u) /\ u.op \in OpsOf(a) /\ task[a].at # "rest" /\ u.at \notin {"stat", "compare"}
  BY <1>1, <1>2, <1>6, <1>7, <1>8 DEF Fits
<1>14. ASSUME a \in {Watcher, Starter}
       PROVE  (Reflects(row, p) \/ p \in Excused(a)) /\ HandFits(u, Excused(a) \ {p})
  <2>1. HandFits(u, Excused(a) \ {p})
    BY <1>2, <1>3, <1>6, <1>14 DEF HandFits
  <2>2. p \notin Excused(a) => ~IsPage(disk[p])
    BY <1>2, <1>3, <1>14 DEF HandFits
  <2> QED BY <1>9, <2>1, <2>2 DEF Reflects
<1> QED BY <1>1, <1>9, <1>10, <1>11, <1>12, <1>13, <1>14, PutKeeps

LEMMA DropKeeps == ASSUME Held, NEW a \in Actors, Drop(a) PROVE Held'
<1>1. PICK t : t = task[a]
  OBVIOUS
<1>2. /\ Fits(t) /\ t.at = "drop" /\ t.op \in OpsOf(a) /\ t.op \in Scans
      /\ (a \in {Watcher, Starter} => HandFits(t, Excused(a)))
  BY <1>1, InHand DEF Drop, At, Fits, OpFits
<1>3. PICK p \in Slugs : p = t.slug
  BY <1>2 DEF Fits, DataFits
<1>4. Turn(a) /\ UNCHANGED <<disk, mtime, clock, dirty, phase>>
  BY DEF Drop, files
<1>5. PICK u : /\ task' = [task EXCEPT ![a] = u] /\ Fits(u)
               /\ u.at = "next" /\ u.op = t.op /\ u.todo = t.todo /\ u.gone = t.gone /\ u.slug = t.slug
  BY <1>1, <1>2, <1>4, TurnsTo
<1>6. PICK row \in Rows \cup {None} : row = None
  OBVIOUS
<1>7. Put(a, p, row)
  BY <1>1, <1>3, <1>6 DEF Drop
<1>8. ASSUME NEW q \in Slugs \ {p}, Covers(t, q) PROVE Covers(u, q)
  BY <1>2, <1>3, <1>5, <1>8 DEF Covers
<1>9. u.op \in OpsOf(a) /\ task[a].at # "rest" /\ u.at \notin {"stat", "compare"}
  BY <1>1, <1>2, <1>5
<1>10. ASSUME a \in {Watcher, Starter}
       PROVE  (Reflects(row, p) \/ p \in Excused(a)) /\ HandFits(u, Excused(a) \ {p})
  <2>1. HandFits(u, Excused(a) \ {p})
    BY <1>2, <1>3, <1>5, <1>10 DEF HandFits
  <2>2. p \notin Excused(a) => ~IsPage(disk[p])
    BY <1>2, <1>3, <1>10 DEF HandFits
  <2> QED BY <1>6, <2>1, <2>2 DEF Reflects
<1> QED BY <1>1, <1>4, <1>5, <1>6, <1>7, <1>8, <1>9, <1>10, PutKeeps
\* No row is left, and the scan that took them out has its walk before it.
LEMMA ClearKeeps == ASSUME Held, NEW a \in Actors, Clear(a) PROVE Held'
<1>1. PICK t : t = task[a]
  OBVIOUS
<1>2. Fits(t) /\ t.at = "clear" /\ t.op \in OpsOf(a) /\ a \notin {Watcher, Starter} /\ Permitted(a)
  BY <1>1, InHand, Requested DEF Clear, At
<1>3. UNCHANGED <<disk, mtime, clock, dirty, phase, missed>> /\ rows' = [p \in Slugs |-> None]
  BY DEF Clear, files, history
<1>4. PICK u : u = [t EXCEPT !.at = "walk"]
  OBVIOUS
<1>5. "walk" \in Places
  BY DEF Places
<1>6. /\ u \in Tasks /\ u.at = "walk" /\ u.op = t.op /\ u.slug = t.slug /\ u.src = t.src
      /\ u.todo = t.todo /\ u.gone = t.gone
  BY <1>2, <1>4, <1>5, GoIs DEF Fits
<1>7. OpFits(u)
  BY <1>2, <1>6 DEF Fits, OpFits
<1>8. DataFits(u)
  BY <1>2, <1>6 DEF Fits, DataFits
<1>9. task' = [task EXCEPT ![a] = u]
  BY <1>1, <1>4 DEF Clear, Go
<1>10. task'[a] = u /\ task' \in [Actors -> Tasks] /\ \A b \in Actors \ {a} : task'[b] = task[b]
  BY <1>6, <1>9 DEF Held, TasksFit
<1>11. Typed'
  BY <1>3 DEF Held, Typed
<1>12. ASSUME NEW b \in Actors
       PROVE  Fits(task[b])' /\ task'[b].op \in OpsOf(b) /\ (task'[b].at # "rest" => Permitted(b)')
  <2>1. PICK v : v = task'[b]
    OBVIOUS
  <2>2. Fits(v) /\ v.op \in OpsOf(b) /\ (v.at # "rest" => Permitted(b))
    BY <1>2, <1>6, <1>7, <1>8, <1>10, <2>1, InHand DEF Fits
  <2>3. Fits(v)'
    BY <1>3, <2>2, FitsLasts DEF Held, Typed
  <2> QED BY <1>3, <2>1, <2>2, <2>3 DEF Permitted, Watching, Serving
<1>13. TasksFit' /\ PhasesFit'
  <2>1. ~Watching' => dirty' = {}
    BY <1>3 DEF Held, PhasesFit, Watching
  <2> QED BY <1>10, <1>12, <2>1 DEF TasksFit, PhasesFit, Idle, OpsOf
<1>14. StampsPast' /\ VouchedIsTrue'
  BY <1>3 DEF Held, StampsPast, VouchedIsTrue, Vouches
<1>15. ASSUME NEW b \in {Watcher, Starter} PROVE HandFits(task[b], Excused(b))'
  <2>1. task'[b] = task[b] /\ b \in Actors /\ Excused(b)' = Excused(b)
    BY <1>2, <1>3, <1>10 DEF Actors, Excused
  <2>2. PICK v : v = task[b]
    OBVIOUS
  <2>3. PICK e : e = Excused(b)
    OBVIOUS
  <2>4. HandFits(v, e) /\ Fits(v)
    BY <2>1, <2>2, <2>3, InHand
  <2>5. v.gone \subseteq Slugs /\ (v.at \in {"readstat", "upsert", "remove", "drop"} => v.slug \in Slugs)
    BY <2>4 DEF Fits, Tasks, DataFits
  <2>6. HandFits(v, e)'
    BY <1>3, <2>4, <2>5, HandLasts
  <2> QED BY <2>1, <2>2, <2>3, <2>6
<1>16. AllCovered'
  <2>1. \A p \in Slugs : Covers(u, p)'
    BY <1>6 DEF Covers
  <2> QED BY <1>10, <2>1 DEF AllCovered
<1> QED BY <1>11, <1>13, <1>14, <1>15, <1>16 DEF Held, HandsFit

LEMMA DeleteIndexKeeps == ASSUME Held, DeleteIndex PROVE Held'
<1>1. UNCHANGED <<disk, mtime, clock, dirty, phase, missed, task>> /\ rows' = [p \in Slugs |-> None]
  BY DEF DeleteIndex, files
<1>2. phase' = "down"
  BY <1>1 DEF DeleteIndex
<1>3. Typed'
  BY <1>1 DEF Held, Typed
<1>4. TasksFit' /\ PhasesFit'
  BY <1>1 DEF Held, TasksFit, PhasesFit, Fits, OpFits, DataFits, OpsOf, Idle, At, Permitted, Watching, Serving
<1>5. StampsPast' /\ VouchedIsTrue'
  BY <1>1 DEF Held, StampsPast, VouchedIsTrue, Vouches
<1>6. HandsFit'
  BY <1>1 DEF Held, HandsFit, HandFits, Excused, Reflects, Stamp
<1>7. AllCovered'
  BY <1>2 DEF AllCovered
<1> QED BY <1>3, <1>4, <1>5, <1>6, <1>7 DEF Held

LEMMA StopKeeps == ASSUME Held, Stop PROVE Held'
<1>1. UNCHANGED <<disk, mtime, clock, rows, missed>> /\ dirty' = {} /\ phase' = "down"
  BY DEF Stop, files
<1>2. task' = [a \in Actors |-> Rest]
  BY DEF Stop
<1>3. Typed'
  BY <1>1 DEF Held, Typed, Phases
<1>4. Fits(Rest)'
  BY <1>1, RestFits, FitsLasts DEF Held, Typed
<1>5. TasksFit'
  BY <1>2, <1>4, RestFits DEF TasksFit, Fits
<1>6. PhasesFit'
  BY <1>1, <1>2, RestFits DEF PhasesFit, Rest, OpsOf, Idle, At
<1>7. StampsPast'
  BY <1>1 DEF Held, StampsPast
<1>8. VouchedIsTrue'
  BY <1>1 DEF Held, VouchedIsTrue, Vouches, Reflects, Stamp
<1>9. HandsFit'
  BY <1>2 DEF HandsFit, HandFits, Rest, Actors
<1>10. AllCovered'
  BY <1>1 DEF AllCovered
<1> QED BY <1>3, <1>5, <1>6, <1>7, <1>8, <1>9, <1>10 DEF Held

-----------------------------------------------------------------------------
(* Files.                                                                  *)

\* A change of the files at S by a, or by somebody who is no actor.
LEMMA FilesMove ==
    ASSUME Held, NEW a \in Actors, NEW t, Fits(t), t.op \in OpsOf(a), t.at # "rest" => Permitted(a),
           task' = [task EXCEPT ![a] = t], a \in {Watcher, Starter} => t = task[a],
           NEW S \in SUBSET Slugs,
           disk' \in [Slugs -> Contents], mtime' \in [Slugs -> Nat], clock' \in Nat, clock <= clock',
           \A p \in Slugs : mtime'[p] <= clock',
           \A p \in Slugs \ S : disk'[p] = disk[p] /\ mtime'[p] = mtime[p],
           UNCHANGED <<rows, phase>>,
           dirty' = IF Watching THEN dirty \cup S ELSE dirty,
           missed \ S \subseteq missed', missed' \subseteq Slugs,
           phase = "starting" => S \subseteq missed',
           \A p \in S \ missed' : /\ Watching \/ phase = "down" \/ Covers(t, p)'
                                  /\ Vouches(rows[p], p)' => Reflects(rows[p], p)',
           \A p \in Slugs \ S : Covers(task[a], p) => Covers(t, p)
    PROVE  Held'
<1>1. task'[a] = t /\ task' \in [Actors -> Tasks] /\ \A b \in Actors \ {a} : task'[b] = task[b]
  BY DEF Held, TasksFit, Fits
<1>2. Typed'
  BY DEF Held, Typed
<1>3. Watching' = Watching /\ \A b : Permitted(b)' = Permitted(b)
  BY DEF Watching, Permitted, Serving
<1>4. ASSUME NEW b \in Actors
      PROVE  Fits(task[b])' /\ task'[b].op \in OpsOf(b) /\ (task'[b].at # "rest" => Permitted(b)')
  <2>1. PICK u : u = task'[b]
    OBVIOUS
  <2>2. Fits(u) /\ u.op \in OpsOf(b) /\ (u.at # "rest" => Permitted(b))
    BY <1>1, <2>1, InHand
  <2>3. Fits(u)'
    BY <2>2, FitsLasts DEF Held, Typed
  <2> QED BY <1>3, <2>1, <2>2, <2>3
<1>5. TasksFit' /\ PhasesFit'
  BY <1>1, <1>3, <1>4 DEF TasksFit, PhasesFit, Idle, At, OpsOf, Held
<1>6. StampsPast'
  <2>1. ASSUME NEW p \in Slugs, rows[p] # None PROVE rows[p].stamp.mtime <= clock'
    <3>1. rows[p].stamp.mtime <= clock /\ rows[p].stamp.mtime \in Nat /\ clock \in Nat
      BY <2>1 DEF Held, StampsPast, Typed, Rows, Stamps
    <3> QED BY <3>1
  <2> QED BY <2>1 DEF StampsPast
<1>7. ASSUME NEW p \in Slugs \ S
      PROVE  /\ Reflects(rows[p], p)' <=> Reflects(rows[p], p)
             /\ Vouches(rows[p], p)' <=> Vouches(rows[p], p)
  <2>1. PICK row : row = rows[p]
    OBVIOUS
  <2>2. (Reflects(row, p)' <=> Reflects(row, p)) /\ (Vouches(row, p)' <=> Vouches(row, p))
    BY ReflectsLasts
  <2> QED BY <2>1, <2>2
<1>8. VouchedIsTrue'
  BY <1>7 DEF Held, VouchedIsTrue
<1>9. ASSUME NEW b \in {Watcher, Starter}
      PROVE  HandFits(task[b], Excused(b))'
  <2>1. b \in Actors
    BY DEF Actors
  <2>2. PICK u : u = task'[b]
    OBVIOUS
  <2>3. u = task[b] /\ Fits(u)
    BY <1>1, <2>1, <2>2, InHand
  <2>4. PICK e : e = Excused(b)
    OBVIOUS
  <2>5. PICK f : f = Excused(b)'
    OBVIOUS
  <2>6. CASE u.at = "rest"
    <3>1. u = Rest
      BY <2>3, <2>6 DEF Fits, OpFits
    <3>2. u.todo = {} /\ u.gone = {}
      BY <3>1 DEF Rest
    <3>3. HandFits(u, f)'
      BY <2>6, <3>2 DEF HandFits
    <3> QED BY <2>2, <2>5, <3>3
  <2>7. CASE u.at # "rest"
    <3>1. Permitted(b) /\ HandFits(u, e)
      BY <2>1, <2>3, <2>4, <2>7, InHand
    <3>2. e \subseteq f /\ S \subseteq f
      BY <2>4, <2>5, <3>1, ActorsApart DEF Excused, Permitted
    <3>3. u.gone \subseteq Slugs /\ (u.at \in {"readstat", "upsert", "remove", "drop"} => u.slug \in Slugs)
      BY <2>3 DEF Fits, Tasks, DataFits
    <3>4. HandFits(u, f)'
      BY <3>1, <3>2, <3>3, HandLasts
    <3> QED BY <2>2, <2>5, <3>4
  <2> QED BY <2>6, <2>7
<1>10. AllCovered'
  <2> SUFFICES ASSUME NEW p \in Slugs \ missed'
               PROVE  (Reflects(rows[p], p) \/ phase = "down" \/ p \in dirty)' \/ \E b \in Actors : Covers(task[b], p)'
    BY DEF AllCovered
  <2>1. CASE p \in S
    <3>1. CASE Covers(t, p)'
      BY <1>1, <3>1
    <3> QED BY <2>1, <3>1
  <2>2. CASE p \notin S
    <3>1. Reflects(rows[p], p) \/ phase = "down" \/ p \in dirty \/ \E b \in Actors : Covers(task[b], p)
      BY <2>2 DEF Held, AllCovered
    <3>2. ASSUME NEW b \in Actors, Covers(task[b], p) PROVE Covers(task[b], p)'
      <4>1. PICK u : u = task'[b]
        OBVIOUS
      <4>2. Covers(u, p)
        BY <1>1, <2>2, <3>2, <4>1
      <4>3. Covers(u, p)'
        BY <2>2, <4>2, CoverLasts
      <4> QED BY <4>1, <4>3
    <3> QED BY <1>7, <2>2, <3>1, <3>2
  <2> QED BY <2>1, <2>2
<1> QED BY <1>2, <1>5, <1>6, <1>8, <1>9, <1>10 DEF Held, HandsFit
\* A file that was given a body, or taken away, has a stamp no row has.
LEMMA Touched ==
    ASSUME Held, NEW p \in Slugs, NEW body \in Contents, Touch(p, body), rows' = rows
    PROVE  /\ disk' \in [Slugs -> Contents] /\ mtime' \in [Slugs -> Nat]
           /\ clock' \in Nat /\ clock <= clock' /\ \A q \in Slugs : mtime'[q] <= clock'
           /\ \A q \in Slugs \ {p} : disk'[q] = disk[q] /\ mtime'[q] = mtime[q]
           /\ disk'[p] = body
           /\ dirty' = IF Watching THEN dirty \cup {p} ELSE dirty
           /\ ~Vouches(rows[p], p)'
<1>1. /\ disk \in [Slugs -> Contents] /\ mtime \in [Slugs -> Nat] /\ clock \in Nat
      /\ \A q \in Slugs : mtime[q] <= clock /\ (rows[q] # None => rows[q].stamp.mtime <= clock)
  BY DEF Held, Typed, StampsPast
<1>2. disk' = [disk EXCEPT ![p] = body] /\ clock' = clock + 1 /\ mtime' = [mtime EXCEPT ![p] = clock + 1]
  BY DEF Touch
<1>3. ASSUME NEW q \in Slugs PROVE mtime'[q] <= clock'
  BY <1>1, <1>2
<1>4. mtime'[p] = clock + 1 /\ (rows[p] # None => rows[p].stamp.mtime # clock + 1)
  <2>1. rows[p] # None => rows[p].stamp.mtime \in Nat
    BY DEF Held, Typed, Rows, Stamps
  <2> QED BY <1>1, <1>2, <2>1
<1>5. ~Vouches(rows[p], p)'
  BY <1>4 DEF Vouches, Stamp
<1> QED BY <1>1, <1>2, <1>3, <1>5 DEF Touch, Tell

LEMMA WriteKeeps == ASSUME Held, NEW a \in Actors, Write(a) PROVE Held'
<1>1. PICK t : t = task[a]
  OBVIOUS
<1>2. Fits(t) /\ t.at = "write" /\ t.op \in OpsOf(a) /\ a \notin {Watcher, Starter} /\ Permitted(a) /\ a \in Clients
  BY <1>1, InHand, Requested DEF Write, At
<1>3. PICK p \in Slugs : p = t.slug
  BY <1>2 DEF Fits, DataFits
<1>4. PICK body \in Contents : body = t.body /\ body \in Bodies
  BY <1>2 DEF Fits, DataFits, Contents
<1>5. Touch(p, body) /\ missed' = missed \ {p} /\ UNCHANGED <<rows, phase>>
  BY <1>1, <1>3, <1>4 DEF Write
<1>6. PICK u : u = [t EXCEPT !.at = "stat"]
  OBVIOUS
<1>7. "stat" \in Places
  BY DEF Places
<1>8. /\ u \in Tasks /\ u.at = "stat" /\ u.op = t.op /\ u.slug = t.slug /\ u.src = t.src
      /\ u.body = t.body /\ u.todo = t.todo /\ u.gone = t.gone
  BY <1>2, <1>6, <1>7, GoIs DEF Fits
<1>9. OpFits(u)
  BY <1>2, <1>8 DEF Fits, OpFits
<1>10. DataFits(u)
  BY <1>2, <1>8 DEF Fits, DataFits
<1>11. task' = [task EXCEPT ![a] = u]
  BY <1>1, <1>6 DEF Write, Go
<1>12. body # None
  BY <1>4, WikiAssumption
<1>13. Covers(u, p)'
  BY <1>3, <1>5, <1>8, <1>12, Touched DEF Covers
<1>14. \A q \in Slugs : Covers(t, q) => Covers(u, q)
  BY <1>2, <1>8 DEF Covers
<1>15. missed \ {p} \subseteq missed' /\ missed' \subseteq Slugs /\ {p} \in SUBSET Slugs /\ phase # "starting"
  BY <1>2, <1>5, ActorsApart DEF Held, Typed, Permitted, Serving
<1>16. Fits(u) /\ u.op \in OpsOf(a)
  BY <1>2, <1>8, <1>9, <1>10 DEF Fits
<1>17. /\ disk' \in [Slugs -> Contents] /\ mtime' \in [Slugs -> Nat]
       /\ clock' \in Nat /\ clock <= clock' /\ \A q \in Slugs : mtime'[q] <= clock'
       /\ \A q \in Slugs \ {p} : disk'[q] = disk[q] /\ mtime'[q] = mtime[q]
       /\ dirty' = IF Watching THEN dirty \cup {p} ELSE dirty
       /\ ~Vouches(rows[p], p)'
  BY <1>5, Touched
<1>18. \A q \in {p} \ missed' : /\ Watching \/ phase = "down" \/ Covers(u, q)'
                                /\ Vouches(rows[q], q)' => Reflects(rows[q], q)'
  BY <1>13, <1>17
<1>19. \A q \in Slugs \ {p} : Covers(task[a], q) => Covers(u, q)
  BY <1>1, <1>14
<1>20. /\ u.at # "rest" => Permitted(a)
       /\ a \in {Watcher, Starter} => u = task[a]
       /\ phase = "starting" => {p} \subseteq missed'
       /\ UNCHANGED <<rows, phase>>
  BY <1>2, <1>5, <1>15
<1> QED BY <1>11, <1>15, <1>16, <1>17, <1>18, <1>19, <1>20, FilesMove

LEMMA StatKeeps == ASSUME Held, NEW a \in Actors, Stat(a) PROVE Held'
<1>1. PICK t : t = task[a]
  OBVIOUS
<1>2. Fits(t) /\ t.at = "stat" /\ a \notin {Watcher, Starter} /\ t \in Tasks
  BY <1>1, InHand, Requested DEF Stat, At, Fits
<1>3. t.slug \in Slugs /\ t.todo = {} /\ t.gone = {} /\ t.op \in {"create", "replace", "patch"}
  BY <1>2 DEF Fits, OpFits, DataFits, Scans
<1>4. UNCHANGED <<disk, mtime, clock, rows, dirty, phase, missed>>
  BY DEF Stat, files, history
<1>5. CASE disk[t.slug] = None
  <2>1. Give(a) /\ \A p \in Slugs : ~Covers(t, p)
    BY <1>1, <1>2, <1>3, <1>5 DEF Stat, Covers
  <2> QED BY <1>1, <1>4, <2>1, GiveUp
<1>6. CASE disk[t.slug] # None
  <2>1. PICK stamp : stamp = Stamp(t.slug)
    OBVIOUS
  <2>2. stamp \in Stamps /\ stamp.mtime <= clock
    BY <1>3, <2>1, SizeIsNat DEF Held, Typed, StampsPast, Stamp, Stamps
  <2>3. PICK u : u = [[t EXCEPT !.stamp = stamp] EXCEPT !.at = "upsert"]
    OBVIOUS
  <2>4. /\ u \in Tasks /\ u.at = "upsert" /\ u.op = t.op /\ u.slug = t.slug /\ u.src = t.src
        /\ u.body = t.body /\ u.stamp = stamp /\ u.todo = t.todo /\ u.gone = t.gone
    BY <1>2, <2>2, <2>3 DEF Tasks, Places
  <2>5. OpFits(u)
    BY <1>2, <1>3, <2>4 DEF Fits, OpFits
  <2>6. DataFits(u)
    BY <1>2, <2>2, <2>4 DEF Fits, DataFits
  <2>7. Go(a, "upsert", [t EXCEPT !.stamp = stamp])
    BY <1>1, <1>6, <2>1 DEF Stat
  <2>8. task' = [task EXCEPT ![a] = u]
    BY <2>3, <2>7 DEF Go
  <2>9. \A p \in Slugs : Covers(t, p) => Covers(u, p)
    BY <1>2, <1>3, <2>4 DEF Covers
  <2> QED BY <1>1, <1>2, <1>4, <2>4, <2>5, <2>6, <2>8, <2>9, GoOn DEF Fits
<1> QED BY <1>5, <1>6

LEMMA UnlinkKeeps == ASSUME Held, NEW a \in Actors, Unlink(a) PROVE Held'
<1>1. PICK t : t = task[a]
  OBVIOUS
<1>2. /\ Fits(t) /\ t.at = "unlink" /\ t.op = "delete" /\ t.op \in OpsOf(a)
      /\ a \notin {Watcher, Starter} /\ Permitted(a) /\ a \in Clients
  BY <1>1, InHand, Requested DEF Unlink, At, Fits, OpFits
<1>3. PICK p \in Slugs : p = t.slug
  BY <1>2 DEF Fits, DataFits
<1>4. \A q \in Slugs : ~Covers(t, q)
  BY <1>2 DEF Fits, OpFits, Covers, Scans
<1>5. CASE disk[p] = None
  <2>1. Give(a) /\ UNCHANGED <<disk, mtime, clock, rows, dirty, phase, missed>>
    BY <1>1, <1>3, <1>5 DEF Unlink, files, history
  <2> QED BY <1>1, <1>4, <2>1, GiveUp
<1>6. CASE disk[p] # None
  <2>1. Touch(p, None) /\ missed' = missed \ {p} /\ UNCHANGED <<rows, phase>> /\ Go(a, "remove", t)
    BY <1>1, <1>3, <1>6 DEF Unlink
  <2>2. PICK body \in Contents : body = None
    BY DEF Contents
  <2>3. PICK u : u = [t EXCEPT !.at = "remove"]
    OBVIOUS
  <2>4. "remove" \in Places
    BY DEF Places
  <2>5. /\ u \in Tasks /\ u.at = "remove" /\ u.op = t.op /\ u.slug = t.slug /\ u.src = t.src
        /\ u.todo = t.todo /\ u.gone = t.gone
    BY <1>2, <2>3, <2>4, GoIs DEF Fits
  <2>6. OpFits(u)
    BY <1>2, <2>5 DEF Fits, OpFits
  <2>7. DataFits(u)
    BY <1>2, <2>5 DEF Fits, DataFits
  <2>8. task' = [task EXCEPT ![a] = u]
    BY <2>1, <2>3 DEF Go
  <2>9. Covers(u, p)'
    BY <1>3, <2>5 DEF Covers
  <2>10. missed \ {p} \subseteq missed' /\ missed' \subseteq Slugs /\ {p} \in SUBSET Slugs /\ phase # "starting"
    BY <1>2, <2>1, ActorsApart DEF Held, Typed, Permitted, Serving
  <2>11. Fits(u) /\ u.op \in OpsOf(a)
    BY <1>2, <2>5, <2>6, <2>7 DEF Fits
  <2>12. /\ disk' \in [Slugs -> Contents] /\ mtime' \in [Slugs -> Nat]
         /\ clock' \in Nat /\ clock <= clock' /\ \A q \in Slugs : mtime'[q] <= clock'
         /\ \A q \in Slugs \ {p} : disk'[q] = disk[q] /\ mtime'[q] = mtime[q]
         /\ dirty' = IF Watching THEN dirty \cup {p} ELSE dirty
         /\ ~Vouches(rows[p], p)'
    BY <2>1, <2>2, Touched
  <2>13. \A q \in {p} \ missed' : /\ Watching \/ phase = "down" \/ Covers(u, q)'
                                  /\ Vouches(rows[q], q)' => Reflects(rows[q], q)'
    BY <2>9, <2>12
  <2>14. \A q \in Slugs \ {p} : Covers(task[a], q) => Covers(u, q)
    BY <1>1, <1>4
  <2>15. /\ u.at # "rest" => Permitted(a)
         /\ a \in {Watcher, Starter} => u = task[a]
         /\ phase = "starting" => {p} \subseteq missed'
         /\ UNCHANGED <<rows, phase>>
    BY <1>2, <2>1, <2>10
  <2> QED BY <2>8, <2>10, <2>11, <2>12, <2>13, <2>14, <2>15, FilesMove
<1> QED BY <1>5, <1>6

LEMMA RenameKeeps == ASSUME Held, NEW a \in Actors, Rename(a) PROVE Held'
<1>1. PICK t : t = task[a]
  OBVIOUS
<1>2. /\ Fits(t) /\ t.at = "rename" /\ t.op = "move" /\ t.op \in OpsOf(a)
      /\ a \notin {Watcher, Starter} /\ Permitted(a) /\ a \in Clients
  BY <1>1, InHand, Requested DEF Rename, At, Fits, OpFits
<1>3. PICK from \in Slugs, to \in Slugs : from = t.src /\ to = t.slug /\ from # to
  BY <1>2 DEF Fits, DataFits, Moves
<1>4. \A q \in Slugs : ~Covers(t, q)
  BY <1>2 DEF Fits, OpFits, Covers, Scans
<1>5. CASE disk[from] = None
  <2>1. Give(a) /\ UNCHANGED <<disk, mtime, clock, rows, dirty, phase, missed>>
    BY <1>1, <1>3, <1>5 DEF Rename, files, history
  <2> QED BY <1>1, <1>4, <2>1, GiveUp
<1>6. CASE disk[from] # None
  <2>1. /\ disk' = [disk EXCEPT ![to] = disk[from], ![from] = None]
        /\ mtime' = [mtime EXCEPT ![to] = mtime[from]]
        /\ Tell({from, to}) /\ missed' = (missed \ {from, to}) \cup Disguised(from, to)
        /\ Go(a, "read", t) /\ UNCHANGED <<clock, rows, phase>>
    BY <1>1, <1>3, <1>6 DEF Rename
  <2>2. /\ disk \in [Slugs -> Contents] /\ mtime \in [Slugs -> Nat] /\ clock \in Nat
        /\ rows \in [Slugs -> Rows \cup {None}] /\ \A q \in Slugs : mtime[q] <= clock
    BY DEF Held, Typed, StampsPast
  <2>3. /\ disk' \in [Slugs -> Contents] /\ mtime' \in [Slugs -> Nat]
        /\ disk'[to] = disk[from] /\ mtime'[to] = mtime[from] /\ disk'[from] = None
    BY <1>3, <2>1, <2>2 DEF Contents
  <2>4. \A q \in Slugs \ {from, to} : disk'[q] = disk[q] /\ mtime'[q] = mtime[q]
    BY <2>1, <2>2
  <2>5. \A q \in Slugs : mtime'[q] <= clock
    BY <2>1, <2>2
  <2>6. ASSUME to \notin missed', Vouches(rows[to], to)' PROVE Reflects(rows[to], to)'
    <3>1. rows[to] # None /\ rows[to].stamp = Stamp(to)'
      BY <2>1, <2>6 DEF Vouches
    <3>2. Stamp(to)' = Stamp(from)
      BY <2>3 DEF Stamp, WordsOf, IsPage, Size
    <3>3. rows[to].body = disk[from]
      BY <2>1, <2>6, <3>1, <3>2 DEF Disguised
    <3>4. rows[to] \in Rows /\ rows[to].body \in Bodies
      BY <2>2, <3>1 DEF Rows
    <3>5. IsPage(disk[from])
      BY <3>3, <3>4, WikiAssumption DEF IsPage
    <3>6. rows[to] = [body |-> disk[from], stamp |-> Stamp(from)]
      BY <3>1, <3>2, <3>3, <3>4 DEF Rows
    <3> QED BY <2>1, <2>3, <3>2, <3>5, <3>6 DEF Reflects, IsPage
  <2>7. ~Vouches(rows[from], from)'
    BY <2>3 DEF Vouches
  <2>8. PICK u : u = [t EXCEPT !.at = "read"]
    OBVIOUS
  <2>9. "read" \in Places
    BY DEF Places
  <2>10. /\ u \in Tasks /\ u.at = "read" /\ u.op = t.op /\ u.slug = t.slug /\ u.src = t.src
         /\ u.todo = t.todo /\ u.gone = t.gone
    BY <1>2, <2>8, <2>9, GoIs DEF Fits
  <2>11. OpFits(u)
    BY <1>2, <2>10 DEF Fits, OpFits, Moves
  <2>12. DataFits(u)
    BY <1>2, <2>10 DEF Fits, DataFits
  <2>13. task' = [task EXCEPT ![a] = u]
    BY <2>1, <2>8 DEF Go
  <2>14. Covers(u, from)' /\ Covers(u, to)'
    BY <1>2, <1>3, <2>10 DEF Covers
  <2>15. /\ missed \ {from, to} \subseteq missed' /\ missed' \subseteq Slugs
         /\ {from, to} \in SUBSET Slugs /\ phase # "starting"
    BY <1>2, <2>1, ActorsApart DEF Held, Typed, Permitted, Serving, Disguised
  <2>16. Fits(u) /\ u.op \in OpsOf(a)
    BY <1>2, <2>10, <2>11, <2>12 DEF Fits
  <2>17. dirty' = IF Watching THEN dirty \cup {from, to} ELSE dirty
    BY <2>1 DEF Tell
  <2>18. PICK S \in SUBSET Slugs : S = {from, to}
    BY <2>15
  <2>19. \A p \in S \ missed' : /\ Watching \/ phase = "down" \/ Covers(u, p)'
                                /\ Vouches(rows[p], p)' => Reflects(rows[p], p)'
    BY <2>6, <2>7, <2>14, <2>18
  <2>20. clock' \in Nat /\ clock <= clock' /\ \A q \in Slugs : mtime'[q] <= clock'
    BY <2>1, <2>2, <2>5
  <2>21. missed \ S \subseteq missed' /\ dirty' = IF Watching THEN dirty \cup S ELSE dirty
    BY <2>15, <2>17, <2>18
  <2>22. \A q \in Slugs \ S : disk'[q] = disk[q] /\ mtime'[q] = mtime[q]
    BY <2>4, <2>18
  <2>23. \A q \in Slugs \ S : Covers(task[a], q) => Covers(u, q)
    BY <1>1, <1>4
  <2>24. /\ u.at # "rest" => Permitted(a)
         /\ a \in {Watcher, Starter} => u = task[a]
         /\ phase = "starting" => S \subseteq missed'
         /\ UNCHANGED <<rows, phase>>
    BY <1>2, <2>1, <2>15
  <2>25. disk' \in [Slugs -> Contents] /\ mtime' \in [Slugs -> Nat] /\ missed' \subseteq Slugs
    BY <2>3, <2>15
  <2> QED BY <2>13, <2>16, <2>19, <2>20, <2>21, <2>22, <2>23, <2>24, <2>25, FilesMove
<1> QED BY <1>5, <1>6

LEMMA EditKeeps == ASSUME Held, Edit PROVE Held'
<1>1. PICK p \in Slugs, body \in Contents :
         /\ Touch(p, body)
         /\ missed' = IF Watching \/ phase = "down" THEN missed \ {p} ELSE missed \cup {p}
  BY DEF Edit
<1>2. UNCHANGED <<rows, phase, task>>
  BY DEF Edit
<1>3. Starter \in Actors
  BY DEF Actors
<1>4. PICK t : t = task[Starter]
  OBVIOUS
<1>5. Fits(t) /\ t.op \in OpsOf(Starter) /\ (t.at # "rest" => Permitted(Starter))
  BY <1>3, <1>4, InHand
<1>6. task' = [task EXCEPT ![Starter] = t]
  <2>1. task \in [Actors -> Tasks]
    BY DEF Held, TasksFit
  <2> QED BY <1>2, <1>3, <1>4, <2>1
<1>7. /\ missed \ {p} \subseteq missed' /\ missed' \subseteq Slugs /\ {p} \in SUBSET Slugs
      /\ phase = "starting" => p \in missed'
      /\ p \notin missed' => Watching \/ phase = "down"
  BY <1>1 DEF Held, Typed, Watching
<1>8. /\ disk' \in [Slugs -> Contents] /\ mtime' \in [Slugs -> Nat]
      /\ clock' \in Nat /\ clock <= clock' /\ \A q \in Slugs : mtime'[q] <= clock'
      /\ \A q \in Slugs \ {p} : disk'[q] = disk[q] /\ mtime'[q] = mtime[q]
      /\ dirty' = IF Watching THEN dirty \cup {p} ELSE dirty
      /\ ~Vouches(rows[p], p)'
  BY <1>1, <1>2, Touched
<1>9. \A q \in {p} \ missed' : /\ Watching \/ phase = "down" \/ Covers(t, q)'
                               /\ Vouches(rows[q], q)' => Reflects(rows[q], q)'
  BY <1>7, <1>8
<1>10. \A q \in Slugs \ {p} : Covers(task[Starter], q) => Covers(t, q)
  BY <1>4
<1>11. phase = "starting" => {p} \subseteq missed'
  BY <1>7
<1> QED BY <1>2, <1>3, <1>4, <1>5, <1>6, <1>7, <1>8, <1>9, <1>10, <1>11, FilesMove
-----------------------------------------------------------------------------
(* The word log and the bookkeeping.                                       *)

LogTyped == /\ log \in Seq(Lines) /\ written \in [Slugs -> Nat]
            /\ muddled \subseteq Slugs /\ unlogged \subseteq Slugs
            /\ requests \in Nat /\ edits \in Nat /\ stops \in Nat /\ losses \in Nat

LEMMA DueTyped ==
    ASSUME Held, NEW a \in Actors
    PROVE  Due(a) \in Seq(Lines) /\ Marked(a) \subseteq Slugs
<1>1. PICK t : t = task[a]
  OBVIOUS
<1>2. Fits(t) /\ t \in Tasks
  BY <1>1, InHand DEF Fits
<1>3. t.at \in {"observe", "moved", "close", "upsert"} => t.slug \in Slugs
  BY <1>2 DEF Fits, DataFits
<1>4. t.src \in Slugs \cup {None}
  BY <1>2 DEF Tasks
<1>5. PICK change : change = IF Scanning(a) THEN t.change ELSE AsWritten(t.change)
  OBVIOUS
<1>6. t.at \in {"observe", "moved"} => t.change \in Changes /\ change \in Changes
  <2>1. SUFFICES ASSUME t.at \in {"observe", "moved"}
                 PROVE  t.change \in Changes /\ change \in Changes
    OBVIOUS
  <2>2. t.change \in Changes
    BY <1>2, <2>1 DEF Fits, DataFits
  <2>3. AsWritten(t.change) \in Changes
    BY <2>2 DEF AsWritten, Change, Changes
  <2> QED BY <1>5, <2>2, <2>3
<1>7. ASSUME t.at = "observe" PROVE Line(t.slug, change, None) \in Lines
  BY <1>3, <1>6, <1>7 DEF Line, Lines, Changes
<1>8. ASSUME t.at = "moved" PROVE Line(t.slug, Change("moved", Nothing, t.change.total), t.src) \in Lines
  BY <1>3, <1>4, <1>6, <1>8 DEF Line, Lines, Change, Nothing, Changes
<1>9. ASSUME t.at = "close" PROVE Line(t.slug, Change("deleted", Nothing, 0), None) \in Lines
  BY <1>3, <1>9 DEF Line, Lines, Change, Nothing
<1>10. Due(a) = CASE t.at = "observe" /\ IsRecordable(change) -> <<Line(t.slug, change, None)>>
                  [] t.at = "moved" ->
                        <<Line(t.slug, Change("moved", Nothing, t.change.total), t.src)>>
                  [] t.at = "close" -> <<Line(t.slug, Change("deleted", Nothing, 0), None)>>
                  [] OTHER -> <<>>
  BY <1>1, <1>5 DEF Due
<1>11. Due(a) \in Seq(Lines)
  <2>1. CASE t.at = "observe" /\ IsRecordable(change)
    BY <1>7, <1>10, <2>1
  <2>2. CASE t.at = "moved"
    BY <1>8, <1>10, <2>2
  <2>3. CASE t.at = "close"
    BY <1>9, <1>10, <2>3
  <2>4. CASE ~(t.at = "observe" /\ IsRecordable(change)) /\ t.at \notin {"moved", "close"}
    BY <1>10, <2>4
  <2> QED BY <2>1, <2>2, <2>3, <2>4
<1>12. Due(a) # <<>> => t.at \in {"observe", "moved", "close"}
  BY <1>10
<1>13. Marked(a) \subseteq Slugs
  BY <1>1, <1>3, <1>4, <1>12 DEF Marked
<1> QED BY <1>11, <1>13

LEMMA LogSteps == ASSUME Held, LogTyped, [Next]_vars PROVE LogTyped'
<1>1. ASSUME UNCHANGED <<log, written, muddled, unlogged, requests, edits, stops, losses>>
      PROVE  LogTyped'
  BY <1>1 DEF LogTyped
<1>2. ASSUME NEW p \in Slugs, NEW body \in Contents, Touch(p, body)
      PROVE  written' \in [Slugs -> Nat]
  <2>1. PICK words : words = WordsOf(body) \ WordsOf(disk[p])
    OBVIOUS
  <2>2. words \subseteq Words
    BY <2>1 DEF WordsOf, IsPage, Contents, Bodies
  <2>3. Size(words) \in Nat
    BY <2>2, WikiAssumption, FS_Subset, FS_CardinalityType DEF Size
  <2>4. written' = [written EXCEPT ![p] = @ + Size(words)]
    BY <1>2, <2>1 DEF Touch
  <2> QED BY <2>3, <2>4 DEF LogTyped
<1>3. ASSUME NEW ps \in SUBSET Slugs, Echo(ps) PROVE muddled' \subseteq Slugs
  BY <1>3 DEF Echo, LogTyped
<1>4. ASSUME NEW c \in Clients, Request(c) PROVE LogTyped'
  <2>1. UNCHANGED <<log, written, muddled, unlogged, edits, stops, losses>> /\ requests' = requests + 1
    BY <1>4 DEF Request, Create, Replace, Patch, Delete, MovePage, MoveOntoItself, Reindex, Ask, history
  <2> QED BY <2>1 DEF LogTyped
<1>5. ASSUME NEW a \in Actors, Step(a) PROVE LogTyped'
  <2>1. PICK t : t = task[a]
    OBVIOUS
  <2>2. Fits(t)
    BY <2>1, InHand
  <2>3. CASE Write(a)
    <3>1. t.slug \in Slugs /\ t.body \in Contents
      BY <2>1, <2>2, <2>3 DEF Write, At, Fits, DataFits, Contents
    <3>2. Touch(t.slug, t.body) /\ Echo({t.slug})
      BY <2>1, <2>3 DEF Write
    <3> QED BY <1>2, <1>3, <2>3, <3>1, <3>2 DEF Write, LogTyped, bounds
  <2>4. CASE Unlink(a)
    <3>1. t.slug \in Slugs /\ None \in Contents
      BY <2>1, <2>2, <2>4 DEF Unlink, At, Fits, DataFits, Contents
    <3>2. CASE disk[t.slug] = None
      BY <1>1, <2>1, <2>4, <3>2 DEF Unlink, history, bounds
    <3>3. CASE disk[t.slug] # None
      <4>1. Touch(t.slug, None) /\ Echo({t.slug}) /\ UNCHANGED <<log, unlogged, bounds>>
        BY <2>1, <2>4, <3>3 DEF Unlink
      <4> QED BY <1>2, <1>3, <3>1, <4>1 DEF LogTyped, bounds
    <3> QED BY <3>2, <3>3
  <2>5. CASE Rename(a)
    <3>1. t.slug \in Slugs /\ t.src \in Slugs
      BY <2>1, <2>2, <2>5 DEF Rename, At, Fits, OpFits, DataFits, Moves
    <3>2. CASE disk[t.src] = None
      BY <1>1, <2>1, <2>5, <3>2 DEF Rename, history, bounds
    <3>3. CASE disk[t.src] # None
      <4>1. Echo({t.src, t.slug}) /\ UNCHANGED <<log, written, unlogged, bounds>>
        BY <2>1, <2>5, <3>3 DEF Rename
      <4> QED BY <1>3, <3>1, <4>1 DEF LogTyped, bounds
    <3> QED BY <3>2, <3>3
  <2>6. CASE Vacate(a)
    <3>1. t.src \in Slugs
      BY <2>1, <2>2, <2>6 DEF Vacate, At, Fits, OpFits, DataFits, Moves
    <3>2. muddled' \subseteq muddled \cup {t.src} /\ UNCHANGED <<log, written, unlogged, bounds>>
      BY <2>1, <2>6 DEF Vacate
    <3> QED BY <3>1, <3>2 DEF LogTyped, bounds
  <2>7. CASE Record(a)
    <3>1. log' = log \o Due(a) /\ UNCHANGED <<history, bounds>>
      BY <2>7 DEF Record
    <3>2. log' \in Seq(Lines)
      BY <3>1, DueTyped DEF LogTyped
    <3> QED BY <3>1, <3>2 DEF LogTyped, history, bounds
  <2>8. CASE Check(a) \/ Stat(a) \/ Clear(a) \/ Walk(a) \/ Compare(a) \/ PickPage(a) \/ PickGone(a) \/ Done(a)
    BY <1>1, <2>8 DEF Check, Stat, Clear, Walk, Compare, PickPage, PickGone, Done, history, bounds
  <2>9. CASE Read(a) \/ ReadStat(a) \/ Upsert(a) \/ Drop(a) \/ Remove(a)
    BY <1>1, <2>9 DEF Read, ReadStat, Upsert, Drop, Remove, bounds
  <2> QED BY <1>5, <2>3, <2>4, <2>5, <2>6, <2>7, <2>8, <2>9 DEF Step
<1>6. ASSUME NEW a \in Actors, LoseLine(a) PROVE LogTyped'
  <2>1. losses' = losses + 1 /\ unlogged' = unlogged \cup Marked(a)
        /\ UNCHANGED <<log, written, muddled, requests, edits, stops>>
    BY <1>6 DEF LoseLine
  <2> QED BY <2>1, DueTyped DEF LogTyped
<1>7. CASE Batch \/ Rescan \/ Start \/ Serve
  BY <1>1, <1>7 DEF Batch, Rescan, TakeBatch, Start, Serve, history, bounds
<1>8. CASE Stop
  <2>1. stops' = stops + 1 /\ unlogged' = unlogged \cup UNION {Marked(a) : a \in Actors}
        /\ UNCHANGED <<log, written, muddled, requests, edits, losses>>
    BY <1>8 DEF Stop
  <2> QED BY <2>1, DueTyped DEF LogTyped
<1>9. CASE DeleteIndex
  BY <1>9 DEF DeleteIndex, LogTyped, bounds
<1>10. CASE Edit
  <2>1. edits' = edits + 1 /\ UNCHANGED <<log, muddled, unlogged, requests, stops, losses>>
    BY <1>10 DEF Edit
  <2>2. PICK p \in Slugs, body \in Contents : Touch(p, body)
    BY <1>10 DEF Edit
  <2> QED BY <1>2, <2>1, <2>2 DEF LogTyped
<1>11. CASE UNCHANGED vars
  BY <1>1, <1>11 DEF vars
<1> QED BY <1>4, <1>5, <1>6, <1>7, <1>8, <1>9, <1>10, <1>11 DEF Next

-----------------------------------------------------------------------------
(* The invariant, and what it says.                                        *)

IInv == Held /\ LogTyped

LEMMA InitHolds == Init => IInv
<1> SUFFICES ASSUME Init PROVE IInv
  OBVIOUS
<1>1. disk \in [Slugs -> Contents] /\ UNION {} = {} /\ <<>> \in Seq(Lines)
  BY WikiAssumption DEF Init
<1>2. Typed
  BY <1>1 DEF Init, Typed, Phases
<1>3. TasksFit
  BY RestFits DEF Init, TasksFit, Fits
<1>4. \A a \in Actors : task[a] = Rest /\ Idle(a)
  BY DEF Init, Idle, At, Rest
<1>5. PhasesFit
  BY <1>4, RestFits DEF Init, PhasesFit
<1>6. StampsPast /\ VouchedIsTrue
  BY DEF Init, StampsPast, VouchedIsTrue, Vouches
<1>7. HandsFit
  BY <1>4, RestFits DEF HandsFit, Actors
<1>8. AllCovered
  BY DEF Init, AllCovered
<1>9. LogTyped
  BY <1>1 DEF Init, LogTyped
<1> QED BY <1>2, <1>3, <1>5, <1>6, <1>7, <1>8, <1>9 DEF IInv, Held

LEMMA StepHolds == IInv /\ [Next]_vars => IInv'
<1> SUFFICES ASSUME IInv, [Next]_vars PROVE IInv'
  OBVIOUS
<1>1. Held /\ LogTyped /\ log \in Seq(Lines)
  BY DEF IInv, LogTyped
<1>2. LogTyped'
  BY <1>1, LogSteps
<1>3. ASSUME NEW a \in Actors, Step(a) PROVE Held'
  <2>1. CASE Check(a) \/ Write(a) \/ Stat(a) \/ Unlink(a) \/ Rename(a)
    BY <1>1, <2>1, CheckKeeps, WriteKeeps, StatKeeps, UnlinkKeeps, RenameKeeps
  <2>2. CASE Read(a) \/ ReadStat(a) \/ Vacate(a) \/ Upsert(a) \/ Drop(a) \/ Remove(a)
    BY <1>1, <2>2, ReadKeeps, ReadStatKeeps, VacateKeeps, UpsertKeeps, DropKeeps, RemoveKeeps
  <2>3. CASE Record(a)
    BY <1>1, <2>3, RecordKeeps
  <2>4. CASE Clear(a) \/ Walk(a) \/ Compare(a) \/ PickPage(a) \/ PickGone(a) \/ Done(a)
    BY <1>1, <2>4, ClearKeeps, WalkKeeps, CompareKeeps, PickPageKeeps, PickGoneKeeps, DoneKeeps
  <2> QED BY <1>3, <2>1, <2>2, <2>3, <2>4 DEF Step
<1>4. ASSUME NEW a \in Actors, LoseLine(a) PROVE Held'
  BY <1>1, <1>4, RecordKeeps
<1>5. ASSUME NEW c \in Clients, Request(c) PROVE Held'
  BY <1>1, <1>5, AskKeeps
<1>6. ASSUME Batch \/ Rescan \/ Start \/ Serve PROVE Held'
  BY <1>1, <1>6, TakeBatchKeeps, StartKeeps, ServeKeeps
<1>7. ASSUME Stop \/ DeleteIndex \/ Edit PROVE Held'
  BY <1>1, <1>7, StopKeeps, DeleteIndexKeeps, EditKeeps
<1>8. ASSUME UNCHANGED vars PROVE Held'
  <2>1. UNCHANGED <<disk, mtime, clock, rows, phase, dirty, task, missed>>
    BY <1>8 DEF vars
  <2>2. task' = [task EXCEPT ![Starter] = task[Starter]] /\ Starter \in Actors
    BY <1>1, <2>1 DEF Held, TasksFit, Actors
  <2>3. PICK t : t = task[Starter]
    OBVIOUS
  <2> QED BY <1>1, <2>1, <2>2, <2>3, InHand, HandMoves
<1>9. Held'
  BY <1>3, <1>4, <1>5, <1>6, <1>7, <1>8 DEF Next
<1> QED BY <1>2, <1>9 DEF IInv

LEMMA InvariantSays == IInv => TypeOK /\ QuietIndexMatchesDisk
<1> SUFFICES ASSUME IInv PROVE TypeOK /\ QuietIndexMatchesDisk
  OBVIOUS
<1>1. Held /\ LogTyped
  BY DEF IInv
<1>2. ASSUME NEW a \in Actors
      PROVE  /\ task[a].slug \in Slugs \cup {None} /\ task[a].src \in Slugs \cup {None}
             /\ task[a].body \in Contents /\ task[a].stamp \in Stamps \cup {None}
             /\ task[a].change \in Changes \cup {None}
             /\ task[a].todo \subseteq Slugs /\ task[a].gone \subseteq Slugs
  BY <1>1, InHand DEF Fits, Tasks
<1>3. TypeOK
  BY <1>1, <1>2 DEF TypeOK, Held, Typed, LogTyped, Phases, Rows
<1>4. ASSUME Quiet, NEW p \in Slugs \ missed PROVE Reflects(rows[p], p)
  <2>1. \A a \in Actors : task[a] = Rest
    BY <1>1, <1>4, InHand DEF Quiet, Idle, At, Fits, OpFits
  <2>2. \A a \in Actors : ~Covers(task[a], p)
    BY <2>1, RestFits
  <2>3. phase # "down" /\ dirty = {}
    BY <1>4 DEF Quiet, Serving
  <2> QED BY <1>1, <2>2, <2>3 DEF Held, AllCovered
<1> QED BY <1>3, <1>4 DEF QuietIndexMatchesDisk

\* The index, the word log and what everybody has in hand keep their types:
\* TypeOK, of run page_files.
THEOREM PageIndexTypes == Spec => []TypeOK
BY InitHolds, StepHolds, InvariantSays, PTL DEF Spec

\* However many requests, edits and stops, and in whatever order the handlers,
\* the watcher and the scan took their steps: a server with nothing under way
\* has the disk's pages in its index, but for the missed (index/sync.rs:3-5).
THEOREM QuietIndexIsTrue == Spec => []QuietIndexMatchesDisk
BY InitHolds, StepHolds, InvariantSays, PTL DEF Spec
=============================================================================
