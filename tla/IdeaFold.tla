------------------------------ MODULE IdeaFold ------------------------------
(***************************************************************************)
(* The index over the idea inbox (index/ideas.rs).  Three tables mirror    *)
(* the authored files, one row each: captures, idea threads with their     *)
(* seeds, and decision events.  The others hold what the decisions add up  *)
(* to, and are recomputed piecemeal: each write to a mirrored table refolds *)
(* the ideas and captures which that write names, in the same transaction. *)
(* What could go wrong is that a write changes a fold nobody recomputes.   *)
(*                                                                         *)
(* Left out: owners (every read filters by one; a fold never looks),       *)
(* text, names, terms and full-text rows, stamps and sizes.  An id's order *)
(* is the order of its instant, and an event's `created` is that instant,  *)
(* so an event's id stands for both.  A pair of captures is kept in one    *)
(* order whichever way it was named: a set of two.                         *)
(***************************************************************************)
EXTENDS Naturals, FiniteSets

CONSTANTS
    Captures, Ideas, Pages,
    EventIds,   \* instants at which a decision may be taken: the fold's order
    Moments,    \* instants a capture may have been created at
    None        \* no row, no idea, no page

ASSUME InstantAssumption == EventIds \subseteq Nat /\ Moments \subseteq Nat
ASSUME NoneAssumption ==
    /\ None \notin Ideas \cup Pages \cup Moments \cup EventIds
    /\ \A seeds \in SUBSET Captures : seeds # None

VARIABLES
    captures,    \* idea_captures: when each was created
    threads,     \* idea_threads and idea_seed_captures: each idea's seeds
    events,      \* idea_events
    membership,  \* idea_membership
    rejections,  \* idea_rejections
    standing,    \* idea_thread_state
    archived,    \* idea_capture_state
    pairs        \* idea_capture_rejections

mirrors == <<captures, threads, events>>
tables  == <<captures, threads, events, membership, rejections, standing, archived, pairs>>

(***************************************************************************)
(* An event: its kind and the references that kind may carry.              *)
(***************************************************************************)
Connecting == {"capture_connected", "capture_disconnected"}
Judging    == {"candidate_rejected", "candidate_reconsidered"}
Retiring   == {"idea_retired", "idea_reopened"}
Archiving  == {"capture_archived", "capture_restored"}
Signalling == {"interest_affirmed", "capture_connected", "idea_reopened", "idea_promoted"}

Singles == {{c} : c \in Captures}
Pairs   == {{c, d} : c, d \in Captures} \ Singles

Shape(kinds, ideas, sets, pages) == [kind : kinds, idea : ideas, captures : sets, page : pages]
Event ==
    Shape(Connecting \cup Judging, Ideas, Singles, {None})
        \cup Shape(Judging, {None}, Pairs, {None})
        \cup Shape(Retiring \cup {"interest_affirmed", "rediscovery_dismissed"},
                   Ideas, {{}}, {None})
        \cup Shape(Archiving \cup {"capture_deleted"}, {None}, Singles, {None})
        \cup Shape({"idea_promoted"}, Ideas, {{}}, Pages)

ASSUME NoEventAssumption == \A event \in Event : event # None

Seeds == (SUBSET Captures) \ {{}}
NoStanding == [retired |-> FALSE, promoted |-> {}, signal |-> {}]

(***************************************************************************)
(* The fold: "order by id desc limit 1" over the events about one thing.   *)
(***************************************************************************)
Newest(ids) == {e \in ids : \A f \in ids : f <= e}

About(es, kinds, i, C) ==
    {e \in EventIds : /\ es[e] # None
                      /\ es[e].kind \in kinds
                      /\ es[e].idea = i
                      /\ es[e].captures = C}

\* Whether the latest decision of these kinds about i and C is of the kind.
Says(es, kind, kinds, i, C) ==
    \E e \in Newest(About(es, kinds, i, C)) : es[e].kind = kind

Members(ts, es, i) ==
    IF ts[i] = None THEN {}
    ELSE {c \in Captures :
             IF About(es, Connecting, i, {c}) = {}
             THEN c \in ts[i]
             ELSE Says(es, "capture_connected", Connecting, i, {c})}

Rejected(cs, ts, es, i) ==
    IF ts[i] = None THEN {}
    ELSE {c \in Captures : /\ cs[c] # None
                           /\ Says(es, "candidate_rejected", Judging, i, {c})}

Retired(es, i) == Says(es, "idea_retired", Retiring, i, {})

\* The events of an idea that count as a sign of life, whatever else they name.
Signals(es, i) ==
    {e \in EventIds : es[e] # None /\ es[e].idea = i /\ es[e].kind \in Signalling}

\* `promoted` and `signal` are sets of at most one: SQL's null is the empty set.
Standing(cs, ts, es, held, i) ==
    IF ts[i] = None THEN NoStanding
    ELSE [retired  |-> Retired(es, i),
          promoted |-> {es[e].page : e \in Newest(About(es, {"idea_promoted"}, i, {}))},
          signal   |-> Newest({cs[c] : c \in {d \in held : cs[d] # None}} \cup Signals(es, i))]

Archived(cs, es, c) ==
    cs[c] # None /\ Says(es, "capture_archived", Archiving, None, {c})

RejectedPair(cs, es, P) ==
    /\ \A c \in P : cs[c] # None
    /\ Says(es, "candidate_rejected", Judging, None, P)

(***************************************************************************)
(* fold_idea and fold_capture, for the ideas I and the captures C, after   *)
(* the mirrored tables have changed.  `signal` reads the membership just   *)
(* written.                                                                *)
(***************************************************************************)
FoldIdeas(I) ==
    /\ membership' = [i \in Ideas |->
            IF i \in I THEN Members(threads', events', i) ELSE membership[i]]
    /\ rejections' = [i \in Ideas |->
            IF i \in I THEN Rejected(captures', threads', events', i) ELSE rejections[i]]
    /\ standing' = [i \in Ideas |->
            IF i \in I
            THEN Standing(captures', threads', events', membership'[i], i)
            ELSE standing[i]]

FoldCaptures(C) ==
    /\ archived' = (archived \ C) \cup {c \in C : Archived(captures', events', c)}
    /\ pairs' = {P \in pairs : P \cap C = {}}
            \cup {P \in Pairs : P \cap C # {} /\ RejectedPair(captures', events', P)}

\* Forgetting the ideas that name it in an event, or hold it.
IdeasNaming_SeedsOnly(c) == {i \in Ideas : threads[i] # None /\ c \in threads[i]}

\* ideas_naming: every idea whose fold could depend on this capture.
IdeasNaming(c) ==
    {i \in Ideas : \/ threads[i] # None /\ c \in threads[i]
                   \/ \E e \in EventIds : /\ events[e] # None
                                          /\ events[e].idea = i
                                          /\ events[e].captures = {c}
                   \/ c \in membership[i]}

\* refold_for_event: what one event's references bear on.
FoldFor(event) ==
    /\ FoldIdeas({event.idea} \cap Ideas)
    /\ FoldCaptures(event.captures)

(***************************************************************************)
(* The operations, each one transaction.                                   *)
(***************************************************************************)
UpsertCapture(c, created) ==
    /\ captures' = [captures EXCEPT ![c] = created]
    /\ UNCHANGED <<threads, events>>
    /\ FoldCaptures({c})
    /\ FoldIdeas(IdeasNaming(c))

RemoveCapture(c) ==
    /\ captures' = [captures EXCEPT ![c] = None]
    /\ UNCHANGED <<threads, events>>
    /\ FoldCaptures({c})
    /\ FoldIdeas(IdeasNaming(c))

UpsertIdea(i, seeds) ==
    /\ threads' = [threads EXCEPT ![i] = seeds]
    /\ UNCHANGED <<captures, events, archived, pairs>>
    /\ FoldIdeas({i})

\* The rows about the idea go by `on delete cascade`; its events stay.
RemoveIdea(i) ==
    /\ threads' = [threads EXCEPT ![i] = None]
    /\ membership' = [membership EXCEPT ![i] = {}]
    /\ rejections' = [rejections EXCEPT ![i] = {}]
    /\ standing' = [standing EXCEPT ![i] = NoStanding]
    /\ UNCHANGED <<captures, events, archived, pairs>>

\* Only what the event names now is refolded, not what the row it replaces named.
UpsertEvent(e, event) ==
    /\ events' = [events EXCEPT ![e] = event]
    /\ UNCHANGED <<captures, threads>>
    /\ FoldFor(event)

RemoveEvent(e) ==
    /\ events' = [events EXCEPT ![e] = None]
    /\ UNCHANGED <<captures, threads>>
    /\ IF events[e] = None
       THEN UNCHANGED <<membership, rejections, standing, archived, pairs>>
       ELSE FoldFor(events[e])

Clear ==
    /\ captures' = [c \in Captures |-> None]
    /\ threads' = [i \in Ideas |-> None]
    /\ events' = [e \in EventIds |-> None]
    /\ membership' = [i \in Ideas |-> {}]
    /\ rejections' = [i \in Ideas |-> {}]
    /\ standing' = [i \in Ideas |-> NoStanding]
    /\ archived' = {}
    /\ pairs' = {}

(***************************************************************************)
(* Files are read, and so rows written, in any order: a scan takes         *)
(* captures, ideas and events in turn, a request or the watcher whichever  *)
(* changed.  The store only ever appends an event, so one read again says  *)
(* what its row says.                                                      *)
(***************************************************************************)
Append(e, event) == events[e] \in {None, event} /\ UpsertEvent(e, event)

FoldInit ==
    /\ captures = [c \in Captures |-> None]
    /\ threads = [i \in Ideas |-> None]
    /\ events = [e \in EventIds |-> None]
    /\ membership = [i \in Ideas |-> {}]
    /\ rejections = [i \in Ideas |-> {}]
    /\ standing = [i \in Ideas |-> NoStanding]
    /\ archived = {}
    /\ pairs = {}

FoldNext ==
    \/ \E c \in Captures, created \in Moments : UpsertCapture(c, created)
    \/ \E c \in Captures : RemoveCapture(c)
    \/ \E i \in Ideas, seeds \in Seeds : UpsertIdea(i, seeds)
    \/ \E i \in Ideas : RemoveIdea(i)
    \/ \E e \in EventIds, event \in Event : Append(e, event)
    \/ \E e \in EventIds : RemoveEvent(e)
    \/ Clear

FoldSpec == FoldInit /\ [][FoldNext]_tables

-----------------------------------------------------------------------------
(* The tables' types: what each column may hold.                           *)
TablesTypeOK ==
    /\ captures \in [Captures -> Moments \cup {None}]
    /\ threads \in [Ideas -> Seeds \cup {None}]
    /\ events \in [EventIds -> Event \cup {None}]
    /\ membership \in [Ideas -> SUBSET Captures]
    /\ rejections \in [Ideas -> SUBSET Captures]
    /\ standing \in [Ideas -> [retired : BOOLEAN, promoted : SUBSET Pages,
                               signal : SUBSET (Moments \cup EventIds)]]
    /\ archived \in SUBSET Captures
    /\ pairs \in SUBSET Pairs

(* "Whatever folding decisions incrementally produces has to be what       *)
(* deleting index.db and starting again produces" (index/sync.rs): at any   *)
(* moment, each folded table is the fold of the mirrored rows as they are, *)
(* however they came to be there.                                          *)
FoldIsCurrent ==
    /\ \A i \in Ideas :
          /\ membership[i] = Members(threads, events, i)
          /\ rejections[i] = Rejected(captures, threads, events, i)
          /\ standing[i] = Standing(captures, threads, events, membership[i], i)
    /\ archived = {c \in Captures : Archived(captures, events, c)}
    /\ pairs = {P \in Pairs : RejectedPair(captures, events, P)}
=============================================================================
