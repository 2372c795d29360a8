------------------------- MODULE IdeaInbox_proofs -------------------------
(***************************************************************************)
(* Proofs about modules IdeaFold and IdeaInbox, for any number of          *)
(* requests, captures, ideas, pages and instants, any watcher, and any     *)
(* failures, edits and crashes.                                            *)
(*                                                                         *)
(* IdeaFold first: whatever is written to the mirrored tables, in whatever *)
(* order, the folded tables are the fold of them.  The argument is one of  *)
(* scope.  A write changes one row; a fold of an idea or a capture which   *)
(* the write does not refold never looked at that row (lemmas OtherIdea,   *)
(* OtherCapture and OtherPair for an event, OtherCreation for a capture),  *)
(* and so is what it was.                                                  *)
(*                                                                         *)
(* That fold is right as long as no event's row gives way to another       *)
(* event's, which is a fact about the inbox: whoever has an event of some  *)
(* instant in hand, be it a request, the index, a file or the watcher, has *)
(* the same one (Agreement), because it was minted once.                   *)
(*                                                                         *)
(* Then what the inbox promises: deletions on record, tables that come to  *)
(* be the files where there is a watcher, and, one request at a time, the  *)
(* rules on what may be decided.                                           *)
(***************************************************************************)
EXTENDS IdeaInbox, FiniteSetTheorems, TLAPS

(* Every event carries references of its kind.                             *)
LEMMA EventShape ==
    ASSUME NEW event \in Event
    PROVE  /\ event.idea \in Ideas \cup {None}
           /\ event.captures \in SUBSET Captures
           /\ event.kind = "idea_promoted" => event.page \in Pages
           /\ event # None
<1>1. /\ event.idea \in Ideas \cup {None}
      /\ event.captures \in SUBSET Captures
      /\ event.kind = "idea_promoted" => event.page \in Pages
  BY DEF Event, Shape, Singles, Pairs, Connecting, Judging, Retiring, Archiving
<1> QED BY <1>1, NoEventAssumption

-----------------------------------------------------------------------------
(* Types.                                                                  *)

(* What a fold of an idea yields is of the tables' types.                  *)
LEMMA StandingType ==
    ASSUME NEW cs \in [Captures -> Moments \cup {None}], NEW ts,
           NEW es \in [EventIds -> Event \cup {None}],
           NEW held \in SUBSET Captures, NEW i \in Ideas
    PROVE  Standing(cs, ts, es, held, i) \in
               [retired : BOOLEAN, promoted : SUBSET Pages,
                signal : SUBSET (Moments \cup EventIds)]
<1>1. NoStanding \in [retired : BOOLEAN, promoted : SUBSET Pages,
                      signal : SUBSET (Moments \cup EventIds)]
  BY DEF NoStanding
<1>2. Retired(es, i) \in BOOLEAN
  BY DEF Retired, Says
<1>3. \A e \in About(es, {"idea_promoted"}, i, {}) : es[e].page \in Pages
  <2> SUFFICES ASSUME NEW e \in About(es, {"idea_promoted"}, i, {})
               PROVE  es[e].page \in Pages
    OBVIOUS
  <2>1. e \in EventIds /\ es[e] # None /\ es[e].kind = "idea_promoted"
    BY DEF About
  <2>2. es[e] \in Event
    BY <2>1
  <2> QED BY <2>1, <2>2, EventShape
<1>4. {es[e].page : e \in Newest(About(es, {"idea_promoted"}, i, {}))} \in SUBSET Pages
  BY <1>3 DEF Newest
<1>5. Newest({cs[c] : c \in {d \in held : cs[d] # None}} \cup Signals(es, i))
          \in SUBSET (Moments \cup EventIds)
  BY DEF Newest, Signals
<1> QED BY <1>1, <1>2, <1>4, <1>5 DEF Standing

LEMMA FoldIdeasType ==
    ASSUME TablesTypeOK, NEW I, FoldIdeas(I),
           captures' \in [Captures -> Moments \cup {None}],
           events' \in [EventIds -> Event \cup {None}]
    PROVE  /\ membership' \in [Ideas -> SUBSET Captures]
           /\ rejections' \in [Ideas -> SUBSET Captures]
           /\ standing' \in [Ideas -> [retired : BOOLEAN, promoted : SUBSET Pages,
                                       signal : SUBSET (Moments \cup EventIds)]]
<1>1. \A i \in Ideas : Members(threads', events', i) \in SUBSET Captures
  BY DEF Members
<1>2. \A i \in Ideas : Rejected(captures', threads', events', i) \in SUBSET Captures
  BY DEF Rejected
<1>3. membership' \in [Ideas -> SUBSET Captures]
  BY <1>1 DEF FoldIdeas, TablesTypeOK
<1>4. rejections' \in [Ideas -> SUBSET Captures]
  BY <1>2 DEF FoldIdeas, TablesTypeOK
<1>5. \A i \in Ideas : Standing(captures', threads', events', membership'[i], i) \in
          [retired : BOOLEAN, promoted : SUBSET Pages, signal : SUBSET (Moments \cup EventIds)]
  BY <1>3, StandingType
<1> QED BY <1>3, <1>4, <1>5 DEF FoldIdeas, TablesTypeOK

LEMMA FoldCapturesType ==
    ASSUME TablesTypeOK, NEW C \in SUBSET Captures, FoldCaptures(C)
    PROVE  archived' \in SUBSET Captures /\ pairs' \in SUBSET Pairs
BY DEF FoldCaptures, TablesTypeOK

(* Every operation keeps the tables' types.                                *)
LEMMA OperationTypes ==
    ASSUME TablesTypeOK
    PROVE  /\ \A c \in Captures, created \in Moments : UpsertCapture(c, created) => TablesTypeOK'
           /\ \A c \in Captures : RemoveCapture(c) => TablesTypeOK'
           /\ \A i \in Ideas, seeds \in Seeds : UpsertIdea(i, seeds) => TablesTypeOK'
           /\ \A i \in Ideas : RemoveIdea(i) => TablesTypeOK'
           /\ \A e \in EventIds, event \in Event : UpsertEvent(e, event) => TablesTypeOK'
           /\ \A e \in EventIds : RemoveEvent(e) => TablesTypeOK'
           /\ Clear => TablesTypeOK'
           /\ UNCHANGED tables => TablesTypeOK'
<1>1. ASSUME NEW c \in Captures, NEW created \in Moments, UpsertCapture(c, created)
      PROVE  TablesTypeOK'
  <2>1. /\ captures' \in [Captures -> Moments \cup {None}]
        /\ UNCHANGED <<threads, events>>
        /\ FoldCaptures({c}) /\ FoldIdeas(IdeasNaming(c))
    BY <1>1 DEF UpsertCapture, TablesTypeOK
  <2> QED BY <2>1, FoldIdeasType, FoldCapturesType DEF TablesTypeOK
<1>2. ASSUME NEW c \in Captures, RemoveCapture(c)
      PROVE  TablesTypeOK'
  <2>1. /\ captures' \in [Captures -> Moments \cup {None}]
        /\ UNCHANGED <<threads, events>>
        /\ FoldCaptures({c}) /\ FoldIdeas(IdeasNaming(c))
    BY <1>2 DEF RemoveCapture, TablesTypeOK
  <2> QED BY <2>1, FoldIdeasType, FoldCapturesType DEF TablesTypeOK
<1>3. ASSUME NEW i \in Ideas, NEW seeds \in Seeds, UpsertIdea(i, seeds)
      PROVE  TablesTypeOK'
  <2>1. /\ threads' \in [Ideas -> Seeds \cup {None}]
        /\ UNCHANGED <<captures, events, archived, pairs>>
        /\ FoldIdeas({i})
    BY <1>3 DEF UpsertIdea, TablesTypeOK
  <2> QED BY <2>1, FoldIdeasType DEF TablesTypeOK
<1>4. ASSUME NEW i \in Ideas, RemoveIdea(i)
      PROVE  TablesTypeOK'
  <2>1. NoStanding \in [retired : BOOLEAN, promoted : SUBSET Pages,
                        signal : SUBSET (Moments \cup EventIds)]
    BY DEF NoStanding
  <2> QED BY <1>4, <2>1 DEF RemoveIdea, TablesTypeOK
<1>5. ASSUME NEW e \in EventIds, NEW event \in Event, UpsertEvent(e, event)
      PROVE  TablesTypeOK'
  <2>1. /\ events' \in [EventIds -> Event \cup {None}]
        /\ UNCHANGED <<captures, threads>>
        /\ FoldIdeas({event.idea} \cap Ideas) /\ FoldCaptures(event.captures)
    BY <1>5 DEF UpsertEvent, FoldFor, TablesTypeOK
  <2> QED BY <2>1, EventShape, FoldIdeasType, FoldCapturesType DEF TablesTypeOK
<1>6. ASSUME NEW e \in EventIds, RemoveEvent(e)
      PROVE  TablesTypeOK'
  <2>1. /\ events' \in [EventIds -> Event \cup {None}]
        /\ UNCHANGED <<captures, threads>>
    BY <1>6 DEF RemoveEvent, TablesTypeOK
  <2>2. CASE events[e] = None
    BY <1>6, <2>1, <2>2 DEF RemoveEvent, TablesTypeOK
  <2>3. CASE events[e] # None
    <3>1. events[e] \in Event
      BY <2>3 DEF TablesTypeOK
    <3>2. FoldIdeas({events[e].idea} \cap Ideas) /\ FoldCaptures(events[e].captures)
      BY <1>6, <2>3 DEF RemoveEvent, FoldFor
    <3> QED BY <2>1, <3>1, <3>2, EventShape, FoldIdeasType, FoldCapturesType DEF TablesTypeOK
  <2> QED BY <2>2, <2>3
<1>7. ASSUME Clear
      PROVE  TablesTypeOK'
  <2>1. NoStanding \in [retired : BOOLEAN, promoted : SUBSET Pages,
                        signal : SUBSET (Moments \cup EventIds)]
    BY DEF NoStanding
  <2> QED BY <1>7, <2>1 DEF Clear, TablesTypeOK
<1>8. ASSUME UNCHANGED tables
      PROVE  TablesTypeOK'
  BY <1>8 DEF tables, TablesTypeOK
<1> QED BY <1>1, <1>2, <1>3, <1>4, <1>5, <1>6, <1>7, <1>8

LEMMA TypeStep == TablesTypeOK /\ [FoldNext]_tables => TablesTypeOK'
BY OperationTypes DEF FoldNext, Append

LEMMA TypeInit == FoldInit => TablesTypeOK
<1>1. NoStanding \in [retired : BOOLEAN, promoted : SUBSET Pages,
                      signal : SUBSET (Moments \cup EventIds)]
  BY DEF NoStanding
<1> QED BY <1>1 DEF FoldInit, TablesTypeOK

(* No sequence of writes puts anything but a member, a rejection or a      *)
(* signal of the right kind into a folded column.                          *)
THEOREM IdeaFoldTypes == FoldSpec => []TablesTypeOK
BY TypeInit, TypeStep, PTL DEF FoldSpec

-----------------------------------------------------------------------------
(* Scope: what a fold does not look at.                                    *)

\* es and fs differ at most in the event e.
ButFor(e, es, fs) == \A f \in EventIds : f # e => es[f] = fs[f]

(* Events about something else do not enter a decision.                    *)
LEMMA OtherSubject ==
    ASSUME NEW es, NEW fs, NEW e, NEW i, NEW C, NEW kinds,
           ButFor(e, es, fs),
           es[e] # None => es[e].idea # i \/ es[e].captures # C,
           fs[e] # None => fs[e].idea # i \/ fs[e].captures # C
    PROVE  /\ About(es, kinds, i, C) = About(fs, kinds, i, C)
           /\ \A f \in Newest(About(es, kinds, i, C)) : es[f] = fs[f]
<1>1. About(es, kinds, i, C) = About(fs, kinds, i, C)
  BY DEF About, ButFor
<1>2. \A f \in Newest(About(es, kinds, i, C)) : es[f] = fs[f]
  BY DEF About, ButFor, Newest
<1> QED BY <1>1, <1>2

LEMMA OtherDecision ==
    ASSUME NEW es, NEW fs, NEW e, NEW i, NEW C, NEW kinds, NEW kind,
           ButFor(e, es, fs),
           es[e] # None => es[e].idea # i \/ es[e].captures # C,
           fs[e] # None => fs[e].idea # i \/ fs[e].captures # C
    PROVE  Says(es, kind, kinds, i, C) = Says(fs, kind, kinds, i, C)
BY OtherSubject DEF Says

(* An event about another idea, or none, does not enter an idea's fold.    *)
LEMMA OtherIdea ==
    ASSUME NEW es, NEW fs, NEW e, NEW i \in Ideas, NEW cs, NEW ts, NEW held,
           ButFor(e, es, fs),
           es[e] # None => es[e].idea # i,
           fs[e] # None => fs[e].idea # i
    PROVE  /\ Members(ts, es, i) = Members(ts, fs, i)
           /\ Rejected(cs, ts, es, i) = Rejected(cs, ts, fs, i)
           /\ Standing(cs, ts, es, held, i) = Standing(cs, ts, fs, held, i)
<1>1. \A c \in Captures :
          /\ About(es, Connecting, i, {c}) = About(fs, Connecting, i, {c})
          /\ Says(es, "capture_connected", Connecting, i, {c})
                 = Says(fs, "capture_connected", Connecting, i, {c})
  BY OtherSubject, OtherDecision
<1>2. Members(ts, es, i) = Members(ts, fs, i)
  BY <1>1 DEF Members
<1>3. \A c \in Captures : Says(es, "candidate_rejected", Judging, i, {c})
                              = Says(fs, "candidate_rejected", Judging, i, {c})
  BY OtherDecision
<1>4. Rejected(cs, ts, es, i) = Rejected(cs, ts, fs, i)
  BY <1>3 DEF Rejected
<1>5. Retired(es, i) = Retired(fs, i)
  BY OtherDecision DEF Retired
<1>6. /\ About(es, {"idea_promoted"}, i, {}) = About(fs, {"idea_promoted"}, i, {})
      /\ \A f \in Newest(About(es, {"idea_promoted"}, i, {})) : es[f] = fs[f]
  BY DEF About, ButFor, Newest
<1>7. {es[f].page : f \in Newest(About(es, {"idea_promoted"}, i, {}))}
          = {fs[f].page : f \in Newest(About(fs, {"idea_promoted"}, i, {}))}
  <2> DEFINE N == Newest(About(es, {"idea_promoted"}, i, {}))
  <2>1. N = Newest(About(fs, {"idea_promoted"}, i, {}))
    BY <1>6
  <2>2. \A f \in N : es[f] = fs[f]
    BY <1>6
  <2> HIDE DEF N
  <2>3. {es[f].page : f \in N} = {fs[f].page : f \in N}
    BY <2>2
  <2> QED BY <2>1, <2>3 DEF N
<1>8. Signals(es, i) = Signals(fs, i)
  BY DEF Signals, ButFor
<1> QED BY <1>2, <1>4, <1>5, <1>7, <1>8 DEF Standing

(* An event that does not name a capture does not enter its fold.          *)
LEMMA OtherCapture ==
    ASSUME NEW es, NEW fs, NEW e, NEW c, NEW cs,
           ButFor(e, es, fs),
           es[e] # None => c \notin es[e].captures,
           fs[e] # None => c \notin fs[e].captures
    PROVE  Archived(cs, es, c) = Archived(cs, fs, c)
BY OtherDecision DEF Archived

LEMMA OtherPair ==
    ASSUME NEW es, NEW fs, NEW e, NEW P \in Pairs, NEW cs,
           ButFor(e, es, fs),
           es[e] # None => P \cap es[e].captures = {},
           fs[e] # None => P \cap fs[e].captures = {}
    PROVE  RejectedPair(cs, es, P) = RejectedPair(cs, fs, P)
<1>1. P # {}
  BY DEF Pairs
<1>2. /\ es[e] # None => es[e].captures # P
      /\ fs[e] # None => fs[e].captures # P
  BY <1>1
<1> QED BY <1>2, OtherDecision DEF RejectedPair

(* A capture's creation enters its own fold, and those of the ideas that    *)
(* name it: a capture no decision and no membership names is no candidate  *)
(* and gives no signal.                                                    *)
LEMMA OtherCreation ==
    ASSUME TablesTypeOK, NEW c \in Captures, NEW cs, NEW i \in Ideas, i \notin IdeasNaming(c),
           \A d \in Captures : d # c => cs[d] = captures[d]
    PROVE  /\ Rejected(cs, threads, events, i) = Rejected(captures, threads, events, i)
           /\ Standing(cs, threads, events, membership[i], i)
                  = Standing(captures, threads, events, membership[i], i)
<1>1. ~Says(events, "candidate_rejected", Judging, i, {c})
  BY DEF Says, Newest, About, IdeasNaming
<1>2. Rejected(cs, threads, events, i) = Rejected(captures, threads, events, i)
  BY <1>1 DEF Rejected
<1>3. \A d \in membership[i] : cs[d] = captures[d]
  BY DEF IdeasNaming, TablesTypeOK
<1>4. {cs[d] : d \in {b \in membership[i] : cs[b] # None}}
          = {captures[d] : d \in {b \in membership[i] : captures[b] # None}}
  BY <1>3
<1> QED BY <1>2, <1>4 DEF Standing

-----------------------------------------------------------------------------
(* Every operation leaves the folds current.                               *)

IdeaIsCurrent(i) ==
    /\ membership[i] = Members(threads, events, i)
    /\ rejections[i] = Rejected(captures, threads, events, i)
    /\ standing[i] = Standing(captures, threads, events, membership[i], i)
IdeasAreCurrent == \A i \in Ideas : IdeaIsCurrent(i)
CapturesAreCurrent ==
    /\ archived = {c \in Captures : Archived(captures, events, c)}
    /\ pairs = {P \in Pairs : RejectedPair(captures, events, P)}

LEMMA Parts == FoldIsCurrent <=> IdeasAreCurrent /\ CapturesAreCurrent
BY DEF FoldIsCurrent, IdeasAreCurrent, IdeaIsCurrent, CapturesAreCurrent

(* fold_idea leaves the ideas it is called for current, the others alone.  *)
LEMMA FoldedIdeas ==
    ASSUME TablesTypeOK, NEW I, FoldIdeas(I), NEW i \in Ideas
    PROVE  /\ i \in I => IdeaIsCurrent(i)'
           /\ i \notin I => /\ membership'[i] = membership[i]
                            /\ rejections'[i] = rejections[i]
                            /\ standing'[i] = standing[i]
BY DEF FoldIdeas, IdeaIsCurrent

(* fold_capture likewise: a capture or a pair outside its reach has to     *)
(* have the fold it had.                                                   *)
LEMMA FoldedCaptures ==
    ASSUME CapturesAreCurrent, NEW C \in SUBSET Captures, FoldCaptures(C),
           \A c \in Captures \ C :
               Archived(captures', events', c) = Archived(captures, events, c),
           \A P \in Pairs : P \cap C = {} =>
               RejectedPair(captures', events', P) = RejectedPair(captures, events, P)
    PROVE  CapturesAreCurrent'
<1>1. archived' = {c \in Captures : Archived(captures', events', c)}
  BY DEF FoldCaptures, CapturesAreCurrent
<1>2. pairs' = {P \in Pairs : RejectedPair(captures', events', P)}
  BY DEF FoldCaptures, CapturesAreCurrent
<1> QED BY <1>1, <1>2 DEF CapturesAreCurrent

(* A capture appears, is read again, or goes.                              *)
LEMMA CaptureStep ==
    ASSUME TablesTypeOK, FoldIsCurrent, NEW c \in Captures, NEW created,
           captures' = [captures EXCEPT ![c] = created],
           UNCHANGED <<threads, events>>,
           FoldCaptures({c}), FoldIdeas(IdeasNaming(c))
    PROVE  FoldIsCurrent'
<1>1. \A d \in Captures : d # c => captures'[d] = captures[d]
  BY DEF TablesTypeOK
<1>2. ASSUME NEW i \in Ideas
      PROVE  IdeaIsCurrent(i)'
  <2>1. CASE i \in IdeasNaming(c)
    BY <2>1, FoldedIdeas
  <2>2. CASE i \notin IdeasNaming(c)
    <3>1. /\ membership'[i] = membership[i]
          /\ rejections'[i] = rejections[i]
          /\ standing'[i] = standing[i]
      BY <2>2, FoldedIdeas
    <3>2. IdeaIsCurrent(i)
      BY Parts DEF IdeasAreCurrent
    <3>3. /\ Rejected(captures', threads, events, i) = Rejected(captures, threads, events, i)
          /\ Standing(captures', threads, events, membership[i], i)
                 = Standing(captures, threads, events, membership[i], i)
      BY <1>1, <2>2, OtherCreation
    <3> QED BY <3>1, <3>2, <3>3 DEF IdeaIsCurrent
  <2> QED BY <2>1, <2>2
<1>3. \A d \in Captures \ {c} : Archived(captures', events', d) = Archived(captures, events, d)
  BY <1>1 DEF Archived
<1>4. ASSUME NEW P \in Pairs, P \cap {c} = {}
      PROVE  RejectedPair(captures', events', P) = RejectedPair(captures, events, P)
  <2>1. P \in SUBSET Captures
    BY DEF Pairs
  <2>2. \A d \in P : captures'[d] = captures[d]
    BY <1>1, <1>4, <2>1
  <2> QED BY <2>2 DEF RejectedPair
<1>5. CapturesAreCurrent'
  BY <1>3, <1>4, Parts, FoldedCaptures
<1>6. IdeasAreCurrent'
  BY <1>2 DEF IdeasAreCurrent
<1> QED BY <1>5, <1>6, Parts, PTL

(* A fold of one idea looks at no other idea's seeds.                      *)
LEMMA OtherSeeds ==
    ASSUME TablesTypeOK, FoldIsCurrent, NEW i \in Ideas, NEW j \in Ideas, j # i,
           NEW seeds, threads' = [threads EXCEPT ![i] = seeds],
           UNCHANGED <<captures, events>>,
           membership'[j] = membership[j],
           rejections'[j] = rejections[j],
           standing'[j] = standing[j]
    PROVE  IdeaIsCurrent(j)'
<1>1. threads'[j] = threads[j]
  BY DEF TablesTypeOK
<1>2. IdeaIsCurrent(j)
  BY Parts DEF IdeasAreCurrent
<1>3. /\ Members(threads', events, j) = Members(threads, events, j)
      /\ Rejected(captures, threads', events, j) = Rejected(captures, threads, events, j)
      /\ Standing(captures, threads', events, membership[j], j)
             = Standing(captures, threads, events, membership[j], j)
  BY <1>1 DEF Members, Rejected, Standing
<1> QED BY <1>2, <1>3 DEF IdeaIsCurrent

(* An idea appears, or is read again.                                      *)
LEMMA UpsertIdeaStep ==
    ASSUME TablesTypeOK, FoldIsCurrent, NEW i \in Ideas, NEW seeds \in Seeds,
           UpsertIdea(i, seeds)
    PROVE  FoldIsCurrent'
<1>1. /\ threads' = [threads EXCEPT ![i] = seeds]
      /\ UNCHANGED <<captures, events, archived, pairs>>
      /\ FoldIdeas({i})
  BY DEF UpsertIdea
<1>2. ASSUME NEW j \in Ideas
      PROVE  IdeaIsCurrent(j)'
  <2>1. CASE j = i
    BY <1>1, <2>1, FoldedIdeas
  <2>2. CASE j # i
    BY <1>1, <2>2, FoldedIdeas, OtherSeeds
  <2> QED BY <2>1, <2>2
<1>3. CapturesAreCurrent'
  BY <1>1, Parts DEF CapturesAreCurrent
<1>4. IdeasAreCurrent'
  BY <1>2 DEF IdeasAreCurrent
<1> QED BY <1>3, <1>4, Parts, PTL

(* An idea goes: what `on delete cascade` leaves is the fold of no thread.  *)
LEMMA RemoveIdeaStep ==
    ASSUME TablesTypeOK, FoldIsCurrent, NEW i \in Ideas, RemoveIdea(i)
    PROVE  FoldIsCurrent'
<1>1. /\ threads' = [threads EXCEPT ![i] = None]
      /\ UNCHANGED <<captures, events, archived, pairs>>
      /\ membership' = [membership EXCEPT ![i] = {}]
      /\ rejections' = [rejections EXCEPT ![i] = {}]
      /\ standing' = [standing EXCEPT ![i] = NoStanding]
  BY DEF RemoveIdea
<1>2. ASSUME NEW j \in Ideas
      PROVE  IdeaIsCurrent(j)'
  <2>1. CASE j = i
    BY <1>1, <2>1 DEF IdeaIsCurrent, Members, Rejected, Standing, TablesTypeOK
  <2>2. CASE j # i
    <3>1. /\ membership'[j] = membership[j]
          /\ rejections'[j] = rejections[j]
          /\ standing'[j] = standing[j]
      BY <1>1, <2>2 DEF TablesTypeOK
    <3> QED BY <1>1, <2>2, <3>1, OtherSeeds
  <2> QED BY <2>1, <2>2
<1>3. CapturesAreCurrent'
  BY <1>1, Parts DEF CapturesAreCurrent
<1>4. IdeasAreCurrent'
  BY <1>2 DEF IdeasAreCurrent
<1> QED BY <1>3, <1>4, Parts, PTL

(* A decision is entered or taken out: the row e is `event` on one side of *)
(* the step, and `event` or nothing on the other.                          *)
LEMMA EventStep ==
    ASSUME TablesTypeOK, FoldIsCurrent, NEW e \in EventIds, NEW event \in Event,
           ButFor(e, events, events'),
           events[e] \in {None, event}, events'[e] \in {None, event},
           UNCHANGED <<captures, threads>>,
           FoldFor(event)
    PROVE  FoldIsCurrent'
<1>1. FoldIdeas({event.idea} \cap Ideas) /\ FoldCaptures(event.captures)
  BY DEF FoldFor
<1>2. event.captures \in SUBSET Captures
  BY EventShape
<1>3. ASSUME NEW i \in Ideas
      PROVE  IdeaIsCurrent(i)'
  <2>1. CASE i = event.idea
    BY <1>1, <2>1, FoldedIdeas
  <2>2. CASE i # event.idea
    <3>1. /\ membership'[i] = membership[i]
          /\ rejections'[i] = rejections[i]
          /\ standing'[i] = standing[i]
      BY <1>1, <2>2, FoldedIdeas
    <3>2. IdeaIsCurrent(i)
      BY Parts DEF IdeasAreCurrent
    <3>3. /\ events[e] # None => events[e].idea # i
          /\ events'[e] # None => events'[e].idea # i
      BY <2>2
    <3>4. /\ Members(threads, events, i) = Members(threads, events', i)
          /\ Rejected(captures, threads, events, i) = Rejected(captures, threads, events', i)
          /\ Standing(captures, threads, events, membership[i], i)
                 = Standing(captures, threads, events', membership[i], i)
      BY <3>3, OtherIdea
    <3> QED BY <3>1, <3>2, <3>4 DEF IdeaIsCurrent
  <2> QED BY <2>1, <2>2
<1>4. \A c \in Captures \ event.captures :
          Archived(captures', events', c) = Archived(captures, events, c)
  BY OtherCapture
<1>5. \A P \in Pairs : P \cap event.captures = {} =>
          RejectedPair(captures', events', P) = RejectedPair(captures, events, P)
  BY OtherPair
<1>6. CapturesAreCurrent'
  BY <1>1, <1>2, <1>4, <1>5, Parts, FoldedCaptures
<1>7. IdeasAreCurrent'
  BY <1>3 DEF IdeasAreCurrent
<1> QED BY <1>6, <1>7, Parts, PTL

(* Nothing adds up to nothing.                                             *)
LEMMA EmptyFold ==
    ASSUME NEW cs, NEW ts, NEW es, NEW held,
           cs = [c \in Captures |-> None],
           ts = [i \in Ideas |-> None],
           es = [e \in EventIds |-> None]
    PROVE  /\ \A i \in Ideas : /\ Members(ts, es, i) = {}
                               /\ Rejected(cs, ts, es, i) = {}
                               /\ Standing(cs, ts, es, held, i) = NoStanding
           /\ {c \in Captures : Archived(cs, es, c)} = {}
           /\ {P \in Pairs : RejectedPair(cs, es, P)} = {}
<1>1. \A kinds, i, C : About(es, kinds, i, C) = {}
  BY DEF About
<1>2. \A kind, kinds, i, C : ~Says(es, kind, kinds, i, C)
  BY <1>1 DEF Says, Newest
<1> QED BY <1>2 DEF Members, Rejected, Standing, Archived, RejectedPair

LEMMA FoldStep == TablesTypeOK /\ FoldIsCurrent /\ [FoldNext]_tables => FoldIsCurrent'
<1> SUFFICES ASSUME TablesTypeOK, FoldIsCurrent, [FoldNext]_tables
             PROVE  FoldIsCurrent'
  OBVIOUS
<1>1. ASSUME NEW c \in Captures, NEW created \in Moments, UpsertCapture(c, created)
      PROVE  FoldIsCurrent'
  BY <1>1, CaptureStep DEF UpsertCapture
<1>2. ASSUME NEW c \in Captures, RemoveCapture(c)
      PROVE  FoldIsCurrent'
  BY <1>2, CaptureStep DEF RemoveCapture
<1>3. ASSUME NEW i \in Ideas, NEW seeds \in Seeds, UpsertIdea(i, seeds)
      PROVE  FoldIsCurrent'
  BY <1>3, UpsertIdeaStep
<1>4. ASSUME NEW i \in Ideas, RemoveIdea(i)
      PROVE  FoldIsCurrent'
  BY <1>4, RemoveIdeaStep
<1>5. ASSUME NEW e \in EventIds, NEW event \in Event, Append(e, event)
      PROVE  FoldIsCurrent'
  <2>1. /\ events' = [events EXCEPT ![e] = event]
        /\ UNCHANGED <<captures, threads>>
        /\ FoldFor(event)
        /\ events[e] \in {None, event}
    BY <1>5 DEF Append, UpsertEvent
  <2>2. events'[e] = event /\ ButFor(e, events, events')
    BY <2>1 DEF TablesTypeOK, ButFor
  <2> QED BY <2>1, <2>2, EventStep
<1>6. ASSUME NEW e \in EventIds, RemoveEvent(e)
      PROVE  FoldIsCurrent'
  <2>1. /\ events' = [events EXCEPT ![e] = None]
        /\ UNCHANGED <<captures, threads>>
    BY <1>6 DEF RemoveEvent
  <2>2. CASE events[e] = None
    <3>1. UNCHANGED tables
      BY <1>6, <2>1, <2>2 DEF RemoveEvent, TablesTypeOK, tables
    <3> QED BY <3>1 DEF tables, FoldIsCurrent
  <2>3. CASE events[e] # None
    <3>1. events[e] \in Event
      BY <2>3 DEF TablesTypeOK
    <3>2. FoldFor(events[e])
      BY <1>6, <2>3 DEF RemoveEvent
    <3>3. events'[e] = None /\ ButFor(e, events, events')
      BY <2>1 DEF TablesTypeOK, ButFor
    <3> QED BY <2>1, <3>1, <3>2, <3>3, EventStep
  <2> QED BY <2>2, <2>3
<1>7. ASSUME Clear
      PROVE  FoldIsCurrent'
  BY <1>7, EmptyFold DEF Clear, FoldIsCurrent
<1>8. ASSUME UNCHANGED tables
      PROVE  FoldIsCurrent'
  BY <1>8 DEF tables, FoldIsCurrent
<1> QED BY <1>1, <1>2, <1>3, <1>4, <1>5, <1>6, <1>7, <1>8 DEF FoldNext

LEMMA FoldStart == FoldInit => FoldIsCurrent
BY EmptyFold DEF FoldInit, FoldIsCurrent

(* After any writes in any order, the folded tables are what the mirrored  *)
(* rows add up to: what deleting the database and scanning again would     *)
(* produce.                                                                *)
THEOREM IdeaFoldCurrent == FoldSpec => []FoldIsCurrent
<1>1. FoldInit => TablesTypeOK /\ FoldIsCurrent
  BY TypeInit, FoldStart
<1>2. TablesTypeOK /\ FoldIsCurrent /\ [FoldNext]_tables => (TablesTypeOK /\ FoldIsCurrent)'
  BY TypeStep, FoldStep
<1> QED BY <1>1, <1>2, PTL DEF FoldSpec


-----------------------------------------------------------------------------
(* Types.                                                                  *)

(* What a request may ask names what its kind requires.                    *)
LEMMA AskShape ==
    ASSUME NEW ask \in Asks
    PROVE  /\ ask.idea \in Ideas \cup {None}
           /\ ask.captures \in SUBSET Captures
           /\ ask.kind \in {"create_idea", "patch_idea"} => ask.idea \in Ideas
           /\ ask.kind = "create_idea" => ask.captures \in Seeds
           /\ ask.kind = "patch_idea" => ask.captures = {}
           /\ IsDecision(ask) <=> ask.kind \notin {"create_capture", "patch_capture",
                                                   "create_idea", "patch_idea"}
           /\ Named(ask) \in SUBSET Records
           /\ New(ask) \in SUBSET Records
<1>1. /\ ask.idea \in Ideas \cup {None}
      /\ ask.captures \in SUBSET Captures
      /\ ask.kind \in {"create_idea", "patch_idea"} => ask.idea \in Ideas
      /\ ask.kind = "create_idea" => ask.captures \in Seeds
      /\ ask.kind = "patch_idea" => ask.captures = {}
      /\ IsDecision(ask) <=> ask.kind \notin {"create_capture", "patch_capture",
                                              "create_idea", "patch_idea"}
  <2>1. CASE ask \in Event
    BY <2>1, EventShape
       DEF IsDecision, Event, Shape, Connecting, Judging, Retiring, Archiving
  <2>2. CASE ask \in Shape({"create_capture", "patch_capture"}, {None}, Singles, {None})
    BY <2>2 DEF Shape, Singles, IsDecision, Event, Connecting, Judging, Retiring, Archiving
  <2>3. CASE ask \in Shape({"create_idea"}, Ideas, Seeds, {None})
    BY <2>3 DEF Shape, Seeds, IsDecision, Event, Connecting, Judging, Retiring, Archiving
  <2>4. CASE ask \in Shape({"patch_idea"}, Ideas, {{}}, {None})
    BY <2>4 DEF Shape, IsDecision, Event, Connecting, Judging, Retiring, Archiving
  <2> QED BY <2>1, <2>2, <2>3, <2>4 DEF Asks
<1>2. Named(ask) \in SUBSET Records
  BY <1>1 DEF Named, Records
<1>3. New(ask) \in SUBSET Records
  BY <1>1 DEF New, Records
<1> QED BY <1>1, <1>2, <1>3

LEMMA RecordsApart ==
    /\ \A c \in Captures : Capture(c)[1] = "capture" /\ Capture(c)[2] = c
    /\ \A i \in Ideas : Idea(i)[1] = "idea" /\ Idea(i)[2] = i
    /\ \A e \in EventIds : Decision(e)[1] = "event" /\ Decision(e)[2] = e
BY DEF Capture, Idea, Decision

(* A record's file holds what such a record holds.                         *)
LEMMA FileOfRecord ==
    ASSUME InboxTypeOK, NEW record \in Records
    PROVE  /\ [record |-> record, found |-> FileOf(record)] \in Findings
           /\ \A e \in EventIds : record = Decision(e) => FileOf(record) = eventFiles[e]
<1>1. ASSUME NEW c \in Captures, record = Capture(c)
      PROVE  FileOf(record) \in Moments \cup {None}
  BY <1>1, RecordsApart, BornAssumption DEF FileOf
<1>2. ASSUME NEW i \in Ideas, record = Idea(i)
      PROVE  FileOf(record) = ideaFiles[i]
  BY <1>2, RecordsApart DEF FileOf
<1>3. ASSUME NEW e \in EventIds, record = Decision(e)
      PROVE  FileOf(record) = eventFiles[e]
  BY <1>3, RecordsApart DEF FileOf
<1>4. [record |-> record, found |-> FileOf(record)] \in Findings
  BY <1>1, <1>2, <1>3 DEF Records, Findings, InboxTypeOK
<1> QED BY <1>3, <1>4

(* One request's step leaves every hand fitting if its own fits.           *)
LEMMA OneHand ==
    ASSUME InboxTypeOK, NEW r \in Clients, NEW hand \in Hands, HandFits(hand),
           task' = [task EXCEPT ![r] = hand]
    PROVE  task' \in [Clients -> Hands] /\ \A q \in Clients : HandFits(task'[q])
BY DEF InboxTypeOK

LEMMA IdleFits == Idle \in Hands /\ HandFits(Idle)
<1>1. Nothing \notin Event
  BY DEF Nothing, Event, Shape, Connecting, Judging, Retiring, Archiving
<1> QED BY <1>1 DEF Idle, Nothing, Hands, HandFits, IsDecision, Steps

LEMMA StopFits ==
    ASSUME InboxTypeOK, NEW r \in Clients, Stop(r)
    PROVE  task' \in [Clients -> Hands] /\ \A q \in Clients : HandFits(task'[q])
BY IdleFits, OneHand DEF Stop

LEMMA AskFits ==
    ASSUME InboxTypeOK, NEW r \in Clients, NEW ask \in Asks, Ask(r, ask)
    PROVE  task' \in [Clients -> Hands] /\ \A q \in Clients : HandFits(task'[q])
<1> DEFINE hand == [Idle EXCEPT !.at = IF IsDecision(ask) THEN "check"
                                       ELSE IF Named(ask) = {} THEN "put" ELSE "refer",
                                !.ask = ask,
                                !.left = Named(ask)]
<1>1. /\ hand.at = IF IsDecision(ask) THEN "check"
                   ELSE IF Named(ask) = {} THEN "put" ELSE "refer"
      /\ hand.ask = ask /\ hand.left = Named(ask) /\ hand.id = None /\ hand.seeds = None
      /\ hand \in [at : Steps, ask : {ask}, left : {Named(ask)}, id : {None}, seeds : {None}]
  BY DEF Idle, Steps
<1>2. hand \in Hands
  BY <1>1, AskShape DEF Hands
<1>3. ask.kind = "patch_idea" => Named(ask) = {Idea(ask.idea)}
  BY AskShape, NoneAssumption DEF Named
<1>4. HandFits(hand)
  BY <1>1, <1>3, AskShape DEF HandFits
<1> QED BY <1>2, <1>4, OneHand DEF Ask

LEMMA CheckFits ==
    ASSUME InboxTypeOK, NEW r \in Clients, Check(r)
    PROVE  task' \in [Clients -> Hands] /\ \A q \in Clients : HandFits(task'[q])
<1>1. CASE Allowed(task[r].ask)
  <2>1. PICK now \in EventIds : task' = [task EXCEPT ![r].at = "refer", ![r].id = now]
    BY <1>1 DEF Check
  <2> DEFINE hand == [task[r] EXCEPT !.at = "refer", !.id = now]
  <2>2. /\ task[r] \in Hands /\ HandFits(task[r]) /\ task[r].at = "check"
    BY DEF InboxTypeOK, Check
  <2>3. hand \in Hands
    BY <2>2 DEF Hands, Steps
  <2>4. hand.at = "refer" /\ hand.id = now /\ hand.ask = task[r].ask
    BY <2>2 DEF Hands
  <2>5. task[r].ask \in Asks /\ IsDecision(task[r].ask)
    BY <2>2 DEF HandFits
  <2>6. HandFits(hand)
    BY <2>4, <2>5, AskShape, NoneAssumption DEF HandFits
  <2>7. task' = [task EXCEPT ![r] = hand]
    BY <2>1
  <2> QED BY <2>3, <2>6, <2>7, OneHand
<1>2. CASE ~Allowed(task[r].ask)
  BY <1>2, StopFits DEF Check
<1> QED BY <1>1, <1>2

LEMMA ReferFits ==
    ASSUME InboxTypeOK, NEW r \in Clients, Refer(r)
    PROVE  task' \in [Clients -> Hands] /\ \A q \in Clients : HandFits(task'[q])
<1>1. PICK record \in task[r].left :
          IF Written(record)
          THEN LET left == task[r].left \ {record}
                   next == [task[r] EXCEPT !.left = left,
                                           !.at = IF left = {} THEN "put" ELSE "refer",
                                           !.seeds = IF record \in {Idea(i) : i \in Ideas}
                                                     THEN ideaFiles[record[2]] ELSE @]
               IN task' = [task EXCEPT ![r] = next]
          ELSE Stop(r)
  BY DEF Refer
<1>2. CASE Written(record)
  <2> DEFINE left == task[r].left \ {record}
             hand == [task[r] EXCEPT !.left = left,
                                     !.at = IF left = {} THEN "put" ELSE "refer",
                                     !.seeds = IF record \in {Idea(i) : i \in Ideas}
                                               THEN ideaFiles[record[2]] ELSE @]
  <2>1. /\ task[r] \in Hands /\ HandFits(task[r]) /\ task[r].at = "refer"
        /\ record \in Records
    BY DEF InboxTypeOK, Refer, Hands
  <2>2. record \in {Idea(i) : i \in Ideas} => ideaFiles[record[2]] \in Seeds \cup {None}
    BY RecordsApart DEF InboxTypeOK
  <2>3. hand \in Hands
    BY <2>1, <2>2 DEF Hands, Steps
  <2>4. /\ hand.at = IF left = {} THEN "put" ELSE "refer"
        /\ hand.ask = task[r].ask /\ hand.id = task[r].id /\ hand.left = left
        /\ record \in {Idea(i) : i \in Ideas} => hand.seeds = ideaFiles[record[2]]
    BY <2>1 DEF Hands
  <2>5. ASSUME hand.ask.kind = "patch_idea"
        PROVE  hand.at = "put" /\ hand.seeds # None
    <3>1. task[r].left = {Idea(task[r].ask.idea)} /\ task[r].ask \in Asks
      BY <2>1, <2>4, <2>5 DEF HandFits
    <3>2. PICK i \in Ideas : record = Idea(i)
      BY <3>1, <2>4, <2>5, AskShape
    <3>3. ideaFiles[record[2]] # None
      BY <1>2, <3>2, RecordsApart DEF Written, Capture, Idea, Decision
    <3> QED BY <2>4, <3>1, <3>2, <3>3
  <2>6. HandFits(hand)
    BY <2>1, <2>4, <2>5 DEF HandFits
  <2>7. task' = [task EXCEPT ![r] = hand]
    BY <1>1, <1>2
  <2> QED BY <2>3, <2>6, <2>7, OneHand
<1>3. CASE ~Written(record)
  BY <1>1, <1>3, StopFits
<1> QED BY <1>2, <1>3

LEMMA PutFits ==
    ASSUME InboxTypeOK, NEW r \in Clients, Put(r)
    PROVE  task' \in [Clients -> Hands] /\ \A q \in Clients : HandFits(task'[q])
<1> DEFINE hand == [task[r] EXCEPT !.at = "index",
                                   !.seeds = IF task[r].ask.kind = "create_idea"
                                             THEN task[r].ask.captures ELSE @]
<1>1. task[r] \in Hands /\ HandFits(task[r]) /\ task[r].at = "put" /\ task[r].ask \in Asks
  BY DEF InboxTypeOK, Put, HandFits
<1>2. /\ hand.at = "index" /\ hand.ask = task[r].ask /\ hand.id = task[r].id
      /\ hand.seeds = IF task[r].ask.kind = "create_idea"
                      THEN task[r].ask.captures ELSE task[r].seeds
  BY <1>1 DEF Hands
<1>3. task[r].ask.kind = "create_idea" => task[r].ask.captures \in Seeds
  BY <1>1, AskShape
<1>4. hand \in Hands
  BY <1>1, <1>3 DEF Hands, Steps
<1>5. HandFits(hand)
  BY <1>1, <1>2, <1>3, NoneAssumption DEF HandFits, Seeds
<1>6. task' = [task EXCEPT ![r] = hand]
  BY <1>1 DEF Put, Hands, InboxTypeOK
<1> QED BY <1>4, <1>5, <1>6, OneHand

(* A deletion goes on from its event to its file, and on to its row.       *)
LEMMA GoFits ==
    ASSUME InboxTypeOK, NEW r \in Clients, NEW at \in {"unlink", "drop"},
           task[r].at \in {"index", "unlink"}, task[r].ask.kind = "capture_deleted", Go(r, at)
    PROVE  task' \in [Clients -> Hands] /\ \A q \in Clients : HandFits(task'[q])
<1> DEFINE hand == [task[r] EXCEPT !.at = at]
<1>1. task[r] \in Hands /\ HandFits(task[r]) /\ task[r].ask \in Asks
  BY DEF InboxTypeOK, HandFits
<1>2. hand \in Hands
  BY <1>1 DEF Hands, Steps
<1>3. hand.at = at /\ hand.ask = task[r].ask /\ hand.id = task[r].id
  BY <1>1 DEF Hands
<1>4. HandFits(hand)
  BY <1>1, <1>3 DEF HandFits
<1>5. task' = [task EXCEPT ![r] = hand]
  BY DEF Go
<1> QED BY <1>2, <1>4, <1>5, OneHand
-----------------------------------------------------------------------------
(* What each step does to the tables.                                      *)

\* Every write but an event's row.
OtherWrite ==
    \/ \E c \in Captures, created \in Moments : UpsertCapture(c, created)
    \/ \E c \in Captures : RemoveCapture(c)
    \/ \E i \in Ideas, seeds \in Seeds : UpsertIdea(i, seeds)
    \/ \E i \in Ideas : RemoveIdea(i)
    \/ \E e \in EventIds : RemoveEvent(e)
    \/ Clear

LEMMA OtherWriteEvents ==
    ASSUME TablesTypeOK, OtherWrite
    PROVE  \A e \in EventIds : events'[e] \in {events[e], None}
BY DEF OtherWrite, TablesTypeOK, UpsertCapture, RemoveCapture, UpsertIdea, RemoveIdea,
       RemoveEvent, Clear

LEMMA EnterWrites ==
    ASSUME InboxTypeOK, NEW r \in Clients, Enter(r)
    PROVE  \/ OtherWrite
           \/ /\ task[r].ask \in Event /\ task[r].id \in EventIds
              /\ UpsertEvent(task[r].id, task[r].ask)
<1>1. /\ task[r] \in Hands /\ HandFits(task[r]) /\ task[r].at = "index"
      /\ task[r].ask \in Asks
  BY DEF InboxTypeOK, Enter, HandFits
<1>2. CASE task[r].ask.kind \in {"create_capture", "patch_capture"}
  <2>1. PICK c \in task[r].ask.captures : UpsertCapture(c, Born[c])
    BY <1>1, <1>2 DEF Enter, EnterCapture
  <2>2. c \in Captures /\ Born[c] \in Moments
    BY <1>1, <2>1, AskShape, BornAssumption
  <2> QED BY <2>1, <2>2 DEF OtherWrite
<1>3. CASE task[r].ask.kind \in {"create_idea", "patch_idea"}
  <2>1. UpsertIdea(task[r].ask.idea, task[r].seeds)
    BY <1>1, <1>3 DEF Enter, EnterIdea
  <2>2. task[r].ask.idea \in Ideas /\ task[r].seeds \in Seeds
    BY <1>1, <1>3, AskShape DEF HandFits, Hands
  <2> QED BY <2>1, <2>2 DEF OtherWrite
<1>4. CASE task[r].ask.kind \notin {"create_capture", "patch_capture",
                                    "create_idea", "patch_idea"}
  <2>1. IsDecision(task[r].ask)
    BY <1>1, <1>4, AskShape
  <2>2. UpsertEvent(task[r].id, task[r].ask)
    BY <1>1, <1>4 DEF Enter, EnterEvent
  <2> QED BY <1>1, <2>1, <2>2 DEF HandFits, Hands, IsDecision
<1> QED BY <1>2, <1>3, <1>4

LEMMA ReindexWrites ==
    ASSUME InboxTypeOK, Reindex
    PROVE  \/ OtherWrite
           \/ \E e \in EventIds : /\ reading.record = Decision(e)
                                 /\ reading.found \in Event
                                 /\ UpsertEvent(e, reading.found)
<1> DEFINE key == reading.record[2]
<1>1. CASE \E c \in Captures : reading.record = Capture(c)
  <2>1. key \in Captures /\ reading.found \in Moments \cup {None}
    BY <1>1, RecordsApart DEF Reindex, InboxTypeOK, Findings, Capture, Idea, Decision
  <2>2. ReindexCapture(key, reading.found)
    BY <1>1, RecordsApart DEF Reindex
  <2> QED BY <2>1, <2>2 DEF ReindexCapture, OtherWrite
<1>2. CASE \E i \in Ideas : reading.record = Idea(i)
  <2>1. key \in Ideas /\ reading.found \in Seeds \cup {None}
    BY <1>2, RecordsApart DEF Reindex, InboxTypeOK, Findings, Capture, Idea, Decision
  <2>2. ReindexIdea(key, reading.found)
    BY <1>2, RecordsApart DEF Reindex
  <2> QED BY <2>1, <2>2 DEF ReindexIdea, OtherWrite
<1>3. CASE \E e \in EventIds : reading.record = Decision(e)
  <2>1. /\ key \in EventIds /\ reading.record = Decision(key)
        /\ reading.found \in Event \cup {None}
    BY <1>3, RecordsApart DEF Reindex, InboxTypeOK, Findings, Capture, Idea, Decision
  <2>2. ReindexEvent(key, reading.found)
    BY <1>3, RecordsApart DEF Reindex
  <2> QED BY <2>1, <2>2 DEF ReindexEvent, OtherWrite
<1> QED BY <1>1, <1>2, <1>3 DEF Reindex, InboxTypeOK, Findings

LEMMA OtherWriteTypes == TablesTypeOK /\ OtherWrite => TablesTypeOK'
BY OperationTypes DEF OtherWrite

LEMMA EnterTypes ==
    ASSUME InboxTypeOK, NEW r \in Clients, Enter(r)
    PROVE  TablesTypeOK'
BY EnterWrites, OtherWriteTypes, OperationTypes DEF InboxTypeOK

LEMMA ReindexTypes ==
    ASSUME InboxTypeOK, Reindex
    PROVE  TablesTypeOK'
BY ReindexWrites, OtherWriteTypes, OperationTypes DEF InboxTypeOK
-----------------------------------------------------------------------------
(* The type invariant is inductive.                                        *)

LEMMA InboxTypeStep == InboxTypeOK /\ [InboxNext]_vars => InboxTypeOK'
<1> SUFFICES ASSUME InboxTypeOK, [InboxNext]_vars
             PROVE  InboxTypeOK'
  OBVIOUS
<1> DEFINE Hand == task' \in [Clients -> Hands] /\ \A q \in Clients : HandFits(task'[q])
<1>t. UNCHANGED tables => TablesTypeOK'
  BY OperationTypes DEF InboxTypeOK
<1>1. ASSUME NEW r \in Clients, NEW ask \in Asks, Ask(r, ask)
      PROVE  InboxTypeOK'
  BY <1>1, <1>t, AskFits DEF Ask, InboxTypeOK, files
<1>2. ASSUME NEW r \in Clients, Check(r)
      PROVE  InboxTypeOK'
  <2>1. clock' \in Nat
    BY <1>2, InstantAssumption DEF Check, InboxTypeOK
  <2> QED BY <1>2, <1>t, <2>1, CheckFits DEF Check, InboxTypeOK, files
<1>3. ASSUME NEW r \in Clients, Refer(r)
      PROVE  InboxTypeOK'
  BY <1>3, <1>t, ReferFits DEF Refer, InboxTypeOK, files
<1>4. ASSUME NEW r \in Clients, Put(r)
      PROVE  InboxTypeOK'
  <2>1. /\ task[r] \in Hands /\ HandFits(task[r]) /\ task[r].at = "put"
        /\ task[r].ask \in Asks
    BY <1>4 DEF InboxTypeOK, Put, HandFits
  <2>2. /\ captureFiles' \in SUBSET Captures
        /\ ideaFiles' \in [Ideas -> Seeds \cup {None}]
        /\ eventFiles' \in [EventIds -> Event \cup {None}]
        /\ dirty' \in SUBSET Records
    <3>1. CASE task[r].ask.kind \in {"create_capture", "patch_capture"}
      BY <1>4, <2>1, <3>1, AskShape DEF Put, PutCapture, Notice, InboxTypeOK, Records
    <3>2. CASE task[r].ask.kind \in {"create_idea", "patch_idea"}
      BY <1>4, <2>1, <3>2, AskShape DEF Put, PutIdea, Notice, InboxTypeOK, Records, Hands
    <3>3. CASE task[r].ask.kind \notin {"create_capture", "patch_capture",
                                        "create_idea", "patch_idea"}
      <4>1. PutEvent(r)
        BY <1>4, <3>3 DEF Put
      <4>2. task[r].id \in EventIds /\ task[r].ask \in Event
        BY <2>1, <3>3, AskShape DEF HandFits, Hands, IsDecision
      <4> QED BY <4>1, <4>2 DEF PutEvent, Notice, InboxTypeOK, Records
    <3> QED BY <3>1, <3>2, <3>3
  <2>3. minted' \in SUBSET Records
    BY <1>4, <2>1, AskShape DEF Put, InboxTypeOK
  <2> QED BY <1>4, <1>t, <2>2, <2>3, PutFits DEF Put, InboxTypeOK
<1>5. ASSUME NEW r \in Clients, Enter(r)
      PROVE  InboxTypeOK'
  <2>1. Hand
    BY <1>5, StopFits, GoFits DEF Enter
  <2> QED BY <1>5, <2>1, EnterTypes DEF Enter, InboxTypeOK, files
<1>6. ASSUME NEW r \in Clients, Unlink(r)
      PROVE  InboxTypeOK'
  <2>1. Hand
    BY <1>6, StopFits, GoFits DEF Unlink, InboxTypeOK, HandFits
  <2>2. task[r].ask.captures \in SUBSET Captures
    BY <1>6, AskShape DEF Unlink, InboxTypeOK, HandFits
  <2>3. captureFiles' \in SUBSET Captures /\ dirty' \in SUBSET Records
    BY <1>6, <2>2 DEF Unlink, Notice, InboxTypeOK, Records
  <2> QED BY <1>6, <1>t, <2>1, <2>3 DEF Unlink, InboxTypeOK
<1>7. ASSUME NEW r \in Clients, Drop(r)
      PROVE  InboxTypeOK'
  <2>1. task[r].ask.captures \in SUBSET Captures
    BY <1>7, AskShape DEF Drop, InboxTypeOK, HandFits
  <2>2. TablesTypeOK'
    BY <1>7, <2>1, OperationTypes DEF Drop, InboxTypeOK
  <2> QED BY <1>7, <2>2, StopFits DEF Drop, InboxTypeOK, files
<1>8. ASSUME NEW r \in Clients, Fail(r)
      PROVE  InboxTypeOK'
  BY <1>8, <1>t, StopFits DEF Fail, InboxTypeOK, files
<1>9. ASSUME Read
      PROVE  InboxTypeOK'
  <2>1. reading' \in Findings /\ dirty' \in SUBSET Records
    BY <1>9, FileOfRecord DEF Read, InboxTypeOK
  <2> QED BY <1>9, <1>t, <2>1 DEF Read, InboxTypeOK, files
<1>10. ASSUME Reindex
       PROVE  InboxTypeOK'
  BY <1>10, ReindexTypes DEF Reindex, InboxTypeOK, files, Findings
<1>11. ASSUME Start \/ Serve
       PROVE  InboxTypeOK'
  BY <1>11, <1>t DEF Start, Serve, Stale, InboxTypeOK, files
<1>12. ASSUME Crash
       PROVE  InboxTypeOK'
  BY <1>12, <1>t, IdleFits DEF Crash, InboxTypeOK, files, Findings
<1>13. ASSUME LoseIndex
       PROVE  InboxTypeOK'
  BY <1>13, OperationTypes DEF LoseIndex, InboxTypeOK, files
<1>14. ASSUME Edit
       PROVE  InboxTypeOK'
  <2>1. /\ captureFiles' \in SUBSET Captures
        /\ ideaFiles' \in [Ideas -> Seeds \cup {None}]
        /\ eventFiles' \in [EventIds -> Event \cup {None}]
        /\ dirty' \in SUBSET Records
        /\ minted' \in SUBSET Records
    BY <1>14 DEF Edit, EditCapture, EditIdea, EraseEvent, Notice, InboxTypeOK, Records
  <2> QED BY <1>14, <1>t, <2>1 DEF Edit, InboxTypeOK
<1>15. ASSUME UNCHANGED vars
       PROVE  InboxTypeOK'
  BY <1>15, <1>t DEF vars, tables, InboxTypeOK
<1> QED BY <1>1, <1>2, <1>3, <1>4, <1>5, <1>6, <1>7, <1>8, <1>9, <1>10, <1>11, <1>12, <1>13,
           <1>14, <1>15 DEF InboxNext

LEMMA InboxTypeInit == InboxInit => InboxTypeOK
<1> SUFFICES ASSUME InboxInit
             PROVE  InboxTypeOK
  OBVIOUS
<1>1. TablesTypeOK
  BY TypeInit DEF InboxInit
<1>2. ideaFiles \in [Ideas -> Seeds \cup {None}]
  BY DEF InboxInit, Seeds
<1>3. minted \in SUBSET Records
  BY DEF InboxInit, Records
<1> QED BY <1>1, <1>2, <1>3, IdleFits DEF InboxInit, InboxTypeOK, Findings

(* At any step, however the requests interleave and wherever the process   *)
(* stops, what a request has in hand is what its next step needs.          *)
THEOREM IdeaInboxTypes == InboxSpec => []InboxTypeOK
BY InboxTypeInit, InboxTypeStep, PTL DEF InboxSpec
-----------------------------------------------------------------------------
(* One event per instant.                                                  *)

\* What the watcher has read, and what requests have decided, of instant e.
Found(e) == IF reading # None /\ reading.record = Decision(e) THEN {reading.found} ELSE {}
Asked(e) == {task[r].ask : r \in {q \in Clients : task[q].id = e}}
Copies(e) == ({eventFiles[e], events[e]} \cup Found(e) \cup Asked(e)) \ {None}

Agreement ==
    \A e \in EventIds : /\ e > clock => Copies(e) = {}
                        /\ \A x, y \in Copies(e) : x = y

\* A step that mints nothing: each request keeps its decision or lets go of it.
Carried ==
    \A r \in Clients : \/ task'[r].id = None
                       \/ task'[r].id = task[r].id /\ task'[r].ask = task[r].ask

LEMMA CarriedAsks ==
    ASSUME Carried, NEW e \in EventIds
    PROVE  Asked(e)' \subseteq Asked(e)
<1> SUFFICES ASSUME NEW r \in Clients, task'[r].id = e
             PROVE  task'[r].ask \in Asked(e)
  BY DEF Asked
<1>1. task[r].id = e /\ task'[r].ask = task[r].ask
  BY NoneAssumption DEF Carried
<1> QED BY <1>1 DEF Asked

LEMMA StopCarries ==
    ASSUME InboxTypeOK, NEW r \in Clients, Stop(r)
    PROVE  Carried
<1>1. \A q \in Clients : task'[q] = IF q = r THEN Idle ELSE task[q]
  BY DEF Stop, InboxTypeOK
<1>2. Idle.id = None
  BY DEF Idle
<1> QED BY <1>1, <1>2 DEF Carried

LEMMA GoCarries ==
    ASSUME InboxTypeOK, NEW r \in Clients, NEW at, Go(r, at)
    PROVE  Carried
<1>1. task[r] \in Hands
  BY DEF InboxTypeOK
<1> QED BY <1>1 DEF Go, InboxTypeOK, Hands, Carried

(* Copies that nobody adds to go on agreeing.                              *)
LEMMA AgreementKept ==
    ASSUME InboxTypeOK, Agreement, clock' = clock,
           \A e \in EventIds : Copies(e)' \subseteq Copies(e)
    PROVE  Agreement'
BY DEF Agreement

(* Handing an event on from one holder to another adds no copy.            *)
LEMMA CopiesHandedOn ==
    ASSUME Carried,
           \A e \in EventIds : /\ eventFiles'[e] \in Copies(e) \cup {None}
                               /\ events'[e] \in Copies(e) \cup {None}
                               /\ Found(e)' \subseteq Copies(e) \cup {None}
    PROVE  \A e \in EventIds : Copies(e)' \subseteq Copies(e)
<1> SUFFICES ASSUME NEW e \in EventIds
             PROVE  Copies(e)' \subseteq Copies(e)
  OBVIOUS
<1>1. Asked(e)' \subseteq Asked(e)
  BY CarriedAsks
<1>2. Asked(e) \ {None} \subseteq Copies(e)
  BY DEF Copies
<1>3. Copies(e)' = ({eventFiles'[e], events'[e]} \cup Found(e)' \cup Asked(e)') \ {None}
  BY DEF Copies
<1> QED BY <1>1, <1>2, <1>3

LEMMA CopiesHeld ==
    ASSUME NEW e \in EventIds
    PROVE  /\ eventFiles[e] \in Copies(e) \cup {None}
           /\ events[e] \in Copies(e) \cup {None}
           /\ Found(e) \subseteq Copies(e) \cup {None}
           /\ \A r \in Clients : task[r].id = e => task[r].ask \in Copies(e) \cup {None}
BY DEF Copies, Asked

(* The three holders besides the requests, as a step leaves them: each with *)
(* nothing, or with a copy there was.                                      *)
LEMMA AgreementHandedOn ==
    ASSUME InboxTypeOK, Agreement, Carried, clock' = clock,
           \A e \in EventIds : /\ eventFiles'[e] \in Copies(e) \cup {None}
                               /\ events'[e] \in Copies(e) \cup {None}
                               /\ Found(e)' \subseteq Copies(e) \cup {None}
    PROVE  Agreement'
BY CopiesHandedOn, AgreementKept

LEMMA QuietAgreement ==
    ASSUME InboxTypeOK, Agreement, Carried, UNCHANGED <<eventFiles, events, reading, clock>>
    PROVE  Agreement'
<1>1. \A e \in EventIds : Found(e)' = Found(e)
  BY DEF Found
<1> QED BY <1>1, CopiesHeld, AgreementHandedOn

(* A decision is taken at an instant of which nobody has an event.          *)
LEMMA CheckAgrees ==
    ASSUME InboxTypeOK, Agreement, NEW r \in Clients, Check(r)
    PROVE  Agreement'
<1>1. CASE Allowed(task[r].ask)
  <2>1. PICK now \in EventIds : /\ now > clock /\ clock' = now
                                /\ task' = [task EXCEPT ![r].at = "refer", ![r].id = now]
    BY <1>1 DEF Check
  <2>2. UNCHANGED <<eventFiles, events, reading>>
    BY DEF Check, tables, files
  <2>3. /\ task'[r].id = now
        /\ \A q \in Clients : q # r => task'[q] = task[q]
    BY <2>1 DEF InboxTypeOK, Hands
  <2>4. ASSUME NEW e \in EventIds, e # now
        PROVE  Copies(e)' \subseteq Copies(e)
    <3>1. Asked(e)' \subseteq Asked(e)
      <4> SUFFICES ASSUME NEW q \in Clients, task'[q].id = e
                   PROVE  task'[q].ask \in Asked(e)
        BY DEF Asked
      <4> QED BY <2>3, <2>4 DEF Asked
    <3>2. Found(e)' = Found(e)
      BY <2>2 DEF Found
    <3> QED BY <2>2, <3>1, <3>2 DEF Copies
  <2>5. \A x, y \in Copies(now)' : x = y
    <3>1. Copies(now) = {}
      BY <2>1 DEF Agreement
    <3>2. eventFiles'[now] = None /\ events'[now] = None /\ Found(now)' \subseteq {None}
      BY <2>2, <3>1 DEF Copies, Found
    <3>3. \A q \in Clients : q # r /\ task'[q].id = now => task'[q].ask = None
      BY <2>3, <3>1 DEF Copies, Asked
    <3>4. Asked(now)' \subseteq {task'[r].ask, None}
      BY <3>3 DEF Asked
    <3>5. Copies(now)' \subseteq {task'[r].ask}
      BY <3>2, <3>4 DEF Copies
    <3> QED BY <3>5
  <2>6. ASSUME NEW e \in EventIds
        PROVE  /\ e > clock' => Copies(e)' = {}
               /\ \A x, y \in Copies(e)' : x = y
    <3>1. CASE e = now
      BY <2>1, <2>5, <3>1, InstantAssumption
    <3>2. CASE e # now
      <4>1. /\ e > clock => Copies(e) = {}
            /\ \A x, y \in Copies(e) : x = y
        BY DEF Agreement
      <4>2. e > clock' => e > clock
        BY <2>1, InstantAssumption DEF InboxTypeOK
      <4> QED BY <2>4, <3>2, <4>1, <4>2
    <3> QED BY <3>1, <3>2
  <2> QED BY <2>6 DEF Agreement
<1>2. CASE ~Allowed(task[r].ask)
  <2>1. Stop(r) /\ UNCHANGED <<eventFiles, events, reading, clock>>
    BY <1>2 DEF Check, tables, files
  <2> QED BY <2>1, StopCarries, QuietAgreement
<1> QED BY <1>1, <1>2

LEMMA PutAgrees ==
    ASSUME InboxTypeOK, Agreement, NEW r \in Clients, Put(r)
    PROVE  Agreement'
<1>1. /\ task[r] \in Hands /\ HandFits(task[r]) /\ task[r].at = "put"
      /\ task[r].ask \in Asks
      /\ UNCHANGED <<events, reading, clock>>
  BY DEF InboxTypeOK, Put, HandFits, tables
<1>2. Carried
  <2>1. /\ task'[r].id = task[r].id /\ task'[r].ask = task[r].ask
        /\ \A q \in Clients : q # r => task'[q] = task[q]
    BY <1>1 DEF Put, InboxTypeOK, Hands
  <2> QED BY <2>1 DEF Carried
<1>3. \A e \in EventIds : eventFiles'[e] \in Copies(e) \cup {None}
  <2>1. CASE PutEvent(r)
    BY <2>1, CopiesHeld DEF PutEvent, InboxTypeOK
  <2>2. CASE ~PutEvent(r)
    <3>1. eventFiles' = eventFiles
      BY <2>2 DEF Put, PutCapture, PutIdea
    <3> QED BY <3>1, CopiesHeld
  <2> QED BY <2>1, <2>2
<1>4. \A e \in EventIds : Found(e)' = Found(e)
  BY <1>1 DEF Found
<1> QED BY <1>1, <1>2, <1>3, <1>4, CopiesHeld, AgreementHandedOn

LEMMA EnterAgrees ==
    ASSUME InboxTypeOK, Agreement, NEW r \in Clients, Enter(r)
    PROVE  Agreement'
<1>1. UNCHANGED <<eventFiles, reading, clock>>
  BY DEF Enter, files
<1>2. Carried
  BY StopCarries, GoCarries DEF Enter
<1>3. \A e \in EventIds : events'[e] \in Copies(e) \cup {None}
  <2>1. CASE OtherWrite
    BY <2>1, OtherWriteEvents, CopiesHeld DEF InboxTypeOK
  <2>2. CASE task[r].id \in EventIds /\ UpsertEvent(task[r].id, task[r].ask)
    BY <2>2, CopiesHeld DEF UpsertEvent, InboxTypeOK, TablesTypeOK
  <2> QED BY <2>1, <2>2, EnterWrites
<1>4. \A e \in EventIds : Found(e)' = Found(e)
  BY <1>1 DEF Found
<1> QED BY <1>1, <1>2, <1>3, <1>4, CopiesHeld, AgreementHandedOn

LEMMA ReadAgrees ==
    ASSUME InboxTypeOK, Agreement, Read
    PROVE  Agreement'
<1>1. UNCHANGED <<eventFiles, events, clock, task>>
  BY DEF Read, tables, files
<1>2. Carried
  BY <1>1 DEF Carried
<1>3. PICK record \in Records : reading' = [record |-> record, found |-> FileOf(record)]
  BY DEF Read, InboxTypeOK
<1>4. \A e \in EventIds : Found(e)' \subseteq {eventFiles[e]}
  BY <1>3, FileOfRecord DEF Found
<1> QED BY <1>1, <1>2, <1>4, CopiesHeld, AgreementHandedOn

LEMMA ReindexAgrees ==
    ASSUME InboxTypeOK, Agreement, Reindex
    PROVE  Agreement'
<1>1. UNCHANGED <<eventFiles, clock, task>> /\ reading' = None /\ reading # None
  BY DEF Reindex, files
<1>2. Carried
  BY <1>1 DEF Carried
<1>3. \A e \in EventIds : events'[e] \in Copies(e) \cup {None}
  <2>1. CASE OtherWrite
    BY <2>1, OtherWriteEvents, CopiesHeld DEF InboxTypeOK
  <2>2. ASSUME NEW e \in EventIds, reading.record = Decision(e),
               UpsertEvent(e, reading.found)
        PROVE  \A f \in EventIds : events'[f] \in Copies(f) \cup {None}
    <3>1. reading.found \in Copies(e) \cup {None}
      BY <1>1, <2>2 DEF Found, Copies
    <3> QED BY <2>2, <3>1, CopiesHeld DEF UpsertEvent, InboxTypeOK, TablesTypeOK
  <2> QED BY <2>1, <2>2, ReindexWrites
<1>4. \A e \in EventIds : Found(e)' = {}
  BY <1>1 DEF Found
<1> QED BY <1>1, <1>2, <1>3, <1>4, CopiesHeld, AgreementHandedOn

LEMMA DropAgrees ==
    ASSUME InboxTypeOK, Agreement, NEW r \in Clients, Drop(r)
    PROVE  Agreement'
<1>1. UNCHANGED <<eventFiles, reading, clock>> /\ Stop(r)
  BY DEF Drop, files
<1>2. events' = events
  BY DEF Drop, RemoveCapture
<1> QED BY <1>1, <1>2, StopCarries, QuietAgreement

LEMMA EditAgrees ==
    ASSUME InboxTypeOK, Agreement, Edit
    PROVE  Agreement'
<1>1. UNCHANGED <<events, reading, clock, task>>
  BY DEF Edit, tables
<1>2. Carried
  BY <1>1 DEF Carried
<1>3. \A e \in EventIds : eventFiles'[e] \in {eventFiles[e], None}
  BY DEF Edit, EditCapture, EditIdea, EraseEvent, InboxTypeOK
<1>4. \A e \in EventIds : Found(e)' = Found(e)
  BY <1>1 DEF Found
<1> QED BY <1>1, <1>2, <1>3, <1>4, CopiesHeld, AgreementHandedOn

LEMMA CrashAgrees ==
    ASSUME InboxTypeOK, Agreement, Crash
    PROVE  Agreement'
<1>1. UNCHANGED <<eventFiles, events, clock>> /\ reading' = None
  BY DEF Crash, tables, files
<1>2. Carried
  BY DEF Crash, Idle, Carried
<1>3. \A e \in EventIds : Found(e)' = {}
  BY <1>1 DEF Found
<1> QED BY <1>1, <1>2, <1>3, CopiesHeld, AgreementHandedOn

LEMMA LoseIndexAgrees ==
    ASSUME InboxTypeOK, Agreement, LoseIndex
    PROVE  Agreement'
<1>1. UNCHANGED <<eventFiles, reading, clock, task>>
  BY DEF LoseIndex, files
<1>2. Carried
  BY <1>1 DEF Carried
<1>3. \A e \in EventIds : events'[e] = None
  BY DEF LoseIndex, Clear
<1>4. \A e \in EventIds : Found(e)' = Found(e)
  BY <1>1 DEF Found
<1> QED BY <1>1, <1>2, <1>3, <1>4, CopiesHeld, AgreementHandedOn

LEMMA AgreementStep == InboxTypeOK /\ Agreement /\ [InboxNext]_vars => Agreement'
<1> SUFFICES ASSUME InboxTypeOK, Agreement, [InboxNext]_vars
             PROVE  Agreement'
  OBVIOUS
<1>1. ASSUME NEW r \in Clients, NEW ask \in Asks, Ask(r, ask)
      PROVE  Agreement'
  <2>1. UNCHANGED <<eventFiles, events, reading, clock>>
    BY <1>1 DEF Ask, tables, files
  <2>2. task'[r].id = None /\ \A q \in Clients : q # r => task'[q] = task[q]
    BY <1>1 DEF Ask, Idle, InboxTypeOK
  <2>3. Carried
    BY <2>2 DEF Carried
  <2> QED BY <2>1, <2>3, QuietAgreement
<1>2. ASSUME NEW r \in Clients, Refer(r)
      PROVE  Agreement'
  <2>1. UNCHANGED <<eventFiles, events, reading, clock>>
    BY <1>2 DEF Refer, tables, files
  <2>2. CASE Stop(r)
    BY <2>1, <2>2, StopCarries, QuietAgreement
  <2>3. CASE ~Stop(r)
    <3>1. task[r] \in Hands
      BY DEF InboxTypeOK
    <3>2. /\ task'[r].id = task[r].id /\ task'[r].ask = task[r].ask
          /\ \A q \in Clients : q # r => task'[q] = task[q]
      <4>1. PICK record \in task[r].left :
                task' = [task EXCEPT ![r] =
                    [task[r] EXCEPT !.left = task[r].left \ {record},
                                    !.at = IF task[r].left \ {record} = {}
                                           THEN "put" ELSE "refer",
                                    !.seeds = IF record \in {Idea(i) : i \in Ideas}
                                              THEN ideaFiles[record[2]] ELSE @]]
        BY <1>2, <2>3 DEF Refer
      <4> QED BY <3>1, <4>1 DEF InboxTypeOK, Hands
    <3>3. Carried
      BY <3>2 DEF Carried
    <3> QED BY <2>1, <3>3, QuietAgreement
  <2> QED BY <2>2, <2>3
<1>3. ASSUME NEW r \in Clients, Unlink(r)
      PROVE  Agreement'
  <2>1. UNCHANGED <<eventFiles, events, reading, clock>>
    BY <1>3 DEF Unlink, tables
  <2>2. Carried
    BY <1>3, StopCarries, GoCarries DEF Unlink
  <2> QED BY <2>1, <2>2, QuietAgreement
<1>4. ASSUME NEW r \in Clients, Fail(r)
      PROVE  Agreement'
  <2>1. UNCHANGED <<eventFiles, events, reading, clock>> /\ Stop(r)
    BY <1>4 DEF Fail, tables, files
  <2> QED BY <2>1, StopCarries, QuietAgreement
<1>5. ASSUME Start \/ Serve \/ UNCHANGED vars
      PROVE  Agreement'
  <2>1. UNCHANGED <<eventFiles, events, reading, clock, task>>
    BY <1>5 DEF Start, Serve, vars, tables, files
  <2>2. Carried
    BY <2>1 DEF Carried
  <2> QED BY <2>1, <2>2, QuietAgreement
<1> QED BY <1>1, <1>2, <1>3, <1>4, <1>5, CheckAgrees, PutAgrees, EnterAgrees, DropAgrees,
           ReadAgrees, ReindexAgrees, CrashAgrees, LoseIndexAgrees, EditAgrees DEF InboxNext

LEMMA AgreementInit == InboxInit => Agreement
<1> SUFFICES ASSUME InboxInit, NEW e \in EventIds
             PROVE  Copies(e) = {}
  BY DEF Agreement
<1>1. Asked(e) = {}
  BY NoneAssumption DEF InboxInit, Asked, Idle
<1>2. Found(e) = {}
  BY DEF InboxInit, Found
<1> QED BY <1>1, <1>2 DEF InboxInit, FoldInit, Copies

-----------------------------------------------------------------------------
(* The inbox implements the fold.                                          *)

LEMMA AppendsOnly ==
    ASSUME InboxTypeOK, Agreement, NEW e \in EventIds, NEW event \in Copies(e),
           UpsertEvent(e, event)
    PROVE  Append(e, event)
BY DEF Agreement, Copies, Append

LEMMA FoldSimulation == InboxTypeOK /\ Agreement /\ [InboxNext]_vars => [FoldNext]_tables
<1> SUFFICES ASSUME InboxTypeOK, Agreement, [InboxNext]_vars
             PROVE  [FoldNext]_tables
  OBVIOUS
<1>1. OtherWrite => FoldNext
  BY DEF OtherWrite, FoldNext
<1>2. ASSUME NEW r \in Clients, Enter(r)
      PROVE  FoldNext
  <2>1. CASE OtherWrite
    BY <1>1, <2>1
  <2>2. CASE /\ task[r].ask \in Event /\ task[r].id \in EventIds
             /\ UpsertEvent(task[r].id, task[r].ask)
    <3>1. task[r].ask \in Copies(task[r].id)
      BY <2>2, CopiesHeld, NoEventAssumption
    <3> QED BY <2>2, <3>1, AppendsOnly DEF FoldNext
  <2> QED BY <1>2, <2>1, <2>2, EnterWrites
<1>3. ASSUME Reindex
      PROVE  FoldNext
  <2>1. CASE OtherWrite
    BY <1>1, <2>1
  <2>2. ASSUME NEW e \in EventIds, reading.record = Decision(e), reading.found \in Event,
               UpsertEvent(e, reading.found)
        PROVE  FoldNext
    <3>1. reading.found \in Copies(e)
      BY <1>3, <2>2, NoEventAssumption DEF Reindex, Found, Copies
    <3> QED BY <2>2, <3>1, AppendsOnly DEF FoldNext
  <2> QED BY <1>3, <2>1, <2>2, ReindexWrites
<1>4. ASSUME NEW r \in Clients, Drop(r)
      PROVE  FoldNext
  <2>1. PICK c \in task[r].ask.captures : RemoveCapture(c)
    BY <1>4 DEF Drop
  <2>2. c \in Captures
    BY <1>4, AskShape DEF Drop, InboxTypeOK, HandFits
  <2> QED BY <2>1, <2>2 DEF FoldNext
<1>5. ASSUME LoseIndex
      PROVE  FoldNext
  BY <1>5 DEF LoseIndex, FoldNext
<1>6. ASSUME \/ \E r \in Clients : \/ \E ask \in Asks : Ask(r, ask)
                                 \/ Check(r) \/ Refer(r) \/ Put(r) \/ Unlink(r) \/ Fail(r)
             \/ Read \/ Start \/ Serve \/ Crash \/ Edit
             \/ UNCHANGED vars
      PROVE  UNCHANGED tables
  BY <1>6 DEF Ask, Check, Refer, Put, Unlink, Fail, Read, Start, Serve, Crash, Edit, vars, tables
<1> QED BY <1>2, <1>3, <1>4, <1>5, <1>6 DEF InboxNext

(* Every behaviour of the inbox writes the tables as IdeaFold says: what    *)
(* handlers, the watcher and the scan do to them, in any interleaving, is  *)
(* a sequence of its operations, and no event's row is ever rewritten.     *)
THEOREM IdeaInboxImplementsFold == InboxSpec => ImplementsFold
<1>1. InboxInit => FoldInit
  BY DEF InboxInit
<1>2. InboxInit => InboxTypeOK /\ Agreement
  BY InboxTypeInit, AgreementInit
<1>3. InboxTypeOK /\ Agreement /\ [InboxNext]_vars => (InboxTypeOK /\ Agreement)'
  BY InboxTypeStep, AgreementStep
<1> QED BY <1>1, <1>2, <1>3, FoldSimulation, PTL DEF InboxSpec, ImplementsFold, FoldSpec

(* So the folded tables are current at every step of the inbox, not only   *)
(* when it is at rest.                                                     *)
THEOREM IdeaInboxFoldCurrent == InboxSpec => []FoldIsCurrent
BY IdeaInboxImplementsFold, IdeaFoldCurrent, PTL DEF ImplementsFold
-----------------------------------------------------------------------------
(* A deletion is on record before its file goes, if nobody else touches    *)
(* the files.                                                              *)

\* A deletion past its event has it on disk.
Recorded ==
    \A r \in Clients :
        task[r].ask.kind = "capture_deleted" /\ task[r].at \in {"index", "unlink", "drop"}
            => eventFiles[task[r].id] = task[r].ask

Deleted(c) == \E e \in EventIds : /\ eventFiles[e] # None
                                 /\ eventFiles[e].kind = "capture_deleted"
                                 /\ eventFiles[e].captures = {c}

DeletionInv == edits = 0 /\ Recorded /\ DeletionsOnRecord

LEMMA OneCapture ==
    ASSUME NEW ask \in Asks,
           ask.kind \in {"capture_deleted", "create_capture", "patch_capture"}
    PROVE  \E c \in Captures : ask.captures = {c}
BY DEF Asks, Event, Shape, Singles, Connecting, Judging, Retiring, Archiving

(* The log of decisions only grows.                                        *)
LEMMA EventsStay ==
    ASSUME InboxTypeOK, Agreement, edits = 0, MaxEdits = 0, [InboxNext]_vars
    PROVE  edits' = 0 /\ \A e \in EventIds : eventFiles[e] # None => eventFiles'[e] = eventFiles[e]
<1>1. ~Edit
  BY DEF Edit
<1>2. ASSUME NEW r \in Clients, Put(r)
      PROVE  edits' = 0 /\ \A e \in EventIds :
                 eventFiles[e] # None => eventFiles'[e] = eventFiles[e]
  <2>1. edits' = 0
    BY <1>2 DEF Put, bounds
  <2>2. task[r].ask \in Asks
    BY <1>2 DEF Put, InboxTypeOK, HandFits
  <2>3. CASE IsDecision(task[r].ask)
    <3>1. PutEvent(r)
      BY <1>2, <2>2, <2>3, AskShape DEF Put
    <3>2. \A e \in EventIds : task[r].id = e /\ eventFiles[e] # None =>
                                  task[r].ask = eventFiles[e]
      BY <2>3, CopiesHeld, NoEventAssumption DEF Agreement, Copies, IsDecision
    <3> QED BY <2>1, <3>1, <3>2 DEF PutEvent, InboxTypeOK
  <2>4. CASE ~IsDecision(task[r].ask)
    <3>1. eventFiles' = eventFiles
      BY <1>2, <2>2, <2>4, AskShape DEF Put, PutCapture, PutIdea
    <3> QED BY <2>1, <3>1
  <2> QED BY <2>3, <2>4
<1>3. ASSUME UNCHANGED <<eventFiles, edits>>
      PROVE  edits' = 0 /\ \A e \in EventIds :
                 eventFiles[e] # None => eventFiles'[e] = eventFiles[e]
  BY <1>3
<1>4. (~\E r \in Clients : Put(r)) => UNCHANGED <<eventFiles, edits>>
  BY <1>1 DEF InboxNext, vars, files, bounds, Ask, Check, Refer, Enter, Unlink, Drop, Fail,
              Read, Reindex, Start, Serve, Crash, LoseIndex
<1> QED BY <1>2, <1>3, <1>4

LEMMA RecordedStep ==
    ASSUME InboxTypeOK, Agreement, Recorded, edits = 0, MaxEdits = 0, [InboxNext]_vars
    PROVE  Recorded'
<1> SUFFICES ASSUME NEW r \in Clients, task'[r].ask.kind = "capture_deleted",
                    task'[r].at \in {"index", "unlink", "drop"}
             PROVE  eventFiles'[task'[r].id] = task'[r].ask
  BY DEF Recorded
<1>1. /\ task'[r] \in Hands /\ HandFits(task'[r])
      /\ task[r] \in Hands /\ HandFits(task[r])
  BY InboxTypeStep DEF InboxTypeOK
<1>2. ASSUME task[r].at \in {"index", "unlink", "drop"}, task'[r].id = task[r].id,
             task'[r].ask = task[r].ask
      PROVE  eventFiles'[task'[r].id] = task'[r].ask
  <2>1. eventFiles[task[r].id] = task[r].ask
    BY <1>2 DEF Recorded
  <2>2. task'[r].ask \in Asks /\ IsDecision(task'[r].ask)
    BY <1>1, AskShape DEF HandFits
  <2>3. task'[r].id \in EventIds /\ task'[r].ask # None
    BY <1>1, <2>2, NoEventAssumption DEF HandFits, Hands, IsDecision
  <2> QED BY <1>2, <2>1, <2>3, EventsStay
<1>3. CASE Put(r)
  <2>1. task'[r].ask = task[r].ask /\ task'[r].id = task[r].id
    BY <1>1, <1>3 DEF Put, InboxTypeOK, Hands
  <2>2. PutEvent(r)
    BY <1>3, <2>1 DEF Put
  <2>3. task[r].id \in EventIds
    BY <1>1, <2>1, AskShape DEF HandFits, Hands
  <2> QED BY <2>1, <2>2, <2>3 DEF PutEvent, InboxTypeOK
<1>4. ASSUME NEW at, Go(r, at), task[r].at \in {"index", "unlink"}
      PROVE  eventFiles'[task'[r].id] = task'[r].ask
  <2>1. task'[r].ask = task[r].ask /\ task'[r].id = task[r].id
    BY <1>1, <1>4 DEF Go, InboxTypeOK, Hands
  <2> QED BY <1>2, <1>4, <2>1
<1>5. CASE task'[r] = task[r]
  BY <1>2, <1>5
<1>6. Idle.at = "idle"
  BY DEF Idle
<1>7. ~Stop(r)
  BY <1>6 DEF Stop, InboxTypeOK
<1>8. ASSUME NEW q \in Clients, q # r,
             \/ \E ask \in Asks : Ask(q, ask)
             \/ Check(q) \/ Refer(q) \/ Put(q) \/ Enter(q) \/ Unlink(q) \/ Drop(q) \/ Fail(q)
      PROVE  task'[r] = task[r]
  BY <1>8 DEF Ask, Check, Refer, Put, Enter, Unlink, Drop, Fail, Stop, Go, InboxTypeOK
<1>9. ASSUME NEW ask \in Asks, Ask(r, ask)
      PROVE  FALSE
  <2>1. task'[r].at = IF IsDecision(ask) THEN "check"
                      ELSE IF Named(ask) = {} THEN "put" ELSE "refer"
    BY <1>9 DEF Ask, Idle, InboxTypeOK
  <2> QED BY <2>1
<1>10. ~Check(r)
  <2>1. ASSUME NEW now, task' = [task EXCEPT ![r].at = "refer", ![r].id = now]
        PROVE  FALSE
    BY <1>1, <2>1 DEF InboxTypeOK, Hands
  <2> QED BY <1>7, <2>1 DEF Check
<1>11. ~Refer(r)
  <2>1. ASSUME NEW record,
               task' = [task EXCEPT ![r] =
                    [task[r] EXCEPT !.left = task[r].left \ {record},
                                    !.at = IF task[r].left \ {record} = {}
                                           THEN "put" ELSE "refer",
                                    !.seeds = IF record \in {Idea(i) : i \in Ideas}
                                              THEN ideaFiles[record[2]] ELSE @]]
        PROVE  FALSE
    <3>1. task'[r].at = IF task[r].left \ {record} = {} THEN "put" ELSE "refer"
      BY <1>1, <2>1 DEF InboxTypeOK, Hands
    <3> QED BY <3>1
  <2> QED BY <1>7, <2>1 DEF Refer
<1>12. CASE Enter(r) \/ Unlink(r)
  BY <1>4, <1>7, <1>12 DEF Enter, Unlink
<1>13. ~Drop(r) /\ ~Fail(r)
  BY <1>7 DEF Drop, Fail
<1>14. CASE Read \/ Reindex \/ Start \/ Serve \/ LoseIndex \/ Edit \/ UNCHANGED vars
  BY <1>5, <1>14 DEF Read, Reindex, Start, Serve, LoseIndex, Edit, vars
<1>15. ~Crash
  BY <1>6 DEF Crash
<1> QED BY <1>3, <1>5, <1>8, <1>9, <1>10, <1>11, <1>12, <1>13, <1>14, <1>15 DEF InboxNext

LEMMA DeletionsStep ==
    ASSUME InboxTypeOK, Agreement, DeletionInv, MaxEdits = 0, [InboxNext]_vars
    PROVE  DeletionsOnRecord'
<1> SUFFICES ASSUME NEW c \in Captures, Capture(c) \in minted', c \notin captureFiles'
             PROVE  Deleted(c)'
  BY DEF DeletionsOnRecord, Deleted
<1>1. ASSUME Capture(c) \in minted, c \notin captureFiles
      PROVE  Deleted(c)'
  <2>1. PICK e \in EventIds : /\ eventFiles[e] # None
                             /\ eventFiles[e].kind = "capture_deleted"
                             /\ eventFiles[e].captures = {c}
    BY <1>1 DEF DeletionInv, DeletionsOnRecord
  <2>2. eventFiles'[e] = eventFiles[e]
    BY <2>1, EventsStay DEF DeletionInv
  <2> QED BY <2>1, <2>2 DEF Deleted
<1>2. ASSUME NEW r \in Clients, Put(r)
      PROVE  Capture(c) \in minted /\ c \notin captureFiles
  <2>1. task[r].ask \in Asks
    BY <1>2 DEF Put, InboxTypeOK, HandFits
  <2>2. captureFiles \subseteq captureFiles'
    BY <1>2 DEF Put, PutCapture, PutIdea, PutEvent
  <2>3. Capture(c) \notin New(task[r].ask)
    <3>1. CASE task[r].ask.kind = "create_capture"
      <4>1. PICK d \in Captures : task[r].ask.captures = {d}
        BY <2>1, <3>1, OneCapture
      <4>2. d \in captureFiles'
        BY <1>2, <3>1, <4>1 DEF Put, PutCapture
      <4> QED BY <3>1, <4>1, <4>2 DEF New, Capture
    <3>2. CASE task[r].ask.kind # "create_capture"
      BY <3>2 DEF New, Capture, Idea
    <3> QED BY <3>1, <3>2
  <2> QED BY <1>2, <2>2, <2>3 DEF Put
<1>3. ASSUME NEW r \in Clients, Unlink(r), c \in captureFiles
      PROVE  Deleted(c)'
  <2>1. /\ task[r].ask \in Asks /\ task[r].ask.kind = "capture_deleted"
        /\ HandFits(task[r]) /\ task[r] \in Hands
    BY <1>3 DEF Unlink, InboxTypeOK, HandFits
  <2>2. task[r].ask.captures = {c}
    BY <1>3, <2>1, OneCapture DEF Unlink
  <2>3. eventFiles[task[r].id] = task[r].ask
    BY <1>3, <2>1 DEF DeletionInv, Recorded, Unlink
  <2>4. task[r].id \in EventIds /\ task[r].ask # None
    BY <1>3, <2>1, AskShape, NoEventAssumption DEF HandFits, Hands, IsDecision, Unlink
  <2>5. eventFiles' = eventFiles
    BY <1>3 DEF Unlink
  <2> QED BY <2>1, <2>2, <2>3, <2>4, <2>5 DEF Deleted
<1>4. ASSUME NEW r \in Clients, Unlink(r)
      PROVE  minted' = minted
  BY <1>4 DEF Unlink
<1>5. ~Edit
  BY DEF Edit, DeletionInv
<1>6. CASE ~\E r \in Clients : Put(r) \/ Unlink(r)
  <2>1. UNCHANGED <<captureFiles, minted>>
    BY <1>5, <1>6 DEF InboxNext, vars, files, Ask, Check, Refer, Enter, Drop, Fail,
                      Read, Reindex, Start, Serve, Crash, LoseIndex
  <2> QED BY <1>1, <2>1
<1> QED BY <1>1, <1>2, <1>3, <1>4, <1>6

(* With nobody but the server at the files, and however many requests at   *)
(* once, a capture whose file is gone has its deletion in the log: the     *)
(* decision is written before the file goes, and no decision is lost or    *)
(* written over, wherever the process stops.                               *)
THEOREM IdeaInboxDeletionsOnRecord ==
    ASSUME MaxEdits = 0
    PROVE  InboxSpec => []DeletionsOnRecord
<1>1. InboxInit => InboxTypeOK /\ Agreement /\ DeletionInv
  <2> SUFFICES ASSUME InboxInit
               PROVE  DeletionInv
    BY InboxTypeInit, AgreementInit
  <2>1. Recorded
    BY DEF InboxInit, Recorded, Idle
  <2>2. DeletionsOnRecord
    BY DEF InboxInit, DeletionsOnRecord, Capture, Idea
  <2> QED BY <2>1, <2>2 DEF InboxInit, DeletionInv
<1>2. InboxTypeOK /\ Agreement /\ DeletionInv /\ [InboxNext]_vars
          => (InboxTypeOK /\ Agreement /\ DeletionInv)'
  <2> SUFFICES ASSUME InboxTypeOK, Agreement, DeletionInv, [InboxNext]_vars
               PROVE  (InboxTypeOK /\ Agreement /\ DeletionInv)'
    OBVIOUS
  <2>1. InboxTypeOK' /\ Agreement'
    BY InboxTypeStep, AgreementStep
  <2>2. edits' = 0 /\ Recorded'
    BY EventsStay, RecordedStep DEF DeletionInv
  <2>3. DeletionsOnRecord'
    BY DeletionsStep
  <2> QED BY <2>1, <2>2, <2>3 DEF DeletionInv
<1>3. DeletionInv => DeletionsOnRecord
  BY DEF DeletionInv
<1> QED BY <1>1, <1>2, <1>3, PTL DEF InboxSpec
-----------------------------------------------------------------------------
(* With a watcher, what is neither dirty nor being read is as its file.    *)

RowsBut(record)  == \A other \in Records : other # record => RowOf(other)' = RowOf(other)
FilesBut(record) == \A other \in Records : other # record => FileOf(other)' = FileOf(other)

InHand(record) == reading # None /\ reading.record = record

Followed ==
    /\ phase = "down" => reading = None /\ dirty = {}
    /\ phase # "up" => \A r \in Clients : task[r] = Idle
    /\ \A record \in Records :
          InHand(record) => FileOf(record) = reading.found \/ record \in dirty
    /\ phase # "down" =>
          \A record \in Records \ late :
              RowOf(record) = FileOf(record) \/ record \in dirty \/ InHand(record)

LEMMA RecordKinds ==
    ASSUME NEW record \in Records
    PROVE  \/ \E c \in Captures : record = Capture(c) /\ record[1] = "capture" /\ record[2] = c
           \/ \E i \in Ideas : record = Idea(i) /\ record[1] = "idea" /\ record[2] = i
           \/ \E e \in EventIds : record = Decision(e) /\ record[1] = "event" /\ record[2] = e
BY RecordsApart DEF Records

LEMMA RowsOf ==
    /\ \A c \in Captures : RowOf(Capture(c)) = captures[c]
    /\ \A i \in Ideas : RowOf(Idea(i)) = threads[i]
    /\ \A e \in EventIds : RowOf(Decision(e)) = events[e]
    /\ \A c \in Captures : RowOf(Capture(c))' = captures'[c]
    /\ \A i \in Ideas : RowOf(Idea(i))' = threads'[i]
    /\ \A e \in EventIds : RowOf(Decision(e))' = events'[e]
BY RecordsApart DEF RowOf

(* A write to a mirrored table is a write to the row of one record.        *)
LEMMA CaptureRow ==
    ASSUME TablesTypeOK, NEW c \in Captures, NEW new,
           captures' = [captures EXCEPT ![c] = new], UNCHANGED <<threads, events>>
    PROVE  RowsBut(Capture(c)) /\ RowOf(Capture(c))' = new
<1>1. RowOf(Capture(c))' = new
  BY RowsOf DEF TablesTypeOK
<1>2. ASSUME NEW other \in Records, other # Capture(c)
      PROVE  RowOf(other)' = RowOf(other)
  BY <1>2, RecordKinds, RowsOf DEF TablesTypeOK
<1> QED BY <1>1, <1>2 DEF RowsBut

LEMMA IdeaRow ==
    ASSUME TablesTypeOK, NEW i \in Ideas, NEW new,
           threads' = [threads EXCEPT ![i] = new], UNCHANGED <<captures, events>>
    PROVE  RowsBut(Idea(i)) /\ RowOf(Idea(i))' = new
<1>1. RowOf(Idea(i))' = new
  BY RowsOf DEF TablesTypeOK
<1>2. ASSUME NEW other \in Records, other # Idea(i)
      PROVE  RowOf(other)' = RowOf(other)
  BY <1>2, RecordKinds, RowsOf DEF TablesTypeOK
<1> QED BY <1>1, <1>2 DEF RowsBut

LEMMA EventRow ==
    ASSUME TablesTypeOK, NEW e \in EventIds, NEW new,
           events' = [events EXCEPT ![e] = new], UNCHANGED <<captures, threads>>
    PROVE  RowsBut(Decision(e)) /\ RowOf(Decision(e))' = new
<1>1. RowOf(Decision(e))' = new
  BY RowsOf DEF TablesTypeOK
<1>2. ASSUME NEW other \in Records, other # Decision(e)
      PROVE  RowOf(other)' = RowOf(other)
  BY <1>2, RecordKinds, RowsOf DEF TablesTypeOK
<1> QED BY <1>1, <1>2 DEF RowsBut

LEMMA SameFiles == ASSUME UNCHANGED files PROVE \A record \in Records : FileOf(record)' = FileOf(record)
BY RecordKinds DEF files, FileOf

LEMMA SameRows == ASSUME UNCHANGED mirrors PROVE \A record \in Records : RowOf(record)' = RowOf(record)
BY RecordKinds DEF mirrors, RowOf

(* A request enters one row, and when the file has moved on it is on the   *)
(* list of the late.                                                       *)
LEMMA EnterRow ==
    ASSUME InboxTypeOK, NEW r \in Clients, Enter(r)
    PROVE  \E record \in Records :
              /\ RowsBut(record)
              /\ RowOf(record)' = FileOf(record) \/ record \in late'
              /\ late \subseteq late'
<1>1. /\ task[r] \in Hands /\ HandFits(task[r]) /\ task[r].at = "index"
      /\ task[r].ask \in Asks /\ TablesTypeOK
  BY DEF InboxTypeOK, Enter, HandFits
<1>2. CASE task[r].ask.kind \in {"create_capture", "patch_capture"}
  <2>1. PICK c \in task[r].ask.captures :
            UpsertCapture(c, Born[c]) /\ Late(Capture(c), Born[c])
    BY <1>1, <1>2 DEF Enter, EnterCapture
  <2>2. c \in Captures /\ Capture(c) \in Records
    BY <1>1, <2>1, AskShape DEF Records
  <2>3. RowsBut(Capture(c)) /\ RowOf(Capture(c))' = Born[c]
    BY <1>1, <2>1, <2>2, CaptureRow DEF UpsertCapture
  <2> QED BY <2>1, <2>2, <2>3 DEF Late
<1>3. CASE task[r].ask.kind \in {"create_idea", "patch_idea"}
  <2>1. PICK i, seeds : /\ i = task[r].ask.idea
                        /\ UpsertIdea(i, seeds) /\ Late(Idea(i), seeds)
    BY <1>1, <1>3 DEF Enter, EnterIdea
  <2>2. i \in Ideas /\ Idea(i) \in Records
    BY <1>1, <1>3, <2>1, AskShape DEF Records
  <2>3. RowsBut(Idea(i)) /\ RowOf(Idea(i))' = seeds
    BY <1>1, <2>1, <2>2, IdeaRow DEF UpsertIdea
  <2> QED BY <2>1, <2>2, <2>3 DEF Late
<1>4. CASE task[r].ask.kind \notin {"create_capture", "patch_capture",
                                    "create_idea", "patch_idea"}
  <2>1. PICK e, event : /\ e = task[r].id
                        /\ UpsertEvent(e, event) /\ Late(Decision(e), event)
    BY <1>1, <1>4 DEF Enter, EnterEvent
  <2>2. e \in EventIds /\ Decision(e) \in Records
    BY <1>1, <1>4, <2>1, AskShape DEF HandFits, Hands, IsDecision, Records
  <2>3. RowsBut(Decision(e)) /\ RowOf(Decision(e))' = event
    BY <1>1, <2>1, <2>2, EventRow DEF UpsertEvent
  <2> QED BY <2>1, <2>2, <2>3 DEF Late
<1> QED BY <1>2, <1>3, <1>4

LEMMA DropRow ==
    ASSUME InboxTypeOK, NEW r \in Clients, Drop(r)
    PROVE  \E record \in Records :
              /\ RowsBut(record)
              /\ RowOf(record)' = FileOf(record) \/ record \in late'
              /\ late \subseteq late'
<1>1. PICK c \in task[r].ask.captures : RemoveCapture(c) /\ Late(Capture(c), None)
  BY DEF Drop
<1>2. c \in Captures /\ Capture(c) \in Records /\ TablesTypeOK
  BY <1>1, AskShape DEF Drop, InboxTypeOK, HandFits, Records
<1>3. RowsBut(Capture(c)) /\ RowOf(Capture(c))' = None
  BY <1>1, <1>2, CaptureRow DEF RemoveCapture
<1> QED BY <1>1, <1>2, <1>3 DEF Late

(* The watcher makes the row of the record in hand what it found.          *)
LEMMA ReindexRow ==
    ASSUME InboxTypeOK, Reindex
    PROVE  \E record \in Records :
              /\ InHand(record)
              /\ RowsBut(record)
              /\ RowOf(record)' = reading.found
<1>0. TablesTypeOK
  BY DEF InboxTypeOK
<1>1. CASE \E c \in Captures : reading.record = Capture(c)
  <2>0. PICK c \in Captures : reading.record = Capture(c)
    BY <1>1
  <2>f. PICK found : found = reading.found
    OBVIOUS
  <2>1. ReindexCapture(c, found)
    BY <2>0, <2>f, RecordsApart DEF Reindex
  <2>2. /\ captures' = [captures EXCEPT ![c] = found]
        /\ UNCHANGED <<threads, events>>
    BY <2>1 DEF ReindexCapture, UpsertCapture, RemoveCapture
  <2>3. RowsBut(Capture(c)) /\ RowOf(Capture(c))' = found
    BY <1>0, <2>2, CaptureRow
  <2>4. Capture(c) \in Records /\ InHand(Capture(c))
    BY <2>0 DEF Records, InHand, Reindex
  <2> QED BY <2>f, <2>3, <2>4
<1>2. CASE \E i \in Ideas : reading.record = Idea(i)
  <2>0. PICK i \in Ideas : reading.record = Idea(i)
    BY <1>2
  <2>f. PICK found : found = reading.found
    OBVIOUS
  <2>1. ReindexIdea(i, found)
    BY <2>0, <2>f, RecordsApart DEF Reindex
  <2>2. /\ threads' = [threads EXCEPT ![i] = found]
        /\ UNCHANGED <<captures, events>>
    BY <2>1 DEF ReindexIdea, UpsertIdea, RemoveIdea
  <2>3. RowsBut(Idea(i)) /\ RowOf(Idea(i))' = found
    BY <1>0, <2>2, IdeaRow
  <2>4. Idea(i) \in Records /\ InHand(Idea(i))
    BY <2>0 DEF Records, InHand, Reindex
  <2> QED BY <2>f, <2>3, <2>4
<1>3. CASE \E e \in EventIds : reading.record = Decision(e)
  <2>0. PICK e \in EventIds : reading.record = Decision(e)
    BY <1>3
  <2>f. PICK found : found = reading.found
    OBVIOUS
  <2>1. ReindexEvent(e, found)
    BY <2>0, <2>f, RecordsApart DEF Reindex
  <2>2. /\ events' = [events EXCEPT ![e] = found]
        /\ UNCHANGED <<captures, threads>>
    BY <2>1 DEF ReindexEvent, UpsertEvent, RemoveEvent
  <2>3. RowsBut(Decision(e)) /\ RowOf(Decision(e))' = found
    BY <1>0, <2>2, EventRow
  <2>4. Decision(e) \in Records /\ InHand(Decision(e))
    BY <2>0 DEF Records, InHand, Reindex
  <2> QED BY <2>f, <2>3, <2>4
<1> QED BY <1>1, <1>2, <1>3 DEF Reindex, InboxTypeOK, Findings

(* A write to a file is a write to that of one record.                     *)
LEMMA FilesOf ==
    /\ \A c \in Captures : FileOf(Capture(c)) = IF c \in captureFiles THEN Born[c] ELSE None
    /\ \A i \in Ideas : FileOf(Idea(i)) = ideaFiles[i]
    /\ \A e \in EventIds : FileOf(Decision(e)) = eventFiles[e]
    /\ \A c \in Captures : FileOf(Capture(c))' = IF c \in captureFiles' THEN Born[c] ELSE None
    /\ \A i \in Ideas : FileOf(Idea(i))' = ideaFiles'[i]
    /\ \A e \in EventIds : FileOf(Decision(e))' = eventFiles'[e]
BY RecordsApart DEF FileOf

LEMMA CaptureFile ==
    ASSUME NEW c \in Captures, \A d \in Captures : d # c => (d \in captureFiles' <=> d \in captureFiles),
           UNCHANGED <<ideaFiles, eventFiles>>
    PROVE  FilesBut(Capture(c))
BY RecordKinds, FilesOf DEF FilesBut

LEMMA IdeaFile ==
    ASSUME NEW i \in Ideas, \A j \in Ideas : j # i => ideaFiles'[j] = ideaFiles[j],
           UNCHANGED <<captureFiles, eventFiles>>
    PROVE  FilesBut(Idea(i))
BY RecordKinds, FilesOf DEF FilesBut

LEMMA EventFile ==
    ASSUME NEW e \in EventIds, \A f \in EventIds : f # e => eventFiles'[f] = eventFiles[f],
           UNCHANGED <<captureFiles, ideaFiles>>
    PROVE  FilesBut(Decision(e))
BY RecordKinds, FilesOf DEF FilesBut

LEMMA PutFile ==
    ASSUME InboxTypeOK, NEW r \in Clients, Put(r)
    PROVE  \E record \in Records : FilesBut(record) /\ Notice(record)
<1>1. task[r].at = "put" /\ task[r] \in Hands /\ HandFits(task[r]) /\ task[r].ask \in Asks
  BY DEF InboxTypeOK, Put, HandFits
<1>2. CASE task[r].ask.kind \in {"create_capture", "patch_capture"}
  <2>1. PICK c \in task[r].ask.captures :
            /\ captureFiles' = captureFiles \cup {c} /\ Notice(Capture(c))
            /\ UNCHANGED <<ideaFiles, eventFiles>>
    BY <1>1, <1>2 DEF Put, PutCapture
  <2>2. c \in Captures /\ Capture(c) \in Records
    BY <1>1, <2>1, AskShape DEF Records
  <2> QED BY <2>1, <2>2, CaptureFile
<1>3. CASE task[r].ask.kind \in {"create_idea", "patch_idea"}
  <2>1. PICK i, seeds : /\ i = task[r].ask.idea
                        /\ ideaFiles' = [ideaFiles EXCEPT ![i] = seeds] /\ Notice(Idea(i))
                        /\ UNCHANGED <<captureFiles, eventFiles>>
    BY <1>1, <1>3 DEF Put, PutIdea
  <2>2. i \in Ideas /\ Idea(i) \in Records
    BY <1>1, <1>3, <2>1, AskShape DEF Records
  <2>3. \A j \in Ideas : j # i => ideaFiles'[j] = ideaFiles[j]
    BY <2>1 DEF InboxTypeOK
  <2> QED BY <2>1, <2>2, <2>3, IdeaFile
<1>4. CASE task[r].ask.kind \notin {"create_capture", "patch_capture",
                                    "create_idea", "patch_idea"}
  <2>1. PICK e, event : /\ e = task[r].id
                        /\ eventFiles' = [eventFiles EXCEPT ![e] = event]
                        /\ Notice(Decision(e)) /\ UNCHANGED <<captureFiles, ideaFiles>>
    BY <1>1, <1>4 DEF Put, PutEvent
  <2>2. e \in EventIds /\ Decision(e) \in Records
    BY <1>1, <1>4, <2>1, AskShape DEF HandFits, Hands, IsDecision, Records
  <2>3. \A f \in EventIds : f # e => eventFiles'[f] = eventFiles[f]
    BY <2>1 DEF InboxTypeOK
  <2> QED BY <2>1, <2>2, <2>3, EventFile
<1> QED BY <1>2, <1>3, <1>4

LEMMA EditFile ==
    ASSUME InboxTypeOK, Edit
    PROVE  \E record \in Records : FilesBut(record) /\ Notice(record)
<1>1. ASSUME NEW c \in Captures, EditCapture(c)
      PROVE  FilesBut(Capture(c)) /\ Notice(Capture(c)) /\ Capture(c) \in Records
  BY <1>1, CaptureFile DEF EditCapture, Records
<1>2. ASSUME NEW i \in Ideas, NEW seeds, EditIdea(i, seeds)
      PROVE  FilesBut(Idea(i)) /\ Notice(Idea(i)) /\ Idea(i) \in Records
  <2>1. \A j \in Ideas : j # i => ideaFiles'[j] = ideaFiles[j]
    BY <1>2 DEF EditIdea, InboxTypeOK
  <2> QED BY <1>2, <2>1, IdeaFile DEF EditIdea, Records
<1>3. ASSUME NEW e \in EventIds, EraseEvent(e)
      PROVE  FilesBut(Decision(e)) /\ Notice(Decision(e)) /\ Decision(e) \in Records
  <2>1. \A f \in EventIds : f # e => eventFiles'[f] = eventFiles[f]
    BY <1>3 DEF EraseEvent, InboxTypeOK
  <2> QED BY <1>3, <2>1, EventFile DEF EraseEvent, Records
<1> QED BY <1>1, <1>2, <1>3 DEF Edit

(* The three kinds of step: one that touches neither, one that writes a    *)
(* file, one that writes a row.                                            *)
LEMMA StillFollowed ==
    ASSUME Followed, UNCHANGED <<mirrors, files, phase, dirty, reading, late>>,
           phase # "up" => task' = task
    PROVE  Followed'
<1>1. \A record \in Records : /\ FileOf(record)' = FileOf(record)
                              /\ RowOf(record)' = RowOf(record)
                              /\ InHand(record)' = InHand(record)
  BY SameFiles, SameRows DEF InHand
<1> QED BY <1>1 DEF Followed

LEMMA WriteFollowed ==
    ASSUME Watched, Followed, phase = "up", NEW record \in Records,
           FilesBut(record), Notice(record), UNCHANGED <<mirrors, phase, reading, late>>
    PROVE  Followed'
<1>1. dirty' = dirty \cup {record}
  BY DEF Notice
<1>2. \A other \in Records : /\ RowOf(other)' = RowOf(other)
                             /\ InHand(other)' = InHand(other)
                             /\ other = record \/ FileOf(other)' = FileOf(other)
  BY SameRows DEF InHand, FilesBut
<1> QED BY <1>1, <1>2 DEF Followed

LEMMA EntryFollowed ==
    ASSUME Followed, phase = "up", NEW record \in Records, RowsBut(record),
           RowOf(record)' = FileOf(record) \/ record \in late', late \subseteq late',
           UNCHANGED <<files, phase, dirty, reading>>
    PROVE  Followed'
<1>1. \A other \in Records : /\ FileOf(other)' = FileOf(other)
                             /\ InHand(other)' = InHand(other)
                             /\ other = record \/ RowOf(other)' = RowOf(other)
  BY SameFiles DEF InHand, RowsBut
<1> QED BY <1>1 DEF Followed

LEMMA ReadFollowed ==
    ASSUME InboxTypeOK, Followed, Read
    PROVE  Followed'
<1>1. PICK record \in dirty : /\ reading' = [record |-> record, found |-> FileOf(record)]
                              /\ dirty' = dirty \ {record}
                              /\ late' = late \ {record}
  BY DEF Read
<1>2. reading = None /\ UNCHANGED <<files, mirrors, phase, task>> /\ phase # "down"
  BY <1>1 DEF Read, tables, mirrors, Followed
<1>3. record \in Records
  BY <1>1 DEF InboxTypeOK
<1>4. reading' # None
  <2>1. FileOf(record) \in Moments \cup Seeds \cup Event \cup {None}
    BY <1>3, RecordKinds, FilesOf, BornAssumption DEF InboxTypeOK
  <2> QED BY <1>1, <1>3, <2>1, NoFindingAssumption
<1>5. \A other \in Records : /\ FileOf(other)' = FileOf(other)
                             /\ RowOf(other)' = RowOf(other)
                             /\ InHand(other)' <=> other = record
                             /\ ~InHand(other)
  BY <1>1, <1>2, <1>4, SameFiles, SameRows DEF InHand
<1> QED BY <1>1, <1>2, <1>4, <1>5 DEF Followed

LEMMA ReindexFollowed ==
    ASSUME InboxTypeOK, Followed, Reindex
    PROVE  Followed'
<1>1. PICK record \in Records :
         InHand(record) /\ RowsBut(record) /\ RowOf(record)' = reading.found
  BY ReindexRow
<1>2. reading' = None /\ UNCHANGED <<files, phase, dirty, task, late>> /\ phase # "down"
  BY <1>1 DEF Reindex, Followed, InHand
<1>3. FileOf(record) = reading.found \/ record \in dirty
  BY <1>1 DEF Followed
<1>4. \A other \in Records : /\ FileOf(other)' = FileOf(other)
                             /\ other = record \/ RowOf(other)' = RowOf(other)
                             /\ other = record \/ ~InHand(other)
                             /\ ~InHand(other)'
  BY <1>1, <1>2, SameFiles DEF InHand, RowsBut
<1> QED BY <1>1, <1>2, <1>3, <1>4 DEF Followed

LEMMA FollowedStep == Watched /\ InboxTypeOK /\ Followed /\ [InboxNext]_vars => Followed'
<1> SUFFICES ASSUME Watched, InboxTypeOK, Followed, [InboxNext]_vars
             PROVE  Followed'
  OBVIOUS
<1>a. ASSUME NEW r \in Clients, task[r].at # "idle"
      PROVE  phase = "up"
  BY <1>a DEF Followed, Idle
<1>1. ASSUME NEW r \in Clients, NEW ask \in Asks, Ask(r, ask)
      PROVE  Followed'
  BY <1>1, StillFollowed DEF Ask, tables, mirrors
<1>2. ASSUME NEW r \in Clients, Check(r) \/ Refer(r) \/ Fail(r)
      PROVE  Followed'
  <2>1. phase = "up"
    BY <1>a, <1>2 DEF Check, Refer, Fail
  <2> QED BY <1>2, <2>1, StillFollowed DEF Check, Refer, Fail, tables, mirrors
<1>3. ASSUME NEW r \in Clients, Put(r)
      PROVE  Followed'
  <2>1. phase = "up" /\ UNCHANGED <<mirrors, phase, reading, late>>
    BY <1>a, <1>3 DEF Put, tables, mirrors
  <2> QED BY <1>3, <2>1, PutFile, WriteFollowed
<1>4. ASSUME NEW r \in Clients, Enter(r)
      PROVE  Followed'
  <2>1. phase = "up" /\ UNCHANGED <<files, phase, dirty, reading>>
    BY <1>a, <1>4 DEF Enter
  <2> QED BY <1>4, <2>1, EnterRow, EntryFollowed
<1>5. ASSUME NEW r \in Clients, Drop(r)
      PROVE  Followed'
  <2>1. phase = "up" /\ UNCHANGED <<files, phase, dirty, reading>>
    BY <1>a, <1>5 DEF Drop
  <2> QED BY <1>5, <2>1, DropRow, EntryFollowed
<1>6. ASSUME NEW r \in Clients, Unlink(r)
      PROVE  Followed'
  <2>1. phase = "up" /\ UNCHANGED <<mirrors, ideaFiles, eventFiles, phase, reading, late>>
    BY <1>a, <1>6 DEF Unlink, tables, mirrors
  <2>2. PICK c \in task[r].ask.captures :
            \/ captureFiles' = captureFiles \ {c} /\ Notice(Capture(c))
            \/ UNCHANGED <<captureFiles, dirty>>
    BY <1>6 DEF Unlink
  <2>3. c \in Captures /\ Capture(c) \in Records
    BY <1>6, <2>2, AskShape DEF Unlink, InboxTypeOK, HandFits, Records
  <2>4. CASE captureFiles' = captureFiles \ {c} /\ Notice(Capture(c))
    BY <2>1, <2>3, <2>4, CaptureFile, WriteFollowed
  <2>5. CASE UNCHANGED <<captureFiles, dirty>>
    BY <2>1, <2>5, StillFollowed DEF files
  <2> QED BY <2>2, <2>4, <2>5
<1>7. ASSUME Start
      PROVE  Followed'
  <2>1. /\ reading = None /\ UNCHANGED <<mirrors, files, task, reading, late>>
        /\ phase = "down" /\ phase' = "starting" /\ dirty' = Stale
    BY <1>7 DEF Start, tables, mirrors, Followed
  <2>2. \A record \in Records : /\ FileOf(record)' = FileOf(record)
                                /\ RowOf(record)' = RowOf(record)
                                /\ ~InHand(record)'
    BY <2>1, SameFiles, SameRows DEF InHand
  <2> QED BY <2>1, <2>2 DEF Followed, Stale
<1>8. ASSUME Serve
      PROVE  Followed'
  <2>1. /\ reading = None /\ UNCHANGED <<mirrors, files, task, reading, late, dirty>>
        /\ phase = "starting" /\ phase' = "up"
    BY <1>8 DEF Serve, tables, mirrors
  <2>2. \A record \in Records : /\ FileOf(record)' = FileOf(record)
                                /\ RowOf(record)' = RowOf(record)
                                /\ ~InHand(record) /\ ~InHand(record)'
    BY <2>1, SameFiles, SameRows DEF InHand
  <2> QED BY <2>1, <2>2 DEF Followed
<1>9. ASSUME Crash
      PROVE  Followed'
  BY <1>9 DEF Crash, Followed, InHand
<1>10. ASSUME LoseIndex
       PROVE  Followed'
  BY <1>10 DEF LoseIndex, Followed, InHand
<1>11. ASSUME Edit
       PROVE  Followed'
  <2>1. UNCHANGED <<mirrors, phase, reading, late, task>> /\ phase # "starting"
    BY <1>11 DEF Edit, tables, mirrors
  <2>2. PICK record \in Records : FilesBut(record) /\ Notice(record)
    BY <1>11, EditFile
  <2>3. CASE phase = "up"
    BY <2>1, <2>2, <2>3, WriteFollowed
  <2>4. CASE phase = "down"
    BY <2>1, <2>2, <2>4 DEF Followed, Notice, InHand
  <2> QED BY <2>1, <2>3, <2>4 DEF InboxTypeOK
<1>12. ASSUME UNCHANGED vars
       PROVE  Followed'
  BY <1>12, StillFollowed DEF vars, mirrors, files
<1> QED BY <1>1, <1>2, <1>3, <1>4, <1>5, <1>6, <1>7, <1>8, <1>9, <1>10, <1>11, <1>12,
           ReadFollowed, ReindexFollowed DEF InboxNext

LEMMA FollowedInit == InboxInit => Followed
BY DEF InboxInit, Followed, InHand

LEMMA FollowedMatches == Followed => InboxMatchesFiles
BY DEF Followed, InboxMatchesFiles, InHand

(* With a watcher, whoever writes the files and however requests, the scan *)
(* and the watcher take turns, steps fail and the process stops: when there *)
(* is nothing left to do, each mirrored row is as its file, except for the *)
(* rows a request entered after the file had been changed behind it.       *)
THEOREM IdeaInboxMatchesFiles == ASSUME Watched PROVE InboxSpec => []InboxMatchesFiles
<1>1. InboxInit => InboxTypeOK /\ Followed
  BY InboxTypeInit, FollowedInit
<1>2. InboxTypeOK /\ Followed /\ [InboxNext]_vars => (InboxTypeOK /\ Followed)'
  BY InboxTypeStep, FollowedStep
<1> QED BY <1>1, <1>2, FollowedMatches, PTL DEF InboxSpec
-----------------------------------------------------------------------------
(* One request at a time, and nobody else at the files: what is decided by *)
(* the index is right by the files, because with nothing being entered the *)
(* index has what they have (CaughtUp), and what a request has read and    *)
(* concluded stays so until it is done (RequestFits).                      *)

OneRequest == /\ \E r : Clients = {r}
              /\ MaxEdits = 0 /\ MaxFailures = 0 /\ IsFiniteSet(Captures)

\* What is in the files or was, and what is being put in the index.
Known(record) == Written(record) \/ record \in minted
Target(hand) ==
    IF hand.ask.kind \in {"create_capture", "patch_capture"} THEN {Capture(c) : c \in hand.ask.captures}
    ELSE IF hand.ask.kind \in {"create_idea", "patch_idea"} THEN {Idea(hand.ask.idea)}
    ELSE {Decision(hand.id)}
Entering(record) ==
    \E r \in Clients : \/ task[r].at = "index" /\ record \in Target(task[r])
                       \/ task[r].at = "drop" /\ record \in {Capture(c) : c \in task[r].ask.captures}

\* The index follows the files: when requests are served, what has a file has
\* its row, and what has none has none either, but for captures a watcher is
\* still to hear about.
RecordsFit ==
    /\ \A e \in EventIds : Decision(e) \notin minted
    /\ \A i \in Ideas : Idea(i) \in minted => ideaFiles[i] # None
    /\ \A record \in Records :
          /\ Written(record) /\ record \notin {Decision(e) : e \in EventIds} => record \in minted
          /\ RowOf(record) # None \/ record \in dirty \/ InHand(record) => Known(record)
          /\ InHand(record) /\ (Written(record) \/ phase = "starting") => reading.found = FileOf(record)
IndexFits ==
    /\ phase # "up" => \A r \in Clients : task[r] = Idle
    /\ phase = "down" => reading = None /\ dirty = {}
    /\ phase = "starting" =>
          \A record \in Records : RowOf(record) = FileOf(record) \/ record \in dirty \/ InHand(record)
    /\ phase = "up" =>
          \A record \in Records : Written(record) => RowOf(record) = FileOf(record) \/ Entering(record)
    /\ phase = "up" /\ ~Watched =>
          /\ reading = None /\ dirty = {}
          /\ \A record \in Records : RowOf(record) = FileOf(record) \/ Entering(record)

\* What makes a decision news: the newest about the same thing is another.
Fresh(kinds, event) ==
    LET about == About(eventFiles, kinds, event.idea, event.captures) IN
    IF about = {} THEN Opposes(event.kind, event.idea, event.captures)
    ELSE \A f \in Newest(about) : eventFiles[f].kind # event.kind
Groups == {Connecting, Judging, Retiring, Archiving}
Decided(ask) ==
    /\ ask.captures \subseteq captureFiles =>
          \A kinds \in Groups : ask.kind \in kinds => Fresh(kinds, ask)
    /\ ask.kind = "capture_disconnected" => \E d \in Members(ideaFiles, eventFiles, ask.idea) : d \notin ask.captures

\* Deleting a capture takes no idea's last evidence.
Spared(c) ==
    \A i \in Ideas : ideaFiles[i] # None /\ c \in Members(ideaFiles, eventFiles, i) =>
        Retired(eventFiles, i) \/ \E d \in Members(ideaFiles, eventFiles, i) \cap captureFiles : d # c

RequestFits(hand) ==
    /\ hand.at \in {"check", "refer", "put"} => New(hand.ask) \cap minted = {}
    /\ hand.at \in {"refer", "put"} => \A record \in Named(hand.ask) \ hand.left : Written(record)
    /\ hand.at = "check" => hand.left = Named(hand.ask)
    /\ hand.at = "put" => hand.left = {}
    /\ hand.ask.kind = "patch_idea" /\ hand.at = "put" => hand.seeds = ideaFiles[hand.ask.idea]
    /\ hand.at = "index" =>
          IF hand.ask.kind \in {"create_capture", "patch_capture"} THEN hand.ask.captures \subseteq captureFiles
          ELSE IF hand.ask.kind \in {"create_idea", "patch_idea"} THEN hand.seeds = ideaFiles[hand.ask.idea]
          ELSE eventFiles[hand.id] = hand.ask
    /\ hand.at = "drop" => hand.ask.captures \cap captureFiles = {}
    /\ IsDecision(hand.ask) /\ hand.at \in {"refer", "put"} =>
          /\ \A e \in EventIds : eventFiles[e] # None => e < hand.id
          /\ Decided(hand.ask)
    /\ ~Watched /\ hand.ask.kind = "capture_deleted" /\ hand.at \in {"refer", "put", "index", "unlink"} =>
          \A c \in hand.ask.captures : Spared(c)

EventsFit ==
    \A e \in EventIds : eventFiles[e] # None /\ eventFiles[e].idea \in Ideas
                            => ideaFiles[eventFiles[e].idea] # None

AloneInv ==
    /\ edits = 0 /\ failures = 0
    /\ RecordsFit /\ IndexFits /\ EventsFit
    /\ \A r \in Clients : RequestFits(task[r])
    /\ DecisionsAlternate /\ NeverEmpty
    /\ ~Watched => EvidenceKept

\* What a decision bears on.
Bears(event, kinds, i, C) == event.kind \in kinds /\ event.idea = i /\ event.captures = C

\* Decisions with one more, later than all the others.
Grown(es, fs, e, event) ==
    /\ DOMAIN es = EventIds /\ e \in EventIds /\ event # None /\ fs = [es EXCEPT ![e] = event]
    /\ \A f \in EventIds : es[f] # None => f < e

(* A decision later than all the others is the newest about what it names, *)
(* and changes nothing said about anything else.                           *)
LEMMA NewDecision ==
    ASSUME NEW es, NEW fs, NEW e, NEW event, Grown(es, fs, e, event), NEW kinds, NEW i, NEW C, NEW kind
    PROVE  /\ Bears(event, kinds, i, C) =>
                  /\ About(fs, kinds, i, C) = About(es, kinds, i, C) \cup {e}
                  /\ Newest(About(fs, kinds, i, C)) = {e}
                  /\ (Says(fs, kind, kinds, i, C) <=> event.kind = kind)
           /\ ~Bears(event, kinds, i, C) =>
                  /\ About(fs, kinds, i, C) = About(es, kinds, i, C)
                  /\ (Says(fs, kind, kinds, i, C) <=> Says(es, kind, kinds, i, C))
<1>0. /\ e \in EventIds /\ e \in Nat /\ event # None
      /\ \A f \in EventIds : f \in Nat /\ (es[f] # None => f < e)
  BY InstantAssumption DEF Grown
<1>1. e \in EventIds /\ event # None /\ fs[e] = event /\ \A f \in EventIds \ {e} : fs[f] = es[f]
  BY DEF Grown
<1>2. es[e] = None
  BY <1>0
<1>3. ASSUME Bears(event, kinds, i, C)
      PROVE  /\ About(fs, kinds, i, C) = About(es, kinds, i, C) \cup {e}
             /\ Newest(About(fs, kinds, i, C)) = {e}
             /\ (Says(fs, kind, kinds, i, C) <=> event.kind = kind)
  <2>1. About(fs, kinds, i, C) = About(es, kinds, i, C) \cup {e}
    BY <1>1, <1>2, <1>3 DEF About, Bears
  <2>2. \A f \in About(es, kinds, i, C) : f \in Nat /\ f < e
    BY <1>0 DEF About
  <2>3. Newest(About(fs, kinds, i, C)) = {e}
    <3>1. PICK now, before : now = About(fs, kinds, i, C) /\ before = About(es, kinds, i, C)
      OBVIOUS
    <3>2. now = before \cup {e} /\ \A f \in before : f \in Nat /\ f < e
      BY <2>1, <2>2, <3>1
    <3>3. \A f \in now : f <= e /\ (f # e => ~(e <= f))
      BY <1>0, <3>2
    <3>4. Newest(now) = {e}
      BY <3>2, <3>3 DEF Newest
    <3> QED BY <3>1, <3>4
  <2>4. (Says(fs, kind, kinds, i, C) <=> event.kind = kind)
    BY <1>1, <2>3 DEF Says
  <2> QED BY <2>1, <2>3, <2>4
<1>4. ASSUME ~Bears(event, kinds, i, C)
      PROVE  /\ About(fs, kinds, i, C) = About(es, kinds, i, C)
             /\ (Says(fs, kind, kinds, i, C) <=> Says(es, kind, kinds, i, C))
  <2>1. About(fs, kinds, i, C) = About(es, kinds, i, C)
    BY <1>1, <1>2, <1>4 DEF About, Bears
  <2>2. \A f \in Newest(About(es, kinds, i, C)) : fs[f] = es[f]
    BY <1>1, <1>2 DEF Newest, About
  <2> QED BY <2>1, <2>2 DEF Says
<1> QED BY <1>3, <1>4

\* What the newest decision about a thing says, it alone says.
LEMMA SaysOne ==
    ASSUME NEW es, NEW kind, NEW kinds, NEW i, NEW C, Says(es, kind, kinds, i, C)
    PROVE  /\ About(es, kinds, i, C) # {}
           /\ \A f \in Newest(About(es, kinds, i, C)) : es[f].kind = kind
<1>1. PICK e \in Newest(About(es, kinds, i, C)) : es[e].kind = kind
  BY DEF Says
<1>2. e \in About(es, kinds, i, C) /\ About(es, kinds, i, C) \subseteq Nat
  BY <1>1, InstantAssumption DEF Newest, About
<1>3. ASSUME NEW f \in Newest(About(es, kinds, i, C)) PROVE f = e
  BY <1>1, <1>2, <1>3 DEF Newest
<1> QED BY <1>1, <1>2, <1>3

(* What a decision does to an idea's members, and whether it is retired.   *)
LEMMA MembersAfter ==
    ASSUME NEW es, NEW fs, NEW e, NEW event, Grown(es, fs, e, event), NEW ts, NEW i \in Ideas, ts[i] # None
    PROVE  /\ \A c \in Captures :
                  IF Bears(event, Connecting, i, {c})
                  THEN c \in Members(ts, fs, i) <=> event.kind = "capture_connected"
                  ELSE c \in Members(ts, fs, i) <=> c \in Members(ts, es, i)
           /\ IF Bears(event, Retiring, i, {})
              THEN Retired(fs, i) <=> event.kind = "idea_retired"
              ELSE Retired(fs, i) <=> Retired(es, i)
<1>1. ASSUME NEW c \in Captures
      PROVE  IF Bears(event, Connecting, i, {c})
             THEN c \in Members(ts, fs, i) <=> event.kind = "capture_connected"
             ELSE c \in Members(ts, fs, i) <=> c \in Members(ts, es, i)
  <2>1. PICK kinds, C, kind : kinds = Connecting /\ C = {c} /\ kind = "capture_connected"
    OBVIOUS
  <2>2. /\ Bears(event, kinds, i, C) =>
               /\ About(fs, kinds, i, C) = About(es, kinds, i, C) \cup {e}
               /\ Says(fs, kind, kinds, i, C) <=> event.kind = kind
        /\ ~Bears(event, kinds, i, C) =>
               /\ About(fs, kinds, i, C) = About(es, kinds, i, C)
               /\ Says(fs, kind, kinds, i, C) <=> Says(es, kind, kinds, i, C)
    BY NewDecision
  <2>3. CASE Bears(event, kinds, i, C)
    <3>1. About(fs, kinds, i, C) # {} /\ (Says(fs, kind, kinds, i, C) <=> event.kind = kind)
      BY <2>2, <2>3
    <3> QED BY <2>1, <2>3, <3>1 DEF Members
  <2>4. CASE ~Bears(event, kinds, i, C)
    <3>1. /\ About(fs, kinds, i, C) = About(es, kinds, i, C)
          /\ Says(fs, kind, kinds, i, C) <=> Says(es, kind, kinds, i, C)
      BY <2>2, <2>4
    <3> QED BY <2>1, <2>4, <3>1 DEF Members
  <2> QED BY <2>3, <2>4, <2>1
<1>2. IF Bears(event, Retiring, i, {})
      THEN Retired(fs, i) <=> event.kind = "idea_retired"
      ELSE Retired(fs, i) <=> Retired(es, i)
  <2>1. PICK kinds, C, kind : kinds = Retiring /\ C = {} /\ kind = "idea_retired"
    OBVIOUS
  <2>2. /\ Bears(event, kinds, i, C) => (Says(fs, kind, kinds, i, C) <=> event.kind = kind)
        /\ ~Bears(event, kinds, i, C) => (Says(fs, kind, kinds, i, C) <=> Says(es, kind, kinds, i, C))
    BY NewDecision
  <2> QED BY <2>1, <2>2 DEF Retired
<1> QED BY <1>1, <1>2

\* What a decision of each kind names.
LEMMA DecisionShape ==
    ASSUME NEW event \in Event
    PROVE  /\ event.kind \in Connecting => event.idea \in Ideas /\ \E c \in Captures : event.captures = {c}
           /\ event.kind \in Judging => \/ event.idea \in Ideas /\ \E c \in Captures : event.captures = {c}
                                        \/ event.idea = None /\ event.captures \in Pairs
           /\ event.kind \in Retiring => event.idea \in Ideas /\ event.captures = {}
           /\ event.kind \in Archiving \cup {"capture_deleted"} =>
                  event.idea = None /\ \E c \in Captures : event.captures = {c}
BY DEF Event, Shape, Singles, Connecting, Judging, Retiring, Archiving

\* Two ways to be news.
LEMMA FreshUnsaid ==
    ASSUME NEW kinds, NEW event, ~Says(eventFiles, event.kind, kinds, event.idea, event.captures),
           About(eventFiles, kinds, event.idea, event.captures) = {}
               => Opposes(event.kind, event.idea, event.captures)
    PROVE  Fresh(kinds, event)
BY DEF Fresh, Says

LEMMA FreshAgainst ==
    ASSUME NEW kinds, NEW event, NEW other, other # event.kind,
           Says(eventFiles, other, kinds, event.idea, event.captures)
    PROVE  Fresh(kinds, event)
BY SaysOne DEF Fresh

LEMMA RetiredStands ==
    ASSUME NEW cs, NEW ts, NEW es, NEW held, NEW i, ts[i] # None
    PROVE  Standing(cs, ts, es, held, i).retired = Retired(es, i)
BY DEF Standing

(* What the folded tables allow is news to the files, when the index has   *)
(* caught up with them.                                                    *)
LEMMA AllowedIsFresh ==
    ASSUME InboxTypeOK, FoldIsCurrent, NEW ask \in Event, Allowed(ask),
           events = eventFiles, threads = ideaFiles, \A c \in ask.captures : captures[c] # None,
           NEW kinds \in Groups, ask.kind \in kinds
    PROVE  Fresh(kinds, ask)
<1>0. ask.idea \in Ideas => threads[ask.idea] # None
  BY NoneAssumption DEF Allowed
<1>1. CASE kinds = Connecting
  <2>1. PICK i \in Ideas, c \in Captures : ask.idea = i /\ ask.captures = {c}
    BY <1>1, DecisionShape
  <2>2. membership[i] = Members(ideaFiles, eventFiles, i) /\ ideaFiles[i] # None
    BY <1>0, <2>1 DEF FoldIsCurrent
  <2>3. CASE ask.kind = "capture_connected"
    <3>1. c \notin membership[i]
      BY <2>1, <2>3 DEF Allowed, MayConnect
    <3>2. IF About(eventFiles, kinds, i, {c}) = {} THEN c \notin ideaFiles[i]
          ELSE ~Says(eventFiles, ask.kind, kinds, i, {c})
      BY <1>1, <2>2, <2>3, <3>1 DEF Members
    <3>3. About(eventFiles, kinds, i, {c}) = {} => ~Says(eventFiles, ask.kind, kinds, i, {c})
      BY DEF Says, Newest
    <3>4. c \notin ideaFiles[i] => Opposes(ask.kind, i, {c})
      BY <2>3 DEF Opposes
    <3> QED BY <2>1, <3>2, <3>3, <3>4, FreshUnsaid
  <2>4. CASE ask.kind = "capture_disconnected"
    <3>1. c \in membership[i]
      BY <2>1, <2>4 DEF Allowed, MayDisconnect
    <3>2. IF About(eventFiles, kinds, i, {c}) = {} THEN c \in ideaFiles[i]
          ELSE Says(eventFiles, "capture_connected", kinds, i, {c})
      BY <1>1, <2>2, <3>1 DEF Members
    <3>3. About(eventFiles, kinds, i, {c}) = {} => ~Says(eventFiles, ask.kind, kinds, i, {c})
      BY DEF Says, Newest
    <3>4. c \in ideaFiles[i] => Opposes(ask.kind, i, {c})
      BY <2>4 DEF Opposes
    <3>5. CASE About(eventFiles, kinds, i, {c}) = {}
      BY <2>1, <3>2, <3>3, <3>4, <3>5, FreshUnsaid
    <3>6. CASE About(eventFiles, kinds, i, {c}) # {}
      BY <2>1, <2>4, <3>2, <3>6, FreshAgainst
    <3> QED BY <3>5, <3>6
  <2> QED BY <1>1, <2>3, <2>4 DEF Connecting
<1>2. CASE kinds = Judging
  <2>1. Opposes("candidate_rejected", ask.idea, ask.captures)
    BY DEF Opposes
  <2>2. IF MayReject(ask.idea, ask.captures)
        THEN ~Says(eventFiles, "candidate_rejected", kinds, ask.idea, ask.captures)
        ELSE Says(eventFiles, "candidate_rejected", kinds, ask.idea, ask.captures)
    <3>1. CASE ask.idea = None /\ ask.captures \in Pairs
      BY <1>2, <3>1 DEF MayReject, FoldIsCurrent, RejectedPair
    <3>2. ASSUME NEW i \in Ideas, NEW c \in Captures, ask.idea = i, ask.captures = {c}
          PROVE  IF MayReject(ask.idea, ask.captures)
                 THEN ~Says(eventFiles, "candidate_rejected", kinds, ask.idea, ask.captures)
                 ELSE Says(eventFiles, "candidate_rejected", kinds, ask.idea, ask.captures)
      <4>1. c \in rejections[i] <=> Says(eventFiles, "candidate_rejected", kinds, i, {c})
        BY <1>0, <1>2, <3>2 DEF FoldIsCurrent, Rejected
      <4>2. MayReject(i, {c}) <=> c \notin rejections[i]
        BY NoneAssumption DEF MayReject
      <4> QED BY <3>2, <4>1, <4>2
    <3> QED BY <1>2, <3>1, <3>2, DecisionShape
  <2>3. CASE ask.kind = "candidate_rejected"
    <3>1. MayReject(ask.idea, ask.captures)
      BY <2>3 DEF Allowed
    <3> QED BY <2>1, <2>2, <2>3, <3>1, FreshUnsaid
  <2>4. CASE ask.kind = "candidate_reconsidered"
    <3>1. ~MayReject(ask.idea, ask.captures)
      BY <2>4 DEF Allowed
    <3> QED BY <2>2, <2>4, <3>1, FreshAgainst
  <2> QED BY <1>2, <2>3, <2>4 DEF Judging
<1>3. CASE kinds = Retiring
  <2>1. PICK i \in Ideas : ask.idea = i /\ ask.captures = {}
    BY <1>3, DecisionShape
  <2>2. standing[i].retired <=> Says(eventFiles, "idea_retired", kinds, i, {})
    BY <1>0, <1>3, <2>1, RetiredStands DEF FoldIsCurrent, Retired
  <2>3. CASE ask.kind = "idea_retired"
    <3>1. ~standing[i].retired
      BY <2>1, <2>3 DEF Allowed
    <3>2. Opposes("idea_retired", ask.idea, ask.captures)
      BY DEF Opposes
    <3> QED BY <2>1, <2>2, <2>3, <3>1, <3>2, FreshUnsaid
  <2>4. CASE ask.kind = "idea_reopened"
    <3>1. standing[i].retired
      BY <2>1, <2>4 DEF Allowed, MayReopen
    <3> QED BY <2>1, <2>2, <2>4, <3>1, FreshAgainst
  <2> QED BY <1>3, <2>3, <2>4 DEF Retiring
<1>4. CASE kinds = Archiving
  <2>1. PICK c \in Captures : ask.idea = None /\ ask.captures = {c}
    BY <1>4, DecisionShape
  <2>2. c \in archived <=> Says(eventFiles, "capture_archived", kinds, None, {c})
    BY <1>4, <2>1 DEF FoldIsCurrent, Archived
  <2>3. CASE ask.kind = "capture_archived"
    <3>1. c \notin archived
      BY <2>1, <2>3 DEF Allowed
    <3>2. Opposes("capture_archived", ask.idea, ask.captures)
      BY DEF Opposes
    <3> QED BY <2>1, <2>2, <2>3, <3>1, <3>2, FreshUnsaid
  <2>4. CASE ask.kind = "capture_restored"
    <3>1. c \in archived
      BY <2>1, <2>4 DEF Allowed
    <3> QED BY <2>1, <2>2, <2>4, <3>1, FreshAgainst
  <2> QED BY <1>4, <2>3, <2>4 DEF Archiving
<1> QED BY <1>1, <1>2, <1>3, <1>4 DEF Groups

\* Of a set that is not a set of one, another can be picked.
LEMMA AnotherOne ==
    ASSUME IsFiniteSet(Captures), NEW S \in SUBSET Captures, NEW c, Cardinality(S) > 1
    PROVE  \E d \in S : d # c
<1>1. IsFiniteSet(S)
  BY FS_Subset
<1>2. ASSUME S \subseteq {c} PROVE FALSE
  <2>1. CASE S = {}
    <3>1. Cardinality(S) = 0
      BY <2>1, FS_EmptySet
    <3> QED BY <3>1
  <2>2. CASE S = {c}
    <3>1. Cardinality(S) = 1
      BY <2>2, FS_Singleton
    <3> QED BY <3>1
  <2> QED BY <1>2, <2>1, <2>2
<1> QED BY <1>2

LEMMA AllowedIsDecided ==
    ASSUME InboxTypeOK, FoldIsCurrent, IsFiniteSet(Captures), NEW ask \in Event, Allowed(ask),
           events = eventFiles, threads = ideaFiles, \A c \in captureFiles : captures[c] # None
    PROVE  Decided(ask)
<1>1. ASSUME ask.captures \subseteq captureFiles, NEW kinds \in Groups, ask.kind \in kinds
      PROVE  Fresh(kinds, ask)
  BY <1>1, AllowedIsFresh
<1>2. ASSUME ask.kind = "capture_disconnected"
      PROVE  \E d \in Members(ideaFiles, eventFiles, ask.idea) : d \notin ask.captures
  <2>1. PICK i \in Ideas, c \in Captures : ask.idea = i /\ ask.captures = {c}
    BY <1>2, DecisionShape DEF Connecting
  <2>2. Cardinality(membership[i]) > 1
    BY <1>2, <2>1 DEF Allowed, MayDisconnect
  <2>3. membership[i] \in SUBSET Captures /\ membership[i] = Members(ideaFiles, eventFiles, i)
    BY DEF FoldIsCurrent, InboxTypeOK, TablesTypeOK
  <2>4. \E d \in membership[i] : d # c
    BY <2>2, <2>3, AnotherOne
  <2> QED BY <2>1, <2>3, <2>4
<1> QED BY <1>1, <1>2 DEF Decided

LEMMA AllowedIsSpared ==
    ASSUME InboxTypeOK, FoldIsCurrent, IsFiniteSet(Captures), NEW ask \in Event, Allowed(ask),
           events = eventFiles, threads = ideaFiles,
           \A c \in Captures : captures[c] # None <=> c \in captureFiles,
           ask.kind = "capture_deleted", NEW c \in ask.captures
    PROVE  Spared(c)
<1> SUFFICES ASSUME NEW i \in Ideas, ideaFiles[i] # None, c \in Members(ideaFiles, eventFiles, i),
                    ~Retired(eventFiles, i)
             PROVE  \E d \in Members(ideaFiles, eventFiles, i) \cap captureFiles : d # c
  BY DEF Spared
<1>1. membership[i] = Members(ideaFiles, eventFiles, i) /\ membership[i] \in SUBSET Captures
  BY DEF FoldIsCurrent, InboxTypeOK, TablesTypeOK
<1>2. standing[i].retired <=> Retired(eventFiles, i)
  BY RetiredStands DEF FoldIsCurrent
<1>3. ~DependsOn(i, c)
  BY DEF Allowed, MayDelete
<1>4. ~(Cardinality(Live(i)) <= 1)
  BY <1>1, <1>2, <1>3 DEF DependsOn
<1>5. Live(i) = membership[i] \cap captureFiles
  BY <1>1 DEF Live
<1>6. Cardinality(Live(i)) > 1
  <2>1. IsFiniteSet(Live(i))
    BY <1>1, <1>5, FS_Subset
  <2>2. Cardinality(Live(i)) \in Nat
    BY <2>1, FS_CardinalityType
  <2> QED BY <1>4, <2>2
<1>7. \E d \in Live(i) : d # c
  BY <1>1, <1>5, <1>6, AnotherOne
<1> QED BY <1>1, <1>5, <1>7
-----------------------------------------------------------------------------
(* What is known of a record, as files and rows are written.               *)

LEMMA WrittenFile ==
    ASSUME NEW record \in Records
    PROVE  /\ Written(record) <=> FileOf(record) # None
           /\ Written(record)' <=> FileOf(record)' # None
<1>1. \A c \in Captures : Born[c] # None
  BY BornAssumption, NoneAssumption
<1>2. /\ \A c \in Captures : record = Capture(c) => (Written(record) <=> c \in captureFiles)
      /\ \A i \in Ideas : record = Idea(i) => (Written(record) <=> ideaFiles[i] # None)
      /\ \A e \in EventIds : record = Decision(e) => (Written(record) <=> eventFiles[e] # None)
  BY RecordsApart DEF Written, Capture, Idea, Decision
<1>3. /\ \A c \in Captures : record = Capture(c) => (Written(record)' <=> c \in captureFiles')
      /\ \A i \in Ideas : record = Idea(i) => (Written(record)' <=> ideaFiles'[i] # None)
      /\ \A e \in EventIds : record = Decision(e) => (Written(record)' <=> eventFiles'[e] # None)
  BY RecordsApart DEF Written, Capture, Idea, Decision
<1>4. Written(record) <=> FileOf(record) # None
  BY <1>1, <1>2, RecordKinds, FilesOf
<1>5. Written(record)' <=> FileOf(record)' # None
  BY <1>1, <1>3, RecordKinds, FilesOf
<1> QED BY <1>4, <1>5

Decisions == {Decision(e) : e \in EventIds}

\* The file a request writes: one that is new, or as it was.
PutsIn(r, record) ==
    /\ Target(task[r]) = {record} /\ FilesBut(record) /\ Notice(record)
    /\ FileOf(record)' # None /\ (FileOf(record)' = FileOf(record) \/ ~Known(record))
    /\ New(task[r].ask) \subseteq {record}
    /\ record \notin Decisions => record \in minted \cup New(task[r].ask)

LEMMA PutsOne ==
    ASSUME InboxTypeOK, RecordsFit, NEW r \in Clients, RequestFits(task[r]), Put(r)
    PROVE  \E record \in Records : PutsIn(r, record)
<1>1. task[r].at = "put" /\ task[r] \in Hands /\ HandFits(task[r]) /\ task[r].ask \in Asks
  BY DEF InboxTypeOK, Put, HandFits
<1>2. PICK ask : ask = task[r].ask
  OBVIOUS
<1>3. New(ask) \cap minted = {} /\ \A record \in Named(ask) : Written(record)
  BY <1>1, <1>2 DEF RequestFits
<1>4. CASE ask.kind \in {"create_capture", "patch_capture"}
  <2>1. PICK c \in Captures : ask.captures = {c}
    BY <1>1, <1>2, <1>4, OneCapture
  <2>2. PICK record \in Records : record = Capture(c)
    BY DEF Records
  <2>3. captureFiles' = captureFiles \cup {c} /\ Notice(record) /\ UNCHANGED <<ideaFiles, eventFiles>>
    BY <1>2, <1>4, <2>1, <2>2 DEF Put, PutCapture
  <2>4. FilesBut(record) /\ FileOf(record)' = Born[c] /\ (c \in captureFiles => FileOf(record) = Born[c])
    BY <2>2, <2>3, CaptureFile, FilesOf
  <2>5. Born[c] # None /\ record \notin Decisions /\ Target(task[r]) = {record}
    BY <1>2, <1>4, <2>1, <2>2, BornAssumption, NoneAssumption DEF Target, Decisions, Capture, Decision
  <2>6. CASE ask.kind = "create_capture"
    <3>1. New(ask) = {record}
      BY <2>1, <2>2, <2>6 DEF New
    <3>2. ~Known(record)
      BY <1>3, <2>5, <3>1 DEF RecordsFit, Known, Decisions
    <3> QED BY <1>2, <2>3, <2>4, <2>5, <3>1, <3>2 DEF PutsIn
  <2>7. CASE ask.kind = "patch_capture"
    <3>1. New(ask) = {} /\ record \in Named(ask)
      BY <2>1, <2>2, <2>7 DEF New, Named
    <3>2. Written(record) /\ record \in minted
      BY <1>3, <2>5, <3>1 DEF RecordsFit, Decisions
    <3>3. c \in captureFiles
      BY <2>2, <3>2 DEF Written, Capture, Idea, Decision
    <3> QED BY <1>2, <2>3, <2>4, <2>5, <3>1, <3>2, <3>3 DEF PutsIn
  <2> QED BY <1>4, <2>6, <2>7
<1>5. CASE ask.kind \in {"create_idea", "patch_idea"}
  <2>1. PICK i \in Ideas : i = ask.idea
    BY <1>1, <1>2, <1>5, AskShape
  <2>2. PICK record \in Records : record = Idea(i)
    BY DEF Records
  <2>3. PICK seeds : seeds = IF ask.kind = "create_idea" THEN ask.captures ELSE task[r].seeds
    OBVIOUS
  <2>4. ideaFiles' = [ideaFiles EXCEPT ![i] = seeds] /\ Notice(record) /\ UNCHANGED <<captureFiles, eventFiles>>
    BY <1>2, <1>5, <2>1, <2>2, <2>3 DEF Put, PutIdea
  <2>5. FilesBut(record) /\ FileOf(record)' = seeds /\ FileOf(record) = ideaFiles[i]
    BY <2>2, <2>4, IdeaFile, FilesOf DEF InboxTypeOK
  <2>6. record \notin Decisions /\ Target(task[r]) = {record}
    BY <1>2, <1>5, <2>1, <2>2 DEF Target, Decisions, Idea, Decision
  <2>7. CASE ask.kind = "create_idea"
    <3>1. New(ask) = {record}
      BY <2>1, <2>2, <2>7 DEF New
    <3>2. ~Known(record)
      BY <1>3, <2>6, <3>1 DEF RecordsFit, Known, Decisions
    <3>3. seeds # None
      BY <1>1, <1>2, <2>3, <2>7, AskShape, NoneAssumption DEF Seeds
    <3> QED BY <1>2, <2>4, <2>5, <2>6, <3>1, <3>2, <3>3 DEF PutsIn
  <2>8. CASE ask.kind = "patch_idea"
    <3>1. New(ask) = {} /\ record \in Named(ask)
      BY <2>1, <2>2, <2>8, NoneAssumption DEF New, Named
    <3>2. Written(record) /\ record \in minted
      BY <1>3, <2>6, <3>1 DEF RecordsFit, Decisions
    <3>3. seeds = ideaFiles[i]
      BY <1>1, <1>2, <2>1, <2>3, <2>8 DEF RequestFits
    <3>4. seeds # None
      BY <2>5, <3>2, <3>3, WrittenFile
    <3> QED BY <1>2, <2>4, <2>5, <2>6, <3>1, <3>2, <3>3, <3>4 DEF PutsIn
  <2> QED BY <1>5, <2>7, <2>8
<1>6. CASE ask.kind \notin {"create_capture", "patch_capture", "create_idea", "patch_idea"}
  <2>1. IsDecision(ask) /\ ask # None
    BY <1>1, <1>2, <1>6, AskShape, NoEventAssumption DEF IsDecision
  <2>2. PICK e \in EventIds : e = task[r].id
    BY <1>1, <1>2, <2>1 DEF HandFits, Hands
  <2>3. PICK record \in Records : record = Decision(e)
    BY DEF Records
  <2>4. eventFiles' = [eventFiles EXCEPT ![e] = ask] /\ Notice(record) /\ UNCHANGED <<captureFiles, ideaFiles>>
    BY <1>2, <1>6, <2>2, <2>3 DEF Put, PutEvent
  <2>5. FilesBut(record) /\ FileOf(record)' = ask /\ FileOf(record) = eventFiles[e]
    BY <2>3, <2>4, EventFile, FilesOf DEF InboxTypeOK
  <2>6. eventFiles[e] = None
    <3>1. eventFiles[e] # None => e < e
      BY <1>1, <1>2, <2>1, <2>2 DEF RequestFits
    <3> QED BY <3>1, InstantAssumption
  <2>7. ~Known(record)
    BY <2>3, <2>5, <2>6, WrittenFile DEF Known, RecordsFit
  <2>8. Target(task[r]) = {record} /\ New(ask) = {} /\ record \in Decisions
    BY <1>2, <1>6, <2>2, <2>3 DEF Target, New, Decisions
  <2> QED BY <1>2, <2>1, <2>4, <2>5, <2>7, <2>8 DEF PutsIn
<1> QED BY <1>4, <1>5, <1>6

\* RecordsFit, of one record.
RecordFits(record) ==
    /\ Written(record) /\ record \notin Decisions => record \in minted
    /\ RowOf(record) # None \/ record \in dirty \/ InHand(record) => Known(record)
    /\ InHand(record) /\ (Written(record) \/ phase = "starting") => reading.found = FileOf(record)

LEMMA RecordsFitOne ==
    /\ RecordsFit <=> /\ \A e \in EventIds : Decision(e) \notin minted
                      /\ \A i \in Ideas : Idea(i) \in minted => ideaFiles[i] # None
                      /\ \A record \in Records : RecordFits(record)
    /\ RecordsFit' <=> /\ \A e \in EventIds : Decision(e) \notin minted'
                       /\ \A i \in Ideas : Idea(i) \in minted' => ideaFiles'[i] # None
                       /\ \A record \in Records : RecordFits(record)'
BY DEF RecordsFit, RecordFits, Decisions

\* What nobody writes, and no watcher picks up, fits as before.
LEMMA RecordStays ==
    ASSUME NEW record \in Records, RecordFits(record), FileOf(record)' = FileOf(record),
           record \in minted => record \in minted', record \in minted' => record \in minted \/ ~Written(record),
           RowOf(record)' # None => Known(record), record \in dirty' => Known(record),
           reading' \in {reading, None}, phase' = "starting" => phase = "starting" \/ reading' = None
    PROVE  RecordFits(record)'
<1>1. Written(record)' <=> Written(record)
  BY WrittenFile
<1>2. Known(record) => Known(record)'
  BY <1>1 DEF Known
<1>3. InHand(record)' => InHand(record) /\ reading'.found = reading.found /\ reading' # None
  BY DEF InHand
<1>4. RowOf(record)' # None \/ record \in dirty' \/ InHand(record)' => Known(record)'
  BY <1>2, <1>3 DEF RecordFits
<1>5. InHand(record)' /\ (Written(record)' \/ phase' = "starting") => reading'.found = FileOf(record)'
  BY <1>1, <1>3 DEF RecordFits
<1> QED BY <1>1, <1>4, <1>5 DEF RecordFits

LEMMA RecordsQuiet ==
    ASSUME RecordsFit, UNCHANGED <<mirrors, files, minted>>, dirty' \subseteq dirty,
           reading' \in {reading, None}, phase' = "starting" => phase = "starting" \/ reading' = None
    PROVE  RecordsFit'
<1>1. \A e \in EventIds : Decision(e) \notin minted'
  BY DEF RecordsFit
<1>2. \A i \in Ideas : Idea(i) \in minted' => ideaFiles'[i] # None
  BY DEF RecordsFit, files
<1>3. ASSUME NEW record \in Records PROVE RecordFits(record)'
  <2>1. FileOf(record)' = FileOf(record) /\ RowOf(record)' = RowOf(record)
    BY SameFiles, SameRows
  <2>2. RecordFits(record)
    BY RecordsFitOne
  <2>3. (RowOf(record)' # None => Known(record)) /\ (record \in dirty' => Known(record))
    BY <2>1, <2>2 DEF RecordFits
  <2> QED BY <2>1, <2>2, <2>3, RecordStays
<1> QED BY <1>1, <1>2, <1>3, RecordsFitOne

LEMMA RecordsRow ==
    ASSUME RecordsFit, UNCHANGED <<files, minted, dirty, phase>>, reading' \in {reading, None},
           NEW written \in Records, RowsBut(written), RowOf(written)' # None => Known(written)
    PROVE  RecordsFit'
<1>1. \A e \in EventIds : Decision(e) \notin minted'
  BY DEF RecordsFit
<1>2. \A i \in Ideas : Idea(i) \in minted' => ideaFiles'[i] # None
  BY DEF RecordsFit, files
<1>3. ASSUME NEW record \in Records PROVE RecordFits(record)'
  <2>1. FileOf(record)' = FileOf(record)
    BY SameFiles
  <2>2. RecordFits(record)
    BY RecordsFitOne
  <2>3. (RowOf(record)' # None => Known(record)) /\ (record \in dirty' => Known(record))
    BY <2>2 DEF RecordFits, RowsBut
  <2> QED BY <2>1, <2>2, <2>3, RecordStays
<1> QED BY <1>1, <1>2, <1>3, RecordsFitOne

LEMMA RecordsPut ==
    ASSUME InboxTypeOK, RecordsFit, IndexFits, NEW r \in Clients, NEW written \in Records, PutsIn(r, written), Put(r)
    PROVE  RecordsFit'
<1>1. task[r].at = "put" /\ task[r].ask \in Asks
  BY DEF InboxTypeOK, Put, HandFits
<1>2. UNCHANGED <<mirrors, phase, reading>> /\ minted' = minted \cup New(task[r].ask)
  BY DEF Put, tables, mirrors
<1>3. \A e \in EventIds : Decision(e) \notin minted'
  BY <1>1, <1>2 DEF RecordsFit, New, Capture, Idea, Decision
<1>4. \A record \in Records : RowOf(record)' = RowOf(record)
  BY <1>2, SameRows
<1>5. phase = "up"
  BY <1>1 DEF IndexFits, Idle
<1>6. ASSUME NEW record \in Records, record # written PROVE RecordFits(record)'
  <2>1. FileOf(record)' = FileOf(record) /\ RecordFits(record)
    BY <1>6, RecordsFitOne DEF PutsIn, FilesBut
  <2>2. record \in minted' <=> record \in minted
    BY <1>2, <1>6 DEF PutsIn
  <2>3. record \in dirty' => record \in dirty
    BY <1>6 DEF PutsIn, Notice
  <2>4. (RowOf(record)' # None => Known(record)) /\ (record \in dirty' => Known(record))
    BY <1>4, <2>1, <2>3 DEF RecordFits
  <2> QED BY <1>2, <1>5, <2>1, <2>2, <2>4, RecordStays
<1>7. RecordFits(written)'
  <2>1. Written(written)' /\ RecordFits(written)
    BY WrittenFile, RecordsFitOne DEF PutsIn
  <2>2. written \notin Decisions => written \in minted'
    BY <1>2 DEF PutsIn
  <2>3. InHand(written)' => reading'.found = FileOf(written)'
    <3>1. ASSUME InHand(written)' PROVE reading'.found = FileOf(written)'
      <4>1. InHand(written) /\ reading'.found = reading.found
        BY <1>2, <3>1 DEF InHand
      <4>2. Known(written)
        BY <2>1, <4>1 DEF RecordFits
      <4>3. FileOf(written)' = FileOf(written)
        BY <4>2 DEF PutsIn
      <4>4. Written(written)
        BY <2>1, <4>3, WrittenFile
      <4> QED BY <2>1, <4>1, <4>3, <4>4 DEF RecordFits
    <3> QED BY <3>1
  <2> QED BY <2>1, <2>2, <2>3 DEF RecordFits, Known
<1>8. ASSUME NEW i \in Ideas, Idea(i) \in minted' PROVE ideaFiles'[i] # None
  <2>1. Idea(i) \in Records
    BY DEF Records
  <2>2. CASE Idea(i) = written
    BY <2>1, <2>2, FilesOf DEF PutsIn
  <2>3. CASE Idea(i) # written
    <3>1. Idea(i) \in minted
      BY <1>2, <1>8, <2>3 DEF PutsIn
    <3>2. ideaFiles'[i] = ideaFiles[i]
      BY <2>1, <2>3, FilesOf DEF PutsIn, FilesBut
    <3> QED BY <3>1, <3>2 DEF RecordsFit
  <2> QED BY <2>2, <2>3
<1> QED BY <1>3, <1>6, <1>7, <1>8, RecordsFitOne

LEMMA EntersOne ==
    ASSUME InboxTypeOK, NEW r \in Clients, RequestFits(task[r]), Enter(r)
    PROVE  \E record \in Records : /\ Target(task[r]) = {record} /\ RowsBut(record)
                                   /\ RowOf(record)' = FileOf(record) /\ Written(record)
<1>1. /\ task[r] \in Hands /\ HandFits(task[r]) /\ task[r].at = "index"
      /\ task[r].ask \in Asks /\ TablesTypeOK
  BY DEF InboxTypeOK, Enter, HandFits
<1>2. PICK ask : ask = task[r].ask
  OBVIOUS
<1>3. CASE ask.kind \in {"create_capture", "patch_capture"}
  <2>1. PICK c \in Captures : ask.captures = {c}
    BY <1>1, <1>2, <1>3, OneCapture
  <2>2. UpsertCapture(c, Born[c]) /\ Capture(c) \in Records
    BY <1>1, <1>2, <1>3, <2>1 DEF Enter, EnterCapture, Records
  <2>3. RowsBut(Capture(c)) /\ RowOf(Capture(c))' = Born[c]
    BY <1>1, <2>2, CaptureRow DEF UpsertCapture
  <2>4. c \in captureFiles
    BY <1>1, <1>2, <1>3, <2>1 DEF RequestFits
  <2>5. FileOf(Capture(c)) = Born[c] /\ Written(Capture(c))
    BY <2>4, FilesOf DEF Written
  <2>6. Target(task[r]) = {Capture(c)}
    BY <1>2, <1>3, <2>1 DEF Target
  <2> QED BY <2>2, <2>3, <2>5, <2>6
<1>4. CASE ask.kind \in {"create_idea", "patch_idea"}
  <2>0. PICK seeds : seeds = task[r].seeds
    OBVIOUS
  <2>1. PICK i \in Ideas : i = ask.idea /\ seeds = task[r].seeds
    BY <1>1, <1>2, <1>4, <2>0, AskShape
  <2>2. UpsertIdea(i, seeds) /\ Idea(i) \in Records
    BY <1>1, <1>2, <1>4, <2>1 DEF Enter, EnterIdea, Records
  <2>3. RowsBut(Idea(i)) /\ RowOf(Idea(i))' = seeds
    BY <1>1, <2>2, IdeaRow DEF UpsertIdea
  <2>4. seeds = ideaFiles[i] /\ seeds # None
    BY <1>1, <1>2, <1>4, <2>1 DEF RequestFits, HandFits
  <2>5. FileOf(Idea(i)) = seeds /\ Written(Idea(i))
    BY <2>4, FilesOf DEF Written
  <2>6. Target(task[r]) = {Idea(i)}
    BY <1>2, <1>4, <2>1 DEF Target
  <2> QED BY <2>2, <2>3, <2>5, <2>6
<1>5. CASE ask.kind \notin {"create_capture", "patch_capture", "create_idea", "patch_idea"}
  <2>1. IsDecision(ask) /\ ask # None
    BY <1>1, <1>2, <1>5, AskShape, NoEventAssumption DEF IsDecision
  <2>2. PICK e \in EventIds : e = task[r].id
    BY <1>1, <1>2, <2>1 DEF HandFits, Hands
  <2>3. UpsertEvent(e, ask) /\ Decision(e) \in Records
    BY <1>1, <1>2, <1>5, <2>2 DEF Enter, EnterEvent, Records
  <2>4. RowsBut(Decision(e)) /\ RowOf(Decision(e))' = ask
    BY <1>1, <2>3, EventRow DEF UpsertEvent
  <2>5. eventFiles[e] = ask
    BY <1>1, <1>2, <1>5, <2>2 DEF RequestFits
  <2>6. FileOf(Decision(e)) = ask /\ Written(Decision(e))
    BY <2>1, <2>5, FilesOf DEF Written
  <2>7. Target(task[r]) = {Decision(e)}
    BY <1>2, <1>5, <2>2 DEF Target
  <2> QED BY <2>3, <2>4, <2>6, <2>7
<1> QED BY <1>3, <1>4, <1>5

LEMMA DropsOne ==
    ASSUME InboxTypeOK, NEW r \in Clients, Drop(r)
    PROVE  \E c \in Captures : task[r].ask.captures = {c} /\ RowsBut(Capture(c)) /\ RowOf(Capture(c))' = None
<1>1. task[r].at = "drop" /\ HandFits(task[r]) /\ task[r].ask \in Asks /\ task[r].ask.kind = "capture_deleted"
  BY DEF InboxTypeOK, Drop, HandFits
<1>2. PICK c \in Captures : task[r].ask.captures = {c}
  BY <1>1, OneCapture
<1>3. RemoveCapture(c)
  BY <1>2 DEF Drop
<1>4. RowsBut(Capture(c)) /\ RowOf(Capture(c))' = None
  BY <1>3, CaptureRow DEF RemoveCapture, InboxTypeOK
<1> QED BY <1>2, <1>4

LEMMA UnlinksOne ==
    ASSUME InboxTypeOK, NEW r \in Clients, Unlink(r)
    PROVE  /\ task[r].at = "unlink" /\ task[r].ask.kind = "capture_deleted"
           /\ UNCHANGED <<mirrors, ideaFiles, eventFiles, minted, phase, reading>>
           /\ \E c \in Captures :
                 /\ task[r].ask.captures = {c} /\ FilesBut(Capture(c)) /\ c \notin captureFiles'
                 /\ captureFiles' = captureFiles \ {c}
                 /\ \/ c \in captureFiles /\ Notice(Capture(c)) /\ Go(r, "drop")
                    \/ UNCHANGED <<captureFiles, dirty>> /\ Stop(r)
<1>1. /\ task[r].at = "unlink" /\ HandFits(task[r]) /\ task[r].ask \in Asks /\ task[r].ask.kind = "capture_deleted"
      /\ UNCHANGED <<mirrors, ideaFiles, eventFiles, minted, phase, reading>>
  BY DEF InboxTypeOK, Unlink, HandFits, tables, mirrors
<1>2. PICK c \in Captures : task[r].ask.captures = {c}
  BY <1>1, OneCapture
<1>3. \/ c \in captureFiles /\ captureFiles' = captureFiles \ {c} /\ Notice(Capture(c)) /\ Go(r, "drop")
      \/ c \notin captureFiles /\ UNCHANGED <<captureFiles, dirty>> /\ Stop(r)
  BY <1>2 DEF Unlink
<1>4. captureFiles' = captureFiles \ {c} /\ c \notin captureFiles'
  BY <1>3
<1>5. FilesBut(Capture(c))
  BY <1>1, <1>4, CaptureFile
<1> QED BY <1>1, <1>2, <1>3, <1>4, <1>5

LEMMA RecordsUnlink ==
    ASSUME InboxTypeOK, RecordsFit, IndexFits, NEW r \in Clients, Unlink(r)
    PROVE  RecordsFit'
<1>1. PICK c \in Captures : /\ FilesBut(Capture(c)) /\ c \notin captureFiles'
                            /\ captureFiles' = captureFiles \ {c}
                            /\ (c \in captureFiles /\ Notice(Capture(c))) \/ dirty' = dirty
  BY UnlinksOne
<1>2. UNCHANGED <<mirrors, ideaFiles, eventFiles, minted, phase, reading>> /\ phase = "up"
  BY UnlinksOne DEF IndexFits, Idle
<1>3. PICK written \in Records : written = Capture(c)
  BY DEF Records
<1>4. c \in captureFiles => written \in minted
  BY <1>3 DEF RecordsFit, Written, Capture, Decision
<1>5. CASE written \in minted
  <2>1. ASSUME NEW record \in Records, record # written PROVE RecordFits(record)'
    <3>1. FileOf(record)' = FileOf(record) /\ RecordFits(record) /\ RowOf(record)' = RowOf(record)
      BY <1>1, <1>2, <1>3, <2>1, RecordsFitOne, SameRows DEF FilesBut
    <3>2. record \in dirty' => record \in dirty
      BY <1>1, <1>3, <2>1 DEF Notice
    <3>3. (RowOf(record)' # None => Known(record)) /\ (record \in dirty' => Known(record))
      BY <3>1, <3>2 DEF RecordFits
    <3> QED BY <1>2, <3>1, <3>3, RecordStays
  <2>2. RecordFits(written)'
    <3>1. ~Written(written)'
      BY <1>1, <1>3, FilesOf, WrittenFile
    <3>2. Known(written)' /\ phase' # "starting"
      BY <1>2, <1>5 DEF Known
    <3> QED BY <3>1, <3>2 DEF RecordFits
  <2> QED BY <1>2, <2>1, <2>2, RecordsFitOne DEF RecordsFit
<1>6. CASE written \notin minted
  <2>1. UNCHANGED files /\ dirty' = dirty
    BY <1>1, <1>2, <1>4, <1>6 DEF files
  <2> QED BY <1>2, <2>1, RecordsQuiet
<1> QED BY <1>5, <1>6

LEMMA RecordsRead ==
    ASSUME InboxTypeOK, RecordsFit, Read
    PROVE  RecordsFit'
<1>1. PICK found \in dirty : /\ reading' = [record |-> found, found |-> FileOf(found)]
                             /\ dirty' = dirty \ {found}
  BY DEF Read
<1>2. UNCHANGED <<mirrors, files, minted, phase>> /\ found \in Records
  BY <1>1 DEF Read, tables, mirrors, InboxTypeOK
<1>3. ASSUME NEW record \in Records PROVE RecordFits(record)'
  <2>1. FileOf(record)' = FileOf(record) /\ RowOf(record)' = RowOf(record) /\ RecordFits(record)
    BY <1>2, SameFiles, SameRows, RecordsFitOne
  <2>2. (Written(record)' <=> Written(record)) /\ (Known(record)' <=> Known(record))
    BY <1>2, <2>1, WrittenFile DEF Known
  <2>3. InHand(record)' => record = found /\ reading'.found = FileOf(record)
    BY <1>1 DEF InHand
  <2> QED BY <1>1, <1>2, <2>1, <2>2, <2>3 DEF RecordFits
<1> QED BY <1>2, <1>3, RecordsFitOne DEF RecordsFit, files

LEMMA RecordsStart ==
    ASSUME RecordsFit, IndexFits, Start
    PROVE  RecordsFit'
<1>1. UNCHANGED <<mirrors, files, minted, reading>> /\ reading = None /\ dirty' = Stale
  BY DEF Start, tables, mirrors, IndexFits
<1>2. ASSUME NEW record \in Records PROVE RecordFits(record)'
  <2>1. FileOf(record)' = FileOf(record) /\ RowOf(record)' = RowOf(record) /\ RecordFits(record)
    BY <1>1, SameFiles, SameRows, RecordsFitOne
  <2>2. record \in dirty' => Known(record)
    <3>1. record \in dirty' => RowOf(record) # FileOf(record)
      BY <1>1 DEF Stale
    <3> QED BY <2>1, <3>1, WrittenFile DEF RecordFits, Known
  <2>3. RowOf(record)' # None => Known(record)
    BY <2>1 DEF RecordFits
  <2> QED BY <1>1, <2>1, <2>2, <2>3, RecordStays
<1> QED BY <1>1, <1>2, RecordsFitOne DEF RecordsFit, files

LEMMA RecordsLost ==
    ASSUME RecordsFit, LoseIndex
    PROVE  RecordsFit'
<1>1. UNCHANGED <<files, minted, phase, dirty, reading>>
  BY DEF LoseIndex
<1>2. ASSUME NEW record \in Records PROVE RecordFits(record)'
  <2>1. FileOf(record)' = FileOf(record) /\ RecordFits(record)
    BY <1>1, SameFiles, RecordsFitOne
  <2>2. RowOf(record)' = None
    BY RecordKinds, RowsOf DEF LoseIndex, Clear
  <2>3. record \in dirty' => Known(record)
    BY <1>1, <2>1 DEF RecordFits
  <2> QED BY <1>1, <2>1, <2>2, <2>3, RecordStays
<1> QED BY <1>1, <1>2, RecordsFitOne DEF RecordsFit, files

Requests == \A r \in Clients : RequestFits(task[r])

LEMMA RecordsStep ==
    ASSUME InboxTypeOK, RecordsFit, IndexFits, Requests, edits = 0, failures = 0, OneRequest, [InboxNext]_vars
    PROVE  RecordsFit'
<1>1. ASSUME NEW r \in Clients, \/ \E ask \in Asks : Ask(r, ask)
                                \/ Check(r) \/ Refer(r)
      PROVE  RecordsFit'
  <2>1. UNCHANGED <<mirrors, files, minted, dirty, reading, phase>>
    BY <1>1 DEF Ask, Check, Refer, tables, mirrors
  <2> QED BY <2>1, RecordsQuiet
<1>2. ASSUME NEW r \in Clients, Put(r) PROVE RecordsFit'
  BY <1>2, PutsOne, RecordsPut DEF Requests
<1>3. ASSUME NEW r \in Clients, Enter(r) PROVE RecordsFit'
  <2>1. UNCHANGED <<files, minted, dirty, phase, reading>>
    BY <1>3 DEF Enter
  <2>2. PICK record \in Records : RowsBut(record) /\ Written(record)
    BY <1>3, EntersOne DEF Requests
  <2> QED BY <2>1, <2>2, RecordsRow DEF Known
<1>4. ASSUME NEW r \in Clients, Unlink(r) PROVE RecordsFit'
  BY <1>4, RecordsUnlink
<1>5. ASSUME NEW r \in Clients, Drop(r) PROVE RecordsFit'
  <2>1. UNCHANGED <<files, minted, dirty, phase, reading>>
    BY <1>5 DEF Drop
  <2>2. PICK c \in Captures : RowsBut(Capture(c)) /\ RowOf(Capture(c))' = None
    BY <1>5, DropsOne
  <2>3. PICK record \in Records : record = Capture(c)
    BY DEF Records
  <2> QED BY <2>1, <2>2, <2>3, RecordsRow
<1>6. CASE Read
  BY <1>6, RecordsRead
<1>7. CASE Reindex
  <2>1. UNCHANGED <<files, minted, dirty, phase>> /\ reading' = None
    BY <1>7 DEF Reindex
  <2>2. PICK record \in Records : RowsBut(record) /\ InHand(record)
    BY <1>7, ReindexRow
  <2>3. Known(record)
    BY <2>2 DEF RecordsFit
  <2> QED BY <2>1, <2>2, <2>3, RecordsRow
<1>8. CASE Start
  BY <1>8, RecordsStart
<1>9. CASE Serve
  <2>1. UNCHANGED <<mirrors, files, minted, dirty, reading>> /\ phase' = "up"
    BY <1>9 DEF Serve, tables, mirrors
  <2> QED BY <2>1, RecordsQuiet
<1>10. CASE Crash
  <2>1. UNCHANGED <<mirrors, files, minted>> /\ dirty' = {} /\ reading' = None
    BY <1>10 DEF Crash, tables, mirrors
  <2> QED BY <2>1, RecordsQuiet
<1>11. CASE LoseIndex
  BY <1>11, RecordsLost
<1>12. ~Edit /\ \A r \in Clients : ~Fail(r)
  BY DEF Edit, Fail, OneRequest
<1>13. CASE UNCHANGED vars
  <2>1. UNCHANGED <<mirrors, files, minted, dirty, reading, phase>>
    BY <1>13 DEF vars, mirrors, files
  <2> QED BY <2>1, RecordsQuiet
<1> QED BY <1>1, <1>2, <1>3, <1>4, <1>5, <1>6, <1>7, <1>8, <1>9, <1>10, <1>11, <1>12, <1>13 DEF InboxNext

-----------------------------------------------------------------------------
(* The index follows the files.                                            *)

EnteringBy(hand, record) ==
    \/ hand.at = "index" /\ record \in Target(hand)
    \/ hand.at = "drop" /\ record \in {Capture(c) : c \in hand.ask.captures}

LEMMA OneEnters ==
    ASSUME OneRequest, NEW r \in Clients, NEW record
    PROVE  (Entering(record) <=> EnteringBy(task[r], record)) /\ (Entering(record)' <=> EnteringBy(task'[r], record))
<1>1. \A q \in Clients : q = r
  BY DEF OneRequest
<1> QED BY <1>1 DEF Entering, EnteringBy

\* IndexFits while requests are served, of one record.
Served(record) ==
    /\ Written(record) => RowOf(record) = FileOf(record) \/ Entering(record)
    /\ ~Watched => RowOf(record) = FileOf(record) \/ Entering(record)

LEMMA ServedAll ==
    ASSUME phase' = "up", ~Watched => reading' = None /\ dirty' = {},
           \A record \in Records : Served(record)'
    PROVE  IndexFits'
BY DEF IndexFits, Served

LEMMA AllServed ==
    ASSUME IndexFits, phase = "up"
    PROVE  /\ ~Watched => reading = None /\ dirty = {}
           /\ \A record \in Records : Served(record)
BY DEF IndexFits, Served

\* With nobody entering anything, rows are as the files.
LEMMA IndexQuiet ==
    ASSUME InboxTypeOK, IndexFits, OneRequest, NEW r \in Clients,
           \/ \E ask \in Asks : Ask(r, ask)
           \/ Check(r) \/ Refer(r)
    PROVE  IndexFits'
<1>1. UNCHANGED <<mirrors, files, dirty, reading, phase>>
  BY DEF Ask, Check, Refer, tables, mirrors
<1>2. phase = "up" /\ task[r].at \notin {"index", "drop"}
  <2>1. \/ phase = "up" /\ task[r] = Idle
        \/ task[r].at \in {"check", "refer"}
    BY DEF Ask, Check, Refer
  <2>2. Idle.at = "idle" /\ (phase # "up" => task[r] = Idle)
    BY DEF IndexFits, Idle
  <2> QED BY <2>1, <2>2
<1>3. ASSUME NEW record \in Records PROVE Served(record)'
  <2>1. ~Entering(record)
    BY <1>2, OneEnters DEF EnteringBy
  <2>2. FileOf(record)' = FileOf(record) /\ RowOf(record)' = RowOf(record) /\ Served(record)
    BY <1>1, <1>2, SameFiles, SameRows, AllServed
  <2> QED BY <2>1, <2>2, WrittenFile DEF Served
<1> QED BY <1>1, <1>2, <1>3, ServedAll, AllServed

LEMMA IndexPut ==
    ASSUME InboxTypeOK, RecordsFit, IndexFits, Requests, OneRequest, NEW r \in Clients, Put(r)
    PROVE  IndexFits'
<1>1. PICK written \in Records : PutsIn(r, written)
  BY PutsOne DEF Requests
<1>2. task[r].at = "put" /\ task[r] \in Hands /\ UNCHANGED <<mirrors, phase, reading>>
  BY DEF Put, InboxTypeOK, tables, mirrors
<1>3. phase = "up"
  BY <1>2 DEF IndexFits, Idle
<1>4. task'[r].at = "index" /\ task'[r].ask = task[r].ask /\ task'[r].id = task[r].id
  BY <1>2 DEF Put, Hands, InboxTypeOK
<1>5. Target(task'[r]) = {written}
  BY <1>1, <1>4 DEF PutsIn, Target
<1>6. ASSUME NEW record \in Records PROVE Served(record)'
  <2>1. CASE record = written
    <3>1. Entering(record)'
      BY <1>4, <1>5, <2>1, OneEnters DEF EnteringBy
    <3> QED BY <3>1 DEF Served
  <2>2. CASE record # written
    <3>1. ~Entering(record)
      BY <1>2, OneEnters DEF EnteringBy
    <3>2. FileOf(record)' = FileOf(record) /\ RowOf(record)' = RowOf(record) /\ Served(record)
      BY <1>1, <1>2, <1>3, <2>2, SameRows, AllServed DEF PutsIn, FilesBut
    <3> QED BY <3>1, <3>2, WrittenFile DEF Served
  <2> QED BY <2>1, <2>2
<1>7. ~Watched => reading' = None /\ dirty' = {}
  BY <1>1, <1>2, <1>3, AllServed DEF PutsIn, Notice
<1> QED BY <1>2, <1>3, <1>6, <1>7, ServedAll

LEMMA IndexEnter ==
    ASSUME InboxTypeOK, IndexFits, Requests, OneRequest, NEW r \in Clients, Enter(r)
    PROVE  IndexFits'
<1>1. PICK entered \in Records : /\ Target(task[r]) = {entered} /\ RowsBut(entered)
                                 /\ RowOf(entered)' = FileOf(entered)
  BY EntersOne DEF Requests
<1>2. task[r].at = "index" /\ UNCHANGED <<files, phase, reading, dirty>>
  BY DEF Enter
<1>3. phase = "up"
  BY <1>2 DEF IndexFits, Idle
<1>4. ASSUME NEW record \in Records PROVE Served(record)'
  <2>1. FileOf(record)' = FileOf(record) /\ Served(record)
    BY <1>2, <1>3, SameFiles, AllServed
  <2>2. CASE record = entered
    BY <1>1, <2>1, <2>2 DEF Served
  <2>3. CASE record # entered
    <3>1. ~Entering(record)
      BY <1>1, <1>2, <2>3, OneEnters DEF EnteringBy
    <3>2. RowOf(record)' = RowOf(record)
      BY <1>1, <2>3 DEF RowsBut
    <3> QED BY <2>1, <3>1, <3>2, WrittenFile DEF Served
  <2> QED BY <2>2, <2>3
<1> QED BY <1>2, <1>3, <1>4, ServedAll, AllServed

LEMMA IndexUnlink ==
    ASSUME InboxTypeOK, IndexFits, OneRequest, NEW r \in Clients, Unlink(r)
    PROVE  IndexFits'
<1>1. PICK c \in Captures :
          /\ task[r].ask.captures = {c} /\ FilesBut(Capture(c)) /\ c \notin captureFiles'
          /\ \/ Notice(Capture(c)) /\ Go(r, "drop")
             \/ UNCHANGED <<captureFiles, dirty>>
  BY UnlinksOne
<1>2. task[r].at = "unlink" /\ task[r] \in Hands /\ UNCHANGED <<mirrors, ideaFiles, eventFiles, phase, reading>>
  BY UnlinksOne DEF InboxTypeOK
<1>3. phase = "up"
  BY <1>2 DEF IndexFits, Idle
<1>4. ASSUME NEW record \in Records PROVE Served(record)'
  <2>1. ~Entering(record) /\ Served(record) /\ RowOf(record)' = RowOf(record)
    BY <1>2, <1>3, OneEnters, AllServed, SameRows DEF EnteringBy
  <2>2. CASE record # Capture(c) \/ UNCHANGED captureFiles
    <3>1. FileOf(record)' = FileOf(record)
      BY <1>1, <1>2, <2>2, SameFiles DEF FilesBut, files
    <3> QED BY <2>1, <3>1, WrittenFile DEF Served
  <2>3. CASE record = Capture(c) /\ Go(r, "drop")
    <3>1. task'[r].at = "drop" /\ task'[r].ask = task[r].ask
      BY <1>2, <2>3 DEF Go, Hands, InboxTypeOK
    <3>2. Entering(record)'
      BY <1>1, <2>3, <3>1, OneEnters DEF EnteringBy
    <3> QED BY <3>2 DEF Served
  <2> QED BY <1>1, <2>2, <2>3
<1>5. ~Watched => reading' = None /\ dirty' = {}
  BY <1>1, <1>2, <1>3, AllServed DEF Notice
<1> QED BY <1>2, <1>3, <1>4, <1>5, ServedAll

LEMMA IndexDrop ==
    ASSUME InboxTypeOK, IndexFits, Requests, OneRequest, NEW r \in Clients, Drop(r)
    PROVE  IndexFits'
<1>1. PICK c \in Captures : task[r].ask.captures = {c} /\ RowsBut(Capture(c)) /\ RowOf(Capture(c))' = None
  BY DropsOne
<1>2. task[r].at = "drop" /\ UNCHANGED <<files, phase, reading, dirty>>
  BY DEF Drop
<1>3. phase = "up" /\ c \notin captureFiles
  BY <1>1, <1>2 DEF IndexFits, Idle, Requests, RequestFits
<1>4. ASSUME NEW record \in Records PROVE Served(record)'
  <2>1. FileOf(record)' = FileOf(record) /\ Served(record)
    BY <1>2, <1>3, SameFiles, AllServed
  <2>2. CASE record = Capture(c)
    <3>1. FileOf(record) = None
      BY <1>3, <2>2, FilesOf
    <3> QED BY <1>1, <2>1, <2>2, <3>1 DEF Served
  <2>3. CASE record # Capture(c)
    <3>1. ~Entering(record)
      BY <1>1, <1>2, <2>3, OneEnters DEF EnteringBy
    <3>2. RowOf(record)' = RowOf(record)
      BY <1>1, <2>3 DEF RowsBut
    <3> QED BY <2>1, <3>1, <3>2, WrittenFile DEF Served
  <2> QED BY <2>2, <2>3
<1> QED BY <1>2, <1>3, <1>4, ServedAll, AllServed

\* The same while the index is scanned.
Scanned(record) == RowOf(record) = FileOf(record) \/ record \in dirty \/ InHand(record)

LEMMA ScannedAll ==
    ASSUME phase' = "starting", \A q \in Clients : task'[q] = Idle, \A record \in Records : Scanned(record)'
    PROVE  IndexFits'
BY DEF IndexFits, Scanned

LEMMA DownFits ==
    ASSUME phase' = "down", \A q \in Clients : task'[q] = Idle, reading' = None, dirty' = {}
    PROVE  IndexFits'
BY DEF IndexFits

LEMMA NobodyEnters == ASSUME \A q \in Clients : task[q] = Idle, NEW record PROVE ~Entering(record)
BY DEF Entering, Idle

\* What has been read is a finding.
LEMMA FindingHeld ==
    ASSUME InboxTypeOK, NEW record \in Records
    PROVE  [record |-> record, found |-> FileOf(record)] # None
<1>1. FileOf(record) \in Moments \cup Seeds \cup Event \cup {None}
  BY RecordKinds, FilesOf, BornAssumption DEF InboxTypeOK
<1> QED BY <1>1, NoFindingAssumption

LEMMA IndexRead ==
    ASSUME InboxTypeOK, IndexFits, Read
    PROVE  IndexFits'
<1>1. PICK found \in dirty : /\ reading' = [record |-> found, found |-> FileOf(found)]
                             /\ dirty' = dirty \ {found}
  BY DEF Read
<1>2. UNCHANGED <<mirrors, files, phase, task>> /\ found \in Records
  BY <1>1 DEF Read, tables, mirrors, InboxTypeOK
<1>3. phase # "down"
  BY <1>1 DEF IndexFits
<1>4. \A record \in Records : FileOf(record)' = FileOf(record) /\ RowOf(record)' = RowOf(record)
  BY <1>2, SameFiles, SameRows
<1>5. CASE phase = "starting"
  <2>1. ASSUME NEW record \in Records PROVE Scanned(record)'
    <3>1. Scanned(record) /\ reading = None
      BY <1>5 DEF IndexFits, Scanned, Read
    <3>2. record = found => InHand(record)'
      BY <1>1, FindingHeld DEF InHand
    <3> QED BY <1>1, <1>4, <3>1, <3>2 DEF Scanned, InHand
  <2> QED BY <1>2, <1>5, <2>1, ScannedAll DEF IndexFits
<1>6. CASE phase = "up"
  <2>1. Watched
    BY <1>1, <1>6 DEF IndexFits
  <2>2. ASSUME NEW record \in Records PROVE Served(record)'
    <3>1. Served(record)
      BY <1>6, AllServed
    <3>2. Entering(record)' <=> Entering(record)
      BY <1>2 DEF Entering
    <3> QED BY <1>4, <2>1, <3>1, <3>2, WrittenFile DEF Served
  <2> QED BY <1>2, <1>6, <2>1, <2>2, ServedAll
<1> QED BY <1>3, <1>5, <1>6 DEF InboxTypeOK

LEMMA IndexReindex ==
    ASSUME InboxTypeOK, RecordsFit, IndexFits, Reindex
    PROVE  IndexFits'
<1>1. PICK entered \in Records : InHand(entered) /\ RowsBut(entered) /\ RowOf(entered)' = reading.found
  BY ReindexRow
<1>2. UNCHANGED <<files, phase, dirty, task>> /\ reading' = None /\ reading # None
  BY DEF Reindex
<1>3. phase # "down"
  BY <1>2 DEF IndexFits
<1>4. \A record \in Records : FileOf(record)' = FileOf(record) /\ (Written(record)' <=> Written(record))
  BY <1>2, SameFiles, WrittenFile
<1>5. CASE phase = "starting"
  <2>1. ASSUME NEW record \in Records PROVE Scanned(record)'
    <3>1. Scanned(record)
      BY <1>5 DEF IndexFits, Scanned
    <3>2. CASE record = entered
      <4>1. reading.found = FileOf(record)
        BY <1>1, <1>5, <3>2 DEF RecordsFit
      <4> QED BY <1>1, <1>4, <3>2, <4>1 DEF Scanned
    <3>3. CASE record # entered
      BY <1>1, <1>2, <1>4, <3>1, <3>3 DEF Scanned, RowsBut, InHand
    <3> QED BY <3>2, <3>3
  <2> QED BY <1>2, <1>5, <2>1, ScannedAll DEF IndexFits
<1>6. CASE phase = "up"
  <2>1. Watched
    BY <1>2, <1>6 DEF IndexFits
  <2>2. ASSUME NEW record \in Records PROVE Served(record)'
    <3>1. Served(record)
      BY <1>6, AllServed
    <3>2. Entering(record)' <=> Entering(record)
      BY <1>2 DEF Entering
    <3>3. CASE record = entered
      <4>1. Written(record) => reading.found = FileOf(record)
        BY <1>1, <3>3 DEF RecordsFit
      <4> QED BY <1>1, <1>4, <2>1, <3>3, <4>1 DEF Served
    <3>4. CASE record # entered
      BY <1>1, <1>4, <2>1, <3>1, <3>2, <3>4 DEF Served, RowsBut
    <3> QED BY <3>3, <3>4
  <2> QED BY <1>2, <1>6, <2>1, <2>2, ServedAll
<1> QED BY <1>3, <1>5, <1>6 DEF InboxTypeOK

LEMMA IndexStart ==
    ASSUME IndexFits, Start
    PROVE  IndexFits'
<1>1. UNCHANGED <<mirrors, files, task>> /\ phase' = "starting" /\ phase = "down" /\ dirty' = Stale
  BY DEF Start, tables, mirrors
<1>2. ASSUME NEW record \in Records PROVE Scanned(record)'
  <2>1. FileOf(record)' = FileOf(record) /\ RowOf(record)' = RowOf(record)
    BY <1>1, SameFiles, SameRows
  <2>2. RowOf(record) = FileOf(record) \/ record \in dirty'
    BY <1>1 DEF Stale
  <2> QED BY <2>1, <2>2 DEF Scanned
<1> QED BY <1>1, <1>2, ScannedAll DEF IndexFits

LEMMA IndexServe ==
    ASSUME IndexFits, Serve
    PROVE  IndexFits'
<1>1. /\ UNCHANGED <<mirrors, files, task, dirty, reading>> /\ phase' = "up" /\ phase = "starting"
      /\ dirty = {} /\ reading = None
  BY DEF Serve, tables, mirrors
<1>2. ASSUME NEW record \in Records PROVE Served(record)'
  <2>1. FileOf(record)' = FileOf(record) /\ RowOf(record)' = RowOf(record)
    BY <1>1, SameFiles, SameRows
  <2>2. RowOf(record) = FileOf(record)
    BY <1>1 DEF IndexFits, InHand
  <2> QED BY <2>1, <2>2 DEF Served
<1> QED BY <1>1, <1>2, ServedAll

LEMMA IndexSame ==
    ASSUME IndexFits, UNCHANGED <<files, phase, dirty, reading, task>>, phase = "down" \/ UNCHANGED mirrors
    PROVE  IndexFits'
<1>1. CASE phase = "down"
  BY <1>1, DownFits DEF IndexFits
<1>2. CASE UNCHANGED mirrors
  <2>1. ASSUME NEW record \in Records
        PROVE  /\ FileOf(record)' = FileOf(record) /\ RowOf(record)' = RowOf(record)
               /\ (Entering(record)' <=> Entering(record)) /\ (InHand(record)' <=> InHand(record))
               /\ (Written(record)' <=> Written(record))
    BY <1>2, SameFiles, SameRows, WrittenFile DEF Entering, InHand
  <2> QED BY <2>1 DEF IndexFits
<1> QED BY <1>1, <1>2

LEMMA IndexStep ==
    ASSUME InboxTypeOK, RecordsFit, IndexFits, Requests, edits = 0, failures = 0, OneRequest, [InboxNext]_vars
    PROVE  IndexFits'
<1>1. ASSUME NEW r \in Clients, \/ \E ask \in Asks : Ask(r, ask)
                                \/ Check(r) \/ Refer(r)
      PROVE  IndexFits'
  BY <1>1, IndexQuiet
<1>2. ASSUME NEW r \in Clients, Put(r) \/ Enter(r) \/ Unlink(r) \/ Drop(r)
      PROVE  IndexFits'
  BY <1>2, IndexPut, IndexEnter, IndexUnlink, IndexDrop
<1>3. CASE Read
  BY <1>3, IndexRead
<1>4. CASE Reindex
  BY <1>4, IndexReindex
<1>5. CASE Start
  BY <1>5, IndexStart
<1>6. CASE Serve
  BY <1>6, IndexServe
<1>7. CASE Crash
  <2>1. phase' = "down" /\ reading' = None /\ dirty' = {} /\ \A q \in Clients : task'[q] = Idle
    BY <1>7 DEF Crash
  <2> QED BY <2>1, DownFits
<1>8. CASE LoseIndex
  <2>1. phase = "down" /\ UNCHANGED <<files, phase, dirty, reading, task>>
    BY <1>8 DEF LoseIndex
  <2> QED BY <2>1, IndexSame
<1>9. CASE UNCHANGED vars
  <2>1. UNCHANGED <<files, phase, dirty, reading, task, mirrors>>
    BY <1>9 DEF vars, files, mirrors
  <2> QED BY <2>1, IndexSame
<1>10. ~Edit /\ \A r \in Clients : ~Fail(r)
  BY DEF Edit, Fail, OneRequest
<1> QED BY <1>1, <1>2, <1>3, <1>4, <1>5, <1>6, <1>7, <1>8, <1>9, <1>10 DEF InboxNext
-----------------------------------------------------------------------------
(* What the files say, as they are written.                                *)

\* The three kinds of file a request adds.
AddsCapture(c) == captureFiles' = captureFiles \cup {c} /\ UNCHANGED <<ideaFiles, eventFiles>>
AddsIdea(i, seeds) ==
    /\ i \in Ideas /\ seeds \in Seeds /\ ideaFiles[i] = None /\ seeds \subseteq captureFiles
    /\ ideaFiles' = [ideaFiles EXCEPT ![i] = seeds] /\ UNCHANGED <<captureFiles, eventFiles>>
AddsEvent(e, ask) ==
    /\ ask \in Event /\ Grown(eventFiles, eventFiles', e, ask) /\ UNCHANGED <<captureFiles, ideaFiles>>
    /\ ask.captures \subseteq captureFiles /\ (ask.idea \in Ideas => ideaFiles[ask.idea] # None)
    /\ Decided(ask)

\* What a request about to write has read of what it names.
LEMMA NamedThere ==
    ASSUME NEW ask \in Asks, ask.kind # "create_capture", \A record \in Named(ask) : Written(record)
    PROVE  /\ ask.captures \subseteq captureFiles
           /\ ask.idea \in Ideas /\ ask.kind # "create_idea" => ideaFiles[ask.idea] # None
<1>1. ASSUME NEW c \in ask.captures PROVE c \in captureFiles
  <2>1. Written(Capture(c))
    BY DEF Named
  <2> QED BY <2>1 DEF Written, Capture, Idea, Decision
<1>2. ASSUME ask.idea \in Ideas, ask.kind # "create_idea" PROVE ideaFiles[ask.idea] # None
  <2>1. Written(Idea(ask.idea))
    BY <1>2, NoneAssumption DEF Named
  <2> QED BY <2>1 DEF Written, Capture, Idea, Decision
<1> QED BY <1>1, <1>2

LEMMA DecisionAdds ==
    ASSUME InboxTypeOK, NEW r \in Clients, RequestFits(task[r]), Put(r),
           NEW e, NEW ask, e = task[r].id, ask = task[r].ask, IsDecision(ask)
    PROVE  e \in EventIds /\ ask \in Event /\ AddsEvent(e, ask)
<1>1. task[r].at = "put" /\ task[r] \in Hands /\ HandFits(task[r]) /\ ask \in Asks
  BY DEF InboxTypeOK, Put, HandFits
<1>2. ask.kind \notin {"create_capture", "patch_capture", "create_idea", "patch_idea"}
  BY <1>1, AskShape
<1>3. ask # None /\ e \in EventIds
  BY <1>1, NoEventAssumption DEF IsDecision, HandFits, Hands
<1>4. eventFiles' = [eventFiles EXCEPT ![e] = ask] /\ UNCHANGED <<captureFiles, ideaFiles>>
  BY <1>2 DEF Put, PutEvent
<1>5. (\A f \in EventIds : eventFiles[f] # None => f < e) /\ Decided(ask)
  BY <1>1 DEF RequestFits
<1>6. Grown(eventFiles, eventFiles', e, ask)
  BY <1>3, <1>4, <1>5 DEF Grown, InboxTypeOK
<1>7. \A record \in Named(ask) : Written(record)
  BY <1>1 DEF RequestFits
<1>8. ask.captures \subseteq captureFiles /\ (ask.idea \in Ideas => ideaFiles[ask.idea] # None)
  BY <1>1, <1>2, <1>7, NamedThere
<1> QED BY <1>3, <1>4, <1>5, <1>6, <1>8 DEF AddsEvent, IsDecision

LEMMA PutAdds ==
    ASSUME InboxTypeOK, RecordsFit, NEW r \in Clients, RequestFits(task[r]), Put(r)
    PROVE  \/ \E c \in Captures : AddsCapture(c)
           \/ \E i \in Ideas, seeds \in Seeds : AddsIdea(i, seeds)
           \/ \E e \in EventIds, ask \in Event : AddsEvent(e, ask)
           \/ UNCHANGED files
<1>1. task[r].at = "put" /\ task[r] \in Hands /\ HandFits(task[r]) /\ task[r].ask \in Asks
  BY DEF InboxTypeOK, Put, HandFits
<1>2. PICK ask : ask = task[r].ask
  OBVIOUS
<1>3. New(ask) \cap minted = {} /\ \A record \in Named(ask) : Written(record)
  BY <1>1, <1>2 DEF RequestFits
<1>4. CASE ask.kind \in {"create_capture", "patch_capture"}
  BY <1>1, <1>2, <1>4, OneCapture DEF Put, PutCapture, AddsCapture
<1>5. CASE ask.kind = "create_idea"
  <2>1. PICK i \in Ideas, seeds \in Seeds : i = ask.idea /\ seeds = ask.captures
    BY <1>1, <1>2, <1>5, AskShape
  <2>2. ideaFiles' = [ideaFiles EXCEPT ![i] = seeds] /\ UNCHANGED <<captureFiles, eventFiles>>
    BY <1>2, <1>5, <2>1 DEF Put, PutIdea
  <2>3. Idea(i) \notin minted /\ Idea(i) \in Records /\ Idea(i) \notin Decisions
    BY <1>3, <1>5, <2>1 DEF New, Records, Decisions, Idea, Decision
  <2>4. ideaFiles[i] = None
    BY <2>3 DEF RecordsFit, Written, Decisions
  <2>5. seeds \subseteq captureFiles
    BY <1>1, <1>2, <1>3, <1>5, <2>1, NamedThere
  <2> QED BY <2>1, <2>2, <2>4, <2>5 DEF AddsIdea
<1>6. CASE ask.kind = "patch_idea"
  <2>1. PICK i \in Ideas : i = ask.idea
    BY <1>1, <1>2, <1>6, AskShape
  <2>2. ideaFiles' = [ideaFiles EXCEPT ![i] = task[r].seeds] /\ UNCHANGED <<captureFiles, eventFiles>>
    BY <1>2, <1>6, <2>1 DEF Put, PutIdea
  <2>3. task[r].seeds = ideaFiles[i]
    BY <1>1, <1>2, <1>6, <2>1 DEF RequestFits
  <2>4. ideaFiles' = ideaFiles
    BY <2>2, <2>3 DEF InboxTypeOK
  <2> QED BY <2>2, <2>4 DEF files
<1>7. CASE ask.kind \notin {"create_capture", "patch_capture", "create_idea", "patch_idea"}
  <2>1. IsDecision(ask)
    BY <1>1, <1>2, <1>7, AskShape
  <2> QED BY <1>2, <2>1, DecisionAdds
<1> QED BY <1>4, <1>5, <1>6, <1>7

\* DecisionsAlternate, of one decision.
Before(es, kinds, e) == {f \in About(es, kinds, es[e].idea, es[e].captures) : f < e}
Alternates(es, kinds, e) ==
    IF Before(es, kinds, e) = {} THEN Opposes(es[e].kind, es[e].idea, es[e].captures)
    ELSE \A f \in Newest(Before(es, kinds, e)) : es[f].kind # es[e].kind

LEMMA AlternateOne ==
    /\ DecisionsAlternate <=>
           \A kinds \in Groups : \A e \in EventIds :
               eventFiles[e] # None /\ eventFiles[e].kind \in kinds => Alternates(eventFiles, kinds, e)
    /\ DecisionsAlternate' <=>
           \A kinds \in Groups : \A e \in EventIds :
               eventFiles'[e] # None /\ eventFiles'[e].kind \in kinds => Alternates(eventFiles, kinds, e)'
BY DEF DecisionsAlternate, Groups, Alternates, Before

\* What was said before stays said.
LEMMA BeforeStays ==
    ASSUME NEW es, NEW fs, NEW e, NEW event, Grown(es, fs, e, event), NEW kinds, NEW f \in EventIds, es[f] # None
    PROVE  fs[f] = es[f] /\ Before(fs, kinds, f) = Before(es, kinds, f)
<1>1. /\ e \in EventIds /\ e \in Nat /\ f \in Nat /\ f < e /\ f # e
      /\ \A g \in EventIds : g # e => fs[g] = es[g]
  BY InstantAssumption DEF Grown
<1>2. fs[f] = es[f]
  BY <1>1
<1>3. ASSUME NEW g \in EventIds, g < f PROVE fs[g] = es[g]
  <2>1. g \in Nat
    BY InstantAssumption
  <2>2. g # e
    BY <1>1, <1>3, <2>1
  <2> QED BY <1>1, <2>2
<1>4. \A g \in EventIds : g < f =>
          (g \in About(fs, kinds, fs[f].idea, fs[f].captures) <=> g \in About(es, kinds, es[f].idea, es[f].captures))
  BY <1>2, <1>3 DEF About
<1>5. Before(fs, kinds, f) = Before(es, kinds, f)
  BY <1>4 DEF Before, About
<1> QED BY <1>2, <1>5

LEMMA BeforeLast ==
    ASSUME NEW es, NEW fs, NEW e, NEW event, Grown(es, fs, e, event), NEW kinds
    PROVE  /\ fs[e] = event /\ Before(fs, kinds, e) = About(es, kinds, event.idea, event.captures)
           /\ \A f \in EventIds : es[f] # None => fs[f] = es[f]
<1>1. /\ e \in EventIds /\ e \in Nat /\ fs[e] = event /\ \A g \in EventIds : g # e => fs[g] = es[g]
      /\ \A f \in EventIds : f \in Nat /\ (es[f] # None => f < e)
  BY InstantAssumption DEF Grown
<1>2. es[e] = None
  BY <1>1
<1>3. ASSUME NEW g \in EventIds, g < e PROVE fs[g] = es[g]
  <2>1. g \in Nat /\ g # e
    BY <1>1, <1>3
  <2> QED BY <1>1, <2>1
<1>4. Before(fs, kinds, e) = About(es, kinds, event.idea, event.captures)
  BY <1>1, <1>2, <1>3 DEF Before, About
<1> QED BY <1>1, <1>2, <1>4

\* Alternating looks at what is said and at the seeds of the ideas it is said of.
LEMMA SameOpposition ==
    ASSUME NEW event \in Event, event.kind \in Connecting => ideaFiles'[event.idea] = ideaFiles[event.idea]
    PROVE  Opposes(event.kind, event.idea, event.captures)' <=> Opposes(event.kind, event.idea, event.captures)
BY DEF Opposes, Connecting

LEMMA AlternatesAddsEvent ==
    ASSUME InboxTypeOK, DecisionsAlternate, NEW e \in EventIds, NEW ask \in Event, AddsEvent(e, ask)
    PROVE  DecisionsAlternate'
<1>1. Grown(eventFiles, eventFiles', e, ask) /\ ideaFiles' = ideaFiles
  BY DEF AddsEvent
<1> SUFFICES ASSUME NEW kinds \in Groups, NEW f \in EventIds, eventFiles'[f] # None, eventFiles'[f].kind \in kinds
             PROVE  Alternates(eventFiles, kinds, f)'
  BY AlternateOne
<1>2. PICK es, fs : es = eventFiles /\ fs = eventFiles'
  OBVIOUS
<1>3. /\ fs[e] = ask /\ Before(fs, kinds, e) = About(es, kinds, ask.idea, ask.captures)
      /\ \A g \in EventIds : es[g] # None => fs[g] = es[g]
  BY <1>1, <1>2, BeforeLast
<1>4. CASE f = e
  <2>1. Fresh(kinds, ask)
    BY <1>2, <1>3, <1>4 DEF AddsEvent, Decided
  <2>2. Opposes(ask.kind, ask.idea, ask.captures)' <=> Opposes(ask.kind, ask.idea, ask.captures)
    BY <1>1, SameOpposition
  <2>3. \A g \in Newest(About(es, kinds, ask.idea, ask.captures)) : fs[g] = es[g]
    BY <1>3 DEF Newest, About
  <2>4. IF Before(fs, kinds, e) = {} THEN Opposes(ask.kind, ask.idea, ask.captures)
        ELSE \A g \in Newest(Before(fs, kinds, e)) : fs[g].kind # ask.kind
    BY <1>2, <1>3, <2>1, <2>3 DEF Fresh
  <2>5. Before(eventFiles, kinds, e)' = Before(fs, kinds, e)
    BY <1>2 DEF Before
  <2> QED BY <1>2, <1>3, <1>4, <2>2, <2>4, <2>5 DEF Alternates
<1>5. CASE f # e
  <2>1. es[f] # None /\ fs[f] = es[f] /\ es[f] \in Event
    BY <1>1, <1>2, <1>5 DEF Grown, InboxTypeOK
  <2>2. Before(fs, kinds, f) = Before(es, kinds, f)
    BY <1>1, <1>2, <2>1, BeforeStays
  <2>3. Alternates(eventFiles, kinds, f)
    BY <1>2, <2>1, AlternateOne
  <2>4. \A g \in Newest(Before(es, kinds, f)) : fs[g] = es[g]
    BY <1>3 DEF Newest, About, Before
  <2>5. Before(eventFiles, kinds, f)' = Before(fs, kinds, f)
    BY <1>2 DEF Before
  <2>6. Opposes(es[f].kind, es[f].idea, es[f].captures)' <=> Opposes(es[f].kind, es[f].idea, es[f].captures)
    <3>1. PICK event \in Event : event = es[f]
      BY <2>1
    <3> QED BY <1>1, <3>1, SameOpposition
  <2> QED BY <1>2, <2>1, <2>2, <2>3, <2>4, <2>5, <2>6 DEF Alternates
<1> QED BY <1>4, <1>5

\* Where no event is added, only a new idea's seeds are others, and nothing was said of it.
LEMMA AlternatesAddsIdea ==
    ASSUME InboxTypeOK, EventsFit, DecisionsAlternate, eventFiles' = eventFiles,
           \A j \in Ideas : ideaFiles[j] # None => ideaFiles'[j] = ideaFiles[j]
    PROVE  DecisionsAlternate'
<1> SUFFICES ASSUME NEW kinds \in Groups, NEW f \in EventIds, eventFiles[f] # None, eventFiles[f].kind \in kinds
             PROVE  Alternates(eventFiles, kinds, f)'
  BY AlternateOne
<1>1. PICK event \in Event : event = eventFiles[f]
  BY DEF InboxTypeOK
<1>2. event.kind \in Connecting => ideaFiles'[event.idea] = ideaFiles[event.idea]
  BY <1>1, DecisionShape DEF EventsFit
<1>3. Opposes(event.kind, event.idea, event.captures)' <=> Opposes(event.kind, event.idea, event.captures)
  BY <1>2, SameOpposition
<1>4. Alternates(eventFiles, kinds, f)
  BY AlternateOne
<1>5. Before(eventFiles, kinds, f)' = Before(eventFiles, kinds, f)
  BY DEF Before
<1> QED BY <1>1, <1>3, <1>4, <1>5 DEF Alternates

\* What is known of ideas from their files, idea by idea.
LEMMA MembersLooked ==
    ASSUME NEW i \in Ideas
    PROVE  /\ Members(ideaFiles, eventFiles, i)' = Members(ideaFiles', eventFiles', i)
           /\ Retired(eventFiles, i)' = Retired(eventFiles', i)
           /\ eventFiles' = eventFiles =>
                  /\ Retired(eventFiles', i) = Retired(eventFiles, i)
                  /\ ideaFiles'[i] = ideaFiles[i] => Members(ideaFiles', eventFiles', i) = Members(ideaFiles, eventFiles, i)
BY DEF Members, Retired

\* An idea nobody has decided anything about has its seeds.
LEMMA MembersNew ==
    ASSUME InboxTypeOK, EventsFit, NEW i \in Ideas, NEW seeds \in Seeds, AddsIdea(i, seeds)
    PROVE  Members(ideaFiles', eventFiles', i) = seeds
<1>1. ideaFiles'[i] = seeds /\ seeds # None /\ seeds \subseteq Captures /\ eventFiles' = eventFiles /\ ideaFiles[i] = None
  BY NoneAssumption DEF AddsIdea, InboxTypeOK, Seeds
<1>2. \A c \in Captures : About(eventFiles, Connecting, i, {c}) = {}
  BY <1>1 DEF About, EventsFit
<1> QED BY <1>1, <1>2 DEF Members

LEMMA EventsFitAdds ==
    ASSUME InboxTypeOK, EventsFit,
           \/ \E c \in Captures : AddsCapture(c)
           \/ \E i \in Ideas, seeds \in Seeds : AddsIdea(i, seeds)
           \/ \E e \in EventIds, ask \in Event : AddsEvent(e, ask)
    PROVE  EventsFit'
<1>1. ASSUME NEW c \in Captures, AddsCapture(c) PROVE EventsFit'
  BY <1>1 DEF AddsCapture, EventsFit
<1>2. ASSUME NEW i \in Ideas, NEW seeds \in Seeds, AddsIdea(i, seeds) PROVE EventsFit'
  <2>1. seeds # None
    BY NoneAssumption DEF Seeds
  <2> QED BY <1>2, <2>1 DEF AddsIdea, EventsFit, InboxTypeOK
<1>3. ASSUME NEW e \in EventIds, NEW ask \in Event, AddsEvent(e, ask) PROVE EventsFit'
  BY <1>3 DEF AddsEvent, Grown, EventsFit, InboxTypeOK
<1> QED BY <1>1, <1>2, <1>3

LEMMA NeverEmptyAdds ==
    ASSUME InboxTypeOK, EventsFit, NeverEmpty,
           \/ \E c \in Captures : AddsCapture(c)
           \/ \E i \in Ideas, seeds \in Seeds : AddsIdea(i, seeds)
           \/ \E e \in EventIds, ask \in Event : AddsEvent(e, ask)
    PROVE  NeverEmpty'
<1> SUFFICES ASSUME NEW i \in Ideas, ideaFiles'[i] # None
             PROVE  Members(ideaFiles', eventFiles', i) # {}
  BY MembersLooked DEF NeverEmpty
<1>1. ideaFiles[i] # None => Members(ideaFiles, eventFiles, i) # {}
  BY DEF NeverEmpty
<1>2. ASSUME NEW c \in Captures, AddsCapture(c) PROVE Members(ideaFiles', eventFiles', i) # {}
  BY <1>1, <1>2, MembersLooked DEF AddsCapture
<1>3. ASSUME NEW j \in Ideas, NEW seeds \in Seeds, AddsIdea(j, seeds) PROVE Members(ideaFiles', eventFiles', i) # {}
  <2>1. CASE i = j
    BY <1>3, <2>1, MembersNew DEF Seeds
  <2>2. CASE i # j
    BY <1>1, <1>3, <2>2, MembersLooked DEF AddsIdea, InboxTypeOK
  <2> QED BY <2>1, <2>2
<1>4. ASSUME NEW e \in EventIds, NEW ask \in Event, AddsEvent(e, ask) PROVE Members(ideaFiles', eventFiles', i) # {}
  <2>1. PICK ts, es, fs : ts = ideaFiles /\ ts = ideaFiles' /\ es = eventFiles /\ fs = eventFiles'
    BY <1>4 DEF AddsEvent
  <2>2. Grown(es, fs, e, ask) /\ ts[i] # None
    BY <1>4, <2>1 DEF AddsEvent
  <2>3. \A c \in Captures :
            IF Bears(ask, Connecting, i, {c})
            THEN c \in Members(ts, fs, i) <=> ask.kind = "capture_connected"
            ELSE c \in Members(ts, fs, i) <=> c \in Members(ts, es, i)
    BY <2>2, MembersAfter
  <2>4. PICK d \in Members(ts, es, i) : d \in Captures
    BY <1>1, <2>1, <2>2 DEF Members
  <2>5. CASE Bears(ask, Connecting, i, {d})
    <3>1. CASE ask.kind = "capture_connected"
      BY <2>1, <2>3, <2>4, <2>5, <3>1
    <3>2. CASE ask.kind = "capture_disconnected"
      <4>1. PICK f \in Members(ts, es, i) : f \notin ask.captures /\ f \in Captures
        BY <1>4, <2>1, <2>5, <3>2 DEF AddsEvent, Decided, Bears, Members
      <4>2. ~Bears(ask, Connecting, i, {f})
        BY <4>1 DEF Bears
      <4> QED BY <2>1, <2>3, <4>1, <4>2
    <3> QED BY <2>5, <3>1, <3>2 DEF Bears, Connecting
  <2>6. CASE ~Bears(ask, Connecting, i, {d})
    BY <2>1, <2>3, <2>4, <2>6
  <2> QED BY <2>5, <2>6
<1> QED BY <1>2, <1>3, <1>4

\* EvidenceKept, of one idea; the way out is one of its events.
Exempt(es, i) ==
    \E e \in EventIds : es[e] # None /\ es[e].idea = i /\ es[e].kind \in {"idea_reopened", "capture_disconnected"}
Evident(cf, ts, es, i) ==
    \/ ts[i] = None \/ Retired(es, i) \/ Members(ts, es, i) \cap cf # {} \/ Exempt(es, i)

LEMMA EvidenceOne ==
    /\ EvidenceKept <=> \A i \in Ideas : Evident(captureFiles, ideaFiles, eventFiles, i)
    /\ EvidenceKept' <=> \A i \in Ideas : Evident(captureFiles', ideaFiles', eventFiles', i)
<1>1. EvidenceKept <=> \A i \in Ideas : Evident(captureFiles, ideaFiles, eventFiles, i)
  BY DEF EvidenceKept, IsLive, HasEvidence, Evident, Exempt
<1>2. EvidenceKept' <=> \A i \in Ideas : Evident(captureFiles', ideaFiles', eventFiles', i)
  BY DEF EvidenceKept, IsLive, HasEvidence, Evident, Exempt, Members, Retired, About, Says
<1> QED BY <1>1, <1>2

LEMMA EvidenceAdds ==
    ASSUME InboxTypeOK, EventsFit, EvidenceKept,
           \/ \E c \in Captures : AddsCapture(c)
           \/ \E i \in Ideas, seeds \in Seeds : AddsIdea(i, seeds)
           \/ \E e \in EventIds, ask \in Event : AddsEvent(e, ask)
    PROVE  EvidenceKept'
<1> SUFFICES ASSUME NEW i \in Ideas PROVE Evident(captureFiles', ideaFiles', eventFiles', i)
  BY EvidenceOne
<1>1. Evident(captureFiles, ideaFiles, eventFiles, i)
  BY EvidenceOne
<1>2. ASSUME NEW c \in Captures, AddsCapture(c) PROVE Evident(captureFiles', ideaFiles', eventFiles', i)
  BY <1>1, <1>2 DEF AddsCapture, Evident
<1>3. ASSUME NEW j \in Ideas, NEW seeds \in Seeds, AddsIdea(j, seeds)
      PROVE  Evident(captureFiles', ideaFiles', eventFiles', i)
  <2>1. CASE i = j
    <3>1. seeds # {} /\ seeds \subseteq captureFiles'
      BY <1>3 DEF AddsIdea, Seeds
    <3> QED BY <1>3, <2>1, <3>1, MembersNew DEF Evident
  <2>2. CASE i # j
    <3>1. ideaFiles'[i] = ideaFiles[i] /\ captureFiles' = captureFiles /\ eventFiles' = eventFiles
      BY <1>3, <2>2 DEF AddsIdea, InboxTypeOK
    <3> QED BY <1>1, <3>1, MembersLooked DEF Evident
  <2> QED BY <2>1, <2>2
<1>4. ASSUME NEW e \in EventIds, NEW ask \in Event, AddsEvent(e, ask)
      PROVE  Evident(captureFiles', ideaFiles', eventFiles', i)
  <2>1. PICK cf, ts, es, fs : /\ ts = ideaFiles /\ ts = ideaFiles' /\ es = eventFiles /\ fs = eventFiles'
                              /\ cf = captureFiles /\ cf = captureFiles'
    BY <1>4 DEF AddsEvent
  <2>2. Grown(es, fs, e, ask) /\ Evident(cf, ts, es, i)
    BY <1>1, <1>4, <2>1 DEF AddsEvent
  <2> SUFFICES ASSUME ts[i] # None PROVE Evident(cf, ts, fs, i)
    BY <2>1 DEF Evident
  <2>3. /\ \A c \in Captures :
               IF Bears(ask, Connecting, i, {c})
               THEN c \in Members(ts, fs, i) <=> ask.kind = "capture_connected"
               ELSE c \in Members(ts, fs, i) <=> c \in Members(ts, es, i)
        /\ IF Bears(ask, Retiring, i, {})
           THEN Retired(fs, i) <=> ask.kind = "idea_retired"
           ELSE Retired(fs, i) <=> Retired(es, i)
    BY <2>2, MembersAfter
  <2>4. fs[e] = ask /\ ask # None /\ \A f \in EventIds : es[f] # None => fs[f] = es[f]
    BY <2>2, BeforeLast DEF Grown
  <2>5. CASE ask.idea = i /\ ask.kind \in {"idea_reopened", "capture_disconnected"}
    BY <2>4, <2>5 DEF Evident, Exempt
  <2>6. CASE ask.idea = i /\ ask.kind = "idea_retired"
    <3>1. Bears(ask, Retiring, i, {})
      BY <2>6, DecisionShape DEF Bears, Retiring
    <3> QED BY <2>3, <2>6, <3>1 DEF Evident
  <2>7. CASE ask.idea = i /\ ask.kind = "capture_connected"
    <3>1. PICK c \in Captures : ask.captures = {c}
      BY <2>7, DecisionShape DEF Connecting
    <3>2. Bears(ask, Connecting, i, {c}) /\ c \in cf
      BY <1>4, <2>1, <2>7, <3>1 DEF Bears, Connecting, AddsEvent
    <3>3. c \in Members(ts, fs, i)
      BY <2>3, <2>7, <3>2
    <3> QED BY <3>2, <3>3 DEF Evident
  <2>8. CASE ask.idea # i \/ ask.kind \notin Connecting \cup Retiring
    <3>1. ~Bears(ask, Retiring, i, {}) /\ \A c \in Captures : ~Bears(ask, Connecting, i, {c})
      BY <2>8 DEF Bears
    <3>2. (Retired(fs, i) <=> Retired(es, i)) /\ Members(ts, fs, i) = Members(ts, es, i)
      BY <2>3, <3>1 DEF Members
    <3>3. Exempt(es, i) => Exempt(fs, i)
      BY <2>4 DEF Exempt
    <3> QED BY <2>2, <3>2, <3>3 DEF Evident
  <2> QED BY <2>5, <2>6, <2>7, <2>8 DEF Connecting, Retiring
<1> QED BY <1>2, <1>3, <1>4

LEMMA EvidenceUnlinked ==
    ASSUME InboxTypeOK, EvidenceKept, NEW c \in Captures, captureFiles' = captureFiles \ {c},
           UNCHANGED <<ideaFiles, eventFiles>>, Spared(c)
    PROVE  EvidenceKept'
<1> SUFFICES ASSUME NEW i \in Ideas PROVE Evident(captureFiles', ideaFiles', eventFiles', i)
  BY EvidenceOne
<1>1. Evident(captureFiles, ideaFiles, eventFiles, i)
  BY EvidenceOne
<1>2. CASE ideaFiles[i] # None /\ c \in Members(ideaFiles, eventFiles, i)
  <2>1. Retired(eventFiles, i) \/ \E d \in Members(ideaFiles, eventFiles, i) \cap captureFiles : d # c
    BY <1>2 DEF Spared
  <2> QED BY <2>1 DEF Evident
<1>3. CASE ideaFiles[i] = None
  BY <1>3 DEF Evident
<1>4. CASE c \notin Members(ideaFiles, eventFiles, i)
  BY <1>1, <1>4 DEF Evident
<1> QED BY <1>2, <1>3, <1>4

\* What the files are to say.
Sound == EventsFit /\ DecisionsAlternate /\ NeverEmpty /\ (~Watched => EvidenceKept)

LEMMA SoundSame == ASSUME InboxTypeOK, Sound, UNCHANGED files PROVE Sound'
<1>1. UNCHANGED <<captureFiles, ideaFiles, eventFiles>>
  BY DEF files
<1>2. EventsFit'
  BY <1>1 DEF Sound, EventsFit
<1>3. DecisionsAlternate'
  BY <1>1, AlternatesAddsIdea DEF Sound
<1>4. NeverEmpty'
  BY <1>1, MembersLooked DEF Sound, NeverEmpty
<1>5. ~Watched => EvidenceKept'
  BY <1>1, EvidenceOne DEF Sound
<1> QED BY <1>2, <1>3, <1>4, <1>5 DEF Sound

LEMMA SoundAdds ==
    ASSUME InboxTypeOK, Sound,
           \/ \E c \in Captures : AddsCapture(c)
           \/ \E i \in Ideas, seeds \in Seeds : AddsIdea(i, seeds)
           \/ \E e \in EventIds, ask \in Event : AddsEvent(e, ask)
    PROVE  Sound'
<1>1. EventsFit' /\ NeverEmpty' /\ (~Watched => EvidenceKept')
  BY EventsFitAdds, NeverEmptyAdds, EvidenceAdds DEF Sound
<1>2. ASSUME NEW c \in Captures, AddsCapture(c) PROVE DecisionsAlternate'
  BY <1>2, AlternatesAddsIdea DEF AddsCapture, Sound
<1>3. ASSUME NEW i \in Ideas, NEW seeds \in Seeds, AddsIdea(i, seeds) PROVE DecisionsAlternate'
  <2>1. eventFiles' = eventFiles /\ \A j \in Ideas : ideaFiles[j] # None => ideaFiles'[j] = ideaFiles[j]
    BY <1>3 DEF AddsIdea, InboxTypeOK
  <2> QED BY <2>1, AlternatesAddsIdea DEF Sound
<1>4. ASSUME NEW e \in EventIds, NEW ask \in Event, AddsEvent(e, ask) PROVE DecisionsAlternate'
  BY <1>4, AlternatesAddsEvent DEF Sound
<1> QED BY <1>1, <1>2, <1>3, <1>4 DEF Sound

LEMMA SoundStep ==
    ASSUME InboxTypeOK, RecordsFit, Requests, Sound, edits = 0, failures = 0, OneRequest, [InboxNext]_vars
    PROVE  Sound'
<1>1. ASSUME NEW r \in Clients, Put(r) PROVE Sound'
  BY <1>1, PutAdds, SoundAdds, SoundSame DEF Requests
<1>2. ASSUME NEW r \in Clients, Unlink(r) PROVE Sound'
  <2>1. PICK c \in Captures : task[r].ask.captures = {c} /\ captureFiles' = captureFiles \ {c}
    BY <1>2, UnlinksOne
  <2>2. UNCHANGED <<ideaFiles, eventFiles>> /\ task[r].at = "unlink" /\ task[r].ask.kind = "capture_deleted"
    BY <1>2, UnlinksOne
  <2>3. EventsFit'
    BY <2>2 DEF Sound, EventsFit
  <2>4. DecisionsAlternate'
    BY <2>2, AlternatesAddsIdea DEF Sound
  <2>5. NeverEmpty'
    BY <2>2, MembersLooked DEF Sound, NeverEmpty
  <2>6. ~Watched => EvidenceKept'
    <3>1. ~Watched => Spared(c)
      BY <2>1, <2>2 DEF Requests, RequestFits
    <3> QED BY <2>1, <2>2, <3>1, EvidenceUnlinked DEF Sound
  <2> QED BY <2>3, <2>4, <2>5, <2>6 DEF Sound
<1>3. (~\E r \in Clients : Put(r) \/ Unlink(r)) => UNCHANGED files
  <2>1. ~Edit
    BY DEF Edit, OneRequest
  <2> QED BY <2>1 DEF InboxNext, vars, files, Ask, Check, Refer, Enter, Drop, Fail,
                      Read, Reindex, Start, Serve, Crash, LoseIndex
<1> QED BY <1>1, <1>2, <1>3, SoundSame
-----------------------------------------------------------------------------
(* A request keeps to what it has read.                                    *)

LEMMA RequestSame ==
    ASSUME UNCHANGED <<files, minted>>, NEW hand
    PROVE  RequestFits(hand)' <=> RequestFits(hand)
BY DEF RequestFits, files, Written, Decided, Spared, Fresh, Opposes

\* Only what the request at hand does changes what is asked of it.
LEMMA RequestsOne ==
    ASSUME InboxTypeOK, OneRequest, NEW r \in Clients, NEW hand, task'[r] = hand, RequestFits(hand)'
    PROVE  Requests'
<1>1. \A q \in Clients : q = r
  BY DEF OneRequest
<1> QED BY <1>1 DEF Requests

LEMMA RequestsSame ==
    ASSUME Requests, UNCHANGED <<files, minted, task>>
    PROVE  Requests'
<1> SUFFICES ASSUME NEW r \in Clients PROVE RequestFits(task[r])'
  BY DEF Requests
<1>1. PICK hand : hand = task[r] /\ hand = task'[r]
  OBVIOUS
<1> QED BY <1>1, RequestSame DEF Requests

LEMMA IdleRequest == RequestFits(Idle) /\ RequestFits(Idle)'
<1>1. Idle.at = "idle" /\ Idle.ask = Nothing /\ Nothing.kind = "none"
  BY DEF Idle, Nothing
<1> QED BY <1>1 DEF RequestFits

LEMMA StopRequests ==
    ASSUME InboxTypeOK, OneRequest, NEW r \in Clients, Stop(r)
    PROVE  Requests'
<1>1. task'[r] = Idle
  BY DEF Stop, InboxTypeOK
<1> QED BY <1>1, IdleRequest, RequestsOne

LEMMA RequestsAsk ==
    ASSUME InboxTypeOK, OneRequest, NEW r \in Clients, NEW ask \in Asks, Ask(r, ask)
    PROVE  Requests'
<1>1. PICK hand : hand = task'[r]
  OBVIOUS
<1>2. /\ hand = [Idle EXCEPT !.at = IF IsDecision(ask) THEN "check"
                                    ELSE IF Named(ask) = {} THEN "put" ELSE "refer",
                             !.ask = ask, !.left = Named(ask)]
      /\ UNCHANGED <<files, minted>>
  BY <1>1 DEF Ask, InboxTypeOK
<1>3. hand.ask = ask /\ hand.left = Named(ask) /\ hand.at \in {"check", "put", "refer"}
      /\ (hand.at = "check" <=> IsDecision(ask)) /\ (hand.at = "put" => Named(ask) = {})
  BY <1>2 DEF Idle
<1>4. New(ask) \cap minted = {}
  BY DEF Ask
<1>5. ask.kind = "patch_idea" => Named(ask) # {}
  BY AskShape, NoneAssumption DEF Named
<1>6. ask.kind = "capture_deleted" => IsDecision(ask)
  BY AskShape
<1>7. RequestFits(hand)
  BY <1>3, <1>4, <1>5, <1>6 DEF RequestFits
<1> QED BY <1>1, <1>2, <1>7, RequestSame, RequestsOne

\* With nothing being entered, the index is as the files; only a capture whose
\* file a request removed and a watcher has yet to hear about may be there still.
LEMMA CaughtUp ==
    ASSUME InboxTypeOK, RecordsFit, IndexFits, phase = "up", \A record : ~Entering(record)
    PROVE  /\ events = eventFiles /\ threads = ideaFiles
           /\ \A c \in captureFiles : captures[c] # None
           /\ ~Watched => \A c \in Captures : captures[c] # None <=> c \in captureFiles
<1>1. \A record \in Records : /\ Written(record) => RowOf(record) = FileOf(record)
                              /\ ~Watched => RowOf(record) = FileOf(record)
                              /\ RowOf(record) # None => Written(record) \/ record \in minted
  BY DEF IndexFits, RecordsFit, Known
<1>2. \A record \in Records : Written(record) <=> FileOf(record) # None
  BY WrittenFile
<1>3. ASSUME NEW e \in EventIds PROVE events[e] = eventFiles[e]
  <2>1. Decision(e) \in Records /\ RowOf(Decision(e)) = events[e] /\ FileOf(Decision(e)) = eventFiles[e]
    BY RowsOf, FilesOf DEF Records
  <2>2. Decision(e) \notin minted
    BY DEF RecordsFit
  <2> QED BY <1>1, <1>2, <2>1, <2>2
<1>4. ASSUME NEW i \in Ideas PROVE threads[i] = ideaFiles[i]
  <2>1. Idea(i) \in Records /\ RowOf(Idea(i)) = threads[i] /\ FileOf(Idea(i)) = ideaFiles[i]
    BY RowsOf, FilesOf DEF Records
  <2>2. Idea(i) \in minted => ideaFiles[i] # None
    BY DEF RecordsFit
  <2> QED BY <1>1, <1>2, <2>1, <2>2
<1>5. ASSUME NEW c \in Captures
      PROVE  /\ c \in captureFiles => captures[c] # None
             /\ ~Watched => (captures[c] # None <=> c \in captureFiles)
  <2>1. /\ Capture(c) \in Records /\ RowOf(Capture(c)) = captures[c]
        /\ FileOf(Capture(c)) = IF c \in captureFiles THEN Born[c] ELSE None
    BY RowsOf, FilesOf DEF Records
  <2>2. Born[c] # None
    BY BornAssumption, NoneAssumption
  <2> QED BY <1>1, <1>2, <2>1, <2>2
<1>6. events = eventFiles /\ threads = ideaFiles
  BY <1>3, <1>4 DEF InboxTypeOK, TablesTypeOK
<1> QED BY <1>5, <1>6 DEF InboxTypeOK

LEMMA RequestsCheck ==
    ASSUME InboxTypeOK, Agreement, FoldIsCurrent, RecordsFit, IndexFits, Requests, OneRequest,
           NEW r \in Clients, Check(r)
    PROVE  Requests'
<1>1. PICK hand : hand = task'[r]
  OBVIOUS
<1>2. UNCHANGED <<files, minted>> /\ task[r].at = "check" /\ task[r] \in Hands /\ HandFits(task[r])
  BY DEF Check, InboxTypeOK
<1>3. PICK ask : ask = task[r].ask
  OBVIOUS
<1>4. ask \in Event
  BY <1>2, <1>3 DEF HandFits, IsDecision
<1>5. CASE Stop(r)
  BY <1>5, StopRequests
<1>6. CASE ~Stop(r)
  <2>1. PICK now \in EventIds : /\ Allowed(ask) /\ now > clock
                                /\ task' = [task EXCEPT ![r].at = "refer", ![r].id = now]
    BY <1>3, <1>6 DEF Check
  <2>2. hand.at = "refer" /\ hand.ask = ask /\ hand.id = now /\ hand.left = task[r].left
    BY <1>1, <1>2, <1>3, <2>1 DEF InboxTypeOK, Hands
  <2>3. hand.left = Named(ask) /\ New(ask) \cap minted = {}
    BY <1>2, <1>3, <2>2 DEF Requests, RequestFits
  <2>4. \A e \in EventIds : eventFiles[e] # None => e < now
    <3> SUFFICES ASSUME NEW e \in EventIds, eventFiles[e] # None PROVE e < now
      OBVIOUS
    <3>1. eventFiles[e] \in Copies(e)
      BY DEF Copies
    <3>2. ~(e > clock)
      BY <3>1 DEF Agreement
    <3>3. e \in Nat /\ now \in Nat /\ clock \in Nat
      BY InstantAssumption DEF InboxTypeOK
    <3> QED BY <2>1, <3>2, <3>3
  <2>5. phase = "up"
    BY <1>2 DEF IndexFits, Idle
  <2>6. \A record : ~Entering(record)
    BY <1>2, OneEnters DEF EnteringBy
  <2>7. /\ events = eventFiles /\ threads = ideaFiles /\ \A c \in captureFiles : captures[c] # None
        /\ ~Watched => \A c \in Captures : captures[c] # None <=> c \in captureFiles
    BY <2>5, <2>6, CaughtUp
  <2>8. Decided(ask)
    BY <1>4, <2>1, <2>7, AllowedIsDecided DEF OneRequest
  <2>9. ~Watched /\ ask.kind = "capture_deleted" => \A c \in ask.captures : Spared(c)
    BY <1>4, <2>1, <2>7, AllowedIsSpared DEF OneRequest
  <2>10. ask.kind # "patch_idea"
    BY <1>4, AskShape DEF Asks, IsDecision
  <2>11. RequestFits(hand)
    BY <2>2, <2>3, <2>4, <2>8, <2>9, <2>10 DEF RequestFits
  <2> QED BY <1>1, <1>2, <2>11, RequestSame, RequestsOne
<1> QED BY <1>5, <1>6

LEMMA RequestsRefer ==
    ASSUME InboxTypeOK, Requests, OneRequest, NEW r \in Clients, Refer(r)
    PROVE  Requests'
<1>1. PICK hand, was : hand = task'[r] /\ was = task[r]
  OBVIOUS
<1>2. /\ UNCHANGED <<files, minted>> /\ was.at = "refer" /\ was \in Hands /\ HandFits(was) /\ RequestFits(was)
      /\ was.ask \in Asks
  BY <1>1 DEF Refer, InboxTypeOK, Requests, HandFits
<1>3. CASE Stop(r)
  BY <1>3, StopRequests
<1>4. CASE ~Stop(r)
  <2>1. PICK record \in was.left :
            /\ Written(record)
            /\ hand = [was EXCEPT !.left = was.left \ {record},
                                  !.at = IF was.left \ {record} = {} THEN "put" ELSE "refer",
                                  !.seeds = IF record \in {Idea(i) : i \in Ideas} THEN ideaFiles[record[2]] ELSE @]
    <3>1. PICK record \in was.left :
              /\ Written(record)
              /\ task' = [task EXCEPT ![r] =
                     [was EXCEPT !.left = was.left \ {record},
                                 !.at = IF was.left \ {record} = {} THEN "put" ELSE "refer",
                                 !.seeds = IF record \in {Idea(i) : i \in Ideas}
                                           THEN ideaFiles[record[2]] ELSE @]]
      BY <1>1, <1>4 DEF Refer
    <3>2. r \in DOMAIN task
      BY DEF InboxTypeOK
    <3> QED BY <1>1, <3>1, <3>2
  <2>2. /\ hand.left = was.left \ {record} /\ hand.ask = was.ask /\ hand.id = was.id
        /\ hand.at \in {"refer", "put"} /\ (hand.at = "put" => hand.left = {})
        /\ hand.seeds = IF record \in {Idea(i) : i \in Ideas} THEN ideaFiles[record[2]] ELSE was.seeds
    BY <1>2, <2>1 DEF Hands
  <2>3. \A other \in Named(hand.ask) \ hand.left : Written(other)
    BY <1>2, <2>1, <2>2 DEF RequestFits
  <2>4. hand.ask.kind = "patch_idea" => hand.seeds = ideaFiles[hand.ask.idea]
    <3>1. ASSUME hand.ask.kind = "patch_idea" PROVE hand.seeds = ideaFiles[hand.ask.idea]
      <4>1. record = Idea(hand.ask.idea) /\ hand.ask.idea \in Ideas
        BY <1>2, <2>1, <2>2, <3>1, AskShape DEF HandFits
      <4> QED BY <2>2, <4>1, RecordsApart
    <3> QED BY <3>1
  <2>5. New(hand.ask) \cap minted = {}
    BY <1>2, <2>2 DEF RequestFits
  <2>6. IsDecision(hand.ask) => (\A e \in EventIds : eventFiles[e] # None => e < hand.id) /\ Decided(hand.ask)
    BY <1>2, <2>2 DEF RequestFits
  <2>7. ~Watched /\ hand.ask.kind = "capture_deleted" => \A c \in hand.ask.captures : Spared(c)
    BY <1>2, <2>2 DEF RequestFits
  <2>8. RequestFits(hand)
    BY <2>2, <2>3, <2>4, <2>5, <2>6, <2>7 DEF RequestFits
  <2> QED BY <1>1, <1>2, <2>8, RequestSame, RequestsOne
<1> QED BY <1>3, <1>4

LEMMA SparedAdds ==
    ASSUME NEW e \in EventIds, NEW ask \in Event, AddsEvent(e, ask), ask.idea \notin Ideas, NEW c, Spared(c)
    PROVE  Spared(c)'
<1>1. PICK ts, es, fs : ts = ideaFiles /\ ts = ideaFiles' /\ es = eventFiles /\ fs = eventFiles'
  BY DEF AddsEvent
<1>2. Grown(es, fs, e, ask) /\ captureFiles' = captureFiles
  BY <1>1 DEF AddsEvent
<1>3. ASSUME NEW i \in Ideas, ts[i] # None
      PROVE  Members(ts, fs, i) = Members(ts, es, i) /\ (Retired(fs, i) <=> Retired(es, i))
  <2>1. ~Bears(ask, Retiring, i, {}) /\ \A d \in Captures : ~Bears(ask, Connecting, i, {d})
    BY DEF Bears
  <2>2. (\A d \in Captures : d \in Members(ts, fs, i) <=> d \in Members(ts, es, i)) /\ (Retired(fs, i) <=> Retired(es, i))
    BY <1>2, <1>3, <2>1, MembersAfter
  <2> QED BY <2>2 DEF Members
<1>4. \A i \in Ideas : /\ Members(ideaFiles, eventFiles, i)' = Members(ts, fs, i)
                       /\ Retired(eventFiles, i)' = Retired(fs, i)
  BY <1>1, MembersLooked
<1> QED BY <1>1, <1>2, <1>3, <1>4 DEF Spared

LEMMA RequestsPut ==
    ASSUME InboxTypeOK, RecordsFit, Requests, OneRequest, NEW r \in Clients, Put(r)
    PROVE  Requests'
<1>1. PICK hand, was : hand = task'[r] /\ was = task[r]
  OBVIOUS
<1>2. was \in Hands /\ HandFits(was) /\ RequestFits(was) /\ was.ask \in Asks /\ was.at = "put"
  BY <1>1 DEF Put, InboxTypeOK, Requests, HandFits
<1>3. /\ hand.at = "index" /\ hand.ask = was.ask /\ hand.id = was.id
      /\ hand.seeds = IF was.ask.kind = "create_idea" THEN was.ask.captures ELSE was.seeds
  BY <1>1, <1>2 DEF Put, InboxTypeOK, Hands
<1>4. CASE hand.ask.kind \in {"create_capture", "patch_capture"}
  <2>1. PICK c \in Captures : hand.ask.captures = {c}
    BY <1>2, <1>3, <1>4, OneCapture
  <2>2. hand.ask.captures \subseteq captureFiles'
    BY <1>1, <1>3, <1>4, <2>1 DEF Put, PutCapture
  <2>3. RequestFits(hand)'
    BY <1>3, <1>4, <2>2 DEF RequestFits
  <2> QED BY <1>1, <2>3, RequestsOne
<1>5. CASE hand.ask.kind \in {"create_idea", "patch_idea"}
  <2>1. PICK i \in Ideas : i = hand.ask.idea
    BY <1>2, <1>3, <1>5, AskShape
  <2>2. ideaFiles' = [ideaFiles EXCEPT ![i] = hand.seeds]
    BY <1>1, <1>3, <1>5, <2>1 DEF Put, PutIdea
  <2>3. ideaFiles'[hand.ask.idea] = hand.seeds
    BY <2>1, <2>2 DEF InboxTypeOK
  <2>4. RequestFits(hand)'
    BY <1>3, <1>5, <2>3 DEF RequestFits
  <2> QED BY <1>1, <2>4, RequestsOne
<1>6. CASE hand.ask.kind \notin {"create_capture", "patch_capture", "create_idea", "patch_idea"}
  <2>1. IsDecision(hand.ask)
    BY <1>2, <1>3, <1>6, AskShape
  <2>2. PICK e \in EventIds, ask \in Event : e = hand.id /\ ask = hand.ask /\ AddsEvent(e, ask)
    BY <1>1, <1>2, <1>3, <2>1, DecisionAdds
  <2>3. eventFiles'[hand.id] = hand.ask
    BY <2>2 DEF AddsEvent, Grown
  <2>4. ASSUME ~Watched, hand.ask.kind = "capture_deleted", NEW c \in hand.ask.captures
        PROVE  Spared(c)'
    <3>1. Spared(c)
      BY <1>2, <1>3, <2>4 DEF RequestFits
    <3>2. ask.idea \notin Ideas
      BY <2>2, <2>4, DecisionShape, NoneAssumption
    <3> QED BY <2>2, <3>1, <3>2, SparedAdds
  <2>5. RequestFits(hand)'
    BY <1>3, <1>6, <2>3, <2>4 DEF RequestFits
  <2> QED BY <1>1, <2>5, RequestsOne
<1> QED BY <1>4, <1>5, <1>6

LEMMA RequestsEnter ==
    ASSUME InboxTypeOK, Requests, OneRequest, NEW r \in Clients, Enter(r)
    PROVE  Requests'
<1>1. PICK hand, was : hand = task'[r] /\ was = task[r]
  OBVIOUS
<1>2. UNCHANGED <<files, minted>> /\ was.at = "index" /\ was \in Hands /\ RequestFits(was)
  BY <1>1 DEF Enter, InboxTypeOK, Requests
<1>3. CASE Stop(r)
  BY <1>3, StopRequests
<1>4. CASE ~Stop(r)
  <2>1. was.ask.kind = "capture_deleted" /\ Go(r, "unlink")
    BY <1>1, <1>4 DEF Enter
  <2>2. hand.at = "unlink" /\ hand.ask = was.ask
    BY <1>1, <1>2, <2>1 DEF Go, InboxTypeOK, Hands
  <2>3. ~Watched => \A c \in hand.ask.captures : Spared(c)
    BY <1>2, <2>1, <2>2 DEF RequestFits
  <2>4. RequestFits(hand)
    BY <2>2, <2>3 DEF RequestFits
  <2> QED BY <1>1, <1>2, <2>4, RequestSame, RequestsOne
<1> QED BY <1>3, <1>4

LEMMA RequestsUnlink ==
    ASSUME InboxTypeOK, OneRequest, NEW r \in Clients, Unlink(r)
    PROVE  Requests'
<1>1. PICK hand, was : hand = task'[r] /\ was = task[r]
  OBVIOUS
<1>2. was.at = "unlink" /\ was \in Hands
  BY <1>1 DEF Unlink, InboxTypeOK
<1>3. PICK c \in Captures : was.ask.captures = {c} /\ c \notin captureFiles' /\ (Go(r, "drop") \/ Stop(r))
  BY <1>1, UnlinksOne
<1>4. CASE Stop(r)
  BY <1>4, StopRequests
<1>5. CASE Go(r, "drop")
  <2>1. hand.at = "drop" /\ hand.ask = was.ask
    BY <1>1, <1>2, <1>5 DEF Go, InboxTypeOK, Hands
  <2>2. RequestFits(hand)'
    BY <1>3, <2>1 DEF RequestFits
  <2> QED BY <1>1, <2>2, RequestsOne
<1> QED BY <1>3, <1>4, <1>5

LEMMA RequestsStep ==
    ASSUME InboxTypeOK, Agreement, FoldIsCurrent, RecordsFit, IndexFits, Requests,
           edits = 0, failures = 0, OneRequest, [InboxNext]_vars
    PROVE  Requests'
<1>1. ASSUME NEW r \in Clients, \/ \E ask \in Asks : Ask(r, ask)
                                \/ Check(r) \/ Refer(r) \/ Put(r) \/ Enter(r) \/ Unlink(r)
      PROVE  Requests'
  BY <1>1, RequestsAsk, RequestsCheck, RequestsRefer, RequestsPut, RequestsEnter, RequestsUnlink
<1>2. ASSUME NEW r \in Clients, Drop(r) PROVE Requests'
  BY <1>2, StopRequests DEF Drop
<1>3. CASE Crash
  <2>1. \A r \in Clients : task'[r] = Idle
    BY <1>3 DEF Crash
  <2> QED BY <2>1, IdleRequest DEF Requests
<1>4. CASE Read \/ Reindex \/ Start \/ Serve \/ LoseIndex \/ UNCHANGED vars
  <2>1. UNCHANGED <<files, minted, task>>
    BY <1>4 DEF Read, Reindex, Start, Serve, LoseIndex, vars, files
  <2> QED BY <2>1, RequestsSame
<1>5. ~Edit /\ \A r \in Clients : ~Fail(r)
  BY DEF Edit, Fail, OneRequest
<1> QED BY <1>1, <1>2, <1>3, <1>4, <1>5 DEF InboxNext
-----------------------------------------------------------------------------
(* One request at a time, put together.                                    *)

LEMMA AloneParts ==
    /\ AloneInv <=> edits = 0 /\ failures = 0 /\ RecordsFit /\ IndexFits /\ Requests /\ Sound
    /\ AloneInv' <=> edits' = 0 /\ failures' = 0 /\ RecordsFit' /\ IndexFits' /\ Requests' /\ Sound'
BY DEF AloneInv, Requests, Sound

LEMMA AloneStep ==
    ASSUME OneRequest, InboxTypeOK, Agreement, FoldIsCurrent, AloneInv, [InboxNext]_vars
    PROVE  AloneInv'
<1>1. edits = 0 /\ failures = 0 /\ RecordsFit /\ IndexFits /\ Requests /\ Sound
  BY AloneParts
<1>2. RecordsFit' /\ IndexFits' /\ Requests' /\ Sound'
  BY <1>1, RecordsStep, IndexStep, RequestsStep, SoundStep
<1>3. edits' = 0 /\ failures' = 0
  <2>1. ~Edit /\ \A r \in Clients : ~Fail(r)
    BY <1>1 DEF Edit, Fail, OneRequest
  <2> QED BY <1>1, <2>1 DEF InboxNext, vars, bounds, Ask, Check, Refer, Put, Enter, Unlink, Drop,
                            Read, Reindex, Start, Serve, Crash, LoseIndex
<1> QED BY <1>2, <1>3, AloneParts

\* Before anything is asked there are no decisions, and ideas have their seeds.
LEMMA AloneStart == InboxInit => AloneInv
<1> SUFFICES ASSUME InboxInit PROVE AloneInv
  OBVIOUS
<1>0. /\ InboxTypeOK /\ eventFiles = [e \in EventIds |-> None] /\ phase = "down" /\ reading = None /\ dirty = {}
      /\ \A r \in Clients : task[r] = Idle
      /\ edits = 0 /\ failures = 0 /\ FoldInit
      /\ \A i \in Ideas : ideaFiles[i] = None \/ (ideaFiles[i] # {} /\ ideaFiles[i] \subseteq captureFiles)
  BY InboxTypeInit DEF InboxInit
<1>1. RecordsFit
  <2>1. minted = {Capture(c) : c \in captureFiles} \cup {Idea(i) : i \in {j \in Ideas : ideaFiles[j] # None}}
    BY DEF InboxInit
  <2>2. \A e \in EventIds : Decision(e) \notin minted
    BY <2>1 DEF Capture, Idea, Decision
  <2>3. \A i \in Ideas : Idea(i) \in minted => ideaFiles[i] # None
    BY <2>1 DEF Capture, Idea
  <2>4. \A record \in Records : RowOf(record) = None
    BY <1>0, RecordKinds, RowsOf DEF FoldInit
  <2>5. \A record \in Records : Written(record) => record \in minted
    BY <1>0, <2>1 DEF Written
  <2> QED BY <1>0, <2>2, <2>3, <2>4, <2>5 DEF RecordsFit, InHand
<1>2. IndexFits
  BY <1>0 DEF IndexFits
<1>3. Requests
  BY <1>0, IdleRequest DEF Requests
<1>4. \A kinds, i, C : About(eventFiles, kinds, i, C) = {}
  BY <1>0 DEF About
<1>5. ASSUME NEW i \in Ideas, ideaFiles[i] # None
      PROVE  Members(ideaFiles, eventFiles, i) = ideaFiles[i]
  BY <1>0, <1>4, <1>5 DEF Members, InboxTypeOK
<1>6. EventsFit /\ DecisionsAlternate
  BY <1>0 DEF EventsFit, DecisionsAlternate
<1>7. NeverEmpty
  BY <1>0, <1>5 DEF NeverEmpty
<1>8. EvidenceKept
  <2> SUFFICES ASSUME NEW i \in Ideas PROVE Evident(captureFiles, ideaFiles, eventFiles, i)
    BY EvidenceOne
  <2> QED BY <1>0, <1>5 DEF Evident
<1> QED BY <1>0, <1>1, <1>2, <1>3, <1>6, <1>7, <1>8, AloneParts DEF Sound

LEMMA AloneAlways == ASSUME OneRequest PROVE InboxSpec => []AloneInv
<1>1. InboxInit => InboxTypeOK /\ Agreement /\ FoldIsCurrent /\ AloneInv
  BY InboxTypeInit, AgreementInit, FoldStart, AloneStart DEF InboxInit
<1>2. InboxTypeOK /\ Agreement /\ FoldIsCurrent /\ AloneInv /\ [InboxNext]_vars
          => (InboxTypeOK /\ Agreement /\ FoldIsCurrent /\ AloneInv)'
  <2> SUFFICES ASSUME InboxTypeOK, Agreement, FoldIsCurrent, AloneInv, [InboxNext]_vars
               PROVE  (InboxTypeOK /\ Agreement /\ FoldIsCurrent /\ AloneInv)'
    OBVIOUS
  <2>1. InboxTypeOK' /\ Agreement' /\ AloneInv'
    BY InboxTypeStep, AgreementStep, AloneStep
  <2>2. FoldIsCurrent'
    BY FoldSimulation, FoldStep DEF InboxTypeOK
  <2> QED BY <2>1, <2>2
<1> QED BY <1>1, <1>2, PTL DEF InboxSpec

(* With one request at a time, whatever the watcher and the scan make of   *)
(* it, and wherever the process stops: each decision about a thing is the  *)
(* opposite of the one before, and the first the opposite of how the thing *)
(* started.                                                                *)
THEOREM DecisionsTakeTurns == ASSUME OneRequest PROVE InboxSpec => []DecisionsAlternate
<1>1. AloneInv => DecisionsAlternate
  BY DEF AloneInv
<1> QED BY <1>1, AloneAlways, PTL

(* With one request at a time, removing an idea's last connection is       *)
(* refused: no idea is left with nothing connected.                        *)
THEOREM IdeasNeverEmpty == ASSUME OneRequest PROVE InboxSpec => []NeverEmpty
<1>1. AloneInv => NeverEmpty
  BY DEF AloneInv
<1> QED BY <1>1, AloneAlways, PTL

(* With one request at a time and no watcher, deleting captures leaves no  *)
(* idea without evidence, unless it was reopened or lost a connection.     *)
THEOREM IdeasKeepEvidence == ASSUME OneRequest, ~Watched PROVE InboxSpec => []EvidenceKept
<1>1. AloneInv => EvidenceKept
  BY DEF AloneInv
<1> QED BY <1>1, AloneAlways, PTL
=============================================================================
