----------------------------- MODULE IdeaViews -----------------------------
(***************************************************************************)
(* What the idea inbox answers: the captures and the ideas, listed and one *)
(* by one, where the rules put an idea and why, what a capture might       *)
(* belong with, and the page an idea would make (index/ideas.rs,           *)
(* ideas/lifecycle.rs, ideas/analysis.rs, api/ideas.rs).                   *)
(*                                                                         *)
(* Days are instants.  Texts are not kept: a search is the set of captures *)
(* it matches, and how alike texts are is a parameter, Likeness, of all    *)
(* the captures there are, one of them, and those its text is held         *)
(* against; the terms that speak for it are left out.  A receipt names its *)
(* windows by what is in them.  An answer put together from several reads  *)
(* is given here of one moment.                                            *)
(***************************************************************************)
EXTENDS IdeaInbox, Integers, FiniteSetsExt

CONSTANTS
    RecentDays, WindowDays, DormantDays,
    Burst, MaxBase, ActiveMomentum, MaxMomentum,
    DefaultLimit, MaxLimit, MaxCandidates,
    Rank,               \* ids, as text, by what they name
    Likeness(_, _, _), Threshold,
    Wordless, Blank,    \* captures with no terms, or with nothing but spaces
    Nows                \* instants answers are asked about

Lists == INSTANCE SequencesExt

ASSUME IdeaRules ==
    /\ {RecentDays, WindowDays, DormantDays, Burst, MaxBase, ActiveMomentum, MaxMomentum,
        DefaultLimit, MaxLimit, MaxCandidates} \subseteq Nat \ {0}
    /\ RecentDays < WindowDays /\ WindowDays < DormantDays
    /\ Nows \subseteq Nat
ASSUME IdeaIds == \A a, b \in Captures \cup Ideas :
                      Rank[a] \in Nat /\ (Rank[a] = Rank[b] => a = b)
ASSUME IdeaTexts == Blank \subseteq Wordless /\ Wordless \subseteq Captures
\* A cosine is one from either side.
ASSUME LikenessIsMutual ==
    \A all \in SUBSET Captures : \A c, d \in all : Likeness(all, c, {d}) = Likeness(all, d, {c})

-----------------------------------------------------------------------------
(* Listings.                                                               *)

NotFound == "not chosen"
Garbled  == "invalid parameter"

Least(a, b) == IF a < b THEN a ELSE b
LimitOf(limit) == Least(IF limit = None THEN DefaultLimit ELSE limit, MaxLimit)

Sorted(S, before(_, _)) == Lists!SetToSortSeq(S, before)
PageOf(list, limit, offset) ==
    Lists!SubSeq(list, offset + 1, Least(offset + limit, Lists!Len(list)))

OldestFirst(a, b) == Rank[a] < Rank[b]

Owned   == {c \in Captures : captures[c] # None}
Threads == {i \in Ideas : threads[i] # None}

CaptureRecord(c) ==
    IF c \notin Owned THEN NotFound
    ELSE [id |-> c, created |-> captures[c], archived |-> c \in archived]

AnyCapture == [query |-> None, archived |-> None, from |-> None, to |-> None,
               limit |-> None, offset |-> 0]

CaptureMatches(c, o) ==
    /\ o.query = None \/ c \in o.query
    /\ o.archived = None \/ (c \in archived) = o.archived
    /\ o.from = None \/ captures[c] >= o.from
    /\ o.to = None \/ captures[c] <= o.to

CaptureBefore(c, d) ==
    \/ captures[c] > captures[d]
    \/ captures[c] = captures[d] /\ OldestFirst(d, c)

ListCaptures(o) ==
    LET chosen == {c \in Owned : CaptureMatches(c, o)}
    IN [captures |-> PageOf(Sorted(chosen, CaptureBefore), LimitOf(o.limit), o.offset),
        total |-> Cardinality(chosen), limit |-> LimitOf(o.limit)]

-----------------------------------------------------------------------------
(* Where an idea stands.                                                   *)

Affirming == {"interest_affirmed", "idea_reopened"}
EventsOf(i, kinds) ==
    {e \in EventIds : events[e] # None /\ events[e].idea = i /\ events[e].kind \in kinds}

Evidence(i) ==
    [retired |-> standing[i].retired, signal |-> standing[i].signal,
     captures |-> Live(i), missing |-> membership[i] \ Live(i),
     affirmations |-> EventsOf(i, Affirming)]

\* The latest dismissal is no rule's business.
Summary(i) ==
    [members |-> Cardinality(Live(i)), missing |-> Cardinality(membership[i] \ Live(i)),
     retired |-> standing[i].retired, promoted |-> standing[i].promoted,
     signal |-> standing[i].signal,
     dismissed |-> Newest(EventsOf(i, {"rediscovery_dismissed"}))]

IdeaState(i) ==
    IF i \notin Threads THEN NotFound
    ELSE [members |-> Sorted(Live(i), OldestFirst),
          missing |-> Sorted(membership[i] \ Live(i), OldestFirst),
          rejected |-> Sorted(rejections[i], OldestFirst),
          retired |-> standing[i].retired, promoted |-> standing[i].promoted,
          signal |-> standing[i].signal]

\* Of an idea's state, and of its summary.
StateLacksEvidence(state) == ~state.retired /\ state.members = <<>>
SummaryLacksEvidence(summary) == ~summary.retired /\ summary.members = 0

Within(x, from, at) == from <= x /\ x <= at

\* What is in the window of so many days that ends at `at`.
CapturesIn(evidence, days, at) ==
    {c \in evidence.captures : Within(captures[c], at - days, at)}
AffirmationsIn(evidence, days, at) ==
    {e \in evidence.affirmations : Within(e, at - days, at)}

BaseOf(evidence) == Least(Cardinality(evidence.captures), MaxBase)
RecencyOf(evidence, at) ==
    IF Cardinality(CapturesIn(evidence, RecentDays, at)) >= Burst THEN 2
    ELSE IF CapturesIn(evidence, WindowDays, at) # {} THEN 1 ELSE 0
AffirmationOf(evidence, at) == IF AffirmationsIn(evidence, WindowDays, at) # {} THEN 1 ELSE 0

Momentum(evidence, at) ==
    Least(BaseOf(evidence) + RecencyOf(evidence, at) + AffirmationOf(evidence, at), MaxMomentum)

\* In this order, and the order is the rule.
Lifecycle(evidence, at, momentum) ==
    IF evidence.retired THEN "retired"
    ELSE IF \E s \in evidence.signal : s <= at - DormantDays THEN "dormant"
    ELSE IF Cardinality(evidence.captures) = 1 THEN "new"
    ELSE IF momentum >= ActiveMomentum THEN "active" ELSE "recurring"

States == {"retired", "dormant", "new", "active", "recurring"}
Integrities == {"sound", "evidence_missing"}

\* No state and no momentum where there is nothing to derive them from.
Told(integrity, state, momentum, evidence, at) ==
    [integrity |-> integrity, state |-> state, momentum |-> momentum,
     recent14 |-> CapturesIn(evidence, RecentDays, at),
     recent30 |-> CapturesIn(evidence, WindowDays, at),
     affirmed |-> AffirmationsIn(evidence, WindowDays, at)]

Assess(evidence, at) ==
    IF ~evidence.retired /\ evidence.captures = {}
    THEN Told("evidence_missing", None, None, evidence, at)
    ELSE Told("sound", Lifecycle(evidence, at, Momentum(evidence, at)),
                   Momentum(evidence, at), evidence, at)

Receipt(i, at) == IF i \in Threads THEN Assess(Evidence(i), at) ELSE NotFound

IdeaView(i, at) ==
    IF i \notin Threads THEN NotFound
    ELSE [folded |-> IdeaState(i), captures |-> Sorted(Live(i), OldestFirst),
          receipt |-> Receipt(i, at), dismissed |-> Summary(i).dismissed]

-----------------------------------------------------------------------------
(* The ideas, newest signal first and those without one last.              *)

AnyIdea == [state |-> None, integrity |-> None, limit |-> None, offset |-> 0]

IdeaMatches(receipt, o) == /\ o.state = None \/ receipt.state = o.state
                           /\ o.integrity = None \/ receipt.integrity = o.integrity

SignalOf(i) == IF standing[i].signal = {} THEN -1 ELSE Max(standing[i].signal)
IdeaBefore(i, j) == \/ SignalOf(i) > SignalOf(j)
                    \/ SignalOf(i) = SignalOf(j) /\ OldestFirst(j, i)

\* Every idea is assessed before any is left out.
ListIdeas(o, at) ==
    LET chosen == {i \in Threads : IdeaMatches(Receipt(i, at), o)}
    IN [ideas |-> PageOf(Sorted(chosen, IdeaBefore), LimitOf(o.limit), o.offset),
        total |-> Cardinality(chosen), limit |-> LimitOf(o.limit)]

IdeasAnswer(o, at) ==
    IF o.state \in States \cup {None} /\ o.integrity \in Integrities \cup {None}
    THEN ListIdeas(o, at) ELSE Garbled

-----------------------------------------------------------------------------
(* What a capture might belong with.                                       *)

\* The captures of ideas that are not retired.
Threaded == UNION {Live(i) : i \in {j \in Threads : ~standing[j].retired}}

IdeasLike(c) ==
    {i \in Threads :
        /\ ~standing[i].retired
        /\ c \notin Live(i) /\ c \notin rejections[i]
        /\ Live(i) \ Wordless # {}
        /\ Likeness(Owned, c, Live(i) \ Wordless) >= Threshold}

CapturesLike(c) ==
    {d \in Owned \ (Threaded \cup Wordless \cup {c}) :
        {c, d} \notin pairs /\ Likeness(Owned, c, {d}) >= Threshold}

Similarity(c, target) ==
    Likeness(Owned, c, IF target[1] = "idea" THEN Live(target[2]) \ Wordless ELSE {target[2]})

\* The likest first, ideas before captures among equals, and the oldest first.
TargetBefore(c, s, t) ==
    \/ Similarity(c, s) > Similarity(c, t)
    \/ /\ Similarity(c, s) = Similarity(c, t)
       /\ IF s[1] = t[1] THEN OldestFirst(s[2], t[2]) ELSE s[1] = "idea"

TargetsOf(c) == IF c \in Wordless THEN {}
                ELSE {Idea(i) : i \in IdeasLike(c)} \cup {Capture(d) : d \in CapturesLike(c)}

Candidates(c) ==
    IF c \notin Owned THEN NotFound
    ELSE PageOf(Sorted(TargetsOf(c), LAMBDA s, t : TargetBefore(c, s, t)), MaxCandidates, 0)

-----------------------------------------------------------------------------
(* The page an idea would make.                                            *)

Draft(i) ==
    IF i \notin Threads THEN NotFound
    ELSE [sources |-> Sorted(Live(i) \ Blank, OldestFirst),
          missing |-> Sorted(membership[i] \ Live(i), OldestFirst),
          promoted |-> standing[i].promoted]

-----------------------------------------------------------------------------
(* Properties of the answers.  They are about the tables alone, and are     *)
(* looked at when everybody is at rest.                                     *)

Resting == phase = "up" /\ dirty = {} /\ reading = None /\ \A r \in Clients : task[r] = Idle

(* index/ideas.rs:127-131, 150-154, 255-265, ideas/lifecycle.rs:321: four    *)
(* places work out whether an idea has anything left to stand on, from      *)
(* three queries, and agree; a deletion is refused just where it would take *)
(* the last of it.                                                          *)
RepairsAgree ==
    \A i \in Threads :
        LET lacking == Receipt(i, clock).integrity = "evidence_missing"
            without(c) == [Evidence(i) EXCEPT !.captures = @ \ {c}]
        IN /\ lacking <=> StateLacksEvidence(IdeaState(i))
           /\ lacking <=> SummaryLacksEvidence(Summary(i))
           /\ \A c \in Owned : DependsOn(i, c) <=>
                ~lacking /\ Assess(without(c), clock).integrity = "evidence_missing"

(* ideas/lifecycle.rs:296-399: an idea called dormant has been heard of in   *)
(* none of the windows its receipt shows: what the fold says was the last   *)
(* sign of life is none older than what the receipt counts.  Time alone     *)
(* takes momentum away and never gives it, and wakes nothing.               *)
TimeOnlyTakes ==
    \A i \in Threads : \A at \in Nows :
        LET told == Receipt(i, at)
            evidence == Evidence(i)
            counted == {captures[c] : c \in evidence.captures} \cup evidence.affirmations
            past == \A x \in counted : x <= at
        IN /\ told.state = "dormant" =>
                /\ told.recent30 = {} /\ told.affirmed = {}
                /\ told.momentum = BaseOf(evidence)
           /\ past => \A later \in {n \in Nows : n > at} :
                LET then == Receipt(i, later) IN
                /\ then.integrity = told.integrity
                /\ told.momentum # None => then.momentum <= told.momentum
                /\ told.state \in {"retired", "dormant"} => then.state = told.state

\* All a listing holds, asked for a page at a time.
Paged(answer(_, _), part(_), limit, most) ==
    Lists!FlattenSeq([k \in 1..most |-> part(answer(limit, (k - 1) * answer(limit, 0).limit))])

(* "total counts what matched and paging through it reaches every one of    *)
(* them" (api/ideas.rs:1254-1256): at any instant, the states and what has   *)
(* none share the ideas out between them, and none that is awake is listed  *)
(* after a dormant one.                                                     *)
IdeasAreListed ==
    \A at \in Nows :
        LET answer(limit, offset) ==
                IdeasAnswer([AnyIdea EXCEPT !.limit = limit, !.offset = offset], at)
            ideas(told) == told.ideas
            some(state, integrity) ==
                LET told == IdeasAnswer([state |-> state, integrity |-> integrity,
                                         limit |-> MaxLimit, offset |-> 0], at)
                IN told.total
            order == Sorted(Threads, IdeaBefore)
        IN /\ \A limit \in {None, MaxLimit + 1} :
                Paged(answer, ideas, limit, Cardinality(Ideas)) = order
           /\ \A j, k \in DOMAIN order : j < k /\ Receipt(order[j], at).state = "dormant" =>
                Receipt(order[k], at).state \in {"dormant", "retired", None}
           /\ Cardinality(Threads) = MapThenSumSet(LAMBDA s : some(s, "sound"), States)
                                        + some(None, "evidence_missing")
           /\ \A s \in States : some(s, "evidence_missing") = 0

(* The inbox and what has been archived out of it (api/ideas.rs:517-518) are  *)
(* all the captures there are.                                              *)
CapturesAreListed ==
    LET answer(limit, offset) ==
            ListCaptures([AnyCapture EXCEPT !.limit = limit, !.offset = offset])
        chosen(told) == told.captures
        some(b) == ListCaptures([AnyCapture EXCEPT !.archived = b]).total
    IN /\ \A limit \in {None, MaxLimit + 1} :
            Paged(answer, chosen, limit, Cardinality(Captures)) = Sorted(Owned, CaptureBefore)
       /\ some(TRUE) + some(FALSE) = Cardinality(Owned)

(* "Every candidate is a question", and the answer is to connect, to name a *)
(* new idea, or to say no and not be asked again (api/ideas.rs:1151-1154,     *)
(* ideas/analysis.rs:413-418): each is one the handlers would record, none is *)
(* of captures that are together in an idea still alive, and of two loose   *)
(* captures each is suggested for the other or one has likelier ones.       *)
SuggestionsCanBeTaken ==
    \A c \in Owned : \A k \in DOMAIN Candidates(c) :
        LET t == Candidates(c)[k] IN
        /\ t[1] = "idea" =>
              MayConnect(t[2], c) /\ MayReject(t[2], {c}) /\ ~MayReopen(t[2])
        /\ t[1] = "capture" =>
              LET d == t[2] IN
              /\ d \in Owned \ {c} /\ MayReject(None, {c, d})
              /\ ~\E i \in Threads : {c, d} \subseteq membership[i] /\ ~standing[i].retired
              /\ \/ c \in Threaded \/ Capture(c) \in Lists!ToSet(Candidates(d))
                 \/ Cardinality(DOMAIN Candidates(d)) = MaxCandidates

(* api/ideas.rs:1823-1836: a draft accounts for each capture an idea holds   *)
(* once, and an idea in no need of repair makes a page of something, unless *)
(* all it holds is blank.                                                   *)
DraftsAreWhole ==
    \A i \in Threads :
        LET draft == Draft(i) IN
        /\ Lists!ToSet(draft.sources) \cup Lists!ToSet(draft.missing)
                = membership[i] \ (Live(i) \cap Blank)
        /\ Lists!Len(draft.sources) + Lists!Len(draft.missing)
                = Cardinality(membership[i] \ (Live(i) \cap Blank))
        /\ Receipt(i, clock).integrity = "sound" /\ ~standing[i].retired
                /\ ~(Live(i) \subseteq Blank) => draft.sources # <<>>

(* The answers agree with each other and with what the handlers allow: what *)
(* a user reads off one, another does not gainsay.                          *)
InboxIsTold ==
    Resting => /\ RepairsAgree /\ TimeOnlyTakes
               /\ IdeasAreListed /\ CapturesAreListed
               /\ SuggestionsCanBeTaken /\ DraftsAreWhole

(* What everybody can rely on: the tables are the files, and the answers    *)
(* agree on the tables.                                                     *)
InboxIsServed == InboxMatchesFiles /\ InboxIsTold

(* What one user at a time can rely on: decisions that mean something where *)
(* they stand, ideas with something to be about, and answers that say so.   *)
IdeasHoldTogether == DecisionsAlternate /\ NeverEmpty /\ EvidenceKept /\ InboxIsTold
=============================================================================
