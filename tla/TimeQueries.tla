---------------------------- MODULE TimeQueries ----------------------------
(***************************************************************************)
(* What the time log answers: the listing with its filters, the groups,    *)
(* the totals, a page's time and the samples the statistics are made of    *)
(* (index/times.rs).  Each is one transaction over the rows.  Names are    *)
(* numbers, which stand for the order of texts; a search for a text is a   *)
(* filter on the name and the note.                                        *)
(***************************************************************************)
EXTENDS TimeLog, Sequences, FiniteSetsExt, SequencesExt

CONSTANTS TopN, DefaultLimit, MaxLimit

ASSUME QueryLimits == TopN \in Nat /\ {DefaultLimit, MaxLimit} \subseteq Nat \ {0}
ASSUME QueryNames == Names \subseteq Nat

-----------------------------------------------------------------------------
Later(a, b) == IF a > b THEN a ELSE b

Elapsed(row, at) == Later(0, (IF row.end = None THEN at ELSE row.end) - row.start)

\* Sums of nanoseconds, told in seconds.
InSeconds(nanos) == Later(nanos, 0) \div PerSecond
Total(found, at) == MapThenSumSet(LAMBDA i : Elapsed(rows[i], at), found)

Indexed == {i \in Ids : rows[i] # None}
Running(found) == {i \in found : IsRunning(rows[i])}

\* A question that names nothing: the newest first.
Anything == [query |-> None, name |-> None, page |-> None, running |-> None,
             from |-> None, to |-> None, sort |-> "start", order |-> "desc",
             limit |-> None, offset |-> 0]

\* Overlapping the window, not only starting inside it.
InWindow(row, from, to, at) ==
    /\ from = None \/ (IF row.end = None THEN at ELSE row.end) > from
    /\ to = None \/ row.start < to

Matches(row, o, at) ==
    /\ InWindow(row, o.from, o.to, at)
    /\ o.name = None \/ row.name = o.name
    /\ o.page = None \/ o.page \in row.pages
    /\ o.running = None \/ IsRunning(row) = o.running
    /\ o.query = None \/ o.query \in {row.name, row.note}

SortKey(i, o, at) == CASE o.sort = "start"    -> rows[i].start
                       [] o.sort = "name"     -> rows[i].name
                       [] o.sort = "duration" -> Elapsed(rows[i], at)

\* The order asked for, and the newest id first among equals.
Before(i, j, o, at) ==
    LET a == SortKey(i, o, at)
        b == SortKey(j, o, at)
    IN \/ IF o.order = "asc" THEN a < b ELSE a > b
       \/ a = b /\ i > j

PageOf(list, limit, offset) ==
    SubSeq(list, offset + 1, IF offset + limit < Len(list) THEN offset + limit ELSE Len(list))

ListTimes(o, at) ==
    LET found == {i \in Indexed : Matches(rows[i], o, at)}
        log == SetToSortSeq(found, LAMBDA i, j : Before(i, j, o, at))
    IN [times |-> PageOf(log, o.limit, o.offset), total |-> Cardinality(found)]

\* What a client gets: no more than the most there is for one, and told so.
\* A sort or an order nobody knows is refused.
Sorts == {"start", "name", "duration"}
LimitOf(limit) == Min({Or(limit, DefaultLimit), MaxLimit})
TimesAnswer(o, at) ==
    IF o.sort \notin Sorts \/ o.order \notin {"asc", "desc"} THEN Garbled
    ELSE [list |-> ListTimes([o EXCEPT !.limit = LimitOf(o.limit)], at), limit |-> LimitOf(o.limit)]

TotalsOf(found, at) ==
    [entries |-> Cardinality(found), groups |-> Cardinality({rows[i].name : i \in found}),
     seconds |-> InSeconds(Total(found, at)), running |-> Cardinality(Running(found)),
     first |-> IF found = {} THEN None ELSE Min({rows[i].start : i \in found}),
     last |-> IF found = {} THEN None ELSE Max({rows[i].start : i \in found})]

TimeTotals(at) == TotalsOf(Indexed, at)

\* Most time first.
TimeGroups(at) ==
    LET members(n) == {i \in Indexed : rows[i].name = n}
        names == {rows[i].name : i \in Indexed}
        before(n, m) == \/ Total(members(n), at) > Total(members(m), at)
                        \/ Total(members(n), at) = Total(members(m), at) /\ n < m
        order == SetToSortSeq(names, before)
    IN [k \in DOMAIN order |-> [name |-> order[k], totals |-> TotalsOf(members(order[k]), at)]]

PageTimes(page, at) ==
    LET attached == {i \in Indexed : page \in rows[i].pages}
        newest == SetToSortSeq(attached, LAMBDA i, j : Before(i, j, Anything, at))
    IN [totals |-> TotalsOf(attached, at), recent |-> PageOf(newest, TopN, 0)]

\* No clock here: a running entry overlaps whatever ends after it began.
TimeSamples(from, to) ==
    {i \in Indexed : (rows[i].end = None \/ rows[i].end > from) /\ rows[i].start < to}

-----------------------------------------------------------------------------
(* Properties of the answers.  They are about the rows alone; looking when  *)
(* everybody is at rest sees all the rows there can be, and sooner.         *)

Quiet == AtRest /\ edits + requests > 0

AllOfIt == [Anything EXCEPT !.limit = Cardinality(Ids)]
Orders == {[AllOfIt EXCEPT !.sort = s, !.order = d] : s \in Sorts, d \in {"asc", "desc"}}

\* A client that asks on from where the answer's own limit left it, whatever
\* limit it asked for.
AskedOn(o, limit, at) ==
    LET step == TimesAnswer([o EXCEPT !.limit = limit], at).limit
        part(k) == TimesAnswer([o EXCEPT !.limit = limit, !.offset = step * (k - 1)], at).list.times
    IN FlattenSeq([k \in 1..Cardinality(Ids) |-> part(k)])

\* Whoever pages through a listing sees every entry of it once, in its order;
\* "running" and "finished" share the log out between them; and what lasted is in
\* one of two windows that meet, or in both if it spans the seam
\* (index/times.rs:227-234).
ListingsShowTheLog ==
    Quiet => \A o \in Orders, now \in Instants :
        LET all == ListTimes(o, now)
            some(f) == ToSet(ListTimes(f, now).times)
            lasting == {i \in Indexed : Elapsed(rows[i], now) > 0}
        IN /\ ToSet(all.times) = Indexed /\ all.total = Cardinality(Indexed)
           /\ \A limit \in {None, MaxLimit + 1} : AskedOn(o, limit, now) = all.times
           /\ {some([o EXCEPT !.running = b]) : b \in BOOLEAN}
                = {Running(Indexed), Indexed \ Running(Indexed)}
           /\ \A m \in Instants :
                LET before == some([o EXCEPT !.to = m])
                    after == some([o EXCEPT !.from = m])
                IN /\ lasting \subseteq before \cup after
                   /\ {i \in lasting : i \in before /\ rows[i].start + Elapsed(rows[i], now) > m}
                        \subseteq after

\* index/times.rs:506, 541, 571-572: the parts of the log come to the whole: groups to the
\* totals but for the fraction of a second each group may drop, a page's time to
\* no more than the totals, and the samples of a window hold all that a listing of
\* it shows.
TotalsAddUp ==
    Quiet => \A now \in Instants :
    LET groups == TimeGroups(now)
        whole == TimeTotals(now)
        sum(f(_)) == MapThenSumSet(f, DOMAIN groups)
        seconds == sum(LAMBDA k : groups[k].totals.seconds)
    IN /\ Len(groups) = whole.groups
       /\ sum(LAMBDA k : groups[k].totals.entries) = whole.entries
       /\ sum(LAMBDA k : groups[k].totals.running) = whole.running
       /\ whole.seconds - seconds \in 0..Later(0, Len(groups) - 1)
       /\ \A k \in DOMAIN groups : groups[k].totals.seconds >= 0
       /\ \A p \in Pages : LET t == PageTimes(p, now) IN
            t.totals.seconds <= whole.seconds /\ Len(t.recent) <= t.totals.entries
       /\ \A a, b \in Instants :
            ToSet(ListTimes([AllOfIt EXCEPT !.from = a, !.to = b], now).times)
                \subseteq TimeSamples(a, b)
=============================================================================
