----------------------------- MODULE WordStats -----------------------------
(***************************************************************************)
(* What the word log answers: the words of each day and each page          *)
(* (words/stats.rs, api/words.rs, index/words.rs) and how a manuscript     *)
(* keeps its pace (pace.rs, api/pace.rs).                                  *)
(*                                                                         *)
(* A clock says when each line of the log was written; it may stand still  *)
(* or be set back.  Instants and days are integers, PerDay of the ones to  *)
(* the other, and a zone is what is added to an instant.  The manuscript   *)
(* is what a compile (module Compile) made of it: the pages it carries,    *)
(* the pages its lists name, its words, and the target and the last day    *)
(* its root names.  Tools are counted as pages are, and left out; so are   *)
(* titles and the order of the pages, which are all kept here.             *)
(***************************************************************************)
EXTENDS PageIndex, Integers

CONSTANTS
    Clocks, PerDay, Zones,
    DefaultDays, MaxDays,             \* how long a window is, and at most
    PaceDays,                         \* how many days callers ask about
    MaxProjection,
    Targets, Dues                     \* what roots say

ASSUME WordDays == /\ {PerDay, DefaultDays, MaxDays} \subseteq Nat \ {0} /\ DefaultDays <= MaxDays
                   /\ PaceDays \subseteq Nat /\ MaxProjection \in Nat
                   /\ Zones \subseteq (1 - PerDay)..(PerDay - 1)
ASSUME WordTargets == Targets \subseteq Nat /\ Dues \subseteq Int
ASSUME WordClocks == \A when \in Clocks : \A i \in DOMAIN when : when[i] \in Int

-----------------------------------------------------------------------------
(* Days and windows.                                                       *)

DayOf(x, zone) == (x + zone) \div PerDay
LocalMidnight(day, zone) == day * PerDay - zone
EndOfLocalDay(at, zone) == LocalMidnight(DayOf(at, zone) + 1, zone)

Most(a, b)  == IF a > b THEN a ELSE b
Least(a, b) == IF a < b THEN a ELSE b
Window(from, to) == [from |-> from, to |-> to]

\* Of a chart: what was not asked for ends today and is DefaultDays long.  Too
\* long a window loses its beginning.
ChartWindow(at, zone, from, to) ==
    LET end == IF to = None THEN EndOfLocalDay(at, zone) ELSE to
        begin == IF from = None THEN end - DefaultDays * PerDay ELSE from
    IN Window(Most(begin, end - MaxDays * PerDay), end)

\* Of a pace.
Asked(days) == Most(1, Least(days, MaxDays))
PaceWindow(at, zone, days) ==
    LET end == EndOfLocalDay(at, zone) IN Window(end - Asked(days) * PerDay, end)

-----------------------------------------------------------------------------
(* The chart.                                                              *)

\* Writing, and not bookkeeping.
IsWork(kind) == kind \in {"observed", "net"}

\* word_samples, of which the lines that are no work are left out.
Samples(lines, when, window) ==
    {i \in DOMAIN lines : /\ IsWork(lines[i].kind)
                          /\ window.from <= when[i] /\ when[i] < window.to}

SumOf(f, S) == FoldFunctionOnSet(+, 0, f, S)
Counted(lines, S) ==
    [added |-> SumOf([i \in DOMAIN lines |-> lines[i].added], S),
     removed |-> SumOf([i \in DOMAIN lines |-> lines[i].removed], S),
     observations |-> Cardinality(S)]
NetOf(counts) == counts.added - counts.removed

\* Every day the window touches, the last instant in it being the one before its
\* end; no more than MaxDays of them, the first ones.
Calendar(window, zone) ==
    IF window.to <= window.from THEN {}
    ELSE LET first == DayOf(window.from, zone)
         IN first..Least(DayOf(window.to - 1, zone), first + MaxDays - 1)

Chart(lines, when, window, zone, samples) ==
    [days |-> [d \in Calendar(window, zone) |->
                  Counted(lines, {i \in samples : DayOf(when[i], zone) = d})],
     pages |-> [p \in {lines[i].slug : i \in samples} |->
                  Counted(lines, {i \in samples : lines[i].slug = p})],
     totals |-> Counted(lines, samples)]

WordStatistics(lines, when, window, zone) ==
    Chart(lines, when, window, zone, Samples(lines, when, window))

-----------------------------------------------------------------------------
(* The pace.                                                               *)

\* Counting both days, in UTC.
DaysRemaining(at, due) == Most(0, DayOf(due, 0) - DayOf(at, 0) + 1)

\* The least number of days that bring `left` words at `net` words in `days` days.
Projected(left, net, days) == (left * days + net - 1) \div net

\* The day it lands on, today being the first.
Finish(at, ahead) == IF ahead \in 1..MaxProjection THEN LocalMidnight(DayOf(at, 0) + ahead - 1, 0)
                     ELSE None

\* Target or due None is a root that names none; a rate is its two halves.
Judged(at, days, book, counted) ==
    LET left == IF book.target = None THEN None ELSE book.target - book.words
        ahead == IF left # None /\ left > 0 /\ NetOf(counted) > 0
                 THEN Projected(left, NetOf(counted), days) ELSE None
    IN [remaining |-> left,
        daysRemaining |-> IF book.due = None THEN None ELSE DaysRemaining(at, book.due),
        projectedDays |-> ahead,
        projectedFinish |-> IF ahead = None THEN None ELSE Finish(at, ahead)]

\* Required where there is something left to write and a day left to write it in.
Required(verdict) ==
    IF verdict.remaining = None \/ verdict.daysRemaining = None THEN None
    ELSE IF verdict.remaining > 0 /\ verdict.daysRemaining > 0
    THEN [words |-> verdict.remaining, days |-> verdict.daysRemaining] ELSE None

\* What the book carries is counted, what its lists name and it leaves out is told
\* apart, and what they do not name is nothing to it.
PaceOf(lines, when, at, days, book, samples) ==
    LET carried == {i \in samples : lines[i].slug \in book.carried}
        left == {i \in samples : lines[i].slug \in book.named \ book.carried}
    IN [counted |-> Counted(lines, carried), uncounted |-> Counted(lines, left),
        verdict |-> Judged(at, Asked(days), book, Counted(lines, carried))]

Pace(lines, when, at, zone, days, book) ==
    PaceOf(lines, when, at, days, book, Samples(lines, when, PaceWindow(at, zone, days)))

-----------------------------------------------------------------------------
(* Properties.                                                             *)

Plus(a, b) == [added |-> a.added + b.added, removed |-> a.removed + b.removed,
               observations |-> a.observations + b.observations]
SumUp(table) == [added |-> SumOf([k \in DOMAIN table |-> table[k].added], DOMAIN table),
                 removed |-> SumOf([k \in DOMAIN table |-> table[k].removed], DOMAIN table),
                 observations |-> SumOf([k \in DOMAIN table |-> table[k].observations], DOMAIN table)]

Moments == {when[i] : when \in Clocks, i \in DOMAIN log}

\* A chart as long as may be that begins within a day touches a day more than it
\* draws, and the day it does not draw is its last.
Draws(window, zone) == Cardinality(Calendar(window, zone)) < MaxDays
                       \/ (window.from + zone) % PerDay = 0

\* words/stats.rs:28-32, 115-120: the days of a chart come to its totals and so do
\* its pages, and no day has been worked on on which nothing was written; a window
\* and the next come to both together; today is the last day of the chart a caller
\* gets who names no window, however long ago the default begins.
Holds(chart, window, at, zone) ==
    /\ Draws(window, zone) => SumUp(chart.days) = chart.totals
    /\ SumUp(chart.pages) = chart.totals
    /\ \A d \in DOMAIN chart.days :
          chart.days[d].observations <= chart.days[d].added + chart.days[d].removed
    /\ window = ChartWindow(at, zone, None, None) => DayOf(at, zone) = Max(DOMAIN chart.days)

ChartsAddUp(when, at, zone) ==
    LET totals(window) == WordStatistics(log, when, window, zone).totals
        HoldsOf(window) == Holds(WordStatistics(log, when, window, zone), window, at, zone)
        whole == ChartWindow(at, zone, Min(Moments), None)
    IN /\ HoldsOf(ChartWindow(at, zone, None, None))
       /\ \A m \in Moments :
            /\ HoldsOf(ChartWindow(at, zone, m, None)) /\ HoldsOf(ChartWindow(at, zone, None, m))
            /\ whole.from <= m /\ m < whole.to =>
                 totals(whole) = Plus(totals(Window(whole.from, m)), totals(Window(m, whole.to)))

\* What a manuscript may be: carrying some pages, of those its lists name.
Book(carried, named, target, due) ==
    [carried |-> carried, named |-> named, target |-> target, due |-> due,
     words |-> SumOf([p \in Slugs |-> IF rows[p] = None THEN 0 ELSE Size(rows[p].body)], carried)]

\* pace.rs:20-24, 160-163, 225-232: a pace and a chart of the same days count the same
\* lines, each once; what is written at the rate of the window comes to the target
\* in the days projected and not a day sooner; and the projection lands in time just
\* when the rate is the required one or better.
RatesAgree(pace, at, days, due) ==
    LET v == pace.verdict
        net == NetOf(pace.counted)
    IN /\ v.projectedDays # None =>
            /\ net * v.projectedDays >= v.remaining * Asked(days)
            /\ net * (v.projectedDays - 1) < v.remaining * Asked(days)
       /\ Required(v) # None =>
            LET enough == net * Required(v).days >= Required(v).words * Asked(days)
            IN /\ enough <=> v.projectedDays # None /\ v.projectedDays <= v.daysRemaining
               /\ v.projectedFinish # None => (enough <=> v.projectedFinish <= due)

PaceTellsTheLog(when, at, zone, days) ==
    \A carried \in SUBSET Slugs, target \in Targets \cup {None}, due \in Dues \cup {None} :
        LET all == Pace(log, when, at, zone, days, Book(carried, Slugs, target, due)) IN
        /\ RatesAgree(all, at, days, due)
        /\ WordStatistics(log, when, PaceWindow(at, zone, days), zone).totals
             = Plus(all.counted, all.uncounted)
        /\ Pace(log, when, at, zone, days, Book(carried, carried, target, due)).uncounted
             = Counted(log, {})

\* What is told of the words is the log, asked when its last line was written.
WordsAreTold ==
    Quiet /\ log # <<>> => \A when \in Clocks, zone \in Zones :
        LET now == when[Len(log)] IN
        /\ ChartsAddUp(when, now, zone)
        /\ \A days \in PaceDays : PaceTellsTheLog(when, now, zone, days)

\* What the log says was written was: no line's figures miss its series' total,
\* no words are credited twice, and nothing else is told of them.
WordsAddUp == SeriesAddsUp /\ WordsNotInvented /\ WordsAreTold
=============================================================================
