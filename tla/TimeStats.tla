----------------------------- MODULE TimeStats -----------------------------
(***************************************************************************)
(* The statistics of the time log: what it adds up to in the day, week,    *)
(* month and year an instant is in, in the caller's offset from UTC, and   *)
(* at which hours of which weekdays (times/stats.rs, api/times.rs).        *)
(*                                                                         *)
(* The calendar is a parameter: how long an hour is, how many make a day,  *)
(* which days are Mondays and which begin a month or a year.  Days are     *)
(* numbered, and day 0 begins at instant 0, in UTC.  An edge between       *)
(* buckets is an instant, and need not be one of those the log may hold.   *)
(***************************************************************************)
EXTENDS TimeQueries

CONSTANTS
    PerHour, HoursPerDay,
    DaysPerWeek, Monday,  \* Monday is one of them
    MonthStarts, YearStarts,
    Offsets, MaxOffset    \* what callers send, in seconds, and a day of them

PerDay == PerHour * HoursPerDay

ASSUME StatsCalendar ==
    /\ {PerHour, HoursPerDay, DaysPerWeek, MaxOffset} \subseteq Nat \ {0}
    /\ PerHour % PerSecond = 0 /\ MaxOffset * PerSecond = PerDay
    /\ YearStarts \subseteq MonthStarts /\ MonthStarts \subseteq Int /\ Offsets \subseteq Int

-----------------------------------------------------------------------------
(* The calendar.                                                           *)

\* What is asked for is cut down to a day; a whole day is UTC, as no zone.
Clamped(offset) == Later(-MaxOffset, IF offset > MaxOffset THEN MaxOffset ELSE offset)
Zone(offset)    == IF Clamped(offset) \in {-MaxOffset, MaxOffset} THEN 0 ELSE Clamped(offset) * PerSecond

Midnight(day, zone) == day * PerDay - zone
Today(at, zone)     == (at + zone) \div PerDay

\* The start of the local hour, which need not be one in UTC.
HourOf(x, zone)    == (x + zone) \div PerHour
HourBegins(h, zone) == h * PerHour - zone

Weekday(day) == (day - Monday) % DaysPerWeek
Latest(days, day)  == Max({d \in days : d <= day})
Following(days, day) == Min({d \in days : d > day})

Periods == <<"day", "week", "month", "year">>

\* One more than there are buckets: hours of a day, days of a week or a month,
\* months of a year.
EdgeDays(period, today) ==
    CASE period = "week"  -> LET monday == today - Weekday(today) IN monday..(monday + DaysPerWeek)
      [] period = "month" -> Latest(MonthStarts, today)..Following(MonthStarts, today)
      [] period = "year"  -> MonthStarts \cap (Latest(YearStarts, today)..Following(YearStarts, today))

BucketEdges(period, today, zone) ==
    IF period = "day"
    THEN [i \in 1..(HoursPerDay + 1) |-> Midnight(today, zone) + (i - 1) * PerHour]
    ELSE SetToSortSeq({Midnight(day, zone) : day \in EdgeDays(period, today)}, <)

Opens(edges)  == edges[1]
Closes(edges) == edges[Len(edges)]

AllEdges(at, zone) ==
    [i \in DOMAIN Periods |-> BucketEdges(Periods[i], Today(at, zone), zone)]

\* The year's.
CoveringWindow_Year(edges) == [from |-> Opens(edges[4]), to |-> Closes(edges[4])]

\* The narrowest window with every period in it.
CoveringWindow(edges) == [from |-> Min({Opens(edges[i]) : i \in DOMAIN edges}),
                          to |-> Max({Closes(edges[i]) : i \in DOMAIN edges})]

-----------------------------------------------------------------------------
(* The sums.                                                               *)

Span(row, at) == [start |-> row.start,
                  end |-> Later(row.start, IF row.end = None THEN at ELSE row.end)]

\* Whole seconds two spans share.
Overlap(a, b) ==
    LET start == Later(a.start, b.start)
        end   == IF a.end < b.end THEN a.end ELSE b.end
    IN Later(0, end - start) \div PerSecond

Between(from, to) == [start |-> from, end |-> to]

\* Most time first, then in the order of names, and no more than TopN.  Pages are
\* ranked alike; below they are all kept, in no order.
Ranked(tally) ==
    LET before(a, b) == \/ tally[a].seconds > tally[b].seconds
                        \/ tally[a].seconds = tally[b].seconds /\ a < b
        order == SetToSortSeq(DOMAIN tally, before)
    IN [k \in 1..(IF TopN < Len(order) THEN TopN ELSE Len(order)) |-> tally[order[k]]]

SumOver(S, f) == FoldFunctionOnSet(+, 0, f, S)

\* What a key's entries come to.
Tally(keys, entriesOf, inside) ==
    [key \in keys |-> [seconds |-> SumOver(entriesOf[key], inside),
                       entries |-> Cardinality(entriesOf[key])]]

\* Of spans, and what of each is inside the edges.
Summed(edges, spans, inside, counted) ==
    LET names == {rows[i].name : i \in counted}
        pages == UNION {rows[i].pages : i \in counted}
    IN [from |-> Opens(edges), to |-> Closes(edges),
        seconds |-> SumOver(counted, inside), entries |-> Cardinality(counted),
        names |-> Ranked(Tally(names, [n \in names |-> {i \in counted : rows[i].name = n}], inside)),
        pages |-> Tally(pages, [p \in pages |-> {i \in counted : p \in rows[i].pages}], inside),
        buckets |-> [b \in 1..(Len(edges) - 1) |->
                        SumOver(counted, [i \in counted |->
                            Overlap(spans[i], Between(edges[b], edges[b + 1]))])]]

WithInside(edges, spans, inside) ==
    Summed(edges, spans, inside, {i \in DOMAIN spans : inside[i] # 0})

PeriodStats(edges, spans) ==
    WithInside(edges, spans, [i \in DOMAIN spans |->
                                Overlap(spans[i], Between(Opens(edges), Closes(edges)))])

\* What a span gives each hour it touches, hour by hour.
HourSeconds(span, h, zone) ==
    Overlap(span, Between(HourBegins(h, zone), HourBegins(h + 1, zone)))

Cut(span, window) == Between(Later(span.start, window.from),
                             IF span.end < window.to THEN span.end ELSE window.to)
Lit(span, zone) == IF span.start < span.end
                   THEN HourOf(span.start, zone)..HourOf(span.end - 1, zone) ELSE {}
CellOf(h) == <<Weekday(h \div HoursPerDay), h % HoursPerDay>>
CellSeconds(spans, cell, zone) ==
    MapThenSumSet(LAMBDA i : MapThenSumSet(LAMBDA h : HourSeconds(spans[i], h, zone),
                                           {h \in Lit(spans[i], zone) : CellOf(h) = cell}),
                  DOMAIN spans)

Heatmap(spans, window, zone) ==
    [cell \in (0..(DaysPerWeek - 1)) \X (0..(HoursPerDay - 1)) |->
        CellSeconds([i \in DOMAIN spans |-> Cut(spans[i], window)], cell, zone)]

Spans(samples, at) == [i \in samples |-> Span(rows[i], at)]

Build(edges, spans, zone) ==
    [periods |-> [k \in DOMAIN edges |-> PeriodStats(edges[k], spans)],
     heatmap |-> Heatmap(spans, [from |-> Opens(edges[4]), to |-> Closes(edges[4])], zone)]

\* Loaded once, for the widest window any period needs.
Loaded(window, at) == Spans(TimeSamples(window.from, window.to), at)

TimeStatistics(edges, at, offset) ==
    Build(edges, Loaded(CoveringWindow(edges), at), Zone(offset))

-----------------------------------------------------------------------------
(* Properties of the statistics.                                           *)

\* times/stats.rs:5-20, 266-272: in any offset, what was loaded for the window is
\* all the statistics tell of; a period's time is its activities' and, but for the
\* fraction of a second each cut may drop, its buckets', and the year's the heat
\* map's; a day is no more than its week, month or year; what is said of the hours
\* of today is on the heat map's squares for them.
SumsHold(told, at, today) ==
    LET day  == told.periods[1]
        year == told.periods[4]
        sum(list) == SumOver(DOMAIN list, [k \in DOMAIN list |-> list[k].seconds])
        total(counts) == SumOver(DOMAIN counts, counts)
    IN /\ \A k \in DOMAIN told.periods : LET shown == told.periods[k] IN
            /\ at \in shown.from..(shown.to - 1)
            /\ shown.seconds - total(shown.buckets) \in 0..(shown.entries * (Len(shown.buckets) - 1))
            /\ Len(shown.names) < TopN => sum(shown.names) = shown.seconds
            /\ sum(shown.pages) <= shown.seconds * Cardinality(Pages)
            /\ day.seconds <= shown.seconds /\ day.entries <= shown.entries
       /\ told.periods[3].seconds <= year.seconds
       /\ total(told.heatmap) <= year.seconds
       /\ \A h \in 0..(HoursPerDay - 1) : day.buckets[h + 1] <= told.heatmap[<<today, h>>]

StatisticsHold(edges, at, offset) ==
    /\ SumsHold(TimeStatistics(edges, at, offset), at, Weekday(Today(at, Zone(offset))))
    /\ TimeStatistics(edges, at, offset) = Build(edges, Spans(Indexed, at), Zone(offset))

StatisticsAddUp ==
    Quiet => \A at \in Instants, offset \in Offsets :
                StatisticsHold(AllEdges(at, Zone(offset)), at, offset)

\* What is told of the log is the log, row by row, listed and summed up.
TheLogIsShown == RowsMatchEntries /\ ListingsShowTheLog /\ TotalsAddUp /\ StatisticsAddUp
=============================================================================
