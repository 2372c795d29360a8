------------------------------ MODULE MCTimes ------------------------------
(* Four instants of two seconds; names are 1 and 2, and 0 is blank.  An hour *)
(* is a second, a day two hours, a week three days; a year begins with day 1 *)
(* in the middle of a week, and months have one day or two.                  *)
EXTENDS TimeStats

CONSTANTS p, m

Draft(n, s, e, pages, note) == [name |-> n, start |-> s, end |-> e, pages |-> pages, note |-> note]

\* A timer running since 0 and time from 1 to 2.
SomeLogs == {[i \in Ids |-> CASE i = 0 -> Draft(1, 0, None, {p}, NoNote)
                              [] i = 1 -> Draft(2, 1, 2, {}, m) [] OTHER -> None]}

\* A timer started now, time already over, an end before the start, no name.
SomeDrafts == {Draft(1, None, None, {p}, NoNote), Draft(2, 1, 3, {}, m),
               Draft(2, 3, 1, {}, NoNote), Draft(0, 0, 1, {}, NoNote)}
\* Set running again; started later; ended then, renamed and without its pages.
SomePatches == {Draft(None, None, Clear, None, None), Draft(None, 2, None, None, None),
                Draft(2, None, 1, {}, None)}
SomeEdits == {None, Garbled, Draft(1, 3, 1, {p}, m)}
MCMonths == {-5, -4, -2, 0, 1, 3, 4, 6}
MCYears == {-5, -2, 1, 4, 6}
MCOffsets == {-1, 1, 5}
\* A running entry is the shortest; nothing else tells two of them apart.
MCLength == [file \in Entries \cup {Garbled} |-> IF file # Garbled /\ file.end # None THEN 2 ELSE 1]
Interchangeable == Permutations(Clients)
=============================================================================
