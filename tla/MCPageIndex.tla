---------------------------- MODULE MCPageIndex ----------------------------
(* Instances of PageIndex for TLC: one page or two, of a word or two.      *)
EXTENDS WordStats, TLC

\* Some pages there before the first start.
SomePages == [Slugs -> {None, Words}]

NoOperations == {}
Everything   == {"create", "replace", "patch", "delete", "move", "reindex", "move onto itself"}

\* A line an instant, two instants to a day; and a clock that is set back.
MCZones == {-1, 0}
MCWest == {-1}
MCSetBack == {[i \in 1..20 |-> IF i < 3 THEN i + 2 ELSE i - 2]}
MCClocks == {[i \in 1..20 |-> i], [i \in 1..20 |-> IF i < 3 THEN i + 2 ELSE i - 2]}

\* Slugs are interchangeable, and so are words: no definition orders them.
Symmetry == Permutations(Slugs) \cup Permutations(Words)
=============================================================================
