----------------------------- MODULE MCWordLog -----------------------------
(* A small instance of WordLog for TLC: two month files, and two records    *)
(* that meet in one of them, among pulls and crashes that touch either.     *)
EXTENDS WordLog, TLC

CONSTANTS m1, m2, o1, o2

MCMonthOf == (o1 :> m1) @@ (o2 :> m1)
=============================================================================
