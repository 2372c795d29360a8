---------------------------- MODULE MCIdeaInbox ----------------------------
(* Small instances of the idea inbox for TLC: two captures and one or two   *)
(* ideas, with windows of a few instants.                                   *)
EXTENDS IdeaViews, TLC

CONSTANTS c1, c2, i1, i2, p1

\* Requests are interchangeable.
Symmetry == Permutations(Clients)

MCBorn == (c1 :> 0) @@ (c2 :> 2)
MCRank == (c1 :> 1) @@ (c2 :> 2) @@ (i1 :> 3) @@ (i2 :> 4)

\* Two captures are alike, and as alike as an idea that holds the other; were
\* there one alone, it would be like nothing.
MCLikeness(all, c, S) == Cardinality(all \cap (S \cup {c}))
=============================================================================
