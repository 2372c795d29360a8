---------------------------- MODULE MCManuscript ----------------------------
(* Small books.  k1 is the root of most; x is no slug. *)
EXTENDS Manuscript

CONSTANTS k1, k2, k3, x, u1, u2, u3, u4

Page(body, parts, compiled, readers) ==
    [body |-> body, parts |-> parts, compiled |-> compiled, readers |-> readers]
Wiki(a, b, c) == [p \in Slugs |-> IF p = k1 THEN a ELSE IF p = k2 THEN b ELSE c]

\* A root and its list; a second page that is a leaf or assembles others; a third.
Roots == {Page(<<u1>>, list, TRUE, "all") : list \in {<<k3, k2>>, <<k2, k3, k2>>, <<k2, x>>}}
         \cup {Page(<<u1>>, <<k2>>, TRUE, "other")}
Seconds == {Page(<<u2, u3>>, None, FALSE, "all"), Page(<<u2, u3>>, None, TRUE, "mine"),
            Page(<<u2, u3>>, <<k3, k1>>, TRUE, "all"), Page(<<u2, u3>>, <<k3, k2>>, FALSE, "all")}
Thirds == {None, Garbled, Page(<<u4>>, <<k2, k2>>, TRUE, "mine"), Page(<<u4>>, None, TRUE, "all")}

Books == {Wiki(a, b, c) : a \in Roots, b \in Seconds, c \in Thirds}
=============================================================================
