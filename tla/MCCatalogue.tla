---------------------------- MODULE MCCatalogue ----------------------------
(* A wiki of three slugs, one in a directory of another's name, and a few  *)
(* ways it may have been left.                                             *)
EXTENDS CatalogueQueries

CONSTANTS north, south, ann, bob, g, w

Top1 == <<north>>
Sub  == <<north, south>>
Side == <<south>>
MCSlugs == {Top1, Sub, Side}
MCRank == [p \in MCSlugs |-> IF p = Top1 THEN 1 ELSE IF p = Sub THEN 2 ELSE 3]

Link(p, kind) == [target |-> p, kind |-> kind]
Page(vis, owner, readers, n, tags, links, parts) ==
    [vis |-> vis, owner |-> owner, readers |-> readers, title |-> n % 2, stage |-> n % 3,
     words |-> n, tags |-> tags, terms |-> IF n = 1 THEN {} ELSE {w}, links |-> links, parts |-> parts]

Wiki(a, b, c) == [p \in MCSlugs |-> IF p = Top1 THEN a ELSE IF p = Sub THEN b ELSE c]

\* A book that lists and links to the others; a page of ann's or for ann only;
\* a page that links back, whose owner may be misspelt.
Books  == {Page("internal", ann, {}, 3, {g}, {Link(Sub, "wiki"), Link(Side, "internal"), Link(Url, "external")},
                <<Side, NoSlug, Sub>>)}
Inner  == {Page(v, ann, {bob}, 2, {g}, {Link(Side, "wiki"), Link(Side, "internal")}, <<Top1>>) :
              v \in {"private", "restricted", "typo"}}
Outer  == {None, Page("public", bob, {}, 1, {}, {Link(Top1, "wiki"), Link(Side, "wiki")}, <<>>),
           Page("internal", Odd, {}, 1, {g}, {Link(Sub, "wiki")}, <<Sub, Sub>>)}

MCWikis == {Wiki(a, b, c) : a \in Books, b \in Inner, c \in Outer}
MCMenus == {<<Side, Top1>>, <<Sub>>}
MCDrafts == {Page("private", None, {}, 1, {}, {Link(Top1, "wiki")}, <<>>),
             Page("restricted", bob, {ann}, 2, {g}, {}, <<Side>>)}
MCEdited == {None, Garbled, Page("public", None, {ann}, 2, {}, {Link(Sub, "wiki")}, <<>>)}
=============================================================================
