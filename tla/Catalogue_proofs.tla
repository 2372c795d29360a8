-------------------------- MODULE Catalogue_proofs --------------------------
(***************************************************************************)
(* What holds of the tables, of what is told of them and of the pins, for  *)
(* every wiki and every number of requests.                                *)
(***************************************************************************)
EXTENDS CatalogueQueries, TLAPS

(***************************************************************************)
(* Hidden pages leave no trace, whatever the tables are, so long as no     *)
(* page is at an address outside the wiki.                                 *)
(***************************************************************************)

OutsideIsNoPage(t) == \A l \in t.links : l.kind = "external" => l.target \notin DOMAIN t.pages

\* The tables without the hidden pages, field by field.
IsPurged(u, t, a) ==
    /\ u.pages = [p \in Seen(t, a) |-> t.pages[p]]
    /\ u.readers = {r \in t.readers : r.slug \notin Hidden(t, a)}
    /\ u.tags = {r \in t.tags : r.slug \notin Hidden(t, a)}
    /\ u.segments = {r \in t.segments : r.slug \notin Hidden(t, a)}
    /\ u.texts = {r \in t.texts : r.slug \notin Hidden(t, a)}
    /\ u.parts = {r \in t.parts : r.slug \notin Hidden(t, a) /\ r.target \notin Hidden(t, a)}
    /\ u.links = {r \in t.links : r.slug \notin Hidden(t, a) /\ r.target \notin Hidden(t, a)}

LEMMA PurgedFields ==
    ASSUME NEW t, NEW a
    PROVE  IsPurged(Purged(t, a), t, a)
BY DEF Purged, IsPurged

\* Who is seen is seen, and nobody is hidden.
LEMMA SeenAlike ==
    ASSUME NEW t, NEW a, NEW u, IsPurged(u, t, a)
    PROVE  /\ Seen(u, a) = Seen(t, a)
           /\ Hidden(u, a) = {}
           /\ \A p \in Seen(t, a) : p \notin Hidden(t, a) /\ u.pages[p] = t.pages[p]
<1>1. \A p \in Seen(t, a) : p \notin Hidden(t, a) /\ u.pages[p] = t.pages[p]
  BY DEF Hidden, IsPurged
<1>2. ASSUME NEW p \in Seen(t, a)  PROVE Sees(u, a, p)
  <2>1. Sees(t, a, p)  BY DEF Seen
  <2>2. u.pages[p] = t.pages[p] /\ p \notin Hidden(t, a)  BY <1>1
  <2>3. ASSUME [slug |-> p, user |-> a] \in t.readers  PROVE [slug |-> p, user |-> a] \in u.readers
    BY <2>2, <2>3 DEF IsPurged
  <2> QED  BY <2>1, <2>2, <2>3 DEF Sees
<1>3. DOMAIN u.pages = Seen(t, a)  BY DEF IsPurged
<1>4. Seen(u, a) = Seen(t, a)
  <2>1. Seen(u, a) = {p \in Seen(t, a) : Sees(u, a, p)}  BY <1>3 DEF Seen
  <2> QED  BY <2>1, <1>2
<1> QED  BY <1>1, <1>3, <1>4 DEF Hidden

\* A view of the one is a view of the other.
LEMMA ViewsAlike ==
    ASSUME NEW t, NEW a, NEW u, IsPurged(u, t, a)
    PROVE  View(u, a) = View(t, a)
<1>1. VisibleLinks(u, a) = VisibleLinks(t, a)
  BY SeenAlike DEF VisibleLinks, IsPurged
<1>2. VisibleParts(u, a) = VisibleParts(t, a)
  BY SeenAlike DEF VisibleParts, IsPurged
<1> QED  BY <1>1, <1>2, SeenAlike DEF View

\* Every query gives the same of either.
LEMMA QueriesAlike ==
    ASSUME NEW t, NEW a, OutsideIsNoPage(t), NEW u, IsPurged(u, t, a), NEW v, v = View(t, a)
    PROVE  /\ \A f : Matched(u, v, f) = Matched(t, v, f)
           /\ \A S \in SUBSET v.seen : \A sort : Keys(u, S, sort) = Keys(t, S, sort)
           /\ \A S \in SUBSET v.seen : Words(u, S) = Words(t, S)
           /\ \A terms : Found(u, v, terms) = Found(t, v, terms)
           /\ TagCounts(u, v) = TagCounts(t, v)
           /\ \A p \in v.seen : TagsOf(u, p) = TagsOf(t, p)
           /\ Internal(u, v) = Internal(t, v)
           /\ External(u, v) = External(t, v)
           /\ Unwritten(u, v) = Unwritten(t, v)
           /\ \A p : p \notin Hidden(t, a) => /\ Outbound(u, v, p) = Outbound(t, v, p)
                                              /\ Inbound(u, v, p) = Inbound(t, v, p)
<1>1. /\ v.seen = Seen(t, a) /\ Unseen(t, v) = Hidden(t, a) /\ Unseen(u, v) = {}
      /\ v.links = VisibleLinks(t, a) /\ v.parts = VisibleParts(t, a)
      /\ v.joined = Joined(v.links, v.parts)
  BY DEF View, Unseen, Hidden, IsPurged
<1>2. \A p \in v.seen : p \notin Hidden(t, a) /\ u.pages[p] = t.pages[p]
  BY <1>1, SeenAlike
<1>3. ASSUME NEW p \in v.seen, NEW f  PROVE Matches(u, p, f) <=> Matches(t, p, f)
  <2>1. [slug |-> p, tag |-> f.tag] \in u.tags <=> [slug |-> p, tag |-> f.tag] \in t.tags
    BY <1>2 DEF IsPurged
  <2>2. (\E r \in u.segments : r.slug = p /\ r.segment = f.segment)
        <=> (\E r \in t.segments : r.slug = p /\ r.segment = f.segment)
    BY <1>2 DEF IsPurged
  <2> QED  BY <2>1, <2>2, <1>2 DEF Matches
<1>4. \A f : Matched(u, v, f) = Matched(t, v, f)
  BY <1>3 DEF Matched
<1>5. \A S \in SUBSET v.seen : \A sort : Keys(u, S, sort) = Keys(t, S, sort)
  BY <1>2 DEF Keys
<1>6. \A S \in SUBSET v.seen : Words(u, S) = Words(t, S)
  BY <1>2 DEF Words
<1>7. \A terms : Found(u, v, terms) = Found(t, v, terms)
  <2>1. \A p \in v.seen : \A w : [slug |-> p, term |-> w] \in u.texts <=> [slug |-> p, term |-> w] \in t.texts
    BY <1>2 DEF IsPurged
  <2> QED  BY <2>1 DEF Found
<1>8. \A p \in v.seen : \A g : [slug |-> p, tag |-> g] \in u.tags <=> [slug |-> p, tag |-> g] \in t.tags
  BY <1>2 DEF IsPurged
<1>9. \A g : Tagged(u, v, g) = Tagged(t, v, g)
  BY <1>8 DEF Tagged
<1>10. TagCounts(u, v) = TagCounts(t, v)
  BY <1>9 DEF TagCounts
<1>11. \A p \in v.seen : TagsOf(u, p) = TagsOf(t, p)
  BY <1>8 DEF TagsOf
<1>12. Internal(u, v) = Internal(t, v)
  BY <1>1, <1>2 DEF Internal, IsPurged
<1>13. External(u, v) = External(t, v)
  <2>1. \A l \in t.links : l.kind = "external" => l.target \notin Hidden(t, a)
    BY DEF OutsideIsNoPage, Hidden
  <2> QED  BY <1>2, <2>1 DEF External, IsPurged
<1>14. Unwritten(u, v) = Unwritten(t, v)
  <2>1. ASSUME NEW e \in v.joined  PROVE e.target \notin Hidden(t, a)
    <3>1. PICK r \in v.links \cup v.parts : e = Pair(r)  BY <1>1 DEF Joined
    <3>2. r.target \notin Hidden(t, a)  BY <1>1, <3>1 DEF VisibleLinks, VisibleParts
    <3> QED  BY <3>1, <3>2 DEF Pair
  <2>2. DOMAIN u.pages = v.seen  BY <1>1 DEF IsPurged
  <2> QED  BY <2>1, <2>2, <1>1 DEF Unwritten, Hidden, Seen
<1>15. ASSUME NEW p, p \notin Hidden(t, a)
       PROVE  Outbound(u, v, p) = Outbound(t, v, p) /\ Inbound(u, v, p) = Inbound(t, v, p)
  <2>1. {m \in u.links : m.slug = p /\ m.target \notin Unseen(u, v)}
        = {m \in t.links : m.slug = p /\ m.target \notin Unseen(t, v)}
    BY <1>1, <1>15 DEF IsPurged
  <2>2. {m \in u.links : m.target = p /\ m.kind # "external" /\ m.slug \in v.seen}
        = {m \in t.links : m.target = p /\ m.kind # "external" /\ m.slug \in v.seen}
    BY <1>2, <1>15 DEF IsPurged
  <2> QED  BY <2>1, <2>2 DEF Outbound, Inbound
<1> QED  BY <1>4, <1>5, <1>6, <1>7, <1>10, <1>11, <1>12, <1>13, <1>14, <1>15
\* And so does every answer.
LEMMA AnswersAlike ==
    ASSUME NEW t, NEW a, OutsideIsNoPage(t), NEW u, IsPurged(u, t, a), NEW v, v = View(t, a)
    PROVE  /\ StatsAnswer(u, v, a) = StatsAnswer(t, v, a)
           /\ \A q : LinkGraph(u, v, q) = LinkGraph(t, v, q)
           /\ \A q : ListAnswer(u, v, q) = ListAnswer(t, v, q)
           /\ \A terms, asked, from :
                 SearchAnswer(u, v, terms, asked, from) = SearchAnswer(t, v, terms, asked, from)
           /\ \A p : p \notin Hidden(t, a) => LinksAnswer(u, v, p) = LinksAnswer(t, v, p)
<1>1. /\ \A f : Matched(u, v, f) = Matched(t, v, f)
      /\ \A S \in SUBSET v.seen : \A sort : Keys(u, S, sort) = Keys(t, S, sort)
      /\ \A S \in SUBSET v.seen : Words(u, S) = Words(t, S)
      /\ \A terms : Found(u, v, terms) = Found(t, v, terms)
      /\ TagCounts(u, v) = TagCounts(t, v)
      /\ \A p \in v.seen : TagsOf(u, p) = TagsOf(t, p)
      /\ Internal(u, v) = Internal(t, v)
      /\ External(u, v) = External(t, v)
      /\ Unwritten(u, v) = Unwritten(t, v)
      /\ \A p : p \notin Hidden(t, a) => /\ Outbound(u, v, p) = Outbound(t, v, p)
                                         /\ Inbound(u, v, p) = Inbound(t, v, p)
  BY QueriesAlike
<1>2. Stats(u, v) = Stats(t, v)
  BY <1>1 DEF Stats
<1>3. StatsAnswer(u, v, a) = StatsAnswer(t, v, a)
  BY <1>2 DEF StatsAnswer
<1>4. [p \in v.seen |-> TagsOf(u, p)] = [p \in v.seen |-> TagsOf(t, p)]
  BY <1>1
<1>5. ASSUME NEW f, NEW root, NEW depth, NEW wanted, NEW limit
      PROVE  Graph(u, v, f, root, depth, wanted, limit) = Graph(t, v, f, root, depth, wanted, limit)
  <2>1. Matched(u, v, f) = Matched(t, v, f)  BY <1>1
  <2> QED  BY <2>1, <1>4 DEF Graph
<1>6. ASSUME NEW q  PROVE LinkGraph(u, v, q) = LinkGraph(t, v, q)
  <2>1. PICK f : f = [NoFilter EXCEPT !.tag = q.tag, !.prefix = q.prefix]  OBVIOUS
  <2>2. PICK depth : depth = LimitOf(q.depth, DefaultDepth, MaxDepth)  OBVIOUS
  <2>3. PICK limit : limit = LimitOf(q.limit, DefaultNodes, MaxNodes)  OBVIOUS
  <2>4. PICK wanted : wanted = Or(q.wanted, TRUE)  OBVIOUS
  <2>5. PICK root : root = q.root  OBVIOUS
  <2>6. Graph(u, v, f, root, depth, wanted, limit) = Graph(t, v, f, root, depth, wanted, limit)
    BY <1>5
  <2> DEFINE answer(tt) == [graph |-> Graph(tt, v, f, root, depth, wanted, limit), root |-> root,
                            depth |-> IF root = None THEN None ELSE depth, limit |-> limit]
  <2>7. answer(u) = answer(t)  BY <2>6
  <2>8. LinkGraph(u, v, q) = answer(u) /\ LinkGraph(t, v, q) = answer(t)
    BY <2>1, <2>2, <2>3, <2>4, <2>5, Zenon DEF LinkGraph
  <2> QED  BY <2>7, <2>8
<1>7. ASSUME NEW f, NEW sort, NEW descending, NEW limit, NEW offset
      PROVE  Listing(u, v, f, sort, descending, limit, offset)
             = Listing(t, v, f, sort, descending, limit, offset)
  <2>1. PICK all : all = Matched(t, v, f)  OBVIOUS
  <2>2. all = Matched(u, v, f) /\ all \in SUBSET v.seen  BY <1>1, <2>1 DEF Matched
  <2>3. Keys(u, all, sort) = Keys(t, all, sort) /\ Words(u, all) = Words(t, all)  BY <1>1, <2>2
  <2> QED  BY <2>1, <2>2, <2>3 DEF Listing
<1>8. [p \in v.seen |-> PageSummary(u, p)] = [p \in v.seen |-> PageSummary(t, p)]
  <2>1. ASSUME NEW p \in v.seen  PROVE PageSummary(u, p) = PageSummary(t, p)
    <3>1. u.pages[p] = t.pages[p]  BY <2>1 DEF View, IsPurged
    <3>2. TagsOf(u, p) = TagsOf(t, p)  BY <1>1, <2>1
    <3> QED  BY <3>1, <3>2 DEF PageSummary
  <2> QED  BY <2>1
<1>9. ASSUME NEW q  PROVE ListAnswer(u, v, q) = ListAnswer(t, v, q)
  <2> DEFINE limit  == LimitOf(q.limit, DefaultLimit, MaxLimit)
             offset == Or(q.offset, 0)
             sort   == Or(q.sort, "slug")
  <2>1. PICK list : list = Listing(t, v, q, sort, q.order = "desc", limit, offset)  OBVIOUS
  <2>2. list = Listing(u, v, q, sort, q.order = "desc", limit, offset)  BY <1>7, <2>1
  <2>3. PICK summary : summary = [p \in v.seen |-> PageSummary(t, p)]  OBVIOUS
  <2>4. summary = [p \in v.seen |-> PageSummary(u, p)]  BY <1>8, <2>3
  <2> DEFINE answer == [pages |-> [i \in DOMAIN list.pages |-> summary[list.pages[i]]],
                        total |-> list.total, words |-> list.words, limit |-> limit, offset |-> offset]
  <2>5. ListAnswer(t, v, q) = answer  BY <2>1, <2>3 DEF ListAnswer
  <2>6. ListAnswer(u, v, q) = answer  BY <2>2, <2>4 DEF ListAnswer
  <2> QED  BY <2>5, <2>6
<1>10. ASSUME NEW terms, NEW asked, NEW from
       PROVE  SearchAnswer(u, v, terms, asked, from) = SearchAnswer(t, v, terms, asked, from)
  <2>1. Found(u, v, terms) = Found(t, v, terms)  BY <1>1
  <2> QED  BY <2>1 DEF SearchAnswer
<1>11. ASSUME NEW p, p \notin Hidden(t, a)  PROVE LinksAnswer(u, v, p) = LinksAnswer(t, v, p)
  <2>1. Outbound(u, v, p) = Outbound(t, v, p) /\ Inbound(u, v, p) = Inbound(t, v, p)
    BY <1>1, <1>11
  <2> QED  BY <2>1 DEF LinksAnswer
<1> QED  BY <1>3, <1>6, <1>9, <1>10, <1>11

LEMMA TablesLeaveNoTrace ==
    ASSUME OutsideIsNoPage(tables)
    PROVE  HiddenPagesLeaveNoTrace
<1>1. PICK t : t = tables  OBVIOUS
<1>2. SUFFICES ASSUME NEW a \in Audiences, NEW u, u = Purged(t, a), NEW v, v = View(t, a)
               PROVE  /\ StatsAnswer(t, v, a) = StatsAnswer(u, View(u, a), a)
                      /\ \A q \in GraphQueries : LinkGraph(t, v, q) = LinkGraph(u, View(u, a), q)
                      /\ \A q \in ListQueries : ListAnswer(t, v, q) = ListAnswer(u, View(u, a), q)
                      /\ \A w \in Terms : SearchAnswer(t, v, {w}, None, 1)
                                          = SearchAnswer(u, View(u, a), {w}, None, 1)
                      /\ \A p \in Slugs \ Hidden(t, a) :
                            LinksAnswer(t, v, p) = LinksAnswer(u, View(u, a), p)
  BY <1>1 DEF HiddenPagesLeaveNoTrace
<1>3. IsPurged(u, t, a)  BY <1>2, PurgedFields
<1>4. View(u, a) = v  BY <1>2, <1>3, ViewsAlike
<1>5. OutsideIsNoPage(t)  BY <1>1
<1>6. /\ StatsAnswer(u, v, a) = StatsAnswer(t, v, a)
      /\ \A q : LinkGraph(u, v, q) = LinkGraph(t, v, q)
      /\ \A q : ListAnswer(u, v, q) = ListAnswer(t, v, q)
      /\ \A terms, asked, from :
            SearchAnswer(u, v, terms, asked, from) = SearchAnswer(t, v, terms, asked, from)
      /\ \A p : p \notin Hidden(t, a) => LinksAnswer(u, v, p) = LinksAnswer(t, v, p)
  BY <1>2, <1>3, <1>5, AnswersAlike
<1> QED  BY <1>4, <1>6
(***************************************************************************)
(* The tables hold the pages.                                              *)
(***************************************************************************)

RowsOf(rows, p) == {r \in rows : r.slug = p}

\* What the tables have of one page is what its file says.
Holds(t, p, file) ==
    /\ p \in DOMAIN t.pages <=> IsPage(file)
    /\ IsPage(file) => t.pages[p] = RowOf(file)
    /\ RowsOf(t.readers, p) = (IF IsPage(file) THEN ReaderRows(p, file) ELSE {})
    /\ RowsOf(t.tags, p) = (IF IsPage(file) THEN TagRows(p, file) ELSE {})
    /\ RowsOf(t.parts, p) = (IF IsPage(file) THEN PartRows(p, file) ELSE {})
    /\ RowsOf(t.links, p) = (IF IsPage(file) THEN LinkRows(p, file) ELSE {})
    /\ RowsOf(t.texts, p) = (IF IsPage(file) THEN TextRows(p, file) ELSE {})
    /\ RowsOf(t.segments, p) = (IF IsPage(file) THEN SegmentRows(p) ELSE {})

LEMMA TablesHoldEach ==
    TablesHoldThePages <=> \A p \in Slugs \ behind : Holds(tables, p, files[p])
<1>1. SUFFICES ASSUME NEW p \in Slugs \ behind, NEW t, t = tables, NEW page, page = files[p]
      PROVE  LET Rows(table, of) == {r \in table : r.slug = p} = (IF IsPage(page) THEN of ELSE {})
             IN (/\ p \in DOMAIN t.pages <=> IsPage(page)
                 /\ IsPage(page) => t.pages[p] = RowOf(page)
                 /\ IsPage(page) => /\ Rows(t.readers, ReaderRows(p, page))
                                    /\ Rows(t.tags, TagRows(p, page))
                                    /\ Rows(t.parts, PartRows(p, page))
                                    /\ Rows(t.links, LinkRows(p, page))
                                    /\ Rows(t.texts, TextRows(p, page))
                 /\ Rows(t.segments, SegmentRows(p))
                 /\ ~IsPage(page) => \A table \in {t.readers, t.tags, t.parts, t.links, t.texts} :
                                        Rows(table, {}))
                <=> Holds(t, p, page)
  BY Zenon DEF TablesHoldThePages
<1>2. CASE IsPage(page)   BY <1>2 DEF Holds, RowsOf
<1>3. CASE ~IsPage(page)  BY <1>3 DEF Holds, RowsOf
<1> QED  BY <1>2, <1>3

AreOf(rows, p) == \A r \in rows : r.slug = p

\* New rows of a page over its old ones leave those of the others.
LEMMA RowsOver ==
    ASSUME NEW rows, NEW p, NEW new, AreOf(new, p)
    PROVE  /\ RowsOf(OfOthers(rows, p) \cup new, p) = new
           /\ \A q : q # p => RowsOf(OfOthers(rows, p) \cup new, q) = RowsOf(rows, q)
BY DEF AreOf, OfOthers, RowsOf

LEMMA RowsGone ==
    ASSUME NEW rows, NEW p
    PROVE  /\ RowsOf(OfOthers(rows, p), p) = {}
           /\ \A q : q # p => RowsOf(OfOthers(rows, p), q) = RowsOf(rows, q)
BY DEF OfOthers, RowsOf

LEMMA RowsAreOfTheirPage ==
    ASSUME NEW p, NEW page
    PROVE  /\ AreOf(ReaderRows(p, page), p)
           /\ AreOf(TagRows(p, page), p)
           /\ AreOf(SegmentRows(p), p)
           /\ AreOf(PartRows(p, page), p)
           /\ AreOf(LinkRows(p, page), p)
           /\ AreOf(TextRows(p, page), p)
BY DEF AreOf, ReaderRows, TagRows, SegmentRows, PartRows, LinkRows, TextRows

LEMMA UpsertedHolds ==
    ASSUME NEW t, NEW p, NEW page, IsPage(page), NEW u, u = Upserted(t, p, page)
    PROVE  /\ Holds(u, p, page)
           /\ \A q, file : q # p /\ Holds(t, q, file) => Holds(u, q, file)
<1>1. /\ u.pages = WithRow(t.pages, p, RowOf(page))
      /\ u.readers = OfOthers(t.readers, p) \cup ReaderRows(p, page)
      /\ u.tags = OfOthers(t.tags, p) \cup TagRows(p, page)
      /\ u.segments = OfOthers(t.segments, p) \cup SegmentRows(p)
      /\ u.parts = OfOthers(t.parts, p) \cup PartRows(p, page)
      /\ u.links = OfOthers(t.links, p) \cup LinkRows(p, page)
      /\ u.texts = OfOthers(t.texts, p) \cup TextRows(p, page)
  BY DEF Upserted
<1>2. /\ p \in DOMAIN u.pages /\ u.pages[p] = RowOf(page)
      /\ \A q : q # p => (q \in DOMAIN u.pages <=> q \in DOMAIN t.pages)
      /\ \A q \in DOMAIN t.pages : q # p => u.pages[q] = t.pages[q]
  BY <1>1 DEF WithRow
<1>r. /\ AreOf(ReaderRows(p, page), p)
      /\ AreOf(TagRows(p, page), p)
      /\ AreOf(SegmentRows(p), p)
      /\ AreOf(PartRows(p, page), p)
      /\ AreOf(LinkRows(p, page), p)
      /\ AreOf(TextRows(p, page), p)
  BY RowsAreOfTheirPage
<1>3. /\ RowsOf(u.readers, p) = ReaderRows(p, page)
      /\ RowsOf(u.tags, p) = TagRows(p, page)
      /\ RowsOf(u.segments, p) = SegmentRows(p)
      /\ RowsOf(u.parts, p) = PartRows(p, page)
      /\ RowsOf(u.links, p) = LinkRows(p, page)
      /\ RowsOf(u.texts, p) = TextRows(p, page)
  <2>1. RowsOf(u.readers, p) = ReaderRows(p, page)  BY <1>1, <1>r DEF RowsOf, OfOthers, AreOf
  <2>2. RowsOf(u.tags, p) = TagRows(p, page)  BY <1>1, <1>r DEF RowsOf, OfOthers, AreOf
  <2>3. RowsOf(u.segments, p) = SegmentRows(p)  BY <1>1, <1>r DEF RowsOf, OfOthers, AreOf
  <2>4. RowsOf(u.parts, p) = PartRows(p, page)  BY <1>1, <1>r DEF RowsOf, OfOthers, AreOf
  <2>5. RowsOf(u.links, p) = LinkRows(p, page)  BY <1>1, <1>r DEF RowsOf, OfOthers, AreOf
  <2>6. RowsOf(u.texts, p) = TextRows(p, page)  BY <1>1, <1>r DEF RowsOf, OfOthers, AreOf
  <2> QED  BY <2>1, <2>2, <2>3, <2>4, <2>5, <2>6
<1>4. ASSUME NEW q, q # p
      PROVE  /\ RowsOf(u.readers, q) = RowsOf(t.readers, q)
             /\ RowsOf(u.tags, q) = RowsOf(t.tags, q)
             /\ RowsOf(u.segments, q) = RowsOf(t.segments, q)
             /\ RowsOf(u.parts, q) = RowsOf(t.parts, q)
             /\ RowsOf(u.links, q) = RowsOf(t.links, q)
             /\ RowsOf(u.texts, q) = RowsOf(t.texts, q)
  <2>1. RowsOf(u.readers, q) = RowsOf(t.readers, q)  BY <1>1, <1>r, <1>4 DEF RowsOf, OfOthers, AreOf
  <2>2. RowsOf(u.tags, q) = RowsOf(t.tags, q)  BY <1>1, <1>r, <1>4 DEF RowsOf, OfOthers, AreOf
  <2>3. RowsOf(u.segments, q) = RowsOf(t.segments, q)  BY <1>1, <1>r, <1>4 DEF RowsOf, OfOthers, AreOf
  <2>4. RowsOf(u.parts, q) = RowsOf(t.parts, q)  BY <1>1, <1>r, <1>4 DEF RowsOf, OfOthers, AreOf
  <2>5. RowsOf(u.links, q) = RowsOf(t.links, q)  BY <1>1, <1>r, <1>4 DEF RowsOf, OfOthers, AreOf
  <2>6. RowsOf(u.texts, q) = RowsOf(t.texts, q)  BY <1>1, <1>r, <1>4 DEF RowsOf, OfOthers, AreOf
  <2> QED  BY <2>1, <2>2, <2>3, <2>4, <2>5, <2>6
<1>5. Holds(u, p, page)  BY <1>2, <1>3 DEF Holds
<1>6. ASSUME NEW q, NEW file, q # p, Holds(t, q, file)  PROVE Holds(u, q, file)
  BY <1>2, <1>4, <1>6 DEF Holds
<1> QED  BY <1>5, <1>6

LEMMA RemovedHolds ==
    ASSUME NEW t, NEW p, NEW u, u = Removed(t, p)
    PROVE  /\ \A file : ~IsPage(file) => Holds(u, p, file)
           /\ \A q, file : q # p /\ Holds(t, q, file) => Holds(u, q, file)
<1>1. /\ u.pages = [q \in DOMAIN t.pages \ {p} |-> t.pages[q]]
      /\ u.readers = OfOthers(t.readers, p) /\ u.tags = OfOthers(t.tags, p)
      /\ u.segments = OfOthers(t.segments, p) /\ u.parts = OfOthers(t.parts, p)
      /\ u.links = OfOthers(t.links, p) /\ u.texts = OfOthers(t.texts, p)
  BY DEF Removed
<1>2. /\ p \notin DOMAIN u.pages
      /\ \A q : q # p => (q \in DOMAIN u.pages <=> q \in DOMAIN t.pages)
      /\ \A q \in DOMAIN t.pages : q # p => u.pages[q] = t.pages[q]
  BY <1>1
<1>3. /\ RowsOf(u.readers, p) = {} /\ RowsOf(u.tags, p) = {}
      /\ RowsOf(u.segments, p) = {} /\ RowsOf(u.parts, p) = {}
      /\ RowsOf(u.links, p) = {} /\ RowsOf(u.texts, p) = {}
  BY <1>1, RowsGone
<1>4. ASSUME NEW q, q # p
      PROVE  /\ RowsOf(u.readers, q) = RowsOf(t.readers, q)
             /\ RowsOf(u.tags, q) = RowsOf(t.tags, q)
             /\ RowsOf(u.segments, q) = RowsOf(t.segments, q)
             /\ RowsOf(u.parts, q) = RowsOf(t.parts, q)
             /\ RowsOf(u.links, q) = RowsOf(t.links, q)
             /\ RowsOf(u.texts, q) = RowsOf(t.texts, q)
  BY <1>1, <1>4, RowsGone
<1>5. ASSUME NEW file, ~IsPage(file)  PROVE Holds(u, p, file)
  BY <1>2, <1>3, <1>5 DEF Holds
<1>6. ASSUME NEW q, NEW file, q # p, Holds(t, q, file)  PROVE Holds(u, q, file)
  BY <1>2, <1>4, <1>6 DEF Holds
<1> QED  BY <1>5, <1>6

LEMMA NothingHeld ==
    ASSUME NEW p, NEW file, ~IsPage(file)
    PROVE  Holds(NoTables, p, file)
BY DEF Holds, NoTables, RowsOf
\* Pages are at slugs, and a link out of the wiki leads to none.
TypedTables(t) == /\ DOMAIN t.pages \subseteq Slugs
                  /\ \A l \in t.links : l.kind = "external" => l.target = Url

\* What a step takes over from the one before.
TablesInv == /\ files \in [Slugs -> Files]
             /\ TypedTables(tables)
             /\ \A p \in Slugs \ behind : Holds(tables, p, files[p])

LEMMA PagesAreFiles ==
    /\ \A page \in PageFiles : page \in Files /\ IsPage(page)
    /\ \A file \in Files : IsPage(file) <=> file \in PageFiles
    /\ None \in Files /\ ~IsPage(None)
BY CatalogueFiles DEF Files, IsPage

LEMMA UpsertedTyped ==
    ASSUME NEW t, TypedTables(t), NEW p \in Slugs, NEW page \in PageFiles
    PROVE  TypedTables(Upserted(t, p, page))
<1>1. \A l \in page.links : l.kind = "external" => l.target = Url  BY DEF PageFiles, Links
<1>2. \A r \in LinkRows(p, page) : r.kind = "external" => r.target = Url  BY <1>1 DEF LinkRows
<1>3. PICK u : u = Upserted(t, p, page)  OBVIOUS
<1>4. u.pages = WithRow(t.pages, p, RowOf(page)) /\ u.links = OfOthers(t.links, p) \cup LinkRows(p, page)
  BY <1>3 DEF Upserted
<1>5. DOMAIN u.pages \subseteq Slugs  BY <1>4 DEF WithRow, TypedTables
<1>6. \A l \in u.links : l.kind = "external" => l.target = Url
  BY <1>2, <1>4 DEF OfOthers, TypedTables
<1> QED  BY <1>3, <1>5, <1>6 DEF TypedTables

LEMMA RemovedTyped ==
    ASSUME NEW t, TypedTables(t), NEW p
    PROVE  TypedTables(Removed(t, p))
BY DEF TypedTables, Removed, OfOthers

\* A page that is written and entered.
LEMMA SaveKeeps ==
    ASSUME TablesInv, NEW p \in Slugs, NEW page \in PageFiles, Save(p, page)
    PROVE  TablesInv'
<1>1. PICK t : t = tables  OBVIOUS
<1>2. PICK u : u = Upserted(t, p, page)  OBVIOUS
<1>3. /\ files' = [files EXCEPT ![p] = page] /\ tables' = u /\ behind' = behind \ {p}
  BY <1>1, <1>2 DEF Save
<1>4. page \in Files /\ IsPage(page)  BY PagesAreFiles
<1>5. TypedTables(t) /\ \A q \in Slugs \ behind : Holds(t, q, files[q])  BY <1>1 DEF TablesInv
<1>6. files' \in [Slugs -> Files] /\ files'[p] = page /\ \A q \in Slugs \ {p} : files'[q] = files[q]
  BY <1>3, <1>4 DEF TablesInv
<1>7. TypedTables(u)  BY <1>2, <1>5, UpsertedTyped
<1>8. /\ Holds(u, p, page)
      /\ \A q, file : q # p /\ Holds(t, q, file) => Holds(u, q, file)
  BY <1>2, <1>4, UpsertedHolds
<1>9. ASSUME NEW q \in Slugs, q \notin behind'  PROVE Holds(u, q, files'[q])
  BY <1>3, <1>5, <1>6, <1>8, <1>9
<1>10. \A q \in Slugs \ behind' : Holds(tables', q, files'[q])  BY <1>3, <1>9
<1>11. TypedTables(tables')  BY <1>3, <1>7
<1> QED  BY <1>6, <1>10, <1>11 DEF TablesInv, TypedTables, Holds

\* A page that is gone from file and tables.
LEMMA TakeKeeps ==
    ASSUME TablesInv, NEW p \in Slugs, files' = [files EXCEPT ![p] = None],
           tables' = Removed(tables, p), behind' = behind \ {p}
    PROVE  TablesInv'
<1>1. PICK t : t = tables  OBVIOUS
<1>2. PICK u : u = Removed(t, p)  OBVIOUS
<1>3. tables' = u  BY <1>1, <1>2
<1>4. TypedTables(t) /\ \A q \in Slugs \ behind : Holds(t, q, files[q])  BY <1>1 DEF TablesInv
<1>5. files' \in [Slugs -> Files] /\ files'[p] = None /\ \A q \in Slugs \ {p} : files'[q] = files[q]
  BY PagesAreFiles DEF TablesInv
<1>6. TypedTables(u)  BY <1>2, <1>4, RemovedTyped
<1>7. /\ Holds(u, p, None)
      /\ \A q, file : q # p /\ Holds(t, q, file) => Holds(u, q, file)
  BY <1>2, PagesAreFiles, RemovedHolds
<1>8. ASSUME NEW q \in Slugs, q \notin behind'  PROVE Holds(u, q, files'[q])
  BY <1>4, <1>5, <1>7, <1>8
<1>9. \A q \in Slugs \ behind' : Holds(tables', q, files'[q])  BY <1>3, <1>8
<1>10. TypedTables(tables')  BY <1>3, <1>6
<1> QED  BY <1>5, <1>9, <1>10 DEF TablesInv, TypedTables, Holds

\* A page that goes somewhere else.
LEMMA MoveKeeps ==
    ASSUME TablesInv, NEW p \in Slugs, NEW q \in Slugs, NEW v, Move(v, p, q)
    PROVE  TablesInv'
<1>1. PICK t : t = tables  OBVIOUS
<1>2. PICK page : page = files[p]  OBVIOUS
<1>3. PICK r : r = Removed(t, p)  OBVIOUS
<1>4. PICK u : u = Upserted(r, q, page)  OBVIOUS
<1>5. /\ IsPage(page) /\ files' = [files EXCEPT ![p] = None, ![q] = page]
      /\ tables' = u /\ behind' = behind \ {p, q}
  BY <1>1, <1>2, <1>3, <1>4 DEF Move
<1>6. page \in PageFiles /\ page \in Files /\ None \in Files
  BY <1>2, <1>5, PagesAreFiles DEF TablesInv
<1>7. TypedTables(t) /\ \A o \in Slugs \ behind : Holds(t, o, files[o])  BY <1>1 DEF TablesInv
<1>8. /\ files' \in [Slugs -> Files] /\ files'[q] = page /\ (p # q => files'[p] = None)
      /\ \A o \in Slugs \ {p, q} : files'[o] = files[o]
  BY <1>5, <1>6 DEF TablesInv
<1>9. TypedTables(r)  BY <1>3, <1>7, RemovedTyped
<1>10. TypedTables(u)  BY <1>4, <1>6, <1>9, UpsertedTyped
<1>11. Holds(r, p, None) /\ \A o, file : o # p /\ Holds(t, o, file) => Holds(r, o, file)
  BY <1>3, PagesAreFiles, RemovedHolds
<1>12. Holds(u, q, page) /\ \A o, file : o # q /\ Holds(r, o, file) => Holds(u, o, file)
  BY <1>4, <1>5, UpsertedHolds
<1>13. ASSUME NEW o \in Slugs, o \notin behind'  PROVE Holds(u, o, files'[o])
  <2>1. CASE o = q  BY <1>8, <1>12, <2>1
  <2>2. CASE o # q /\ o = p  BY <1>8, <1>11, <1>12, <2>2
  <2>3. CASE o # q /\ o # p
    BY <1>5, <1>7, <1>8, <1>11, <1>12, <1>13, <2>3
  <2> QED  BY <2>1, <2>2, <2>3
<1>14. \A o \in Slugs \ behind' : Holds(tables', o, files'[o])  BY <1>5, <1>13
<1>15. TypedTables(tables')  BY <1>5, <1>10
<1> QED  BY <1>8, <1>14, <1>15 DEF TablesInv, TypedTables, Holds

\* What somebody with an editor left, and its entry later.
LEMMA EditKeeps ==
    ASSUME TablesInv, NEW p \in Slugs, NEW f \in Edited, Edit(p, f)
    PROVE  TablesInv'
<1>1. f \in Files  BY CatalogueFiles
<1>2. files' = [files EXCEPT ![p] = f] /\ behind' = behind \cup {p} /\ tables' = tables
  BY DEF Edit
<1>3. files' \in [Slugs -> Files] /\ \A q \in Slugs \ {p} : files'[q] = files[q]
  BY <1>1, <1>2 DEF TablesInv
<1>4. \A q \in Slugs \ behind' : Holds(tables', q, files'[q])
  <2>1. ASSUME NEW q \in Slugs \ behind'  PROVE Holds(tables, q, files'[q])
    BY <1>2, <1>3, <2>1 DEF TablesInv
  <2> QED  BY <1>2, <2>1
<1>5. TypedTables(tables')  BY <1>2 DEF TablesInv
<1> QED  BY <1>3, <1>4, <1>5 DEF TablesInv, TypedTables, Holds

LEMMA CatchKeeps ==
    ASSUME TablesInv, NEW p \in Slugs, Catch(p)
    PROVE  TablesInv'
<1>1. PICK t : t = tables  OBVIOUS
<1>2. PICK file : file = files[p]  OBVIOUS
<1>3. PICK u : u = Entered(t, p, file)  OBVIOUS
<1>4. tables' = u /\ files' = files /\ behind' = behind \ {p}  BY <1>1, <1>2, <1>3 DEF Catch
<1>5. TypedTables(t) /\ \A q \in Slugs \ behind : Holds(t, q, files[q])  BY <1>1 DEF TablesInv
<1>6. file \in Files  BY <1>2 DEF TablesInv
<1>7. /\ TypedTables(u) /\ Holds(u, p, file)
      /\ \A q, f : q # p /\ Holds(t, q, f) => Holds(u, q, f)
  <2>1. CASE IsPage(file)
    <3>1. u = Upserted(t, p, file) /\ file \in PageFiles  BY <1>3, <1>6, <2>1, PagesAreFiles DEF Entered
    <3>2. TypedTables(u)  BY <3>1, <1>5, UpsertedTyped
    <3> QED  BY <2>1, <3>1, <3>2, UpsertedHolds
  <2>2. CASE ~IsPage(file)
    <3>1. u = Removed(t, p)  BY <1>3, <2>2 DEF Entered
    <3>2. TypedTables(u)  BY <3>1, <1>5, RemovedTyped
    <3> QED  BY <2>2, <3>1, <3>2, RemovedHolds
  <2> QED  BY <2>1, <2>2
<1>8. ASSUME NEW q \in Slugs, q \notin behind'  PROVE Holds(u, q, files[q])
  BY <1>2, <1>4, <1>5, <1>7, <1>8
<1>9. \A q \in Slugs \ behind' : Holds(tables', q, files'[q])  BY <1>4, <1>8
<1>10. TypedTables(tables')  BY <1>4, <1>7
<1>11. files' \in [Slugs -> Files]  BY <1>4 DEF TablesInv
<1> QED  BY <1>9, <1>10, <1>11 DEF TablesInv, TypedTables, Holds
\* What a request makes of a page is a page.
LEMMA DraftFits ==
    ASSUME NEW d \in Drafts, NEW v \in Writers
    PROVE  [d EXCEPT !.owner = ResolveOwner(d.owner, v)] \in PageFiles
<1>1. d \in PageFiles  BY CatalogueFiles
<1>2. ResolveOwner(d.owner, v) \in Users \cup {None, Odd}
  BY <1>1 DEF ResolveOwner, PageFiles
<1> QED  BY <1>1, <1>2 DEF PageFiles

LEMMA PatchFits ==
    ASSUME NEW page \in PageFiles, NEW vis \in Visibilities \cup {Keep},
           NEW owner \in {Keep, Clear} \cup Users, NEW v \in Writers, NEW seen
    PROVE  [page EXCEPT !.vis = IF vis = Keep THEN page.vis ELSE vis,
                        !.owner = PatchOwner(page, seen, owner, v)] \in PageFiles
<1>1. page.owner \in Users \cup {None, Odd} /\ page.vis \in Visibilities \cup {"typo"}
  BY DEF PageFiles
<1>2. PatchedOwner(page, owner) \in Users \cup {None, Odd}  BY <1>1 DEF PatchedOwner
<1>3. PatchOwner(page, seen, owner, v) \in Users \cup {None, Odd}  BY <1>2 DEF PatchOwner
<1>4. (IF vis = Keep THEN page.vis ELSE vis) \in Visibilities \cup {"typo"}  BY <1>1
<1> QED  BY <1>3, <1>4 DEF PageFiles

LEMMA TablesInvInit == Init => TablesInv
<1> SUFFICES ASSUME Init  PROVE TablesInv
  OBVIOUS
<1>1. files \in [Slugs -> Files]  BY CatalogueFiles DEF Init
<1>2. TypedTables(tables)  BY DEF Init, NoTables, TypedTables
<1>3. ASSUME NEW p \in Slugs, p \notin behind  PROVE Holds(tables, p, files[p])
  <2>1. ~IsPage(files[p])  BY <1>3 DEF Init
  <2> QED  BY <2>1, NothingHeld DEF Init
<1> QED  BY <1>1, <1>2, <1>3 DEF TablesInv

LEMMA ForgetKeeps ==
    ASSUME TablesInv, Forget
    PROVE  TablesInv'
<1>1. tables' = NoTables /\ files' = files /\ behind' = {p \in Slugs : IsPage(files[p])}
  BY DEF Forget
<1>2. files' \in [Slugs -> Files]  BY <1>1 DEF TablesInv
<1>3. TypedTables(tables')  BY <1>1 DEF NoTables, TypedTables
<1>4. ASSUME NEW p \in Slugs, p \notin behind'  PROVE Holds(tables', p, files'[p])
  <2>1. ~IsPage(files[p])  BY <1>1, <1>4
  <2>2. Holds(NoTables, p, files[p])  BY <2>1, NothingHeld
  <2> QED  BY <1>1, <2>2
<1> QED  BY <1>2, <1>3, <1>4 DEF TablesInv, TypedTables, Holds

LEMMA TablesInvKept == TablesInv /\ [Next]_vars => TablesInv'
<1> SUFFICES ASSUME TablesInv, [Next]_vars  PROVE TablesInv'
  OBVIOUS
<1>1. ASSUME NEW v \in Writers, NEW p \in Slugs, NEW d \in Drafts, Create(v, p, d) \/ Replace(v, p, d)
      PROVE  TablesInv'
  <2>1. PICK page : page = [d EXCEPT !.owner = ResolveOwner(d.owner, v)]  OBVIOUS
  <2>2. page \in PageFiles  BY <2>1, DraftFits
  <2>3. Save(p, page)  BY <1>1, <2>1 DEF Create, Replace
  <2> QED  BY <2>2, <2>3, SaveKeeps
<1>2. ASSUME NEW v \in Writers, NEW p \in Slugs, NEW vis \in Visibilities \cup {Keep},
             NEW owner \in {Keep, Clear} \cup Users, Patch(v, p, vis, owner)
      PROVE  TablesInv'
  <2>1. PICK page : page = files[p]  OBVIOUS
  <2>2. PICK kept : kept = IF vis = Keep THEN page.vis ELSE vis  OBVIOUS
  <2>3. PICK seen : seen = IF kept = "typo" THEN "private" ELSE kept  OBVIOUS
  <2>4. PICK new : new = [page EXCEPT !.vis = kept, !.owner = PatchOwner(page, seen, owner, v)]
    OBVIOUS
  <2>5. IsPage(page) /\ Save(p, new)  BY <1>2, <2>1, <2>2, <2>3, <2>4 DEF Patch
  <2>6. page \in PageFiles  BY <2>1, <2>5, PagesAreFiles DEF TablesInv
  <2>7. new \in PageFiles  BY <2>2, <2>4, <2>6, PatchFits
  <2> QED  BY <2>5, <2>7, SaveKeeps
<1>3. ASSUME NEW v \in Writers, NEW p \in Slugs, Delete(v, p)  PROVE TablesInv'
  BY <1>3, TakeKeeps DEF Delete
<1>4. ASSUME NEW v \in Writers, NEW p \in Slugs, NEW q \in Slugs, Move(v, p, q)  PROVE TablesInv'
  BY <1>4, MoveKeeps
<1>5. ASSUME UNCHANGED <<files, tables, behind>>  PROVE TablesInv'
  BY <1>5 DEF TablesInv, TypedTables, Holds
<1>6. ASSUME NEW v \in Writers, NEW p \in Slugs, FindRoom(v, p)  PROVE TablesInv'
  BY <1>5, <1>6 DEF FindRoom
<1>7. ASSUME NEW p \in Slugs, Pin(p) \/ Unpin(p)  PROVE TablesInv'
  BY <1>5, <1>7 DEF Pin, Unpin
<1>8. ASSUME NEW p \in Slugs, Catch(p)  PROVE TablesInv'
  BY <1>8, CatchKeeps
<1>9. ASSUME NEW p \in Slugs, NEW f \in Edited, Edit(p, f)  PROVE TablesInv'
  BY <1>9, EditKeeps
<1>10. CASE Forget  BY <1>10, ForgetKeeps
<1>11. CASE UNCHANGED vars  BY <1>5, <1>11 DEF vars
<1> QED  BY <1>1, <1>2, <1>3, <1>4, <1>6, <1>7, <1>8, <1>9, <1>10, <1>11 DEF Next

LEMMA TablesInvHolds == Spec => []TablesInv
BY TablesInvInit, TablesInvKept, PTL DEF Spec

\* Every table has the rows of the pages last entered and no others, however
\* many files are written, moved, removed or edited by hand, and whenever the
\* index is thrown away (Index::upsert, Index::remove, Index::clear).
THEOREM TablesAreThePages == Spec => []TablesHoldThePages
<1>1. TablesInv => TablesHoldThePages  BY TablesHoldEach DEF TablesInv
<1> QED  BY <1>1, TablesInvHolds, PTL

\* The two rules of who may read a page.
LEMMA RulesAgree == TablesInv => VisibleAgreesWithReadable
<1> SUFFICES ASSUME TablesInv, NEW p \in DOMAIN tables.pages \ behind, NEW a \in Audiences
             PROVE  Sees(tables, a, p) <=> Readable(files[p], a)
  BY DEF VisibleAgreesWithReadable
<1>1. PICK t : t = tables  OBVIOUS
<1>2. PICK page : page = files[p]  OBVIOUS
<1>3. p \in Slugs /\ Holds(t, p, page)  BY <1>1, <1>2 DEF TablesInv, TypedTables
<1>4. /\ t.pages[p] = RowOf(page)
      /\ RowsOf(t.readers, p) = ReaderRows(p, page)
  BY <1>1, <1>3 DEF Holds
<1>5. t.pages[p].vis = VisibilityOf(page) /\ t.pages[p].owner = OwnerOf(page)
  BY <1>4 DEF RowOf
<1>6. ([slug |-> p, user |-> a] \in t.readers) <=> a \in page.readers
  <2>1. ([slug |-> p, user |-> a] \in t.readers) <=> [slug |-> p, user |-> a] \in RowsOf(t.readers, p)
    BY DEF RowsOf
  <2>2. ([slug |-> p, user |-> a] \in ReaderRows(p, page)) <=> a \in page.readers
    BY DEF ReaderRows
  <2> QED  BY <1>4, <2>1, <2>2
<1>7. a = Everything \/ a = Public \/ a \in Users  BY DEF Audiences
<1>8. Sees(t, a, p) <=> Readable(page, a)
  BY <1>5, <1>6, <1>7, CatalogueNames DEF Sees, Readable
<1> QED  BY <1>1, <1>2, <1>8

\* Nobody is told anything of a page hidden from them, by any list, search,
\* tag, figure, graph or link, in any wiki: who sees a page in the index is
\* who may read its file, and every answer is that of a wiki in which the
\* hidden pages were never written or named (index/audience.rs).
THEOREM HiddenPagesStayHidden == Spec => []HiddenStaysHidden
<1>1. TablesInv => OutsideIsNoPage(tables)
  BY CatalogueNames DEF TablesInv, TypedTables, OutsideIsNoPage
<1>2. TablesInv => HiddenStaysHidden
  BY <1>1, RulesAgree, TablesLeaveNoTrace DEF HiddenStaysHidden
<1> QED  BY <1>2, TablesInvHolds, PTL

\* Whatever is asked or done, the menu is the one before it with one pin taken
\* out, renamed or added at its end (index/pins.rs).
THEOREM MenuIsKept == Spec => PinsKeepTheirPlaces
<1>1. ASSUME [Next]_vars  PROVE [MenuHolds(pins, pins')]_pins
  <2>1. ASSUME pins' = pins  PROVE MenuHolds(pins, pins')
    BY <2>1 DEF MenuHolds
  <2>2. ASSUME NEW p \in Slugs, pins' = Unpinned(pins, p)  PROVE MenuHolds(pins, pins')
    BY <2>2 DEF MenuHolds
  <2>3. ASSUME NEW p \in Slugs, NEW q \in Slugs, pins' = Repinned(pins, p, q)
        PROVE  MenuHolds(pins, pins')
    BY <2>3 DEF MenuHolds, Repinned
  <2>4. ASSUME NEW p \in Slugs, pins' = WithPin(pins, p)  PROVE MenuHolds(pins, pins')
    BY <2>4 DEF MenuHolds, WithPin
  <2>5. ASSUME NEW v \in Writers, NEW p \in Slugs
        PROVE  /\ \A d : Create(v, p, d) \/ Replace(v, p, d) => MenuHolds(pins, pins')
               /\ \A vis, owner : Patch(v, p, vis, owner) => MenuHolds(pins, pins')
               /\ Delete(v, p) => MenuHolds(pins, pins')
               /\ \A q \in Slugs : Move(v, p, q) => MenuHolds(pins, pins')
               /\ FindRoom(v, p) => MenuHolds(pins, pins')
    <3>1. \A d : Create(v, p, d) \/ Replace(v, p, d) => pins' = pins  BY DEF Create, Replace
    <3>2. \A vis, owner : Patch(v, p, vis, owner) => pins' = pins  BY DEF Patch
    <3>3. Delete(v, p) => pins' = Unpinned(pins, p)  BY DEF Delete
    <3>4. \A q \in Slugs : Move(v, p, q) => pins' = Repinned(pins, p, q)  BY DEF Move
    <3>5. FindRoom(v, p) => pins' = pins  BY DEF FindRoom
    <3> QED  BY <2>1, <2>2, <2>3, <3>1, <3>2, <3>3, <3>4, <3>5
  <2>6. ASSUME NEW p \in Slugs
        PROVE  /\ Pin(p) => MenuHolds(pins, pins')
               /\ Unpin(p) => MenuHolds(pins, pins')
               /\ Catch(p) => MenuHolds(pins, pins')
               /\ \A f : Edit(p, f) => MenuHolds(pins, pins')
    BY <2>1, <2>2, <2>4 DEF Pin, Unpin, Catch, Edit
  <2>7. Forget => MenuHolds(pins, pins')  BY <2>1 DEF Forget
  <2>8. UNCHANGED vars => MenuHolds(pins, pins')  BY <2>1 DEF vars
  <2> QED  BY <1>1, <2>5, <2>6, <2>7, <2>8 DEF Next
<1> QED  BY <1>1, PTL DEF Spec, PinsKeepTheirPlaces

=============================================================================
