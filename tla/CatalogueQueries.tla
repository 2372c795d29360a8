-------------------------- MODULE CatalogueQueries --------------------------
(***************************************************************************)
(* What the index answers about pages and to whom: the listing, search     *)
(* and tags (index/mod.rs, index/graph.rs), the links of a page, the link  *)
(* graph and the statistics (index/graph.rs, index/audience.rs).           *)
(*                                                                         *)
(* A query is an operator of the tables as an audience sees them, a View,  *)
(* and an answer is what a handler makes of it: defaults, limits, and what *)
(* it leaves out.  Slugs are ordered as text by Rank.  Titles, creation    *)
(* and modification times are sorted alike, and one of them stands for the *)
(* three; search results come by relevance, which is left out, and so is   *)
(* which of them a limit cuts off.                                         *)
(***************************************************************************)
EXTENDS Catalogue, FiniteSetsExt

CONSTANTS
    Rank,        \* each slug's place in the order of slugs
    Segments,    \* directories a caller may name
    DefaultDepth, MaxDepth, DefaultNodes, MaxNodes, \* of the graph
    DefaultLimit, MaxLimit, DefaultHits, MaxHits,   \* of listing and search
    TopN

ASSUME QueriesOrder ==
    /\ Rank \in [Slugs -> Nat] /\ IsInjective(Rank) /\ "external" \in Kinds
    /\ {DefaultDepth, MaxDepth, DefaultNodes, MaxNodes, DefaultLimit, MaxLimit,
        DefaultHits, MaxHits, TopN} \subseteq Nat

-----------------------------------------------------------------------------
(* Who sees what.                                                          *)

\* VISIBLE
Sees(t, a, p) ==
    LET row == t.pages[p] IN
    \/ a = Everything
    \/ row.vis = "public"
    \/ /\ a \in Users
       /\ \/ row.vis = "internal"
          \/ row.owner = a
          \/ row.vis = "restricted" /\ [slug |-> p, user |-> a] \in t.readers

Seen(t, a)   == {p \in DOMAIN t.pages : Sees(t, a, p)}
Hidden(t, a) == DOMAIN t.pages \ Seen(t, a)

VisibleLinks(t, a) ==
    {l \in t.links : l.kind # "external" /\ l.slug \in Seen(t, a) /\ l.target \notin Hidden(t, a)}

\* Whatever is named, so long as the page that names it is seen.
VisibleParts_Naming(t, a) == {r \in t.parts : r.isSlug /\ r.slug \in Seen(t, a)}

VisibleParts(t, a) ==
    {r \in t.parts : r.isSlug /\ r.slug \in Seen(t, a) /\ r.target \notin Hidden(t, a)}

\* Everything that joins two pages, once for each two.
Pair(r) == [source |-> r.slug, target |-> r.target]
Joined(links, parts) == {Pair(r) : r \in links \cup parts}

\* What an audience's queries are over, beside the tables.
View(t, a) ==
    LET links == VisibleLinks(t, a)
        parts == VisibleParts(t, a)
    IN [seen |-> Seen(t, a), links |-> links, parts |-> parts, joined |-> Joined(links, parts)]

\* A page there is and this view has not.
Unseen(t, v) == DOMAIN t.pages \ v.seen

-----------------------------------------------------------------------------
(* Listing, tags, search, one page's links.                                *)

Under(p, prefix) == IsPrefix(prefix, p)

\* Filters, each None where it is not asked for.
Matches(t, p, f) ==
    /\ f.tag # None => [slug |-> p, tag |-> f.tag] \in t.tags
    /\ f.prefix # None => Under(p, f.prefix)
    /\ f.segment # None => \E r \in t.segments : r.slug = p /\ r.segment = f.segment
    /\ f.stage # None => t.pages[p].stage # 0 /\ t.pages[p].stage = f.stage

Matched(t, v, f) == {p \in v.seen : Matches(t, p, f)}

\* What pages are sorted by.
Keys(t, S, sort) == [p \in S |-> IF sort = "slug" THEN Rank[p] ELSE t.pages[p][sort]]

\* By a key, and in the order of slugs where that is equal.
Before(keys, descending, p, q) ==
    IF keys[p] = keys[q] THEN Rank[p] < Rank[q]
    ELSE IF descending THEN keys[p] > keys[q] ELSE keys[p] < keys[q]

Sorted(keys, descending) ==
    SetToSortSeq(DOMAIN keys, LAMBDA p, q : Before(keys, descending, p, q))

Words(t, S) == [p \in S |-> t.pages[p].words]
SumOf(numbers) == FoldFunction(+, 0, numbers)

Window(list, limit, offset) ==
    SubSeq(list, offset + 1, offset + (IF limit < Len(list) - offset THEN limit ELSE Len(list) - offset))

\* Index::list: a page of the listing, with the count and the words of all of it.
Listing(t, v, f, sort, descending, limit, offset) ==
    LET all == Matched(t, v, f)
    IN [pages |-> Window(Sorted(Keys(t, all, sort), descending), limit, offset),
        total |-> Cardinality(all), words |-> SumOf(Words(t, all))]

\* Words sought are all to be found; no words find nothing.
Found(t, v, terms) ==
    {p \in v.seen : terms # {} /\ \A w \in terms : [slug |-> p, term |-> w] \in t.texts}

Tagged(t, v, g) == {p \in v.seen : [slug |-> p, tag |-> g] \in t.tags}
TagCounts(t, v) ==
    {[tag |-> g, pages |-> Cardinality(Tagged(t, v, g))] : g \in {x \in Tags : Tagged(t, v, x) # {}}}
TagsOf(t, p) == {g \in Tags : [slug |-> p, tag |-> g] \in t.tags}

\* links_for.  A page that is asked about need not be there, or be seen.
Outbound(t, v, p) ==
    {[target |-> l.target, kind |-> l.kind, titled |-> l.kind # "external" /\ l.target \in v.seen] :
        l \in {m \in t.links : m.slug = p /\ m.target \notin Unseen(t, v)}}
Inbound(t, v, p) ==
    {[slug |-> l.slug, kind |-> l.kind] :
        l \in {m \in t.links : m.target = p /\ m.kind # "external" /\ m.slug \in v.seen}}

-----------------------------------------------------------------------------
(* The graph.                                                              *)

Inward(pairs, p)  == Cardinality({e \in pairs : e.target = p})
Outward(pairs, p) == Cardinality({e \in pairs : e.source = p})
Degree(pairs, p)  == Inward(pairs, p) + Outward(pairs, p)

Neighbours(pairs, p) == {e.target : e \in {d \in pairs : d.source = p}}
                        \cup {e.source : e \in {d \in pairs : d.target = p}}

\* Where n steps lead, each way; the fewest is the distance.
Walk(pairs, root) ==
    LET steps[n \in 0..MaxDepth] ==
            IF n = 0 THEN {root}
            ELSE UNION {Neighbours(pairs, p) : p \in steps[n - 1]}
    IN steps

Distances(pairs, root, depth) ==
    LET walk == Walk(pairs, root)
    IN [p \in UNION {walk[n] : n \in 0..depth} |-> Min({n \in 0..depth : p \in walk[n]})]

\* A view's pages that match, as a graph: those within reach of a root, or all
\* where reached is None, and of these the best connected.  `tags` are those of
\* the pages seen.
Drawn(v, matching, tags, reached, wanted, limit) ==
    LET Within(p) == reached = None \/ p \in DOMAIN reached
        matched == {p \in matching : Within(p)}
        best    == Sorted([p \in matched |-> Degree(v.joined, p)], TRUE)
        kept    == IF Cardinality(matched) > limit THEN {best[i] : i \in 1..limit} ELSE matched
        edges   == {e \in v.joined :
                      /\ e.source \in kept
                      /\ \/ e.target \in kept
                         \/ e.target \notin v.seen /\ wanted /\ Within(e.target)}
        nodes   == kept \cup {e.target : e \in edges}
    IN [edges     |-> {[source |-> e.source, target |-> e.target,
                        kinds |-> {l.kind : l \in {m \in v.links : Pair(m) = e}},
                        part  |-> \E r \in v.parts : Pair(r) = e] : e \in edges},
        nodes     |-> {[slug |-> p, exists |-> p \in kept,
                        inbound |-> Inward(v.joined, p), outbound |-> Outward(v.joined, p),
                        tags |-> IF p \in v.seen THEN tags[p] ELSE {},
                        distance |-> IF reached = None THEN None ELSE reached[p]] : p \in nodes},
        matched   |-> Cardinality(matched),
        truncated |-> Cardinality(matched) > limit]

\* A view: filters, a root to walk from or None, and how many pages at most.
Graph(t, v, f, root, depth, wanted, limit) ==
    Drawn(v, Matched(t, v, f), [p \in v.seen |-> TagsOf(t, p)],
          IF root = None THEN None ELSE Distances(v.joined, root, depth), wanted, limit)

-----------------------------------------------------------------------------
(* The statistics.                                                         *)

Referenced(v, p) == \E e \in v.joined : e.target = p

\* Links alone.
Unwritten_Linked(t, v) == {e \in {Pair(l) : l \in v.links} : e.target \notin DOMAIN t.pages}

\* named_but_unwritten
Unwritten(t, v) == {e \in v.joined : e.target \notin DOMAIN t.pages}

Internal(t, v) == {l \in t.links : l.kind # "external" /\ l.slug \in v.seen
                                   /\ l.target \notin Unseen(t, v)}
External(t, v) == {l \in t.links : l.kind = "external" /\ l.slug \in v.seen}

\* The n most referred to, then in the order of slugs.
Top(referrers, n) ==
    LET order == Sorted(referrers, TRUE)
    IN [i \in 1..Min({n, Len(order)}) |-> [slug |-> order[i], referrers |-> referrers[order[i]]]]

\* The figures of a view, of its tags, of the links among its pages, of those
\* out of the wiki and of what nobody wrote.
Figures(v, tags, internal, external, unwritten) ==
    LET resolved == {l \in v.links : l.target \in v.seen}
        orphans  == {p \in v.seen : ~Referenced(v, p)}
        wants    == {e.target : e \in unwritten}
        linked   == {l.target : l \in resolved}
        wantedBy == [p \in wants |-> Cardinality({e \in unwritten : e.target = p})]
        linkedBy == [p \in linked |->
                        Cardinality({l.slug : l \in {m \in v.links : m.target = p}})]
    IN [pages    |-> Cardinality(v.seen),
        tags     |-> tags,
        internal |-> Cardinality(internal),
        external |-> Cardinality(external),
        resolved |-> Cardinality(resolved),
        wanted   |-> Cardinality(internal) - Cardinality(resolved),
        orphanCount |-> Cardinality(orphans),
        orphans  |-> Top([p \in orphans |-> 0], TopN),
        wantedCount |-> Cardinality(wants),
        wants    |-> Top(wantedBy, TopN),
        mostLinked |-> Top(linkedBy, TopN)]

Stats(t, v) == Figures(v, TagCounts(t, v), Internal(t, v), External(t, v), Unwritten(t, v))

-----------------------------------------------------------------------------
(* What the handlers answer (api/pages.rs, api/graph.rs, api/search.rs).   *)

Or(asked, default) == IF asked = None THEN default ELSE asked
LimitOf(asked, default, most) == Min({Or(asked, default), most})

\* A page as its file has it.
PageView(p, page) ==
    [slug |-> p, title |-> page.title, stage |-> page.stage, words |-> page.words, tags |-> page.tags,
     vis |-> VisibilityOf(page), owner |-> OwnerOf(page), readers |-> page.readers,
     contents |-> page.parts]

\* A page is read from its file: one that a caller may not read is not there,
\* and one that is none is an error.
ReadPage(p, a) ==
    IF ~IsPage(files[p]) THEN files[p]
    ELSE IF Readable(files[p], a) THEN PageView(p, files[p]) ELSE None

\* A page as its rows have it.
PageSummary(t, p) ==
    LET row == t.pages[p] IN
    [slug |-> p, title |-> row.title, stage |-> row.stage, words |-> row.words, tags |-> TagsOf(t, p)]

\* A query that asks for nothing in particular.
NoFilter == [tag |-> None, prefix |-> None, segment |-> None, stage |-> None]
AnyPage  == NoFilter @@ [sort |-> None, order |-> None, limit |-> None, offset |-> None]

ListAnswer(t, v, q) ==
    LET limit  == LimitOf(q.limit, DefaultLimit, MaxLimit)
        offset == Or(q.offset, 0)
        list   == Listing(t, v, q, Or(q.sort, "slug"), q.order = "desc", limit, offset)
        summary == [p \in v.seen |-> PageSummary(t, p)]
    IN [pages |-> [i \in DOMAIN list.pages |-> summary[list.pages[i]]],
        total |-> list.total, words |-> list.words, limit |-> limit, offset |-> offset]

SearchAnswer(t, v, terms, asked, from) ==
    LET limit  == LimitOf(asked, DefaultHits, MaxHits)
        offset == Or(from, 0)
        all    == Found(t, v, terms)
        left   == IF Cardinality(all) < offset THEN 0 ELSE Cardinality(all) - offset
    IN [among |-> all, hits |-> Min({limit, left}), total |-> Cardinality(all),
        limit |-> limit, offset |-> offset]

\* Asked about a slug, whether or not there is a page.
LinksAnswer(t, v, p) ==
    [slug |-> p, exists |-> p \in v.seen,
     outbound |-> {[target |-> l.target, kind |-> l.kind,
                    resolved |-> l.kind # "external" /\ l.titled] : l \in Outbound(t, v, p)},
     inbound |-> Inbound(t, v, p)]

AnyGraph == [tag |-> None, prefix |-> None, root |-> None, depth |-> None,
             wanted |-> None, limit |-> None]

LinkGraph(t, v, q) ==
    LET f     == [NoFilter EXCEPT !.tag = q.tag, !.prefix = q.prefix]
        depth == LimitOf(q.depth, DefaultDepth, MaxDepth)
        limit == LimitOf(q.limit, DefaultNodes, MaxNodes)
    IN [graph |-> Graph(t, v, f, q.root, depth, Or(q.wanted, TRUE), limit), root |-> q.root,
        depth |-> IF q.root = None THEN None ELSE depth, limit |-> limit]

\* The counts of calls are not for everybody.
StatsAnswer(t, v, a) == [figures |-> Stats(t, v), usageTold |-> a # Public]

-----------------------------------------------------------------------------
(* Properties.                                                             *)

\* The rows of every table are those of the pages last entered, and of no
\* others: what a page no longer says, and what a page that is gone said,
\* left no row behind (Index::upsert and Index::remove, table by table).
TablesHoldThePages ==
    \A p \in Slugs \ behind :
        LET page == files[p]
            Rows(table, of) == {r \in table : r.slug = p} = (IF IsPage(page) THEN of ELSE {})
        IN /\ p \in DOMAIN tables.pages <=> IsPage(page)
           /\ IsPage(page) => tables.pages[p] = RowOf(page)
           /\ IsPage(page) => /\ Rows(tables.readers, ReaderRows(p, page))
                              /\ Rows(tables.tags, TagRows(p, page))
                              /\ Rows(tables.parts, PartRows(p, page))
                              /\ Rows(tables.links, LinkRows(p, page))
                              /\ Rows(tables.texts, TextRows(p, page))
           /\ Rows(tables.segments, SegmentRows(p))
           /\ ~IsPage(page) => \A table \in {tables.readers, tables.tags, tables.parts,
                                             tables.links, tables.texts} : Rows(table, {})

\* The rule spelled in SQL over the rows and the rule spelled in Rust over the
\* file give every audience the same answer about every page the index is up
\* to date with (index/audience.rs, api/pages.rs readable).
VisibleAgreesWithReadable ==
    \A p \in DOMAIN tables.pages \ behind, a \in Audiences :
        Sees(tables, a, p) <=> Readable(files[p], a)

\* The wiki without the pages an audience cannot see, and without what the
\* others say of them.
Purged(t, a) ==
    LET out == Hidden(t, a)
        Rows(table) == {r \in table : r.slug \notin out}
    IN [pages |-> [p \in Seen(t, a) |-> t.pages[p]],
        readers |-> Rows(t.readers), tags |-> Rows(t.tags), segments |-> Rows(t.segments),
        parts |-> {r \in Rows(t.parts) : r.target \notin out},
        links |-> {r \in Rows(t.links) : r.target \notin out}, texts |-> Rows(t.texts)]

ListQueries == {AnyPage} \cup {[AnyPage EXCEPT !.tag = g, !.limit = 9] : g \in Tags}
               \cup {[AnyPage EXCEPT !.prefix = p, !.sort = "words"] : p \in Slugs}
               \cup {[AnyPage EXCEPT !.segment = s, !.order = "desc"] : s \in Segments}
Most == MaxDepth + MaxNodes + MaxLimit
GraphQueries == {[AnyGraph EXCEPT !.root = root, !.depth = depth, !.limit = limit] :
                    root \in {None} \cup Slugs, depth \in {None, Most}, limit \in {None, Most}}

\* What anybody is told, of the listing, of search, of tags, of statistics, of
\* the graph from anywhere in it, of the links of a page they see, is what
\* they would be told by a wiki in which the pages they cannot see were never
\* written or named (index/audience.rs, visible_link and visible_part).
HiddenPagesLeaveNoTrace ==
    \A a \in Audiences : Hidden(tables, a) # {} =>
        LET purged == Purged(tables, a)
            told   == View(tables, a)
            rest   == View(purged, a)
        IN
        /\ StatsAnswer(tables, told, a) = StatsAnswer(purged, rest, a)
        /\ \A q \in GraphQueries : LinkGraph(tables, told, q) = LinkGraph(purged, rest, q)
        /\ \A q \in ListQueries : ListAnswer(tables, told, q) = ListAnswer(purged, rest, q)
        /\ \A w \in Terms :
              SearchAnswer(tables, told, {w}, None, 1) = SearchAnswer(purged, rest, {w}, None, 1)
        /\ \A p \in Slugs \ Hidden(tables, a) :
              LinksAnswer(tables, told, p) = LinksAnswer(purged, rest, p)

\* A page nobody showed an audience is nowhere in what it is told.
HiddenStaysHidden == VisibleAgreesWithReadable /\ HiddenPagesLeaveNoTrace

\* Pages one after another make the listing, each as long as its answer says
\* it may be: every page once, in order.
PagesMakeTheListing(v, sort, down) ==
    LET Part(k) == ListAnswer(tables, v, [AnyPage EXCEPT !.sort = sort, !.order = IF down THEN "desc" ELSE "asc",
                                                         !.limit = Most, !.offset = k * MaxLimit])
        whole   == Part(0).pages \o Part(1).pages
    IN Part(0).total = Len(whole) /\ IsInjective(whole)
       /\ \A i \in 1..(Len(whole) - 1) :
             Before(Keys(tables, v.seen, sort), down, whole[i].slug, whole[i + 1].slug)

\* A page that is read, from its file, and the page that is listed, from its
\* rows, are one page, and it is both or neither: but for a file that changed
\* and that nobody has entered yet.
PagesReadAsListed(v, a) ==
    \A p \in Slugs \ behind :
        /\ p \in v.seen <=> ReadPage(p, a) \notin {None, Garbled}
        /\ p \in v.seen => LET page == ReadPage(p, a)  listed == PageSummary(tables, p)
                           IN \A field \in DOMAIN listed : listed[field] = page[field]

\* The answers describe one wiki from every side: a page is an orphan where
\* the graph draws it with no line in, wanted where the graph draws it as
\* not there, with as many referrers as lines; a tag counts as many pages as
\* listing and graph find under it; a link leaves one page and arrives at the
\* other, and leads where there is a page to read or says it does not;
\* distances are shortest ones and pages that are cut off the graph have no
\* more lines than those that stay.
AnswersAgree ==
    \A a \in Audiences :
        LET v     == View(tables, a)
            stats == Stats(tables, v)
            whole == Graph(tables, v, NoFilter, None, 0, TRUE, 9)
            Node(p) == CHOOSE n \in whole.nodes : n.slug = p
        IN /\ stats.orphanCount = Cardinality({n \in whole.nodes : n.exists /\ n.inbound = 0})
           /\ stats.wantedCount = Cardinality({n \in whole.nodes : ~n.exists})
           /\ \A i \in DOMAIN stats.wants :
                 Node(stats.wants[i].slug).inbound = stats.wants[i].referrers
           /\ stats.pages = whole.matched
           /\ \A e \in whole.edges : e.part \/ e.kinds # {}
           /\ \A c \in stats.tags :
                 LET f == [NoFilter EXCEPT !.tag = c.tag]
                 IN c.pages = Listing(tables, v, f, "slug", FALSE, 1, 0).total
                    /\ c.pages = Graph(tables, v, f, None, 0, TRUE, 1).matched
           /\ \A p, q \in v.seen, k \in Kinds \ {"external"} :
                 [target |-> q, kind |-> k, titled |-> TRUE] \in Outbound(tables, v, p)
                 <=> [slug |-> p, kind |-> k] \in Inbound(tables, v, q)
           /\ \A p \in v.seen : \A l \in LinksAnswer(tables, v, p).outbound :
                 l.kind # "external" => (l.resolved <=> LinksAnswer(tables, v, l.target).exists)
           /\ PagesReadAsListed(v, a)
           /\ \A sort \in {"slug", "title", "words", "stage"}, down \in BOOLEAN :
                 PagesMakeTheListing(v, sort, down)
           /\ \A root \in Slugs :
                 LET view == Graph(tables, v, NoFilter, root, MaxDepth, TRUE, 9)
                     far  == [p \in {n.slug : n \in view.nodes} |->
                                (CHOOSE n \in view.nodes : n.slug = p).distance]
                 IN \A e \in whole.edges :
                       LET x == e.source  y == e.target IN
                       /\ x \in DOMAIN far /\ y \in DOMAIN far =>
                            far[x] <= far[y] + 1 /\ far[y] <= far[x] + 1
                       /\ x \in DOMAIN far /\ far[x] < MaxDepth => y \in DOMAIN far
                       /\ y \in DOMAIN far /\ far[y] < MaxDepth => x \in DOMAIN far
           /\ LET cut == Graph(tables, v, NoFilter, None, 0, FALSE, 1)
              IN \A n \in cut.nodes : \A m \in whole.nodes : m.exists =>
                    n.inbound + n.outbound >= m.inbound + m.outbound

\* The menu stays as it is but for what is taken out of it, renamed in it or
\* appended: a pin keeps its place whatever is done to the others and to the
\* index (index/pins.rs).
MenuHolds(old, new) ==
    \/ new = old
    \/ \E p \in Slugs : \/ new = Append(old, p) /\ ~\E i \in DOMAIN old : old[i] = p
                        \/ new = Unpinned(old, p)
                        \/ \E q \in Slugs : new = [i \in DOMAIN old |-> IF old[i] = p THEN q ELSE old[i]]
PinsKeepTheirPlaces == [][MenuHolds(pins, pins')]_pins

\* A pin follows the page it is of (api/pages.rs move_page), and where there
\* are two the older place wins (index/pins.rs repin).
Moved(p, q) == \E v \in Writers : Move(v, p, q)
FirstOf(menu, S) == Min({i \in DOMAIN menu : menu[i] \in S} \cup {Len(menu) + 1})
PinsFollowTheirPages ==
    [][\A p, q \in Slugs : Moved(p, q) /\ Pinned(p) =>
          \E i \in DOMAIN pins' : pins'[i] = q /\ i <= FirstOf(pins, {p, q})]_pins
=============================================================================
