----------------------------- MODULE Catalogue -----------------------------
(***************************************************************************)
(* The tables the index keeps of the pages (index/mod.rs), the requests    *)
(* that decide who may read a page (api/pages.rs) and the pins             *)
(* (api/pins.rs, index/pins.rs).  What the tables are asked is module      *)
(* CatalogueQueries.                                                       *)
(*                                                                         *)
(* A slug is a sequence of segments.  A page holds, beside its text, what  *)
(* its frontmatter says; its links are those a parser found in its text,   *)
(* its parts what somebody typed into `contents:`.  A title, a number of   *)
(* words and a stage are numbers, to be compared; stage 0 is none.  A      *)
(* handler's write of the file and of its row are one step here: what can  *)
(* happen between them is the subject of modules PageFile and PageIndex.   *)
(* Files change by hand as well, and the watcher or a scan enters them     *)
(* later.                                                                  *)
(***************************************************************************)
EXTENDS Naturals, Sequences, SequencesExt, FiniteSets, TLC

CONSTANTS
    Slugs, NoSlug,     \* NoSlug is a part that is no slug
    Url,               \* an external link's target
    Kinds,             \* the kinds of links
    Tags, Terms,
    Users, Odd,        \* Odd is an owner that is no username
    FirstWikis,        \* what the files may be when the server starts
    FirstMenus,        \* and the pins
    Drafts,            \* the pages clients send
    Edited,            \* what somebody with an editor leaves at a slug
    MaxPins,
    None, Garbled,
    MaxRequests, MaxEdits   \* bounds

Everything == "everything"
Public     == "public"
Audiences  == {Everything, Public} \cup Users
Visibilities == {"public", "internal", "restricted", "private"}

Links == {l \in [target : Slugs \cup {Url}, kind : Kinds] : l.kind = "external" <=> l.target = Url}

\* `typo` is a visibility nobody has heard of.
PageFiles ==
    [vis : Visibilities \cup {"typo"}, owner : Users \cup {None, Odd}, readers : SUBSET Users,
     title : Nat, stage : Nat, words : Nat, tags : SUBSET Tags, terms : SUBSET Terms,
     links : SUBSET Links, parts : Seq(Slugs \cup {NoSlug})]

Files == PageFiles \cup {None, Garbled}

IsPage(file) == file \notin {None, Garbled}

ASSUME CatalogueNames == /\ NoSlug \notin Slugs /\ Url \notin Slugs
                         /\ {None, Odd, Everything, Public} \cap Users = {} /\ None # Garbled
ASSUME CatalogueFiles ==
    /\ {None, Garbled} \cap PageFiles = {}
    /\ FirstWikis \subseteq [Slugs -> Files] /\ Edited \subseteq Files
    /\ \A d \in Drafts : d \in PageFiles /\ d.vis # "typo" /\ d.owner # Odd
ASSUME CatalogueMenus == \A menu \in FirstMenus : /\ menu \in Seq(Slugs) /\ IsInjective(menu)
                                                 /\ Len(menu) <= MaxPins
ASSUME CatalogueBounds == {MaxPins, MaxRequests, MaxEdits} \subseteq Nat

VARIABLES
    files,    \* each slug's page
    tables,   \* the index
    behind,   \* slugs whose file changed and nobody has entered yet
    pins,     \* the table of pins, oldest first
    pinning,  \* slugs a request found room for and has not pinned yet
    requests, edits

vars == <<files, tables, behind, pins, pinning, requests, edits>>

-----------------------------------------------------------------------------
(* What a page says.                                                       *)

\* Page::visibility: what nobody has heard of is private.
VisibilityOf(page) == IF page.vis = "typo" THEN "private" ELSE page.vis
\* Page::owner: what is no username is nobody.
OwnerOf(page) == IF page.owner = Odd THEN None ELSE page.owner
NeedsOwner(vis) == vis \in {"restricted", "private"}

Directories(p) == [i \in 1..(Len(p) - 1) |-> p[i]]

\* readable: what the file says, to somebody.
Readable(page, a) ==
    \/ a = Everything
    \/ a = Public /\ VisibilityOf(page) = "public"
    \/ /\ a \in Users
       /\ \/ OwnerOf(page) = a
          \/ VisibilityOf(page) \in {"public", "internal"}
          \/ VisibilityOf(page) = "restricted" /\ a \in page.readers

-----------------------------------------------------------------------------
(* The tables.                                                             *)

NoTables == [pages |-> <<>>, readers |-> {}, tags |-> {}, segments |-> {},
             parts |-> {}, links |-> {}, texts |-> {}]

RowOf(page) == [vis |-> VisibilityOf(page), owner |-> OwnerOf(page), title |-> page.title,
                stage |-> page.stage, words |-> page.words]

ReaderRows(p, page)  == {[slug |-> p, user |-> u] : u \in page.readers}
TagRows(p, page)     == {[slug |-> p, tag |-> g] : g \in page.tags}
SegmentRows(p)       == {[slug |-> p, segment |-> Directories(p)[i], depth |-> i] :
                            i \in DOMAIN Directories(p)}
PartRows(p, page)    == {[slug |-> p, ordinal |-> i, target |-> page.parts[i],
                          isSlug |-> page.parts[i] \in Slugs] : i \in DOMAIN page.parts}
LinkRows(p, page)    == {[slug |-> p, target |-> l.target, kind |-> l.kind] : l \in page.links}
TextRows(p, page)    == {[slug |-> p, term |-> w] : w \in page.terms}

OfOthers(rows, p) == {r \in rows : r.slug # p}
WithRow(rows, p, row) == [q \in DOMAIN rows \cup {p} |-> IF q = p THEN row ELSE rows[q]]

\* The new rows over the old, where one key meets the other.
Upserted_Over(t, p, page) ==
    [pages    |-> WithRow(t.pages, p, RowOf(page)),
     readers  |-> OfOthers(t.readers, p) \cup ReaderRows(p, page),
     tags     |-> OfOthers(t.tags, p) \cup TagRows(p, page),
     segments |-> OfOthers(t.segments, p) \cup SegmentRows(p),
     parts    |-> {r \in t.parts : ~(r.slug = p /\ r.ordinal \in DOMAIN page.parts)}
                  \cup PartRows(p, page),
     links    |-> OfOthers(t.links, p) \cup LinkRows(p, page),
     texts    |-> OfOthers(t.texts, p) \cup TextRows(p, page)]

Upserted(t, p, page) ==
    [pages    |-> WithRow(t.pages, p, RowOf(page)),
     readers  |-> OfOthers(t.readers, p) \cup ReaderRows(p, page),
     tags     |-> OfOthers(t.tags, p) \cup TagRows(p, page),
     segments |-> OfOthers(t.segments, p) \cup SegmentRows(p),
     parts    |-> OfOthers(t.parts, p) \cup PartRows(p, page),
     links    |-> OfOthers(t.links, p) \cup LinkRows(p, page),
     texts    |-> OfOthers(t.texts, p) \cup TextRows(p, page)]

\* What others say of it stays: links and parts become wants.
Removed(t, p) ==
    [pages    |-> [q \in DOMAIN t.pages \ {p} |-> t.pages[q]],
     readers  |-> OfOthers(t.readers, p),  tags  |-> OfOthers(t.tags, p),
     segments |-> OfOthers(t.segments, p), parts |-> OfOthers(t.parts, p),
     links    |-> OfOthers(t.links, p),    texts |-> OfOthers(t.texts, p)]

\* The watcher or a scan takes in what the file now says.
Entered(t, p, file) == IF IsPage(file) THEN Upserted(t, p, file) ELSE Removed(t, p)

-----------------------------------------------------------------------------
(* Requests.                                                               *)

Init ==
    /\ files \in FirstWikis
    /\ tables = NoTables
    /\ behind = {p \in Slugs : IsPage(files[p])}
    /\ pins \in FirstMenus /\ pinning = {}
    /\ requests = 0 /\ edits = 0

Writers == {Everything} \cup Users

Ask == requests < MaxRequests /\ requests' = requests + 1 /\ UNCHANGED edits

\* A handler writes a page and enters it.
Save(p, page) ==
    /\ files' = [files EXCEPT ![p] = page]
    /\ tables' = Upserted(tables, p, page)
    /\ behind' = behind \ {p}

\* An owner left out is the account that asks.
ResolveOwner(owner, v) == IF owner = None /\ v \in Users THEN v ELSE owner

Create(v, p, draft) ==
    /\ Ask /\ files[p] = None
    /\ Save(p, [draft EXCEPT !.owner = ResolveOwner(draft.owner, v)])
    /\ UNCHANGED <<pins, pinning>>

\* A file that is no page is no page to read: it is replaced like none.
Replace(v, p, draft) ==
    /\ Ask /\ (IsPage(files[p]) => Readable(files[p], v))
    /\ Save(p, [draft EXCEPT !.owner = ResolveOwner(draft.owner, v)])
    /\ UNCHANGED <<pins, pinning>>

\* What a patch says of the owner.
Keep == "keep"
Clear == "clear"

PatchedOwner(page, owner) ==
    IF owner = Keep THEN page.owner ELSE IF owner = Clear THEN None ELSE owner

\* An owner is missed where one is needed, and who asks stands in unless the
\* request took the owner away.
Orphaned(vis, owner) == NeedsOwner(vis) /\ owner = None

PatchRefused(page, vis, owner) == Orphaned(vis, PatchedOwner(page, owner)) /\ owner = Clear

PatchOwner(page, vis, owner, v) ==
    LET left == PatchedOwner(page, owner)
    IN IF Orphaned(vis, left) /\ v \in Users THEN v ELSE left

\* The visibility and the owner are set, or kept: what else a patch sets goes
\* straight into the file.
Patch(v, p, vis, owner) ==
    /\ Ask /\ IsPage(files[p]) /\ Readable(files[p], v)
    /\ LET page == files[p]
           kept == IF vis = Keep THEN page.vis ELSE vis
           seen == IF kept = "typo" THEN "private" ELSE kept
       IN /\ ~PatchRefused(page, seen, owner)
          /\ Save(p, [page EXCEPT !.vis = kept, !.owner = PatchOwner(page, seen, owner, v)])
    /\ UNCHANGED <<pins, pinning>>

Unpinned(menu, p) == SelectSeq(menu, LAMBDA q : q # p)

Delete(v, p) ==
    /\ Ask /\ IsPage(files[p]) /\ Readable(files[p], v)
    /\ files' = [files EXCEPT ![p] = None]
    /\ tables' = Removed(tables, p)
    /\ behind' = behind \ {p}
    /\ pins' = Unpinned(pins, p)
    /\ UNCHANGED pinning

\* repin: the place goes over unless the new slug has one, then the old pin goes.
Repinned(menu, p, q) ==
    IF \E i \in DOMAIN menu : menu[i] = q THEN Unpinned(menu, p)
    ELSE [i \in DOMAIN menu |-> IF menu[i] = p THEN q ELSE menu[i]]

\* A move onto itself reads the page, and the rest follows.
Move(v, p, q) ==
    /\ Ask /\ IsPage(files[p]) /\ Readable(files[p], v)
    /\ q # p => files[q] = None
    /\ files' = [files EXCEPT ![p] = None, ![q] = files[p]]
    /\ tables' = Upserted(Removed(tables, p), q, files[p])
    /\ behind' = behind \ {p, q}
    /\ pins' = Repinned(pins, p, q)
    /\ UNCHANGED pinning

-----------------------------------------------------------------------------
(* Pins: a look at the file and at the count, then the row.                *)

Pinned(p) == \E i \in DOMAIN pins : pins[i] = p

FindRoom(v, p) ==
    /\ Ask
    /\ files[p] # None /\ (IsPage(files[p]) => Readable(files[p], v))
    /\ Pinned(p) \/ Len(pins) < MaxPins
    /\ pinning' = pinning \cup {p}
    /\ UNCHANGED <<files, tables, behind, pins>>

\* A pin that is there goes to the end.
WithPin_Again(menu, p) == Append(Unpinned(menu, p), p)

\* insert or ignore
WithPin(menu, p) == IF \E i \in DOMAIN menu : menu[i] = p THEN menu ELSE Append(menu, p)

Pin(p) ==
    /\ p \in pinning
    /\ pinning' = pinning \ {p}
    /\ pins' = WithPin(pins, p)
    /\ UNCHANGED <<files, tables, behind, requests, edits>>

Unpin(p) ==
    /\ Ask /\ Pinned(p)
    /\ pins' = Unpinned(pins, p)
    /\ UNCHANGED <<files, tables, behind, pinning>>

-----------------------------------------------------------------------------
(* The files change by hand; the index is brought up to date or thrown away.*)

Edit(p, file) ==
    /\ edits < MaxEdits /\ edits' = edits + 1
    /\ file # files[p]
    /\ files' = [files EXCEPT ![p] = file]
    /\ behind' = behind \cup {p}
    /\ UNCHANGED <<tables, pins, pinning, requests>>

Catch(p) ==
    /\ p \in behind
    /\ tables' = Entered(tables, p, files[p])
    /\ behind' = behind \ {p}
    /\ UNCHANGED <<files, pins, pinning, requests, edits>>

\* Index::clear before a rebuild, or a schema of another version at the start:
\* what the files can give back goes, and the pins stay.
Forget ==
    /\ Ask
    /\ tables' = NoTables
    /\ behind' = {p \in Slugs : IsPage(files[p])}
    /\ UNCHANGED <<files, pins, pinning>>

Next ==
    \/ \E v \in Writers, p \in Slugs :
          \/ \E d \in Drafts : Create(v, p, d) \/ Replace(v, p, d)
          \/ \E vis \in Visibilities \cup {Keep}, owner \in {Keep, Clear} \cup Users : Patch(v, p, vis, owner)
          \/ Delete(v, p)
          \/ \E q \in Slugs : Move(v, p, q)
          \/ FindRoom(v, p)
    \/ \E p \in Slugs : Pin(p) \/ Unpin(p) \/ Catch(p) \/ \E f \in Edited : Edit(p, f)
    \/ Forget

Spec == Init /\ [][Next]_vars
=============================================================================
