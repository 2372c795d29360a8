------------------------------ MODULE Manuscript ------------------------------
(***************************************************************************)
(* A manuscript: pages that are split and merged (module Spine) while      *)
(* somebody compiles them (module Compile), over the same files.           *)
(***************************************************************************)
EXTENDS Spine, Compile

ASSUME ManuscriptBlank == Blank \notin Texts

besideFiles == <<rows, total, pins, task, first, halved, unmarked, requests, mishaps>>
manuscriptVars == <<disk, rows, total, pins, task, first, halved, unmarked,
                    requests, mishaps, phase, root, style, stack,
                    emitted, skipped, out, sections, compiles>>

ManuscriptInit == SpineInit /\ CompileInit

\* MaxRequests bounds the requests of either kind.
ManuscriptNext ==
    /\ \/ SpineNext /\ UNCHANGED walkVars
       \/ CompileStep /\ UNCHANGED besideFiles
    /\ requests' + compiles' <= MaxRequests

\* A walk that can go on does: the compile is one request, polled until it ends.
ManuscriptSpec == /\ ManuscriptInit /\ [][ManuscriptNext]_manuscriptVars
                  /\ WF_manuscriptVars(/\ phase \in {"root", "style", "walk"} /\ CompileStep
                                       /\ UNCHANGED besideFiles)

-----------------------------------------------------------------------------
(* What splits and merges promise.                                         *)

AtRest == \A c \in Clients : At(c, "rest")
TextsOf(file) == IF IsPage(file) THEN Range(file.body) ELSE {}
TextsIn(wiki) == UNION {TextsOf(wiki[s]) : s \in Slugs}

SpineTypeOK ==
    /\ disk \in [Slugs -> Pages \cup {None, Garbled}] /\ rows \in [Slugs -> Pages \cup {None}]
    /\ total \in [Slugs -> Nat \cup {None}]
    /\ \A c \in Clients : task[c].todo \subseteq Slugs
    /\ pins \subseteq Slugs /\ unmarked \subseteq Slugs /\ halved \in BOOLEAN

\* spine.rs:11-12, api/spine.rs:210-212 and 319-320: words are never in no
\* place, wherever a split or a merge stops and however often it is tried again.
NoTextLost == TextsIn(first) \subseteq TextsIn(disk)

\* And in one place only, once every split and merge so far has run to its end.
TextsOnce ==
    (AtRest /\ ~halved) =>
        /\ \A s1 \in Slugs : Cardinality(TextsOf(disk[s1])) = IF IsPage(disk[s1]) THEN Words(disk[s1]) ELSE 0
        /\ \A s1, s2 \in Slugs : s1 # s2 => TextsOf(disk[s1]) \cap TextsOf(disk[s2]) = {}

\* api/spine.rs:222-228, 327-331: what a page came to is what the log says it came to,
\* or the next save of the page is weighed against a length it does not have.
\* The exceptions are the pages whose marker was lost or never reached.
SeriesTellLengths ==
    AtRest => \A s \in Slugs \ unmarked :
        /\ IsPage(disk[s]) /\ rows[s] = disk[s] => total[s] = Words(disk[s])
        /\ disk[s] = None /\ rows[s] = None => total[s] = None

\* Texts stay in the wiki, in one place, with the length the log gives them.
TextsAreKept == NoTextLost /\ TextsOnce /\ SeriesTellLengths

\* api/spine.rs:190-192: no text that not everybody may read comes to be on a
\* page everybody may read, but where somebody merges it into one.
OpenTexts(wiki) == UNION {TextsOf(wiki[s]) : s \in {s \in Slugs : IsPage(wiki[s]) /\ wiki[s].readers = "all"}}
SplitsPublishNothing ==
    [][(\A c \in Clients : task[c].at # "join") => OpenTexts(disk') \subseteq OpenTexts(disk)]_manuscriptVars

\* What a reader of the book gets: the texts in order, each page where it is
\* first listed and its list below it, without what is excluded.
Book(wiki, s) ==
    LET reading[state \in [todo : Seq(Slugs \cup Strays), seen : SUBSET Slugs, text : Seq(Texts)]] ==
            LET p == Head(state.todo)
                passed == [state EXCEPT !.todo = Tail(@)]
                read == [todo |-> (IF wiki[p].parts = None THEN <<>> ELSE wiki[p].parts) \o passed.todo,
                         seen |-> state.seen \cup {p}, text |-> state.text \o wiki[p].body]
            IN IF state.todo = <<>> THEN state.text
               ELSE IF p \notin Slugs \ state.seen THEN reading[passed]
               ELSE IF IsPage(wiki[p]) THEN reading[IF wiki[p].compiled THEN read ELSE passed]
               ELSE reading[passed]
    IN reading[[todo |-> <<s>>, seen |-> {}, text |-> <<>>]]

NamedIn(wiki, s) == {p \in Slugs : IsPage(wiki[p]) /\ wiki[p].parts # None /\ s \in Range(wiki[p].parts)}

\* When a split or a merge has run to its end the book says what it said.  A
\* split leaves the text of every book as it was, except the book that is the
\* page itself and those an outline had given the new page a place in already,
\* or a list whoever split may not read.  A merge leaves a book its texts when
\* both pages were in it.
BookKeepsItsText ==
    [][\A c \in Clients :
         LET t == task[c] IN
         (t.at = "next" /\ t.todo = {} /\ task'[c].at = "rest" /\ ~halved'
            /\ \A p \in NamedIn(t.wiki, t.from) : Readable(t.wiki[p])) =>
           \A r \in Slugs \ {t.from, t.to} :
              IF t.op = "split"
              THEN NamedIn(t.wiki, t.to) = {} => Book(disk, r) = Book(t.wiki, r)
              ELSE (Range(t.src.body) \cup Range(t.dst.body)) \subseteq Range(Book(t.wiki, r)) =>
                       Range(Book(disk, r)) = Range(Book(t.wiki, r))]_manuscriptVars

\* api/spine.rs:266-267, 323-325: a page merged away leaves nothing behind, not its row,
\* its pin, its series nor an entry in a list whoever merged may read.
NothingLeftBehind ==
    [][\A c \in Clients :
         LET t == task[c] IN
         (t.op = "merge" /\ t.at = "next" /\ t.todo = {} /\ task'[c].at = "rest") =>
           /\ disk[t.from] = None /\ rows[t.from] = None /\ t.from \notin pins
           /\ t.from \notin unmarked => total[t.from] = None
           /\ \A p \in NamedIn(disk, t.from) : halved \/ ~Readable(disk[p])]_manuscriptVars

\* Splits and merges are to the book what they are meant to be and no more.
BookIsKept == SplitsPublishNothing /\ BookKeepsItsText /\ NothingLeftBehind

-----------------------------------------------------------------------------
(* What a compile promises, whatever is written meanwhile.                 *)

IsIncluded(i) == sections[i].status = "included"
CompileTypeOK ==
    /\ phase \in {"idle", "root", "style", "walk", "done", "refused"}
    /\ emitted \cup skipped \subseteq Slugs /\ Len(sections) <= MaxSections
    /\ Len(out) <= MaxBytes
    /\ \A i \in DOMAIN sections : sections[i].depth <= MaxDepth /\ sections[i].length <= Len(out)

\* compile.rs:88-92: nothing is in the document twice, but what somebody asked
\* for as its preamble, and what the manifest calls a duplicate is there before.
NothingTwice ==
    \A i, j \in DOMAIN sections :
        /\ (IsIncluded(i) /\ IsIncluded(j) /\ i # j /\ sections[i].slug = sections[j].slug)
              => 1 \in {i, j} /\ style # None
        /\ (sections[i].status = "duplicate") =>
              \E k \in 1..(i - 1) : IsIncluded(k) /\ sections[k].slug = sections[i].slug

\* compile.rs:134-136, 156-166: every entry of every list walked is in the
\* manifest, in its order, right below the page whose list it is.
ChildrenOf(i) == {k \in (i + 1)..Len(sections) :
                     /\ sections[k].depth = sections[i].depth + 1
                     /\ \A j \in (i + 1)..k : sections[j].depth > sections[i].depth}
ListIsBelow(i) ==
    LET list == sections[i].lists
        place(k) == sections[k].origin.ordinal
    IN /\ \A n \in DOMAIN list : \E k \in ChildrenOf(i) : place(k) = n
       /\ \A j, k \in ChildrenOf(i) : j < k => place(j) < place(k)
       /\ \A k \in ChildrenOf(i) : /\ place(k) \in DOMAIN list /\ sections[k].slug = list[place(k)]
                                   /\ sections[k].origin.parent = sections[i].slug
ManifestCoversTheTree == phase = "done" => \A i \in DOMAIN sections : ListIsBelow(i)

\* compile.rs:16-18, 175-179: the manifest's offsets are where the texts are,
\* and a section's subtree is what is in the document below it.
ManifestMapsTheDocument ==
    phase = "done" =>
        /\ \A i, j \in DOMAIN sections : (i < j /\ IsIncluded(i) /\ IsIncluded(j)) =>
              sections[i].offset + sections[i].length <= sections[j].offset
        /\ \A i \in DOMAIN sections : IsIncluded(i) =>
              Blank \notin Range(SubSeq(out, sections[i].offset + 1,
                                        sections[i].offset + sections[i].length))
        /\ \A i \in DOMAIN sections :
              LET upper == {k \in DOMAIN sections : k > i /\ sections[k].depth <= sections[i].depth}
                  end == IF upper = {} THEN Len(out)
                         ELSE sections[CHOOSE k \in upper : \A k2 \in upper : k <= k2].offset
              IN sections[i].subtree =
                   Cardinality({n \in (sections[i].offset + 1)..end : out[n] # Blank})

\* A compile's manifest is the tree as it was walked and the document as it is.
ManifestIsTrue == NothingTwice /\ ManifestCoversTheTree /\ ManifestMapsTheDocument

\* The type invariant, of both parts.
ManuscriptTypeOK == SpineTypeOK /\ CompileTypeOK

\* compile.rs:277-281, 329-331: every walk ends, loops in the lists included.
EveryCompileEnds == (phase = "root") ~> (phase \in {"done", "refused"})
=============================================================================
