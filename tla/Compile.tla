------------------------------- MODULE Compile -------------------------------
(***************************************************************************)
(* Assembling a tree of pages into one document: the walk of compile.rs,   *)
(* and the fetches of api/compile.rs.                                      *)
(*                                                                         *)
(* The walk keeps an explicit stack of entries, what it has emitted and    *)
(* what it has seen excluded, and fetches one page at a time: an await, so *)
(* the files may change under it.  The document is a sequence of texts,    *)
(* with Blank between two sections; headings, titles, stages and targets,  *)
(* which a section only copies, are left out.                              *)
(***************************************************************************)
EXTENDS WikiFiles

CONSTANTS
    Blank,                                  \* the blank line between two sections
    Styles,                                 \* what may be asked for as a preamble
    MaxDepth, MaxSections, MaxBytes,        \* the ceilings
    MaxCompiles                             \* bound

ASSUME CompileCeilings == {MaxDepth, MaxSections, MaxBytes, MaxCompiles} \subseteq Nat /\ MaxSections > 0
ASSUME CompileStyles == Styles \subseteq Slugs \cup {None}

VARIABLES
    phase,     \* "idle", "root", "style", "walk", "done", "refused"
    root, style,
    stack,     \* entries still to be walked, the next one last
    emitted,   \* slugs whose body is in the document
    skipped,   \* slugs walked while excluded
    out,       \* the document
    sections,  \* its manifest; `lists` is the list the page fetched there had
    compiles

walkVars == <<phase, root, style, stack, emitted, skipped, out, sections, compiles>>
compileVars == <<disk, phase, root, style, stack, emitted, skipped, out, sections, compiles>>

CompileInit ==
    /\ phase = "idle" /\ root = None /\ style = None
    /\ stack = <<>> /\ emitted = {} /\ skipped = {} /\ out = <<>> /\ sections = <<>>
    /\ compiles = 0

\* What a fetch answers.  A page the caller may not read is missing to him.
Fetched(s) == IF disk[s] = Garbled THEN "unreadable"
              ELSE IF Readable(disk[s]) THEN "page" ELSE "missing"

NoOrigin == [parent |-> None, ordinal |-> 0]

PartsOf(page) == IF page.parts = None THEN <<>> ELSE page.parts

\* The children, reversed, so that they come off the stack in their order.
Descend(pending, s, page, depth, inherited) ==
    LET n == Len(PartsOf(page)) IN
    pending \o [k \in 1..n |->
        [raw |-> PartsOf(page)[n + 1 - k], depth |-> depth + 1, inherited |-> inherited,
         origin |-> [parent |-> s, ordinal |-> n + 1 - k]]]

Gap(entry, status, list) ==
    [slug |-> entry.raw, status |-> status, depth |-> entry.depth, words |-> 0, subtree |-> 0,
     offset |-> Len(out), length |-> 0, origin |-> entry.origin, lists |-> list]

Separated == IF out = <<>> \/ out[Len(out)] = Blank THEN out ELSE Append(out, Blank)

\* Append a page's body, or refuse a document that is too large.
Emit(entry, page, then) ==
    LET text == Separated \o page.body IN
    IF Len(text) > MaxBytes
    THEN phase' = "refused" /\ UNCHANGED <<out, sections>>
    ELSE /\ out' = text
         /\ sections' = Append(sections,
              [slug |-> entry.raw, status |-> "included", depth |-> entry.depth,
               words |-> Len(page.body), subtree |-> 0,
               offset |-> Len(Separated), length |-> Len(page.body),
               origin |-> entry.origin, lists |-> PartsOf(page)])
         /\ phase' = then

StartCompile ==
    /\ phase \in {"idle", "done", "refused"} /\ compiles < MaxCompiles
    /\ root' \in Slugs /\ style' \in Styles
    /\ phase' = "root" /\ compiles' = compiles + 1
    /\ stack' = <<>> /\ emitted' = {} /\ skipped' = {} /\ out' = <<>> /\ sections' = <<>>
    /\ UNCHANGED disk

\* A root that is not there is an error rather than a gap.
FetchRoot ==
    /\ phase = "root"
    /\ phase' = IF Fetched(root) # "page" THEN "refused"
                ELSE IF style = None THEN "walk" ELSE "style"
    /\ stack' = <<[raw |-> root, depth |-> 0, inherited |-> FALSE, origin |-> NoOrigin]>>
    /\ UNCHANGED <<disk, root, style, emitted, skipped, out, sections, compiles>>

\* A preamble is emitted whatever it says, and walked by nobody.
FetchStyle ==
    /\ phase = "style"
    /\ IF Fetched(style) = "page"
       THEN Emit([raw |-> style, depth |-> 0, origin |-> NoOrigin], [disk[style] EXCEPT !.parts = None], "walk")
       ELSE phase' = "walk" /\ UNCHANGED <<out, sections>>
    /\ UNCHANGED <<disk, root, style, stack, emitted, skipped, compiles>>

Entry == stack[Len(stack)]
Below == SubSeq(stack, 1, Len(stack) - 1)
\* One section more than the ceiling.
TooLarge_ByOne == Len(sections) > MaxSections \/ Entry.depth > MaxDepth
TooLarge == Len(sections) >= MaxSections \/ Entry.depth > MaxDepth
Walking == phase = "walk" /\ stack # <<>>

Refuse413 ==
    /\ Walking /\ TooLarge
    /\ phase' = "refused"
    /\ UNCHANGED <<disk, root, style, stack, emitted, skipped, out, sections, compiles>>

Leave(status) ==
    /\ stack' = Below /\ sections' = Append(sections, Gap(Entry, status, <<>>))
    /\ UNCHANGED <<disk, phase, root, style, emitted, skipped, out, compiles>>

WalkInvalid == Walking /\ ~TooLarge /\ Entry.raw \notin Slugs /\ Leave("invalid")

\* Emitted before, and not on a path that is excluded anyway.
IsDuplicate == ~Entry.inherited /\ Entry.raw \in emitted
WalkDuplicate == Walking /\ ~TooLarge /\ Entry.raw \in Slugs /\ IsDuplicate /\ Leave("duplicate")

Fetching(answer) == Walking /\ ~TooLarge /\ Entry.raw \in Slugs /\ ~IsDuplicate
                    /\ Fetched(Entry.raw) = answer

WalkWanted     == Fetching("missing") /\ Leave("wanted")
WalkUnreadable == Fetching("unreadable") /\ Leave("unreadable")

Excluded(page) == Entry.inherited \/ ~page.compiled

\* Kept in the manifest with everything below it, once.
WalkExcluded ==
    /\ Fetching("page") /\ Excluded(disk[Entry.raw])
    /\ LET page == disk[Entry.raw]
           again == Entry.raw \in skipped
       IN /\ sections' = Append(sections, Gap(Entry, "excluded", IF again THEN <<>> ELSE PartsOf(page)))
          /\ skipped' = skipped \cup {Entry.raw}
          /\ stack' = IF again THEN Below ELSE Descend(Below, Entry.raw, page, Entry.depth, TRUE)
    /\ UNCHANGED <<disk, phase, root, style, emitted, out, compiles>>

WalkIncluded ==
    /\ Fetching("page") /\ ~Excluded(disk[Entry.raw])
    /\ LET page == disk[Entry.raw] IN
       /\ emitted' = emitted \cup {Entry.raw}
       /\ stack' = Descend(Below, Entry.raw, page, Entry.depth, FALSE)
       /\ Emit(Entry, page, "walk")
    /\ UNCHANGED <<disk, root, style, skipped, compiles>>

\* Adding up everything that follows, whatever its depth.
Subtree_ToTheEnd(i) ==
    LET run[j \in i..Len(sections)] ==
          sections[j].words + IF j < Len(sections) THEN run[j + 1] ELSE 0
    IN run[i]

\* The words of a section and of the deeper ones that follow it at once.
Subtree(i) ==
    LET run[j \in i..Len(sections)] ==
          sections[j].words + IF j < Len(sections) /\ sections[j + 1].depth > sections[i].depth
                              THEN run[j + 1] ELSE 0
    IN run[i]

\* Done when there is a text.
FinishCompile_WithText ==
    /\ phase = "walk" /\ stack = <<>> /\ out # <<>>
    /\ phase' = "done"
    /\ sections' = [i \in DOMAIN sections |-> [sections[i] EXCEPT !.subtree = Subtree(i)]]
    /\ UNCHANGED <<disk, root, style, stack, emitted, skipped, out, compiles>>

FinishCompile ==
    /\ phase = "walk" /\ stack = <<>>
    /\ phase' = "done"
    /\ sections' = [i \in DOMAIN sections |-> [sections[i] EXCEPT !.subtree = Subtree(i)]]
    /\ UNCHANGED <<disk, root, style, stack, emitted, skipped, out, compiles>>

CompileStep == \/ StartCompile \/ FetchRoot \/ FetchStyle \/ Refuse413
               \/ WalkInvalid \/ WalkDuplicate \/ WalkWanted \/ WalkUnreadable
               \/ WalkExcluded \/ WalkIncluded \/ FinishCompile
=============================================================================
