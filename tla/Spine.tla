-------------------------------- MODULE Spine --------------------------------
(***************************************************************************)
(* Cutting a page in two and folding one back into another: api/spine.rs,  *)
(* spine.rs, and what they do to the files (store.rs), the index           *)
(* (index/mod.rs, index/graph.rs) and the word log (words/mod.rs).         *)
(*                                                                         *)
(* A split writes two pages, two rows, two lines and every list of         *)
(* contents that named the page; a merge writes one page, removes another, *)
(* two rows, a pin, two lines, and the lists.  Each is an await of its     *)
(* own, nothing is held across them, and the process may stop or a write   *)
(* fail between any two.                                                   *)
(*                                                                         *)
(* A body is a sequence of texts, so an offset is a number of texts and a  *)
(* page's words are its length.  Blank lines at the seam belong to neither *)
(* half and are left out, as are titles, tags, synopses and the other      *)
(* frontmatter nothing here decides about.  Whoever asks may read the pages *)
(* of `readers` "all" and "mine".  The look a create takes once more before *)
(* it writes is one with the handler's own, the step before.  The watcher  *)
(* takes a page in one step here; module PageIndex has its own.            *)
(***************************************************************************)
EXTENDS WikiFiles

CONSTANTS
    Texts,
    Strays,      \* entries of lists that are no slugs
    Clients,     \* requests that may be under way at the same time
    FirstWikis,  \* the wikis it may start with
    MaxRequests, MaxMishaps   \* bounds; a mishap is a stop, an error or a lost line

Pages == [body : Seq(Texts), parts : {None} \cup Seq(Slugs \cup Strays),
          compiled : BOOLEAN, readers : {"all", "mine", "other"}]

ASSUME SpineWikis == FirstWikis \subseteq [Slugs -> Pages \cup {None, Garbled}]
ASSUME SpineNone == None \notin Pages /\ Garbled \notin Pages
ASSUME SpineNoList == None \notin Seq(Slugs \cup Strays)
ASSUME SpineBounds == {MaxRequests, MaxMishaps} \subseteq Nat

VARIABLES
    rows,     \* the page the index has read there
    total,    \* the last total of the slug's open series, None if it has none
    pins,     \* the slugs somebody pinned
    task,     \* what each request has in hand
    \* What happened, for the properties.
    first,    \* the wiki it started with
    halved,   \* a split or merge ended half done
    unmarked, \* slugs whose total the log was never told
    requests, mishaps

spineBounds == <<requests, mishaps>>
spineVars == <<disk, rows, total, pins, task, first, halved, unmarked,
               requests, mishaps>>

Rest == [at |-> "rest", op |-> "none", from |-> None, to |-> None, cut |-> 0,
         src |-> None, dst |-> None, todo |-> {}, parent |-> None, page |-> None,
         wiki |-> None]

Words(page) == Len(page.body)

\* A server that has read its wiki: every page has its row and its total.
SpineInit ==
    /\ disk \in FirstWikis
    /\ rows = [s \in Slugs |-> IF IsPage(disk[s]) THEN disk[s] ELSE None]
    /\ total = [s \in Slugs |-> IF IsPage(disk[s]) THEN Words(disk[s]) ELSE None]
    /\ pins = {s \in Slugs : IsPage(disk[s])}
    /\ task = [c \in Clients |-> Rest]
    /\ first = disk /\ halved = FALSE /\ unmarked = {}
    /\ requests = 0 /\ mishaps = 0

-----------------------------------------------------------------------------
(* The arithmetic: spine.rs.                                               *)

Divides(body, at) == 0 < at /\ at < Len(body)
Head1(body, at) == SubSeq(body, 1, at)
Tail1(body, at) == SubSeq(body, at + 1, Len(body))
Join(head, tail) == head \o tail

\* The list with every `item` in it replaced by `these`.
Spliced(list, item, these) ==
    LET upTo[i \in 0..Len(list)] ==
            IF i = 0 THEN <<>>
            ELSE upTo[i - 1] \o IF list[i] = item THEN these ELSE <<list[i]>>
    IN upTo[Len(list)]

\* None when the list stays as it is.
InsertAfter(list, after, entry) ==
    IF entry \in Range(list) \/ after \notin Range(list) THEN None
    ELSE Spliced(list, after, <<after, entry>>)

Without(list, entry) ==
    IF entry \notin Range(list) THEN None ELSE Spliced(list, entry, <<>>)

\* A second half that is in the book whatever the page it comes from says.
TailOf_Plain(src, at) == [body |-> Tail1(src.body, at), parts |-> None,
                          compiled |-> TRUE, readers |-> src.readers]

\* The second half's page: it inherits who may read it and whether it is
\* compiled, and it assembles nothing.
TailOf(src, at) == [body |-> Tail1(src.body, at), parts |-> None,
                    compiled |-> src.compiled, readers |-> src.readers]

HeadOf(src, at) == [src EXCEPT !.body = Head1(src.body, at)]
Joined(dst, src) == [dst EXCEPT !.body = Join(dst.body, src.body)]

Rewritten(t, list) == IF t.op = "split" THEN InsertAfter(list, t.from, t.to)
                                        ELSE Without(list, t.from)

-----------------------------------------------------------------------------
(* Requests.                                                               *)

At(c, where) == task[c].at = where
Go(c, where, t) == task' = [task EXCEPT ![c] = [t EXCEPT !.at = where]]
Give(c) == task' = [task EXCEPT ![c] = Rest]

\* The request ends where it is.
Refuse(c) == Give(c) /\ UNCHANGED halved
GiveUp(c) == Give(c) /\ halved' = TRUE

Ask(c) ==
    /\ At(c, "rest") /\ requests < MaxRequests
    /\ \E op \in {"split", "merge"}, from, to \in Slugs, cut \in 0..2 :
         /\ op = "merge" => cut = 0
         /\ Go(c, "read", [Rest EXCEPT !.op = op, !.from = from, !.to = to, !.cut = cut,
                                       !.wiki = disk])
    /\ requests' = requests + 1
    /\ UNCHANGED <<disk, rows, total, pins, first, halved, unmarked, mishaps>>

\* The page to be cut or folded away: it has to be there and to assemble nothing.
ReadSource(c) ==
    /\ At(c, "read")
    /\ LET t == task[c] IN
       IF ~Readable(disk[t.from]) \/ (t.op = "merge" /\ t.from = t.to) THEN Refuse(c)
       ELSE IF disk[t.from].parts # None THEN Refuse(c)
       ELSE Go(c, "check", [t EXCEPT !.src = disk[t.from]]) /\ UNCHANGED halved
    /\ UNCHANGED <<disk, rows, total, pins, first, unmarked, spineBounds>>

\* A split needs a free slug and text on both sides; a merge, a page to join.
CheckDestination(c) ==
    /\ At(c, "check")
    /\ LET t == task[c] IN
       IF t.op = "split"
       THEN IF disk[t.to] # None \/ ~Divides(t.src.body, t.cut) THEN Refuse(c)
            ELSE Go(c, "tail", t) /\ UNCHANGED halved
       ELSE IF ~Readable(disk[t.to]) THEN Refuse(c)
            ELSE Go(c, "join", [t EXCEPT !.dst = disk[t.to]]) /\ UNCHANGED halved
    /\ UNCHANGED <<disk, rows, total, pins, first, unmarked, spineBounds>>

Save(c, s, page, then) ==
    /\ disk' = [disk EXCEPT ![s] = page]
    /\ Go(c, then, task[c])
    /\ UNCHANGED <<rows, total, pins, first, halved, unmarked, spineBounds>>

Index(c, s, page, then) ==
    /\ rows' = [rows EXCEPT ![s] = page]
    /\ Go(c, then, task[c])
    /\ UNCHANGED <<disk, total, pins, first, halved, unmarked, spineBounds>>

\* The new page first: a create that fails leaves the source as it was.
WriteTail(c) ==
    At(c, "tail") /\ Save(c, task[c].to, TailOf(task[c].src, task[c].cut), "head")
WriteHead(c) ==
    At(c, "head") /\ Save(c, task[c].from, HeadOf(task[c].src, task[c].cut), "row tail")
IndexTail(c) ==
    At(c, "row tail") /\ Index(c, task[c].to, TailOf(task[c].src, task[c].cut), "row head")
IndexHead(c) ==
    At(c, "row head") /\ Index(c, task[c].from, HeadOf(task[c].src, task[c].cut), "mark head")

\* Deleting first, and joining afterwards what was read before.
WriteJoined_DeletingFirst(c) ==
    At(c, "join") /\ Save(c, task[c].from, None, "row joined")

\* Words in two places before they are in one.
WriteJoined(c) ==
    At(c, "join") /\ Save(c, task[c].to, Joined(task[c].dst, task[c].src), "row joined")
IndexJoined(c) ==
    At(c, "row joined") /\ Index(c, task[c].to, Joined(task[c].dst, task[c].src), "unlink")

Unlink(c) ==
    /\ At(c, "unlink")
    /\ IF disk[task[c].from] = None
       THEN GiveUp(c) /\ UNCHANGED disk
       ELSE /\ disk' = [disk EXCEPT ![task[c].from] = None]
            /\ Go(c, "row gone", task[c]) /\ UNCHANGED halved
    /\ UNCHANGED <<rows, total, pins, first, unmarked, spineBounds>>

RemoveRow(c) == At(c, "row gone") /\ Index(c, task[c].from, None, "unpin")

Unpin(c) ==
    /\ At(c, "unpin")
    /\ pins' = pins \ {task[c].from}
    /\ Go(c, "mark joined", task[c])
    /\ UNCHANGED <<disk, rows, total, first, halved, unmarked, spineBounds>>

-----------------------------------------------------------------------------
(* The log's markers: a slug, its total, and what the request does next.   *)

Marker(t) ==
    CASE t.at = "mark head"   -> [slug |-> t.from, total |-> Words(HeadOf(t.src, t.cut)), then |-> "mark tail"]
      [] t.at = "mark tail"   -> [slug |-> t.to, total |-> Words(TailOf(t.src, t.cut)), then |-> "find"]
      [] t.at = "mark joined" -> [slug |-> t.to, total |-> Words(Joined(t.dst, t.src)), then |-> "mark gone"]
      [] t.at = "mark gone"   -> [slug |-> t.from, total |-> None, then |-> "find"]

Marking(c) == task[c].at \in {"mark head", "mark tail", "mark joined", "mark gone"}

Mark(c) ==
    /\ Marking(c)
    /\ LET m == Marker(task[c]) IN
       /\ total' = [total EXCEPT ![m.slug] = m.total]
       /\ unmarked' = unmarked \ {m.slug}
       /\ Go(c, m.then, task[c])
    /\ UNCHANGED <<disk, rows, pins, first, halved, spineBounds>>

\* A line that cannot be appended is logged as a warning and the request goes on.
LoseMark(c) ==
    /\ Marking(c) /\ mishaps < MaxMishaps
    /\ mishaps' = mishaps + 1
    /\ unmarked' = unmarked \cup {Marker(task[c]).slug}
    /\ Go(c, Marker(task[c]).then, task[c])
    /\ UNCHANGED <<disk, rows, total, pins, first, halved, requests>>

-----------------------------------------------------------------------------
(* The lists.                                                              *)

ParentsNaming(s) == {p \in Slugs : /\ rows[p] # None /\ rows[p].parts # None
                                   /\ s \in Range(rows[p].parts)}

Find(c) ==
    /\ At(c, "find")
    /\ Go(c, "next", [task[c] EXCEPT !.todo = ParentsNaming(task[c].from)])
    /\ UNCHANGED <<disk, rows, total, pins, first, halved, unmarked, spineBounds>>

\* A parent that is gone, garbled, hidden, or has nothing to change is passed over.
ReadParent(c) ==
    /\ At(c, "next")
    /\ \E p \in task[c].todo :
         LET left == [task[c] EXCEPT !.todo = @ \ {p}]
             file == disk[p]
         IN IF /\ Readable(file) /\ file.parts # None
               /\ Rewritten(task[c], file.parts) # None
            THEN Go(c, "rewrite", [left EXCEPT !.parent = p, !.page =
                                    [file EXCEPT !.parts = Rewritten(task[c], file.parts)]])
            ELSE Go(c, "next", left)
    /\ UNCHANGED <<disk, rows, total, pins, first, halved, unmarked, spineBounds>>

WriteParent(c) == At(c, "rewrite") /\ Save(c, task[c].parent, task[c].page, "row parent")

\* The log is not told, so a body that had changed unseen is not weighed either.
IndexParent(c) ==
    /\ At(c, "row parent")
    /\ LET t == task[c] IN
       /\ rows' = [rows EXCEPT ![t.parent] = t.page]
       /\ unmarked' = IF rows[t.parent] # None /\ rows[t.parent].body = t.page.body
                      THEN unmarked ELSE unmarked \cup {t.parent}
       /\ Go(c, "next", t)
    /\ UNCHANGED <<disk, total, pins, first, halved, spineBounds>>

Answer(c) ==
    /\ At(c, "next") /\ task[c].todo = {}
    /\ Refuse(c)
    /\ UNCHANGED <<disk, rows, total, pins, first, unmarked, spineBounds>>

-----------------------------------------------------------------------------
(* What goes wrong.                                                        *)

Untouched == {"rest", "read", "check", "tail", "join"}
Halfway(c) == task[c].at \notin Untouched

\* The pages this request has indexed and not told the log about yet: the scan
\* takes them for unchanged.
Untold(t) ==
    CASE t.at = "row head"                              -> {t.to}
      [] t.at = "mark head"                             -> {t.from, t.to}
      [] t.at = "mark tail"                             -> {t.to}
      [] t.at = "unlink"                                -> {t.to}
      [] t.at \in {"row gone", "unpin", "mark joined"}  -> {t.from, t.to}
      [] t.at = "mark gone"                             -> {t.from}
      [] OTHER                                          -> {}

\* A write, of a file or of the index, returns an error, and so does the request.
Writing(c) == task[c].at \in {"tail", "head", "row tail", "row head", "join", "row joined",
                              "unlink", "row gone", "unpin", "rewrite", "row parent"}
Fail(c) ==
    /\ Writing(c) /\ mishaps < MaxMishaps
    /\ mishaps' = mishaps + 1
    /\ unmarked' = unmarked \cup Untold(task[c])
    /\ Give(c)
    /\ halved' = (halved \/ Halfway(c))
    /\ UNCHANGED <<disk, rows, total, pins, first, requests>>

\* The process ends and is started again.  The scan weighs the pages whose files
\* are not what the index has read; it drops the rows of the others, and tells
\* the log of those that are gone.
Weighed == {s \in Slugs : IsPage(disk[s]) /\ rows[s] # disk[s]}
Vanished == {s \in Slugs : disk[s] = None /\ rows[s] # None}

Restart ==
    /\ mishaps < MaxMishaps
    /\ mishaps' = mishaps + 1
    /\ task' = [c \in Clients |-> Rest]
    /\ halved' = (halved \/ \E c \in Clients : Halfway(c))
    /\ unmarked' = (unmarked \cup UNION {Untold(task[c]) : c \in Clients}) \ (Weighed \cup Vanished)
    /\ rows' = [s \in Slugs |-> IF IsPage(disk[s]) THEN disk[s] ELSE None]
    /\ total' = [s \in Slugs |-> IF s \in Weighed THEN Words(disk[s])
                                 ELSE IF s \in Vanished THEN None ELSE total[s]]
    /\ UNCHANGED <<disk, pins, first, requests>>

\* The watcher looks at a file that changed, and tells index and log.
Watch(s) ==
    LET row == IF IsPage(disk[s]) THEN disk[s] ELSE None IN
    /\ rows[s] # row
    /\ rows' = [rows EXCEPT ![s] = row]
    /\ total' = [total EXCEPT ![s] = IF IsPage(disk[s]) THEN Words(disk[s])
                                     ELSE IF disk[s] = None THEN None ELSE @]
    /\ unmarked' = unmarked \ {s}
    /\ UNCHANGED <<disk, pins, task, first, halved, spineBounds>>

SpineStep(c) ==
    \/ Ask(c) \/ ReadSource(c) \/ CheckDestination(c)
    \/ WriteTail(c) \/ WriteHead(c) \/ IndexTail(c) \/ IndexHead(c)
    \/ WriteJoined(c) \/ IndexJoined(c) \/ Unlink(c) \/ RemoveRow(c) \/ Unpin(c)
    \/ Mark(c) \/ LoseMark(c)
    \/ Find(c) \/ ReadParent(c) \/ WriteParent(c) \/ IndexParent(c) \/ Answer(c)
    \/ Fail(c)

SpineNext == Restart \/ (\E s \in Slugs : Watch(s)) \/ \E c \in Clients : SpineStep(c)
=============================================================================
