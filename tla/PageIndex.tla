----------------------------- MODULE PageIndex -----------------------------
(***************************************************************************)
(* A page's way from its file into the index and the word log: the page    *)
(* handlers (api/pages.rs), the watcher (watcher.rs), the scan             *)
(* (index/sync.rs), the derived rows and the weighing of what an edit was  *)
(* worth (index/mod.rs, index/words.rs).                                   *)
(*                                                                         *)
(* Nothing serialises the writers of a page.  A handler writes the file,   *)
(* asks the file system for its stamp, puts the page in the index and has  *)
(* the word log take down the difference: four awaits, between any two of  *)
(* which another request, the watcher, a scan or a person with an editor   *)
(* may do the same.  Each is a step here.  Appending a line and inserting  *)
(* its row is one step, because the log's gate makes it one (module        *)
(* WordLog), and so the table `page_words` is the sequence `log`.          *)
(*                                                                         *)
(* A page is its body and a body the set of its words, so a churn is two   *)
(* set differences and a total a cardinality; a page's repeated words and  *)
(* the size of its markdown are left out.  Frontmatter, visibility, pins   *)
(* and the tables of tags, links and parts are rewritten with the body in  *)
(* one transaction or beside it, and left out.  The order in which a scan  *)
(* or a batch takes its pages is left open.                                *)
(***************************************************************************)
EXTENDS Naturals, Sequences, FiniteSetsExt

CONSTANTS
    Slugs, Words,
    Clients,      \* requests that may be under way at the same time
    Operations,   \* what clients ask for, out of Requests below
    Watches,      \* whether a start may find a file system it can watch
    FirstWikis,   \* what the server may be pointed at the first time
    None,         \* no page, no row, no slug, no total
    Garbled,      \* a file that is not a page: its frontmatter does not parse
    MaxRequests, MaxEdits, MaxStops, MaxLosses   \* bounds

Requests == {"create", "replace", "patch", "delete", "move", "move onto itself", "reindex"}
Bodies   == SUBSET Words
Contents == Bodies \cup {None, Garbled}

ASSUME OperationsAssumption == Operations \subseteq Requests /\ Watches \subseteq BOOLEAN
ASSUME ActorsAssumption == Clients \cap {"watcher", "starter"} = {}
ASSUME WikiAssumption == /\ FirstWikis \subseteq [Slugs -> Contents] /\ IsFiniteSet(Words)
                         /\ None \notin Slugs \cup Nat
                         /\ None # Garbled /\ \A body \in Bodies : body # None /\ body # Garbled
ASSUME BoundsAssumption == {MaxRequests, MaxEdits, MaxStops, MaxLosses} \subseteq Nat

VARIABLES
    disk,     \* each slug's contents, None where there is no file
    mtime,    \* each file's modification time
    clock,    \* the file system's
    rows,     \* the index: body and stamp of each page it holds
    log,      \* the word log and page_words
    phase,    \* "down", "starting", "reconciled" (not watching yet), "up", or
              \* "blind" (up, with nothing watching)
    dirty,    \* slugs with file events the watcher has not taken yet
    task,     \* what each actor is in the middle of
    \* What happened, for the properties.
    written,  \* how many words were really written at each slug
    muddled,  \* slugs a request wrote while the watcher was there to see it, and
              \* slugs moved onto themselves
    missed,   \* slugs where neither scan nor watcher looks again: edited unseen,
              \* entered by a request after the file had changed and been seen
              \* to, left by a move that failed, or with another file's stamp
    unlogged, \* slugs where a line that opens or closes a series was lost
    requests, edits, stops, losses

files   == <<disk, mtime, clock>>
bounds  == <<requests, edits, stops, losses>>
history == <<written, muddled, missed, unlogged>>
vars    == <<disk, mtime, clock, rows, log, phase, dirty, task, written, muddled,
             missed, unlogged, requests, edits, stops, losses>>

Watcher == "watcher"
Starter == "starter"
Actors  == Clients \cup {Watcher, Starter}

Rest == [at |-> "rest", op |-> "none", slug |-> None, src |-> None, body |-> None,
         stamp |-> None, change |-> None, walk |-> <<>>, todo |-> {}, gone |-> {}]

Init ==
    /\ disk \in FirstWikis
    /\ mtime = [p \in Slugs |-> 0]
    /\ clock = 0
    /\ rows = [p \in Slugs |-> None]
    /\ log = <<>>
    /\ phase = "down"
    /\ dirty = {}
    /\ task = [a \in Actors |-> Rest]
    /\ written = [p \in Slugs |-> 0]
    /\ muddled = {} /\ missed = {} /\ unlogged = {}
    /\ requests = 0 /\ edits = 0 /\ stops = 0 /\ losses = 0

-----------------------------------------------------------------------------
(* Weighing a write: index/words.rs and words/diff.rs.                     *)

Size(body) == Cardinality(body)

\* The total last recorded at p since its series was last closed.
LastTotal(lines, p) ==
    LET closing == {i \in DOMAIN lines : \/ lines[i].slug = p /\ lines[i].kind = "deleted"
                                         \/ lines[i].src = p /\ lines[i].kind = "moved"}
        open    == {i \in DOMAIN lines : lines[i].slug = p /\ \A j \in closing : i > j}
    IN IF open = {} THEN None ELSE lines[Max(open)].total

Churn(before, after) == [added |-> Size(after \ before), removed |-> Size(before \ after)]

\* A difference with its sign, for one split by it.
Net_Signed(before, after) == [added |-> after - before, removed |-> 0]

Net(before, after) == [added   |-> IF after > before THEN after - before ELSE 0,
                       removed |-> IF before > after THEN before - after ELSE 0]

Change(kind, churn, total) ==
    [kind |-> kind, added |-> churn.added, removed |-> churn.removed, total |-> total]

Nothing == [added |-> 0, removed |-> 0]

\* Trusting whatever body the index holds.
Weigh_Trusting(last, before, after) ==
    IF last = None THEN Change("baseline", Nothing, Size(after))
    ELSE IF before # None THEN Change("observed", Churn(before, after), Size(after))
    ELSE Change("net", Net(last, Size(after)), Size(after))

Weigh(last, before, after) ==
    IF last = None THEN Change("baseline", Nothing, Size(after))
    ELSE IF before = after THEN Change("observed", Nothing, Size(after))
    ELSE IF before # None /\ Size(before) = last
         THEN Change("observed", Churn(before, after), Size(after))
    ELSE Change("net", Net(last, Size(after)), Size(after))

\* WordChange::as_written: a first sighting by anybody but a scan is writing.
AsWritten(change) ==
    IF change.kind = "baseline"
    THEN Change("observed", [added |-> change.total, removed |-> 0], change.total)
    ELSE change

IsRecordable(change) == change.kind = "baseline" \/ change.added > 0 \/ change.removed > 0

Line(p, change, src) ==
    [slug |-> p, kind |-> change.kind, added |-> change.added,
     removed |-> change.removed, total |-> change.total, src |-> src]

-----------------------------------------------------------------------------
(* The files.                                                              *)

Watching == phase = "up"
Serving  == phase \in {"up", "blind"}
IsPage(content) == content \notin {None, Garbled}
WordsOf(content) == IF IsPage(content) THEN content ELSE {}
Stamp(p) == [mtime |-> mtime[p], size |-> Size(WordsOf(disk[p]))]

\* The row a page ought to have.
Reflects(row, p) == IF IsPage(disk[p]) THEN row = [body |-> disk[p], stamp |-> Stamp(p)]
                    ELSE row = None

\* A scan takes p for unchanged: the row has the stamp of the file.
Vouches(row, p) == row # None /\ disk[p] # None /\ row.stamp = Stamp(p)

Echo(ps) == muddled' = IF Watching THEN muddled \cup ps ELSE muddled
Tell(ps) == dirty' = IF Watching THEN dirty \cup ps ELSE dirty

\* Somebody gives a page a body, or takes its file away.
Touch(p, body) ==
    /\ disk' = [disk EXCEPT ![p] = body]
    /\ clock' = clock + 1
    /\ mtime' = [mtime EXCEPT ![p] = clock + 1]
    /\ written' = [written EXCEPT ![p] = @ + Size(WordsOf(body) \ WordsOf(disk[p]))]
    /\ Tell({p})

-----------------------------------------------------------------------------
(* Actors.                                                                 *)

Idle(a) == task[a].at = "rest"
At(a, where) == task[a].at = where
Scanning(a) == task[a].op \in {"scan", "reindex"}

\* Go on to `where` with t, what the actor now has in hand.
Go(a, where, t) == task' = [task EXCEPT ![a] = [t EXCEPT !.at = where]]

\* One page that fails ends the scan: a `?` where the code says so and goes on.
Turn_GivingUp(a) == task' = [task EXCEPT ![a] = Rest]

\* Done with a page: the next one of a scan or a batch, or the answer.
Turn(a) == IF task[a].op \in {"scan", "reindex", "watch"}
           THEN Go(a, "next", task[a])
           ELSE task' = [task EXCEPT ![a] = Rest]

\* A page's row is written, or taken out.
Put(a, p, row) ==
    /\ rows' = [rows EXCEPT ![p] = row]
    /\ missed' = IF Reflects(row, p) THEN missed \ {p}
                 ELSE IF Vouches(row, p) \/ (a \in Clients /\ p \notin dirty) THEN missed \cup {p}
                 ELSE missed

Give(a) == task' = [task EXCEPT ![a] = Rest]

-----------------------------------------------------------------------------
(* Requests.                                                               *)

Ask(c, where, t) ==
    /\ Serving /\ Idle(c)
    /\ t.op \in Operations
    /\ requests < MaxRequests
    /\ requests' = requests + 1
    /\ Go(c, where, t)
    /\ UNCHANGED <<files, rows, log, phase, dirty, history, edits, stops, losses>>

Create(c)  == \E p \in Slugs, b \in Bodies :
                 Ask(c, "check", [Rest EXCEPT !.op = "create", !.slug = p, !.body = b])
Replace(c) == \E p \in Slugs, b \in Bodies :
                 Ask(c, "write", [Rest EXCEPT !.op = "replace", !.slug = p, !.body = b])
Patch(c)   == \E p \in Slugs : Ask(c, "read", [Rest EXCEPT !.op = "patch", !.slug = p])
Delete(c)  == \E p \in Slugs : Ask(c, "check",  [Rest EXCEPT !.op = "delete", !.slug = p])
Reindex(c) == Ask(c, "clear", [Rest EXCEPT !.op = "reindex"])

MovePage(c) == \E p, q \in Slugs : p # q /\
                  Ask(c, "check", [Rest EXCEPT !.op = "move", !.src = p, !.slug = q])

\* Store::move_page reads and returns a page whose two slugs are one; the
\* handler goes on as for any other move.
MoveOntoItself(c) == \E p \in Slugs :
                  Ask(c, "read", [Rest EXCEPT !.op = "move onto itself", !.src = p, !.slug = p])

\* The looks a handler takes first: that there is no page where one is to be
\* created or moved to, and that the one to delete or to move can be read.
Refused(t) == CASE t.op = "create" -> disk[t.slug] # None
                [] t.op = "delete" -> ~IsPage(disk[t.slug])
                [] t.op = "move"   -> ~IsPage(disk[t.src]) \/ disk[t.slug] # None

Check(a) ==
    /\ At(a, "check")
    /\ LET t == task[a] IN
       IF Refused(t) THEN Give(a)
       ELSE Go(a, CASE t.op = "create" -> "write"
                    [] t.op = "delete" -> "unlink"
                    [] t.op = "move"   -> "rename", t)
    /\ UNCHANGED <<files, rows, log, phase, dirty, history, bounds>>

\* write_atomically's rename (module PageFile): the page is there.
Write(a) ==
    /\ At(a, "write")
    /\ Touch(task[a].slug, task[a].body)
    /\ Echo({task[a].slug})
    /\ missed' = missed \ {task[a].slug}
    /\ Go(a, "stat", task[a])
    /\ UNCHANGED <<rows, log, phase, unlogged, bounds>>

\* Store::write asks what the file system recorded, which is what is there now.
Stat(a) ==
    /\ At(a, "stat")
    /\ IF disk[task[a].slug] = None THEN Give(a)
       ELSE Go(a, "upsert", [task[a] EXCEPT !.stamp = Stamp(task[a].slug)])
    /\ UNCHANGED <<files, rows, log, phase, dirty, history, bounds>>

Unlink(a) ==
    /\ At(a, "unlink")
    /\ LET p == task[a].slug IN
       IF disk[p] = None
       THEN Give(a) /\ UNCHANGED <<files, dirty, history>>
       ELSE /\ Touch(p, None)
            /\ Echo({p})
            /\ missed' = missed \ {p}
            /\ Go(a, "remove", task[a])
            /\ UNCHANGED unlogged
    /\ UNCHANGED <<rows, log, phase, bounds>>

\* A row of `to` that has the stamp of the file that comes there from elsewhere.
Disguised(from, to) ==
    {p \in {to} : rows[p] # None /\ rows[p].stamp = Stamp(from) /\ rows[p].body # disk[from]}

\* The file keeps its modification time.  A source that has gone since Check
\* is an error; a destination that has come since is replaced.
Rename(a) ==
    /\ At(a, "rename")
    /\ LET from == task[a].src  to == task[a].slug IN
       IF disk[from] = None
       THEN Give(a) /\ UNCHANGED <<files, dirty, history>>
       ELSE /\ disk' = [disk EXCEPT ![to] = disk[from], ![from] = None]
            /\ mtime' = [mtime EXCEPT ![to] = mtime[from]]
            /\ Tell({from, to})
            /\ Echo({from, to})
            /\ missed' = (missed \ {from, to}) \cup Disguised(from, to)
            /\ Go(a, "read", task[a])
            /\ UNCHANGED <<clock, written, unlogged>>
    /\ UNCHANGED <<rows, log, phase, bounds>>

-----------------------------------------------------------------------------
(* Reading a page and indexing it.                                         *)

\* A move that finds no page where it has put one answers with an error and
\* leaves both rows as they are.
Abandon(a) ==
    /\ Give(a)
    /\ missed' = missed \cup {p \in {task[a].src, task[a].slug} \ dirty :
                                task[a].op = "move" /\ ~Reflects(rows[p], p)}

\* Store::read's text.  What becomes of a page that is not there is the
\* caller's business: the watcher closes its series, a scan only drops its
\* row, a handler answers 404.
Read(a) ==
    /\ At(a, "read")
    /\ LET t == task[a] IN
       IF disk[t.slug] # None
       THEN Go(a, "readstat", [t EXCEPT !.body = disk[t.slug]]) /\ UNCHANGED missed
       ELSE IF t.op = "watch" THEN Go(a, "remove", t) /\ UNCHANGED missed
       ELSE IF Scanning(a) THEN Go(a, "drop", t) /\ UNCHANGED missed
       ELSE Abandon(a)
    /\ UNCHANGED <<files, rows, log, phase, dirty, written, muddled, unlogged, bounds>>

\* And then its modification time; its size is the text's.  A file that is not
\* a page is not served, but its series stays open.
ReadStat(a) ==
    /\ At(a, "readstat")
    /\ LET t == task[a]
           stamp == [mtime |-> mtime[t.slug], size |-> Size(WordsOf(t.body))]
       IN IF disk[t.slug] = None \/ t.body = Garbled
          THEN IF Scanning(a) \/ t.op = "watch"
               THEN Go(a, "drop", t) /\ UNCHANGED missed
               ELSE Abandon(a)
          ELSE /\ Go(a, CASE t.op = "patch" -> "write"
                          [] t.src # None   -> "vacate"
                          [] OTHER          -> "upsert", [t EXCEPT !.stamp = stamp])
               /\ UNCHANGED missed
    /\ UNCHANGED <<files, rows, log, phase, dirty, written, muddled, unlogged, bounds>>

\* A move takes the row at its source out before it puts the page's in.
Vacate(a) ==
    /\ At(a, "vacate")
    /\ Put(a, task[a].src, None)
    /\ Go(a, "upsert", task[a])
    /\ muddled' = IF task[a].src = task[a].slug THEN muddled \cup {task[a].src} ELSE muddled
    /\ UNCHANGED <<files, log, phase, dirty, written, unlogged, bounds>>

\* A moved page taken down like any other.
Upsert_ForgettingMoves(a) ==
    /\ At(a, "upsert")
    /\ LET t == task[a]
           before == IF rows[t.slug] = None THEN None ELSE rows[t.slug].body
       IN /\ Put(a, t.slug, [body |-> t.body, stamp |-> t.stamp])
          /\ Go(a, "observe", [t EXCEPT !.change = Weigh(LastTotal(log, t.slug), before, t.body)])
    /\ UNCHANGED <<files, log, phase, dirty, written, muddled, unlogged, bounds>>

\* One transaction: the page's row, and what the write was worth against the
\* row it replaces and the last total the log holds.
Upsert(a) ==
    /\ At(a, "upsert")
    /\ LET t == task[a]
           before == IF rows[t.slug] = None THEN None ELSE rows[t.slug].body
       IN /\ Put(a, t.slug, [body |-> t.body, stamp |-> t.stamp])
          /\ Go(a, IF t.src # None THEN "moved" ELSE "observe",
                [t EXCEPT !.change = Weigh(LastTotal(log, t.slug), before, t.body)])
    /\ UNCHANGED <<files, log, phase, dirty, written, muddled, unlogged, bounds>>

\* A page that could not be read.
Drop(a) ==
    /\ At(a, "drop")
    /\ Put(a, task[a].slug, None)
    /\ Turn(a)
    /\ UNCHANGED <<files, log, phase, dirty, written, muddled, unlogged, bounds>>

\* A page that has gone: its row, and then its series.
Remove(a) ==
    /\ At(a, "remove")
    /\ Put(a, task[a].slug, None)
    /\ Go(a, "close", task[a])
    /\ UNCHANGED <<files, log, phase, dirty, written, muddled, unlogged, bounds>>

-----------------------------------------------------------------------------
(* The word log.                                                           *)

\* The line a is about to record: only a scan takes a baseline as one.
Due(a) ==
    LET t == task[a]
        change == IF Scanning(a) THEN t.change ELSE AsWritten(t.change)
    IN CASE t.at = "observe" /\ IsRecordable(change) -> <<Line(t.slug, change, None)>>
         [] t.at = "moved" ->
                <<Line(t.slug, Change("moved", Nothing, t.change.total), t.src)>>
         [] t.at = "close" -> <<Line(t.slug, Change("deleted", Nothing, 0), None)>>
         [] OTHER -> <<>>

Record(a) ==
    /\ task[a].at \in {"observe", "moved", "close"}
    /\ log' = log \o Due(a)
    /\ Turn(a)
    /\ UNCHANGED <<files, rows, phase, dirty, history, bounds>>

\* The slugs whose series a's line was to open or to close.
Marked(a) ==
    LET t == task[a] IN
    CASE t.src # None /\ t.at \in {"upsert", "moved"} -> {t.slug, t.src}
      [] Due(a) # <<>> /\ Head(Due(a)).kind \in {"baseline", "deleted"} -> {t.slug}
      [] OTHER -> {}

\* words::record could not append: it logs an error and carries on.
LoseLine(a) ==
    /\ Due(a) # <<>>
    /\ losses < MaxLosses
    /\ losses' = losses + 1
    /\ unlogged' = unlogged \cup Marked(a)
    /\ Turn(a)
    /\ UNCHANGED <<files, rows, log, phase, dirty, written, muddled, missed, requests, edits, stops>>

-----------------------------------------------------------------------------
(* The scan: index/sync.rs, for the starting server, a rescan of the       *)
(* watcher's and POST /api/reindex, which clears the pages first.          *)

Clear(a) ==
    /\ At(a, "clear")
    /\ rows' = [p \in Slugs |-> None]
    /\ Go(a, "walk", task[a])
    /\ UNCHANGED <<files, log, phase, dirty, history, bounds>>

Walk(a) ==
    /\ At(a, "walk")
    /\ Go(a, "compare",
          [task[a] EXCEPT !.walk = [p \in {q \in Slugs : disk[q] # None} |-> Stamp(p)]])
    /\ UNCHANGED <<files, rows, log, phase, dirty, history, bounds>>

\* By size alone.
Compare_BySize(a) ==
    /\ At(a, "compare")
    /\ LET walk == task[a].walk
           indexed == {p \in Slugs : rows[p] # None}
           unchanged == {p \in indexed \cap DOMAIN walk : rows[p].stamp.size = walk[p].size}
       IN Go(a, "next", [task[a] EXCEPT !.walk = <<>>,
                                        !.todo = DOMAIN walk \ unchanged,
                                        !.gone = indexed \ DOMAIN walk])
    /\ UNCHANGED <<files, rows, log, phase, dirty, history, bounds>>

\* The index's stamps, against those of the walk.
Compare(a) ==
    /\ At(a, "compare")
    /\ LET walk == task[a].walk
           indexed == {p \in Slugs : rows[p] # None}
           unchanged == {p \in indexed \cap DOMAIN walk : rows[p].stamp = walk[p]}
       IN Go(a, "next", [task[a] EXCEPT !.walk = <<>>,
                                        !.todo = DOMAIN walk \ unchanged,
                                        !.gone = indexed \ DOMAIN walk])
    /\ UNCHANGED <<files, rows, log, phase, dirty, history, bounds>>

\* The next page of a scan or of the watcher's batch, in whatever order.
PickPage(a) ==
    /\ At(a, "next")
    /\ \E p \in task[a].todo :
          Go(a, "read", [task[a] EXCEPT !.slug = p, !.todo = @ \ {p}])
    /\ UNCHANGED <<files, rows, log, phase, dirty, history, bounds>>

\* A scan then drops what it met no file for.
PickGone(a) ==
    /\ At(a, "next") /\ task[a].todo = {}
    /\ \E p \in task[a].gone :
          Go(a, "remove", [task[a] EXCEPT !.slug = p, !.gone = @ \ {p}])
    /\ UNCHANGED <<files, rows, log, phase, dirty, history, bounds>>

\* The events that came meanwhile taken for the batch's own.
Done_ForgettingEvents(a) ==
    /\ At(a, "next") /\ task[a].todo = {} /\ task[a].gone = {}
    /\ phase' = IF a = Starter THEN "reconciled" ELSE phase
    /\ dirty' = {}
    /\ Give(a)
    /\ UNCHANGED <<files, rows, log, history, bounds>>

Done(a) ==
    /\ At(a, "next") /\ task[a].todo = {} /\ task[a].gone = {}
    /\ phase' = IF a = Starter THEN "reconciled" ELSE phase
    /\ Give(a)
    /\ UNCHANGED <<files, rows, log, dirty, history, bounds>>

-----------------------------------------------------------------------------
(* The watcher.                                                            *)

TakeBatch(op, where, slugs) ==
    /\ Watching /\ Idle(Watcher) /\ dirty # {}
    /\ dirty' = {}
    /\ Go(Watcher, where, [Rest EXCEPT !.op = op, !.todo = slugs])
    /\ UNCHANGED <<files, rows, log, phase, history, bounds>>

\* A debounced batch of events that each name a page: look at those pages.
Batch == TakeBatch("watch", "next", dirty)

\* An event among them names a directory: look at everything.
Rescan == TakeBatch("scan", "walk", {})

-----------------------------------------------------------------------------
(* The server, and the world around it.                                    *)

Start ==
    /\ phase = "down"
    /\ phase' = "starting"
    /\ Go(Starter, "walk", [Rest EXCEPT !.op = "scan"])
    /\ UNCHANGED <<files, rows, log, dirty, history, bounds>>

\* server::start, once reconcile is over: adoption, binding, watcher::spawn.
Serve ==
    /\ phase = "reconciled"
    /\ \E watched \in Watches : phase' = IF watched THEN "up" ELSE "blind"
    /\ UNCHANGED <<files, rows, log, dirty, task, history, bounds>>

\* The process ends, whatever it is in the middle of.
Stop ==
    /\ phase # "down"
    /\ stops < MaxStops
    /\ stops' = stops + 1
    /\ phase' = "down"
    /\ dirty' = {}
    /\ unlogged' = unlogged \cup UNION {Marked(a) : a \in Actors}
    /\ task' = [a \in Actors |-> Rest]
    /\ UNCHANGED <<files, rows, log, written, muddled, missed, requests, edits, losses>>

\* Somebody deletes the database; the word log is read back in by Start.  What
\* went while nobody looked is now met by no scan, and its series stays open.
DeleteIndex ==
    /\ phase = "down"
    /\ rows' = [p \in Slugs |-> None]
    /\ unlogged' = unlogged \cup {p \in Slugs : rows[p] # None /\ disk[p] = None}
    /\ UNCHANGED <<files, log, phase, dirty, task, written, muddled, missed, bounds>>

\* Somebody edits, makes or deletes a page's file behind the server's back.
Edit ==
    /\ edits < MaxEdits
    /\ edits' = edits + 1
    /\ \E p \in Slugs, body \in Contents :
          /\ body # disk[p]
          /\ Touch(p, body)
          /\ missed' = IF Watching \/ phase = "down" THEN missed \ {p} ELSE missed \cup {p}
    /\ UNCHANGED <<rows, log, phase, task, muddled, unlogged, requests, stops, losses>>

-----------------------------------------------------------------------------

Request(c) == \/ Create(c) \/ Replace(c) \/ Patch(c) \/ Delete(c)
              \/ MovePage(c) \/ MoveOntoItself(c) \/ Reindex(c)

Step(a) == \/ Check(a) \/ Write(a) \/ Stat(a) \/ Unlink(a) \/ Rename(a)
           \/ Read(a) \/ ReadStat(a) \/ Vacate(a) \/ Upsert(a) \/ Drop(a) \/ Remove(a)
           \/ Record(a)
           \/ Clear(a) \/ Walk(a) \/ Compare(a) \/ PickPage(a) \/ PickGone(a) \/ Done(a)

Next == \/ \E c \in Clients : Request(c)
        \/ \E a \in Actors : Step(a) \/ LoseLine(a)
        \/ Batch \/ Rescan \/ Start \/ Serve
        \/ Stop \/ DeleteIndex \/ Edit

Spec == Init /\ [][Next]_vars

\* The runtime polls every task, the debouncer delivers what it holds, and
\* somebody starts a server that is down.
Fairness == /\ \A a \in Actors : WF_vars(Step(a))
            /\ WF_vars(Batch \/ Rescan) /\ WF_vars(Start) /\ WF_vars(Serve)

FairSpec == Spec /\ Fairness

-----------------------------------------------------------------------------
(* Properties.                                                             *)

Stamps == [mtime : Nat, size : Nat]
Changes == [kind : {"baseline", "observed", "net"}, added : Nat, removed : Nat, total : Nat]
Lines == [slug : Slugs, kind : {"baseline", "observed", "net", "moved", "deleted"},
          added : Nat, removed : Nat, total : Nat, src : Slugs \cup {None}]

\* The type invariant.
TypeOK ==
    /\ disk \in [Slugs -> Contents]
    /\ mtime \in [Slugs -> Nat] /\ clock \in Nat
    /\ rows \in [Slugs -> [body : Bodies, stamp : Stamps] \cup {None}]
    /\ log \in Seq(Lines)
    /\ phase \in {"down", "starting", "reconciled", "up", "blind"}
    /\ dirty \subseteq Slugs /\ muddled \subseteq Slugs /\ missed \subseteq Slugs /\ unlogged \subseteq Slugs
    /\ written \in [Slugs -> Nat]
    /\ \A a \in Actors : /\ task[a].slug \in Slugs \cup {None}
                         /\ task[a].src \in Slugs \cup {None}
                         /\ task[a].body \in Contents
                         /\ task[a].stamp \in Stamps \cup {None}
                         /\ task[a].change \in Changes \cup {None}
                         /\ task[a].todo \subseteq Slugs /\ task[a].gone \subseteq Slugs
    /\ {requests, edits, stops, losses} \subseteq Nat

Quiet == Serving /\ dirty = {} /\ \A a \in Actors : Idle(a)

\* With the server up and nothing under way or reported, the index is what is
\* on disk, except at slugs edited while nobody would look (index/sync.rs:3-5,
\* watcher.rs:3-6): whatever the order the handlers, the watcher and the scan
\* took their steps in, and wherever the process stopped.
QuietIndexMatchesDisk == Quiet => \A p \in Slugs \ missed : Reflects(rows[p], p)

\* Each line that counts words takes its series from the total before it to
\* its own: `total` is the check on the other two (words/mod.rs, Observation).
\* A slug where the watcher met the echo of a request's save is excepted: two
\* lines may take down one difference.  So is one moved onto itself: its line
\* closes the series it continues.
SeriesAddsUp ==
    \A i \in DOMAIN log : log[i].kind \in {"observed", "net"} /\ log[i].slug \notin muddled =>
        LET last == LastTotal(SubSeq(log, 1, i - 1), log[i].slug)
        IN (IF last = None THEN 0 ELSE last) + log[i].added = log[i].total + log[i].removed

Added(p) == FoldFunctionOnSet(+, 0, [i \in DOMAIN log |-> log[i].added],
                              {i \in DOMAIN log : log[i].slug = p})

\* The log never credits a page with more words than were written to it,
\* whoever saw the write first and however often: not a scan, not the watcher,
\* not an index that was deleted.  A slug whose opening line was lost is
\* excepted, and one where the watcher met a request's save, or moved onto itself.
WordsNotInvented == \A p \in Slugs \ (unlogged \cup muddled) : Added(p) <= written[p]

\* The index comes to agree with the disk again and again, unless edits or
\* stops keep coming.
CatchesUp == []<>(Serving /\ \A p \in Slugs \ missed : Reflects(rows[p], p))
=============================================================================
