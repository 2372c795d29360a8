# Rhizolog in TLA+

Rhizolog is a personal wiki server. Its files are the truth: markdown pages, a
log of words written, a time log and an idea inbox, all under one directory that
an editor or `git` may change behind the server's back. An SQLite database holds
a reading of those files, for search and for statistics, and can be deleted at any
time. This directory models the parts of the server where that arrangement is
hard to get right: several writers, no transaction over files and database, a
process that may stop anywhere, and a watcher that reacts late; and what the
server answers from its tables, where many queries have to tell one story.

Contents: 1. the system · 2. the modules · 3. the runs · 4. the proofs ·
5. what the code does otherwise than it says · 6. what is left out · 7. the plan.

## 1. The system

Paths are relative to `src/backend/src/`.

| component | state | operations | what makes it correct | modules |
|---|---|---|---|---|
| word log `words/mod.rs` | one append-only file per month; `gate`, a mutex holding the stamps last seen; table `page_words` | `record` (append, insert), `read` + `rebuild_words`, `unchanged` | the table is the log; a line is in it once; nobody waits for ever | WordLog |
| page files `store.rs` | markdown files, temporary files beside them | `read`, `write`, `create`, `delete`, `move_page`, `walk` | a page is always one save's page, whole | PageFile, PageRegister |
| page handlers `api/pages.rs`, `api/search.rs` | what a request holds across its awaits | create, replace, patch, delete, move, reindex | file, row and line come to agree | PageIndex |
| index `index/mod.rs`, `index/words.rs` | rows, stamps, `page_words` | `upsert` (weighs the write in the same transaction), `remove`, `stamps`, `clear` | a row is the page on disk; its stamp vouches for it | PageIndex, Catalogue |
| scan `index/sync.rs`, watcher `watcher.rs` | batches of events, 500 ms apart | fold the log, walk, compare stamps, reindex, drop, rescan | every change is looked at; echoes of the server's own writes are harmless | PageIndex, IdeaInbox |
| word statistics and pace `words/stats.rs`, `pace.rs` | none | charts by local day, pace towards a target | every line of a window is counted once, everywhere alike | WordStats |
| split and merge `api/spine.rs` | none | two files, two rows, lines, pins, lists of contents | words are never in no place; the book reads as before | Spine, Manuscript |
| compile `compile.rs`, `api/compile.rs` | none | the walk over lists of contents | ends; the manifest says what became of every entry | Compile, Manuscript |
| idea inbox `ideas/`, `index/ideas.rs`, `api/ideas.rs` | captures, threads, events as files; folded state | capture, start, connect, retire, delete; list, assess, suggest, draft | the fold does not depend on the order of arrival; answers agree | IdeaFold, IdeaInbox, IdeaViews |
| time log `times/`, `index/times.rs`, `api/times.rs` | one file per entry, its row | start, stop, patch, delete; listing, totals, statistics | no request inverts a span; every sum is of the log | TimeLog, TimeQueries, TimeStats |
| accounts and sessions `users/`, `auth.rs`, `index/sessions.rs`, `ideas/adoption.rs` | one file per account; session rows | gate, sign in and out, create, patch, delete, adopt | an owner remains; ended sessions stay ended; records keep their owner | Accounts |
| tables, search, listing, links, graph, pins `index/graph.rs`, `index/pins.rs`, `index/audience.rs` | eight tables a page's row is spread over; pins | enter, remove; every question a caller asks; pin, move | no tail of an older version; no trace of a hidden page | Catalogue, CatalogueQueries |
| server, usage tally, endpoint file, desktop shell `server.rs`, `api/usage.rs`, `endpoint.rs`, `src/desktop` | the process, counts in memory and in the index, a file naming the server, settings | launch, bind, publish, count, flush, shut down | a call is counted once; an endpoint file names a server of its wiki; a stop ends | Server |
| markdown, slugs, parsing, prose tools | none | text in, text out | sequential; unit-tested | none |
| dashboard, site, packaging | browser state | | outside the server | none |

How they interact. A request handler writes a file, asks for its stamp, upserts
the page and has the word log record the difference: four awaits with nothing
held between them. The watcher and the scan do the same from the other end,
starting from the file. The only locks in the program are the word log's gate,
the mutex around the database connection (one closure at a time, each at most
one transaction) and the usage tally's. The runtime is multi-threaded tokio, so
any two of these tasks interleave at every await.

What is hard: two writers of one page; the watcher reading back a write still in
flight; stamps read at another moment than contents; lines that could not be
written; a process that ends between a file, its row and its line; another
program writing the same files; a decision taken on what was read several awaits
ago; one rule spelled in Rust and again in each of a dozen queries.
`PROJECT.json` lists each with its line under "hazards".

## 2. The modules

The modules that are proved about (WordLog, PageIndex, IdeaFold, IdeaInbox, Accounts,
Server, PageFile, TimeLog, Catalogue, CatalogueQueries) reach no RECURSIVE operator; proofs are kept in `..._proofs`,
instances in `MC...`.

### WordLog (with MCWordLog, WordLog_proofs)

`words/mod.rs`, and what `index/words.rs` and `index/sync.rs` do to `page_words`
while they hold the gate. State: per month the set of lines that parse (`lines`),
whether the last line lacks its newline (`torn`), the file's `stamp`; the rows per
observation (`rows`); the gate's `holder`, the remembered stamps (`seen`), and for
the holder the locals of `append` and `read`. One action per await:

| action | code |
|---|---|
| `Record`, `Acquire` | `record` is called, `hold` gets the mutex |
| `Check`, `Write` / `WriteFails`, `Restamp` | `Held::append`: stamp, write, stamp again |
| `Insert` / `InsertFails` | `Index::record_words` |
| `Fold`, `Unchanged`, `TakeStamps`, `ReadMonth`, `FinishRead`, `ReadFails` | `refresh_words` / `sync_words`, `Held::read` |
| `Rebuild` / `RebuildFails` | `Index::rebuild_words` |
| `Start`, `Crash`, `LoseIndex`, `Pull` | the process and the world |

A crash or a failed write may leave any prefix of a line. Another program may
replace a month file at any moment, the two windows the code cannot see
included. `drift` records, as they happen, the five reasons for which a row and
its line may disagree while nothing looks out of date; the invariant holds but for
those, and 5. discusses them.

### PageIndex and WordStats (with MCPageIndex, PageIndex_proofs)

A page's way from file to row to line. `disk`, `mtime` and `clock` are the file
system; `rows` the index; `log` the word log, whose append and insert are one
step here because WordLog shows the gate makes them one; `phase` and `dirty` the
server and the watcher's events; `task` what each request, the watcher and the
starting scan have in hand. Handlers, watcher and scan share steps, as the code
shares functions: `Read` and `ReadStat` are `Store::read`, `Write` and `Stat` are
`Store::write`, `Upsert` is `Index::upsert` with `weigh`, `Record` is
`words::record`; `task[a].op` says who runs them and so what follows. A body is a
set of words, which keeps `added - removed` equal to the change of the total.

`written` counts what was really written; `missed` and `unlogged` name the pages
for which the code gives up: whose row is stale with nobody on the way to it (section 5 lists
the five ways), or bereft of a line that opens or closes a series.

WordStats is what is told of that log: `ChartWindow`, `Calendar`, `Chart` are
`api/words.rs` and `words/stats.rs`; `PaceWindow`, `Judged`, `Projected` are
`pace.rs`. Instants and days are integers, a zone is what is added to an instant,
and a clock may be set back between two lines. The log it is asked about is every
log PageIndex's behaviours leave, not a set of samples.

### PageFile and PageRegister over WikiNames (with MCPageFile, Files_proofs)

`write_atomically` and `Store::read` against a file system of names and inodes,
block by block. PageRegister says what store.rs:8-10 promises: a page is a
register that goes from one save's contents to another's in one step, never
after a crash or a failure. PageFile implements it (`ImplementsRegister`, by a
refinement mapping) as long as saves of one page do not overlap (`Together = 1`).

### Spine, Compile, Manuscript over WikiFiles (with MCManuscript, Files_proofs)

Spine is `split_page` and `merge_page`, step by step: the halves or the joined
page, the rows, the lines that open and close a series, the pin that moves with a
merge, and every list of contents that named the page, one after another (`"next"`).
A body is a sequence of texts, each written nowhere else, so that "a text is lost"
and "a text is in two places" can be said. Compile is the walk of `compile.rs` with
its explicit stack, one fetch per step. Manuscript runs both over the same files
and states what each promises the other's user.

### IdeaFold (with IdeaInbox_proofs)

`index/ideas.rs`. Three tables mirror the inbox's files (`captures`, `threads`,
`events`); five hold what the decisions add up to (`membership`, `rejections`,
`standing`, `archived`, `pairs`). The operations are the six upserts and removals and
`clear`, each one transaction that changes a mirror and refolds what the write
names: `FoldIdeas`, `FoldCaptures`, `FoldFor`, `IdeasNaming` are `fold_idea`,
`fold_capture`, `refold_for_event`, `ideas_naming`. The `FOLD_...` statements are
operators over the mirrors (`Members`, `Rejected`, `Standing`, `Archived`,
`RejectedPair`), built from `Newest` and `About`, which are "order by id desc limit
1" and its "where". They serve twice: in the operations on what is refolded, and in
`FoldIsCurrent` on everything. FoldSpec performs the operations in any order and is
what the inbox is shown to implement.

### IdeaInbox and IdeaViews (with MCIdeaInbox, IdeaInbox_proofs)

The files, the requests, the scan and the watcher over IdeaFold's tables.

| action | code |
|---|---|
| `Ask` | a handler of `api/ideas.rs` is called: twelve decisions, four other writes |
| `Check` | what it asks of the index first (`Allowed`, a case per handler), and `Utc::now()` |
| `Refer` | `service.rs` reads one file the request names; a missing one ends it |
| `Put` | the write: `write_capture`, `write_idea`, `append_event` |
| `Enter` | `index_capture`, `index_idea`, `index_event` |
| `Unlink`, `Drop` | what `delete_capture` does after its decision |
| `Fail` | a step returns an error |
| `Read`, `Reindex` | the scan or the watcher reads a record and enters or drops it |
| `Start`, `Serve`, `Crash`, `LoseIndex`, `Edit` | the process and the world |

Each is separated from the next by an await, and nothing is held across one.
`late` names the records a handler entered after their file had changed again:
nobody looks at those a second time.

IdeaViews is what the inbox answers: `CaptureRecord` and `ListCaptures`,
`IdeaState` and `Summary` (two queries for one thing), `Receipt` (`assess`, in the
order of its rules), `ListIdeas`, `Candidates`, `Draft`. How alike two texts are is
a parameter, `Likeness`, assumed to be symmetric and no more.

### TimeLog, TimeQueries, TimeStats (with MCTimes, TimeLog_proofs)

TimeLog is the files, the requests and those who bring the rows in line with the files.
Requests: an id minted by looking for a free name, the write, the stamp, the row, an
await each; a patch and a stop that read, change and write back. Any actor reads in two
awaits, the text (`Read`, `Look`) and the modification time of whatever is there by then
(`Draw`, `LookAgain`). The watcher takes some of the waiting events, either as a batch that
names entries (`Batch`) or, if one of them names a directory, as a rescan (`Rescan`). A
rescan, a reindex (`AskReindex`, `ClearRows`) and the scan of a start (`Start`) are the
same steps of `sync_times`: `Walk`, `Compare` against the stamps in the index, entry by entry
what was found changed, `DropGone`, `Done`. `phase` says how far a server is: "down",
"starting" (scanning, serving nobody), "reconciled" (scanned, not watching yet), "up", or
"blind", when the file system cannot be watched. Whoever writes a file while the watcher
is there makes an event (`dirty`); before and otherwise nobody is told. A request, a scan or
a batch may fail at each of its steps (`Fail`), and the process may stop at any (`Stop`).

`late` names the entries nobody looks at again though their rows are not as their files:
those edited by hand beside the starting scan, between the scan and the watch, or where
nothing watches; those a request entered behind a file that had changed and been seen to;
those a failed step left; and those whose row has got the stamp of another text, which
every later scan takes for unchanged. Anything that puts the row right takes the entry out of `late`.

TimeQueries is `index/times.rs`: listings with their filters,
sorting and limits, groups, totals, samples. TimeStats is `times/stats.rs`: the
edges of a day, week, month and year in the caller's offset, the seconds in each
bucket, and the heat map; the calendar is a parameter.

### Accounts (with MCAccounts, Accounts_proofs)

`Gate`, `LookUpSession`, `FindAccount`, `Renew` are the middleware of `auth.rs` that
every request passes; `Create...`, `Patch...`, `Delete...`, `Revoke` the handlers of
`api/users.rs`; `LogIn...`, `Purge`, `LogOut` those of `api/auth.rs`; `AdoptLook`,
`Adopt` the adoption of records that belong to nobody; `Restart` adopts as many as it gets
to, an error on the way being logged and served on (adoption.rs:236). `late`, `raced`, `edited`,
`unrevoked` and `unadopted` record what the properties except, when it happens.

### Catalogue and CatalogueQueries (with MCCatalogue, Catalogue_proofs)

Catalogue holds the tables as the schema has them, and enters and removes a page
in them table by table; who may see a page is spelled twice, as in the code:
`Readable` over the file (`api/pages.rs`) and `Sees` over the rows
(`index/audience.rs`). CatalogueQueries is every question: `ListAnswer`, `SearchAnswer`,
`LinksAnswer`, `LinkGraph`, `StatsAnswer`, `ReadPage`, with defaults, ceilings and pages. A query
takes the tables and a View of them, what an audience sees; the graph and the figures are
made of what was selected (`Drawn`, `Figures`), as the code makes them of its result sets.

### Server (with MCServer, Server_proofs)

The process from `Launch` to `ShutDown`: is the wiki being served already, which port,
the bind, the endpoint file, the calls and their count, the flusher, and the
shutdown in the order of `server.rs`. Two programs run it, the desktop shell and
the headless server, and share the machine's ports and the shell's settings.
What each process has in memory is added up by `SumFunction` of the community modules.

## 3. The runs

No run's bounds are constants of the code; each is named in its module. All but
`word_log` set CHECK_DEADLOCK FALSE: the wiki is at rest when nobody asks anything
of it, which is no deadlock. States are distinct states found.

| run | instance | shows |
|---|---|---|
| `word_log` | 2 recorders, 1 folder, 2 observations in one month of two, 2 pulls, 2 crashes, fair; 0.2 M states | types; `UnchangedMeansFolded`: skipping the read loses nothing; `NeverCountedTwice`; `NoRowLostUnnoticed`; `EveryRecordSettles` |
| `page_files` | 1 page, 2 words, 3 edits, 2 stops, 1 lost line, the index deleted at will, two clocks and zones, fair; 0.7 M | types; `QuietIndexMatchesDisk`; `WordsAddUp` (the series adds up, nothing is credited twice, charts and pace count it alike); `CatchesUp` |
| `page_requests` | 2 pages, 1 word, one client, 2 requests of every kind, 2 stops, 1 lost line, watched or not; 3.1 M | the same safety across restarts, moves and echoes |
| `page_file` | 2 pages, 2 values, 2 writers, 1 reader, 2 blocks, 4 saves, 2 crashes; 1.3 M | pages and readers are whole; the register is implemented |
| `idea_alone` | 2 captures, 2 ideas, 1 page, one client, 3 requests of every kind, 1 crash, the index deleted at will, answers asked at 8 instants; 2.5 M | types; `FoldIsCurrent`; `DeletionsOnRecord`; `IdeasHoldTogether`: the rules, one request at a time (`DecisionsAlternate`, `NeverEmpty`, `EvidenceKept`), and the answers |
| `idea_together` | 1 idea, 2 clients, the watcher, 2 requests, 1 edit, 1 failure; 2.6 M | `InboxIsServed`: the tables come to be the files (`InboxMatchesFiles`), the answers agree; `ImplementsFold` |
| `manuscript` | 64 books of 3 pages, 2 requests of which 1 compile, 1 failure, stop or lost line; 1.1 M | `TextsAreKept`, `BookIsKept`, `ManifestIsTrue`, `EveryCompileEnds` |
| `times` | 4 instants of 2 to a second, 2 clients, 2 requests, 1 edit, 1 reindex or rescan, 1 stop or failure, 3 of these in all, watched or not, 3 offsets; 5.6 M | `EntriesAreSound`; `TheLogIsShown`: rows (`RowsMatchEntries`), listings, totals, statistics; `RequestsActAtOnce` |
| `accounts` | 2 names, 2 passwords, 2 clients, 2 requests of ten kinds, 2 sessions, a lifetime of 3, 1 mishap; 3.5 M | `SomebodyAdministers`, `SessionsAreSound`, `EndedStaysEnded`, `NotesKeepTheirOwners` |
| `catalogue` | 3 slugs, 2 accounts and the public, 9 wikis, 1 request, 1 edit, every question of every caller; 26 K | `TablesHoldThePages`, `HiddenStaysHidden`, `AnswersAgree`, `PinsKeepTheirPlaces` |
| `catalogue_pins` | the same | section 5, a violation |
| `server` | 2 processes, 2 wikis, 2 ports, 2 launches, 2 calls, 1 mishap, fair; 1.1 M | types, and no two listen on a port; `EveryCallIsCounted`, `EndpointsAreTrue`, `StopsEnd` |

Why the bounds are enough. Two recorders and one folder are the smallest set
with both races of the gate's comment (line/read/replace/row, read/line/row/replace)
and a third party to the mutex; the two observations share a month so that one can
land on the other's torn line, and the other month is a file nobody records in and
others may write; two pulls are one in each of `append`'s windows. Two words let one
body replace another of the same size, which is what stamps by size miss; two pages
let a move or a batch have two ends. In the inbox two captures and an idea are a pair,
a last member and one before the last; captures are born at instants on either side
of the first decision, so that either can be the idea's last sign of life; three
decisions are a decision, its opposite and one that must not be a repetition; the
second idea is another one a capture can be in, and one to be listed after. The
instants asked about cover each window and the day after the longest. Two clients
and one edit put a third writer on a file two requests are at. A split and a merge
of three pages can be a request and its repetition after a failure, or one and a
compile around it; the books hold lists with repetitions, loops, excluded and
missing pages, and lists of pages nobody but another may read. Two requests on one
time entry are every pair of stop, patch, delete and create; half a second is the
fraction a sum drops; three of request, edit, scan and mishap are enough for a scan
with a write and a stop, or an edit between a request's text and its stamp; the lengths of the
files tell some pairs of them apart and some not; the years begin in the middle of a week, and the offsets are
one to either side and one past the largest. Two names are an owner and another, the
only two the last-owner rule can tell apart; a lifetime of three ticks, renewed after
one, has a moment in which a session is found unrenewed and one in which it runs
out. Three slugs are two ends of a link and one it leads through; a directory and a
page in it share a segment. Two processes, wikis and ports make each port and each
wiki disputed.

Fairness. A task that can run is polled again (weak fairness of each step);
tokio's mutex is first come, first served, hence strong fairness of `Acquire`;
the debouncer delivers, and somebody starts a server that is down (weak fairness of
`Batch \/ Rescan`, `Start`, `Serve`); a compile is one request, polled until it ends;
a process that was told to stop is scheduled, its calls are answered and its flusher
runs (`Runs`, `Answer`, `RecordUsage`, `MergeUsage`). Nothing says that requests, edits,
crashes or failures happen, and nothing in Accounts, TimeLog, Catalogue or IdeaInbox is
fair: no property there says that something comes about.

Several properties are conjunctions, of one question each: `WordsAddUp`, `InboxIsServed`,
`IdeasHoldTogether`, `TheLogIsShown`, `AnswersAgree`. Their parts are named and commented
where they are defined.

Every property has a mutant: a definition of the code with one plausible mistake
(`..._NotAsking`, `..._BySize`), kept beside the definition it changes, under which
TLC finds the property violated.

## 4. The proofs

**WordLog_proofs** proves, for every number of tasks, months, observations, pulls
and crashes, and from the module's four assumptions on constants alone:

- `WordLogInvariant`: `Spec => []WordLogInv`, the inductive invariant;
- `WordLogTypes`, `WordLogUnchanged`, `WordLogCountsOnce`: the three invariants of `word_log`;
- `WordLogKeepsRows`: its action property.

The properties are not inductive. `NeverCountedTwice` alone does not survive
`Insert`, which adds a row: one has to know that the row is not there yet, hence
that an observation being recorded has been used by nobody else, hence what the
gate protects. `WordLogInv` therefore says, beside the types: exactly the tasks between
`Acquire` and `Release` are in the gate and there is at most one, `holder`
(mutual exclusion); an observation in hand is in hand once and has no row before `Insert`;
what the holder has found out since it took the gate still holds, unless another
program's write moved a stamp (`known`, `taken`, `got`); and for every month whose
remembered stamp is its present one, rows and lines agree up to `drift`. Stamps
only grow, so equality of stamps means nothing happened in between; that is the
lemma every step rests on. The proof has a step per action and, below it, one
per conjunct the action can disturb.

**IdeaInbox_proofs** begins with the fold, for any captures, ideas, pages and instants:

- `IdeaFoldTypes`: `FoldSpec => []TablesTypeOK`;
- `IdeaFoldCurrent`: `FoldSpec => []FoldIsCurrent`.

`FoldIsCurrent` is inductive with the types, and the whole argument is about what
an operation does *not* refold: for each fold a lemma says which rows it reads, and
for each operation one says that an idea or a capture left out names none of the
rows changed. For `UpsertCapture` that is where `ideas_naming` has to list seeds,
events and present members all three. `UpsertEvent` refolds what the event names
now; that is enough only if the row it replaces named the same, hence the guard
of `Append`, which FoldSpec grants and the inbox has to earn:

and goes on with the inbox, for any number of clients, requests, edits, failures, crashes:

- `IdeaInboxTypes`: `InboxSpec => []InboxTypeOK`;
- `IdeaInboxImplementsFold`: `InboxSpec => ImplementsFold`, the refinement (the identity on the tables);
- `IdeaInboxFoldCurrent`: `InboxSpec => []FoldIsCurrent`, from the two before;
- `IdeaInboxDeletionsOnRecord`: `MaxEdits = 0` implies `InboxSpec => []DeletionsOnRecord`;
- `IdeaInboxMatchesFiles`: `Watched` implies `InboxSpec => []InboxMatchesFiles`, the first half of `InboxIsServed`;
- `DecisionsTakeTurns`, `IdeasNeverEmpty`: `OneRequest` implies `InboxSpec => []DecisionsAlternate` and `[]NeverEmpty`;
- `IdeasKeepEvidence`: `OneRequest` and no watcher imply `InboxSpec => []EvidenceKept`: these three are `IdeasHoldTogether` but for the answers.

The refinement needs `Agreement`: whoever has the event of an instant (the file,
the row, what the watcher has read, a request about to write or enter it) has the same
one; and that an instant handed out is handed out once, which the clock gives. The
theorem on deletions follows a request from the event it wrote to the file it removes; it
needs the files to be nobody else's (`MaxEdits = 0`), and no bound on clients. `IdeaInboxMatchesFiles`
replaces "at rest" by what is true at every step while a scan or a watcher runs
(`Followed`): a row that is not as its file is waiting to be read or is in hand, or is `late`,
and what is in hand is the file's unless its record waits to be read once more. Since
every write to a file is heard of, the request that made it need not arrive: it may fail
before its row. Without a watcher that is not so.

The last three are about what the handlers decide. `OneRequest` is one client, nobody else
at the files, no failing step, finitely many captures; requests, crashes, deleted indexes,
scans and, for the first two, a watcher as they come. A decision is taken by looking at the
index, the properties are about the files, and between the look and the write lie awaits;
so the invariant (`AloneInv`) says what the index is worth at each moment and what a request
may still rely on. `IndexFits`: when requests are served, a record with a file has that
file's row or is about to (`Entering`); in a scan, it has it or is to be read; and a row
without a file is of a capture that once was (`RecordsFit`). Hence, with nothing being
entered, events and threads are the files and every capture that has a file has a row
(`CaughtUp`), and with `FoldIsCurrent` what the handler is allowed is news to the log
(`AllowedIsDecided`) and takes no idea's last evidence (`AllowedIsSpared`). `RequestFits`
carries that to the write: an instant later than all there are, what was named is there, `Decided`,
`Spared`. `NewDecision` and `MembersAfter` then say what one later event does to each
fold of the log. `EvidenceKept` needs the watcher out of the way, and TLC shows why: a
watcher that has read a capture's file before a request deleted it puts the row back, and
the next deletion counts that capture as one that is left (section 5).

**Accounts_proofs**, for any number of clients, names, sessions, mishaps, states all
five properties of the run `accounts`:

- `AccountsTypeOK`: `Spec => []TypeOK`;
- `EndedSessionsStayEnded`: `Spec => []EndedStaysEnded`;
- `SessionsHold`: `Spec => []SessionsAreSound`;
- `AnOwnerRemains`: if no wiki starts with members only, `Spec => []SomebodyAdministers`;
- `NotesKeepOwners`: under the same hypothesis, `Spec => NotesKeepTheirOwners`.

The hypothesis (`FirstAccountsHaveAnOwner`) is what the code makes true of every wiki it
set up itself: the first account is an owner, whatever was asked for.

That a token's row is gone does not keep by itself: a sign-in might mint the token
again, a renewal under way might put the row back. `IInv` adds that tokens are minted
in order and a row is only where one was minted, that what was ended was minted, and
that a request in the middle of its session has such a token in hand. That a renewal
keeps a missing row missing is `Renewed`, the update of a row that need not be there
(index/sessions.rs), and is what the mutant of `accounts` takes away.

Between the look at the other owners and the write there are awaits, so `AInv` speaks
of requests half way: what one has read is a file (`Look`), where it needs another
owner it saw one, and where it makes an account that is not the first, there is one
already (`Second`), lest a member be made in a wiki that has been emptied meanwhile. A
write that finds something else than its look did is `raced`; each of the three writes
is a lemma with that case and its opposite, and every other step writes nothing an
owner depends on.

Types are more than types there: `TInv` says for each step what a request that is at it
has in hand, since a handler that writes back what it read is typed only if it has read.

`SessionsHold` has two halves. A session is worth its password: a row that agrees with no
account belongs to a name whose change has not got to its rows yet, and the step after the
write is the one that ends them (`Worth`). It lasts as long as it is used: what a
request is told when it looks (`SeenLasts`) must still hold when it is let in, two awaits
later, though others renew, purge and revoke in between, and the clock moves at most once
meanwhile (`Quick`, from the guard of `Tick`). A row only ever moves forward, or is
taken away by one who recorded it as ended, or has run out.

`NotesKeepOwners` needs who is adopting: while notes of the open wiki are nobody's, the
request that made the first account is on its way to them, and what it has not yet been
through is on its list (`Adopting`). That there is only one such needs that accounts which
are not the first are made beside another one. A wiki two requests have emptied at once
while a third was making its second account breaks that; the attempt to prove the property
without `raced` among its exceptions failed there, and with three clients, three names and
four requests TLC finds that behaviour, which the run's two clients cannot have.

**Server_proofs**, for any processes, wikis, ports, launches, calls and mishaps:

- `ServerTypeOK`: `Spec => []TypeOK`, with which no two servers listen on one port;
- `CallsAreCounted`: `Spec => []EveryCallIsCounted`;
- `EndpointFilesAreTrue`: `Spec => []EndpointsAreTrue`.

What is added is little, and is about the order of a shutdown. `CountsFit`: calls are over
once a process settles, and the tally is drained when it flushes for the last time, so
nothing is left to lose when it goes; and a process has something to count only while it
has a wiki to count it for. Beyond that, each step moves calls from one of four places to the
next, and the sum over the processes changes by what the one that moves does.

Server_proofs begins by proving that last fact and its like (`SumIsNat`, `SumTakesOut`, `SumAtLeast`,
`SumOfChange`, `SumOfZeros`) from the definition of the fold. The library's induction theorems take a
predicate, which these provers cannot instantiate; its theorem that a well-founded set has
a least element takes a set (`WFMin`), so the inductions here go by a least counterexample:
that the recursion over finite sets defines a function at all, and that the sum does not
depend on the order in which elements are taken. Accounts_proofs picks the first note and
its heir in the same way.

**PageIndex_proofs**, for any pages and words, requests at a time, edits, stops and lost lines:

- `PageIndexTypes`: `Spec => []TypeOK`;
- `QuietIndexIsTrue`: `Spec => []QuietIndexMatchesDisk`.

The property speaks of a moment when nothing is under way, and every step is taken at some
other moment. What keeps instead is `AllCovered`: a page whose row is not what its file says has
an event waiting for the watcher, or an actor on its way to the row (`Covers`: a scan that has
not walked yet, a walk that will find the row's stamp wrong, a batch with the page in it, a
handler between its file and its row). It needs three companions. A scan trusts a row that has
its file's stamp, so a row that has it is right (`VouchedIsTrue`), which rests on stamps being
of the past (`StampsPast`). What the watcher or the starting scan has read is still there when
it gets to the row, unless an event has come since, or the page is missed
(`HandFits`); what a request has read may be anything, which is why its row may be stale. And
who is at what in which phase (`PhasesFit`): no request runs beside the first scan, so that scan is
overtaken only by somebody with an editor.

`missed` is recorded at the step where a page is given up, and the proof told which steps those
are. With edits, two clients and equal modification times the earlier account of it, edits and
late stamps, was too small: a move can give up between its rename and the rows, and can bring
a file under the stamp of another page's row. Before it was proved, TLC looked for behaviours
against the invariant with two clients, the watcher and an editor on two pages. One lemma serves all steps that only change what an actor has in
hand (`TaskMoves`), one those that write a row (`PutKeeps`), one those that change files
(`FilesMove`); each action has its own on top.

**Files_proofs**, its first half, for any number of pages, values, saves, readers, blocks, crashes:

- `PageFilesAreWhole`: `Together = 1` implies `Spec => []WholePages`;
- `PageFilesAreRegisters`: `Together = 1` implies `Spec => ImplementsRegister`.

`Together = 1` says that the saves of one page do not overlap. It is not a matter of
convenience: two that overlap share a temporary file (store.rs:350) and the page can be half of
each, which TLC finds at once with `Together = 2`; nothing in the code prevents it (section 5).
Saves of different pages overlap at will. The invariant is about inodes: the one at a
temporary name is at no other name and open to no reader (`TempsApart`), holds what its save
has written so far and nothing else (`SavesFit`), and one that was opened as a page never
changes again (`LooksFit`), because `File::create` takes the inode left at the
temporary name or else one nobody has. That there always is one is a count: each page is two names, and each save and reader has one open. In the
refinement the register's steps are the rename, the save's end when it fails, and a crash, which
drops what was asked and leaves what is there.

**Files_proofs**, its second half, is about the manuscript. For any wikis, slugs, texts, ceilings,
requests at a time, compiles, stops, errors and lost lines:

- `ManuscriptTypes`: `ManuscriptSpec => []ManuscriptTypeOK`;
- `ManifestsAreTrue`: `ManuscriptSpec => []ManifestIsTrue`;

and with one request at a time (`OneClient`), for any number of them one after the other:

- `KeepsTheTexts`: `FirstApart` implies `ManuscriptSpec => []TextsAreKept`;
- `MergesAreClean`: `ManuscriptSpec => NothingLeftBehind`;
- `SplitsAreDiscreet`: `ManuscriptSpec => SplitsPublishNothing`.

`ManuscriptTypes` needs what each request has read by the time it is somewhere (`HandFits`): a cut
is inside the body, a destination is a page. That a list with an entry spliced in or out is a
list again, and no longer names what was taken out, is proved of the recursive function itself, by a
least counterexample (`SplicedIs`).

`ManifestIsTrue` speaks of a walk that has ended, and what it says of the tree has to be carried
through the walk. `EmittedFits`: what is in the document is what the walk calls emitted, but for
the preamble, which compile.rs does not count among them. `TreeFits`: for each section whose list is
still open, its entries are below it in the manifest or on the stack, in order, those on the
stack after those in the manifest; the stack is deepest at its top, so that what is popped next
belongs to the section nearest above. `DocumentFits`: the sections' texts follow one another
and between them there are only blanks. `SumsFit`: the subtree of a section is the sum of the words from
it to the next section that is no deeper (`Runs`, the recursion of `accumulate_subtrees`), and that this is how
many places of the document hold text is an induction from the last section backwards. None of it
depends on what the files are, so nothing is assumed of who writes them meanwhile.

With one request at a time the files are what the request read or wrote there (`FilesFit`); nobody
else edits them, and neither a restart nor the watcher changes one. Between a split's two writes,
and between a merge's, exactly one text or set of texts is in two places: the invariant says so by
saying that the wiki without the one page has every text once (`Settled`, `Apart`). The index and the
log are behind by exactly what the request is about to tell them (`RowsFit`, `IndexFits` with
`Unindexed`, `TotalsFit` with `Untold`), and the lists that still name the page merged away are those
the request has yet to read or is about to write (`NamesFit`): those it found are all there are
because the index was up to date when it asked (`IndexFits`), which is why a half-done request before
it voids the promise (`halved`). Each step is first shown to be one of some twenty forms that say what
it changes (`Moves`, `StepIs`), so that each invariant is proved of the forms.
`FirstApart` says that the wikis it may start with have every text once, without which "lost" and
"twice" mean nothing. `OneClient` is no convenience: two requests that have a page in common
both read it before either writes, and with two merges at once TLC finds `TextsAreKept` violated.
Nothing in the code prevents it; the property says what one author at a time may rely on. TLC checked the
invariant (`AloneInv`) on the run's instance before it was proved.

**TimeLog_proofs**, for any number of clients, instants, requests, edits, scans and mishaps:

- `TimesInvariant`: `Spec => []IInv`, the inductive invariant;
- `TimesAreSound`: `Spec => []EntriesAreSound`;
- `TimesRowsMatch`: `Spec => []RowsMatchEntries`, the first part of `TheLogIsShown`;
- `TimesActAtOnce`: `Spec => RequestsActAtOnce`.

`RowsMatchEntries` says something only of a moment when everybody is at rest, and has to be
replaced by what is true always (`AllCovered`): a row that does not say what its file says is
late, or its event is waiting, or somebody is on the way to it (`Covers`): an actor that has not
walked yet, or walked and will find the stamps different, or has the entry on its list or in hand;
or no server runs. In that last case a start's scan has to find it, and the scan trusts a row that
has its file's stamp: so such a row must say what the file says, unless it is late (`Vouches`),
and that keeps only because neither a row nor anything in hand is stamped ahead of its file
(`Behind`). What the watcher and the starting scan have in hand is what is there, unless an
event of it waits, or, for the scan, unless it is late (`SightFits`): since a text and its
stamp are read apart, this is what makes a torn reading somebody else's to repair. Nobody serves
while the first scan runs (`PhasesFit`). `Length` is any function: nothing depends on whether the
sizes of files tell two texts apart. `WriteFits` says that what is about to be written is the
file that was read with what was asked changed in it. That an id minted from a start is an
instant there is rests on one assumption on the bounds: the instants of the model make whole
seconds. TLC checked the invariant on the run's instance before it was proved.

**Catalogue_proofs**, for any slugs, users, pages, links, drafts, requests, edits and limits:

- `TablesAreThePages`: `Spec => []TablesHoldThePages`;
- `HiddenPagesStayHidden`: `Spec => []HiddenStaysHidden`;
- `MenuIsKept`: `Spec => PinsKeepTheirPlaces`.

The tables go page by page: `Holds` says what the seven tables have of one page, entering or
removing a page settles `Holds` for it and takes nothing from the others (`UpsertedHolds`,
`RemovedHolds`), and a move is both. With that the two rules of who may read a page agree
(`RulesAgree`). That hidden pages leave no trace is proved of any tables at all, true to the files
or not, so long as a link out of the wiki is not a slug (`TablesLeaveNoTrace`): the view of
the purged wiki is the same view (`ViewsAlike`), each query selects the same from either
(`QueriesAlike`), and an answer is a function of what was selected (`AnswersAlike`), for every
query, root, depth and limit and not only those the run asks.

The proofs use the constants' assumptions, stated beside them, and nothing else. Those about sizes
and sentinels (finite sets of processes, pages, writers, readers; `None` not a value) hold of any
run; the last two on requests say what the handlers check before anything else: a create and a
login carry a password (api/users.rs:102, api/auth.rs:46).

Left to TLC, since it is out of the prover's reach: liveness under fairness
(`EveryRecordSettles`, `CatchesUp`, `EveryCompileEnds`, `StopsEnd`); and what RECURSIVE operators
compute, which tlapm has no backend for, or recursive functions for every input, which is
induction over data: that a book reads as before (`BookKeepsItsText`, the second part of
`BookIsKept`, compares two walks of two trees), sorting and shortest paths (`AnswersAgree`),
calendars and sums of days (WordStats, TimeStats), likeness.
Model-checked only, so far: what the series of PageIndex add up to (`WordsAddUp`), WordStats, the answers
of the inbox (`InboxIsTold`, which is what remains of `IdeasHoldTogether` and `InboxIsServed`), the listings, totals and statistics of the time log, and that the
catalogue's answers agree with each other (`AnswersAgree`).

## 5. What the code does otherwise than it says

**A page moved onto itself loses its pin** (run `catalogue_pins`). `Store::move_page`
returns the page when both slugs are one (store.rs:204), and the handler goes on to
`repin(from, to)`: the insert is ignored, the delete takes the only row. api/pages.rs:1166-1168
says a pin follows the page.

The following are noted where a property excepts them; TLC finds each as soon as its
exception is taken out.

Words and pages:

- A torn line takes the next one with it (words/mod.rs:437); 472-473 promise otherwise
  ("should cost that line and nothing else").
- A page's first save can be counted twice: the watcher reads it back after its row and
  before its line, and `weigh` asks for the last total before it compares bodies
  (index/words.rs:125-130, 165); such pages are `muddled`. The echo of one save, read before
  and indexed after the next save's row, records a line although nobody but the
  handler wrote; and two saves of one page that overlap are both weighed against the
  total before them.
- A stamp may be a later file's (store.rs:159): an edit of equal length between rename
  and `metadata` is never seen again, no tool restoring mtimes needed (index/sync.rs:11-16).
- Two overlapping saves share a temporary file (store.rs:350), and the page can be half
  of each; hence `Together = 1`.
- `drift` without "unfolded": `read` notes the stamps before `rebuild_words` has
  succeeded, so a failed rebuild goes unnoticed until the log changes. Without
  "before"/"after": words/mod.rs:429-431 names the first of these two windows; the second,
  between the line and the stamp after it, is as wide.
- A move onto itself appends a `moved` line that closes the series it has just
  continued (words/mod.rs:138-139 says it continues "at the new one").
- `unlogged`: a line that opens a series and was lost does not come back as a net, as
  words/mod.rs:551-555 has it, but as words written, all of the page's.
- `missed`, in five ways. A page edited after the startup scan has passed it and before the
  watcher starts is stale until the next start. A handler's row, an await behind its file, can
  overwrite the row of a later write or edit whose event has been seen to. A row can be entered with a
  later file's stamp (above). A move can bring a file to where a row has that file's very stamp
  and another body: two files of equal length and modification time. A move whose page is gone
  by the time it reads it back (store.rs:224) answers with an error and leaves both rows. The last
  four last until the page is touched again; only those whose row has the file's stamp
  survive a restart.
- index/sync.rs:158-160 says an unreadable log leaves the series empty; the table keeps
  what it held.
- A 400-day chart that begins within a day touches 401 local days and drops its last
  (words/stats.rs:215), though api/words.rs:232-240 says a chart wants the recent end and
  stats.rs:198 "Every local day the window touches"; the totals include it (`Draws`).

Split, merge:

- A repair that indexes a parent whose file had already changed swallows the
  difference. After a half-done request, a merge before the watcher catches up leaves a
  list entry naming the merged page (`halved`).

Ideas:

- A live idea can lose its last evidence: deleting a capture counts the captures that
  are left, disconnecting one counts those there ever were (api/ideas.rs:1475;
  knowledge-base/idea-inbox.md:191). `EvidenceKept` holds but for this.
- It can also lose it to the watcher, with one client: the watcher reads a capture's file, a
  request deletes it and drops the row, the watcher enters what it had read; until it
  looks again, a deletion of the idea's other capture finds one left to stand on.
- With two clients both look before either writes, so that two disconnections or two
  deletions empty an idea, and one decision is taken twice (idea-inbox.md says
  duplicates "do not write duplicate events"). `needs_repair` in a deletion's answer
  can only be true when another request or edit came between.
- `late`: a handler enters its row an await after its file; if in between the file is
  deleted and the watcher sees it gone, the row comes back and stays until the next start.
- If somebody edits an event file to name another idea, only what it names now is refolded
  (idea-inbox.md:325 says that editing an event "recomputes the affected idea's folded
  state"). `Edit` therefore only erases events.
- Two captures held by one *retired* idea are suggested for each other: idea-inbox.md:414-415
  excludes "captures that already share an idea with it", and ideas/analysis.rs:416-419
  says that "a capture in no thread shares none".

Time log:

- Two creates of one instant both find the id free and one is lost (times/mod.rs:136-140);
  two overlapping stops both succeed (api/times.rs:613-617 says 409); a patch that read
  before a delete brings the entry back. `RequestsActAtOnce` speaks of a request whose
  file nobody touched.
- `late`, in five ways. An entry edited by hand after the starting scan has
  read it, or after the scan and before the watcher starts (server.rs:141-158), is stale until the next
  start; where nothing can be watched, an edit always is, as the warning says. A handler's row,
  two awaits behind its file, can overwrite the row of a later write or edit whose event has been
  seen to. A read takes the stamp after the text (times/store.rs:128, 139) and a write after the
  rename (times/store.rs:171): a write in between leaves the older text under the newer file's
  modification time, which the watcher puts right if it gets to its event; if the server
  stops before, and the two texts are of one length when the text was read (a write takes the
  size with the time, so there of any length), every later scan calls the row unchanged
  (index/sync.rs:306). A step that fails leaves the entry as it is, and all that its
  scan had not reached.
- A reindex empties the tables and does not hold off writers: what a request enters
  between the walk and the look at the stamps is dropped again (index/sync.rs:325-328) until
  the watcher gets to its event; without a watcher, until the next scan.
- `list_time_groups` reads groups and totals in two awaits.
- An offset of a day or more is cut to exactly a day (api/times.rs:733), which `zone` turns
  into UTC while the response reports ±1440.

Accounts:

- Overlapping changes of owners, or two first accounts at once, can leave none or make two
  (`raced`). A sign-in verified before a password change and minted after it outlives it (`late`).
- index/sessions.rs:69-71 says "The startup purge covers the rest", but only a sign-in
  purges (api/auth.rs:140).

Listing, pins:

- GET /api/links/{slug} of a page a caller may not read lists its outbound links
  (index/graph.rs:398-446) though visibility.md:207 has it answer as for an absent page.
  `HiddenPagesLeaveNoTrace` asks for the links of pages the caller sees.
- A patch that makes private a page whose hand-written owner is no username leaves it
  readable by nobody (api/pages.rs:1035).
- "If the destination is somehow already pinned the older pin wins" (index/pins.rs:160-161),
  but `insert or ignore` keeps the destination's own, even if younger. Overlapping pins
  can pass the limit.

Server:

- With two servers of one wiki, one's shutdown withdraws the other's endpoint file
  (server.rs:75); two launches at once both find no live server, so "One
  instance per wiki" (desktop/src/main.rs:165) is not guaranteed.
- A second stop finds the slot empty (desktop/src/main.rs:587-599) and ends the process under
  the running shutdown: counts are lost. A shutdown that fails in serving skips the
  flush (server.rs:82-86). Both are mishaps of the model.
- Copies of the shell share one settings file: Open Wiki does nothing when another
  instance has remembered the same wiki already, and a restart comes back to the other
  instance's wiki.

## 6. What is left out

Text: how words are counted, parsed and rendered (`markdown.rs`, `prose/`, `page.rs`,
`slug.rs`); EPUB and HTML; snippets and the order of search results, `fields=`. Parsing
is a parameter: a page, a record or an entry is what its file parses to, or Garbled.

A request dropped by its client in the middle of an await, whose database work runs
on (index/mod.rs:258). The events the watcher loses when the operating system's queue
overflows (watcher.rs:172-176 only logs them). Clocks that run backwards between two
records of the inbox. A scan of the inbox while requests run; PageIndex has that for pages and TimeLog for entries.
A walk over a directory is one step: what changes while
it runs has its event, or is `missed` or `late`. A file that is there and cannot be read for another reason than
its text (`Garbled`). In the time log, two contents of one file with the same modification time, which
PageIndex has for pages.

Of the answers: in WordStats the tools (actors), titles and the order of pages; in TimeStats
the ranking of pages; in IdeaViews the arithmetic of likeness, the signals that explain a
suggestion, answers assembled while the index changes (503 in the code), and callers who
own only some records; in CatalogueQueries ties between search results.

Of the desktop: overrides by the environment (`RHIZOLOG_ROOT`, `RHIZOLOG_ADDR`), a slow
server that misses the two seconds it is given to answer, windows and menus. Cookies
and the throttling of sign-ins; the hash of a password is the password. The dashboard, the
site and the packaging are clients of the HTTP interface or build files.

## 7. The plan

What would come next, in this order:

1. Proofs: `SeriesAddsUp` of PageIndex for one writer, with the sums of Server_proofs;
   of the time log, that listings add up to totals.
2. WordLog with dropped requests, as an action that frees the gate while an insert is pending.
3. IdeaInbox with owners, so that listing and adoption meet.
4. PageIndex with Catalogue's tables, two clients and the exceptions of section 5 named one
   by one.
