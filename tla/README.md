# trelix in TLA+

Specifications of the parts of trelix whose correctness depends on order, failure and
concurrency: how the index follows a working tree and its edges follow the symbols, how embedding
is paid for once, how the watchers keep up, how the GitHub app queues reviews, how the audit log
stays verifiable while it is pruned, and the small components threads and processes share. TLC
checks each one on small instances; TLAPS proves its safety properties for every value of its
constants. `PROJECT.json` lists the runs, maps every definition to the source lines it stands for,
and lists the hazards and the theorems.

## 1. The system

trelix indexes a repository into SQLite and a vector store and answers questions from them. It
runs as a command line, as a watcher, behind `trelix serve` (HTTP), as an MCP server and as a
GitHub app that reviews pull requests.

| Component | State it keeps | Operations | Interacts with | Hard part | What makes it correct |
|---|---|---|---|---|---|
| Indexer (`indexing/indexer.py`) | none of its own between runs; work lists within one | `index`, `_index_streaming`, `index_file`, `_insert_one`, Phase 3 in three variants | walker, parsers, store, vector store, embedder | two stores without a common transaction; several commits per file; kills; failing providers | rows, chunks and vectors agree; holes are found and filled; nothing is paid twice |
| SQLite store (`store/db.py`) | files, symbols, chunks, imports, calls, type edges, batch jobs, agent turns | upserts, cascading deletes, link repair, cross-file resolution | everything | links nulled by a delete and restored by name; derived edges going stale | edges resolve to living rows; a hash answers for its rows |
| Vector stores (`store/vector*.py`) | vectors by chunk id, summaries and sub-chunks under sentinel ids | `upsert_batch`, `delete_batch`, `stored_chunk_ids` | indexer, retrieval | ids that outlive rows; id ranges shared by three kinds | a vector is of its row's text |
| Dimension guard, provenance | dimension and provenance rows | record, check | indexer, watcher | recorded before or after a failing embed | no store of mixed dimensions goes unnoticed |
| Watchers (`watcher.py`, `multi_watcher.py`) | timers, generations; file hashes | schedule, fire, delete | indexer from timer threads | threads that overlap, late callbacks | a deleted file stays deleted; a failed file is tried again |
| Embedding cache, plan cache | LRU rows; LRU map | lookup, insert, evict | embedder, planner | eviction and misses race | size caps; a hit equals a miss |
| Read pool (`read_pool.py`) | connections | acquire, close | retrieval threads | close while borrowed | no deadlock, no use after close |
| Retrieval, graph, synthesis | none (read-only) | search, fuse, assemble | both stores | budgets, ranks | arithmetic |
| Federation | registry file, retriever cache | add, remove, retrieve | retrieval | cache keyed by path | no stale retriever |
| Agent | turns in SQLite | step, history | retrieval, LLM | turn numbers, step budget | turns are gapless, the loop ends |
| HTTP API, auth, audit (`api`, `auth`, `audit`) | the hash-chained log and its anchor | append, prune, verify | middleware, CLI | a writer and a pruner in two processes | a healthy log verifies; only old rows go |
| GitHub app (`infra/github-app`) | wait line, slots, claims | submit, run, time out, drain | GitHub, a trelix child process | late settlements, watchdogs, redeliveries, shutdown | caps, order, no lost or double claim |
| MCP server, client packages, editor extension | subscriptions | tools, notifications | API | sessions that go away | adapters |
| Parsers, connectors, LLM clients, compression, evaluation, CLI presentation | none | functions | - | - | tests |

## 2. Modules

| Module | Models | Runs | Theorems |
|---|---|---|---|
| `IndexPipeline` | the indexer, the two stores and the tree | `MCIndexPipeline` with `IndexOneFile`, `IndexTwoFiles`, `IndexTornFile`, `IndexScanFailed` | `IndexPipelineProofs` (8) |
| `ReviewLifecycle` | abstract: one commit's way through the review service | | |
| `ReviewQueue` | queue, claims and shutdown; refines `ReviewLifecycle` | `MCReviewQueue` with `QueueCaps`, `QueueClaims`, `QueueHungJob` | `ReviewQueueProofs` (9) |
| `AuditTrail` | abstract: an append-only trail whose oldest events may be retired | | |
| `AuditLog` | append, prune and verify over one database; refines `AuditTrail` | `AuditLog` itself with `AuditPrune`, `AuditTwoPrunes` | `AuditLogProofs` (6) |
| `CrossFileEdges` | call and type edges while files are rewritten | `MCStores` with `Stores` | `CrossFileEdgesProofs` (4), `StoresProofs` |
| `EmbedPhase` | Phase 3: batches in flight, the abort flag, the counters | the same | `StorePartsProofs` (1), `StoresProofs` |
| `RequestLimiter` | the requests-per-minute window | the same | `StorePartsProofs` (1), `StoresProofs` |
| `EmbeddingCache` | the size cap of the file of bought vectors | the same | `StorePartsProofs` (1), `StoresProofs` |
| `AgentTurns` | agent loops and the sessions and turns they store | the same | `StorePartsProofs` (1), `StoresProofs` |
| `BatchApiJobs` | embedding through the Batch API, over several runs | `MCEventually` with `Eventually`; itself with `BatchJobsStuck` | `BatchApiJobsProofs` (1), `EventuallyProofs` |
| `FileWatcher` | `trelix watch`: events, timers, callbacks | `MCEventually` with `Eventually` | `EventuallyProofs` (1) |
| `MultiRepoWatcher` | `trelix watch-all`: one loop over sets of changes | the same | `EventuallyProofs` (1) |
| `ReadPool` | the pool of read-only connections | the same | `EventuallyProofs` (1) |

`MCStores` and `MCEventually` put components side by side that share no state in the code. The
variable `part` picks one at the start and the others keep still, so TLC explores the union of
their state spaces and not the product; what a component's own specification says is unchanged.
That a behaviour of the composition is a behaviour of each component is a lemma of `StoresProofs` and
of `EventuallyProofs`, and what is proved of a component is carried over there.

The numbers count the theorems about a module's properties, and for the first three rows with proofs
the one about its type invariant. The other modules' type invariants are proved beside their
properties and meet in `StoresTypes` and `EventuallyTypes`, as they do in the runs.

A definition whose comment begins "Variant" is a plausible bug of the definition after it. No
specification uses one: each is put in place of its original to see that a property notices.

### IndexPipeline

State: the tree (`disk`); SQLite (`fileRow`, `symbols`, `chunks`, `nextTxn`); the vector store
(`vectors`); the run (`mode`, `pc`, its work lists, `errs`, `abort`). One action per commit:
`UpsertFile`, `DropVectors`, `DropSymbols`, `InsertSymbols`, `InsertChunks` are the five commits of
`_insert_one`, `EmbedBatch` one `upsert_batch`, `RemoveRows` and `RemoveVectors` the two halves of
`delete_file_by_path`. `StartBatch` is `index()` up to its early return, in one step because it
writes nothing; `StartStream` the streaming pipeline; `StartWatch` one call of `index_file` by a
watcher. `Edit` changes the tree at any moment, between the walk's hash (`seen`) and the parser's
read (`got`) in particular. `Crash` is a kill at any point, `WriteError`, `EmbedError` and the second
half of `Scan` are exceptions where the code catches them.

The diff of `_insert_one` works by qualified name, and the extractors give several symbols of a file
one name (a property's getter and setter, overloads, redefinitions). `Parse` therefore lists symbols,
names may come twice in a list, and the operators follow the code's dicts: `Remembered` is the last row
of each name, `Unchanged` the symbols whose hash is the remembered one, `Stale` every row of a name
without an unchanged symbol, `NewRows` one row for every local index that is not unchanged. What that
does to a name that came twice is in section 5; `doubled` holds these names until their rows go.

`Walk(walked)` reaches any part of the tree: the walker skips what it cannot read, and the streaming
producer logs a walk that raised and ends it, in both cases without counting an error. `unwalked` holds
the files a run did not reach.

Abstractions. Content is a version and its hash the version; `Parse` is any function from versions to
lists of symbols. One chunk per symbol row (the chunker splits a large one; the pieces are written,
queued and deleted together). Ids matter up to order and equality, and AUTOINCREMENT never gives one
out twice, so an id is the number of the transaction that drew it and the symbol's local index. Files of
unsupported languages, summaries, sub-chunks, sparse vectors and edges are left out; so is the
dimension record. One process writes at a time: two `trelix index` on one database are not modelled.
The walk hashes every file in one step at the start of a run, in the streaming pipeline too, where
the code hashes a file when the producer reaches it: `seen` may then be older in the model than in
the code, never newer. `index_file` re-reads and re-hashes the file before it rewrites anything.
`EmbedBatch` merges the provider's answer with the store's write; `EmbedError` covers a failure of
either, paid for or not. A failing `RemoveVectors` is a `Crash`: it leaves the same state.

`suspect`, `torn`, `leaked`, `doubled`, `unwalked`, `billed` and `report` are looked back at by the
properties and read by no action. `suspect` holds a file from the commit of its hash to the end of its
rewrite, and for good if the parser read another content than the walk hashed: for those files the
code gives no guarantee until they change again, and the two violation runs show what that means.

### ReviewQueue

Node runs a callback to its end, so a delivery, an end, a deadline or a signal is one action, with
every call it makes: `Accept` claims, pushes and pumps; `Finish` frees slot and claim, keeps the claim
if the review is done and pumps. What remains is the order of callbacks, and `hung`: jobs whose
watchdog fired, which cannot be stopped and may end later (`LateSettle`) or never.

`Scan` states the result of `pump()`'s loop: a waiting job starts iff, counting the older jobs the
same scan starts, a slot is free and its group is below its cap. Array order is the order of tickets,
because jobs are pushed at the end and spliced out. `kept` is the Map in insertion order (`done`), so
`dropExpired` stops at the first live entry although, after a clock step back, expired ones may follow.
`proc # "up"` is `closed`; a delivery to a closed queue changes nothing and is left out. The webhook's
controls before `submit` (signature, kill switch, per-installation limits) only reject; any delivery
that passes them is possible here. `Restart` is the platform's: nothing was persisted.

`ReviewLifecycle` knows no jobs, claims or signals. A commit is free, queued, running or done; `Moves`
has no way from done to queued or running, and done ends when its time is over, when the memory is full
and another review ends (`MakesRoom`), or with a restart. A review whose watchdog fired is over there,
as it is for the service: it may run beside its own retry, which nothing can prevent.

### AuditLog

`AuditStore`'s lock is a lock of one process, and Python's sqlite3 opens a transaction at the first
write, so `append` is `ReadHead`, perhaps `ReadWatermark`, and `Insert`, and each pass of `prune`'s
loop is `ReadPage` and `DeletePage`: between them the other process may commit. `verify` reads
everything in one transaction, so it is a predicate on one state, `Verifies`; its different verdicts
are one here, since a healthy log must get none of them.

The content of a row is its time; SHA-256 has no collisions, so the hash of a row is the sequence of
contents chained up to it, and the anchor's head the history of the log. The command line accepts any
integer as `--batch-size`: SQLite reads a negative LIMIT as none, and 0 reads an empty page and ends.
The safety results are for one server and one prune at a time: docs/AUDIT.md asks for a single writer
per database, and what two prunes do is the run `AuditTwoPrunes`.

### CrossFileEdges

State: the tree (`content`), the hashes (`stored`), symbol rows, edges, and the rewrite on its way
(`job`, `place`, `path`, `links`). `BeginFile`, `DeleteStale`, `InsertRows`, `Repoint` and `StoreEdges`
are the stretches of `_insert_one` between its commits as far as they touch edges; `ResolveAll` is
Phase 4, which `EndSingle` (`index_file`) skips. `LocalMatch` is `_resolve_symbol_match`,
`GlobalMatches` the passes of `resolve_cross_file_calls` and `resolve_cross_file_type_edges`, where
LIMIT 1 without ORDER BY is any row. `EdgesWithout` is what the two ON DELETE clauses do. An id is
the number of its insert and its local index; names are compared, never put together: a constant
gives each qualified name its bare name and its class. A content may list several symbols of one name,
and `Remembered`, `Unchanged`, `StaleRows` and `NewRows` are the dicts by name of `_insert_one` as in
`IndexPipeline`: `DeleteStale` notes the edges into the remembered row of each name it deletes
(`PointingAt`) and deletes every row of the name, and `Repoint` takes the row inserted last of a name.
A hint inferred from another method of the class, which can change while the caller's body does not,
is left out. `linked`, `cut` and `resolved` are looked back at by the properties: the edges into
remembered rows of the file as its rewrite began, files whose rewrite was cut, and whether since the
last full run only bodies changed, in files without a name that comes twice.

### EmbedPhase and RequestLimiter

A batch of `index()`'s event loop goes from one `await` to the next in one action (`StartBatch`,
`PassLimiter`, `TakePermit`, `EmbedReturns`, `UpsertReturns`, `CountLanded`); `EmbedAndStore` is one
turn of `index_file()`'s loop. Batches are counted where the code counts chunks, and a failing
`upsert_batch` may have committed. `RequestLimiter` is `_RpmRateLimiter.acquire()` line by line under
its lock: the thread inside reads the clock, pops, admits or sleeps; the 50 ms it sleeps beyond the
window are left out, which only lets the model admit earlier than the code. What `EmbedPhase` calls a
limiter is a wait of any length, so the two need not be composed.

### EmbeddingCache

A vector is larger than a leaf of the b-tree may hold, so a row spills to overflow pages of its own;
it shares leaves and interior pages of two b-trees with others, or has them to itself. Which layout
the file has is up to SQLite: n rows take between `MinPages * n` and `MaxPages * n` pages
(`Layouts`), where `MaxPages` stands for a row's overflow pages and four more, a leaf and an interior
page in the table and in the index. `PutRow` and `MoveRows` (a lookup moves its row in the index of use)
take free pages first, and `DeleteOldest` may empty many pages or none. `StatFile`, `MeasureLive`,
`CountRows`, `DeleteOldest` and `Vacuum` are the separate statements of `enforce_size_cap`, run by
several processes, each of which may fail under another's lock. Which rows go makes no difference here:
only their number and pages are kept. What a trim promises is `CapRows`, the rows the cap has room for
in the loosest layout: the code divides by the average row, so a row per page is not what it keeps.
`outdated` marks a trimmer whose measure another's DELETE
has overtaken; for it the cap's worth of rows is not promised.

### AgentTurns

One action per statement of `AgentLoop.run()` and its hooks into the store: evicting stale sessions,
opening the session and loading its turns, a turn of the model, the SELECT of the next number
(`SelectIndex`) and the INSERT with its counter (`InsertTurn`). A connection is opened for each, so the
SELECT and the INSERT of two loops interleave; UNIQUE and FOREIGN KEY refuse what no longer fits, and
the turn is dropped. `DeleteSession` may come at any time. What the model decides, the tools and the
compression of the history are left out. `reborn` holds sessions deleted between a SELECT and its
INSERT: for those the numbering may start above 0.

### BatchApiJobs

A chunk is its id; `jobs` holds the rows of `embed_batch_jobs` together with what the provider knows
of each job, so a job with row `none` was submitted and never recorded. `StartIndexRun` is Phases 1
and 2 and the repair scan in one step, `PollBatch`, `StoreVectors`, `MarkCompleted`, `TurnToSubmit`,
`SubmitBatch` and `RecordJob` the steps of `_batch_embed_and_store_via_batch_api`, `EmbedNow` a run
without `use_batch_api`, `EndJob` the provider. Which chunks make a batch is any choice within
`MaxInBatch`, for the packing by tokens. `CutRun` is a kill or an exception in any step.

### FileWatcher and MultiRepoWatcher

The observer's thread, each timer's thread and the tree interleave freely. `Schedule` and
`HandleDeleted` are what the code does under its lock, `Fire` the moment a timer can no longer be
cancelled, `CheckGeneration` the lock in `_do_reindex`; `Filter`, `ReadBytes` and `WriteRows` are what
runs without it. `index_file` is a read and a write here, its commits are `IndexPipeline`'s. A rename
is an event `dispatch()` has no branch for (`Move`). `StopTimers` and `StopObserver` are the two
halves of `stop()`. The ghosts name what the code does not promise: `overlapped` (two threads were at
work on the file when it was last handled), `unseen` (renamed), `failed` (the last `index_file` or
`delete_file_by_path` ended in an error: `handle_deleted` logs it and the rows stay).

In `MultiRepoWatcher` watchfiles collects changes while the loop handles the last set, a set has no
order and may hold a deletion and a write of one path (`crossed`); `Modified` remembers the hash before
`IndexChanged` runs, and `Deleted` forgets it before the rows go, so a failure of either (`gaveUp`) or a
change in between (`between`) is not seen again.
Connecting the repositories at the start is left out.

### ReadPool

`TakeConn` is the queue's `get`, `Release` the end of a search with rows or with an exception,
`CloseAll` closes the connections and leaves the queue as it is, which is why nobody waits for ever.

## 3. Runs

| Run | Instance | States | Shows |
|---|---|---|---|
| `IndexOneFile` | 1 file, 3 versions (change one symbol, drop one and double the other), 2 edits, 2 faults | 368,000 | the five invariants and `Converges` |
| `IndexTwoFiles` | 2 files, 3 versions, 1 edit, 1 fault | 1,378,000 | what a finished run claims, nothing paid twice, unchanged chunks kept |
| `IndexTornFile` | violation | - | "all files up to date" over a file without symbols |
| `IndexScanFailed` | violation | - | "all files up to date" over chunks without vectors |
| `QueueCaps` | 4 commits, 2 groups, 2 slots, 1 per group, 4 arrivals | 35,000 | counters, order, no idle slot, honest status, `EveryoneServed` |
| `QueueClaims` | the same, 1 slot, clock 0..2 in both directions | 1,321,000 | caps, claims, no repeated review, refinement of the life cycle |
| `QueueHungJob` | violation | - | exit status 0 while a review is cut |
| `AuditPrune` | 1 server, 1 prune, batches of 2, 3 clock readings, 4 appends | 555,000 | a healthy log verifies, exact watermark, honest dry run, refinement |
| `AuditTwoPrunes` | violation | - | two prunes count a row twice |
| `Stores` | edges: 2 files, 5 contents, 4 saves, 1 kill; phase: 4 batches, 2 permits, 2 failures; limiter: 2 per 3 ticks, 5 requests, clock 0..8; cache: 1 to 3 pages a row, cap of 7 with 1 of overhead, 4 rows put, 2 trimmers, 2 failures; agent: 1 session, 2 loops, 3 runs of 2 turns, 2 drops | 1,617,000 | edges fit their names, are stored once, survive a rewrite and stay resolved; the phase's accounts; the sliding window; turns without gaps; a trim leaves the cap's worth |
| `Eventually` | jobs: 3 chunks, 1 per job, 1 fault, 1 incomplete job; watch: 2 files, 2 contents, 3 changes, 1 error; watch-all: the same with 4 changes; pool: 2 connections, 3 threads, 4 searches | 250,000 | nothing paid twice; holes drain; both watchers' indexes follow their trees; every search is served |
| `BatchJobsStuck` | violation | - | an incomplete job is polled for ever |

Why these bounds are enough. IndexPipeline: the tree begins in any state, so two edits give a content
and two changes of it in any order of the three versions (two symbols, so that one stays while the
other changes, goes or comes, and a name that comes to have two rows, one of them unchanged, and loses
them), and two faults give a kill and a second one during the recovery from the first, or one file
skipped by a walk and a kill; two files are what a run needs to fail on one and continue. A full
re-index inserts a doubled name's rows again each time, without end, so none begins after `MaxTxns`
inserting transactions; six are what three rewrites of a file take. ReviewQueue: three commits of one
group fill its slot and wait in line while another group overtakes; the fourth arrival can be a
redelivery. AuditLog: four rows in batches of two make a full page followed by a full, a partial and
an empty one. Edges: one content defines a class and its method, another calls both; a third changes
the bodies of the first, a fourth adds a second method of the same bare name to the second, and the
fifth gives the class's method twice; four saves write, change, delete and write again. EmbedPhase:
four batches on two permits leave one waiting and one landed when another fails. RequestLimiter: five
requests against two per window slide the window twice. EmbeddingCache: four rows of up to three pages
make a file twice the cap or one within it, and two trims both find a freelist a failed VACUUM left
behind. AgentTurns: two loops in one session that lose a turn and the session. BatchApiJobs: two
chunks to begin with are two open jobs at once, the third a chunk that comes while they run; one fault
is a kill between submitting and recording. Watchers: write, delete and write of one file while the
other changes. ReadPool: one thread more than connections. Every bound is a constant (`MaxEdits`,
`MaxFaults`, `MaxArrivals`, `MaxNow`, `MaxAppends` and their like), a conjunct of the action it
bounds; the proofs hold for every value of them. No symmetry is used.

### Fairness

`Converges` assumes that a started process keeps running (`WF(Run)`) and that some way of indexing
the repository, `index()` or the streaming walk, is started again and again when nothing else
runs (`SF`): the user, a hook or a cron job. It assumes nothing of watchers or deletions, and edits
and faults are finitely many. Strong fairness, because a watcher may be in the way infinitely often.
`EveryoneServed` assumes only that a job that holds a slot ends or is cut by its watchdog, a timer the
queue itself arms.

`HolesDrain` and the violation `JobsFinish` assume that a started run keeps running, that the provider
ends every job one way or another (`WF`), and that `index()` is run again and again (`SF`), which is
what its message asks of the user. `IndexFollowsTree` assumes that the operating system runs the
observer's thread and the timers' threads (`WF` of each), `IndexesFollowTrees` that the loop of
`watch-all` goes on, `ReadersServed` that the searching threads run. Nobody has to change a file, stop
the watcher, start a search or close the pool.

## 4. What is proved

Each theorem is proved from an inductive invariant that TLC agreed with before: `IInv` where a module
of proofs is about one component, elsewhere a name of its own (`EdgeInv`, `PhaseInv`, `LimiterInv`,
`CacheInv`, `AgentInv`, `WatcherInv`, `MultiInv`, `PoolInv`).

- **IndexPipeline.** `IInv` adds to the properties: which variables are in use at each `pc`
  (`Control`); every id in any store was drawn by an earlier transaction (`IdsDrawn`), so a new
  chunk's id meets no orphan, whence `VectorsMatchRows`; while a file is rewritten, where its symbols
  stand between old and new parse (`RewriteInv`), whence `HashAnswersForRows`; and that queued work
  and repair ids are unpaid and distinct (`QueueInv`, `PaidInv`), whence `QueueIsUnpaid`. `OneRow`:
  only a name that came more than once has more than one row, so for every other name what the diff by
  name keeps and deletes is what a diff by symbol would. The streaming run's guard (no repair after an
  error) is what `PaidInv` needs: without it a refused chunk is a hole again at the end of the walk.
  Assumptions: the constants' typing, nothing else; names may repeat.
- **IndexPipeline** (`FinishedRunCovers`), on top of `IInv`. `RunView`: until somebody edits it, the
  tree is the one the run hashed, and what the parser read is what is there; `FilesCovered`: without
  an error, a file in no list of the run (`Ahead`) has the rows of its content, unless it is suspect
  or the walk skipped it, because an equal hash answers for its rows and an unequal one puts it into a
  list; `HolesCovered`: a run that scanned the vector store and met no error has every hole in its
  queue, in the scan's ids, or among the rows it is about to drop (`Claimed`). Lists and queue are
  empty when a run reports success.
- **ReviewQueue.** `Core` relates counters, slots, line and tickets: a job is in one place, tickets
  are below `arrivals`, the counters are cardinalities; `ClaimsKept` relates `doneUntil` to the kept
  claims, with expiry times that need not be ordered when the clock steps back; `ExitInv` follows the
  drain. `Lemma`s say what one scan does to slots, caps and order. The refinement maps a commit to
  queued, running, done or free; that a kept claim stays done until it expires or makes room is where
  `ClaimsKept` and the order of the kept claims come in.
- **AuditLog.** `IInv`: the ids are exactly those after the watermark (`Rows`), every row is chained
  to the one before or to the watermark (`Links`), the anchor is the tip of that chain (`Anchors`),
  what a server read is still the tip when it inserts (`Appending`; a prune that removes the row
  leaves its hash in the watermark), a page is an old prefix of the ids (`Paging`), and removed plus
  still prunable rows is what the dry run said (`Counting`, unless the batch size is 0, with which a
  page is empty and nothing goes). `OneServer` and `OnePruner` are hypotheses of the theorems; the
  second cannot be dropped (`AuditTwoPrunes`). The refinement shows an insert to be `Record` and a
  deleted page `Retire`.

- **CrossFileEdges** (`EdgesAlwaysFit`). `InRun`: while a file is rewritten it has a content;
  `IdsApart`: ids are drawn and an id is one row; `LinksFit`: a noted edge pointed at a row whose name
  it fitted. Deleted rows take the edges into them along (`DeletionFits`), and every row an edge is
  given was found by name (`LocalMatchFits`, `GlobalMatchFits`) or carries the qualified name of a
  noted one. Names may repeat.
- **CrossFileEdges** (`EdgesStoredOnce`, `LinksSurvive`, `ResolvedStays`). `RowsOnce`: after the
  delete no stale row is left, and an inserted row has a local index of the content; `EdgesOnce`:
  caller and use tell an edge, whose caller lives and has that use; `EdgesThere`: a row without its
  edges was just inserted or belongs to a cut file. From these, `LinkedInv` follows each edge into a
  remembered row through the rewrite: noted as its target goes (`Noted`), pointed at a row of the name
  (`Followed`), or never touched (`Untouched`). Of several inserted rows of a name one has the largest
  index (`LargestIndex`, `LastOfName`), so a noted edge whose name comes back has exactly one row to
  go to (`NewTargetOfNoted`). `ResolvedInv` says that an edge that fits one row is resolved
  (`OneRow`), or noted while its row is on the way back: `Coming` are the rows of the other files and
  the symbols of the new content, and a change of bodies puts back the names it took away. Contents
  are sequences (`EdgeDefs`), so rows stay finite, and one counted by `Cardinality` is the only one.
- **EmbedPhase** (`AccountsAddUp`). `Counted`: the counters are the cardinalities of the stages, and
  paid is exactly what was sent; `Ended`: an outcome comes last; `InLine`: one by one, what landed
  comes before what is left. That the three end stages are all the batches is a partition of a finite
  set.
- **RequestLimiter** (`WindowAlwaysHolds`). `DequeIsSuffix`: the deque is the end of the history of
  admissions and never longer than the limit; `PoppedExpired`: what was popped is a window old. So the
  request `RpmLimit` places back is outside the window whenever one is admitted.
- **EmbeddingCache** (`TrimKeepsCapWorth`, an action property). `CacheFits`: the pages are those of
  some layout of the rows. `Measured`: unless another's DELETE has come between, the rows only grew
  since the measure, so the pages measured are at most overhead plus `MaxPages` for each row, and then
  the integer division of `CountRows` leaves `CapRows` (`KeepEnough`). VACUUM packs the rows and loses
  none; a failed one leaves free pages, which `MeasureLive` does not count. Assumption: a row takes at
  least `MinPages` and at most `MaxPages`, whatever they are.
- **AgentTurns** (`TurnsStayGapless`). `ReadIndex`: a number read is never above the next one, because
  turns only come until the session goes; UNIQUE refuses one below; so what is stored is the next.
  `Ranked` says that the maximum the SELECT takes exists.
- **BatchApiJobs** (`NobodyPaysTwice`). `JobsHave`: a completed job's living chunks have vectors;
  `Polling`: what the run knows of the job in its hands; `Unsent`: what is still to submit is alive,
  has no vector and is in no open job. Which job is polled is immaterial: a run submits only if none
  is open.

- **FileWatcher** (`SettledFilesAreIndexed`). While the watcher runs, a file that no event, live timer
  or callback is going to handle as it is now (`Busy`) has the rows of its content, save for those
  `IndexFollowsTree` excepts, a file whose deletion failed among them. Of every file but the renamed
  ones the events tell the truth (`Announced`), overlaps or not, which is why the next change puts
  right what an overlap left behind. `LastEventTells`: a file's last event is of the kind the tree
  shows, so a deletion reported before a write cannot be the last word; `OneWorks`: one callback at a
  time is past the filter; `GoneIsTold` and `BackIsTold`: a deletion still to come, or an event after
  it; `OldIsRedone`: a callback about to write old bytes has something after it. Assumption: the value
  that stands for "no bytes" is no content and no path.
- **MultiRepoWatcher** (`SettledTreesAreIndexed`), the same for `watch-all`: the next set holds the
  last change of each file in it (`LatestWaits`), what is left of the set in hand tells the truth
  unless it was crossed or the file waits again (`TakenTells`), and a hash that is kept is that of the
  rows (`HashOfRows`), which is why skipping an unchanged hash loses nothing.
- **ReadPool** (`SearchesWaitForLenders`). `Lent`: a connection is in the queue or with exactly one
  thread that is at a search, which brings it back with rows or with an exception. An empty queue
  therefore has a lender, after `close_all` too.
- **The compositions.** `PartsRunAlone` and `ComponentsRunAlone`: each step of `MCStores` and of
  `MCEventually` is a step of one component and a stutter of the others. `StoresTypes`,
  `PromisesKept`, `EventuallyTypes` and `EventuallySafe` follow from the theorems of the parts.

The theorems about the watchers and the pool are the safety halves of `IndexFollowsTree`,
`IndexesFollowTrees` and `ReadersServed`: whenever what is in flight has run out, the index follows
the tree, and who waits has somebody to wait for. That it does run out is fairness, and TLC's.

Only model-checked: the six liveness properties `Converges`, `EveryoneServed`, `HolesDrain`,
`IndexFollowsTree`, `IndexesFollowTrees` and `ReadersServed`, because liveness under fairness is out of
this prover's reach. Every other property of the passing runs is proved. The violation runs are
refutations and need no proof.

## 5. Where the code and its documentation differ

1. *Torn file* (`IndexTornFile`): `_insert_one` commits the file's hash before its rows. A failure in
   between is never repaired, since the repair looks for chunk rows without vectors.
2. *Unknown health* (`IndexScanFailed`): a scan for missing vectors that raises ends in "all files up
   to date" if no file changed.
3. *Hung review* (`QueueHungJob`): a review whose watchdog fired is not counted by the shutdown that
   cuts it.
4. *Overlapping prunes* (`AuditTwoPrunes`): the page is read before the transaction; the second prune
   counts rows it did not delete, and `verify` reports a fault.
5. *Incomplete batch job* (`BatchJobsStuck`): a Batch API job that completes with failed requests
   makes `poll_batch` raise each time, and only a terminal error closes the row; it stays `submitted`,
   so every later run polls it, raises and submits nothing. The chunks of the job are never embedded,
   though the message says to re-run.

`PROJECT.json` quotes the lines of these five. Five more follow from the code as it is modelled; the
properties name each as an exception, so no run shows them as violations.

- *A name that comes twice in a file* (`doubled` in `IndexPipeline`): the diff of `_insert_one`
  remembers one row of a name, the last (`db.py:988`, `indexer.py:1396`). With the last one unchanged
  and another changed, the name is kept and the old row of the other stays, until every symbol of the
  name changes; with the last one changed, the delete takes the unchanged one with its chunk and
  vector, and it is inserted and paid for again, though the docstring says unchanged symbols are left
  untouched (`indexer.py:1362-1365`); and every re-index of the file inserts symbols of the name again
  that have a row. Edges into an older row of the name are set NULL by the delete and not pointed
  anywhere, though the comment at `indexer.py:1417-1425` promises it (`LinksSurvive` speaks of
  remembered rows).
- *Files a walk skips* (`unwalked`): an exception of the streaming producer's walk is only logged
  (`indexer.py:646-650`), and what cannot be read is recorded as incomplete (`walker.py:641-654`,
  `736-742`). The run then ends with no error and files it never saw.
- *`audit prune --batch-size 0`*: the dry run counts every old row, the prune removes none.
- *Failing deletions*: both watchers log a `delete_file_by_path` that raised and never repeat it
  (`watcher.py:246`, `multi_watcher.py:227`), so the rows of the deleted file stay until another
  event.
- *Watchers*: a callback past its check re-inserts the rows of a file just deleted, a rename is not
  handled, a failed `index_file` is not repeated, and a set of changes has no order (`overlapped`,
  `unseen`, `failed`, `gaveUp`, `between`, `crossed`).

## 6. Plan

Everything planned first is modelled (sections 2 and 3), and every safety and action property of the
passing runs is proved (section 4). What is left, in this order:

1. `IndexPipeline` as an implementation of an abstract index that only ever maps a text to its own
   vector, with the refinement proved as for the queue and the audit log.
2. The dimension record around Phase 3, once a run may change its embedding model, and the packing of
   batches by tokens as a function against a reference.

## 7. What is not modelled, and why

Most of the repository's lines are functions or I/O without state of their own to get wrong: parsers
and extractors of every language, the command line's options and tables, configuration,
connectors, LLM and embedding providers, the HTTP and MCP adapters, the client packages, the editor
extension and the evaluation harness. What of the command line changes state is modelled where the
state is: `index`, `index --prune`, `audit prune`, `cache gc`, `watch`, `watch-all`, `agent session
delete`. Retrieval, fusion, reranking and assembly read one snapshot and are arithmetic that unit
tests compare.

Left out on purpose:

- *Under one lock from end to end*: the token limiter's fixed window, the federation's result cache
  and the MCP subscriptions. No other step falls between two of theirs.
- *The plan cache*: two threads that miss on one key both plan, and either of two valid plans stays.
- *Concurrent `trelix index` processes on one database*: outside the code's own assumptions.
- *LanceDB and Qdrant*: their batch writes are not transactions; a torn batch is a hole or a row less,
  which the repair of `IndexPipeline` treats like any hole.
- *Sub-chunk and summary ids*: models compare ids for equality, and the offset that separates the kinds
  is ten million rows away.
- *The dimension record, token packing, sparse vectors, import edges, communities*: single statements or
  data derived again by the next run.
