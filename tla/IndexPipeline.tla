---------------------------- MODULE IndexPipeline ----------------------------
(***************************************************************************)
(* How trelix keeps its two stores in step with a working tree.            *)
(*                                                                         *)
(* One writer process (trelix/indexing/indexer.py) walks the tree, parses  *)
(* the files whose SHA-256 differs from the stored one, rewrites their     *)
(* symbol and chunk rows in SQLite (trelix/store/db.py) and embeds the new *)
(* chunks into a vector store (trelix/store/vector.py).  The two stores    *)
(* share no transaction, and one file is written by several commits, so a  *)
(* kill or an exception between two commits leaves them apart.  Every      *)
(* commit is an action of its own here; a crash may fall between any two.  *)
(*                                                                         *)
(* Data abstraction.  A file's content is a version; its SHA-256 is the    *)
(* version itself (no collisions).  Parse lists the symbols of a version   *)
(* by their local index; a symbol is its qualified name and its body (the  *)
(* text its content_hash covers).  A name may come more than once in a     *)
(* list: a property's getter and setter, overloads, redefinitions.  One    *)
(* chunk row per symbol row.  AUTOINCREMENT ids are pairs: the number of   *)
(* the transaction that drew them and the symbol's local index.            *)
(***************************************************************************)
EXTENDS Naturals, Sequences, FiniteSets

CONSTANTS
  Files,      \* paths of the working tree
  Versions,   \* the contents a file may hold
  Names,      \* qualified names of symbols
  Bodies,     \* symbol texts (signature + body)
  Parse,      \* the symbols the parser extracts from each version, in order
  None,       \* no file, no row, nothing read
  MaxEdits,   \* bound: edits the environment makes to the tree
  MaxTxns,    \* bound: inserting transactions after which no full re-index starts
  MaxFaults   \* bound: crashes, exceptions, incomplete walks and failing embed calls

Symbol == [name : Names, body : Bodies]

ASSUME NoneAssumption == None \notin Files /\ None \notin Versions
ASSUME BoundAssumption == MaxEdits \in Nat /\ MaxFaults \in Nat /\ MaxTxns \in Nat
ASSUME ParseAssumption == Parse \in [Versions -> Seq(Symbol)]

VARIABLES
  disk,     \* the working tree: the version each path holds
  fileRow,  \* files.hash of each path's row
  symbols,  \* symbol rows of each file: id and symbol
  chunks,   \* chunk rows: id, file and symbol row they belong to
  nextTxn,  \* sqlite_sequence: advances with every transaction that inserts rows
  vectors   \* vector store rows: chunk id and the text that was embedded

VARIABLES
  mode,     \* which entry point is running
  pc,       \* its place in the pipeline
  todo,     \* walked files still to parse
  seen,     \* hash the walk computed for each file
  got,      \* version the parser then read
  cur,      \* file whose rows are being rewritten
  fresh,    \* its changed_or_new_symbols, as the rows just inserted
  queue,    \* _PendingChunk work list of Phase 3
  repair,   \* ids _chunks_missing_vectors() found
  scanned,  \* that scan did not raise
  errs,     \* stats["errors"] > 0
  abort,    \* an embedding batch has failed
  doomed    \* vector ids a file deletion still has to delete

VARIABLES   \* what the properties look back at; no action reads them
  billed,   \* chunk ids sent to the embedding provider by this run
  suspect,  \* files whose stored hash is ahead of, or not the hash of, their rows
  torn,     \* files cut off between their symbol rows and their chunk rows
  leaked,   \* vector ids a killed file deletion never deleted
  doubled,  \* names of a file that came more than once in what was written of it
  unwalked, \* files the run's walk skipped
  report    \* what the last run told the user, while the tree is as that run saw it

VARIABLES edits, faults   \* spent so far, of MaxEdits and MaxFaults

tree   == disk
db     == <<fileRow, symbols, chunks, nextTxn>>
work   == <<todo, seen, got, cur, fresh>>
embed  == <<queue, repair, scanned, abort, billed>>
ghosts == <<suspect, torn, leaked, doubled, unwalked>>
vars   == <<disk, db, vectors, mode, pc, work, embed, errs, doomed,
            ghosts, report, edits, faults>>

RowId   == Nat \X Nat
ChunkId == Nat \X Nat
Row     == [id : RowId, sym : Symbol]
Chunk   == [id : ChunkId, file : Files, row : Row]
Vector  == [id : ChunkId, text : Symbol]
Work    == [id : ChunkId, text : Symbol]

IdsOf(rows) == {r.id : r \in rows}

\* _chunks_missing_vectors(): chunk rows the vector store holds nothing for.
Holes == IdsOf(chunks) \ IdsOf(vectors)

\* get_chunk_text_and_tokens(): dead ids do not come back.
WorkFor(ids) == {[id |-> c.id, text |-> c.row.sym] : c \in {d \in chunks : d.id \in ids}}

SymsOf(v) == {Parse[v][i] : i \in DOMAIN Parse[v]}

\* get_symbol_hashes_for_file() and existing_ids_by_qn: dicts by qualified name, so of the
\* rows with one name the last is remembered.
Later(q, r) == q.id[1] > r.id[1] \/ (q.id[1] = r.id[1] /\ q.id[2] > r.id[2])
Remembered ==
  {r \in symbols[cur] : \A q \in symbols[cur] : q.sym.name = r.sym.name => ~Later(q, r)}

\* Symbols of the new parse with the hash remembered for their name.
Unchanged == SymsOf(got[cur]) \cap {r.sym : r \in Remembered}

\* Variants: delete every stored symbol of the file, changed or not; or only the removed ones.
StaleWholeFile == symbols[cur]
StaleByName == {r \in symbols[cur] : \A s \in SymsOf(got[cur]) : s.name # r.sym.name}

\* The rows to delete: by name, every row of a name none of whose symbols is unchanged.
Stale == {r \in symbols[cur] : \A s \in Unchanged : s.name # r.sym.name}
StaleIds == IdsOf({c \in chunks : c.file = cur /\ c.row \in Stale})

\* Names a version carries more than once.
Twice(v) == {n \in Names : \E i, j \in DOMAIN Parse[v] :
               i # j /\ Parse[v][i].name = n /\ Parse[v][j].name = n}

----------------------------------------------------------------------------
Init ==
  /\ disk \in [Files -> Versions \cup {None}]
  /\ fileRow = [f \in Files |-> None]
  /\ symbols = [f \in Files |-> {}]
  /\ chunks = {}
  /\ nextTxn = 0
  /\ vectors = {}
  /\ mode = "none" /\ pc = "idle"
  /\ todo = {} /\ cur = None /\ fresh = {}
  /\ seen = [f \in Files |-> None]
  /\ got = [f \in Files |-> None]
  /\ queue = {} /\ repair = {} /\ scanned = FALSE /\ abort = FALSE /\ billed = {}
  /\ errs = FALSE
  /\ doomed = {}
  /\ suspect = {} /\ torn = {} /\ leaked = {} /\ unwalked = {}
  /\ doubled = [f \in Files |-> {}]
  /\ report = "none"
  /\ edits = 0 /\ faults = 0

Present == {f \in Files : disk[f] # None}

Fault == faults < MaxFaults /\ faults' = faults + 1
NoFault == UNCHANGED faults
Spend(failed) == IF failed THEN Fault ELSE NoFault

\* The user saves, creates or removes a file, at any moment.
Edit(f, v) ==
  /\ edits < MaxEdits
  /\ v # disk[f]
  /\ disk' = [disk EXCEPT ![f] = v]
  /\ edits' = edits + 1
  /\ report' = IF pc = "idle" THEN "none" ELSE "edited"
  /\ UNCHANGED <<db, vectors, mode, pc, work, embed, errs, doomed, ghosts, faults>>

----------------------------------------------------------------------------
(* Starting a run. *)

\* The scan may raise (a store that cannot enumerate its ids): no repair, no count.
Scan ==
  \/ repair' = Holes /\ scanned' = TRUE
  \/ repair' = {} /\ scanned' = FALSE

\* The walk skips, with a warning, what it cannot read, and in streaming mode ends where
\* it raised (the producer's except Exception only logs); neither is counted as an error.
Walk(walked) ==
  /\ walked \subseteq Present
  /\ seen' = disk
  /\ unwalked' = Present \ walked

\* Variant: return early on unchanged hashes alone, before looking for holes.
StartBatchByHashOnly(incremental, walked) ==
  /\ pc = "idle"
  /\ incremental \/ nextTxn < MaxTxns
  /\ Walk(walked) /\ Scan /\ Spend(walked # Present \/ ~scanned')
  /\ todo' = {f \in walked : incremental => fileRow[f] # disk[f]}
  /\ IF todo' = {}
     THEN mode' = "none" /\ pc' = "idle" /\ report' = "uptodate"
     ELSE mode' = "batch" /\ pc' = "parse" /\ report' = "none"
  /\ billed' = {}
  /\ errs' = FALSE
  /\ UNCHANGED <<disk, db, vectors, got, cur, fresh, queue, abort, doomed, suspect, torn,
                 leaked, doubled, edits>>

\* index(): walk, pre-filter by hash unless incremental is off, scan for holes;
\* return at once when there is nothing to parse and nothing to repair.
StartBatch(incremental, walked) ==
  /\ pc = "idle"
  /\ incremental \/ nextTxn < MaxTxns
  /\ Walk(walked) /\ Scan /\ Spend(walked # Present \/ ~scanned')
  /\ todo' = {f \in walked : incremental => fileRow[f] # disk[f]}
  /\ IF todo' = {} /\ repair' = {}
     THEN mode' = "none" /\ pc' = "idle" /\ report' = "uptodate"
     ELSE mode' = "batch" /\ pc' = "parse" /\ report' = "none"
  /\ billed' = {}
  /\ errs' = FALSE
  /\ UNCHANGED <<disk, db, vectors, got, cur, fresh, queue, abort, doomed, suspect, torn,
                 leaked, doubled, edits>>

StartFiles(m, fs) ==
  /\ pc = "idle"
  /\ mode' = m /\ pc' = "next"
  /\ todo' = fs
  /\ repair' = {} /\ scanned' = FALSE
  /\ billed' = {}
  /\ errs' = FALSE
  /\ report' = "none"
  /\ UNCHANGED <<disk, db, vectors, got, cur, fresh, queue, abort, doomed, suspect, torn,
                 leaked, doubled, edits>>

\* _index_streaming(): the walk feeds index_file() one file at a time.
StartStream(walked) ==
  /\ Walk(walked) /\ Spend(walked # Present)
  /\ StartFiles("stream", walked)

\* Watch mode calls index_file() for one saved file, and never reconciles.
StartWatch(f) ==
  /\ disk[f] # None
  /\ seen' = disk /\ NoFault /\ UNCHANGED unwalked
  /\ StartFiles("watch", {f})

----------------------------------------------------------------------------
(* Phase 1: reading and parsing. *)

\* _parse_one() reads the file again, after the walk hashed it.
ParseFile(f) ==
  /\ mode = "batch" /\ pc = "parse" /\ f \in todo
  /\ todo' = todo \ {f}
  /\ \/ /\ disk[f] # None
        /\ got' = [got EXCEPT ![f] = disk[f]]
        /\ NoFault /\ UNCHANGED errs
     \/ /\ disk[f] = None             \* gone since the walk
        /\ errs' = TRUE
        /\ NoFault /\ UNCHANGED got
     \/ /\ Fault                      \* the parser raised
        /\ errs' = TRUE
        /\ UNCHANGED got
  /\ UNCHANGED <<disk, db, vectors, mode, pc, seen, cur, fresh, embed, doomed,
                 ghosts, report, edits>>

\* The streaming consumer (by the walk's hash) or index_file() (by its own) skips.
SkipFile(f) ==
  /\ pc = "next" /\ f \in todo
  /\ todo' = todo \ {f}
  /\ \/ /\ mode = "stream" /\ fileRow[f] = seen[f]
        /\ UNCHANGED errs
     \/ /\ disk[f] # None /\ fileRow[f] = disk[f]
        /\ UNCHANGED errs
     \/ /\ disk[f] = None             \* read_bytes() raises
        /\ errs' = TRUE
  /\ UNCHANGED <<disk, db, vectors, mode, pc, seen, got, cur, fresh, embed, doomed,
                 ghosts, report, edits, faults>>

\* index_file() hashes the bytes it reads ...
HashFile(f) ==
  /\ pc = "next" /\ f \in todo
  /\ disk[f] # None /\ fileRow[f] # disk[f]
  /\ seen' = [seen EXCEPT ![f] = disk[f]]
  /\ todo' = todo \ {f}
  /\ cur' = f
  /\ pc' = "read"
  /\ UNCHANGED <<disk, db, vectors, mode, got, fresh, embed, errs, doomed, ghosts,
                 report, edits, faults>>

\* ... and _parse_one() reads them again.
ReadFile ==
  /\ pc = "read"
  /\ \/ /\ disk[cur] # None
        /\ got' = [got EXCEPT ![cur] = disk[cur]]
        /\ pc' = "upsert"
        /\ NoFault /\ UNCHANGED <<cur, errs>>
     \/ /\ \/ disk[cur] = None /\ NoFault
           \/ Fault
        /\ errs' = TRUE
        /\ cur' = None /\ pc' = "next"
        /\ UNCHANGED got
  /\ UNCHANGED <<disk, db, vectors, mode, todo, seen, fresh, embed, doomed, ghosts,
                 report, edits>>

----------------------------------------------------------------------------
(* Phase 2: _insert_one(), one action per commit. *)

\* Phase 2 of index() takes the parsed files in the order their parses ended.
TakeParsed(f) ==
  /\ mode = "batch" /\ pc = "parse" /\ todo = {}
  /\ got[f] # None
  /\ cur' = f
  /\ pc' = "upsert"
  /\ UNCHANGED <<disk, db, vectors, mode, todo, seen, got, fresh, embed, errs, doomed,
                 ghosts, report, edits, faults>>

\* Variant: rows first, so that nothing knows the old vectors' ids any more.
UpsertFileRowsFirst ==
  /\ pc = "upsert"
  /\ fileRow' = [fileRow EXCEPT ![cur] = seen[cur]]
  /\ pc' = IF Stale = {} THEN "insert" ELSE "drop"
  /\ suspect' = suspect \cup {cur}
  /\ UNCHANGED <<disk, symbols, chunks, nextTxn, vectors, mode, work, embed, errs, doomed,
                 torn, leaked, doubled, unwalked, report, edits, faults>>

\* db.upsert_file() commits the walk's hash before anything else is rewritten.
UpsertFile ==
  /\ pc = "upsert"
  /\ fileRow' = [fileRow EXCEPT ![cur] = seen[cur]]
  /\ pc' = IF Stale = {} THEN "insert" ELSE "unembed"
  /\ suspect' = suspect \cup {cur}
  /\ UNCHANGED <<disk, symbols, chunks, nextTxn, vectors, mode, work, embed, errs, doomed,
                 torn, leaked, doubled, unwalked, report, edits, faults>>

\* vector_store.delete_batch(old_chunk_ids): the row id is the only handle on its vector,
\* so vectors go first.
DropVectors ==
  /\ pc = "unembed"
  /\ vectors' = {v \in vectors : v.id \notin StaleIds}
  /\ pc' = "drop"
  /\ UNCHANGED <<disk, db, mode, work, embed, errs, doomed, ghosts, report, edits, faults>>

\* Variant: the chunk rows are deleted by file, the symbol rows by name.
DropSymbolsAllChunks ==
  /\ pc = "drop"
  /\ symbols' = [symbols EXCEPT ![cur] = @ \ Stale]
  /\ chunks' = {c \in chunks : c.file # cur}
  /\ doubled' = [doubled EXCEPT ![cur] = @ \ {r.sym.name : r \in Stale}]
  /\ pc' = "insert"
  /\ UNCHANGED <<disk, fileRow, nextTxn, vectors, mode, work, embed, errs, doomed, suspect,
                 torn, leaked, unwalked, report, edits, faults>>

\* delete_symbols_by_qualified_names(): every row of the names; chunk rows go with their
\* symbol row by cascade.
DropSymbols ==
  /\ pc = "drop"
  /\ symbols' = [symbols EXCEPT ![cur] = @ \ Stale]
  /\ chunks' = {c \in chunks : ~(c.file = cur /\ c.row \in Stale)}
  /\ doubled' = [doubled EXCEPT ![cur] = @ \ {r.sym.name : r \in Stale}]
  /\ pc' = "insert"
  /\ UNCHANGED <<disk, fileRow, nextTxn, vectors, mode, work, embed, errs, doomed, suspect,
                 torn, leaked, unwalked, report, edits, faults>>

\* Variant: the next file starts with the previous one still current.
WrittenKeepsFile(next) ==
  /\ got' = [got EXCEPT ![cur] = None]
  /\ fresh' = {}
  /\ pc' = IF mode = "batch" THEN "parse" ELSE next
  /\ UNCHANGED cur

\* The file's rows are done with: index() goes on to its next file, index_file() embeds.
Written(next) ==
  /\ got' = [got EXCEPT ![cur] = None]
  /\ fresh' = {}
  /\ cur' = None
  /\ pc' = IF mode = "batch" THEN "parse" ELSE next

\* A file whose rows now are those of the version its hash names is in step again.
Settle == suspect' = IF got[cur] = seen[cur] THEN suspect \ {cur} ELSE suspect

\* A row for every local index that is not unchanged, whether or not another row of the
\* file holds the same symbol.
NewRows ==
  LET parsed == Parse[got[cur]] IN
  {[id |-> <<nextTxn, i>>, sym |-> parsed[i]] :
     i \in {k \in DOMAIN parsed : parsed[k] \notin Unchanged}}

\* One transaction inserts the changed and new symbols.
InsertSymbols ==
  /\ pc = "insert"
  /\ IF NewRows = {}
     THEN /\ Written("embedFile") /\ Settle
          /\ UNCHANGED <<symbols, nextTxn>>
     ELSE /\ symbols' = [symbols EXCEPT ![cur] = @ \cup NewRows]
          /\ nextTxn' = nextTxn + 1
          /\ fresh' = NewRows
          /\ pc' = "chunk"
          /\ UNCHANGED <<got, cur, suspect>>
  /\ doubled' = [doubled EXCEPT ![cur] = @ \cup Twice(got[cur])]
  /\ UNCHANGED <<disk, fileRow, chunks, vectors, mode, todo, seen, embed, errs, doomed,
                 torn, leaked, unwalked, report, edits, faults>>

\* Variant: a table without AUTOINCREMENT, where ids continue from the highest live row.
InsertChunksReusingIds ==
  /\ pc = "chunk"
  /\ LET txn == CHOOSE n \in 0..nextTxn :
                  /\ \A c \in chunks : c.id[1] < n
                  /\ \A m \in 0..nextTxn : m < n => \E c \in chunks : c.id[1] >= m
     IN /\ chunks' = chunks \cup {[id |-> <<txn, r.id[2]>>, file |-> cur, row |-> r] : r \in fresh}
        /\ queue' = queue \cup {[id |-> <<txn, r.id[2]>>, text |-> r.sym] : r \in fresh}
  /\ nextTxn' = nextTxn + 1
  /\ Written("embedFile") /\ Settle
  /\ UNCHANGED <<disk, fileRow, symbols, vectors, mode, todo, seen, repair, scanned, abort,
                 billed, errs, doomed, torn, leaked, doubled, unwalked, report, edits, faults>>

\* build_chunks() over the changed and new symbols, one transaction for the chunk rows;
\* their ids are new and queued for Phase 3.
InsertChunks ==
  /\ pc = "chunk"
  /\ chunks' = chunks \cup {[id |-> <<nextTxn, r.id[2]>>, file |-> cur, row |-> r] : r \in fresh}
  /\ nextTxn' = nextTxn + 1
  /\ queue' = queue \cup {[id |-> <<nextTxn, r.id[2]>>, text |-> r.sym] : r \in fresh}
  /\ Written("embedFile") /\ Settle
  /\ UNCHANGED <<disk, fileRow, symbols, vectors, mode, todo, seen, repair, scanned, abort,
                 billed, errs, doomed, torn, leaked, doubled, unwalked, report, edits, faults>>

\* An exception out of _insert_one(): counted, and the run goes on with the next file.
WriteError ==
  /\ pc \in {"upsert", "unembed", "drop", "insert", "chunk"}
  /\ Fault
  /\ errs' = TRUE
  /\ Written("next")
  /\ torn' = IF pc = "chunk" THEN torn \cup {cur} ELSE torn
  /\ UNCHANGED <<disk, db, vectors, mode, todo, seen, embed, doomed, suspect, leaked,
                 doubled, unwalked, report, edits>>

----------------------------------------------------------------------------
(* Phase 3: embedding, and the reconcile with the vector store. *)

\* Variant: the holes are found and never folded in.
FoldNothing ==
  /\ mode = "batch" /\ pc = "parse" /\ todo = {}
  /\ \A f \in Files : got[f] = None
  /\ pc' = "embed"
  /\ UNCHANGED <<disk, db, vectors, mode, work, embed, errs, doomed, ghosts, report, edits,
                 faults>>

\* index() folds the holes found before Phase 1 into the queue, re-reading their rows.
Fold ==
  /\ mode = "batch" /\ pc = "parse" /\ todo = {}
  /\ \A f \in Files : got[f] = None
  /\ queue' = queue \cup {w \in WorkFor(repair) : w.id \notin IdsOf(queue)}
  /\ pc' = "embed"
  /\ UNCHANGED <<disk, db, vectors, mode, work, repair, scanned, abort, billed, errs,
                 doomed, ghosts, report, edits, faults>>

\* Variant: repair even though a file of this run failed.
ReconcileRegardless ==
  /\ mode = "stream" /\ pc = "next" /\ todo = {}
  /\ Scan /\ Spend(~scanned')
  /\ queue' = WorkFor(repair')
  /\ pc' = "embed"
  /\ UNCHANGED <<disk, db, vectors, mode, work, abort, billed, errs, doomed, ghosts,
                 report, edits>>

\* _index_streaming() scans after its walk, and repairs only if no file failed.
Reconcile ==
  /\ mode = "stream" /\ pc = "next" /\ todo = {}
  /\ Scan /\ Spend(~scanned')
  /\ queue' = IF errs THEN {} ELSE WorkFor(repair')
  /\ pc' = "embed"
  /\ UNCHANGED <<disk, db, vectors, mode, work, abort, billed, errs, doomed, ghosts,
                 report, edits>>

Embedding == pc \in {"embed", "embedFile"}

\* One batch is embedded and stored.  In index()'s concurrent Phase 3 a batch already in
\* flight may still land after another one failed.
EmbedBatch(b) ==
  /\ Embedding
  /\ abort => mode = "batch"
  /\ b # {}
  /\ queue' = queue \ b
  /\ vectors' = {v \in vectors : v.id \notin IdsOf(b)}
                  \cup {[id |-> w.id, text |-> w.text] : w \in b}
  /\ billed' = billed \cup IdsOf(b)
  /\ UNCHANGED <<disk, db, mode, pc, work, repair, scanned, abort, errs, doomed, ghosts,
                 report, edits, faults>>

\* The provider or the store refuses one batch, paid for or not.
EmbedError(b) ==
  /\ Embedding
  /\ abort => mode = "batch"
  /\ b # {}
  /\ Fault
  /\ queue' = queue \ b
  /\ billed' = billed \cup IdsOf(b)
  /\ abort' = TRUE
  /\ UNCHANGED <<disk, db, vectors, mode, pc, work, repair, scanned, errs, doomed, ghosts,
                 report, edits>>

\* index_file() returns its status; the streaming loop or the watcher goes on.
FileDone ==
  /\ pc = "embedFile"
  /\ queue = {} \/ abort
  /\ queue' = {} /\ abort' = FALSE
  /\ errs' = (errs \/ abort)
  /\ pc' = "next"
  /\ UNCHANGED <<disk, db, vectors, mode, work, repair, scanned, billed, doomed, ghosts,
                 report, edits, faults>>

Reset ==
  /\ mode' = "none" /\ pc' = "idle"
  /\ todo' = {} /\ cur' = None /\ fresh' = {}
  /\ got' = [f \in Files |-> None]
  /\ queue' = {} /\ repair' = {} /\ abort' = FALSE

\* The end of the run: PartialIndexError if a batch failed, otherwise the summary.
RunDone ==
  /\ \/ pc = "embed" /\ (queue = {} \/ abort)
     \/ mode = "watch" /\ pc = "next" /\ todo = {}
  /\ Reset
  /\ report' = IF mode = "watch" \/ report = "edited" THEN "none"
               ELSE IF abort \/ errs THEN "partial" ELSE "done"
  /\ UNCHANGED <<disk, db, vectors, seen, scanned, billed, errs, doomed, ghosts, edits, faults>>

----------------------------------------------------------------------------
(* Removing a file that is gone: delete_file_by_path(), called by watch and --prune. *)

\* One SQL transaction; the vector ids are read before the rows go.
RemoveRows(f) ==
  /\ pc = "idle"
  /\ disk[f] = None /\ fileRow[f] # None
  /\ doomed' = IdsOf({c \in chunks : c.file = f})
  /\ fileRow' = [fileRow EXCEPT ![f] = None]
  /\ symbols' = [symbols EXCEPT ![f] = {}]
  /\ chunks' = {c \in chunks : c.file # f}
  /\ suspect' = suspect \ {f}
  /\ torn' = torn \ {f}
  /\ doubled' = [doubled EXCEPT ![f] = {}]
  /\ mode' = "remove" /\ pc' = "unvector"
  /\ report' = "none"
  /\ UNCHANGED <<disk, nextTxn, vectors, work, embed, errs, leaked, unwalked, edits, faults>>

RemoveVectors ==
  /\ pc = "unvector"
  /\ vectors' = {v \in vectors : v.id \notin doomed}
  /\ doomed' = {}
  /\ mode' = "none" /\ pc' = "idle"
  /\ UNCHANGED <<disk, db, work, embed, errs, ghosts, report, edits, faults>>

----------------------------------------------------------------------------
\* The process is killed: only committed rows and vectors remain.
Crash ==
  /\ pc # "idle"
  /\ Fault
  /\ Reset
  /\ doomed' = {}
  /\ leaked' = leaked \cup doomed
  /\ torn' = IF pc = "chunk" THEN torn \cup {cur} ELSE torn
  /\ report' = "none"
  /\ UNCHANGED <<disk, db, vectors, seen, scanned, billed, errs, suspect, doubled, unwalked,
                 edits>>

Run ==
  \/ \E f \in Files : ParseFile(f) \/ SkipFile(f) \/ HashFile(f) \/ TakeParsed(f)
  \/ ReadFile
  \/ UpsertFile \/ DropVectors \/ DropSymbols \/ InsertSymbols \/ InsertChunks \/ WriteError
  \/ Fold \/ Reconcile
  \/ \E b \in SUBSET queue : EmbedBatch(b) \/ EmbedError(b)
  \/ FileDone \/ RunDone \/ RemoveVectors

Next ==
  \/ \E f \in Files, v \in Versions \cup {None} : Edit(f, v)
  \/ \E walked \in SUBSET Present :
       StartStream(walked) \/ \E incremental \in BOOLEAN : StartBatch(incremental, walked)
  \/ \E f \in Files : StartWatch(f) \/ RemoveRows(f)
  \/ Run
  \/ Crash

Spec == Init /\ [][Next]_vars

\* The process keeps running once started; the user, a hook or a cron job keeps calling
\* `trelix index`, so it starts again and again whenever no other run is in the way.
Start == \E walked \in SUBSET Present : StartBatch(TRUE, walked) \/ StartStream(walked)

Fairness == WF_vars(Run) /\ SF_vars(Start)

LiveSpec == Spec /\ Fairness

----------------------------------------------------------------------------
(* Properties. *)

Writing == {"read", "upsert", "unembed", "drop", "insert", "chunk"}

TypeOK ==
  /\ disk \in [Files -> Versions \cup {None}]
  /\ fileRow \in [Files -> Versions \cup {None}]
  /\ symbols \in [Files -> SUBSET Row]
  /\ chunks \subseteq Chunk
  /\ nextTxn \in Nat
  /\ vectors \subseteq Vector
  /\ mode \in {"none", "batch", "stream", "watch", "remove"}
  /\ pc \in {"idle", "parse", "next", "embed", "embedFile", "unvector"} \cup Writing
  /\ todo \subseteq Files
  /\ seen \in [Files -> Versions \cup {None}]
  /\ got \in [Files -> Versions \cup {None}]
  /\ cur \in Files \cup {None}
  /\ fresh \subseteq Row
  /\ queue \subseteq Work
  /\ repair \subseteq ChunkId
  /\ scanned \in BOOLEAN /\ errs \in BOOLEAN /\ abort \in BOOLEAN
  /\ doomed \subseteq ChunkId /\ billed \subseteq ChunkId /\ leaked \subseteq ChunkId
  /\ suspect \subseteq Files /\ torn \subseteq Files /\ unwalked \subseteq Files
  /\ doubled \in [Files -> SUBSET Names]
  /\ report \in {"none", "uptodate", "done", "partial", "edited"}
  /\ edits \in Nat /\ faults \in Nat
  /\ cur # None <=> pc \in Writing

\* A vector a search ranks by was computed from the text of the row it answers with,
\* whatever ids earlier crashes left behind in the vector store.
VectorsMatchRows ==
  \A v \in vectors : \A c \in chunks : v.id = c.id => v.text = c.row.sym

\* No vector is without a chunk row, except those of a file deletion that committed its
\* rows and has not reached, or was killed before, its vector half (the residual window
\* delete_file_by_path documents).
NoOrphanVectors == IdsOf(vectors) \subseteq IdsOf(chunks) \cup doomed \cup leaked

\* Rows that are the parse of a content: every symbol of it has a row, and every row is a
\* symbol of it, the only one of its name.  The second half is not promised of a name that
\* came more than once in what was written, since the diff remembers one row of a name and
\* keeps or deletes them all.
Mirrors(rows, more, v) ==
  /\ SymsOf(v) \subseteq {r.sym : r \in rows}
  /\ \A r \in rows : r.sym.name \notin more =>
       /\ r.sym \in SymsOf(v)
       /\ \A q \in rows : q.sym.name = r.sym.name => q = r

InStep(f, v) == Mirrors(symbols[f], doubled[f], v)

\* The stored hash of a file answers for its symbol rows: they are in step with that
\* content, unless the rewrite of the file was cut off or read another content than the
\* walk hashed.
HashAnswersForRows ==
  \A f \in Files : fileRow[f] # None /\ f \notin suspect => InStep(f, fileRow[f])

\* A symbol row is searchable through a chunk row from the commit after its own on; only a
\* file cut off between the two commits has symbols without.
SymbolsHaveChunks ==
  \A f \in Files \ torn : \A r \in symbols[f] :
    \/ \E c \in chunks : c.file = f /\ c.row = r
    \/ f = cur /\ r \in fresh

\* What a run may claim: when it ends without an error over a tree nobody edited meanwhile,
\* every chunk row has a vector and every file its walk reached is in step with its
\* content, the suspect files apart.
FinishedRunCovers ==
  report \in {"uptodate", "done"} =>
    /\ scanned => Holes = {}
    /\ \A f \in Present \ (suspect \cup unwalked) : InStep(f, disk[f])

\* No chunk is paid for that has a vector, and none is sent twice by one run, whether or
\* not its first batch failed.
QueueIsUnpaid ==
  \A w \in queue : w.id \notin billed /\ w.id \notin IdsOf(vectors)

\* A re-index leaves the chunk row, hence the vector, of an unchanged symbol alone, unless
\* its name came more than once in the file.
KeepsUnchanged ==
  [][\A c \in chunks : c \notin chunks' =>
        \/ fileRow'[c.file] = None
        \/ c.file = cur /\ c.row.sym \notin SymsOf(got[cur])
        \/ c.row.sym.name \in doubled[c.file]]_vars

\* Once edits, crashes and failing calls are over, running `trelix index` again and again
\* fills every hole and brings every file but the suspect ones in step with the tree.
Converges == <>[](Holes = {} /\ \A f \in Present \ suspect : InStep(f, disk[f]))

\* indexer.py prints "Nothing to index - all files up to date." on the early return.
UpToDateMeansIndexed ==
  report = "uptodate" => \A f \in Present \ unwalked : InStep(f, disk[f])

\* indexer.py, _chunks_missing_vectors: a failed check "must never claim health".
UpToDateMeansCovered == report = "uptodate" => Holes = {}
=============================================================================
