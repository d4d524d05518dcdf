--------------------------- MODULE EmbeddingCache ---------------------------
(***************************************************************************)
(* The embedding cache's size cap (enforce_size_cap() of                   *)
(* trelix/indexing/embedding_cache.py): bought vectors in a SQLite file    *)
(* several processes share.  A trim measures the file, deletes a share of  *)
(* the rows in one commit, and only then returns the space; the VACUUM may *)
(* fail and leave the pages to the next trim.                              *)
(*                                                                         *)
(* A row spills to overflow pages of its own and may have a leaf and an    *)
(* interior page to itself in each of the two b-trees, so a number of rows *)
(* has many layouts; which one the file has is up to SQLite.               *)
(***************************************************************************)
EXTENDS Integers

CONSTANTS
  MinPages, MaxPages,   \* pages a row takes, packed with others or alone on its leaves
  Overhead,       \* pages of the schema and the meta table
  CapPages,       \* max_bytes, in pages
  Trimmers,       \* processes that trim: indexers, `trelix cache gc`
  MaxPuts,        \* bound: rows ever put
  MaxTrimFaults   \* bound: statements that fail (another process's lock)

ASSUME CacheAssumption ==
  /\ MinPages \in Nat /\ MaxPages \in Nat \ {0} /\ MinPages <= MaxPages
  /\ Overhead \in Nat \ {0} /\ CapPages \in Nat
  /\ MaxPuts \in Nat /\ MaxTrimFaults \in Nat

VARIABLES
  cached,        \* SELECT COUNT(*)
  rowPages,      \* pages of the rows: overflow, leaves, interior pages, the index
  freePages,     \* freelist_count
  trim,          \* where each trimmer is, and what it has measured
  puts, trimFaults   \* spent so far, of MaxPuts and MaxTrimFaults

VARIABLE
  outdated       \* trimmers whose measure another's DELETE has overtaken; read by no action

cacheVars == <<cached, rowPages, freePages, trim, puts, trimFaults, outdated>>

\* (A negative `evict` would delete every row: SQLite reads LIMIT -1 as no limit.)
CacheTypeOK ==
  /\ cached \in 0 .. MaxPuts /\ rowPages \in 0 .. MaxPages * MaxPuts /\ freePages \in Nat
  /\ \A t \in Trimmers : /\ trim[t].at \in {"idle", "measure", "count", "delete", "vacuum"}
                         /\ trim[t].live \in Nat
                         /\ trim[t].evict \in 0 .. MaxPuts
  /\ puts \in 0 .. MaxPuts /\ trimFaults \in 0 .. MaxTrimFaults
  /\ outdated \subseteq Trimmers

Idle == [at |-> "idle", live |-> 0, evict |-> 0]

CacheInit ==
  /\ cached = 0 /\ rowPages = 0 /\ freePages = 0
  /\ trim = [t \in Trimmers |-> Idle]
  /\ puts = 0 /\ trimFaults = 0 /\ outdated = {}

Layouts(n) == MinPages * n .. MaxPages * n
FilePages  == Overhead + rowPages + freePages

\* Variant: what the file takes, the pages a DELETE has freed included.
LivePagesOfFile == FilePages

\* _live_bytes_locked(): page_count - freelist_count.
LivePages == Overhead + rowPages

TrimFault == trimFaults < MaxTrimFaults /\ trimFaults' = trimFaults + 1

----------------------------------------------------------------------------
\* Pages are taken from the freelist before the file grows, and go there when they are empty.
TakeOrFree(pages) ==
  /\ rowPages' = pages
  /\ freePages' = IF pages - rowPages > freePages THEN 0 ELSE freePages - (pages - rowPages)

\* put_many(): a new row.
PutRow ==
  /\ puts < MaxPuts /\ puts' = puts + 1
  /\ cached' = cached + 1
  /\ \E pages \in {l \in Layouts(cached + 1) : l >= rowPages} : TakeOrFree(pages)
  /\ UNCHANGED <<trim, trimFaults, outdated>>

\* get_many() moves the rows it finds in the index, put_many() replaces one.
MoveRows ==
  /\ \E pages \in Layouts(cached) : TakeOrFree(pages)
  /\ UNCHANGED <<cached, trim, puts, trimFaults, outdated>>

StatFile(t) ==
  /\ trim[t].at = "idle" /\ FilePages > CapPages
  /\ trim' = [trim EXCEPT ![t].at = "measure"]
  /\ UNCHANGED <<cached, rowPages, freePages, puts, trimFaults, outdated>>

\* Variant: every file over the cap has rows to evict.
MeasureLiveAlways(t) ==
  /\ trim[t].at = "measure"
  /\ trim' = [trim EXCEPT ![t].live = LivePages, ![t].at = "count"]
  /\ outdated' = outdated \ {t}
  /\ UNCHANGED <<cached, rowPages, freePages, puts, trimFaults>>

\* Within the cap by its live pages, nothing is evicted; VACUUM runs all the same.
MeasureLive(t) ==
  /\ trim[t].at = "measure"
  /\ trim' = [trim EXCEPT ![t].live = LivePages,
                          ![t].at = IF LivePages <= CapPages THEN "vacuum" ELSE "count"]
  /\ outdated' = outdated \ {t}
  /\ UNCHANGED <<cached, rowPages, freePages, puts, trimFaults>>

CountRows(t) ==
  /\ trim[t].at = "count"
  /\ trim' = [trim EXCEPT ![t].at = "delete",
                          ![t].evict = cached - (CapPages * cached) \div trim[t].live]
  /\ UNCHANGED <<cached, rowPages, freePages, puts, trimFaults, outdated>>

\* The oldest rows go, and pages they leave empty are free, in one commit; or it fails.
DeleteOldest(t) ==
  /\ trim[t].at = "delete"
  /\ \/ /\ cached' = IF trim[t].evict < cached THEN cached - trim[t].evict ELSE 0
        /\ \E pages \in {l \in Layouts(cached') : l <= rowPages} : TakeOrFree(pages)
        /\ trim' = [trim EXCEPT ![t].at = "vacuum"]
        /\ outdated' = outdated \cup {u \in Trimmers \ {t} : trim[u].at \in {"count", "delete"}}
        /\ UNCHANGED trimFaults
     \/ /\ TrimFault
        /\ trim' = [trim EXCEPT ![t] = Idle]
        /\ UNCHANGED <<cached, rowPages, freePages, outdated>>
  /\ UNCHANGED puts

\* VACUUM packs the file, or fails under another process's lock; the trim is over either way.
Vacuum(t) ==
  /\ trim[t].at = "vacuum"
  /\ \/ /\ rowPages' \in {l \in Layouts(cached) : l <= rowPages} /\ freePages' = 0
        /\ UNCHANGED trimFaults
     \/ TrimFault /\ UNCHANGED <<rowPages, freePages>>
  /\ trim' = [trim EXCEPT ![t] = Idle]
  /\ UNCHANGED <<cached, puts, outdated>>

CacheNext ==
  \/ PutRow \/ MoveRows
  \/ \E t \in Trimmers :
       StatFile(t) \/ MeasureLive(t) \/ CountRows(t) \/ DeleteOldest(t) \/ Vacuum(t)

CacheSpec == CacheInit /\ [][CacheNext]_cacheVars

----------------------------------------------------------------------------
\* The rows the cap has room for in whatever layout.
CapRows == (CapPages - Overhead) \div MaxPages

\* However often trims repeat while VACUUM keeps failing, and however loosely their deletions
\* leave the rows stored, they never evict below what the cap has room for in every layout.
\* (Two trims that measure before either deletes evict twice.)
TrimKeepsCapWorth ==
  [][\A t \in Trimmers \ outdated :
       trim[t].at = "delete" /\ trim'[t].at = "vacuum" => cached' >= CapRows]_cacheVars
=============================================================================
