------------------------------- MODULE AuditLog -------------------------------
(***************************************************************************)
(* The hash-chained audit log (trelix/audit/store.py), its writer, the     *)
(* audit middleware of `trelix serve` (trelix/audit/middleware.py), and    *)
(* `trelix audit prune`, a process of its own that removes old rows from   *)
(* the database the server is appending to.                                *)
(*                                                                         *)
(* AuditStore's lock is a threading.Lock of one process, and Python's      *)
(* sqlite3 opens a transaction at the first statement that writes, so the  *)
(* reads an append or a prune starts with see an earlier state than its    *)
(* transaction.  Each read and each transaction is an action here.         *)
(*                                                                         *)
(* Data abstraction.  The content of a row is its ts.  SHA-256 has no      *)
(* collisions: the hash of a row is the sequence of all contents chained   *)
(* up to it.  Values somebody else wrote into the tables are left out, and *)
(* so are the disk pages VACUUM gives back.                                *)
(***************************************************************************)
EXTENDS Integers, Sequences, FiniteSets

CONSTANTS
  Servers,    \* processes that append
  Pruners,    \* processes that run `trelix audit prune`
  Batch,      \* --batch-size, any integer
  Time,       \* readings of the clock
  None,       \* no anchor, no watermark, no page read
  MaxAppends  \* bound: rows ever appended

\* The command line sets no bound on --batch-size.
ASSUME BatchAssumption == Batch \in Int
ASSUME TimeAssumption == Time \subseteq Nat
ASSUME BoundAssumption == MaxAppends \in Nat

VARIABLES
  log,      \* audit_log: the row of each id
  seq,      \* sqlite_sequence: the highest id handed out
  anchor,   \* audit_meta: count and head_hash
  mark,     \* audit_meta: prune_watermark_id, prune_watermark_hash, prune_removed_count
  now       \* the clock

VARIABLES   \* append()
  spc,      \* where each server is
  ts,       \* of the event it is recording
  prev      \* the head hash it read

VARIABLES   \* prune()
  ppc,      \* where each pruner is
  cutoff,   \* rows older than this go
  page,     \* what it took from the rows it read
  taken,    \* total_removed

  \* what the properties look back at; no action reads them
  promised, \* what --dry-run would have said when this prune began
  quiet     \* nobody appended since

db     == <<log, seq, anchor, mark>>
server == <<spc, ts, prev>>
pruner == <<ppc, cutoff, page, taken, promised, quiet>>
vars   == <<db, now, server, pruner>>

Hash    == Seq(Time)
Genesis == <<>>

\* _canonical_hash()
Chain(hash, content) == Append(hash, content)

Row  == [ts : Time, prev : Hash, hash : Hash]
Page == [id : Nat, hash : Hash, removed : Nat, short : BOOLEAN]

Anchor    == [count : Nat, head : Hash]
Watermark == [id : Nat, hash : Hash, removed : Nat]

ASSUME NoneAssumption == None \notin Anchor /\ None \notin Watermark /\ None \notin Page

Ids == DOMAIN log

Newest == CHOOSE i \in Ids : \A j \in Ids : j <= i

\* LIMIT Batch: the first Batch rows by id, all of them if it is negative.
Candidates == {i \in Ids : Batch < 0 \/ Cardinality({j \in Ids : j < i}) < Batch}

\* Variant: every row that is old enough, whatever comes before it.
OldRows(ids, c) == {i \in ids : log[i].ts < c}

\* Rows up to the first that is not old enough.
OldPrefix(ids, c) == {i \in ids : \A j \in ids : j <= i => log[j].ts < c}

\* count_prunable(), the number `trelix audit prune --dry-run` prints.
CountPrunable(c) == Cardinality(OldPrefix(Ids, c))

Init ==
  /\ log = <<>> /\ seq = 0 /\ anchor = None /\ mark = None
  /\ now \in Time
  /\ spc = [s \in Servers |-> "idle"]
  /\ ts = [s \in Servers |-> now]
  /\ prev = [s \in Servers |-> Genesis]
  /\ ppc = [p \in Pruners |-> "idle"]
  /\ cutoff = [p \in Pruners |-> now]
  /\ page = [p \in Pruners |-> None]
  /\ taken = [p \in Pruners |-> 0]
  /\ promised = [p \in Pruners |-> 0]
  /\ quiet = [p \in Pruners |-> FALSE]

\* The clock runs, and may be stepped back.
Clock(t) ==
  /\ t # now
  /\ now' = t
  /\ UNCHANGED <<db, server, pruner>>

----------------------------------------------------------------------------
(* append(), under the lock of its server's store. *)

\* The middleware stamps the event, then calls append().
Emit(s) ==
  /\ spc[s] = "idle"
  /\ ts' = [ts EXCEPT ![s] = now]
  /\ spc' = [spc EXCEPT ![s] = "head"]
  /\ UNCHANGED <<db, now, prev, pruner>>

\* _head_hash_locked(): the newest row's hash ...
ReadHead(s) ==
  /\ spc[s] = "head"
  /\ IF Ids = {}
     THEN spc' = [spc EXCEPT ![s] = "watermark"] /\ UNCHANGED prev
     ELSE /\ prev' = [prev EXCEPT ![s] = log[Newest].hash]
          /\ spc' = [spc EXCEPT ![s] = "insert"]
  /\ UNCHANGED <<db, now, ts, pruner>>

\* Variant: an empty table is taken for a new log.
ReadGenesis(s) ==
  /\ spc[s] = "watermark"
  /\ prev' = [prev EXCEPT ![s] = Genesis]
  /\ spc' = [spc EXCEPT ![s] = "insert"]
  /\ UNCHANGED <<db, now, ts, pruner>>

\* ... or, with no row left, the hash the last prune recorded.
ReadWatermark(s) ==
  /\ spc[s] = "watermark"
  /\ prev' = [prev EXCEPT ![s] = IF mark = None THEN Genesis ELSE mark.hash]
  /\ spc' = [spc EXCEPT ![s] = "insert"]
  /\ UNCHANGED <<db, now, ts, pruner>>

\* One transaction inserts the row and moves both anchor values.
Insert(s) ==
  /\ spc[s] = "insert"
  /\ seq < MaxAppends
  /\ LET hash == Chain(prev[s], ts[s])
         row  == [ts |-> ts[s], prev |-> prev[s], hash |-> hash]
     IN /\ log' = [i \in Ids \cup {seq + 1} |-> IF i = seq + 1 THEN row ELSE log[i]]
        /\ anchor' = [count |-> IF anchor = None THEN 1 ELSE anchor.count + 1,
                      head  |-> hash]
  /\ seq' = seq + 1
  /\ spc' = [spc EXCEPT ![s] = "idle"]
  /\ quiet' = [p \in Pruners |-> FALSE]
  /\ UNCHANGED <<mark, now, ts, prev, ppc, cutoff, page, taken, promised>>

\* append() returns False (or raises, if it is to fail closed), or the server is killed:
\* the transaction is rolled back.
AppendFails(s) ==
  /\ spc[s] # "idle"
  /\ spc' = [spc EXCEPT ![s] = "idle"]
  /\ UNCHANGED <<db, now, ts, prev, pruner>>

----------------------------------------------------------------------------
(* prune(). *)

\* The cutoff is the clock minus the retention, zero days included.
PruneStart(p, c) ==
  /\ ppc[p] \in {"idle", "done"}
  /\ c <= now
  /\ ppc' = [ppc EXCEPT ![p] = "read"]
  /\ cutoff' = [cutoff EXCEPT ![p] = c]
  /\ taken' = [taken EXCEPT ![p] = 0]
  /\ promised' = [promised EXCEPT ![p] = CountPrunable(c)]
  /\ quiet' = [quiet EXCEPT ![p] = TRUE]
  /\ UNCHANGED <<db, now, server, page>>

\* Variant: a page that held old rows only is taken for the last one.
ReadOnePage(p) ==
  /\ ppc[p] = "read"
  /\ LET prefix == OldPrefix(Candidates, cutoff[p])
         last   == CHOOSE i \in prefix : \A j \in prefix : j <= i
     IN IF prefix = {}
        THEN ppc' = [ppc EXCEPT ![p] = "done"] /\ UNCHANGED page
        ELSE /\ page' = [page EXCEPT ![p] =
                           [id |-> last, hash |-> log[last].hash,
                            removed |-> Cardinality(prefix), short |-> prefix = Candidates]]
             /\ ppc' = [ppc EXCEPT ![p] = "delete"]
  /\ UNCHANGED <<db, now, server, cutoff, taken, promised, quiet>>

\* A page of candidates is read; nothing old at its start ends the prune.
ReadPage(p) ==
  /\ ppc[p] = "read"
  /\ LET prefix == OldPrefix(Candidates, cutoff[p])
         last   == CHOOSE i \in prefix : \A j \in prefix : j <= i
     IN IF prefix = {}
        THEN ppc' = [ppc EXCEPT ![p] = "done"] /\ UNCHANGED page
        ELSE /\ page' = [page EXCEPT ![p] =
                           [id |-> last, hash |-> log[last].hash,
                            removed |-> Cardinality(prefix), short |-> prefix # Candidates]]
             /\ ppc' = [ppc EXCEPT ![p] = "delete"]
  /\ UNCHANGED <<db, now, server, cutoff, taken, promised, quiet>>

\* Variant: DELETE ... WHERE ts < ?
KeepsYoung(p) == {i \in Ids : log[i].ts >= cutoff[p]}

\* The rows that DELETE ... WHERE id <= ? AND ts < ? leaves.
Keeps(p) == {i \in Ids : ~(i <= page[p].id /\ log[i].ts < cutoff[p])}

\* The loop goes on unless the page ended in a row that is not old enough.
PageDone(p) ==
  /\ taken' = [taken EXCEPT ![p] = @ + page[p].removed]
  /\ ppc' = [ppc EXCEPT ![p] = IF page[p].short THEN "done" ELSE "read"]
  /\ page' = [page EXCEPT ![p] = None]

\* Variant: prune_removed_count holds the last batch only.
DeletePageForgetsTotal(p) ==
  /\ ppc[p] = "delete"
  /\ log' = [i \in Keeps(p) |-> log[i]]
  /\ mark' = [id |-> page[p].id, hash |-> page[p].hash, removed |-> page[p].removed]
  /\ PageDone(p)
  /\ UNCHANGED <<seq, anchor, now, server, cutoff, promised, quiet>>

\* One transaction deletes the rows and moves the watermark.
DeletePage(p) ==
  /\ ppc[p] = "delete"
  /\ log' = [i \in Keeps(p) |-> log[i]]
  /\ mark' = [id |-> page[p].id, hash |-> page[p].hash,
              removed |-> page[p].removed + IF mark = None THEN 0 ELSE mark.removed]
  /\ PageDone(p)
  /\ UNCHANGED <<seq, anchor, now, server, cutoff, promised, quiet>>

\* Variant: the page of a transaction that failed is still at hand.
PruneFailsWithPage(p) ==
  /\ ppc[p] \in {"read", "delete"}
  /\ ppc' = [ppc EXCEPT ![p] = "idle"]
  /\ UNCHANGED <<db, now, server, cutoff, page, taken, promised, quiet>>

\* The database stays locked, or the process is killed.
PruneFails(p) ==
  /\ ppc[p] \in {"read", "delete"}
  /\ ppc' = [ppc EXCEPT ![p] = "idle"]
  /\ page' = [page EXCEPT ![p] = None]
  /\ UNCHANGED <<db, now, server, cutoff, taken, promised, quiet>>

Next ==
  \/ \E t \in Time : Clock(t)
  \/ \E s \in Servers : Emit(s) \/ ReadHead(s) \/ ReadWatermark(s) \/ Insert(s) \/ AppendFails(s)
  \/ \E p \in Pruners : \/ \E c \in Time : PruneStart(p, c)
                        \/ ReadPage(p) \/ DeletePage(p) \/ PruneFails(p)

Spec == Init /\ [][Next]_vars

----------------------------------------------------------------------------
(* verify(): one read transaction, so one state of the database. *)

Start   == IF mark = None THEN 0 ELSE mark.id
Root    == IF mark = None THEN Genesis ELSE mark.hash
Removed == IF mark = None THEN 0 ELSE mark.removed

\* The running hash before row i of the walk, which starts past the watermark.
Before(i) == IF i = Start + 1 THEN Root ELSE log[i - 1].hash

\* The hash the walk ends with.
Walked == IF Ids = {} THEN Root ELSE log[Newest].hash

\* No fault is found: ids without a gap, every row linked and unchanged, as many rows as
\* the anchor and the watermark leave, ending in the anchored hash, and no row is missing
\* without a prune.
Verifies ==
  /\ Ids = (Start + 1)..(Start + Cardinality(Ids))
  /\ \A i \in Ids : log[i].prev = Before(i) /\ log[i].hash = Chain(Before(i), log[i].ts)
  /\ Ids # {} => anchor # None
  /\ anchor # None => anchor.count = Cardinality(Ids) + Removed /\ anchor.head = Walked
  /\ Ids = {} /\ seq > 0 => mark # None /\ mark.id = seq

----------------------------------------------------------------------------
(* Properties. *)

TypeOK ==
  /\ Ids \subseteq Nat /\ \A i \in Ids : log[i] \in Row
  /\ seq \in Nat
  /\ anchor \in Anchor \cup {None}
  /\ mark \in Watermark \cup {None}
  /\ now \in Time
  /\ spc \in [Servers -> {"idle", "head", "watermark", "insert"}]
  /\ ts \in [Servers -> Time] /\ prev \in [Servers -> Hash]
  /\ ppc \in [Pruners -> {"idle", "read", "delete", "done"}]
  /\ cutoff \in [Pruners -> Time] /\ page \in [Pruners -> Page \cup {None}]
  /\ taken \in [Pruners -> Nat] /\ promised \in [Pruners -> Nat]
  /\ quiet \in [Pruners -> BOOLEAN]
  /\ \A p \in Pruners : ppc[p] = "delete" <=> page[p] # None

\* A log nobody tampered with is never reported as tampered: with one server and one
\* pruner at a time, verify() finds no fault whenever it looks, between any two of their
\* transactions and after any failure or kill.
HealthyLogVerifies == Verifies

\* prune(): "the watermark always describes exactly what has actually been deleted, never a
\* delete that did not commit".
WatermarkExact == 1..seq \ Ids = 1..Start /\ Removed = Start

\* A row goes only when it and every row before it are older than the cutoff of the prune
\* that takes it, even if the clock was stepped back between two appends.
OnlyOldPrefixGoes ==
  [][\A i \in Ids \ Ids' :
        /\ \E p \in Pruners : ppc[p] = "delete" /\ log[i].ts < cutoff[p]
        /\ \A j \in Ids : j < i => j \notin Ids']_vars

\* --dry-run: "this number matches what a real prune call would remove", however many
\* batches it takes, if nobody appends meanwhile.  Only with --batch-size 0 no row goes,
\* whatever was promised.
PruneTakesWhatItPromised ==
  \A p \in Pruners :
    ppc[p] = "done" /\ quiet[p] => taken[p] = IF Batch = 0 THEN 0 ELSE promised[p]

\* What the rows tell a reader, oldest first.
Shown ==
  LET Nth(k) == CHOOSE i \in Ids : Cardinality({j \in Ids : j <= i}) = k
  IN [k \in 1..Cardinality(Ids) |-> log[Nth(k)].ts]

Trail == INSTANCE AuditTrail WITH
  Event <- Time, shown <- Shown, history <- IF anchor = None THEN Genesis ELSE anchor.head

\* The log implements an append-only trail whose oldest events may be retired, and the
\* anchored hash stands for every event ever recorded.
ImplementsTrail == Trail!Spec
=============================================================================
