------------------------------ MODULE ReadPool ------------------------------
(***************************************************************************)
(* ReadOnlyConnectionPool (trelix/store/read_pool.py), from which the      *)
(* threads of a server draw a connection per bm25_search() (trelix/store/  *)
(* db.py).  acquire() blocks on a queue without a timeout; close() of the  *)
(* Database may come while connections are out and threads wait.           *)
(***************************************************************************)
EXTENDS Naturals, FiniteSets

CONSTANTS
  Conns,        \* the connections: pool_size of them
  Readers,      \* threads that search
  NoConn,
  MaxQueries    \* bound: searches

ASSUME PoolAssumption == Conns # {} /\ NoConn \notin Conns /\ MaxQueries \in Nat

VARIABLES
  available,    \* _available, whose order makes no difference between equal connections
  reader,       \* where each thread is, and the connection it holds
  poolOpen,     \* FALSE after close_all(): every connection is closed, also those out
  queries       \* spent so far, of MaxQueries

poolVars == <<available, reader, poolOpen, queries>>

PoolTypeOK ==
  /\ available \subseteq Conns
  /\ reader \in [Readers -> [at : {"out", "waiting", "reading"}, conn : Conns \cup {NoConn}]]
  /\ poolOpen \in BOOLEAN /\ queries \in 0 .. MaxQueries

PoolInit ==
  /\ available = Conns
  /\ reader = [r \in Readers |-> [at |-> "out", conn |-> NoConn]]
  /\ poolOpen = TRUE /\ queries = 0

----------------------------------------------------------------------------
\* bm25_search() draws from the pool, also from one that is closed by now.
Search(r) ==
  /\ reader[r].at = "out" /\ queries < MaxQueries
  /\ reader' = [reader EXCEPT ![r].at = "waiting"]
  /\ queries' = queries + 1
  /\ UNCHANGED <<available, poolOpen>>

\* acquire(): _available.get().
TakeConn(r, c) ==
  /\ reader[r].at = "waiting" /\ c \in available
  /\ available' = available \ {c}
  /\ reader' = [reader EXCEPT ![r] = [at |-> "reading", conn |-> c]]
  /\ UNCHANGED <<poolOpen, queries>>

\* Variant: the connection goes back only after a search that succeeded.
ReleaseOnSuccess(r) ==
  /\ reader[r].at = "reading"
  /\ \E succeeded \in BOOLEAN :
       available' = available \cup (IF succeeded THEN {reader[r].conn} ELSE {})
  /\ reader' = [reader EXCEPT ![r] = [at |-> "out", conn |-> NoConn]]
  /\ UNCHANGED <<poolOpen, queries>>

\* Variant: the thread lets go of its connection before it puts it back.
ReleaseCleared(r) ==
  /\ reader[r].at = "reading"
  /\ reader' = [reader EXCEPT ![r] = [at |-> "out", conn |-> NoConn]]
  /\ available' = available \cup {reader'[r].conn}
  /\ UNCHANGED <<poolOpen, queries>>

\* The search ends, with rows or (on a closed connection always) with an exception; either
\* way the connection goes back.
Release(r) ==
  /\ reader[r].at = "reading"
  /\ available' = available \cup {reader[r].conn}
  /\ reader' = [reader EXCEPT ![r] = [at |-> "out", conn |-> NoConn]]
  /\ UNCHANGED <<poolOpen, queries>>

\* Database.close(): the queue keeps what it holds.
CloseAll ==
  /\ poolOpen
  /\ poolOpen' = FALSE
  /\ UNCHANGED <<available, reader, queries>>

ReaderStep(r) == Release(r) \/ \E c \in Conns : TakeConn(r, c)

PoolNext ==
  \/ CloseAll
  \/ \E r \in Readers : Search(r) \/ ReaderStep(r)

\* The threads run; nobody has to start a search or close the pool.
PoolSpec ==
  PoolInit /\ [][PoolNext]_poolVars /\ WF_poolVars(\E r \in Readers : ReaderStep(r))

----------------------------------------------------------------------------
\* No search waits for ever: whatever searches fail, and though the pool may be closed while
\* threads wait for it, every thread gets a connection in the end and returns.
ReadersServed == \A r \in Readers : reader[r].at = "waiting" ~> reader[r].at = "out"
=============================================================================
