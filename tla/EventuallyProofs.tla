-------------------------- MODULE EventuallyProofs --------------------------
(***************************************************************************)
(* What is proved of the watchers and the read pool, and of their          *)
(* composition with the Batch API jobs.  That something happens in the end *)
(* stays with TLC.  What is proved is the other half: whoever waits waits  *)
(* for somebody, and whatever is behind has work to come.                  *)
(***************************************************************************)
EXTENDS MCEventually, BatchApiJobsProofs, SequenceTheorems, TLAPS

----------------------------------------------------------------------------
(* The read pool.  A connection is in the queue or with one thread, and a  *)
(* thread that has one brings it back whatever becomes of its search.      *)

\* Who reads holds a connection; the connections that are not in the queue are held, and by
\* one thread each.
Lent ==
  /\ \A r \in Readers : reader[r].at = "reading" <=> reader[r].conn # NoConn
  /\ \A c \in Conns : c \in available \/ \E r \in Readers : reader[r].conn = c
  /\ \A r \in Readers : reader[r].conn \notin available
  /\ \A r, q \in Readers : reader[r].conn = reader[q].conn /\ reader[r].conn # NoConn => r = q

PoolInv == PoolTypeOK /\ Lent

\* Nobody waits for a connection that nobody will bring back.
ConnsComeBack ==
  \A r \in Readers : reader[r].at = "waiting" =>
    available # {} \/ \E q \in Readers : reader[q].at = "reading"

LEMMA PoolInitInv == PoolInit => PoolInv
  BY PoolAssumption DEF PoolInit, PoolInv, PoolTypeOK, Lent

LEMMA PoolStepInv == PoolInv /\ [PoolNext]_poolVars => PoolInv'
  <1>1. SUFFICES ASSUME PoolInv, [PoolNext]_poolVars PROVE PoolInv'
    OBVIOUS
  <1>2. /\ reader \in [Readers -> [at : {"out", "waiting", "reading"}, conn : Conns \cup {NoConn}]]
        /\ available \subseteq Conns /\ queries \in 0 .. MaxQueries
    BY <1>1 DEF PoolInv, PoolTypeOK
  <1>3. CASE CloseAll
    BY <1>1, <1>3 DEF CloseAll, PoolInv, PoolTypeOK, Lent
  <1>4. CASE \E r \in Readers : Search(r)
    <2>1. PICK r \in Readers : Search(r)
      BY <1>4
    <2>2. \A q \in Readers : /\ reader'[q].conn = reader[q].conn
                             /\ reader'[q].at = IF q = r THEN "waiting" ELSE reader[q].at
      BY <1>2, <2>1 DEF Search
    <2>3. reader[r].at = "out"
      BY <2>1 DEF Search
    <2>4. PoolTypeOK'
      BY <1>1, <1>2, <2>1, PoolAssumption DEF Search, PoolInv, PoolTypeOK
    <2>5. available' = available
      BY <2>1 DEF Search
    <2>6. Lent'
      BY <1>1, <2>2, <2>3, <2>5 DEF PoolInv, Lent
    <2> QED BY <2>4, <2>6 DEF PoolInv
  <1>5. CASE \E r \in Readers, c \in Conns : TakeConn(r, c)
    <2>1. PICK r \in Readers, c \in Conns : TakeConn(r, c)
      BY <1>5
    <2>2. /\ reader[r].at = "waiting" /\ c \in available /\ available' = available \ {c}
          /\ reader' = [reader EXCEPT ![r] = [at |-> "reading", conn |-> c]]
      BY <2>1 DEF TakeConn
    <2>3. \A q \in Readers :
            reader'[q] = IF q = r THEN [at |-> "reading", conn |-> c] ELSE reader[q]
      BY <1>2, <2>2
    <2>4. PoolTypeOK'
      BY <1>1, <1>2, <2>1, <2>2 DEF TakeConn, PoolInv, PoolTypeOK
    <2>5. reader[r].conn = NoConn /\ c # NoConn
      BY <1>1, <2>2, PoolAssumption DEF PoolInv, Lent
    <2>6. Lent'
      BY <1>1, <2>2, <2>3, <2>5, PoolAssumption DEF PoolInv, Lent
    <2> QED BY <2>4, <2>6 DEF PoolInv
  <1>6. CASE \E r \in Readers : Release(r)
    <2>1. PICK r \in Readers : Release(r)
      BY <1>6
    <2>2. /\ reader[r].at = "reading" /\ available' = available \cup {reader[r].conn}
          /\ reader' = [reader EXCEPT ![r] = [at |-> "out", conn |-> NoConn]]
      BY <2>1 DEF Release
    <2>3. \A q \in Readers :
            reader'[q] = IF q = r THEN [at |-> "out", conn |-> NoConn] ELSE reader[q]
      BY <1>2, <2>2
    <2>4. reader[r].conn \in Conns /\ reader[r].conn # NoConn /\ reader[r].conn \notin available
      BY <1>1, <1>2, <2>2 DEF PoolInv, Lent
    <2>5. PoolTypeOK'
      BY <1>1, <1>2, <2>1, <2>2, <2>4 DEF Release, PoolInv, PoolTypeOK
    <2>6. \A q \in Readers : q # r => reader[q].conn # reader[r].conn
      BY <1>1, <2>4 DEF PoolInv, Lent
    <2>7. \A q \in Readers : reader'[q].at = "reading" <=> reader'[q].conn # NoConn
      BY <1>1, <2>3 DEF PoolInv, Lent
    <2>8. \A c \in Conns : c \in available' \/ \E q \in Readers : reader'[q].conn = c
      <3>1. SUFFICES ASSUME NEW c \in Conns, c \notin available'
                     PROVE  \E q \in Readers : reader'[q].conn = c
        OBVIOUS
      <3>2. c \notin available /\ c # reader[r].conn
        BY <2>2, <3>1
      <3>3. PICK q \in Readers : reader[q].conn = c
        BY <1>1, <3>2 DEF PoolInv, Lent
      <3> QED BY <2>3, <3>2, <3>3
    <2>9. \A q \in Readers : reader'[q].conn \notin available'
      BY <1>1, <1>2, <2>2, <2>3, <2>4, <2>6, PoolAssumption DEF PoolInv, Lent
    <2>10. \A p, q \in Readers :
            reader'[p].conn = reader'[q].conn /\ reader'[p].conn # NoConn => p = q
      BY <1>1, <2>3 DEF PoolInv, Lent
    <2>11. Lent'
      BY <2>7, <2>8, <2>9, <2>10 DEF Lent
    <2> QED BY <2>5, <2>11 DEF PoolInv
  <1>7. CASE UNCHANGED poolVars
    BY <1>1, <1>7 DEF poolVars, PoolInv, PoolTypeOK, Lent
  <1> QED BY <1>1, <1>3, <1>4, <1>5, <1>6, <1>7 DEF PoolNext, ReaderStep

LEMMA PoolInvariant == PoolInit /\ [][PoolNext]_poolVars => []PoolInv
  BY PoolInitInv, PoolStepInv, PTL

LEMMA LentComesBack == PoolInv => ConnsComeBack
  <1>1. SUFFICES ASSUME PoolInv, available = {}, NEW r \in Readers
                 PROVE  \E q \in Readers : reader[q].at = "reading"
    BY DEF ConnsComeBack
  <1>2. PICK c \in Conns : TRUE
    BY PoolAssumption
  <1>3. PICK q \in Readers : reader[q].conn = c
    BY <1>1, <1>2 DEF PoolInv, Lent
  <1> QED BY <1>1, <1>3, PoolAssumption DEF PoolInv, Lent

\* A search waits only while connections are in the queue or with a thread that brings its own
\* back, for every size of the pool and number of threads, before and after close().
THEOREM SearchesWaitForLenders == PoolSpec => []ConnsComeBack
  BY LentComesBack, PoolInvariant, PTL DEF PoolSpec

----------------------------------------------------------------------------
(* `trelix watch-all`.  The hash is kept before the file is indexed, and   *)
(* the set at hand was collected before the files are read: what makes up  *)
(* for both is that a file that changes again is in the next set.          *)

WaitingFor(f) == \E w \in waiting : w.file = f
TakenFor(f) == \E c \in changes : c.file = f
LastChange(f) == [type |-> IF trees[f] = NoDigest THEN "deleted" ELSE "modified", file |-> f]

\* The next set holds the last change of every file it holds one of.
LatestWaits == \A f \in RepoFiles : WaitingFor(f) => LastChange(f) \in waiting

\* What is left of a set is of the kind the tree shows, unless the set was crossed or the file
\* has changed again.
TakenTells ==
  \A c \in changes : c.file \notin crossed /\ ~WaitingFor(c.file) =>
    (c.type = "deleted" <=> trees[c.file] = NoDigest)

\* A file that goes before index_file() has read it is on its way to the next set.
GoneWaits == indexing # NoDigest /\ trees[indexing] = NoDigest => WaitingFor(indexing)

\* The hash that is kept is that of the rows, or a deletion is still to come.
HashOfRows ==
  \A f \in RepoFiles \ (gaveUp \cup between) :
    indexing # f =>
      hashes[f] = repoRows[f] \/ [type |-> "deleted", file |-> f] \in waiting \cup changes

\* A file that nothing is going to handle has the rows of its content, save for the files the
\* loop has lost track of (the same as in IndexesFollowTrees).
SettledTreesIndexed ==
  \A f \in RepoFiles \ (crossed \cup gaveUp \cup between) :
    WaitingFor(f) \/ TakenFor(f) \/ indexing = f \/ repoRows[f] = trees[f]

MultiInv ==
  /\ MultiTypeOK
  /\ LatestWaits /\ TakenTells /\ GoneWaits /\ HashOfRows /\ SettledTreesIndexed

LEMMA MultiInitInv == MultiInit => MultiInv
  <1>1. SUFFICES ASSUME MultiInit PROVE MultiInv
    OBVIOUS
  <1>2. MultiTypeOK
    BY <1>1, MultiAssumption DEF MultiInit, MultiTypeOK
  <1>3. LatestWaits /\ TakenTells /\ GoneWaits
    BY <1>1 DEF MultiInit, LatestWaits, TakenTells, GoneWaits, WaitingFor
  <1>4. HashOfRows /\ SettledTreesIndexed
    BY <1>1 DEF MultiInit, HashOfRows, SettledTreesIndexed
  <1> QED BY <1>2, <1>3, <1>4 DEF MultiInv

LEMMA WriteTreeInv ==
  ASSUME MultiInv, NEW f \in RepoFiles, NEW d \in Digests \cup {NoDigest}, WriteTree(f, d)
  PROVE  MultiInv'
  <1> DEFINE new == [type |-> IF d = NoDigest THEN "deleted" ELSE "modified", file |-> f]
  <1>1. /\ trees \in [RepoFiles -> Digests \cup {NoDigest}] /\ writes \in 0 .. MaxWrites
        /\ waiting \subseteq Change /\ new \in Change /\ new.file = f
    BY DEF MultiInv, MultiTypeOK, Change
  <1>2. /\ trees' = [trees EXCEPT ![f] = d] /\ waiting' = waiting \cup {new}
        /\ UNCHANGED <<repoRows, changes, hashes, indexing, crossed, gaveUp, between>>
    BY DEF WriteTree
  <1>3. \A g \in RepoFiles : trees'[g] = IF g = f THEN d ELSE trees[g]
    BY <1>1, <1>2
  <1>4. WaitingFor(f)' /\ \A g \in RepoFiles \ {f} : WaitingFor(g)' <=> WaitingFor(g)
    BY <1>1, <1>2 DEF WaitingFor
  <1> HIDE DEF new
  <1>5. MultiTypeOK'
    BY <1>1, <1>2, MultiAssumption DEF WriteTree, MultiInv, MultiTypeOK
  <1>6. LatestWaits'
    <2>1. SUFFICES ASSUME NEW g \in RepoFiles, WaitingFor(g)' PROVE LastChange(g)' \in waiting'
      BY DEF LatestWaits
    <2>2. CASE g = f
      BY <1>2, <1>3, <2>2 DEF LastChange, new
    <2>3. CASE g # f
      <3>1. LastChange(g)' = LastChange(g)
        BY <1>3, <2>3 DEF LastChange
      <3> QED BY <1>2, <1>4, <2>1, <2>3, <3>1 DEF MultiInv, LatestWaits
    <2> QED BY <2>2, <2>3
  <1>7. TakenTells'
    <2>1. SUFFICES ASSUME NEW c \in changes, c.file \notin crossed, ~WaitingFor(c.file)'
                   PROVE  c.type = "deleted" <=> trees'[c.file] = NoDigest
      BY <1>2 DEF TakenTells
    <2>2. c.file \in RepoFiles /\ c.file # f
      BY <1>4, <2>1 DEF MultiInv, MultiTypeOK, Change
    <2>3. ~WaitingFor(c.file) /\ trees'[c.file] = trees[c.file]
      BY <1>3, <1>4, <2>1, <2>2
    <2> QED BY <2>1, <2>3 DEF MultiInv, TakenTells
  <1>8. GoneWaits'
    <2>1. SUFFICES ASSUME indexing # NoDigest, trees'[indexing] = NoDigest
                   PROVE  WaitingFor(indexing)'
      BY <1>2 DEF GoneWaits
    <2>2. indexing \in RepoFiles
      BY <2>1 DEF MultiInv, MultiTypeOK
    <2>3. CASE indexing = f
      BY <1>2, <1>4, <2>3 DEF WaitingFor
    <2>4. CASE indexing # f
      <3>1. WaitingFor(indexing)
        BY <1>3, <2>1, <2>2, <2>4 DEF MultiInv, GoneWaits
      <3> QED BY <1>2, <3>1 DEF WaitingFor
    <2> QED BY <2>3, <2>4
  <1>9. HashOfRows'
    BY <1>2 DEF MultiInv, HashOfRows
  <1>10. SettledTreesIndexed'
    <2>1. SUFFICES ASSUME NEW g \in RepoFiles \ (crossed \cup gaveUp \cup between),
                          ~WaitingFor(g)', ~TakenFor(g)', indexing # g
                   PROVE  repoRows[g] = trees'[g]
      BY <1>2 DEF SettledTreesIndexed
    <2>2. g # f /\ ~WaitingFor(g) /\ ~TakenFor(g)
      BY <1>2, <1>4, <2>1 DEF TakenFor
    <2> QED BY <1>3, <2>1, <2>2 DEF MultiInv, SettledTreesIndexed
  <1> QED BY <1>5, <1>6, <1>7, <1>8, <1>9, <1>10 DEF MultiInv

LEMMA TakeChangesInv ==
  ASSUME MultiInv, TakeChanges
  PROVE  MultiInv'
  <1>1. /\ changes = {} /\ indexing = NoDigest /\ changes' = waiting /\ waiting' = {}
        /\ crossed' = (crossed \ {c.file : c \in waiting}) \cup
             {c.file : c \in {d \in waiting :
                                \E e \in waiting : e.file = d.file /\ e.type # d.type}}
        /\ UNCHANGED <<trees, repoRows, hashes, indexing, gaveUp, between, writes, repoErrors>>
    BY DEF TakeChanges
  <1>2. \A c \in waiting : c.file \in RepoFiles /\ c.type \in {"modified", "deleted"}
    BY DEF MultiInv, MultiTypeOK, Change
  <1>3. MultiTypeOK'
    BY <1>1, <1>2 DEF MultiInv, MultiTypeOK
  <1>4. /\ \A f : ~WaitingFor(f)'
        /\ \A f : TakenFor(f)' <=> WaitingFor(f)
        /\ \A f : ~TakenFor(f)
        /\ \A f : ~WaitingFor(f) => (f \in crossed' <=> f \in crossed)
    BY <1>1 DEF WaitingFor, TakenFor
  <1>5. LatestWaits' /\ GoneWaits'
    BY <1>1, <1>4 DEF LatestWaits, GoneWaits
  <1>6. TakenTells'
    <2>1. SUFFICES ASSUME NEW c \in waiting, c.file \notin crossed'
                   PROVE  c.type = "deleted" <=> trees[c.file] = NoDigest
      BY <1>1 DEF TakenTells
    <2>2. \A e \in waiting : e.file = c.file => e.type = c.type
      BY <1>1, <2>1
    <2>3. LastChange(c.file) \in waiting
      BY <1>2 DEF MultiInv, LatestWaits, WaitingFor
    <2>4. LastChange(c.file).type = c.type
      BY <2>2, <2>3 DEF LastChange
    <2> QED BY <2>4 DEF LastChange
  <1>7. HashOfRows'
    BY <1>1 DEF MultiInv, HashOfRows
  <1>8. SettledTreesIndexed'
    <2>1. SUFFICES ASSUME NEW f \in RepoFiles \ (crossed' \cup gaveUp \cup between), ~TakenFor(f)'
                   PROVE  repoRows[f] = trees[f]
      BY <1>1 DEF SettledTreesIndexed
    <2>2. f \notin crossed /\ ~WaitingFor(f) /\ ~TakenFor(f) /\ indexing # f
      BY <1>1, <1>4, <2>1, MultiAssumption
    <2> QED BY <2>1, <2>2 DEF MultiInv, SettledTreesIndexed
  <1> QED BY <1>3, <1>5, <1>6, <1>7, <1>8 DEF MultiInv

LEMMA DeletedInv ==
  ASSUME MultiInv, NEW c \in changes, Deleted(c)
  PROVE  MultiInv'
  <1> DEFINE f == c.file
  <1>1. /\ indexing = NoDigest /\ c.type = "deleted" /\ changes' = changes \ {c}
        /\ hashes' = [hashes EXCEPT ![f] = NoDigest]
        /\ RowsDeleted(f)
        /\ UNCHANGED <<trees, waiting, indexing, crossed, writes>>
    BY DEF Deleted
  <1>2. /\ c \in Change /\ f \in RepoFiles /\ c = [type |-> "deleted", file |-> f]
        /\ hashes \in [RepoFiles -> Digests \cup {NoDigest}]
        /\ repoRows \in [RepoFiles -> Digests \cup {NoDigest}]
        /\ repoErrors \in 0 .. MaxRepoErrors
    BY <1>1 DEF MultiInv, MultiTypeOK, Change
  <1> HIDE DEF f
  <1>3. /\ \A g \in RepoFiles : hashes'[g] = IF g = f THEN NoDigest ELSE hashes[g]
        /\ \A g \in RepoFiles : g # f => /\ repoRows'[g] = repoRows[g]
                                         /\ g \in gaveUp' <=> g \in gaveUp
                                         /\ g \in between' <=> g \in between
        /\ f \notin gaveUp' => repoRows'[f] = NoDigest
    <2>1. CASE repoRows' = [repoRows EXCEPT ![f] = NoDigest] /\ gaveUp' = gaveUp \ {f}
               /\ between' = between \ {f}
      BY <1>1, <1>2, <2>1
    <2>2. CASE gaveUp' = gaveUp \cup {f} /\ UNCHANGED <<repoRows, between>>
      BY <1>1, <1>2, <2>2
    <2> QED BY <1>1, <2>1, <2>2 DEF RowsDeleted
  <1>4. MultiTypeOK'
    <2>1. /\ hashes' \in [RepoFiles -> Digests \cup {NoDigest}]
          /\ repoRows' \in [RepoFiles -> Digests \cup {NoDigest}]
          /\ gaveUp' \subseteq RepoFiles /\ between' \subseteq RepoFiles
      BY <1>1, <1>2 DEF RowsDeleted, MultiInv, MultiTypeOK
    <2>2. repoErrors' \in 0 .. MaxRepoErrors
      BY <1>1, <1>2, MultiAssumption DEF RowsDeleted
    <2> QED BY <1>1, <2>1, <2>2 DEF MultiInv, MultiTypeOK
  <1>5. LatestWaits' /\ GoneWaits'
    BY <1>1 DEF MultiInv, LatestWaits, GoneWaits, WaitingFor, LastChange
  <1>6. TakenTells'
    BY <1>1 DEF MultiInv, TakenTells, WaitingFor
  <1>7. HashOfRows'
    <2>1. SUFFICES ASSUME NEW g \in RepoFiles \ (gaveUp' \cup between')
                   PROVE  \/ hashes'[g] = repoRows'[g]
                          \/ [type |-> "deleted", file |-> g] \in waiting \cup changes'
      BY <1>1 DEF HashOfRows
    <2>2. CASE g = f
      BY <1>2, <1>3, <2>1, <2>2
    <2>3. CASE g # f
      <3>1. g \notin gaveUp \cup between /\ indexing # g
        BY <1>1, <1>3, <2>1, <2>3, MultiAssumption
      <3>2. [type |-> "deleted", file |-> g] # c
        BY <1>2, <2>3
      <3> QED BY <1>1, <1>3, <2>3, <3>1, <3>2 DEF MultiInv, HashOfRows
    <2> QED BY <2>2, <2>3
  <1>8. SettledTreesIndexed'
    <2>1. SUFFICES ASSUME NEW g \in RepoFiles \ (crossed \cup gaveUp' \cup between'),
                          ~WaitingFor(g)', ~TakenFor(g)'
                   PROVE  repoRows'[g] = trees[g]
      BY <1>1 DEF SettledTreesIndexed
    <2>2. ~WaitingFor(g)
      BY <1>1, <2>1 DEF WaitingFor
    <2>3. CASE g = f
      <3>1. trees[c.file] = NoDigest
        BY <1>1, <2>1, <2>2, <2>3 DEF MultiInv, TakenTells, f
      <3> QED BY <1>2, <1>3, <2>1, <2>3, <3>1 DEF f
    <2>4. CASE g # f
      <3>1. ~TakenFor(g)
        BY <1>1, <2>1, <2>4 DEF TakenFor, f
      <3>2. g \notin gaveUp \cup between /\ indexing # g
        BY <1>1, <1>3, <2>1, <2>4, MultiAssumption
      <3> QED BY <1>3, <2>1, <2>2, <2>4, <3>1, <3>2 DEF MultiInv, SettledTreesIndexed
    <2> QED BY <2>3, <2>4
  <1> QED BY <1>4, <1>5, <1>6, <1>7, <1>8 DEF MultiInv

LEMMA ModifiedInv ==
  ASSUME MultiInv, NEW c \in changes, Modified(c)
  PROVE  MultiInv'
  <1> DEFINE f == c.file
  <1>1. /\ indexing = NoDigest /\ c.type = "modified" /\ changes' = changes \ {c}
        /\ UNCHANGED <<trees, repoRows, waiting, crossed, gaveUp, between, writes, repoErrors>>
    BY DEF Modified
  <1>2. \/ trees[f] \in {NoDigest, hashes[f]} /\ UNCHANGED <<hashes, indexing>>
        \/ /\ trees[f] \notin {NoDigest, hashes[f]}
           /\ hashes' = [hashes EXCEPT ![f] = trees[f]] /\ indexing' = f
    BY DEF Modified
  <1>3. /\ c \in Change /\ f \in RepoFiles /\ f # NoDigest
        /\ hashes \in [RepoFiles -> Digests \cup {NoDigest}]
        /\ trees \in [RepoFiles -> Digests \cup {NoDigest}]
    BY MultiAssumption DEF MultiInv, MultiTypeOK, Change
  <1>4. \A g \in RepoFiles : g # f => hashes'[g] = hashes[g]
    BY <1>2, <1>3
  <1>5. MultiTypeOK'
    BY <1>1, <1>2, <1>3 DEF MultiInv, MultiTypeOK
  <1>6. LatestWaits' /\ TakenTells'
    BY <1>1 DEF MultiInv, LatestWaits, TakenTells, WaitingFor, LastChange
  <1>7. GoneWaits'
    BY <1>1, <1>2, <1>3 DEF GoneWaits
  <1>8. HashOfRows'
    <2>1. SUFFICES ASSUME NEW g \in RepoFiles \ (gaveUp \cup between), indexing' # g
                   PROVE  \/ hashes'[g] = repoRows[g]
                          \/ [type |-> "deleted", file |-> g] \in waiting \cup changes'
      BY <1>1 DEF HashOfRows
    <2>2. hashes'[g] = hashes[g] /\ indexing # g
      BY <1>1, <1>2, <1>4, <2>1, MultiAssumption
    <2>3. [type |-> "deleted", file |-> g] # c
      BY <1>1
    <2> QED BY <1>1, <2>1, <2>2, <2>3 DEF MultiInv, HashOfRows
  <1>9. SettledTreesIndexed'
    <2>1. SUFFICES ASSUME NEW g \in RepoFiles \ (crossed \cup gaveUp \cup between),
                          ~WaitingFor(g)', ~TakenFor(g)', indexing' # g
                   PROVE  repoRows[g] = trees[g]
      BY <1>1 DEF SettledTreesIndexed
    <2>2. ~WaitingFor(g) /\ indexing # g
      BY <1>1, <2>1, MultiAssumption DEF WaitingFor
    <2>3. CASE g = f
      <3>1. trees[f] # NoDigest
        BY <1>1, <2>1, <2>2, <2>3 DEF MultiInv, TakenTells
      <3>2. trees[f] = hashes[f]
        BY <1>2, <2>1, <2>3, <3>1
      <3>3. \A d \in changes : d.file = f /\ d.type = "deleted" => FALSE
        BY <2>1, <2>2, <2>3, <3>1 DEF MultiInv, TakenTells
      <3>4. [type |-> "deleted", file |-> f] \notin waiting \cup changes
        BY <2>2, <2>3, <3>3 DEF WaitingFor
      <3>5. hashes[g] = repoRows[g] \/ [type |-> "deleted", file |-> g] \in waiting \cup changes
        BY <2>1, <2>2 DEF MultiInv, HashOfRows
      <3> QED BY <2>3, <3>2, <3>4, <3>5
    <2>4. CASE g # f
      <3>1. ~TakenFor(g)
        BY <1>1, <2>1, <2>4 DEF TakenFor
      <3> QED BY <2>1, <2>2, <3>1 DEF MultiInv, SettledTreesIndexed
    <2> QED BY <2>3, <2>4
  <1> QED BY <1>5, <1>6, <1>7, <1>8, <1>9 DEF MultiInv

LEMMA IndexChangedInv ==
  ASSUME MultiInv, IndexChanged
  PROVE  MultiInv'
  <1> DEFINE f == indexing
  <1>1. /\ f # NoDigest /\ indexing' = NoDigest
        /\ UNCHANGED <<trees, waiting, changes, hashes, crossed, writes>>
    BY DEF IndexChanged
  <1>2. \/ /\ trees[f] # NoDigest /\ repoRows' = [repoRows EXCEPT ![f] = trees[f]]
           /\ gaveUp' = IF repoRows[f] = trees[f] THEN gaveUp ELSE gaveUp \ {f}
           /\ between' = IF trees[f] = hashes[f] THEN between \ {f} ELSE between \cup {f}
           /\ UNCHANGED repoErrors
        \/ trees[f] = NoDigest /\ UNCHANGED <<repoRows, gaveUp, between, repoErrors>>
        \/ /\ repoErrors < MaxRepoErrors /\ repoErrors' = repoErrors + 1
           /\ gaveUp' = gaveUp \cup {f}
           /\ \E kept \in {repoRows[f], trees[f]} : repoRows' = [repoRows EXCEPT ![f] = kept]
           /\ UNCHANGED between
    BY DEF IndexChanged
  <1>3. /\ f \in RepoFiles /\ \A g \in RepoFiles : g # NoDigest
        /\ repoRows \in [RepoFiles -> Digests \cup {NoDigest}]
        /\ trees \in [RepoFiles -> Digests \cup {NoDigest}]
        /\ repoErrors \in 0 .. MaxRepoErrors
    BY <1>1, MultiAssumption DEF MultiInv, MultiTypeOK
  <1>4. \A g \in RepoFiles :
          g # f => /\ repoRows'[g] = repoRows[g]
                   /\ g \in gaveUp' <=> g \in gaveUp
                   /\ g \in between' <=> g \in between
    BY <1>2, <1>3
  <1>5. MultiTypeOK'
    <2>1. /\ repoRows' \in [RepoFiles -> Digests \cup {NoDigest}]
          /\ gaveUp' \subseteq RepoFiles /\ between' \subseteq RepoFiles
      BY <1>2, <1>3 DEF MultiInv, MultiTypeOK
    <2>2. repoErrors' \in 0 .. MaxRepoErrors
      BY <1>2, <1>3, MultiAssumption
    <2> QED BY <1>1, <2>1, <2>2 DEF MultiInv, MultiTypeOK
  <1>6. LatestWaits' /\ TakenTells' /\ GoneWaits'
    BY <1>1 DEF MultiInv, LatestWaits, TakenTells, GoneWaits, WaitingFor, LastChange
  <1>7. f \notin gaveUp' \cup between' => trees[f] = NoDigest \/ repoRows'[f] = trees[f]
    BY <1>2, <1>3
  <1>8. f \notin gaveUp' \cup between' => trees[f] = NoDigest \/ trees[f] = hashes[f]
    BY <1>2, <1>3
  <1>9. trees[f] = NoDigest => WaitingFor(f) /\ [type |-> "deleted", file |-> f] \in waiting
    BY <1>1, <1>3 DEF MultiInv, GoneWaits, LatestWaits, LastChange
  <1>10. HashOfRows'
    <2>1. SUFFICES ASSUME NEW g \in RepoFiles \ (gaveUp' \cup between')
                   PROVE  \/ hashes[g] = repoRows'[g]
                          \/ [type |-> "deleted", file |-> g] \in waiting \cup changes
      BY <1>1 DEF HashOfRows
    <2>2. CASE g = f
      BY <1>7, <1>8, <1>9, <2>1, <2>2
    <2>3. CASE g # f
      BY <1>4, <2>1, <2>3 DEF MultiInv, HashOfRows
    <2> QED BY <2>2, <2>3
  <1>11. SettledTreesIndexed'
    <2>1. SUFFICES ASSUME NEW g \in RepoFiles \ (crossed \cup gaveUp' \cup between'),
                          ~WaitingFor(g), ~TakenFor(g)
                   PROVE  repoRows'[g] = trees[g]
      BY <1>1 DEF SettledTreesIndexed, WaitingFor, TakenFor
    <2>2. CASE g = f
      BY <1>7, <1>9, <2>1, <2>2
    <2>3. CASE g # f
      BY <1>4, <2>1, <2>3 DEF MultiInv, SettledTreesIndexed
    <2> QED BY <2>2, <2>3
  <1> QED BY <1>5, <1>6, <1>10, <1>11 DEF MultiInv

LEMMA MultiStepInv == MultiInv /\ [MultiNext]_multiVars => MultiInv'
  <1>1. SUFFICES ASSUME MultiInv, [MultiNext]_multiVars PROVE MultiInv'
    OBVIOUS
  <1>2. CASE \E f \in RepoFiles : \E d \in Digests \cup {NoDigest} : WriteTree(f, d)
    BY <1>1, <1>2, WriteTreeInv
  <1>3. CASE TakeChanges
    BY <1>1, <1>3, TakeChangesInv
  <1>4. CASE IndexChanged
    BY <1>1, <1>4, IndexChangedInv
  <1>5. CASE \E c \in changes : Deleted(c)
    BY <1>1, <1>5, DeletedInv
  <1>6. CASE \E c \in changes : Modified(c)
    BY <1>1, <1>6, ModifiedInv
  <1>7. CASE UNCHANGED multiVars
    BY <1>1, <1>7 DEF multiVars, MultiInv, MultiTypeOK, LatestWaits, TakenTells, GoneWaits,
                      HashOfRows, SettledTreesIndexed, WaitingFor, TakenFor, LastChange
  <1> QED BY <1>1, <1>2, <1>3, <1>4, <1>5, <1>6, <1>7 DEF MultiNext, LoopStep

LEMMA MultiInvariant == MultiInit /\ [][MultiNext]_multiVars => []MultiInv
  BY MultiInitInv, MultiStepInv, PTL

\* `trelix watch-all` owes nothing it does not know of: a file whose rows are behind its content
\* has a change to come, is in the set at hand or is being indexed, save for the files
\* IndexesFollowTrees excepts.
THEOREM SettledTreesAreIndexed == MultiSpec => []SettledTreesIndexed
  <1>1. MultiInv => SettledTreesIndexed
    BY DEF MultiInv
  <1> QED BY <1>1, MultiInvariant, PTL DEF MultiSpec

----------------------------------------------------------------------------
(* `trelix watch`.  The last event of a file is of the kind the tree       *)
(* shows; the newest timer has the file's generation and is cancelled only *)
(* by a deletion that is still to be carried out; a callback that is about *)
(* to write something old has something after it.                          *)

EventOf(f) == \E i \in 1 .. Len(events) : events[i].file = f
IsLast(i)  == \A j \in i + 1 .. Len(events) : events[j].file # events[i].file

\* A timer that _do_reindex() will not turn away: it has the file's generation.
LiveTimer(f) == \E t \in armed \cup fired : t.file = f /\ t.gen = generations[f]
Mine(f) == {c \in callbacks : c.file = f}

\* The file will be read again from the beginning.
Coming(f) == LiveTimer(f) \/ \E c \in Mine(f) : c.at = "filter"

\* Something will handle the file as it is now.
Busy(f) ==
  \/ EventOf(f) \/ deleting = f \/ Coming(f)
  \/ \E c \in Mine(f) : c.at = "read" \/ (c.at = "write" /\ c.got = bytes[f])

\* The last of a file's events is of the kind the tree shows.
LastEventTells(f) ==
  \A i \in 1 .. Len(events) :
    events[i].file = f /\ IsLast(i) => (events[i].type = "deleted" <=> bytes[f] = Absent)

\* One callback at a time is past the filter.
OneWorks(f) == \A c, d \in Mine(f) : c.at # "filter" /\ d.at # "filter" => c = d

\* A file that is gone has no rows, unless they could not be removed, and nobody about to write
\* any, or its deletion is to come;
\* one that is back since its deletion was taken up has an event to come.
GoneIsTold(f) ==
  bytes[f] = Absent =>
    \/ EventOf(f) \/ deleting = f
    \/ (indexed[f] = Absent \/ f \in failed) /\ \A c \in Mine(f) : c.at # "write"
BackIsTold(f) == deleting = f /\ bytes[f] # Absent => EventOf(f)

\* What a callback is about to write is what the file holds, or something comes after it.
OldIsRedone(f) ==
  \A c \in Mine(f) : c.at = "write" /\ c.got # bytes[f] => EventOf(f) \/ deleting = f \/ Coming(f)

WrittenOrBusy(f) == bytes[f] # Absent /\ f \notin failed => Busy(f) \/ indexed[f] = bytes[f]

Tracked(f) ==
  /\ LastEventTells(f) /\ OneWorks(f) /\ GoneIsTold(f) /\ BackIsTold(f)
  /\ OldIsRedone(f) /\ WrittenOrBusy(f)

\* What does not depend on the callbacks, and so outlives an overlap of two threads.
Announced(f) == LastEventTells(f) /\ BackIsTold(f)

GotSome == \A c \in callbacks : c.at = "write" => c.got # Absent
AllAnnounced == watching = "on" => \A f \in WatchedFiles \ unseen : Announced(f)
AllTracked == watching = "on" => \A f \in WatchedFiles \ (overlapped \cup unseen) : Tracked(f)

WatcherInv == WatcherTypeOK /\ GotSome /\ AllAnnounced /\ AllTracked

\* While the watcher runs, a file that nothing is going to handle has the rows of its content,
\* save for the files the watcher has lost track of (the same as in IndexFollowsTree).
SettledFilesIndexed ==
  watching = "on" =>
    \A f \in WatchedFiles \ (overlapped \cup unseen \cup failed) :
      Busy(f) \/ indexed[f] = bytes[f]

LEMMA WatcherInitInv == WatcherInit => WatcherInv
  <1>1. SUFFICES ASSUME WatcherInit PROVE WatcherInv
    OBVIOUS
  <1>2. WatcherTypeOK
    BY <1>1, WatchAssumption DEF WatcherInit, WatcherTypeOK
  <1>3. GotSome
    BY <1>1 DEF WatcherInit, GotSome
  <1>4. Len(events) = 0 /\ callbacks = {} /\ deleting = Absent /\ indexed = bytes
    BY <1>1 DEF WatcherInit
  <1>5. ASSUME NEW f \in WatchedFiles PROVE Tracked(f)
    <2>1. indexed[f] = bytes[f] /\ bytes[f] = Absent /\ deleting # f /\ Mine(f) = {}
      BY <1>1, <1>4, WatchAssumption DEF WatcherInit, Mine
    <2>2. LastEventTells(f)
      BY <1>4 DEF LastEventTells
    <2> QED BY <2>1, <2>2 DEF Tracked, OneWorks, GoneIsTold, BackIsTold, OldIsRedone, WrittenOrBusy
  <1> QED BY <1>2, <1>3, <1>5 DEF WatcherInv, AllAnnounced, Announced, AllTracked, Tracked

\* Types.

LEMMA QueueTypes ==
  ASSUME WatcherTypeOK
  PROVE  /\ events \in Seq([type : {"changed", "deleted"}, file : WatchedFiles])
         /\ Len(events) \in Nat
         /\ \A i \in 1 .. Len(events) : /\ events[i].file \in WatchedFiles
                                        /\ events[i].type \in {"changed", "deleted"}
         /\ events # << >> =>
              /\ Len(events) >= 1 /\ Head(events) = events[1]
              /\ Tail(events) \in Seq([type : {"changed", "deleted"}, file : WatchedFiles])
              /\ Len(Tail(events)) = Len(events) - 1
              /\ \A i \in 1 .. Len(Tail(events)) : Tail(events)[i] = events[i + 1]
  <1> DEFINE E == [type : {"changed", "deleted"}, file : WatchedFiles]
  <1>1. events \in Seq(E)
    BY DEF WatcherTypeOK
  <1>2. \A e \in E : e.file \in WatchedFiles /\ e.type \in {"changed", "deleted"}
    OBVIOUS
  <1> HIDE DEF E
  <1>3. Len(events) \in Nat /\ \A i \in 1 .. Len(events) : events[i] \in E
    BY <1>1, LenProperties, ElementOfSeq
  <1>4. events # << >> =>
          /\ Len(events) >= 1 /\ Head(events) = events[1]
          /\ Tail(events) \in Seq(E) /\ Len(Tail(events)) = Len(events) - 1
          /\ \A i \in 1 .. Len(Tail(events)) : Tail(events)[i] = events[i + 1]
    BY <1>1, <1>3, HeadTailProperties, EmptySeq
  <1> QED BY <1>1, <1>2, <1>3, <1>4 DEF E

LEMMA TreeTypes ==
  ASSUME WatcherTypeOK, (\E f \in WatchedFiles : \E c \in FileBytes \cup {Absent} : Touch(f, c))
                        \/ (\E f, g \in WatchedFiles : Move(f, g))
  PROVE  WatcherTypeOK'
  <1>1. CASE \E f \in WatchedFiles : \E c \in FileBytes \cup {Absent} : Touch(f, c)
    <2>1. PICK f \in WatchedFiles : \E c \in FileBytes \cup {Absent} : Touch(f, c)
      BY <1>1
    <2>2. PICK c \in FileBytes \cup {Absent} : Touch(f, c)
      BY <2>1
    <2>3. events' \in Seq([type : {"changed", "deleted"}, file : WatchedFiles])
      <3> DEFINE E == [type : {"changed", "deleted"}, file : WatchedFiles]
                 e == [type |-> IF c = Absent THEN "deleted" ELSE "changed", file |-> f]
      <3>1. e \in E /\ events \in Seq(E) /\ events' \in {events, Append(events, e)}
        BY <2>2 DEF Touch, Tell, WatcherTypeOK
      <3> HIDE DEF E, e
      <3>2. Append(events, e) \in Seq(E)
        BY <3>1, AppendProperties
      <3> QED BY <3>1, <3>2 DEF E
    <2> QED BY <2>2, <2>3, WatchAssumption DEF Touch, WatcherTypeOK, timerVars
  <1>2. CASE \E f, g \in WatchedFiles : Move(f, g)
    <2>1. PICK f \in WatchedFiles : \E g \in WatchedFiles : Move(f, g)
      BY <1>2
    <2>2. PICK g \in WatchedFiles : Move(f, g)
      BY <2>1
    <2>3. bytes' \in [WatchedFiles -> FileBytes \cup {Absent}]
      BY <2>2 DEF Move, WatcherTypeOK
    <2>4. touches' \in 0 .. MaxTouches
      BY <2>2, WatchAssumption DEF Move, WatcherTypeOK
    <2> QED BY <2>2, <2>3, <2>4 DEF Move, WatcherTypeOK, timerVars
  <1> QED BY <1>1, <1>2

LEMMA ObserverTypes ==
  ASSUME WatcherTypeOK, HandleChanged \/ HandleDeleted \/ DeleteRows
  PROVE  WatcherTypeOK'
  <1>1. CASE HandleChanged
    <2> DEFINE f == Head(events).file
    <2>1. /\ f \in WatchedFiles
          /\ events' \in Seq([type : {"changed", "deleted"}, file : WatchedFiles])
      BY <1>1, QueueTypes DEF HandleChanged
    <2> HIDE DEF f
    <2>2. Schedule(f)
      BY <1>1 DEF HandleChanged, f
    <2>3. generations[f] + 1 \in Nat
      BY <2>1 DEF WatcherTypeOK
    <2>4. /\ generations' \in [WatchedFiles -> Nat] /\ timers' \in [WatchedFiles -> Nat]
          /\ armed' \subseteq Timer
      BY <2>1, <2>2, <2>3 DEF Schedule, WatcherTypeOK, Timer
    <2> QED BY <1>1, <2>1, <2>4 DEF HandleChanged, WatcherTypeOK
  <1>2. CASE HandleDeleted
    <2> DEFINE f == Head(events).file
    <2>1. /\ f \in WatchedFiles
          /\ events' \in Seq([type : {"changed", "deleted"}, file : WatchedFiles])
      BY <1>2, QueueTypes DEF HandleDeleted
    <2> HIDE DEF f
    <2>2. /\ armed' = armed \ {[file |-> f, gen |-> timers[f]]}
          /\ timers' = [timers EXCEPT ![f] = 0] /\ deleting' = f
      BY <1>2 DEF HandleDeleted, f
    <2> QED BY <1>2, <2>1, <2>2 DEF HandleDeleted, WatcherTypeOK
  <1>3. CASE DeleteRows
    <2>1. indexed' \in [WatchedFiles -> FileBytes \cup {Absent}]
      BY <1>3 DEF DeleteRows, WatcherTypeOK
    <2>2. indexErrors' \in 0 .. MaxIndexErrors
      BY <1>3, WatchAssumption DEF DeleteRows, WatcherTypeOK
    <2> QED BY <1>3, <2>1, <2>2 DEF DeleteRows, WatcherTypeOK, timerVars
  <1> QED BY <1>1, <1>2, <1>3

LEMMA TimerTypes ==
  ASSUME WatcherTypeOK, TimerStep
  PROVE  WatcherTypeOK'
  <1>1. CASE \E t \in armed : Fire(t)
    BY <1>1 DEF Fire, WatcherTypeOK
  <1>2. CASE \E t \in fired : CheckGeneration(t)
    <2>1. PICK t \in fired : CheckGeneration(t)
      BY <1>2
    <2>2. t.file \in WatchedFiles /\ t.gen \in Nat
      BY DEF WatcherTypeOK, Timer
    <2>3. [file |-> t.file, gen |-> t.gen, at |-> "filter", got |-> Absent] \in Callback
      BY <2>2 DEF Callback
    <2>4. callbacks' \subseteq Callback
      <3> DEFINE c == [file |-> t.file, gen |-> t.gen, at |-> "filter", got |-> Absent]
      <3>1. c \in Callback /\ callbacks \subseteq Callback
        BY <2>3 DEF WatcherTypeOK
      <3>2. callbacks' = callbacks \/ callbacks' = callbacks \cup {c}
        BY <2>1 DEF CheckGeneration
      <3> HIDE DEF c
      <3> QED BY <3>1, <3>2
    <2>5. timers' \in [WatchedFiles -> Nat] /\ fired' \subseteq Timer
      <3>1. timers' = timers \/ timers' = [timers EXCEPT ![t.file] = 0]
        BY <2>1 DEF CheckGeneration
      <3>2. fired' \subseteq fired /\ fired \subseteq Timer /\ timers \in [WatchedFiles -> Nat]
        BY <2>1 DEF CheckGeneration, WatcherTypeOK
      <3>3. timers' \in [WatchedFiles -> Nat]
        BY <2>2, <3>1, <3>2
      <3> QED BY <3>2, <3>3
    <2> QED BY <2>1, <2>4, <2>5 DEF CheckGeneration, WatcherTypeOK
  <1>3. ASSUME NEW c \in callbacks, Filter(c) \/ ReadBytes(c) \/ WriteRows(c)
        PROVE  WatcherTypeOK'
    <2>1. /\ c \in Callback /\ c.file \in WatchedFiles /\ c.got \in FileBytes \cup {Absent}
          /\ bytes[c.file] \in FileBytes \cup {Absent}
      BY DEF WatcherTypeOK, Callback
    <2>2. \A at \in {"read", "write"}, got \in FileBytes \cup {Absent} :
            [c EXCEPT !.at = at, !.got = got] \in Callback
      BY <2>1 DEF Callback
    <2>3. callbacks' \subseteq Callback
      <3>1. callbacks \subseteq Callback
        BY DEF WatcherTypeOK
      <3> QED BY <1>3, <2>1, <2>2, <3>1 DEF Filter, ReadBytes, WriteRows, EndCallback, Advance
    <2>4. CASE Filter(c) \/ ReadBytes(c)
      BY <2>3, <2>4 DEF Filter, ReadBytes, WatcherTypeOK, timerVars
    <2>5. CASE WriteRows(c)
      <3>1. indexed' \in [WatchedFiles -> FileBytes \cup {Absent}]
        BY <2>1, <2>5 DEF WriteRows, WatcherTypeOK
      <3>2. indexErrors' \in 0 .. MaxIndexErrors
        BY <2>5, WatchAssumption DEF WriteRows, WatcherTypeOK
      <3> QED BY <2>3, <2>5, <3>1, <3>2 DEF WriteRows, WatcherTypeOK, timerVars
    <2> QED BY <1>3, <2>4, <2>5
  <1> QED BY <1>1, <1>2, <1>3 DEF TimerStep

LEMMA WatcherTypesStep == WatcherTypeOK /\ [WatcherNext]_watchVars => WatcherTypeOK'
  <1>1. SUFFICES ASSUME WatcherTypeOK, [WatcherNext]_watchVars PROVE WatcherTypeOK'
    OBVIOUS
  <1>2. CASE StopTimers
    BY <1>1, <1>2 DEF StopTimers, WatcherTypeOK
  <1>3. CASE StopObserver
    <2>1. events' \in Seq([type : {"changed", "deleted"}, file : WatchedFiles])
      BY <1>3 DEF StopObserver
    <2> QED BY <1>1, <1>3, <2>1 DEF StopObserver, WatcherTypeOK, timerVars
  <1>4. CASE UNCHANGED watchVars
    BY <1>1, <1>4 DEF watchVars, WatcherTypeOK
  <1> QED
    BY <1>1, <1>2, <1>3, <1>4, TreeTypes, ObserverTypes, TimerTypes DEF WatcherNext, ObserverStep

\* What a step does to the files it is not about.

SameWork(f) ==
  /\ EventOf(f)' <=> EventOf(f)
  /\ deleting' = f <=> deleting = f
  /\ LiveTimer(f)' <=> LiveTimer(f)
  /\ Mine(f)' = Mine(f)
  /\ bytes'[f] = bytes[f] /\ indexed'[f] = indexed[f]
  /\ f \in failed' <=> f \in failed

LEMMA SameKept ==
  ASSUME NEW f, Tracked(f), SameWork(f), LastEventTells(f)'
  PROVE  Tracked(f)'
  <1>1. OneWorks(f)'
    BY DEF Tracked, SameWork, OneWorks
  <1>2. GoneIsTold(f)' /\ BackIsTold(f)'
    BY DEF Tracked, SameWork, GoneIsTold, BackIsTold
  <1>3. Coming(f)' <=> Coming(f)
    BY DEF SameWork, Coming
  <1>4. OldIsRedone(f)'
    BY <1>3 DEF Tracked, SameWork, OldIsRedone
  <1>5. Busy(f)' <=> Busy(f)
    BY <1>3 DEF SameWork, Busy
  <1>6. WrittenOrBusy(f)'
    BY <1>5 DEF Tracked, SameWork, WrittenOrBusy
  <1> QED BY <1>1, <1>2, <1>4, <1>6 DEF Tracked

LEMMA EventsAlone ==
  ASSUME events' = events, NEW f, bytes'[f] = bytes[f]
  PROVE  /\ LastEventTells(f) => LastEventTells(f)'
         /\ EventOf(f)' <=> EventOf(f)
  BY DEF LastEventTells, EventOf, IsLast

\* Taking the first event: the last one stays the last, and if it was of the wrong kind there
\* is another.
LEMMA EventTaken ==
  ASSUME WatcherTypeOK, events # << >>, events' = Tail(events), bytes' = bytes, NEW f,
         LastEventTells(f)
  PROVE  /\ LastEventTells(f)'
         /\ Head(events).file # f => (EventOf(f)' <=> EventOf(f))
         /\ /\ Head(events).file = f
            /\ (Head(events).type = "deleted") # (bytes[f] = Absent)
            => EventOf(f)'
  <1>1. /\ Len(events) \in Nat /\ Len(events) >= 1 /\ Head(events) = events[1]
        /\ Len(events') = Len(events) - 1
        /\ \A i \in 1 .. Len(events) - 1 : events'[i] = events[i + 1]
    BY QueueTypes
  <1>2. LastEventTells(f)'
    <2>1. SUFFICES ASSUME NEW i \in 1 .. Len(events) - 1, events'[i].file = f,
                          \A j \in i + 1 .. Len(events) - 1 : events'[j].file # events'[i].file
                   PROVE  events'[i].type = "deleted" <=> bytes[f] = Absent
      BY <1>1 DEF LastEventTells, IsLast
    <2>2. i + 1 \in 1 .. Len(events) /\ events[i + 1] = events'[i]
      BY <1>1
    <2>3. IsLast(i + 1)
      <3>1. SUFFICES ASSUME NEW k \in (i + 1) + 1 .. Len(events)
                     PROVE  events[k].file # events[i + 1].file
        BY DEF IsLast
      <3>2. k - 1 \in i + 1 .. Len(events) - 1 /\ k - 1 \in 1 .. Len(events) - 1
            /\ (k - 1) + 1 = k
        BY <1>1
      <3>3. events'[k - 1] = events[k]
        BY <1>1, <3>2
      <3> QED BY <2>1, <2>2, <3>2, <3>3
    <2> QED BY <2>1, <2>2, <2>3 DEF LastEventTells
  <1>3. ASSUME NEW j \in 2 .. Len(events), events[j].file = f PROVE EventOf(f)'
    <2>1. j - 1 \in 1 .. Len(events) - 1 /\ (j - 1) + 1 = j
      BY <1>1
    <2>2. events'[j - 1].file = f
      BY <1>1, <1>3, <2>1
    <2> QED BY <1>1, <2>1, <2>2 DEF EventOf
  <1>4. ASSUME EventOf(f)' PROVE EventOf(f)
    <2>1. PICK i \in 1 .. Len(events) - 1 : events'[i].file = f
      BY <1>1, <1>4 DEF EventOf
    <2>2. i + 1 \in 1 .. Len(events) /\ events[i + 1].file = f
      BY <1>1, <2>1
    <2> QED BY <2>2 DEF EventOf
  <1>5. ASSUME Head(events).file # f, EventOf(f) PROVE EventOf(f)'
    <2>1. PICK i \in 1 .. Len(events) : events[i].file = f
      BY <1>5 DEF EventOf
    <2>2. i \in 2 .. Len(events)
      BY <1>1, <1>5, <2>1
    <2> QED BY <1>3, <2>1, <2>2
  <1>6. ASSUME Head(events).file = f, (Head(events).type = "deleted") # (bytes[f] = Absent)
        PROVE  EventOf(f)'
    <2>1. ~IsLast(1)
      BY <1>1, <1>6 DEF LastEventTells
    <2>2. PICK j \in 2 .. Len(events) : events[j].file = events[1].file
      BY <1>1, <2>1 DEF IsLast
    <2> QED BY <1>1, <1>3, <1>6, <2>2
  <1> QED BY <1>2, <1>4, <1>5, <1>6

\* An event that is added is the last one.
LEMMA EventTold ==
  ASSUME WatcherTypeOK, NEW f \in WatchedFiles, NEW type \in {"changed", "deleted"},
         events' = Append(events, [type |-> type, file |-> f])
  PROVE  /\ EventOf(f)'
         /\ (type = "deleted" <=> bytes'[f] = Absent) => LastEventTells(f)'
         /\ \A g : g # f /\ bytes'[g] = bytes[g] =>
              /\ EventOf(g)' <=> EventOf(g)
              /\ LastEventTells(g) => LastEventTells(g)'
  <1> DEFINE E == [type : {"changed", "deleted"}, file : WatchedFiles]
             e == [type |-> type, file |-> f]
  <1>1. events \in Seq(E) /\ e \in E /\ e.file = f /\ e.type = type
    BY DEF WatcherTypeOK
  <1> HIDE DEF E
  <1>2. /\ Len(events) \in Nat /\ Len(events') = Len(events) + 1
        /\ \A i \in 1 .. Len(events) : events'[i] = events[i]
        /\ events'[Len(events) + 1] = e
    BY <1>1, AppendProperties, LenProperties
  <1> HIDE DEF e
  <1>3. EventOf(f)'
    BY <1>1, <1>2 DEF EventOf
  <1>4. ASSUME type = "deleted" <=> bytes'[f] = Absent PROVE LastEventTells(f)'
    <2>1. SUFFICES ASSUME NEW i \in 1 .. Len(events) + 1, events'[i].file = f,
                          \A j \in i + 1 .. Len(events) + 1 : events'[j].file # events'[i].file
                   PROVE  events'[i].type = "deleted" <=> bytes'[f] = Absent
      BY <1>2 DEF LastEventTells, IsLast
    <2>2. i = Len(events) + 1
      BY <1>1, <1>2, <2>1
    <2> QED BY <1>1, <1>2, <1>4, <2>2
  <1>5. ASSUME NEW g, g # f, bytes'[g] = bytes[g]
        PROVE  /\ EventOf(g)' <=> EventOf(g)
               /\ LastEventTells(g) => LastEventTells(g)'
    <2>1. EventOf(g)' <=> EventOf(g)
      BY <1>1, <1>2, <1>5 DEF EventOf
    <2>2. ASSUME LastEventTells(g) PROVE LastEventTells(g)'
      <3>1. SUFFICES ASSUME NEW i \in 1 .. Len(events) + 1, events'[i].file = g,
                            \A j \in i + 1 .. Len(events) + 1 : events'[j].file # events'[i].file
                     PROVE  events'[i].type = "deleted" <=> bytes[g] = Absent
        BY <1>2, <1>5 DEF LastEventTells, IsLast
      <3>2. i \in 1 .. Len(events) /\ events[i] = events'[i]
        BY <1>1, <1>2, <1>5, <3>1
      <3>3. IsLast(i)
        BY <1>2, <3>1, <3>2 DEF IsLast
      <3> QED BY <2>2, <3>1, <3>2, <3>3 DEF LastEventTells
    <2> QED BY <2>1, <2>2
  <1> QED BY <1>3, <1>4, <1>5

\* The steps.

LEMMA TouchTracked ==
  ASSUME WatcherInv, NEW f \in WatchedFiles, NEW c \in FileBytes \cup {Absent}, Touch(f, c),
         watching = "on", NEW g \in WatchedFiles \ (overlapped \cup unseen)
  PROVE  Tracked(g)'
  <1> DEFINE type == IF c = Absent THEN "deleted" ELSE "changed"
  <1>1. /\ events' = Append(events, [type |-> type, file |-> f])
        /\ bytes' = [bytes EXCEPT ![f] = c]
        /\ UNCHANGED <<indexed, deleting, timers, generations, armed, fired, callbacks, failed>>
    BY DEF Touch, Tell, timerVars, watchGhosts
  <1>2. WatcherTypeOK /\ Tracked(g)
    BY DEF WatcherInv, AllTracked
  <1>3. bytes'[f] = c /\ (g # f => bytes'[g] = bytes[g])
    BY <1>1, <1>2 DEF WatcherTypeOK
  <1>4. type \in {"changed", "deleted"} /\ (type = "deleted" <=> bytes'[f] = Absent)
    BY <1>3
  <1> HIDE DEF type
  <1>5. CASE g = f
    <2>1. EventOf(g)' /\ LastEventTells(g)'
      BY <1>1, <1>2, <1>4, <1>5, EventTold
    <2>2. OneWorks(g)'
      BY <1>1, <1>2 DEF Tracked, OneWorks, Mine
    <2> QED
      BY <2>1, <2>2 DEF Tracked, GoneIsTold, BackIsTold, OldIsRedone, WrittenOrBusy, Busy
  <1>6. CASE g # f
    <2>1. (EventOf(g)' <=> EventOf(g)) /\ LastEventTells(g)'
      <3>1. (EventOf(g)' <=> EventOf(g)) /\ (LastEventTells(g) => LastEventTells(g)')
        BY <1>1, <1>2, <1>3, <1>4, <1>6, EventTold
      <3> QED BY <1>2, <3>1 DEF Tracked
    <2>2. SameWork(g)
      BY <1>1, <1>3, <1>6, <2>1 DEF SameWork, LiveTimer, Mine
    <2> QED BY <1>2, <2>1, <2>2, SameKept
  <1> QED BY <1>5, <1>6

LEMMA HandleChangedTracked ==
  ASSUME WatcherInv, HandleChanged, watching = "on",
         NEW g \in WatchedFiles \ (overlapped \cup unseen)
  PROVE  Tracked(g)'
  <1> DEFINE f == Head(events).file
  <1>1. /\ deleting = Absent /\ events # << >> /\ Head(events).type = "changed"
        /\ events' = Tail(events) /\ Schedule(f)
        /\ UNCHANGED <<bytes, indexed, deleting, fired, callbacks, failed>>
    BY DEF HandleChanged, watchGhosts
  <1>2. WatcherTypeOK /\ Tracked(g) /\ f \in WatchedFiles
    BY <1>1, QueueTypes DEF WatcherInv, AllTracked
  <1>3. /\ LastEventTells(g)'
        /\ f # g => (EventOf(g)' <=> EventOf(g))
        /\ f = g /\ bytes[g] = Absent => EventOf(g)'
    BY <1>1, <1>2, EventTaken DEF Tracked
  <1> HIDE DEF f
  <1>4. g # Absent
    BY WatchAssumption
  <1>5. CASE g = f
    <2>1. LiveTimer(g)'
      <3> DEFINE t == [file |-> f, gen |-> generations[f] + 1]
      <3>1. t \in armed' /\ generations' = [generations EXCEPT ![f] = generations[f] + 1]
        BY <1>1 DEF Schedule
      <3>2. generations'[f] = generations[f] + 1
        BY <1>2, <3>1 DEF WatcherTypeOK
      <3>3. t.file = g /\ t.gen = generations'[g]
        BY <1>5, <3>2
      <3> QED BY <3>1, <3>3 DEF LiveTimer
    <2>2. Coming(g)'
      BY <2>1 DEF Coming
    <2>3. OneWorks(g)'
      BY <1>1, <1>2 DEF Tracked, OneWorks, Mine
    <2>4. GoneIsTold(g)'
      BY <1>1, <1>3, <1>5 DEF GoneIsTold
    <2>5. BackIsTold(g)' /\ OldIsRedone(g)' /\ WrittenOrBusy(g)'
      BY <1>1, <1>4, <2>2 DEF BackIsTold, OldIsRedone, WrittenOrBusy, Busy
    <2> QED BY <1>3, <2>3, <2>4, <2>5 DEF Tracked
  <1>6. CASE g # f
    <2>1. LiveTimer(g)' <=> LiveTimer(g)
      <3>1. generations'[g] = generations[g]
        BY <1>1, <1>2, <1>6 DEF Schedule, WatcherTypeOK
      <3>2. \A t : t.file = g => (t \in armed' \cup fired' <=> t \in armed \cup fired)
        BY <1>1, <1>6 DEF Schedule
      <3> QED BY <3>1, <3>2 DEF LiveTimer
    <2>2. SameWork(g)
      BY <1>1, <1>3, <1>6, <2>1 DEF SameWork, Mine
    <2> QED BY <1>2, <1>3, <2>2, SameKept
  <1> QED BY <1>5, <1>6

LEMMA HandleDeletedTracked ==
  ASSUME WatcherInv, HandleDeleted, watching = "on",
         NEW g \in WatchedFiles \ (overlapped \cup unseen)
  PROVE  Tracked(g)'
  <1> DEFINE f == Head(events).file
  <1>1. /\ deleting = Absent /\ events # << >> /\ Head(events).type = "deleted"
        /\ events' = Tail(events) /\ deleting' = f
        /\ armed' = armed \ {[file |-> f, gen |-> timers[f]]}
        /\ UNCHANGED <<bytes, indexed, generations, fired, callbacks, failed>>
    BY DEF HandleDeleted, watchGhosts
  <1>2. WatcherTypeOK /\ Tracked(g) /\ f \in WatchedFiles
    BY <1>1, QueueTypes DEF WatcherInv, AllTracked
  <1>3. /\ LastEventTells(g)'
        /\ f # g => (EventOf(g)' <=> EventOf(g))
        /\ f = g /\ bytes[g] # Absent => EventOf(g)'
    BY <1>1, <1>2, EventTaken DEF Tracked
  <1> HIDE DEF f
  <1>4. g # Absent
    BY WatchAssumption
  <1>5. CASE g = f
    <2>1. OneWorks(g)'
      BY <1>1, <1>2 DEF Tracked, OneWorks, Mine
    <2>2. BackIsTold(g)'
      BY <1>1, <1>3, <1>5 DEF BackIsTold
    <2>3. GoneIsTold(g)' /\ OldIsRedone(g)' /\ WrittenOrBusy(g)'
      BY <1>1, <1>5 DEF GoneIsTold, OldIsRedone, WrittenOrBusy, Busy
    <2> QED BY <1>3, <2>1, <2>2, <2>3 DEF Tracked
  <1>6. CASE g # f
    <2>1. LiveTimer(g)' <=> LiveTimer(g)
      <3>1. \A t : t.file = g => (t \in armed' \cup fired' <=> t \in armed \cup fired)
        BY <1>1, <1>6
      <3> QED BY <1>1, <3>1 DEF LiveTimer
    <2>2. SameWork(g)
      BY <1>1, <1>3, <1>4, <1>6, <2>1 DEF SameWork, Mine
    <2> QED BY <1>2, <1>3, <2>2, SameKept
  <1> QED BY <1>5, <1>6

LEMMA DeleteRowsTracked ==
  ASSUME WatcherInv, DeleteRows, watching = "on",
         NEW g \in WatchedFiles \ (overlapped' \cup unseen)
  PROVE  Tracked(g)'
  <1> DEFINE f == deleting
  <1>1. /\ f # Absent /\ deleting' = Absent
        /\ UNCHANGED <<bytes, events, timers, generations, armed, fired, callbacks>>
    BY DEF DeleteRows, timerVars
  <1>2. WatcherTypeOK /\ Announced(g) /\ f \in WatchedFiles
    BY <1>1 DEF WatcherInv, AllAnnounced, WatcherTypeOK
  <1>3. LastEventTells(g)' /\ (EventOf(g)' <=> EventOf(g))
    BY <1>1, <1>2, EventsAlone DEF Announced
  <1>4. g # Absent
    BY WatchAssumption
  <1>5. CASE g = f
    <2>1. InCallback(g) = {}
      BY <1>5 DEF DeleteRows
    <2>2. Mine(g)' = Mine(g) /\ \A c \in Mine(g) : c.at = "filter"
      BY <1>1, <2>1 DEF Mine, InCallback
    <2>3. OneWorks(g)' /\ OldIsRedone(g)'
      BY <2>2 DEF OneWorks, OldIsRedone
    <2>4. indexed'[g] = Absent \/ g \in failed'
      BY <1>2, <1>5 DEF DeleteRows, WatcherTypeOK
    <2>5. GoneIsTold(g)' /\ BackIsTold(g)'
      BY <1>1, <1>4, <2>2, <2>4 DEF GoneIsTold, BackIsTold
    <2>6. WrittenOrBusy(g)'
      BY <1>1, <1>2, <1>3, <1>5 DEF Announced, BackIsTold, WrittenOrBusy, Busy
    <2> QED BY <1>3, <2>3, <2>5, <2>6 DEF Tracked
  <1>6. CASE g # f
    <2>1. indexed'[g] = indexed[g] /\ (g \in failed' <=> g \in failed) /\ g \notin overlapped
      BY <1>2, <1>6 DEF DeleteRows, WatcherTypeOK
    <2>2. SameWork(g)
      BY <1>1, <1>3, <1>4, <1>6, <2>1 DEF SameWork, Mine, LiveTimer
    <2>3. Tracked(g)
      BY <2>1 DEF WatcherInv, AllTracked
    <2> QED BY <1>3, <2>2, <2>3, SameKept
  <1> QED BY <1>5, <1>6

LEMMA FireTracked ==
  ASSUME WatcherInv, NEW t \in armed, Fire(t), watching = "on",
         NEW g \in WatchedFiles \ (overlapped \cup unseen)
  PROVE  Tracked(g)'
  <1>1. /\ armed' \cup fired' = armed \cup fired
        /\ UNCHANGED <<bytes, indexed, events, deleting, generations, callbacks, failed>>
    BY DEF Fire, watchGhosts
  <1>2. Tracked(g)
    BY DEF WatcherInv, AllTracked
  <1>3. LastEventTells(g)' /\ (EventOf(g)' <=> EventOf(g))
    BY <1>1, <1>2, EventsAlone DEF Tracked
  <1>4. SameWork(g)
    BY <1>1, <1>3 DEF SameWork, Mine, LiveTimer
  <1> QED BY <1>2, <1>3, <1>4, SameKept

LEMMA CheckGenerationTracked ==
  ASSUME WatcherInv, NEW t \in fired, CheckGeneration(t), watching = "on",
         NEW g \in WatchedFiles \ (overlapped \cup unseen)
  PROVE  Tracked(g)'
  <1> DEFINE c == [file |-> t.file, gen |-> t.gen, at |-> "filter", got |-> Absent]
  <1>1. /\ fired' = fired \ {t}
        /\ UNCHANGED <<bytes, indexed, events, deleting, generations, armed, failed>>
    BY DEF CheckGeneration, watchGhosts
  <1>2. Tracked(g)
    BY DEF WatcherInv, AllTracked
  <1>3. LastEventTells(g)' /\ (EventOf(g)' <=> EventOf(g))
    BY <1>1, <1>2, EventsAlone DEF Tracked
  <1>4. callbacks' = IF generations[t.file] = t.gen THEN callbacks \cup {c} ELSE callbacks
    BY DEF CheckGeneration
  <1>5. CASE g = t.file /\ generations[t.file] = t.gen
    <2>1. c.file = g /\ c.at = "filter"
      BY <1>5
    <2> HIDE DEF c
    <2>2. Mine(g)' = Mine(g) \cup {c}
      BY <1>4, <1>5, <2>1 DEF Mine
    <2>3. Coming(g)'
      BY <2>1, <2>2 DEF Coming
    <2>4. OneWorks(g)'
      BY <1>2, <2>1, <2>2 DEF Tracked, OneWorks
    <2>5. GoneIsTold(g)'
      BY <1>1, <1>2, <1>3, <2>1, <2>2 DEF Tracked, GoneIsTold
    <2>6. BackIsTold(g)' /\ OldIsRedone(g)' /\ WrittenOrBusy(g)'
      BY <1>1, <1>2, <1>3, <2>3 DEF Tracked, BackIsTold, OldIsRedone, WrittenOrBusy, Busy
    <2> QED BY <1>3, <2>4, <2>5, <2>6 DEF Tracked
  <1>6. CASE g # t.file \/ generations[t.file] # t.gen
    <2>1. LiveTimer(g)' <=> LiveTimer(g)
      BY <1>1, <1>6 DEF LiveTimer
    <2>2. Mine(g)' = Mine(g)
      <3>1. c.file = t.file
        OBVIOUS
      <3> HIDE DEF c
      <3> QED BY <1>4, <1>6, <3>1 DEF Mine
    <2>3. SameWork(g)
      BY <1>1, <1>3, <2>1, <2>2 DEF SameWork
    <2> QED BY <1>2, <1>3, <2>3, SameKept
  <1> QED BY <1>5, <1>6

\* What the steps of a callback leave alone.
CallbackStep(c) ==
  /\ UNCHANGED <<bytes, events, deleting, generations, armed, fired>>
  /\ \A g \in WatchedFiles : g # c.file =>
       /\ Mine(g)' = Mine(g) /\ indexed'[g] = indexed[g]
       /\ g \in failed' <=> g \in failed

LEMMA CallbackSteps ==
  ASSUME WatcherTypeOK, NEW c \in callbacks, Filter(c) \/ ReadBytes(c) \/ WriteRows(c)
  PROVE  CallbackStep(c)
  <1>1. /\ c \in Callback /\ c.file \in WatchedFiles
        /\ indexed \in [WatchedFiles -> FileBytes \cup {Absent}]
    BY DEF WatcherTypeOK, Callback
  <1>2. UNCHANGED <<bytes, events, deleting, generations, armed, fired>>
    BY DEF Filter, ReadBytes, WriteRows, timerVars
  <1>3. \A g \in WatchedFiles :
          g # c.file => indexed'[g] = indexed[g] /\ (g \in failed' <=> g \in failed)
    BY <1>1 DEF Filter, ReadBytes, WriteRows, watchGhosts
  <1>4. \A g : g # c.file => Mine(g)' = Mine(g)
    <2>1. CASE callbacks' = callbacks \ {c}
      BY <2>1 DEF Mine
    <2>2. ASSUME NEW d, d.file = c.file, callbacks' = (callbacks \ {c}) \cup {d}
          PROVE  \A g : g # c.file => Mine(g)' = Mine(g)
      BY <2>2 DEF Mine
    <2>3. \A at, got : [c EXCEPT !.at = at, !.got = got].file = c.file
      BY <1>1 DEF Callback
    <2>4. \/ callbacks' = callbacks \ {c}
          \/ \E at, got : callbacks' = (callbacks \ {c}) \cup {[c EXCEPT !.at = at, !.got = got]}
      BY DEF Filter, ReadBytes, WriteRows, EndCallback, Advance
    <2> QED BY <2>1, <2>2, <2>3, <2>4
  <1> QED BY <1>2, <1>3, <1>4 DEF CallbackStep

LEMMA OtherFilesTracked ==
  ASSUME NEW c, CallbackStep(c), NEW g \in WatchedFiles, g # c.file, Tracked(g)
  PROVE  Tracked(g)'
  <1>1. LastEventTells(g)' /\ (EventOf(g)' <=> EventOf(g))
    BY EventsAlone DEF CallbackStep, Tracked
  <1>2. Mine(g)' = Mine(g) /\ indexed'[g] = indexed[g] /\ (g \in failed' <=> g \in failed)
    BY DEF CallbackStep
  <1>3. bytes'[g] = bytes[g] /\ deleting' = deleting
    BY DEF CallbackStep
  <1>4. LiveTimer(g)' <=> LiveTimer(g)
    BY DEF CallbackStep, LiveTimer
  <1>5. SameWork(g)
    BY <1>1, <1>2, <1>3, <1>4 DEF SameWork
  <1> QED BY <1>1, <1>5, SameKept

\* The file the callback is about.
LEMMA CallbackTracked ==
  ASSUME WatcherInv, NEW c \in callbacks, Filter(c) \/ ReadBytes(c) \/ WriteRows(c),
         watching = "on", NEW g \in WatchedFiles \ (overlapped' \cup unseen)
  PROVE  Tracked(g)'
  <1>1. WatcherTypeOK /\ GotSome /\ CallbackStep(c) /\ c \in Callback /\ c.file \in WatchedFiles
    BY CallbackSteps DEF WatcherInv, WatcherTypeOK, Callback
  <1>2. Announced(g) /\ (g \notin overlapped => Tracked(g))
    BY DEF WatcherInv, AllAnnounced, AllTracked
  <1>3. /\ g # c.file \/ ReadBytes(c) \/ WriteRows(c) => g \notin overlapped
        /\ Filter(c) /\ bytes[c.file] = Absent => g \notin overlapped
    BY DEF Filter, ReadBytes, WriteRows, watchGhosts
  <1>4. CASE g # c.file
    BY <1>1, <1>2, <1>3, <1>4, OtherFilesTracked
  <1>5. CASE g = c.file
    <2>1. /\ LastEventTells(g)' /\ (EventOf(g)' <=> EventOf(g)) /\ deleting' = deleting
          /\ (LiveTimer(g)' <=> LiveTimer(g)) /\ bytes' = bytes
      BY <1>1, <1>2, EventsAlone DEF CallbackStep, Announced, LiveTimer
    <2>2. c \in Mine(g) /\ BackIsTold(g)'
      BY <1>2, <1>5, <2>1 DEF Mine, Announced, BackIsTold
    <2>3. CASE Filter(c)
      <3>1. /\ c.at = "filter" /\ indexed' = indexed /\ failed' = failed
            /\ bytes[g] # Absent => InCallback(g) = {}
        BY <1>5, <2>3 DEF Filter
      <3>2. CASE bytes[g] = Absent
        <4>1. Mine(g)' = Mine(g) \ {c}
          BY <1>5, <2>3, <3>2 DEF Filter, EndCallback, Mine
        <4>2. OneWorks(g)' /\ GoneIsTold(g)'
          BY <1>2, <1>3, <1>5, <2>1, <2>3, <3>1, <3>2, <4>1 DEF Tracked, OneWorks, GoneIsTold
        <4>3. OldIsRedone(g)'
          BY <1>2, <1>3, <1>5, <2>1, <2>3, <3>2, <4>1 DEF Tracked, OldIsRedone, GoneIsTold
        <4>4. WrittenOrBusy(g)'
          BY <2>1, <3>2 DEF WrittenOrBusy
        <4> QED BY <2>1, <2>2, <4>2, <4>3, <4>4 DEF Tracked
      <3>3. CASE bytes[g] # Absent
        <4> DEFINE d == [c EXCEPT !.at = "read", !.got = Absent]
        <4>1. d.at = "read" /\ d.file = g
          BY <1>1, <1>5 DEF Callback
        <4>2. callbacks' = (callbacks \ {c}) \cup {d}
          BY <1>5, <2>3, <3>3 DEF Filter, Advance
        <4> HIDE DEF d
        <4>3. Mine(g)' = (Mine(g) \ {c}) \cup {d}
          BY <4>1, <4>2 DEF Mine
        <4>4. \A e \in Mine(g) : e.at = "filter"
          BY <3>1, <3>3 DEF InCallback, Mine
        <4>5. OneWorks(g)' /\ OldIsRedone(g)'
          BY <4>1, <4>3, <4>4 DEF OneWorks, OldIsRedone
        <4>6. GoneIsTold(g)' /\ WrittenOrBusy(g)'
          BY <2>1, <3>3, <4>1, <4>3 DEF GoneIsTold, WrittenOrBusy, Busy
        <4> QED BY <2>1, <2>2, <4>5, <4>6 DEF Tracked
      <3> QED BY <3>2, <3>3
    <2>4. CASE ReadBytes(c)
      <3>0. Tracked(g)
        BY <1>2, <1>3, <2>4
      <3>1. c.at = "read" /\ indexed' = indexed /\ failed' = failed
        BY <2>4 DEF ReadBytes, watchGhosts
      <3>2. \A e \in Mine(g) \ {c} : e.at = "filter"
        BY <3>0, <2>2, <3>1 DEF Tracked, OneWorks
      <3>3. CASE bytes[g] \in {Absent, indexed[g]}
        <4>1. Mine(g)' = Mine(g) \ {c}
          BY <1>5, <2>4, <3>3 DEF ReadBytes, EndCallback, Mine
        <4>2. OneWorks(g)' /\ OldIsRedone(g)'
          BY <3>2, <4>1 DEF OneWorks, OldIsRedone
        <4>3. GoneIsTold(g)'
          BY <3>0, <2>1, <3>1, <4>1 DEF Tracked, GoneIsTold
        <4>4. WrittenOrBusy(g)'
          BY <2>1, <3>1, <3>3 DEF WrittenOrBusy
        <4> QED BY <2>1, <2>2, <4>2, <4>3, <4>4 DEF Tracked
      <3>4. CASE bytes[g] \notin {Absent, indexed[g]}
        <4> DEFINE d == [c EXCEPT !.at = "write", !.got = bytes[c.file]]
        <4>1. d.at = "write" /\ d.got = bytes[g] /\ d.file = g
          BY <1>1, <1>5 DEF Callback
        <4>2. callbacks' = (callbacks \ {c}) \cup {d}
          BY <1>5, <2>4, <3>4 DEF ReadBytes, Advance
        <4> HIDE DEF d
        <4>3. Mine(g)' = (Mine(g) \ {c}) \cup {d}
          BY <4>1, <4>2 DEF Mine
        <4>4. OneWorks(g)' /\ OldIsRedone(g)'
          BY <2>1, <3>2, <4>1, <4>3 DEF OneWorks, OldIsRedone
        <4>5. GoneIsTold(g)' /\ WrittenOrBusy(g)'
          BY <2>1, <3>4, <4>1, <4>3 DEF GoneIsTold, WrittenOrBusy, Busy
        <4> QED BY <2>1, <2>2, <4>4, <4>5 DEF Tracked
      <3> QED BY <3>3, <3>4
    <2>5. CASE WriteRows(c)
      <3>0. Tracked(g)
        BY <1>2, <1>3, <2>5
      <3>1. c.at = "write" /\ callbacks' = callbacks \ {c} /\ c.got # Absent
        BY <1>1, <2>5 DEF WriteRows, EndCallback, GotSome
      <3>2. Mine(g)' = Mine(g) \ {c} /\ (Coming(g)' <=> Coming(g))
        <4>1. Mine(g)' = Mine(g) \ {c}
          BY <3>1 DEF Mine
        <4> QED BY <2>1, <3>1, <4>1 DEF Coming
      <3>3. \A e \in Mine(g) \ {c} : e.at = "filter"
        BY <3>0, <2>2, <3>1 DEF Tracked, OneWorks
      <3>4. OneWorks(g)' /\ OldIsRedone(g)'
        BY <3>2, <3>3 DEF OneWorks, OldIsRedone
      <3>5. GoneIsTold(g)'
        BY <3>0, <2>1, <2>2, <3>1 DEF Tracked, GoneIsTold
      <3>6. WrittenOrBusy(g)'
        <4>1. CASE bytes[g] # c.got
          <5>1. EventOf(g) \/ deleting = g \/ Coming(g)
            BY <3>0, <2>2, <3>1, <4>1 DEF Tracked, OldIsRedone
          <5> QED BY <2>1, <3>2, <5>1 DEF WrittenOrBusy, Busy
        <4>2. CASE bytes[g] = c.got /\ g \notin failed'
          <5>1. indexed' = [indexed EXCEPT ![g] = c.got]
            BY <1>5, <2>5, <4>2 DEF WriteRows
          <5>2. indexed'[g] = bytes'[g]
            BY <1>1, <2>1, <4>2, <5>1 DEF WatcherTypeOK
          <5> QED BY <5>2 DEF WrittenOrBusy
        <4> QED BY <4>1, <4>2 DEF WrittenOrBusy
      <3> QED BY <2>1, <2>2, <3>4, <3>5, <3>6 DEF Tracked
    <2> QED BY <2>3, <2>4, <2>5
  <1> QED BY <1>4, <1>5

LEMMA AnnouncedStep == WatcherInv /\ [WatcherNext]_watchVars => AllAnnounced'
  <1>1. SUFFICES ASSUME WatcherInv, [WatcherNext]_watchVars, watching' = "on",
                        NEW g \in WatchedFiles \ unseen'
                 PROVE  Announced(g)'
    BY DEF AllAnnounced
  <1>2. watching = "on" /\ unseen \subseteq unseen'
    BY <1>1
    DEF WatcherNext, ObserverStep, TimerStep, Touch, Move, HandleChanged, HandleDeleted,
        DeleteRows, Fire, CheckGeneration, Filter, ReadBytes, WriteRows, StopTimers,
        StopObserver, watchGhosts, watchVars
  <1>3. WatcherTypeOK /\ Announced(g) /\ g # Absent
    BY <1>1, <1>2, WatchAssumption DEF WatcherInv, AllAnnounced
  <1>4. ASSUME events' = events, bytes'[g] = bytes[g], deleting' \in {deleting, Absent}
        PROVE  Announced(g)'
    BY <1>3, <1>4, EventsAlone DEF Announced, BackIsTold
  <1>5. ASSUME NEW f \in WatchedFiles, NEW c \in FileBytes \cup {Absent}, Touch(f, c)
        PROVE  Announced(g)'
    <2> DEFINE type == IF c = Absent THEN "deleted" ELSE "changed"
    <2>1. /\ events' = Append(events, [type |-> type, file |-> f])
          /\ bytes' = [bytes EXCEPT ![f] = c] /\ deleting' = deleting
      BY <1>2, <1>5 DEF Touch, Tell
    <2>2. bytes'[f] = c /\ (g # f => bytes'[g] = bytes[g])
      BY <1>3, <2>1 DEF WatcherTypeOK
    <2>3. type \in {"changed", "deleted"} /\ (type = "deleted" <=> bytes'[f] = Absent)
      BY <2>2
    <2> HIDE DEF type
    <2>4. /\ EventOf(f)' /\ LastEventTells(f)'
          /\ g # f => /\ EventOf(g)' <=> EventOf(g)
                      /\ LastEventTells(g) => LastEventTells(g)'
      BY <1>3, <2>1, <2>2, <2>3, EventTold
    <2> QED BY <1>3, <2>1, <2>2, <2>4 DEF Announced, BackIsTold
  <1>6. CASE \E f, h \in WatchedFiles : Move(f, h)
    <2>1. PICK f \in WatchedFiles : \E h \in WatchedFiles : Move(f, h)
      BY <1>6
    <2>2. PICK h \in WatchedFiles : Move(f, h)
      BY <2>1
    <2>3. bytes'[g] = bytes[g] /\ events' = events /\ deleting' = deleting
      BY <1>1, <1>3, <2>2 DEF Move, WatcherTypeOK
    <2> QED BY <1>4, <2>3
  <1>7. CASE HandleChanged \/ HandleDeleted
    <2> DEFINE f == Head(events).file
    <2>1. /\ deleting = Absent /\ events # << >> /\ events' = Tail(events) /\ bytes' = bytes
          /\ deleting' = deleting \/ (deleting' = f /\ Head(events).type = "deleted")
      BY <1>7 DEF HandleChanged, HandleDeleted
    <2>2. /\ LastEventTells(g)'
          /\ f = g /\ (Head(events).type = "deleted") # (bytes[g] = Absent) => EventOf(g)'
      BY <1>3, <2>1, EventTaken DEF Announced
    <2> HIDE DEF f
    <2> QED BY <1>3, <2>1, <2>2 DEF Announced, BackIsTold
  <1>8. CASE \/ DeleteRows \/ TimerStep \/ UNCHANGED watchVars
    <2>1. events' = events /\ bytes' = bytes /\ deleting' \in {deleting, Absent}
      BY <1>8 DEF DeleteRows, TimerStep, Fire, CheckGeneration, Filter, ReadBytes, WriteRows,
                  watchVars
    <2> QED BY <1>4, <2>1
  <1>9. CASE StopTimers \/ StopObserver
    BY <1>1, <1>9 DEF StopTimers, StopObserver
  <1> QED BY <1>1, <1>5, <1>6, <1>7, <1>8, <1>9 DEF WatcherNext, ObserverStep

LEMMA WatcherStepInv == WatcherInv /\ [WatcherNext]_watchVars => WatcherInv'
  <1>1. SUFFICES ASSUME WatcherInv, [WatcherNext]_watchVars PROVE WatcherInv'
    OBVIOUS
  <1>2. WatcherTypeOK'
    BY <1>1, WatcherTypesStep DEF WatcherInv
  <1>3. GotSome'
    <2>1. SUFFICES ASSUME NEW d \in callbacks', d.at = "write" PROVE d.got # Absent
      BY DEF GotSome
    <2>2. CASE d \in callbacks
      BY <1>1, <2>1, <2>2 DEF WatcherInv, GotSome
    <2>3. CASE d \notin callbacks
      <3>1. \/ \E t \in fired : CheckGeneration(t)
            \/ \E c \in callbacks : Filter(c) \/ ReadBytes(c) \/ WriteRows(c)
        BY <1>1, <2>1, <2>3
        DEF WatcherNext, ObserverStep, TimerStep, Touch, Move, HandleChanged, HandleDeleted,
            DeleteRows, Fire, StopTimers, StopObserver, watchVars
      <3>2. ASSUME NEW t \in fired, CheckGeneration(t) PROVE FALSE
        <4>1. d = [file |-> t.file, gen |-> t.gen, at |-> "filter", got |-> Absent]
          BY <2>1, <2>3, <3>2 DEF CheckGeneration
        <4> QED BY <2>1, <4>1
      <3>3. PICK c \in callbacks : Filter(c) \/ ReadBytes(c) \/ WriteRows(c)
        BY <3>1, <3>2
      <3>4. c \in Callback
        BY <1>1 DEF WatcherInv, WatcherTypeOK
      <3>5. ~EndCallback(c)
        BY <2>1, <2>3 DEF EndCallback
      <3>6. ASSUME Filter(c) PROVE FALSE
        <4>1. d = [c EXCEPT !.at = "read", !.got = Absent]
          BY <2>1, <2>3, <3>5, <3>6 DEF Filter, Advance
        <4> QED BY <2>1, <3>4, <4>1 DEF Callback
      <3>7. ReadBytes(c)
        BY <3>3, <3>5, <3>6 DEF WriteRows
      <3>8. d = [c EXCEPT !.at = "write", !.got = bytes[c.file]] /\ bytes[c.file] # Absent
        BY <2>1, <2>3, <3>5, <3>7 DEF ReadBytes, Advance
      <3> QED BY <3>4, <3>8 DEF Callback
    <2> QED BY <2>2, <2>3
  <1>4. AllTracked'
    <2>1. SUFFICES ASSUME watching' = "on", NEW g \in WatchedFiles \ (overlapped' \cup unseen')
                   PROVE  Tracked(g)'
      BY DEF AllTracked
    <2>2. watching = "on" /\ unseen \subseteq unseen'
      BY <1>1, <2>1
      DEF WatcherNext, ObserverStep, TimerStep, Touch, Move, HandleChanged, HandleDeleted,
          DeleteRows, Fire, CheckGeneration, Filter, ReadBytes, WriteRows, StopTimers,
          StopObserver, watchGhosts, watchVars
    <2>3. CASE DeleteRows
      <3>1. unseen' = unseen
        BY <2>3 DEF DeleteRows
      <3> QED BY <1>1, <2>1, <2>2, <2>3, <3>1, DeleteRowsTracked
    <2>4. CASE \E c \in callbacks : Filter(c) \/ ReadBytes(c) \/ WriteRows(c)
      <3>1. unseen' = unseen
        BY <2>4 DEF Filter, ReadBytes, WriteRows, watchGhosts
      <3> QED BY <1>1, <2>1, <2>2, <2>4, <3>1, CallbackTracked
    <2>5. CASE g \notin overlapped /\ Tracked(g)
      <3>1. CASE \E f \in WatchedFiles : \E c \in FileBytes \cup {Absent} : Touch(f, c)
        BY <1>1, <2>2, <2>5, <3>1, TouchTracked
      <3>2. CASE \E f, h \in WatchedFiles : Move(f, h)
        <4>1. PICK f \in WatchedFiles : \E h \in WatchedFiles : Move(f, h)
          BY <3>2
        <4>2. PICK h \in WatchedFiles : Move(f, h)
          BY <4>1
        <4>3. /\ g # f /\ g # h /\ bytes' = [bytes EXCEPT ![f] = Absent, ![h] = bytes[f]]
              /\ UNCHANGED <<indexed, events, deleting, timers, generations, armed, fired,
                             callbacks, failed>>
          BY <2>1, <4>2 DEF Move, timerVars
        <4>4. bytes'[g] = bytes[g]
          BY <1>1, <4>3 DEF WatcherInv, WatcherTypeOK
        <4>5. LastEventTells(g)' /\ (EventOf(g)' <=> EventOf(g))
          BY <2>5, <4>3, <4>4, EventsAlone DEF Tracked
        <4>6. SameWork(g)
          BY <4>3, <4>4, <4>5 DEF SameWork, LiveTimer, Mine
        <4> QED BY <2>5, <4>5, <4>6, SameKept
      <3>3. CASE HandleChanged
        BY <1>1, <2>2, <2>5, <3>3, HandleChangedTracked
      <3>4. CASE HandleDeleted
        BY <1>1, <2>2, <2>5, <3>4, HandleDeletedTracked
      <3>5. CASE \E t \in armed : Fire(t)
        BY <1>1, <2>2, <2>5, <3>5, FireTracked
      <3>6. CASE \E t \in fired : CheckGeneration(t)
        BY <1>1, <2>2, <2>5, <3>6, CheckGenerationTracked
      <3>7. CASE StopTimers \/ StopObserver
        BY <2>1, <3>7 DEF StopTimers, StopObserver
      <3>8. CASE UNCHANGED watchVars
        <4>1. LastEventTells(g)' /\ (EventOf(g)' <=> EventOf(g))
          BY <2>5, <3>8, EventsAlone DEF Tracked, watchVars
        <4>2. SameWork(g)
          BY <3>8, <4>1 DEF SameWork, LiveTimer, Mine, watchVars
        <4> QED BY <2>5, <4>1, <4>2, SameKept
      <3> QED
        BY <1>1, <2>3, <2>4, <3>1, <3>2, <3>3, <3>4, <3>5, <3>6, <3>7, <3>8
        DEF WatcherNext, ObserverStep, TimerStep
    <2>6. \/ DeleteRows \/ \E c \in callbacks : Filter(c) \/ ReadBytes(c) \/ WriteRows(c)
          \/ g \notin overlapped /\ g \notin unseen /\ Tracked(g)
      <3>1. \/ DeleteRows \/ \E c \in callbacks : Filter(c) \/ ReadBytes(c) \/ WriteRows(c)
            \/ overlapped' = overlapped
        BY <1>1
        DEF WatcherNext, ObserverStep, TimerStep, Touch, Move, HandleChanged, HandleDeleted, Fire,
            CheckGeneration, StopTimers, StopObserver, watchGhosts, watchVars
      <3> QED BY <1>1, <2>1, <2>2, <3>1 DEF WatcherInv, AllTracked
    <2> QED BY <2>3, <2>4, <2>5, <2>6
  <1>5. AllAnnounced'
    BY <1>1, AnnouncedStep
  <1> QED BY <1>2, <1>3, <1>4, <1>5 DEF WatcherInv

LEMMA WatcherInvariant == WatcherInit /\ [][WatcherNext]_watchVars => []WatcherInv
  BY WatcherInitInv, WatcherStepInv, PTL

LEMMA TrackedSettles == WatcherInv => SettledFilesIndexed
  <1>1. SUFFICES ASSUME WatcherInv, watching = "on",
                        NEW f \in WatchedFiles \ (overlapped \cup unseen \cup failed)
                 PROVE  Busy(f) \/ indexed[f] = bytes[f]
    BY DEF SettledFilesIndexed
  <1>2. GoneIsTold(f) /\ WrittenOrBusy(f)
    BY <1>1 DEF WatcherInv, AllTracked, Tracked
  <1> QED BY <1>1, <1>2 DEF GoneIsTold, WrittenOrBusy, Busy

\* `trelix watch` loses no change: while it runs, a file whose rows are behind its content has an
\* event, a deletion, a timer of its generation or a callback to come, save for the files
\* IndexFollowsTree excepts.
THEOREM SettledFilesAreIndexed == WatcherSpec => []SettledFilesIndexed
  BY TrackedSettles, WatcherInvariant, PTL DEF WatcherSpec

----------------------------------------------------------------------------
(* The composition: the component that runs takes its own steps, the       *)
(* others stand still.                                                     *)

LEMMA ComponentsRunAlone ==
  Spec => /\ JobsInit /\ [][JobsNext]_jobVars
          /\ WatcherInit /\ [][WatcherNext]_watchVars
          /\ MultiInit /\ [][MultiNext]_multiVars
          /\ PoolInit /\ [][PoolNext]_poolVars
  <1> DEFINE vars == <<part, jobVars, watchVars, multiVars, poolVars>>
  <1>1. Init => JobsInit /\ WatcherInit /\ MultiInit /\ PoolInit
    BY DEF Init
  <1>2. [Next]_vars => [JobsNext]_jobVars
    BY DEF Next
  <1>3. [Next]_vars => [WatcherNext]_watchVars
    BY DEF Next
  <1>4. [Next]_vars => [MultiNext]_multiVars
    BY DEF Next
  <1>5. [Next]_vars => [PoolNext]_poolVars
    BY DEF Next
  <1> QED BY <1>1, <1>2, <1>3, <1>4, <1>5, PTL DEF Spec

LEMMA JobsInvariant == JobsInit /\ [][JobsNext]_jobVars => []IInv
  BY InitIInv, StepIInv, PTL

\* The state of every component has its type.
THEOREM EventuallyTypes == Spec => []EventuallyTypeOK
  <1>1. IInv /\ WatcherInv /\ MultiInv /\ PoolInv => EventuallyTypeOK
    BY DEF IInv, WatcherInv, MultiInv, PoolInv, EventuallyTypeOK
  <1> QED
    BY <1>1, ComponentsRunAlone, JobsInvariant, WatcherInvariant, MultiInvariant, PoolInvariant, PTL

\* What each component promises about every state holds of the composition: nothing is paid for
\* twice, no search waits for nobody, and no change is lost sight of.
THEOREM EventuallySafe ==
  Spec => [](PaidForOnce /\ ConnsComeBack /\ SettledTreesIndexed /\ SettledFilesIndexed)
  <1>1. IInv => PaidForOnce
    BY DEF IInv
  <1>2. MultiInv => SettledTreesIndexed
    BY DEF MultiInv
  <1> QED
    BY <1>1, <1>2, LentComesBack, TrackedSettles, ComponentsRunAlone, JobsInvariant,
       WatcherInvariant, MultiInvariant, PoolInvariant, PTL
=============================================================================
