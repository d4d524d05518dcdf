---------------------------- MODULE AuditLogProofs ----------------------------
(***************************************************************************)
(* What holds of AuditLog for any clock, batch size and number of rows,    *)
(* when one server appends and one prune runs at a time.                   *)
(***************************************************************************)
EXTENDS AuditLog, FiniteSetTheorems, SequenceTheorems, TLAPS

OneServer == \A s, t \in Servers : s = t
OnePruner == \A p, q \in Pruners : p = q

\* The ids are what the prunes have left of those handed out.
Rows ==
  /\ Start \in Nat /\ seq \in Nat /\ Start <= seq
  /\ Ids = (Start + 1)..seq
  /\ mark # None => Start # 0

\* The head of the chain, whether or not its row is still there.
Tip == IF Start = seq THEN Root ELSE log[seq].hash

Links == \A i \in Ids : log[i].prev = Before(i) /\ log[i].hash = Chain(Before(i), log[i].ts)

Anchors ==
  /\ Removed = Start
  /\ anchor = None <=> seq = 0
  /\ anchor # None => anchor.count = seq /\ anchor.head = Tip

\* What a server read stays true until its transaction: only it appends, and a prune that
\* takes every row leaves the last hash in the watermark.
Appending ==
  \A s \in Servers : /\ spc[s] = "insert" => prev[s] = Tip
                     /\ spc[s] = "watermark" => Start = seq

\* What a pruner read stays true until its transaction: only it deletes.
Paging ==
  \A p \in Pruners : page[p] # None =>
    /\ page[p].id \in Ids /\ page[p].hash = log[page[p].id].hash
    /\ page[p].id = Start + page[p].removed
    /\ \A j \in Ids : j <= page[p].id => log[j].ts < cutoff[p]
    /\ page[p].short => page[p].id + 1 \in Ids /\ ~(log[page[p].id + 1].ts < cutoff[p])

\* What a prune still has to take makes up the number it promised.
Counting ==
  \A p \in Pruners :
    /\ Batch = 0 => page[p] = None /\ taken[p] = 0
    /\ quiet[p] /\ ppc[p] \in {"read", "delete"} =>
         taken[p] + CountPrunable(cutoff[p]) = promised[p]
    /\ quiet[p] /\ ppc[p] = "done" => taken[p] = IF Batch = 0 THEN 0 ELSE promised[p]

IInv == TypeOK /\ Rows /\ Links /\ Anchors /\ Appending /\ Paging /\ Counting

----------------------------------------------------------------------------
\* How many ids an interval holds.
LEMMA Interval ==
  ASSUME NEW a \in Nat, NEW b \in Nat
  PROVE  /\ IsFiniteSet((a + 1)..b)
         /\ a <= b => Cardinality((a + 1)..b) = b - a
<1>1. a + 1 \in Int /\ b \in Int
  OBVIOUS
<1>2. IsFiniteSet((a + 1)..b) /\ Cardinality((a + 1)..b) = IF a + 1 > b THEN 0 ELSE b - (a + 1) + 1
  BY <1>1, FS_Interval, Zenon
<1>3. QED
  BY <1>2

\* The ids are an interval: what the reads of an append and of a prune find.
LEMMA IdsAre ==
  ASSUME Rows
  PROVE  /\ IsFiniteSet(Ids) /\ Cardinality(Ids) = seq - Start
         /\ Ids = {} <=> Start = seq
         /\ Ids # {} => Newest = seq
         /\ Candidates = {i \in Ids : Batch < 0 \/ i <= Start + Batch}
<1>1. IsFiniteSet(Ids) /\ Cardinality(Ids) = seq - Start
  BY Interval DEF Rows
<1>2. Ids = {} <=> Start = seq
  BY DEF Rows
<1>3. Ids # {} => Newest = seq
  <2>1. Ids # {} => seq \in Ids /\ \A j \in Ids : j <= seq
    BY DEF Rows
  <2>2. \A i, k \in Ids : i <= k /\ k <= i => i = k
    BY DEF Rows
  <2>3. QED
    BY <2>1, <2>2, Zenon DEF Newest
<1>4. ASSUME NEW i \in Ids PROVE Cardinality({j \in Ids : j < i}) = i - Start - 1
  <2>1. {j \in Ids : j < i} = (Start + 1)..(i - 1)
    BY DEF Rows
  <2>2. i \in Nat /\ i - 1 \in Nat /\ Start \in Nat /\ Start <= i - 1
    BY DEF Rows
  <2>3. Cardinality((Start + 1)..(i - 1)) = (i - 1) - Start
    BY <2>2, Interval
  <2>4. Cardinality({j \in Ids : j < i}) = (i - 1) - Start
    BY <2>1, <2>3, Zenon
  <2>5. QED
    BY <2>2, <2>4
<1>5. Candidates = {i \in Ids : Batch < 0 \/ i <= Start + Batch}
  <2>1. \A i \in Ids : i - Start - 1 < Batch <=> i <= Start + Batch
    BY BatchAssumption DEF Rows
  <2>2. QED
    BY <1>4, <2>1 DEF Candidates
<1>6. QED
  BY <1>1, <1>2, <1>3, <1>5

\* A non-empty set of ids that with an id has every one before it ends in its last.
LEMMA Lower ==
  ASSUME NEW a \in Nat, NEW b \in Nat, NEW P \in SUBSET ((a + 1)..b), P # {},
         \A i \in P : \A j \in (a + 1)..b : j <= i => j \in P
  PROVE  LET last == CHOOSE i \in P : \A j \in P : j <= i
         IN  /\ P = (a + 1)..last /\ last \in (a + 1)..b
             /\ IsFiniteSet(P) /\ Cardinality(P) = last - a
<1> DEFINE n == Cardinality(P)
<1> DEFINE last == CHOOSE i \in P : \A j \in P : j <= i
<1>1. IsFiniteSet(P) /\ n \in Nat /\ n # 0
  <2>1. IsFiniteSet((a + 1)..b)
    BY Interval
  <2>2. IsFiniteSet(P)
    BY <2>1, FS_Subset
  <2>3. QED
    BY <2>2, FS_CardinalityType, FS_EmptySet
<1>2. a + n \in P
  <2>1. SUFFICES ASSUME a + n \notin P PROVE FALSE
    OBVIOUS
  <2>2. P \in SUBSET ((a + 1)..(a + n - 1))
    BY <1>1, <2>1
  <2>3. IsFiniteSet((a + 1)..(a + n - 1)) /\ Cardinality((a + 1)..(a + n - 1)) = n - 1
    <3>1. a + n - 1 \in Nat /\ a <= a + n - 1 /\ (a + n - 1) - a = n - 1
      BY <1>1
    <3>2. QED
      BY <3>1, Interval
  <2>4. Cardinality(P) <= Cardinality((a + 1)..(a + n - 1))
    BY <2>2, <2>3, FS_Subset, Zenon
  <2>5. QED
    BY <1>1, <2>3, <2>4
<1>3. \A i \in P : i <= a + n
  <2>1. SUFFICES ASSUME NEW i \in P, i > a + n PROVE FALSE
    BY <1>1
  <2>2. (a + 1)..(a + n + 1) \in SUBSET P
    BY <1>1, <2>1
  <2>3. Cardinality((a + 1)..(a + n + 1)) = n + 1
    <3>1. a + n + 1 \in Nat /\ a <= a + n + 1 /\ (a + n + 1) - a = n + 1
      BY <1>1
    <3>2. QED
      BY <3>1, Interval
  <2>4. n + 1 <= n
    BY <1>1, <2>2, <2>3, FS_Subset
  <2>5. QED
    BY <1>1, <2>4
<1>4. last = a + n
  <2>1. \A i \in P : (\A j \in P : j <= i) => i = a + n
    BY <1>1, <1>2, <1>3
  <2>2. QED
    BY <1>2, <1>3, <2>1, Zenon
<1>5. P = (a + 1)..(a + n)
  <2>1. \A i \in P : i \in (a + 1)..(a + n)
    BY <1>1, <1>3
  <2>2. \A j \in (a + 1)..(a + n) : j \in (a + 1)..b /\ j <= a + n
    BY <1>1, <1>2
  <2>3. \A j \in (a + 1)..(a + n) : j \in P
    BY <1>2, <2>2
  <2>4. QED
    BY <2>1, <2>3
<1>6. QED
  BY <1>1, <1>2, <1>4, <1>5

\* What a page of candidates gives a prune: an interval that begins with the oldest row,
\* old throughout, and followed by a young row if it is not all of the page.
LEMMA PageIs ==
  ASSUME TypeOK, Rows, NEW c \in Nat, OldPrefix(Candidates, c) # {}
  PROVE  LET prefix == OldPrefix(Candidates, c)
             last   == CHOOSE i \in prefix : \A j \in prefix : j <= i
         IN  /\ last \in Ids /\ Cardinality(prefix) \in Nat /\ last = Start + Cardinality(prefix)
             /\ \A j \in Ids : j <= last => log[j].ts < c
             /\ prefix # Candidates => last + 1 \in Ids /\ ~(log[last + 1].ts < c)
<1> DEFINE prefix == OldPrefix(Candidates, c)
<1> DEFINE last == CHOOSE i \in prefix : \A j \in prefix : j <= i
<1>1. Candidates = {i \in Ids : Batch < 0 \/ i <= Start + Batch}
  BY IdsAre
<1>2. /\ prefix \in SUBSET ((Start + 1)..seq)
      /\ \A i \in prefix : \A j \in (Start + 1)..seq : j <= i => j \in prefix
  BY <1>1, BatchAssumption DEF OldPrefix, Rows
<1>3. Start \in Nat /\ seq \in Nat
  BY DEF Rows
<1>4. /\ prefix = (Start + 1)..last /\ last \in (Start + 1)..seq
      /\ IsFiniteSet(prefix) /\ Cardinality(prefix) = last - Start
  <2> HIDE DEF prefix
  <2>1. prefix # {}
    BY DEF prefix
  <2>2. QED
    BY <1>2, <1>3, <2>1, Lower
<1>5. last \in Ids /\ Cardinality(prefix) \in Nat /\ last = Start + Cardinality(prefix)
  <2> HIDE DEF last, prefix
  <2> QED
    BY <1>3, <1>4 DEF Rows
<1>6. ASSUME NEW j \in Ids, j <= last PROVE log[j].ts < c
  <2>1. j \in prefix
    <3> HIDE DEF last, prefix
    <3>1. j \in (Start + 1)..last
      BY <1>3, <1>4, <1>6 DEF Rows
    <3>2. QED
      BY <1>4, <3>1
  <2>2. j \in Nat /\ j <= j
    BY <1>3 DEF Rows
  <2>3. QED
    BY <2>1, <2>2 DEF OldPrefix
<1>7. ASSUME prefix # Candidates PROVE last + 1 \in Ids /\ ~(log[last + 1].ts < c)
  <2>1. PICK k \in Candidates : k \notin prefix
    BY <1>7 DEF OldPrefix
  <2> HIDE DEF last
  <2>2. k > last /\ k \in Ids /\ (Batch < 0 \/ k <= Start + Batch)
    <3>1. k \in (Start + 1)..seq /\ (Batch < 0 \/ k <= Start + Batch)
      BY <1>1, <2>1 DEF Rows
    <3>2. QED
      BY <1>1, <1>3, <1>4, <2>1, <3>1
  <2>3. last + 1 \in Candidates
    BY <1>1, <1>3, <1>4, <2>2, BatchAssumption DEF Rows
  <2>4. last + 1 \in Ids
    BY <1>1, <2>3
  <2>5. last + 1 \notin prefix
    BY <1>3, <1>4
  <2>6. \A j \in Candidates : j <= last + 1 /\ j # last + 1 => log[j].ts < c
    <3>1. \A j \in Ids : j <= last + 1 /\ j # last + 1 => j <= last
      BY <1>3, <1>4 DEF Rows
    <3>2. QED
      BY <1>1, <1>6, <3>1
  <2>7. QED
    BY <2>3, <2>4, <2>5, <2>6 DEF OldPrefix
<1>8. QED
  BY <1>5, <1>6, <1>7

\* An appended row extends the chain: the hash it was linked to is still the tip.
LEMMA InsertKeeps ==
  ASSUME OneServer, IInv, NEW s \in Servers, Insert(s)
  PROVE  Rows' /\ Links' /\ Anchors' /\ Appending' /\ Paging'
<1> USE DEF IInv
<1>1. Start' = Start /\ Root' = Root /\ Removed' = Removed /\ seq' = seq + 1
  BY DEF Insert, Start, Root, Removed
<1>2. Ids' = Ids \cup {seq + 1} /\ Ids' = (Start + 1)..(seq + 1)
  BY DEF Insert, Ids, Rows
<1>3. /\ \A i \in Ids : log'[i] = log[i]
      /\ log'[seq + 1] = [ts |-> ts[s], prev |-> prev[s], hash |-> Chain(prev[s], ts[s])]
  BY DEF Insert, Rows, Ids
<1>4. Rows'
  BY <1>1, <1>2 DEF Rows, Insert
<1>5. prev[s] = Tip
  BY DEF Insert, Appending
<1>6. \A k : k = seq + 1 => Before(k)' = Tip
  BY <1>1, <1>3 DEF Before, Tip, Rows
<1>7. \A i \in Ids : Before(i)' = Before(i)
  BY <1>1, <1>3 DEF Before, Rows
<1>8. Links'
  <2>1. \A i \in Ids : log'[i].prev = Before(i)' /\ log'[i].hash = Chain(Before(i)', log'[i].ts)
    BY <1>3, <1>7 DEF Links
  <2>2. \A k : k = seq + 1 => log'[k].prev = Before(k)'
                              /\ log'[k].hash = Chain(Before(k)', log'[k].ts)
    BY <1>3, <1>5, <1>6
  <2>3. QED
    BY <1>2, <2>1, <2>2, Zenon DEF Links, Chain
<1>9. Tip' = Chain(prev[s], ts[s])
  BY <1>1, <1>3 DEF Tip, Rows
<1>10. Anchors'
  <2>1. anchor' = [count |-> IF anchor = None THEN 1 ELSE anchor.count + 1,
                   head |-> Chain(prev[s], ts[s])]
    BY DEF Insert
  <2>2. anchor'.count = seq' /\ anchor'.head = Tip'
    <3>1. anchor'.count = seq + 1
      BY <2>1 DEF Anchors, Rows
    <3>2. anchor'.head = Tip'
      BY <1>9, <2>1
    <3>3. QED
      BY <1>1, <3>1, <3>2
  <2>3. anchor' # None
    <3>1. anchor'.count \in Nat
      BY <2>2, <1>1 DEF Rows
    <3>2. prev[s] \in Seq(Time) /\ ts[s] \in Time
      BY DEF TypeOK, Hash
    <3>3. Chain(prev[s], ts[s]) \in Hash
      BY <3>2 DEF Chain, Hash
    <3>4. anchor' \in Anchor
      BY <2>1, <3>1, <3>3 DEF Anchor
    <3>5. QED
      BY <3>4, NoneAssumption
  <2>4. QED
    BY <1>1, <2>2, <2>3 DEF Anchors, Rows
<1>11. Appending'
  BY DEF Appending, OneServer, Insert, TypeOK
<1>12. Paging'
  BY <1>1, <1>2, <1>3 DEF Paging, Insert, Rows
<1>13. QED
  BY <1>4, <1>8, <1>10, <1>11, <1>12

\* A deleted page leaves a shorter log with the same tip, and the watermark at its edge.
LEMMA DeleteKeeps ==
  ASSUME OnePruner, IInv, NEW p \in Pruners, DeletePage(p)
  PROVE  /\ Rows' /\ Links' /\ Anchors' /\ Appending' /\ Paging'
         /\ Start' = page[p].id /\ \A i \in Ids' : log'[i] = log[i]
<1> USE DEF IInv
<1> DEFINE edge == page[p].id
<1>1. /\ edge \in Ids /\ page[p].hash = log[edge].hash /\ edge = Start + page[p].removed
      /\ \A j \in Ids : j <= edge => log[j].ts < cutoff[p]
      /\ page[p] \in Page
  BY DEF Paging, DeletePage, TypeOK
<1>2. edge \in Nat /\ Start \in Nat /\ seq \in Nat /\ Start < edge /\ edge <= seq
  BY <1>1 DEF Rows
<1> HIDE DEF edge
<1>3. Keeps(p) = (edge + 1)..seq
  BY <1>1, <1>2 DEF Keeps, Rows, edge
<1>4. Ids' = (edge + 1)..seq /\ \A i \in Ids' : log'[i] = log[i]
  BY <1>3 DEF DeletePage, Ids
<1>5. mark' = [id |-> edge, hash |-> page[p].hash, removed |-> page[p].removed + Removed]
  BY DEF DeletePage, Removed, edge
<1>6. mark' # None
  <2>1. Removed \in Nat
    BY <1>2 DEF Anchors
  <2>2. mark' \in Watermark
    BY <1>1, <1>2, <1>5, <2>1 DEF Watermark, Page
  <2>3. QED
    BY <2>2, NoneAssumption
<1>7. Start' = edge /\ Root' = log[edge].hash /\ Removed' = edge /\ seq' = seq
  <2>1. Removed' = page[p].removed + Removed
    BY <1>5, <1>6 DEF Removed
  <2>2. Removed = Start /\ page[p].removed \in Nat
    BY <1>1 DEF Anchors, Page
  <2>3. Removed' = edge
    BY <1>1, <1>2, <2>1, <2>2 DEF edge
  <2>4. QED
    BY <1>1, <1>5, <1>6, <2>3 DEF Start, Root, DeletePage
<1>8. Rows'
  BY <1>2, <1>4, <1>7 DEF Rows
<1>9. Tip' = Tip
  BY <1>2, <1>4, <1>7 DEF Tip
<1>10. \A i \in Ids' : Before(i)' = Before(i)
  <2>1. \A i \in Ids' : i # edge + 1 => i - 1 \in Ids'
    BY <1>2, <1>4
  <2>2. \A i \in Ids' : i # Start + 1
    BY <1>2, <1>4
  <2>3. (edge + 1) - 1 = edge
    BY <1>2
  <2>4. QED
    BY <1>4, <1>7, <2>1, <2>2, <2>3 DEF Before
<1>11. Links'
  <2>1. \A i \in Ids' : i \in Ids
    BY <1>2, <1>4 DEF Rows
  <2>2. \A i \in Ids' : log'[i].prev = Before(i)' /\ log'[i].hash = Chain(Before(i)', log'[i].ts)
    BY <1>4, <1>10, <2>1 DEF Links
  <2>3. QED
    BY <2>2, Zenon DEF Links, Chain
<1>12. Anchors'
  BY <1>7, <1>9 DEF Anchors, DeletePage
<1>13. Appending'
  BY <1>2, <1>9 DEF Appending, DeletePage, server
<1>14. Paging'
  BY DEF Paging, DeletePage, PageDone, OnePruner, TypeOK
<1>15. QED
  BY <1>4, <1>7, <1>8, <1>11, <1>12, <1>13, <1>14 DEF edge

\* A page read is a page as it should be.
LEMMA ReadPageKeeps ==
  ASSUME IInv, NEW p \in Pruners, ReadPage(p)
  PROVE  /\ Paging' /\ page' \in [Pruners -> Page \cup {None}]
         /\ \/ page' = page /\ ppc'[p] = "done"
            \/ page'[p] \in Page /\ ppc'[p] = "delete"
<1> USE DEF IInv
<1> DEFINE prefix == OldPrefix(Candidates, cutoff[p])
<1> DEFINE last == CHOOSE i \in prefix : \A j \in prefix : j <= i
<1>1. UNCHANGED <<log, seq, mark, cutoff>> /\ Ids' = Ids /\ Start' = Start
  BY DEF ReadPage, db, Ids, Start
<1>2. CASE prefix = {}
  <2>1. page' = page /\ ppc'[p] = "done"
    BY <1>2 DEF ReadPage, TypeOK
  <2>2. QED
    BY <1>1, <2>1 DEF Paging, TypeOK
<1>3. CASE prefix # {}
  <2>1. page' = [page EXCEPT ![p] = [id |-> last, hash |-> log[last].hash,
                                     removed |-> Cardinality(prefix),
                                     short |-> prefix # Candidates]]
    BY <1>3 DEF ReadPage
  <2>2. cutoff[p] \in Nat
    BY TimeAssumption DEF TypeOK
  <2>3. /\ last \in Ids /\ Cardinality(prefix) \in Nat /\ last = Start + Cardinality(prefix)
        /\ \A j \in Ids : j <= last => log[j].ts < cutoff[p]
        /\ prefix # Candidates => last + 1 \in Ids /\ ~(log[last + 1].ts < cutoff[p])
    BY <1>3, <2>2, PageIs
  <2>4. last \in Nat /\ log[last].hash \in Hash
    BY <2>3 DEF Rows, TypeOK, Row
  <2> HIDE DEF last
  <2>5. (prefix # Candidates) \in BOOLEAN
    OBVIOUS
  <2> HIDE DEF prefix
  <2>6. page'[p] \in Page
    BY <2>1, <2>3, <2>4, <2>5 DEF TypeOK, Page
  <2>7. page' \in [Pruners -> Page \cup {None}]
    BY <2>1, <2>3, <2>4, <2>5 DEF TypeOK, Page
  <2>8. Paging'
    <3>1. /\ page'[p].id = last /\ page'[p].hash = log[last].hash
          /\ page'[p].removed = Cardinality(prefix)
          /\ page'[p].short <=> prefix # Candidates
      BY <2>1 DEF TypeOK
    <3>2. \A q \in Pruners : q # p => page'[q] = page[q]
      BY <2>1 DEF TypeOK
    <3>3. QED
      BY <1>1, <2>3, <3>1, <3>2 DEF Paging
  <2>9. ppc'[p] = "delete"
    BY <1>3 DEF ReadPage, TypeOK, prefix
  <2>10. QED
    BY <2>6, <2>7, <2>8, <2>9
<1>4. QED
  BY <1>2, <1>3

\* Every step keeps the types; what is read, is read from rows that are there.
LEMMA TypeStep == ASSUME IInv, [Next]_vars PROVE TypeOK'
<1> USE TimeAssumption, NoneAssumption DEF IInv
<1>1. CASE UNCHANGED vars
  BY <1>1 DEF TypeOK, vars, db, server, pruner, Ids
<1>2. ASSUME NEW t \in Time, Clock(t) PROVE TypeOK'
  BY <1>2 DEF Clock, TypeOK, db, server, pruner, Ids
<1>3. ASSUME NEW s \in Servers, Emit(s) PROVE TypeOK'
  BY <1>3 DEF Emit, TypeOK, db, pruner, Ids
<1>4. ASSUME NEW s \in Servers, ReadHead(s) PROVE TypeOK'
  <2>1. Ids # {} => log[Newest].hash \in Hash
    BY IdsAre DEF TypeOK, Row, Rows
  <2>2. QED
    BY <1>4, <2>1 DEF ReadHead, TypeOK, db, pruner, Ids
<1>5. ASSUME NEW s \in Servers, ReadWatermark(s) PROVE TypeOK'
  <2>1. Genesis \in Hash /\ (mark # None => mark.hash \in Hash)
    BY DEF TypeOK, Watermark, Genesis, Hash
  <2>2. QED
    BY <1>5, <2>1 DEF ReadWatermark, TypeOK, db, pruner, Ids
<1>6. ASSUME NEW s \in Servers, Insert(s) PROVE TypeOK'
  <2>1. prev[s] \in Hash /\ ts[s] \in Time /\ Chain(prev[s], ts[s]) \in Hash
    BY DEF TypeOK, Chain, Hash
  <2>2. \A i \in Ids' : log'[i] \in Row
    BY <1>6, <2>1 DEF Insert, TypeOK, Ids, Row
  <2>3. anchor' \in Anchor
    BY <1>6, <2>1 DEF Insert, TypeOK, Anchor
  <2>4. Ids' \subseteq Nat /\ seq' \in Nat
    BY <1>6 DEF Insert, TypeOK, Ids
  <2>5. QED
    BY <1>6, <2>2, <2>3, <2>4 DEF Insert, TypeOK
<1>7. ASSUME NEW s \in Servers, AppendFails(s) PROVE TypeOK'
  BY <1>7 DEF AppendFails, TypeOK, db, pruner, Ids
<1>8. ASSUME NEW p \in Pruners, NEW c \in Time, PruneStart(p, c) PROVE TypeOK'
  <2>1. CountPrunable(c) \in Nat
    BY IdsAre, FS_Subset, FS_CardinalityType DEF CountPrunable, OldPrefix
  <2>2. QED
    BY <1>8, <2>1 DEF PruneStart, TypeOK, db, server, Ids
<1>9. ASSUME NEW p \in Pruners, ReadPage(p) PROVE TypeOK'
  <2>1. page' \in [Pruners -> Page \cup {None}]
    BY <1>9, ReadPageKeeps
  <2>2. \A q \in Pruners : ppc'[q] = "delete" <=> page'[q] # None
    <3>1. ppc'[p] = "delete" <=> page'[p] # None
      BY <1>9, ReadPageKeeps DEF ReadPage, TypeOK
    <3>2. QED
      BY <1>9, <3>1 DEF ReadPage, TypeOK
  <2>3. ppc' \in [Pruners -> {"idle", "read", "delete", "done"}]
    BY <1>9 DEF ReadPage, TypeOK
  <2>4. UNCHANGED <<db, now, server, cutoff, taken, promised, quiet>>
    BY <1>9 DEF ReadPage
  <2>5. QED
    BY <2>1, <2>2, <2>3, <2>4 DEF TypeOK, db, server, Ids
<1>10. ASSUME NEW p \in Pruners, DeletePage(p) PROVE TypeOK'
  <2>1. page[p] \in Page
    BY <1>10 DEF DeletePage, TypeOK
  <2>2. mark' \in Watermark
    BY <1>10, <2>1 DEF DeletePage, TypeOK, Watermark, Page
  <2>3. Ids' \subseteq Ids /\ \A i \in Ids' : log'[i] = log[i]
    BY <1>10 DEF DeletePage, Keeps, Ids
  <2>4. taken' \in [Pruners -> Nat]
    BY <1>10, <2>1 DEF DeletePage, PageDone, TypeOK, Page
  <2>5. ppc' \in [Pruners -> {"idle", "read", "delete", "done"}]
    BY <1>10 DEF DeletePage, PageDone, TypeOK
  <2>6. page' \in [Pruners -> Page \cup {None}]
        /\ \A q \in Pruners : ppc'[q] = "delete" <=> page'[q] # None
    BY <1>10 DEF DeletePage, PageDone, TypeOK
  <2>7. QED
    BY <1>10, <2>2, <2>3, <2>4, <2>5, <2>6 DEF DeletePage, TypeOK, server
<1>11. ASSUME NEW p \in Pruners, PruneFails(p) PROVE TypeOK'
  BY <1>11 DEF PruneFails, TypeOK, db, server, Ids
<1>12. QED
  BY <1>1, <1>2, <1>3, <1>4, <1>5, <1>6, <1>7, <1>8, <1>9, <1>10, <1>11 DEF Next

\* The rows, their chain, the anchors and what is read of them stay in step.
LEMMA CoreStep ==
  ASSUME OneServer, OnePruner, IInv, [Next]_vars
  PROVE  Rows' /\ Links' /\ Anchors' /\ Appending' /\ Paging'
<1> DEFINE Core == Rows /\ Links /\ Anchors /\ Appending /\ Paging
<1> SUFFICES Core'
  OBVIOUS
\* A step that leaves the database alone leaves what is said of it.
<1>1. ASSUME UNCHANGED db PROVE /\ Rows' /\ Links' /\ Anchors' /\ Tip' = Tip
                                /\ Start' = Start /\ Ids' = Ids
  <2>1. Start' = Start /\ Root' = Root /\ Removed' = Removed /\ Ids' = Ids /\ seq' = seq
    BY <1>1 DEF db, Start, Root, Removed, Ids
  <2>2. Tip' = Tip /\ \A i : Before(i)' = Before(i)
    BY <1>1, <2>1 DEF db, Tip, Before
  <2>3. QED
    BY <1>1, <2>1, <2>2 DEF db, IInv, Rows, Links, Anchors
<1>2. CASE UNCHANGED vars
  BY <1>1, <1>2 DEF vars, db, server, pruner, IInv, Appending, Paging
<1>3. ASSUME NEW t \in Time, Clock(t) PROVE Core'
  BY <1>1, <1>3 DEF Clock, db, server, pruner, IInv, Appending, Paging
<1>4. ASSUME NEW s \in Servers, Emit(s) PROVE Core'
  BY <1>1, <1>4 DEF Emit, db, pruner, IInv, TypeOK, Appending, Paging
<1>5. ASSUME NEW s \in Servers, ReadHead(s) PROVE Core'
  <2>1. Ids # {} => Tip = log[Newest].hash
    BY IdsAre DEF Tip, IInv
  <2>2. Ids = {} => Start = seq
    BY IdsAre DEF IInv
  <2>3. Appending'
    BY <1>1, <1>5, <2>1, <2>2 DEF ReadHead, db, IInv, TypeOK, Appending
  <2>4. QED
    BY <1>1, <1>5, <2>3 DEF ReadHead, db, pruner, IInv, Paging
<1>6. ASSUME NEW s \in Servers, ReadWatermark(s) PROVE Core'
  <2>1. Start = seq => Tip = IF mark = None THEN Genesis ELSE mark.hash
    BY DEF Tip, Root
  <2>2. Appending'
    BY <1>1, <1>6, <2>1 DEF ReadWatermark, db, IInv, TypeOK, Appending
  <2>3. QED
    BY <1>1, <1>6, <2>2 DEF ReadWatermark, db, pruner, IInv, Paging
<1>7. ASSUME NEW s \in Servers, Insert(s) PROVE Core'
  BY <1>7, InsertKeeps
<1>8. ASSUME NEW s \in Servers, AppendFails(s) PROVE Core'
  BY <1>1, <1>8 DEF AppendFails, db, pruner, IInv, TypeOK, Appending, Paging
<1>9. ASSUME NEW p \in Pruners, NEW c \in Time, PruneStart(p, c) PROVE Core'
  <2>1. page[p] = None
    BY <1>9 DEF PruneStart, IInv, TypeOK
  <2>2. Paging'
    BY <1>1, <1>9, <2>1 DEF PruneStart, db, IInv, TypeOK, Paging
  <2>3. QED
    BY <1>1, <1>9, <2>2 DEF PruneStart, db, server, IInv, Appending
<1>10. ASSUME NEW p \in Pruners, ReadPage(p) PROVE Core'
  BY <1>1, <1>10, ReadPageKeeps DEF ReadPage, db, server, IInv, Appending
<1>11. ASSUME NEW p \in Pruners, DeletePage(p) PROVE Core'
  BY <1>11, DeleteKeeps
<1>12. ASSUME NEW p \in Pruners, PruneFails(p) PROVE Core'
  BY <1>1, <1>12 DEF PruneFails, db, server, IInv, TypeOK, Appending, Paging
<1>13. QED
  BY <1>2, <1>3, <1>4, <1>5, <1>6, <1>7, <1>8, <1>9, <1>10, <1>11, <1>12 DEF Next

\* A prune that deletes a page has that much less to take.
LEMMA DeleteCounts ==
  ASSUME OnePruner, IInv, NEW p \in Pruners, DeletePage(p), NEW c, c = cutoff[p]
  PROVE  /\ CountPrunable(c) \in Nat /\ CountPrunable(c)' \in Nat
         /\ CountPrunable(c) = page[p].removed + CountPrunable(c)'
         /\ page[p].short => CountPrunable(c)' = 0
<1> USE DEF IInv
<1> DEFINE edge == page[p].id
<1> DEFINE gone == (Start + 1)..edge
<1> DEFINE old == OldPrefix(Ids, c)
<1>1. /\ edge \in Ids /\ edge = Start + page[p].removed
      /\ \A j \in Ids : j <= edge => log[j].ts < c
      /\ page[p] \in Page
      /\ page[p].short => edge + 1 \in Ids /\ ~(log[edge + 1].ts < c)
  BY DEF Paging, DeletePage, TypeOK
<1>2. edge \in Nat /\ Start \in Nat /\ seq \in Nat /\ Start < edge /\ edge <= seq
  BY <1>1 DEF Rows
<1>3. Ids' = (edge + 1)..seq /\ \A i \in Ids' : log'[i] = log[i]
  BY DeleteKeeps DEF Rows, DeletePage
<1>4. Ids = gone \cup Ids' /\ gone \cap Ids' = {}
  BY <1>2, <1>3 DEF Rows
<1>5. OldPrefix(Ids, c)' = {i \in Ids' : \A j \in Ids' : j <= i => log[j].ts < c}
  BY <1>3 DEF OldPrefix
<1> DEFINE left == {i \in Ids' : \A j \in Ids' : j <= i => log[j].ts < c}
<1>6. \A j \in gone : log[j].ts < c
  BY <1>1, <1>2 DEF Rows
<1>7. old = gone \cup left /\ gone \cap left = {}
  <2>1. \A i \in gone : i \in old
    BY <1>2, <1>3, <1>4, <1>6 DEF OldPrefix
  <2>2. \A i \in Ids' : i \in old <=> i \in left
    BY <1>4, <1>6 DEF OldPrefix
  <2>3. QED
    BY <1>4, <2>1, <2>2 DEF OldPrefix
<1>8. IsFiniteSet(gone) /\ Cardinality(gone) = page[p].removed
  BY <1>1, <1>2, Interval DEF Page
<1>9. IsFiniteSet(left) /\ IsFiniteSet(old)
  <2>1. IsFiniteSet(Ids) /\ IsFiniteSet(Ids')
    BY <1>2, <1>3, IdsAre, Interval
  <2>2. QED
    BY <2>1, FS_Subset DEF OldPrefix
<1>10. page[p].short => left = {}
  BY <1>1, <1>2, <1>3
<1>11. Cardinality(old) = Cardinality(gone) + Cardinality(left)
  <2>1. Cardinality(gone \cap left) = 0
    BY <1>7, FS_EmptySet
  <2> HIDE DEF gone, left, old
  <2>2. Cardinality(gone \cup left) = Cardinality(gone) + Cardinality(left) - Cardinality(gone \cap left)
    BY <1>8, <1>9, FS_Union
  <2>3. Cardinality(gone) \in Nat /\ Cardinality(left) \in Nat
    BY <1>8, <1>9, FS_CardinalityType
  <2>4. QED
    BY <1>7, <2>1, <2>2, <2>3
<1>12. CountPrunable(c)' = Cardinality(left)
  BY <1>5 DEF CountPrunable
<1> HIDE DEF gone, left
<1>13. QED
  BY <1>8, <1>9, <1>10, <1>11, <1>12, FS_CardinalityType, FS_EmptySet DEF CountPrunable

\* A prune keeps taking what its dry run counted.
LEMMA CountingStep ==
  ASSUME OnePruner, IInv, [Next]_vars
  PROVE  Counting'
<1> USE DEF IInv
\* A step that leaves the rows and the prunes alone leaves their counts.
<1>1. ASSUME log' = log PROVE \A c : CountPrunable(c)' = CountPrunable(c)
  BY <1>1 DEF CountPrunable, OldPrefix, Ids
<1>2. ASSUME log' = log, UNCHANGED pruner PROVE Counting'
  BY <1>1, <1>2 DEF Counting, pruner
<1>3. CASE UNCHANGED vars
  BY <1>2, <1>3 DEF vars, db
<1>4. ASSUME NEW t \in Time, Clock(t) PROVE Counting'
  BY <1>2, <1>4 DEF Clock, db
<1>5. ASSUME NEW s \in Servers, Emit(s) \/ ReadHead(s) \/ ReadWatermark(s) \/ AppendFails(s)
      PROVE  Counting'
  BY <1>2, <1>5 DEF Emit, ReadHead, ReadWatermark, AppendFails, db
<1>6. ASSUME NEW s \in Servers, Insert(s) PROVE Counting'
  BY <1>6 DEF Insert, Counting
<1>7. ASSUME NEW p \in Pruners, NEW c \in Time, PruneStart(p, c) PROVE Counting'
  <2>1. CountPrunable(c) \in Nat
    BY IdsAre, FS_Subset, FS_CardinalityType DEF CountPrunable, OldPrefix
  <2>2. \A d : CountPrunable(d)' = CountPrunable(d)
    BY <1>1, <1>7 DEF PruneStart, db
  <2>3. /\ ppc'[p] = "read" /\ taken'[p] = 0 /\ promised'[p] = CountPrunable(c) /\ cutoff'[p] = c
        /\ \A q \in Pruners : q # p =>
             /\ ppc'[q] = ppc[q] /\ taken'[q] = taken[q] /\ promised'[q] = promised[q]
             /\ cutoff'[q] = cutoff[q] /\ quiet'[q] = quiet[q]
        /\ page' = page /\ ppc[p] # "delete"
    BY <1>7 DEF PruneStart, TypeOK
  <2>4. Batch = 0 => \A q \in Pruners : page'[q] = None /\ taken'[q] = 0
    BY <2>3 DEF Counting
  <2>5. ASSUME NEW q \in Pruners, quiet'[q]
        PROVE  /\ ppc'[q] \in {"read", "delete"} =>
                    taken'[q] + CountPrunable(cutoff[q])' = promised'[q]
               /\ ppc'[q] = "done" => taken'[q] = IF Batch = 0 THEN 0 ELSE promised'[q]
    <3>1. CASE q = p
      BY <2>1, <2>2, <2>3, <3>1
    <3>2. CASE q # p
      BY <2>2, <2>3, <2>5, <3>2 DEF Counting
    <3>3. QED
      BY <3>1, <3>2
  <2>6. QED
    BY <2>4, <2>5 DEF Counting
<1>8. ASSUME NEW p \in Pruners, ReadPage(p) PROVE Counting'
  <2> DEFINE prefix == OldPrefix(Candidates, cutoff[p])
  <2>1. \A d : CountPrunable(d)' = CountPrunable(d)
    BY <1>1, <1>8 DEF ReadPage, db
  <2>2. ASSUME prefix = {}, Batch # 0 PROVE CountPrunable(cutoff[p]) = 0
    <3>1. SUFFICES ASSUME NEW i \in OldPrefix(Ids, cutoff[p]) PROVE FALSE
      BY FS_EmptySet DEF CountPrunable
    <3>2. Start + 1 \in Ids /\ Start + 1 <= i
      BY <3>1 DEF OldPrefix, Rows
    <3>3. log[Start + 1].ts < cutoff[p]
      BY <3>1, <3>2 DEF OldPrefix
    <3>4. Start + 1 \in Candidates /\ \A j \in Candidates : j <= Start + 1 => j = Start + 1
      BY <2>2, <3>2, IdsAre, BatchAssumption DEF Rows
    <3>5. Start + 1 \in prefix
      BY <3>3, <3>4 DEF OldPrefix
    <3>6. QED
      BY <2>2, <3>5
  <2>3. /\ \/ ppc'[p] = "done" /\ prefix = {}
           \/ ppc'[p] = "delete"
        /\ \A q \in Pruners : q # p => ppc'[q] = ppc[q]
        /\ ppc[p] = "read" /\ taken[p] \in Nat
    BY <1>8 DEF ReadPage, TypeOK
  <2>4. UNCHANGED <<cutoff, taken, promised, quiet>>
    BY <1>8 DEF ReadPage
  <2>5. Batch = 0 => prefix = {}
    BY IdsAre DEF OldPrefix, Rows
  <2>6. Batch = 0 => \A q \in Pruners : page'[q] = None /\ taken'[q] = 0
    BY <1>8, <2>4, <2>5 DEF ReadPage, Counting
  <2> HIDE DEF prefix
  <2>7. ASSUME NEW q \in Pruners, quiet[q]
        PROVE  /\ ppc'[q] \in {"read", "delete"} =>
                    taken[q] + CountPrunable(cutoff[q])' = promised[q]
               /\ ppc'[q] = "done" => taken[q] = IF Batch = 0 THEN 0 ELSE promised[q]
    <3>1. q = p
      BY DEF OnePruner
    <3>2. taken[p] + CountPrunable(cutoff[p]) = promised[p]
      BY <2>3, <2>7, <3>1 DEF Counting
    <3>3. Batch = 0 => taken[p] = 0
      BY DEF Counting
    <3>4. QED
      BY <2>1, <2>2, <2>3, <2>4, <3>1, <3>2, <3>3
  <2>8. QED
    BY <2>4, <2>6, <2>7 DEF Counting
<1>9. ASSUME NEW p \in Pruners, DeletePage(p) PROVE Counting'
  <2> DEFINE c == cutoff[p]
  <2>1. /\ CountPrunable(c) \in Nat /\ CountPrunable(c)' \in Nat
        /\ CountPrunable(c) = page[p].removed + CountPrunable(c)'
        /\ page[p].short => CountPrunable(c)' = 0
    <3>1. \A d : d = cutoff[p] =>
            /\ CountPrunable(d) \in Nat /\ CountPrunable(d)' \in Nat
            /\ CountPrunable(d) = page[p].removed + CountPrunable(d)'
            /\ page[p].short => CountPrunable(d)' = 0
      BY <1>9, DeleteCounts
    <3>2. cutoff' = cutoff
      BY <1>9 DEF DeletePage
    <3>3. QED
      BY <3>1, <3>2
  <2>2. /\ taken'[p] = taken[p] + page[p].removed
        /\ ppc'[p] = IF page[p].short THEN "done" ELSE "read"
        /\ ppc[p] = "delete" /\ taken[p] \in Nat /\ page[p] \in Page
    BY <1>9 DEF DeletePage, PageDone, TypeOK
  <2>3. UNCHANGED <<cutoff, promised, quiet>>
    BY <1>9 DEF DeletePage
  <2>4. \A q \in Pruners : q = p
    BY DEF OnePruner
  <2>5. page[p].removed \in Nat
    BY <2>2 DEF Page
  <2>6. quiet[p] => taken[p] + CountPrunable(c) = promised[p]
    BY <2>2 DEF Counting
  <2>7. quiet[p] => taken'[p] + CountPrunable(c)' = promised[p]
    BY <2>1, <2>2, <2>5, <2>6
  <2>8. Batch # 0
    BY <2>2, <1>9 DEF Counting, TypeOK
  <2>9. ASSUME NEW q \in Pruners, quiet[q]
        PROVE  /\ ppc'[q] \in {"read", "delete"} =>
                    taken'[q] + CountPrunable(cutoff[q])' = promised[q]
               /\ ppc'[q] = "done" => taken'[q] = promised[q]
    BY <2>1, <2>2, <2>4, <2>5, <2>7, <2>9
  <2>10. QED
    BY <2>3, <2>8, <2>9 DEF Counting
<1>10. ASSUME NEW p \in Pruners, PruneFails(p) PROVE Counting'
  <2>1. \A d : CountPrunable(d)' = CountPrunable(d)
    BY <1>1, <1>10 DEF PruneFails, db
  <2>2. QED
    BY <1>10, <2>1 DEF PruneFails, TypeOK, Counting
<1>11. QED
  BY <1>3, <1>4, <1>5, <1>6, <1>7, <1>8, <1>9, <1>10 DEF Next

\* The empty log satisfies the invariant.
LEMMA InitInv == Init => IInv
<1> SUFFICES ASSUME Init PROVE IInv
  OBVIOUS
<1> USE TimeAssumption DEF Init
<1>1. Ids = {} /\ Start = 0 /\ Removed = 0 /\ seq = 0
  BY DEF Ids, Start, Removed
<1>2. TypeOK
  BY <1>1 DEF TypeOK, Hash, Genesis
<1>3. Rows /\ Links /\ Anchors /\ Appending /\ Paging /\ Counting
  BY <1>1 DEF Rows, Links, Anchors, Appending, Paging, Counting
<1>4. QED
  BY <1>2, <1>3 DEF IInv

\* IInv is inductive when one server appends and one prune runs at a time.
LEMMA IInvInvariant == ASSUME OneServer, OnePruner PROVE Spec => []IInv
<1>1. IInv /\ [Next]_vars => IInv'
  BY TypeStep, CoreStep, CountingStep DEF IInv
<1>2. QED
  BY InitInv, <1>1, PTL DEF Spec

\* Type correctness for any clock, batch and number of rows: nothing is read that is not there.
THEOREM TypeCorrect == ASSUME OneServer, OnePruner PROVE Spec => []TypeOK
<1>1. IInv => TypeOK
  BY DEF IInv
<1>2. QED
  BY IInvInvariant, <1>1, PTL

\* verify() calls no log tampered with that only a server and a prune have written,
\* whenever it looks and whatever failed before.
THEOREM HealthyLogsVerify == ASSUME OneServer, OnePruner PROVE Spec => []HealthyLogVerifies
<1>1. IInv => HealthyLogVerifies
  <2> SUFFICES ASSUME IInv PROVE Verifies
    BY DEF HealthyLogVerifies
  <2> USE DEF IInv
  <2>1. Ids = (Start + 1)..(Start + Cardinality(Ids))
    <3>1. Start + Cardinality(Ids) = seq
      BY IdsAre DEF Rows
    <3>2. QED
      BY <3>1 DEF Rows
  <2>2. Ids # {} => anchor # None
    BY IdsAre DEF Anchors, Rows
  <2>3. Walked = Tip
    BY IdsAre DEF Walked, Tip
  <2>4. anchor # None => anchor.count = Cardinality(Ids) + Removed /\ anchor.head = Walked
    BY <2>3, IdsAre DEF Anchors, Rows
  <2>5. Ids = {} /\ seq > 0 => mark # None /\ mark.id = seq
    BY IdsAre DEF Rows, Start
  <2>6. QED
    BY <2>1, <2>2, <2>4, <2>5 DEF Verifies, Links
<1>2. QED
  BY IInvInvariant, <1>1, PTL

\* The watermark names the rows that are gone and counts them.
THEOREM WatermarkIsExact == ASSUME OneServer, OnePruner PROVE Spec => []WatermarkExact
<1>1. IInv => WatermarkExact
  BY DEF IInv, WatermarkExact, Rows, Anchors
<1>2. QED
  BY IInvInvariant, <1>1, PTL

\* A prune removes as many rows as its dry run said, in however many batches.
THEOREM DryRunIsHonest == ASSUME OneServer, OnePruner PROVE Spec => []PruneTakesWhatItPromised
<1>1. IInv => PruneTakesWhatItPromised
  BY DEF IInv, Counting, PruneTakesWhatItPromised
<1>2. QED
  BY IInvInvariant, <1>1, PTL

\* What a step may take from the log.
OldPrefixTaken ==
  \A i \in Ids \ Ids' :
    /\ \E p \in Pruners : ppc[p] = "delete" /\ log[i].ts < cutoff[p]
    /\ \A j \in Ids : j < i => j \notin Ids'

\* Only a deleted page takes rows, and it takes them from the old end.
LEMMA TakenStep == ASSUME OnePruner, IInv, [Next]_vars PROVE [OldPrefixTaken]_vars
<1> USE DEF IInv
<1>1. ASSUME NEW p \in Pruners, DeletePage(p) PROVE OldPrefixTaken
  <2>1. Ids' = (page[p].id + 1)..seq /\ page[p].id \in Ids /\ ppc[p] = "delete"
        /\ \A j \in Ids : j <= page[p].id => log[j].ts < cutoff[p]
    BY <1>1, DeleteKeeps DEF Rows, DeletePage, Paging, TypeOK
  <2>2. \A i \in Ids \ Ids' : i <= page[p].id
    BY <2>1 DEF Rows
  <2>3. \A i \in Ids \ Ids' : \A j \in Ids : j < i => j \notin Ids'
    BY <2>1, <2>2 DEF Rows
  <2>4. QED
    BY <2>1, <2>2, <2>3 DEF OldPrefixTaken
<1>2. ASSUME log' = log PROVE OldPrefixTaken
  BY <1>2 DEF OldPrefixTaken, Ids
<1>3. ASSUME NEW s \in Servers, Insert(s) PROVE OldPrefixTaken
  BY <1>3 DEF Insert, OldPrefixTaken, Ids
<1>4. QED
  BY <1>1, <1>2, <1>3 DEF Next, vars, db, Clock, Emit, ReadHead, ReadWatermark, AppendFails,
     PruneStart, ReadPage, PruneFails

\* No prune ever takes a row that is young, or that lies behind a young one.
THEOREM OnlyTheOldGo == ASSUME OneServer, OnePruner PROVE Spec => OnlyOldPrefixGoes
<1>1. IInv /\ [Next]_vars => [OldPrefixTaken]_vars
  BY TakenStep
<1>2. QED
  BY IInvInvariant, <1>1, PTL DEF Spec, OnlyOldPrefixGoes, OldPrefixTaken

\* What the trail's history stands for in the log.
History == IF anchor = None THEN Genesis ELSE anchor.head

\* The rows a reader finds, oldest first, and how many.
ShownFacts ==
  /\ Shown = [k \in 1..(seq - Start) |-> log[Start + k].ts]
  /\ Shown \in Seq(Time) /\ Len(Shown) = seq - Start
  /\ History = Tip

\* The rows are shown in the order of their ids, and the anchor is the tip of their chain.
LEMMA ShownIs == IInv => ShownFacts
<1> SUFFICES ASSUME IInv PROVE ShownFacts
  OBVIOUS
<1> USE DEF IInv
<1> DEFINE Nth(k) == CHOOSE i \in Ids : Cardinality({j \in Ids : j <= i}) = k
<1>1. Cardinality(Ids) = seq - Start /\ seq - Start \in Nat
  BY IdsAre DEF Rows
<1>2. ASSUME NEW i \in Ids PROVE Cardinality({j \in Ids : j <= i}) = i - Start
  <2>1. {j \in Ids : j <= i} = (Start + 1)..i
    BY DEF Rows
  <2>2. i \in Nat /\ Start \in Nat /\ Start <= i
    BY DEF Rows
  <2>3. Cardinality((Start + 1)..i) = i - Start
    BY <2>2, Interval
  <2>4. QED
    BY <2>1, <2>3, Zenon
<1>3. ASSUME NEW k \in 1..(seq - Start) PROVE Nth(k) = Start + k
  <2>1. Start + k \in Ids /\ Cardinality({j \in Ids : j <= Start + k}) = k
    <3>1. Start + k \in Ids /\ (Start + k) - Start = k
      BY DEF Rows
    <3>2. QED
      BY <1>2, <3>1
  <2>2. \A i \in Ids : Cardinality({j \in Ids : j <= i}) = k => i = Start + k
    <3>1. \A i \in Ids : i - Start = k => i = Start + k
      BY DEF Rows
    <3>2. QED
      BY <1>2, <3>1
  <2>3. QED
    BY <2>1, <2>2, Zenon
<1>4. Shown = [k \in 1..(seq - Start) |-> log[Start + k].ts]
  <2>1. Shown = [k \in 1..Cardinality(Ids) |-> log[Nth(k)].ts]
    BY DEF Shown
  <2> HIDE DEF Nth
  <2>2. \A k \in 1..(seq - Start) : log[Nth(k)].ts = log[Start + k].ts
    BY <1>3, Zenon
  <2>3. QED
    BY <1>1, <2>1, <2>2
<1>5. \A k \in 1..(seq - Start) : log[Start + k].ts \in Time
  <2>1. \A k \in 1..(seq - Start) : Start + k \in Ids
    BY DEF Rows
  <2>2. QED
    BY <2>1 DEF TypeOK, Row
<1>6. Shown \in Seq(Time) /\ Len(Shown) = seq - Start
  BY <1>1, <1>4, <1>5
<1>7. History = Tip
  <2>1. CASE anchor = None
    <3>1. mark = None /\ Start = seq
      BY <2>1 DEF Anchors, Rows
    <3>2. QED
      BY <2>1, <3>1 DEF History, Tip, Root
  <2>2. QED
    BY <2>1 DEF History, Anchors
<1>8. QED
  BY <1>4, <1>6, <1>7 DEF ShownFacts

\* A sequence that is one longer and agrees with another is that one with its last appended.
LEMMA AppendIs ==
  ASSUME NEW T, NEW u \in Seq(T), NEW e \in T, NEW r \in Seq(T), Len(r) = Len(u) + 1,
         \A k \in 1..Len(u) : r[k] = u[k], r[Len(u) + 1] = e
  PROVE  r = Append(u, e)
<1> DEFINE a == Append(u, e)
<1>1. a \in Seq(T) /\ Len(a) = Len(u) + 1
  OBVIOUS
<1>2. \A k \in 1..Len(u) : a[k] = u[k]
  OBVIOUS
<1>3. a[Len(u) + 1] = e
  OBVIOUS
<1> HIDE DEF a
<1>4. Len(u) \in Nat
  OBVIOUS
<1>5. \A k \in 1..Len(r) : r[k] = a[k]
  BY <1>2, <1>3, <1>4
<1>6. r = a
  BY <1>1, <1>5, SeqEqual
<1>7. QED
  BY <1>6 DEF a

\* A sequence that agrees with another from its n-th element on is what remains after n.
LEMMA SubSeqIs ==
  ASSUME NEW T, NEW u \in Seq(T), NEW n \in 1..Len(u), NEW r \in Seq(T),
         Len(r) = Len(u) - n, \A k \in 1..(Len(u) - n) : r[k] = u[n + k]
  PROVE  r = SubSeq(u, n + 1, Len(u))
<1> DEFINE a == SubSeq(u, n + 1, Len(u))
<1>1. Len(u) \in Nat /\ n + 1 \in Int /\ \A i \in (n + 1)..Len(u) : u[i] \in T
  OBVIOUS
<1>2. /\ a \in Seq(T)
      /\ Len(a) = IF n + 1 <= Len(u) THEN Len(u) - (n + 1) + 1 ELSE 0
      /\ \A i \in 1 .. Len(u) - (n + 1) + 1 : a[i] = u[(n + 1) + i - 1]
  BY <1>1, SubSeqProperties
<1> HIDE DEF a
<1>3. Len(a) = Len(r)
  BY <1>1, <1>2
<1>4. ASSUME NEW k \in 1..Len(r) PROVE r[k] = a[k]
  <2>1. k \in 1..(Len(u) - n) /\ k \in 1 .. Len(u) - (n + 1) + 1 /\ (n + 1) + k - 1 = n + k
    BY <1>1
  <2>2. a[k] = u[(n + 1) + k - 1]
    BY <1>2, <2>1
  <2>3. QED
    BY <2>1, <2>2
<1>5. r = a
  BY <1>2, <1>3, <1>4, SeqEqual
<1>6. QED
  BY <1>5 DEF a

\* An append records an event at the end of the trail.
LEMMA InsertRecords ==
  ASSUME OneServer, IInv, IInv', NEW s \in Servers, Insert(s)
  PROVE  /\ ts[s] \in Time /\ History' = Append(History, ts[s])
         /\ Shown' = Append(Shown, ts[s])
<1>f. ShownFacts /\ ShownFacts'
  <2>1. IInv' => ShownFacts'
    BY ShownIs, PTL
  <2>2. QED
    BY <2>1, ShownIs
<1>1. ts[s] \in Time /\ prev[s] = Tip
  BY DEF IInv, TypeOK, Insert, Appending
<1>2. Start' = Start /\ seq' = seq + 1 /\ Start \in Nat /\ seq \in Nat /\ Start <= seq
  BY DEF Insert, Start, IInv, Rows
<1>3. /\ \A i \in Ids : log'[i] = log[i]
      /\ log'[seq + 1] = [ts |-> ts[s], prev |-> prev[s], hash |-> Chain(prev[s], ts[s])]
  BY DEF Insert, IInv, Rows, Ids
<1>4. History' = Append(History, ts[s])
  <2>1. Tip' = Chain(prev[s], ts[s])
    BY <1>2, <1>3 DEF Tip
  <2>2. History = Tip /\ History' = Tip'
    BY <1>f DEF ShownFacts
  <2>3. QED
    BY <1>1, <2>1, <2>2 DEF Chain
<1>5. Shown' = Append(Shown, ts[s])
  <2>1. Shown' = [k \in 1..(seq + 1 - Start) |-> log'[Start + k].ts]
    BY <1>2, <1>f DEF ShownFacts
  <2>2. Shown = [k \in 1..(seq - Start) |-> log[Start + k].ts]
        /\ Shown \in Seq(Time) /\ Len(Shown) = seq - Start
    BY <1>f DEF ShownFacts
  <2>3. \A k \in 1..(seq - Start) : log'[Start + k].ts = log[Start + k].ts
    BY <1>2, <1>3 DEF IInv, Rows
  <2>4. log'[Start + (seq + 1 - Start)].ts = ts[s]
    <3>1. Start + (seq + 1 - Start) = seq + 1
      BY <1>2
    <3>2. QED
      BY <1>3, <3>1
  <2>5. Len(Shown) \in Nat /\ Len(Shown') = Len(Shown) + 1 /\ Shown' \in Seq(Time)
    BY <1>2, <1>f DEF ShownFacts
  <2>6. \A k \in 1..Len(Shown) : Shown'[k] = Shown[k]
    BY <1>2, <2>1, <2>2, <2>3
  <2>7. Shown'[Len(Shown) + 1] = ts[s]
    BY <1>2, <2>1, <2>2, <2>4
  <2>8. QED
    BY <1>1, <2>2, <2>5, <2>6, <2>7, AppendIs
<1>6. QED
  BY <1>1, <1>4, <1>5

\* A deleted page retires the oldest events.
LEMMA DeleteRetires ==
  ASSUME OnePruner, IInv, IInv', NEW p \in Pruners, DeletePage(p)
  PROVE  /\ History' = History
         /\ \E n \in 1..Len(Shown) : Shown' = SubSeq(Shown, n + 1, Len(Shown))
<1> DEFINE n == page[p].id - Start
<1>f. ShownFacts /\ ShownFacts'
  <2>1. IInv' => ShownFacts'
    BY ShownIs, PTL
  <2>2. QED
    BY <2>1, ShownIs
<1>1. /\ Start' = page[p].id /\ seq' = seq /\ \A i \in Ids' : log'[i] = log[i]
      /\ anchor' = anchor
  BY DeleteKeeps DEF DeletePage
<1>2. /\ Start \in Nat /\ seq \in Nat /\ page[p].id \in Nat
      /\ Start < page[p].id /\ page[p].id <= seq
  BY DEF DeletePage, IInv, TypeOK, Paging, Rows
<1>3. /\ Shown = [k \in 1..(seq - Start) |-> log[Start + k].ts]
      /\ Shown \in Seq(Time) /\ Len(Shown) = seq - Start
      /\ Shown' = [k \in 1..(seq - page[p].id) |-> log'[page[p].id + k].ts]
  BY <1>1, <1>f DEF ShownFacts
<1>4. \A k \in 1..(seq - page[p].id) : log'[page[p].id + k].ts = log[page[p].id + k].ts
  BY <1>1, <1>2 DEF IInv, Rows
<1>5. n \in 1..Len(Shown)
  BY <1>2, <1>3
<1>6. Len(Shown') = Len(Shown) - n /\ Shown' \in Seq(Time)
  BY <1>1, <1>2, <1>3, <1>f DEF ShownFacts
<1>7. \A k \in 1..(seq - page[p].id) : n + k \in 1..(seq - Start) /\ Start + (n + k) = page[p].id + k
  BY <1>2
<1>8. \A k \in 1..(Len(Shown) - n) : Shown'[k] = Shown[n + k]
  <2>1. Len(Shown) - n = seq - page[p].id
    BY <1>2, <1>3
  <2> HIDE DEF n
  <2>2. QED
    BY <1>3, <1>4, <1>7, <2>1
<1>9. Shown' = SubSeq(Shown, n + 1, Len(Shown))
  <2> HIDE DEF n
  <2>1. QED
    BY <1>3, <1>5, <1>6, <1>8, SubSeqIs
<1>10. History' = History
  BY <1>1 DEF History
<1>11. QED
  BY <1>5, <1>9, <1>10

\* ImplementsTrail: an append records an event, a deleted page retires the oldest ones, and
\* nothing else a server or a prune does is seen by a reader.
THEOREM LogImplementsTrail == ASSUME OneServer, OnePruner PROVE Spec => ImplementsTrail
<1>1. Init => Trail!Init
  <2> SUFFICES ASSUME Init PROVE Trail!Init
    OBVIOUS
  <2>1. ShownFacts
    BY InitInv, ShownIs
  <2>2. seq = 0 /\ Start = 0 /\ anchor = None
    BY DEF Init, Start
  <2>3. Shown = <<>>
    BY <2>1, <2>2 DEF ShownFacts
  <2>4. QED
    BY <2>2, <2>3 DEF Trail!Init, Genesis
<1>2. IInv /\ IInv' /\ [Next]_vars => [Trail!Next]_<<History, Shown>>
  <2> SUFFICES ASSUME IInv, IInv', [Next]_vars PROVE [Trail!Next]_<<History, Shown>>
    OBVIOUS
  <2>1. ASSUME NEW s \in Servers, Insert(s) PROVE Trail!Next
    BY <2>1, InsertRecords DEF Trail!Next, Trail!Record, History
  <2>2. ASSUME NEW p \in Pruners, DeletePage(p) PROVE Trail!Next
    BY <2>2, DeleteRetires DEF Trail!Next, Trail!Retire, History
  <2>3. ASSUME UNCHANGED <<log, anchor>> PROVE UNCHANGED <<History, Shown>>
    BY <2>3 DEF History, Shown, Ids
  <2>4. QED
    BY <2>1, <2>2, <2>3
       DEF Next, vars, db, Clock, Emit, ReadHead, ReadWatermark, AppendFails, PruneStart,
           ReadPage, PruneFails
<1>3. QED
  BY <1>1, <1>2, IInvInvariant, PTL DEF Spec, ImplementsTrail, Trail!Spec, History
=============================================================================
