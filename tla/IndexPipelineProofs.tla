------------------------- MODULE IndexPipelineProofs -------------------------
(***************************************************************************)
(* Safety of IndexPipeline for every tree, parser and bound.               *)
(***************************************************************************)
EXTENDS IndexPipeline, TLAPS

\* A file is only written after its parse.
ReadBeforeWrite == pc \in Writing \ {"read"} => got[cur] # None

TypeInv == TypeOK /\ ReadBeforeWrite

----------------------------------------------------------------------------
\* The parser returns symbols.
LEMMA ParseType ==
  ASSUME NEW v \in Versions
  PROVE  \A i \in DOMAIN Parse[v] : i \in Nat /\ Parse[v][i] \in Symbol
<1>1. Parse[v] \in Seq(Symbol)
  BY ParseAssumption
<1>2. QED
  BY <1>1

\* Rows to insert are rows, told apart by their local index, one for every symbol of the
\* parse that is not unchanged.
LEMMA NewRowsFacts ==
  ASSUME nextTxn \in Nat, got[cur] \in Versions
  PROVE  /\ NewRows \subseteq Row
         /\ \A q, r \in NewRows : q.id[2] = r.id[2] => q = r
         /\ \A r \in NewRows : r.sym \in SymsOf(got[cur]) \ Unchanged
         /\ \A s \in SymsOf(got[cur]) \ Unchanged : \E r \in NewRows : r.sym = s
         /\ \A q, r \in NewRows :
              q.sym.name = r.sym.name => q = r \/ r.sym.name \in Twice(got[cur])
         /\ \A r \in NewRows, s \in Unchanged :
              s.name = r.sym.name => r.sym.name \in Twice(got[cur])
<1> DEFINE parsed == Parse[got[cur]]
           row(i) == [id |-> <<nextTxn, i>>, sym |-> parsed[i]]
<1>1. \A i \in DOMAIN parsed : i \in Nat /\ parsed[i] \in Symbol
  BY ParseType
<1>2. NewRows = {row(i) : i \in {k \in DOMAIN parsed : parsed[k] \notin Unchanged}}
  BY DEF NewRows
<1>3. \A i \in DOMAIN parsed : row(i).id[2] = i /\ row(i).sym = parsed[i] /\ row(i) \in Row
  BY <1>1 DEF Row, RowId
<1>4. SymsOf(got[cur]) = {parsed[i] : i \in DOMAIN parsed}
  BY DEF SymsOf
<1>5. Unchanged \subseteq SymsOf(got[cur])
  BY DEF Unchanged
<1>6. \A i, j \in DOMAIN parsed :
        i # j /\ parsed[i].name = parsed[j].name => parsed[i].name \in Twice(got[cur])
  BY <1>1 DEF Twice, Symbol
<1> HIDE DEF parsed, row
<1>7. \A r \in NewRows : \E i \in DOMAIN parsed : r = row(i) /\ parsed[i] \notin Unchanged
  BY <1>2
<1>8. NewRows \subseteq Row
  BY <1>3, <1>7
<1>9. \A q, r \in NewRows : q.id[2] = r.id[2] => q = r
  BY <1>3, <1>7
<1>10. \A r \in NewRows : r.sym \in SymsOf(got[cur]) \ Unchanged
  BY <1>3, <1>4, <1>7
<1>11. \A s \in SymsOf(got[cur]) \ Unchanged : \E r \in NewRows : r.sym = s
  BY <1>2, <1>3, <1>4
<1>12. ASSUME NEW q \in NewRows, NEW r \in NewRows, q.sym.name = r.sym.name, q # r
       PROVE  r.sym.name \in Twice(got[cur])
  BY <1>3, <1>6, <1>7, <1>12
<1>13. ASSUME NEW r \in NewRows, NEW s \in Unchanged, s.name = r.sym.name
       PROVE  r.sym.name \in Twice(got[cur])
  <2>1. PICK i \in DOMAIN parsed : r = row(i) /\ parsed[i] \notin Unchanged
    BY <1>7
  <2>2. PICK j \in DOMAIN parsed : s = parsed[j]
    BY <1>4, <1>5
  <2>3. QED
    BY <1>3, <1>6, <1>13, <2>1, <2>2
<1>14. QED
  BY <1>8, <1>9, <1>10, <1>11, <1>12, <1>13

\* The initial state is well typed.
LEMMA TypeInit == Init => TypeInv
<1> SUFFICES ASSUME Init PROVE TypeInv
  OBVIOUS
<1>1. scanned \in BOOLEAN /\ errs \in BOOLEAN /\ abort \in BOOLEAN
  BY Zenon DEF Init
<1>2. QED
  BY <1>1, NoneAssumption DEF Init, TypeInv, TypeOK, ReadBeforeWrite, Writing

\* Every step keeps the types and the order of reading and writing.
LEMMA TypeStep == TypeInv /\ [Next]_vars => TypeInv'
<1> SUFFICES ASSUME TypeInv, [Next]_vars PROVE TypeInv'
  OBVIOUS
<1> USE NoneAssumption, BoundAssumption
    DEF TypeInv, TypeOK, ReadBeforeWrite, Writing, db, work, embed, ghosts
<1>1. ASSUME NEW f \in Files, NEW v \in Versions \cup {None}, Edit(f, v) PROVE TypeInv'
  BY <1>1 DEF Edit
<1>2. ASSUME NEW w \in SUBSET Present, NEW i \in BOOLEAN, StartBatch(i, w)
      PROVE  TypeInv'
  <2>1. scanned' \in BOOLEAN /\ errs' \in BOOLEAN /\ abort' \in BOOLEAN
    BY <1>2, Zenon DEF StartBatch, Walk, Spend, Scan, Present, Holes, IdsOf, Chunk, Fault, NoFault
  <2>2. QED
    BY <1>2, <2>1 DEF StartBatch, Walk, Spend, Scan, Present, Holes, IdsOf, Chunk, Fault, NoFault
<1>3. ASSUME NEW w \in SUBSET Present, StartStream(w) PROVE TypeInv'
  <2>1. scanned' \in BOOLEAN /\ errs' \in BOOLEAN /\ abort' \in BOOLEAN
    BY <1>3, Zenon DEF StartStream, StartFiles
  <2>2. QED
    BY <1>3, <2>1 DEF StartStream, StartFiles, Walk, Spend, Fault, NoFault, Present
<1>4. ASSUME NEW f \in Files, StartWatch(f) PROVE TypeInv'
  <2>1. scanned' \in BOOLEAN /\ errs' \in BOOLEAN /\ abort' \in BOOLEAN
    BY <1>4, Zenon DEF StartWatch, StartFiles
  <2>2. QED
    BY <1>4, <2>1 DEF StartWatch, StartFiles, NoFault
<1>5. ASSUME NEW f \in Files, RemoveRows(f) PROVE TypeInv'
  BY <1>5 DEF RemoveRows, IdsOf, Chunk
<1>6. ASSUME NEW f \in Files, ParseFile(f) PROVE TypeInv'
  <2>1. scanned' \in BOOLEAN /\ errs' \in BOOLEAN /\ abort' \in BOOLEAN
    BY <1>6, Zenon DEF ParseFile, Fault, NoFault
  <2>2. QED
    BY <1>6, <2>1 DEF ParseFile, Fault, NoFault
<1>7. ASSUME NEW f \in Files, SkipFile(f) PROVE TypeInv'
  <2>1. scanned' \in BOOLEAN /\ errs' \in BOOLEAN /\ abort' \in BOOLEAN
    BY <1>7, Zenon DEF SkipFile
  <2>2. QED
    BY <1>7, <2>1 DEF SkipFile
<1>8. ASSUME NEW f \in Files, HashFile(f) PROVE TypeInv'
  BY <1>8 DEF HashFile
<1>9. ASSUME NEW f \in Files, TakeParsed(f) PROVE TypeInv'
  BY <1>9 DEF TakeParsed
<1>10. CASE ReadFile
  <2>1. scanned' \in BOOLEAN /\ errs' \in BOOLEAN /\ abort' \in BOOLEAN
    BY <1>10, Zenon DEF ReadFile
  <2>2. QED
    BY <1>10, <2>1 DEF ReadFile, Fault, NoFault
<1>11. CASE UpsertFile
  BY <1>11 DEF UpsertFile
<1>12. CASE DropVectors
  BY <1>12 DEF DropVectors
<1>13. CASE DropSymbols
  BY <1>13 DEF DropSymbols
<1>14. CASE InsertSymbols
  <2>1. nextTxn' \in Nat /\ NewRows \subseteq Row
    BY <1>14, NewRowsFacts DEF InsertSymbols
  <2>2. doubled' \in [Files -> SUBSET Names]
    BY <1>14 DEF InsertSymbols, Twice
  <2>3. QED
    BY <1>14, <2>1, <2>2 DEF InsertSymbols, Written, Settle
<1>15. CASE InsertChunks
  BY <1>15 DEF InsertChunks, Written, Settle, Chunk, Work, ChunkId, Row, RowId
<1>16. CASE WriteError
  <2>1. scanned' \in BOOLEAN /\ errs' \in BOOLEAN /\ abort' \in BOOLEAN
    BY <1>16, Zenon DEF WriteError, Written, Fault
  <2>2. QED
    BY <1>16, <2>1 DEF WriteError, Written, Fault
<1>17. CASE Fold
  BY <1>17 DEF Fold, WorkFor, Chunk, Row, Work
<1>18. CASE Reconcile
  <2>1. scanned' \in BOOLEAN /\ errs' \in BOOLEAN /\ abort' \in BOOLEAN
    BY <1>18, Zenon DEF Reconcile, Scan
  <2>2. repair' \subseteq ChunkId
    BY <1>18 DEF Reconcile, Scan, Holes, IdsOf, Chunk
  <2>3. queue' \subseteq Work
    BY <1>18, <2>2 DEF Reconcile, WorkFor, Chunk, Row, Work
  <2>4. QED
    BY <1>18, <2>1, <2>2, <2>3 DEF Reconcile, Spend, Scan, Fault, NoFault
<1>19. ASSUME NEW b \in SUBSET queue, EmbedBatch(b) PROVE TypeInv'
  BY <1>19 DEF EmbedBatch, Embedding, IdsOf, Work, Vector
<1>20. ASSUME NEW b \in SUBSET queue, EmbedError(b) PROVE TypeInv'
  BY <1>20 DEF EmbedError, Embedding, IdsOf, Work, Fault
<1>21. CASE FileDone
  BY <1>21 DEF FileDone
<1>22. CASE RunDone
  BY <1>22 DEF RunDone, Reset
<1>23. CASE RemoveVectors
  BY <1>23 DEF RemoveVectors
<1>24. CASE Crash
  <2>1. torn' \subseteq Files
    BY <1>24 DEF Crash
  <2>2. got' \in [Files -> Versions \cup {None}]
    BY <1>24 DEF Crash, Reset
  <2>3. leaked' \subseteq ChunkId /\ doomed' = {}
    BY <1>24 DEF Crash
  <2>4. /\ disk' = disk /\ fileRow' = fileRow /\ symbols' = symbols /\ chunks' = chunks
        /\ nextTxn' = nextTxn /\ vectors' = vectors /\ seen' = seen /\ scanned' = scanned
        /\ billed' = billed /\ errs' = errs /\ suspect' = suspect /\ edits' = edits
        /\ doubled' = doubled /\ unwalked' = unwalked /\ faults' = faults + 1
        /\ mode' = "none" /\ pc' = "idle" /\ todo' = {} /\ cur' = None
        /\ fresh' = {} /\ queue' = {} /\ repair' = {} /\ abort' = FALSE /\ report' = "none"
    BY <1>24 DEF Crash, Reset, Fault
  <2>5. scanned' \in BOOLEAN /\ errs' \in BOOLEAN /\ abort' \in BOOLEAN
    BY <2>4, Zenon
  <2>6. QED
    BY <2>1, <2>2, <2>3, <2>4, <2>5
<1>25. CASE UNCHANGED vars
  BY <1>25 DEF vars
<1> HIDE DEF TypeInv
<1>26. QED
  BY <1>1, <1>2, <1>3, <1>4, <1>5, <1>6, <1>7, <1>8, <1>9, <1>10, <1>11, <1>12, <1>13,
     <1>14, <1>15, <1>16, <1>17, <1>18, <1>19, <1>20, <1>21, <1>22, <1>23, <1>24, <1>25
  DEF Next, Run

\* Type correctness of the pipeline for every instance.
THEOREM TypeCorrect == Spec => []TypeOK
<1>1. Spec => []TypeInv
  BY TypeInit, TypeStep, PTL DEF Spec
<1>2. TypeInv => TypeOK
  BY DEF TypeInv
<1>3. QED
  BY <1>1, <1>2, PTL

----------------------------------------------------------------------------
(* The inductive invariant behind the safety properties.                   *)

Rewriting == {"upsert", "unembed", "drop", "insert", "chunk"}

\* Which entry point can be where, and which working variables are in use there.
Control ==
  /\ mode = "none" <=> pc = "idle"
  /\ mode = "remove" <=> pc = "unvector"
  /\ mode = "batch" => pc \in {"parse", "embed"} \cup Rewriting
  /\ pc = "parse" => mode = "batch"
  /\ pc # "unvector" => doomed = {}
  /\ cur \notin todo
  /\ pc = "embed" => todo = {}
  /\ mode = "batch" /\ pc \in Rewriting => todo = {}
  /\ \A f \in Files : got[f] # None =>
       (f = cur /\ pc \in Rewriting) \/ (mode = "batch" /\ pc # "embed")
  /\ fresh # {} => pc = "chunk"
  /\ queue # {} => pc \in {"embed", "embedFile"} \/ (mode = "batch" /\ todo = {})
  /\ abort => pc \in {"embed", "embedFile"}

\* Row ids are handed out once: nothing knows an id the sequence has not reached.
IdsDrawn ==
  /\ \A c \in chunks : c.id[1] < nextTxn
  /\ \A v \in vectors : v.id[1] < nextTxn
  /\ \A i \in billed : i[1] < nextTxn
  /\ \A c, d \in chunks : c.id = d.id => c = d

\* How far the rewrite of the current file has come.
RewriteInv ==
  /\ pc \in Rewriting \ {"upsert"} => cur \in suspect /\ fileRow[cur] = seen[cur]
  /\ pc = "drop" => \A v \in vectors : v.id \notin StaleIds
  /\ pc = "insert" => Stale = {}
  /\ pc = "chunk" => /\ Mirrors(symbols[cur], doubled[cur], got[cur])
                     /\ fresh \subseteq symbols[cur]
                     /\ \A q, r \in fresh : q.id[2] = r.id[2] => q = r

\* Only a name that came more than once in what was written has more than one row.
OneRow ==
  \A f \in Files : \A q, r \in symbols[f] :
    q.sym.name = r.sym.name => q = r \/ r.sym.name \in doubled[f]

\* A queued id is a live row with that text, of a file this run is through with.
QueueInv ==
  \A w \in queue : \E c \in chunks :
    /\ c.id = w.id /\ c.row.sym = w.text
    /\ got[c.file] = None /\ c.file \notin todo

\* What this run has paid for so far.
PaidInv ==
  /\ mode = "batch" /\ pc # "embed" =>
       billed = {} /\ \A v \in vectors : v.id \notin repair
  /\ mode = "stream" /\ ~errs /\ ~abort =>
       \A c \in chunks : c.id \in billed =>
         c.file \notin todo /\ c.file # cur /\ c.id \in IdsOf(vectors)

IInv ==
  /\ TypeInv /\ Control /\ IdsDrawn /\ RewriteInv /\ OneRow /\ QueueInv /\ PaidInv
  /\ VectorsMatchRows /\ NoOrphanVectors /\ HashAnswersForRows /\ SymbolsHaveChunks
  /\ QueueIsUnpaid

\* The initial state satisfies the invariant.
LEMMA InitIInv == Init => IInv
<1> SUFFICES ASSUME Init PROVE IInv
  OBVIOUS
<1>1. TypeInv
  BY TypeInit
<1>2. Control /\ IdsDrawn /\ RewriteInv /\ OneRow /\ QueueInv /\ PaidInv
  BY NoneAssumption
  DEF Init, Control, IdsDrawn, RewriteInv, OneRow, QueueInv, PaidInv, Rewriting
<1>3. VectorsMatchRows /\ NoOrphanVectors /\ HashAnswersForRows /\ SymbolsHaveChunks
      /\ QueueIsUnpaid
  BY DEF Init, VectorsMatchRows, NoOrphanVectors, HashAnswersForRows, SymbolsHaveChunks,
         QueueIsUnpaid, IdsOf
<1>4. QED
  BY <1>1, <1>2, <1>3 DEF IInv

\* No step leaves the control structure.
LEMMA ControlStep == TypeInv /\ Control /\ [Next]_vars => Control'
<1> SUFFICES ASSUME TypeInv, Control, [Next]_vars PROVE Control'
  OBVIOUS
<1> USE NoneAssumption
    DEF TypeInv, TypeOK, ReadBeforeWrite, Writing, Rewriting, Control, db, work, embed, ghosts
<1>1. ASSUME NEW f \in Files, NEW v \in Versions \cup {None}, Edit(f, v) PROVE Control'
  BY <1>1 DEF Edit
<1>2. ASSUME NEW w \in SUBSET Present, NEW i \in BOOLEAN, StartBatch(i, w)
      PROVE  Control'
  BY <1>2 DEF StartBatch, Walk, Spend, Scan, Present
<1>3. ASSUME NEW w \in SUBSET Present, StartStream(w) PROVE Control'
  BY <1>3 DEF StartStream, StartFiles, Walk, Present
<1>4. ASSUME NEW f \in Files, StartWatch(f) PROVE Control'
  BY <1>4 DEF StartWatch, StartFiles
<1>5. ASSUME NEW f \in Files, RemoveRows(f) PROVE Control'
  BY <1>5 DEF RemoveRows
<1>6. ASSUME NEW f \in Files, ParseFile(f) PROVE Control'
  BY <1>6 DEF ParseFile
<1>7. ASSUME NEW f \in Files, SkipFile(f) PROVE Control'
  BY <1>7 DEF SkipFile
<1>8. ASSUME NEW f \in Files, HashFile(f) PROVE Control'
  BY <1>8 DEF HashFile
<1>9. ASSUME NEW f \in Files, TakeParsed(f) PROVE Control'
  BY <1>9 DEF TakeParsed
<1>10. CASE ReadFile
  <2>1. cur \in Files /\ mode # "batch" /\ got[cur] = None
    BY <1>10 DEF ReadFile
  <2>2. \A f \in Files : got'[f] # None => f = cur' /\ pc' = "upsert"
    BY <1>10, <2>1 DEF ReadFile
  <2>3. QED
    BY <1>10, <2>1, <2>2 DEF ReadFile
<1>11. CASE UpsertFile
  BY <1>11 DEF UpsertFile
<1>12. CASE DropVectors
  BY <1>12 DEF DropVectors
<1>13. CASE DropSymbols
  BY <1>13 DEF DropSymbols
<1>14. CASE InsertSymbols
  BY <1>14 DEF InsertSymbols, Written, Settle
<1>15. CASE InsertChunks
  BY <1>15 DEF InsertChunks, Written, Settle
<1>16. CASE WriteError
  BY <1>16 DEF WriteError, Written, Fault
<1>17. CASE Fold
  BY <1>17 DEF Fold
<1>18. CASE Reconcile
  BY <1>18 DEF Reconcile, Scan
<1>19. ASSUME NEW b \in SUBSET queue, EmbedBatch(b) PROVE Control'
  BY <1>19 DEF EmbedBatch, Embedding
<1>20. ASSUME NEW b \in SUBSET queue, EmbedError(b) PROVE Control'
  BY <1>20 DEF EmbedError, Embedding
<1>21. CASE FileDone
  BY <1>21 DEF FileDone
<1>22. CASE RunDone
  BY <1>22 DEF RunDone, Reset
<1>23. CASE RemoveVectors
  BY <1>23 DEF RemoveVectors
<1>24. CASE Crash
  BY <1>24 DEF Crash, Reset
<1>25. CASE UNCHANGED vars
  BY <1>25 DEF vars
<1> HIDE DEF TypeInv, Control
<1>26. QED
  BY <1>1, <1>2, <1>3, <1>4, <1>5, <1>6, <1>7, <1>8, <1>9, <1>10, <1>11, <1>12, <1>13,
     <1>14, <1>15, <1>16, <1>17, <1>18, <1>19, <1>20, <1>21, <1>22, <1>23, <1>24, <1>25
  DEF Next, Run

\* Ids stay drawn from the sequence and stay unique.
LEMMA IdsStep ==
  TypeInv /\ Control /\ IdsDrawn /\ RewriteInv /\ QueueInv /\ [Next]_vars => IdsDrawn'
<1> SUFFICES ASSUME TypeInv, Control, IdsDrawn, RewriteInv, QueueInv, [Next]_vars
             PROVE IdsDrawn'
  OBVIOUS
<1> USE DEF IdsDrawn, db, work, embed, ghosts
<1>t. chunks \subseteq Chunk /\ vectors \subseteq Vector /\ nextTxn \in Nat
  BY DEF TypeInv, TypeOK
<1>q. \A w \in queue : w.id[1] < nextTxn
  BY DEF QueueInv
<1>1. ASSUME NEW f \in Files, NEW v \in Versions \cup {None}, Edit(f, v) PROVE IdsDrawn'
  BY <1>1 DEF Edit
<1>2. ASSUME NEW w \in SUBSET Present, NEW i \in BOOLEAN, StartBatch(i, w)
      PROVE  IdsDrawn'
  BY <1>2 DEF StartBatch, Walk
<1>3. ASSUME NEW w \in SUBSET Present, StartStream(w) PROVE IdsDrawn'
  BY <1>3 DEF StartStream, StartFiles, Walk
<1>4. ASSUME NEW f \in Files, StartWatch(f) PROVE IdsDrawn'
  BY <1>4 DEF StartWatch, StartFiles
<1>5. ASSUME NEW f \in Files, RemoveRows(f) PROVE IdsDrawn'
  BY <1>5 DEF RemoveRows
<1>6. ASSUME NEW f \in Files, ParseFile(f) PROVE IdsDrawn'
  BY <1>6 DEF ParseFile
<1>7. ASSUME NEW f \in Files, SkipFile(f) PROVE IdsDrawn'
  BY <1>7 DEF SkipFile
<1>8. ASSUME NEW f \in Files, HashFile(f) PROVE IdsDrawn'
  BY <1>8 DEF HashFile
<1>9. ASSUME NEW f \in Files, TakeParsed(f) PROVE IdsDrawn'
  BY <1>9 DEF TakeParsed
<1>10. CASE ReadFile
  BY <1>10 DEF ReadFile
<1>11. CASE UpsertFile
  BY <1>11 DEF UpsertFile
<1>12. CASE DropVectors
  BY <1>12 DEF DropVectors
<1>13. CASE DropSymbols
  BY <1>13 DEF DropSymbols
<1>14. CASE InsertSymbols
  <2>1. /\ nextTxn' \in {nextTxn, nextTxn + 1} /\ chunks' = chunks /\ vectors' = vectors
        /\ billed' = billed
    BY <1>14 DEF InsertSymbols
  <2>2. /\ \A c \in chunks : c.id[1] \in Nat
        /\ \A v \in vectors : v.id[1] \in Nat
        /\ \A i \in billed : i[1] \in Nat
    BY <1>t DEF Chunk, Vector, ChunkId, TypeInv, TypeOK
  <2>3. QED
    BY <2>1, <2>2, <1>t
<1>15. CASE InsertChunks
  <2> DEFINE new == {[id |-> <<nextTxn, r.id[2]>>, file |-> cur, row |-> r] : r \in fresh}
  <2>1. chunks' = chunks \cup new /\ nextTxn' = nextTxn + 1
        /\ vectors' = vectors /\ billed' = billed
    BY <1>15 DEF InsertChunks
  <2>2. \A i \in billed : i \in ChunkId
    BY DEF TypeInv, TypeOK
  <2>3. \A q, r \in fresh : q.id[2] = r.id[2] => q = r
    BY <1>15 DEF InsertChunks, RewriteInv
  <2>4. \A c, d \in new : c.id = d.id => c = d
    BY <2>3
  <2>5. \A c \in new : c.id[1] = nextTxn
    OBVIOUS
  <2>6. \A c \in chunks : c.id[1] \in Nat
    BY <1>t DEF Chunk, ChunkId
  <2>7. \A c, d \in chunks' : c.id = d.id => c = d
    BY <2>1, <2>4, <2>5, <2>6, <1>t
  <2>8. \A v \in vectors : v.id[1] \in Nat
    BY <1>t DEF Vector, ChunkId
  <2>9. \A i \in billed : i[1] \in Nat
    BY <2>2 DEF ChunkId
  <2>10. QED
    BY <2>1, <2>5, <2>6, <2>7, <2>8, <2>9, <1>t
<1>16. CASE WriteError
  BY <1>16 DEF WriteError, Written
<1>17. CASE Fold
  BY <1>17 DEF Fold
<1>18. CASE Reconcile
  BY <1>18 DEF Reconcile
<1>19. ASSUME NEW b \in SUBSET queue, EmbedBatch(b) PROVE IdsDrawn'
  BY <1>19, <1>q DEF EmbedBatch, IdsOf
<1>20. ASSUME NEW b \in SUBSET queue, EmbedError(b) PROVE IdsDrawn'
  BY <1>20, <1>q DEF EmbedError, IdsOf
<1>21. CASE FileDone
  BY <1>21 DEF FileDone
<1>22. CASE RunDone
  BY <1>22 DEF RunDone, Reset
<1>23. CASE RemoveVectors
  BY <1>23 DEF RemoveVectors
<1>24. CASE Crash
  BY <1>24 DEF Crash, Reset
<1>25. CASE UNCHANGED vars
  BY <1>25 DEF vars
<1>26. QED
  BY <1>1, <1>2, <1>3, <1>4, <1>5, <1>6, <1>7, <1>8, <1>9, <1>10, <1>11, <1>12, <1>13,
     <1>14, <1>15, <1>16, <1>17, <1>18, <1>19, <1>20, <1>21, <1>22, <1>23, <1>24, <1>25
  DEF Next, Run

\* What is stale depends on the rows, the parse and the file at hand.
LEMMA StaleSame ==
  symbols' = symbols /\ got' = got /\ cur' = cur => Stale' = Stale
  BY DEF Stale, Unchanged, Remembered, SymsOf, Later

\* The stale rows are all the rows of their names, so a second look finds none.
LEMMA DropStep ==
  TypeInv /\ OneRow /\ DropSymbols => Stale' = {} /\ OneRow'
<1> SUFFICES ASSUME TypeInv, OneRow, DropSymbols PROVE Stale' = {} /\ OneRow'
  OBVIOUS
<1>1. /\ symbols \in [Files -> SUBSET Row] /\ doubled \in [Files -> SUBSET Names]
      /\ cur \in Files /\ cur' = cur /\ got' = got
  BY NoneAssumption DEF TypeInv, TypeOK, DropSymbols, Writing, work
<1>2. /\ symbols' = [symbols EXCEPT ![cur] = @ \ Stale]
      /\ doubled' = [doubled EXCEPT ![cur] = @ \ {r.sym.name : r \in Stale}]
  BY DEF DropSymbols
<1>3. symbols'[cur] = symbols[cur] \ Stale
  BY <1>1, <1>2
<1>4. \A q, r \in symbols[cur] : q.sym.name = r.sym.name => (q \in Stale <=> r \in Stale)
  BY DEF Stale
<1>5. Stale' = {}
  <2>1. SUFFICES ASSUME NEW r \in symbols'[cur]
                 PROVE  \E s \in Unchanged' : s.name = r.sym.name
    BY <1>1 DEF Stale
  <2>2. PICK s \in Unchanged : s.name = r.sym.name
    BY <1>3 DEF Stale
  <2>3. s \in SymsOf(got[cur]) /\ \E q \in Remembered : q.sym = s
    BY <2>2 DEF Unchanged
  <2>4. PICK q \in symbols[cur] :
          /\ q.sym = s
          /\ \A p \in symbols[cur] : p.sym.name = q.sym.name => ~Later(p, q)
    BY <2>3 DEF Remembered
  <2>5. q \in symbols'[cur]
    BY <1>3, <1>4, <2>2, <2>4
  <2>6. q \in Remembered'
    BY <1>1, <1>3, <2>4, <2>5 DEF Remembered, Later
  <2>7. s \in Unchanged'
    BY <1>1, <2>3, <2>4, <2>6 DEF Unchanged, SymsOf
  <2>8. QED
    BY <2>2, <2>7
<1>6. OneRow'
  <2>1. SUFFICES ASSUME NEW f \in Files, NEW q \in symbols'[f], NEW r \in symbols'[f],
                        q.sym.name = r.sym.name, q # r
                 PROVE  r.sym.name \in doubled'[f]
    BY DEF OneRow
  <2>2. q \in symbols[f] /\ r \in symbols[f]
    BY <1>1, <1>2
  <2>3. r.sym.name \in doubled[f]
    BY <2>1, <2>2 DEF OneRow
  <2>4. CASE f = cur
    <3>1. r \notin Stale
      BY <1>3, <2>4
    <3>2. \A s \in Stale : s \in symbols[cur]
      BY DEF Stale
    <3>3. r.sym.name \notin {s.sym.name : s \in Stale}
      BY <1>4, <2>2, <2>4, <3>1, <3>2
    <3>4. QED
      BY <1>1, <1>2, <2>3, <2>4, <3>3
  <2>5. CASE f # cur
    BY <1>1, <1>2, <2>3, <2>5
  <2>6. QED
    BY <2>4, <2>5
<1>7. QED
  BY <1>5, <1>6

\* With the stale rows gone and the new ones in, the rows mirror the parse.
LEMMA InsertStep ==
  TypeInv /\ RewriteInv /\ OneRow /\ InsertSymbols
    => /\ Mirrors(symbols'[cur], doubled'[cur], got[cur])
       /\ OneRow'
<1> SUFFICES ASSUME TypeInv, RewriteInv, OneRow, InsertSymbols
             PROVE  Mirrors(symbols'[cur], doubled'[cur], got[cur]) /\ OneRow'
  OBVIOUS
<1>1. /\ symbols \in [Files -> SUBSET Row] /\ doubled \in [Files -> SUBSET Names]
      /\ cur \in Files /\ got[cur] \in Versions /\ nextTxn \in Nat
  BY NoneAssumption DEF TypeInv, TypeOK, ReadBeforeWrite, InsertSymbols, Writing
<1>2. /\ symbols' = [symbols EXCEPT ![cur] = @ \cup NewRows]
      /\ doubled' = [doubled EXCEPT ![cur] = @ \cup Twice(got[cur])]
  BY <1>1 DEF InsertSymbols
<1>3. \A r \in symbols[cur] : \E s \in Unchanged : s.name = r.sym.name
  BY DEF InsertSymbols, RewriteInv, Stale
<1>4. \A s \in Unchanged : s \in SymsOf(got[cur]) /\ \E q \in symbols[cur] : q.sym = s
  BY DEF Unchanged, Remembered
<1> DEFINE more == doubled[cur] \cup Twice(got[cur])
<1>5. /\ \A r \in NewRows : r.sym \in SymsOf(got[cur])
      /\ \A s \in SymsOf(got[cur]) \ Unchanged : \E r \in NewRows : r.sym = s
      /\ \A q, r \in NewRows : q.sym.name = r.sym.name => q = r \/ r.sym.name \in more
      /\ \A r \in NewRows, s \in Unchanged : s.name = r.sym.name => r.sym.name \in more
  BY <1>1, NewRowsFacts
<1>6. \A q, r \in symbols[cur] : q.sym.name = r.sym.name => q = r \/ r.sym.name \in more
  BY <1>1 DEF OneRow
<1>7. symbols'[cur] = symbols[cur] \cup NewRows /\ doubled'[cur] = more
  BY <1>1, <1>2
<1> HIDE DEF more
<1>8. \A q \in symbols[cur], r \in NewRows : q.sym.name = r.sym.name => r.sym.name \in more
  BY <1>3, <1>5
<1>9. \A q, r \in symbols'[cur] : q.sym.name = r.sym.name => q = r \/ r.sym.name \in more
  BY <1>5, <1>6, <1>7, <1>8
<1>10. Mirrors(symbols'[cur], doubled'[cur], got[cur])
  <2>1. SymsOf(got[cur]) \subseteq {r.sym : r \in symbols'[cur]}
    BY <1>4, <1>5, <1>7
  <2>2. ASSUME NEW r \in symbols'[cur], r.sym.name \notin more
        PROVE  r.sym \in SymsOf(got[cur])
    <3>1. CASE r \in NewRows
      BY <1>5, <3>1
    <3>2. CASE r \in symbols[cur]
      BY <1>3, <1>4, <1>6, <2>2, <3>2
    <3>3. QED
      BY <1>7, <3>1, <3>2
  <2>3. QED
    BY <1>7, <1>9, <2>1, <2>2 DEF Mirrors
<1>11. OneRow'
  <2>1. SUFFICES ASSUME NEW f \in Files, NEW q \in symbols'[f], NEW r \in symbols'[f],
                        q.sym.name = r.sym.name
                 PROVE  q = r \/ r.sym.name \in doubled'[f]
    BY DEF OneRow
  <2>2. CASE f = cur
    BY <1>7, <1>9, <2>1, <2>2
  <2>3. CASE f # cur
    BY <1>1, <1>2, <2>1, <2>3 DEF OneRow
  <2>4. QED
    BY <2>2, <2>3
<1>12. QED
  BY <1>10, <1>11

\* Each commit of a rewrite finds what the one before it left.
LEMMA RewriteStep ==
  TypeInv /\ Control /\ RewriteInv /\ OneRow /\ [Next]_vars => RewriteInv'
<1> SUFFICES ASSUME TypeInv, Control, RewriteInv, OneRow, [Next]_vars PROVE RewriteInv'
  OBVIOUS
<1> USE DEF RewriteInv, Rewriting, db, work, embed, ghosts
<1>t. /\ symbols \in [Files -> SUBSET Row]
      /\ doubled \in [Files -> SUBSET Names]
      /\ fileRow \in [Files -> Versions \cup {None}]
      /\ cur # None <=> pc \in Writing
      /\ cur \in Files \cup {None}
  BY DEF TypeInv, TypeOK
<1>1. ASSUME NEW f \in Files, NEW v \in Versions \cup {None}, Edit(f, v) PROVE RewriteInv'
  BY <1>1, StaleSame DEF Edit, StaleIds, IdsOf
<1>2. ASSUME NEW w \in SUBSET Present, NEW i \in BOOLEAN, StartBatch(i, w)
      PROVE  RewriteInv'
  BY <1>2 DEF StartBatch, Walk
<1>3. ASSUME NEW w \in SUBSET Present, StartStream(w) PROVE RewriteInv'
  BY <1>3 DEF StartStream, StartFiles, Walk
<1>4. ASSUME NEW f \in Files, StartWatch(f) PROVE RewriteInv'
  BY <1>4 DEF StartWatch, StartFiles
<1>5. ASSUME NEW f \in Files, RemoveRows(f) PROVE RewriteInv'
  BY <1>5 DEF RemoveRows
<1>6. ASSUME NEW f \in Files, ParseFile(f) PROVE RewriteInv'
  BY <1>6 DEF ParseFile
<1>7. ASSUME NEW f \in Files, SkipFile(f) PROVE RewriteInv'
  BY <1>7 DEF SkipFile
<1>8. ASSUME NEW f \in Files, HashFile(f) PROVE RewriteInv'
  BY <1>8 DEF HashFile
<1>9. ASSUME NEW f \in Files, TakeParsed(f) PROVE RewriteInv'
  BY <1>9 DEF TakeParsed
<1>10. CASE ReadFile
  BY <1>10 DEF ReadFile
<1>11. CASE UpsertFile
  <2>1. cur \in Files
    BY <1>11, <1>t, NoneAssumption DEF UpsertFile, Writing
  <2>2. QED
    BY <1>11, <1>t, <2>1, StaleSame DEF UpsertFile
<1>12. CASE DropVectors
  BY <1>12, StaleSame DEF DropVectors, StaleIds, IdsOf
<1>13. CASE DropSymbols
  <2>1. cur \in Files
    BY <1>13, <1>t, NoneAssumption DEF DropSymbols, Writing
  <2>2. Stale' = {}
    BY <1>13, DropStep
  <2>3. QED
    BY <1>13, <2>1, <2>2 DEF DropSymbols
<1>14. CASE InsertSymbols
  <2>1. cur \in Files
    BY <1>14, <1>t, NoneAssumption DEF InsertSymbols, Writing
  <2>2. CASE NewRows = {}
    BY <1>14, <2>2 DEF InsertSymbols, Written
  <2>3. CASE NewRows # {}
    <3>1. symbols'[cur] = symbols[cur] \cup NewRows
      BY <1>14, <1>t, <2>1, <2>3 DEF InsertSymbols
    <3>2. \A q, r \in NewRows : q.id[2] = r.id[2] => q = r
      BY <1>14, NewRowsFacts, NoneAssumption
      DEF InsertSymbols, TypeInv, TypeOK, ReadBeforeWrite, Writing
    <3>3. Mirrors(symbols'[cur], doubled'[cur], got[cur])
      BY <1>14, InsertStep
    <3>4. /\ pc' = "chunk" /\ fresh' = NewRows /\ got' = got /\ cur' = cur
          /\ suspect' = suspect /\ fileRow' = fileRow /\ seen' = seen
      BY <1>14, <2>3 DEF InsertSymbols
    <3>5. cur \in suspect /\ fileRow[cur] = seen[cur]
      BY <1>14 DEF InsertSymbols
    <3>6. QED
      BY <3>1, <3>2, <3>3, <3>4, <3>5
  <2>4. QED
    BY <2>2, <2>3
<1>15. CASE InsertChunks
  BY <1>15 DEF InsertChunks, Written, Settle
<1>16. CASE WriteError
  BY <1>16 DEF WriteError, Written
<1>17. CASE Fold
  BY <1>17 DEF Fold
<1>18. CASE Reconcile
  BY <1>18 DEF Reconcile
<1>19. ASSUME NEW b \in SUBSET queue, EmbedBatch(b) PROVE RewriteInv'
  BY <1>19 DEF EmbedBatch, Embedding
<1>20. ASSUME NEW b \in SUBSET queue, EmbedError(b) PROVE RewriteInv'
  BY <1>20 DEF EmbedError, Embedding
<1>21. CASE FileDone
  BY <1>21 DEF FileDone
<1>22. CASE RunDone
  BY <1>22 DEF RunDone, Reset
<1>23. CASE RemoveVectors
  BY <1>23 DEF RemoveVectors
<1>24. CASE Crash
  BY <1>24 DEF Crash, Reset
<1>25. CASE UNCHANGED vars
  BY <1>25, StaleSame DEF vars, StaleIds, IdsOf
<1>26. QED
  BY <1>1, <1>2, <1>3, <1>4, <1>5, <1>6, <1>7, <1>8, <1>9, <1>10, <1>11, <1>12, <1>13,
     <1>14, <1>15, <1>16, <1>17, <1>18, <1>19, <1>20, <1>21, <1>22, <1>23, <1>24, <1>25
  DEF Next, Run

\* No step gives a name a second row unless what is written has it twice.
LEMMA OneRowStep ==
  TypeInv /\ RewriteInv /\ OneRow /\ [Next]_vars => OneRow'
<1> SUFFICES ASSUME TypeInv, RewriteInv, OneRow, [Next]_vars PROVE OneRow'
  OBVIOUS
<1> USE DEF OneRow, db, work, embed, ghosts
<1>1. ASSUME NEW f \in Files, NEW v \in Versions \cup {None}, Edit(f, v) PROVE OneRow'
  BY <1>1 DEF Edit
<1>2. ASSUME NEW w \in SUBSET Present, NEW i \in BOOLEAN, StartBatch(i, w)
      PROVE  OneRow'
  BY <1>2 DEF StartBatch, Walk
<1>3. ASSUME NEW w \in SUBSET Present, StartStream(w) PROVE OneRow'
  BY <1>3 DEF StartStream, StartFiles, Walk
<1>4. ASSUME NEW f \in Files, StartWatch(f) PROVE OneRow'
  BY <1>4 DEF StartWatch, StartFiles
<1>5. ASSUME NEW f \in Files, RemoveRows(f) PROVE OneRow'
  BY <1>5 DEF RemoveRows, TypeInv, TypeOK
<1>6. ASSUME NEW f \in Files, ParseFile(f) PROVE OneRow'
  BY <1>6 DEF ParseFile
<1>7. ASSUME NEW f \in Files, SkipFile(f) PROVE OneRow'
  BY <1>7 DEF SkipFile
<1>8. ASSUME NEW f \in Files, HashFile(f) PROVE OneRow'
  BY <1>8 DEF HashFile
<1>9. ASSUME NEW f \in Files, TakeParsed(f) PROVE OneRow'
  BY <1>9 DEF TakeParsed
<1>10. CASE ReadFile
  BY <1>10 DEF ReadFile
<1>11. CASE UpsertFile
  BY <1>11 DEF UpsertFile
<1>12. CASE DropVectors
  BY <1>12 DEF DropVectors
<1>13. CASE DropSymbols
  BY <1>13, DropStep
<1>14. CASE InsertSymbols
  BY <1>14, InsertStep
<1>15. CASE InsertChunks
  BY <1>15 DEF InsertChunks, Written
<1>16. CASE WriteError
  BY <1>16 DEF WriteError, Written
<1>17. CASE Fold
  BY <1>17 DEF Fold
<1>18. CASE Reconcile
  BY <1>18 DEF Reconcile
<1>19. ASSUME NEW b \in SUBSET queue, EmbedBatch(b) PROVE OneRow'
  BY <1>19 DEF EmbedBatch
<1>20. ASSUME NEW b \in SUBSET queue, EmbedError(b) PROVE OneRow'
  BY <1>20 DEF EmbedError
<1>21. CASE FileDone
  BY <1>21 DEF FileDone
<1>22. CASE RunDone
  BY <1>22 DEF RunDone, Reset
<1>23. CASE RemoveVectors
  BY <1>23 DEF RemoveVectors
<1>24. CASE Crash
  BY <1>24 DEF Crash, Reset
<1>25. CASE UNCHANGED vars
  BY <1>25 DEF vars
<1>26. QED
  BY <1>1, <1>2, <1>3, <1>4, <1>5, <1>6, <1>7, <1>8, <1>9, <1>10, <1>11, <1>12, <1>13,
     <1>14, <1>15, <1>16, <1>17, <1>18, <1>19, <1>20, <1>21, <1>22, <1>23, <1>24, <1>25
  DEF Next, Run
\* A vector keeps answering for the text it was computed from.
LEMMA VectorsStep ==
  TypeInv /\ IdsDrawn /\ QueueInv /\ VectorsMatchRows /\ [Next]_vars => VectorsMatchRows'
<1> SUFFICES ASSUME TypeInv, IdsDrawn, QueueInv, VectorsMatchRows, [Next]_vars
             PROVE VectorsMatchRows'
  OBVIOUS
<1> USE DEF VectorsMatchRows, db, work, embed, ghosts
<1>t. nextTxn \in Nat /\ vectors \subseteq Vector
  BY DEF TypeInv, TypeOK
<1>1. ASSUME NEW f \in Files, NEW v \in Versions \cup {None}, Edit(f, v) PROVE VectorsMatchRows'
  BY <1>1 DEF Edit
<1>2. ASSUME NEW w \in SUBSET Present, NEW i \in BOOLEAN, StartBatch(i, w)
      PROVE  VectorsMatchRows'
  BY <1>2 DEF StartBatch, Walk
<1>3. ASSUME NEW w \in SUBSET Present, StartStream(w) PROVE VectorsMatchRows'
  BY <1>3 DEF StartStream, StartFiles, Walk
<1>4. ASSUME NEW f \in Files, StartWatch(f) PROVE VectorsMatchRows'
  BY <1>4 DEF StartWatch, StartFiles
<1>5. ASSUME NEW f \in Files, RemoveRows(f) PROVE VectorsMatchRows'
  BY <1>5 DEF RemoveRows
<1>6. ASSUME NEW f \in Files, ParseFile(f) PROVE VectorsMatchRows'
  BY <1>6 DEF ParseFile
<1>7. ASSUME NEW f \in Files, SkipFile(f) PROVE VectorsMatchRows'
  BY <1>7 DEF SkipFile
<1>8. ASSUME NEW f \in Files, HashFile(f) PROVE VectorsMatchRows'
  BY <1>8 DEF HashFile
<1>9. ASSUME NEW f \in Files, TakeParsed(f) PROVE VectorsMatchRows'
  BY <1>9 DEF TakeParsed
<1>10. CASE ReadFile
  BY <1>10 DEF ReadFile
<1>11. CASE UpsertFile
  BY <1>11 DEF UpsertFile
<1>12. CASE DropVectors
  BY <1>12 DEF DropVectors
<1>13. CASE DropSymbols
  BY <1>13 DEF DropSymbols
<1>14. CASE InsertSymbols
  BY <1>14 DEF InsertSymbols, Written, Settle
<1>15. CASE InsertChunks
  <2>1. \A v \in vectors : v.id[1] < nextTxn
    BY DEF IdsDrawn
  <2>2. \A v \in vectors, r \in fresh : v.id # <<nextTxn, r.id[2]>>
    BY <2>1, <1>t
  <2>3. QED
    BY <1>15, <2>2 DEF InsertChunks
<1>16. CASE WriteError
  BY <1>16 DEF WriteError, Written
<1>17. CASE Fold
  BY <1>17 DEF Fold
<1>18. CASE Reconcile
  BY <1>18 DEF Reconcile
<1>19. ASSUME NEW b \in SUBSET queue, EmbedBatch(b) PROVE VectorsMatchRows'
  <2>1. \A w \in b : \A c \in chunks : w.id = c.id => w.text = c.row.sym
    BY DEF QueueInv, IdsDrawn
  <2>2. QED
    BY <1>19, <2>1 DEF EmbedBatch
<1>20. ASSUME NEW b \in SUBSET queue, EmbedError(b) PROVE VectorsMatchRows'
  BY <1>20 DEF EmbedError
<1>21. CASE FileDone
  BY <1>21 DEF FileDone
<1>22. CASE RunDone
  BY <1>22 DEF RunDone, Reset
<1>23. CASE RemoveVectors
  BY <1>23 DEF RemoveVectors
<1>24. CASE Crash
  BY <1>24 DEF Crash, Reset
<1>25. CASE UNCHANGED vars
  BY <1>25 DEF vars
<1>26. QED
  BY <1>1, <1>2, <1>3, <1>4, <1>5, <1>6, <1>7, <1>8, <1>9, <1>10, <1>11, <1>12, <1>13,
     <1>14, <1>15, <1>16, <1>17, <1>18, <1>19, <1>20, <1>21, <1>22, <1>23, <1>24, <1>25
  DEF Next, Run

\* No step leaves a vector behind without a row, a pending delete or a recorded leak.
LEMMA OrphansStep ==
  TypeInv /\ Control /\ RewriteInv /\ QueueInv /\ NoOrphanVectors /\ [Next]_vars
    => NoOrphanVectors'
<1> SUFFICES ASSUME TypeInv, Control, RewriteInv, QueueInv, NoOrphanVectors, [Next]_vars
             PROVE NoOrphanVectors'
  OBVIOUS
<1> USE DEF NoOrphanVectors, IdsOf, db, work, embed, ghosts
<1>1. ASSUME NEW f \in Files, NEW v \in Versions \cup {None}, Edit(f, v) PROVE NoOrphanVectors'
  BY <1>1 DEF Edit
<1>2. ASSUME NEW w \in SUBSET Present, NEW i \in BOOLEAN, StartBatch(i, w)
      PROVE  NoOrphanVectors'
  BY <1>2 DEF StartBatch, Walk
<1>3. ASSUME NEW w \in SUBSET Present, StartStream(w) PROVE NoOrphanVectors'
  BY <1>3 DEF StartStream, StartFiles, Walk
<1>4. ASSUME NEW f \in Files, StartWatch(f) PROVE NoOrphanVectors'
  BY <1>4 DEF StartWatch, StartFiles
<1>5. ASSUME NEW f \in Files, RemoveRows(f) PROVE NoOrphanVectors'
  BY <1>5 DEF RemoveRows, Control
<1>6. ASSUME NEW f \in Files, ParseFile(f) PROVE NoOrphanVectors'
  BY <1>6 DEF ParseFile
<1>7. ASSUME NEW f \in Files, SkipFile(f) PROVE NoOrphanVectors'
  BY <1>7 DEF SkipFile
<1>8. ASSUME NEW f \in Files, HashFile(f) PROVE NoOrphanVectors'
  BY <1>8 DEF HashFile
<1>9. ASSUME NEW f \in Files, TakeParsed(f) PROVE NoOrphanVectors'
  BY <1>9 DEF TakeParsed
<1>10. CASE ReadFile
  BY <1>10 DEF ReadFile
<1>11. CASE UpsertFile
  BY <1>11 DEF UpsertFile
<1>12. CASE DropVectors
  BY <1>12 DEF DropVectors
<1>13. CASE DropSymbols
  <2>1. \A v \in vectors : v.id \notin StaleIds
    BY <1>13 DEF DropSymbols, RewriteInv
  <2>2. QED
    BY <1>13, <2>1 DEF DropSymbols, StaleIds
<1>14. CASE InsertSymbols
  BY <1>14 DEF InsertSymbols, Written, Settle
<1>15. CASE InsertChunks
  BY <1>15 DEF InsertChunks, Written, Settle
<1>16. CASE WriteError
  BY <1>16 DEF WriteError, Written
<1>17. CASE Fold
  BY <1>17 DEF Fold
<1>18. CASE Reconcile
  BY <1>18 DEF Reconcile
<1>19. ASSUME NEW b \in SUBSET queue, EmbedBatch(b) PROVE NoOrphanVectors'
  <2>1. \A w \in b : \E c \in chunks : c.id = w.id
    BY DEF QueueInv
  <2>2. QED
    BY <1>19, <2>1 DEF EmbedBatch
<1>20. ASSUME NEW b \in SUBSET queue, EmbedError(b) PROVE NoOrphanVectors'
  BY <1>20 DEF EmbedError
<1>21. CASE FileDone
  BY <1>21 DEF FileDone
<1>22. CASE RunDone
  BY <1>22 DEF RunDone, Reset
<1>23. CASE RemoveVectors
  BY <1>23 DEF RemoveVectors, Control
<1>24. CASE Crash
  BY <1>24 DEF Crash, Reset
<1>25. CASE UNCHANGED vars
  BY <1>25 DEF vars
<1>26. QED
  BY <1>1, <1>2, <1>3, <1>4, <1>5, <1>6, <1>7, <1>8, <1>9, <1>10, <1>11, <1>12, <1>13,
     <1>14, <1>15, <1>16, <1>17, <1>18, <1>19, <1>20, <1>21, <1>22, <1>23, <1>24, <1>25
  DEF Next, Run

\* The stored hash keeps answering for the rows of every file that is not suspect.
LEMMA HashStep ==
  TypeInv /\ Control /\ RewriteInv /\ OneRow /\ HashAnswersForRows /\ [Next]_vars
    => HashAnswersForRows'
<1> SUFFICES ASSUME TypeInv, Control, RewriteInv, OneRow, HashAnswersForRows, [Next]_vars
             PROVE HashAnswersForRows'
  OBVIOUS
<1> USE NoneAssumption DEF HashAnswersForRows, InStep, db, work, embed, ghosts
<1>t. /\ symbols \in [Files -> SUBSET Row]
      /\ doubled \in [Files -> SUBSET Names]
      /\ fileRow \in [Files -> Versions \cup {None}]
      /\ cur # None => cur \in Files
      /\ cur # None <=> pc \in Writing
  BY DEF TypeInv, TypeOK
<1>1. ASSUME NEW f \in Files, NEW v \in Versions \cup {None}, Edit(f, v) PROVE HashAnswersForRows'
  BY <1>1 DEF Edit
<1>2. ASSUME NEW w \in SUBSET Present, NEW i \in BOOLEAN, StartBatch(i, w)
      PROVE  HashAnswersForRows'
  BY <1>2 DEF StartBatch, Walk
<1>3. ASSUME NEW w \in SUBSET Present, StartStream(w) PROVE HashAnswersForRows'
  BY <1>3 DEF StartStream, StartFiles, Walk
<1>4. ASSUME NEW f \in Files, StartWatch(f) PROVE HashAnswersForRows'
  BY <1>4 DEF StartWatch, StartFiles
<1>5. ASSUME NEW f \in Files, RemoveRows(f) PROVE HashAnswersForRows'
  BY <1>5, <1>t DEF RemoveRows
<1>6. ASSUME NEW f \in Files, ParseFile(f) PROVE HashAnswersForRows'
  BY <1>6 DEF ParseFile
<1>7. ASSUME NEW f \in Files, SkipFile(f) PROVE HashAnswersForRows'
  BY <1>7 DEF SkipFile
<1>8. ASSUME NEW f \in Files, HashFile(f) PROVE HashAnswersForRows'
  BY <1>8 DEF HashFile
<1>9. ASSUME NEW f \in Files, TakeParsed(f) PROVE HashAnswersForRows'
  BY <1>9 DEF TakeParsed
<1>10. CASE ReadFile
  BY <1>10 DEF ReadFile
<1>11. CASE UpsertFile
  BY <1>11, <1>t DEF UpsertFile, Writing
<1>12. CASE DropVectors
  BY <1>12 DEF DropVectors
<1>13. CASE DropSymbols
  BY <1>13, <1>t DEF DropSymbols, RewriteInv, Rewriting
<1>14. CASE InsertSymbols
  <2>1. cur \in Files /\ fileRow[cur] = seen[cur] /\ cur \in suspect
    BY <1>14, <1>t DEF InsertSymbols, RewriteInv, Rewriting, Writing
  <2>2. Mirrors(symbols'[cur], doubled'[cur], got[cur])
    BY <1>14, InsertStep
  <2>3. /\ \A f \in Files : f # cur => symbols'[f] = symbols[f] /\ doubled'[f] = doubled[f]
        /\ fileRow' = fileRow
    BY <1>14, <1>t DEF InsertSymbols
  <2>4. suspect' = suspect \/ (suspect' = suspect \ {cur} /\ got[cur] = seen[cur])
    BY <1>14 DEF InsertSymbols, Settle
  <2>5. QED
    BY <2>1, <2>2, <2>3, <2>4
<1>15. CASE InsertChunks
  <2>1. /\ cur \in Files /\ fileRow[cur] = seen[cur]
        /\ Mirrors(symbols[cur], doubled[cur], got[cur])
    BY <1>15, <1>t DEF InsertChunks, RewriteInv, Rewriting, Writing
  <2>2. QED
    BY <1>15, <2>1 DEF InsertChunks, Settle
<1>16. CASE WriteError
  BY <1>16 DEF WriteError, Written
<1>17. CASE Fold
  BY <1>17 DEF Fold
<1>18. CASE Reconcile
  BY <1>18 DEF Reconcile
<1>19. ASSUME NEW b \in SUBSET queue, EmbedBatch(b) PROVE HashAnswersForRows'
  BY <1>19 DEF EmbedBatch
<1>20. ASSUME NEW b \in SUBSET queue, EmbedError(b) PROVE HashAnswersForRows'
  BY <1>20 DEF EmbedError
<1>21. CASE FileDone
  BY <1>21 DEF FileDone
<1>22. CASE RunDone
  BY <1>22 DEF RunDone, Reset
<1>23. CASE RemoveVectors
  BY <1>23 DEF RemoveVectors
<1>24. CASE Crash
  BY <1>24 DEF Crash, Reset
<1>25. CASE UNCHANGED vars
  BY <1>25 DEF vars
<1>26. QED
  BY <1>1, <1>2, <1>3, <1>4, <1>5, <1>6, <1>7, <1>8, <1>9, <1>10, <1>11, <1>12, <1>13,
     <1>14, <1>15, <1>16, <1>17, <1>18, <1>19, <1>20, <1>21, <1>22, <1>23, <1>24, <1>25
  DEF Next, Run

\* A symbol row gets its chunk row, unless its file is torn in between.
LEMMA ChunksStep ==
  TypeInv /\ Control /\ RewriteInv /\ SymbolsHaveChunks /\ [Next]_vars => SymbolsHaveChunks'
<1> SUFFICES ASSUME TypeInv, Control, RewriteInv, SymbolsHaveChunks, [Next]_vars
             PROVE SymbolsHaveChunks'
  OBVIOUS
<1> USE NoneAssumption DEF SymbolsHaveChunks, db, work, embed, ghosts
<1>t. /\ symbols \in [Files -> SUBSET Row]
      /\ doubled \in [Files -> SUBSET Names]
      /\ cur \in Files \cup {None}
      /\ cur # None <=> pc \in Writing
  BY DEF TypeInv, TypeOK
<1>n. pc # "chunk" => fresh = {}
  BY DEF Control
<1>1. ASSUME NEW f \in Files, NEW v \in Versions \cup {None}, Edit(f, v) PROVE SymbolsHaveChunks'
  BY <1>1 DEF Edit
<1>2. ASSUME NEW w \in SUBSET Present, NEW i \in BOOLEAN, StartBatch(i, w)
      PROVE  SymbolsHaveChunks'
  BY <1>2 DEF StartBatch, Walk
<1>3. ASSUME NEW w \in SUBSET Present, StartStream(w) PROVE SymbolsHaveChunks'
  BY <1>3 DEF StartStream, StartFiles, Walk
<1>4. ASSUME NEW f \in Files, StartWatch(f) PROVE SymbolsHaveChunks'
  BY <1>4 DEF StartWatch, StartFiles
<1>5. ASSUME NEW f \in Files, RemoveRows(f) PROVE SymbolsHaveChunks'
  BY <1>5, <1>n, <1>t DEF RemoveRows
<1>6. ASSUME NEW f \in Files, ParseFile(f) PROVE SymbolsHaveChunks'
  BY <1>6 DEF ParseFile
<1>7. ASSUME NEW f \in Files, SkipFile(f) PROVE SymbolsHaveChunks'
  BY <1>7 DEF SkipFile
<1>8. ASSUME NEW f \in Files, HashFile(f) PROVE SymbolsHaveChunks'
  BY <1>8, <1>n DEF HashFile
<1>9. ASSUME NEW f \in Files, TakeParsed(f) PROVE SymbolsHaveChunks'
  BY <1>9, <1>n DEF TakeParsed
<1>10. CASE ReadFile
  BY <1>10, <1>n DEF ReadFile
<1>11. CASE UpsertFile
  BY <1>11 DEF UpsertFile
<1>12. CASE DropVectors
  BY <1>12 DEF DropVectors
<1>13. CASE DropSymbols
  BY <1>13, <1>n, <1>t DEF DropSymbols
<1>14. CASE InsertSymbols
  <2>1. cur \in Files
    BY <1>14, <1>t DEF InsertSymbols, Writing
  <2>2. fresh = {}
    BY <1>14, <1>n DEF InsertSymbols
  <2>3. CASE NewRows = {}
    BY <1>14, <2>2, <2>3 DEF InsertSymbols, Written
  <2>4. CASE NewRows # {}
    <3>1. /\ symbols' = [symbols EXCEPT ![cur] = @ \cup NewRows]
          /\ fresh' = NewRows /\ cur' = cur /\ torn' = torn /\ chunks' = chunks
      BY <1>14, <2>4 DEF InsertSymbols
    <3>2. QED
      BY <1>t, <2>1, <2>2, <3>1
  <2>5. QED
    BY <2>3, <2>4
<1>15. CASE InsertChunks
  <2>1. /\ symbols' = symbols /\ torn' = torn /\ cur \in Files
        /\ \A c \in chunks : c \in chunks'
    BY <1>15, <1>t DEF InsertChunks, Writing
  <2>2. \A r \in fresh : \E c \in chunks' : c.file = cur /\ c.row = r
    <3>1. TAKE r \in fresh
    <3>2. [id |-> <<nextTxn, r.id[2]>>, file |-> cur, row |-> r] \in chunks'
      BY <1>15 DEF InsertChunks
    <3>3. QED
      BY <3>2
  <2>3. QED
    BY <2>1, <2>2
<1>16. CASE WriteError
  BY <1>16, <1>n DEF WriteError, Written
<1>17. CASE Fold
  BY <1>17 DEF Fold
<1>18. CASE Reconcile
  BY <1>18 DEF Reconcile
<1>19. ASSUME NEW b \in SUBSET queue, EmbedBatch(b) PROVE SymbolsHaveChunks'
  BY <1>19 DEF EmbedBatch
<1>20. ASSUME NEW b \in SUBSET queue, EmbedError(b) PROVE SymbolsHaveChunks'
  BY <1>20 DEF EmbedError
<1>21. CASE FileDone
  BY <1>21 DEF FileDone
<1>22. CASE RunDone
  BY <1>22, <1>n DEF RunDone, Reset
<1>23. CASE RemoveVectors
  BY <1>23 DEF RemoveVectors
<1>24. CASE Crash
  BY <1>24, <1>n DEF Crash, Reset
<1>25. CASE UNCHANGED vars
  BY <1>25 DEF vars
<1>26. QED
  BY <1>1, <1>2, <1>3, <1>4, <1>5, <1>6, <1>7, <1>8, <1>9, <1>10, <1>11, <1>12, <1>13,
     <1>14, <1>15, <1>16, <1>17, <1>18, <1>19, <1>20, <1>21, <1>22, <1>23, <1>24, <1>25
  DEF Next, Run

\* Queued work stays the work of live rows.
LEMMA QueueStep ==
  TypeInv /\ Control /\ RewriteInv /\ QueueInv /\ [Next]_vars => QueueInv'
<1> SUFFICES ASSUME TypeInv, Control, RewriteInv, QueueInv, [Next]_vars PROVE QueueInv'
  OBVIOUS
<1> USE NoneAssumption DEF QueueInv, db, work, embed, ghosts
<1>t. /\ got \in [Files -> Versions \cup {None}]
      /\ chunks \subseteq Chunk
      /\ cur \in Files \cup {None}
      /\ cur # None <=> pc \in Writing
      /\ pc \in Writing \ {"read"} => got[cur] # None
  BY DEF TypeInv, TypeOK, ReadBeforeWrite
<1>n. queue # {} => pc \in {"embed", "embedFile"} \/ (mode = "batch" /\ todo = {})
  BY DEF Control
<1>1. ASSUME NEW f \in Files, NEW v \in Versions \cup {None}, Edit(f, v) PROVE QueueInv'
  BY <1>1 DEF Edit
<1>2. ASSUME NEW w \in SUBSET Present, NEW i \in BOOLEAN, StartBatch(i, w)
      PROVE  QueueInv'
  <2>1. queue' = {}
    BY <1>2, <1>n DEF StartBatch, Walk, Control
  <2>2. QED
    BY <2>1
<1>3. ASSUME NEW w \in SUBSET Present, StartStream(w) PROVE QueueInv'
  <2>1. queue' = {}
    BY <1>3, <1>n DEF StartStream, StartFiles, Walk, Control
  <2>2. QED
    BY <2>1
<1>4. ASSUME NEW f \in Files, StartWatch(f) PROVE QueueInv'
  <2>1. queue' = {}
    BY <1>4, <1>n DEF StartWatch, StartFiles, Control
  <2>2. QED
    BY <2>1
<1>5. ASSUME NEW f \in Files, RemoveRows(f) PROVE QueueInv'
  <2>1. queue' = {}
    BY <1>5, <1>n DEF RemoveRows, Control
  <2>2. QED
    BY <2>1
<1>6. ASSUME NEW f \in Files, ParseFile(f) PROVE QueueInv'
  <2>1. queue' = {}
    BY <1>6, <1>n DEF ParseFile
  <2>2. QED
    BY <2>1
<1>7. ASSUME NEW f \in Files, SkipFile(f) PROVE QueueInv'
  BY <1>7 DEF SkipFile
<1>8. ASSUME NEW f \in Files, HashFile(f) PROVE QueueInv'
  BY <1>8 DEF HashFile
<1>9. ASSUME NEW f \in Files, TakeParsed(f) PROVE QueueInv'
  BY <1>9 DEF TakeParsed
<1>10. CASE ReadFile
  <2>1. queue' = {}
    BY <1>10, <1>n DEF ReadFile, Control, Rewriting
  <2>2. QED
    BY <2>1
<1>11. CASE UpsertFile
  BY <1>11 DEF UpsertFile
<1>12. CASE DropVectors
  BY <1>12 DEF DropVectors
<1>13. CASE DropSymbols
  BY <1>13, <1>t DEF DropSymbols, Writing
<1>14. CASE InsertSymbols
  <2>1. \A f \in Files : got[f] = None => got'[f] = None
    BY <1>14, <1>t DEF InsertSymbols, Written
  <2>2. QED
    BY <1>14, <1>t, <2>1 DEF InsertSymbols, Chunk
<1>15. CASE InsertChunks
  <2>1. cur \in Files /\ cur \notin todo
    BY <1>15, <1>t DEF InsertChunks, Control, Writing
  <2>2. got'[cur] = None /\ (\A f \in Files : got[f] = None => got'[f] = None) /\ todo' = todo
    BY <1>15, <1>t, <2>1 DEF InsertChunks, Written
  <2>3. \A r \in fresh :
          [id |-> <<nextTxn, r.id[2]>>, file |-> cur, row |-> r] \in chunks'
    BY <1>15 DEF InsertChunks
  <2>4. ASSUME NEW w \in queue'
        PROVE  \E c \in chunks' : /\ c.id = w.id /\ c.row.sym = w.text
                                  /\ got'[c.file] = None /\ c.file \notin todo'
    <3>1. CASE w \in queue
      <4>1. PICK c \in chunks : /\ c.id = w.id /\ c.row.sym = w.text
                                /\ got[c.file] = None /\ c.file \notin todo
        BY <3>1
      <4>2. c \in chunks' /\ c.file \in Files
        BY <1>15, <1>t DEF InsertChunks, Chunk
      <4>3. QED
        BY <2>2, <4>1, <4>2
    <3>2. CASE w \notin queue
      <4>1. PICK r \in fresh : w = [id |-> <<nextTxn, r.id[2]>>, text |-> r.sym]
        BY <1>15, <3>2 DEF InsertChunks
      <4>2. QED
        BY <2>1, <2>2, <2>3, <4>1
    <3>3. QED
      BY <3>1, <3>2
  <2>5. QED
    BY <2>4
<1>16. CASE WriteError
  <2>1. \A f \in Files : got[f] = None => got'[f] = None
    BY <1>16, <1>t DEF WriteError, Written
  <2>2. QED
    BY <1>16, <1>t, <2>1 DEF WriteError, Chunk
<1>17. CASE Fold
  BY <1>17, <1>t DEF Fold, WorkFor, IdsOf, Chunk
<1>18. CASE Reconcile
  <2>1. \A f \in Files : got[f] = None
    BY <1>18, <1>t DEF Reconcile, Control, Rewriting, Writing
  <2>2. \A w \in queue' : \E c \in chunks : c.id = w.id /\ c.row.sym = w.text
    BY <1>18 DEF Reconcile, WorkFor
  <2>3. QED
    BY <1>18, <1>t, <2>1, <2>2 DEF Reconcile, Chunk
<1>19. ASSUME NEW b \in SUBSET queue, EmbedBatch(b) PROVE QueueInv'
  BY <1>19 DEF EmbedBatch
<1>20. ASSUME NEW b \in SUBSET queue, EmbedError(b) PROVE QueueInv'
  BY <1>20 DEF EmbedError
<1>21. CASE FileDone
  BY <1>21 DEF FileDone
<1>22. CASE RunDone
  BY <1>22 DEF RunDone, Reset
<1>23. CASE RemoveVectors
  BY <1>23 DEF RemoveVectors
<1>24. CASE Crash
  BY <1>24 DEF Crash, Reset
<1>25. CASE UNCHANGED vars
  BY <1>25 DEF vars
<1>26. QED
  BY <1>1, <1>2, <1>3, <1>4, <1>5, <1>6, <1>7, <1>8, <1>9, <1>10, <1>11, <1>12, <1>13,
     <1>14, <1>15, <1>16, <1>17, <1>18, <1>19, <1>20, <1>21, <1>22, <1>23, <1>24, <1>25
  DEF Next, Run

\* Nothing that is paid for or has its vector gets queued.
LEMMA UnpaidStep ==
  TypeInv /\ Control /\ IdsDrawn /\ QueueInv /\ PaidInv /\ QueueIsUnpaid /\ [Next]_vars
    => QueueIsUnpaid'
<1> SUFFICES ASSUME TypeInv, Control, IdsDrawn, QueueInv, PaidInv, QueueIsUnpaid, [Next]_vars
             PROVE QueueIsUnpaid'
  OBVIOUS
<1> USE DEF QueueIsUnpaid, IdsOf, db, work, embed, ghosts
<1>n. queue # {} => pc \in {"embed", "embedFile"} \/ (mode = "batch" /\ todo = {})
  BY DEF Control
<1>1. ASSUME NEW f \in Files, NEW v \in Versions \cup {None}, Edit(f, v) PROVE QueueIsUnpaid'
  BY <1>1 DEF Edit
<1>2. ASSUME NEW w \in SUBSET Present, NEW i \in BOOLEAN, StartBatch(i, w)
      PROVE  QueueIsUnpaid'
  BY <1>2, <1>n DEF StartBatch, Walk, Control
<1>3. ASSUME NEW w \in SUBSET Present, StartStream(w) PROVE QueueIsUnpaid'
  BY <1>3, <1>n DEF StartStream, StartFiles, Walk, Control
<1>4. ASSUME NEW f \in Files, StartWatch(f) PROVE QueueIsUnpaid'
  BY <1>4, <1>n DEF StartWatch, StartFiles, Control
<1>5. ASSUME NEW f \in Files, RemoveRows(f) PROVE QueueIsUnpaid'
  BY <1>5 DEF RemoveRows
<1>6. ASSUME NEW f \in Files, ParseFile(f) PROVE QueueIsUnpaid'
  BY <1>6 DEF ParseFile
<1>7. ASSUME NEW f \in Files, SkipFile(f) PROVE QueueIsUnpaid'
  BY <1>7 DEF SkipFile
<1>8. ASSUME NEW f \in Files, HashFile(f) PROVE QueueIsUnpaid'
  BY <1>8 DEF HashFile
<1>9. ASSUME NEW f \in Files, TakeParsed(f) PROVE QueueIsUnpaid'
  BY <1>9 DEF TakeParsed
<1>10. CASE ReadFile
  BY <1>10 DEF ReadFile
<1>11. CASE UpsertFile
  BY <1>11 DEF UpsertFile
<1>12. CASE DropVectors
  BY <1>12 DEF DropVectors
<1>13. CASE DropSymbols
  BY <1>13 DEF DropSymbols
<1>14. CASE InsertSymbols
  BY <1>14 DEF InsertSymbols, Written, Settle
<1>15. CASE InsertChunks
  <2>1. \A r \in fresh : <<nextTxn, r.id[2]>> \notin billed
    BY DEF IdsDrawn, TypeInv, TypeOK
  <2>2. \A r \in fresh, v \in vectors : v.id # <<nextTxn, r.id[2]>>
    BY DEF IdsDrawn, TypeInv, TypeOK
  <2>3. QED
    BY <1>15, <2>1, <2>2 DEF InsertChunks
<1>16. CASE WriteError
  BY <1>16 DEF WriteError, Written
<1>17. CASE Fold
  <2>1. billed = {} /\ \A v \in vectors : v.id \notin repair
    BY <1>17 DEF Fold, PaidInv
  <2>2. QED
    BY <1>17, <2>1 DEF Fold, WorkFor
<1>18. CASE Reconcile
  <2>1. ~errs => \A c \in chunks : c.id \in billed => c.id \in IdsOf(vectors)
    BY <1>18 DEF Reconcile, PaidInv, Control
  <2>2. \A i \in repair' : i \notin IdsOf(vectors)
    BY <1>18 DEF Reconcile, Scan, Holes
  <2>3. queue' = IF errs THEN {} ELSE WorkFor(repair')
    BY <1>18 DEF Reconcile
  <2>4. ASSUME NEW w \in queue' PROVE w.id \notin billed /\ w.id \notin IdsOf(vectors)
    BY <2>1, <2>2, <2>3, <2>4 DEF WorkFor
  <2>5. QED
    BY <1>18, <2>4 DEF Reconcile
<1>19. ASSUME NEW b \in SUBSET queue, EmbedBatch(b) PROVE QueueIsUnpaid'
  <2>1. \A w, u \in queue : w.id = u.id => w.text = u.text
    BY DEF QueueInv, IdsDrawn
  <2>2. \A w, u \in queue : w.id = u.id => w = u
    BY <2>1 DEF TypeInv, TypeOK, Work
  <2>3. QED
    BY <1>19, <2>2 DEF EmbedBatch
<1>20. ASSUME NEW b \in SUBSET queue, EmbedError(b) PROVE QueueIsUnpaid'
  <2>1. \A w, u \in queue : w.id = u.id => w.text = u.text
    BY DEF QueueInv, IdsDrawn
  <2>2. \A w, u \in queue : w.id = u.id => w = u
    BY <2>1 DEF TypeInv, TypeOK, Work
  <2>3. QED
    BY <1>20, <2>2 DEF EmbedError
<1>21. CASE FileDone
  BY <1>21 DEF FileDone
<1>22. CASE RunDone
  BY <1>22 DEF RunDone, Reset
<1>23. CASE RemoveVectors
  BY <1>23 DEF RemoveVectors
<1>24. CASE Crash
  BY <1>24 DEF Crash, Reset
<1>25. CASE UNCHANGED vars
  BY <1>25 DEF vars
<1>26. QED
  BY <1>1, <1>2, <1>3, <1>4, <1>5, <1>6, <1>7, <1>8, <1>9, <1>10, <1>11, <1>12, <1>13,
     <1>14, <1>15, <1>16, <1>17, <1>18, <1>19, <1>20, <1>21, <1>22, <1>23, <1>24, <1>25
  DEF Next, Run

\* What a run has paid for is stored, or it has recorded a failure.
LEMMA PaidStep ==
  TypeInv /\ Control /\ IdsDrawn /\ RewriteInv /\ QueueInv /\ PaidInv /\ [Next]_vars => PaidInv'
<1> SUFFICES ASSUME TypeInv, Control, IdsDrawn, RewriteInv, QueueInv, PaidInv, [Next]_vars
             PROVE PaidInv'
  OBVIOUS
<1> USE DEF PaidInv, IdsOf, db, work, embed, ghosts
<1>1. ASSUME NEW f \in Files, NEW v \in Versions \cup {None}, Edit(f, v) PROVE PaidInv'
  BY <1>1 DEF Edit
<1>2. ASSUME NEW w \in SUBSET Present, NEW i \in BOOLEAN, StartBatch(i, w)
      PROVE  PaidInv'
  BY <1>2 DEF StartBatch, Walk, Spend, Scan, Holes
<1>3. ASSUME NEW w \in SUBSET Present, StartStream(w) PROVE PaidInv'
  BY <1>3 DEF StartStream, StartFiles, Walk
<1>4. ASSUME NEW f \in Files, StartWatch(f) PROVE PaidInv'
  BY <1>4 DEF StartWatch, StartFiles
<1>5. ASSUME NEW f \in Files, RemoveRows(f) PROVE PaidInv'
  BY <1>5 DEF RemoveRows
<1>6. ASSUME NEW f \in Files, ParseFile(f) PROVE PaidInv'
  BY <1>6 DEF ParseFile, Control
<1>7. ASSUME NEW f \in Files, SkipFile(f) PROVE PaidInv'
  BY <1>7 DEF SkipFile
<1>8. ASSUME NEW f \in Files, HashFile(f) PROVE PaidInv'
  BY <1>8 DEF HashFile, Control
<1>9. ASSUME NEW f \in Files, TakeParsed(f) PROVE PaidInv'
  BY <1>9 DEF TakeParsed, Control
<1>10. CASE ReadFile
  BY <1>10 DEF ReadFile, Control
<1>11. CASE UpsertFile
  BY <1>11 DEF UpsertFile
<1>12. CASE DropVectors
  <2>1. \A c \in chunks : c.id \in StaleIds => c.file = cur
    BY DEF IdsDrawn, StaleIds
  <2>2. QED
    BY <1>12, <2>1 DEF DropVectors
<1>13. CASE DropSymbols
  BY <1>13 DEF DropSymbols
<1>14. CASE InsertSymbols
  BY <1>14, NoneAssumption
  DEF InsertSymbols, Written, Control, TypeInv, TypeOK, Chunk, Writing, Rewriting
<1>15. CASE InsertChunks
  <2>1. \A r \in fresh : <<nextTxn, r.id[2]>> \notin billed
    BY DEF IdsDrawn, TypeInv, TypeOK
  <2>2. \A c \in chunks' : c.id \in billed => c \in chunks
    BY <1>15, <2>1 DEF InsertChunks
  <2>3. \A c \in chunks : c.file # None
    BY NoneAssumption DEF TypeInv, TypeOK, Chunk
  <2>4. QED
    BY <1>15, <2>2, <2>3 DEF InsertChunks, Written, Control
<1>16. CASE WriteError
  <2>1. errs'
    BY <1>16 DEF WriteError
  <2>2. QED
    BY <1>16, <2>1 DEF WriteError, Written, Control
<1>17. CASE Fold
  BY <1>17 DEF Fold
<1>18. CASE Reconcile
  BY <1>18 DEF Reconcile, Control
<1>19. ASSUME NEW b \in SUBSET queue, EmbedBatch(b) PROVE PaidInv'
  <2>1. cur = None /\ mode = mode' /\ pc' = pc /\ errs' = errs /\ abort' = abort
    BY <1>19 DEF EmbedBatch, Embedding, TypeInv, TypeOK, Writing
  <2>2. \A c \in chunks : c.id \in IdsOf(b) => c.file \notin todo /\ c.file # None
    BY NoneAssumption DEF QueueInv, IdsDrawn, TypeInv, TypeOK, Chunk
  <2>3. \A w \in b : \E v \in vectors' : v.id = w.id
    <3>1. TAKE w \in b
    <3>2. [id |-> w.id, text |-> w.text] \in vectors'
      BY <1>19 DEF EmbedBatch
    <3>3. QED
      BY <3>2
  <2>4. \A u \in vectors : \E v \in vectors' : v.id = u.id
    <3>1. TAKE u \in vectors
    <3>2. CASE u \in vectors'
      BY <3>2
    <3>3. CASE u \notin vectors'
      BY <1>19, <2>3, <3>3 DEF EmbedBatch
    <3>4. QED
      BY <3>2, <3>3
  <2>5. mode = "batch" => pc = "embed"
    BY <1>19 DEF EmbedBatch, Embedding, Control, Rewriting
  <2>6. chunks' = chunks /\ todo' = todo /\ cur' = cur /\ billed' = billed \cup IdsOf(b)
    BY <1>19 DEF EmbedBatch
  <2>7. QED
    BY <2>1, <2>2, <2>3, <2>4, <2>5, <2>6
<1>20. ASSUME NEW b \in SUBSET queue, EmbedError(b) PROVE PaidInv'
  BY <1>20 DEF EmbedError, Embedding, Control, Rewriting
<1>21. CASE FileDone
  BY <1>21 DEF FileDone, Control, Rewriting
<1>22. CASE RunDone
  BY <1>22 DEF RunDone, Reset
<1>23. CASE RemoveVectors
  BY <1>23 DEF RemoveVectors
<1>24. CASE Crash
  BY <1>24 DEF Crash, Reset
<1>25. CASE UNCHANGED vars
  BY <1>25 DEF vars
<1>26. QED
  BY <1>1, <1>2, <1>3, <1>4, <1>5, <1>6, <1>7, <1>8, <1>9, <1>10, <1>11, <1>12, <1>13,
     <1>14, <1>15, <1>16, <1>17, <1>18, <1>19, <1>20, <1>21, <1>22, <1>23, <1>24, <1>25
  DEF Next, Run

----------------------------------------------------------------------------
(* The safety theorems. *)

\* IInv is inductive.
LEMMA IInvInvariant == Spec => []IInv
<1>1. IInv /\ [Next]_vars => IInv'
  BY TypeStep, ControlStep, IdsStep, RewriteStep, QueueStep, PaidStep, VectorsStep,
     OrphansStep, OneRowStep, HashStep, ChunksStep, UnpaidStep DEF IInv
<1>2. QED
  BY InitIInv, <1>1, PTL DEF Spec

\* A vector answers with the text it was computed from, after any number of crashes,
\* failing batches and re-indexes: row ids are never handed out twice.
THEOREM VectorsAnswerForTheirRows == Spec => []VectorsMatchRows
<1>1. IInv => VectorsMatchRows
  BY DEF IInv
<1>2. QED
  BY IInvInvariant, <1>1, PTL

\* Only the window delete_file_by_path documents leaves vectors without rows.
THEOREM OrphansOnlyFromRemoval == Spec => []NoOrphanVectors
<1>1. IInv => NoOrphanVectors
  BY DEF IInv
<1>2. QED
  BY IInvInvariant, <1>1, PTL

\* The hash that lets a run skip a file answers for the rows it skips, whatever names the
\* parser gives: every symbol has a row, and no name that came once has another.
THEOREM HashIsHonest == Spec => []HashAnswersForRows
<1>1. IInv => HashAnswersForRows
  BY DEF IInv
<1>2. QED
  BY IInvInvariant, <1>1, PTL

\* Only a cut between the symbol commit and the chunk commit loses chunk rows.
THEOREM ChunksOnlyLostInTear == Spec => []SymbolsHaveChunks
<1>1. IInv => SymbolsHaveChunks
  BY DEF IInv
<1>2. QED
  BY IInvInvariant, <1>1, PTL

\* No embedding is bought twice in a run, nor for a row that has its vector.
THEOREM NothingBoughtTwice == Spec => []QueueIsUnpaid
<1>1. IInv => QueueIsUnpaid
  BY DEF IInv
<1>2. QED
  BY IInvInvariant, <1>1, PTL

\* What a step may take from the chunk table.
Kept ==
  \A c \in chunks : c \notin chunks' =>
    \/ fileRow'[c.file] = None
    \/ c.file = cur /\ c.row.sym \notin SymsOf(got[cur])
    \/ c.row.sym.name \in doubled[c.file]

\* A step that takes a chunk row away removes its file or rewrites its symbol: only
\* DropSymbols and RemoveRows delete rows, and only of stale symbols or removed files; and
\* a stale row of a symbol the parse still has is not the last row of its name.
LEMMA KeptStep == TypeInv /\ OneRow /\ [Next]_vars => [Kept]_vars
<1> SUFFICES ASSUME TypeInv, OneRow, [Next]_vars PROVE Kept
  OBVIOUS
<1> USE DEF Kept, db, work, embed, ghosts
<1>t. chunks \subseteq Chunk /\ fileRow \in [Files -> Versions \cup {None}]
  BY DEF TypeInv, TypeOK
<1>1. ASSUME NEW f \in Files, NEW v \in Versions \cup {None}, Edit(f, v) PROVE Kept
  BY <1>1 DEF Edit
<1>2. ASSUME NEW w \in SUBSET Present, NEW i \in BOOLEAN, StartBatch(i, w)
      PROVE  Kept
  BY <1>2 DEF StartBatch, Walk
<1>3. ASSUME NEW w \in SUBSET Present, StartStream(w) PROVE Kept
  BY <1>3 DEF StartStream, StartFiles, Walk
<1>4. ASSUME NEW f \in Files, StartWatch(f) PROVE Kept
  BY <1>4 DEF StartWatch, StartFiles
<1>5. ASSUME NEW f \in Files, RemoveRows(f) PROVE Kept
  BY <1>5, <1>t DEF RemoveRows, Chunk
<1>6. ASSUME NEW f \in Files, ParseFile(f) PROVE Kept
  BY <1>6 DEF ParseFile
<1>7. ASSUME NEW f \in Files, SkipFile(f) PROVE Kept
  BY <1>7 DEF SkipFile
<1>8. ASSUME NEW f \in Files, HashFile(f) PROVE Kept
  BY <1>8 DEF HashFile
<1>9. ASSUME NEW f \in Files, TakeParsed(f) PROVE Kept
  BY <1>9 DEF TakeParsed
<1>10. CASE ReadFile
  BY <1>10 DEF ReadFile
<1>11. CASE UpsertFile
  BY <1>11 DEF UpsertFile
<1>12. CASE DropVectors
  BY <1>12 DEF DropVectors
<1>13. CASE DropSymbols
  <2>1. cur \in Files
    BY <1>13, NoneAssumption DEF DropSymbols, TypeInv, TypeOK, Writing
  <2>2. SUFFICES ASSUME NEW c \in chunks, c.file = cur, c.row \in Stale,
                        c.row.sym \in SymsOf(got[cur])
                 PROVE  c.row.sym.name \in doubled[cur]
    BY <1>13 DEF DropSymbols
  <2>3. c.row \in symbols[cur] /\ c.row.sym \notin Unchanged
    BY <2>2 DEF Stale
  <2>4. c.row \notin Remembered
    BY <2>2, <2>3 DEF Unchanged
  <2>5. PICK q \in symbols[cur] : q.sym.name = c.row.sym.name /\ Later(q, c.row)
    BY <2>3, <2>4 DEF Remembered
  <2>6. \A n \in Nat : ~(n > n)
    OBVIOUS
  <2>7. ~Later(c.row, c.row)
    BY <2>1, <2>3, <2>6 DEF Later, TypeInv, TypeOK, Row, RowId
  <2>8. QED
    BY <2>1, <2>3, <2>5, <2>7 DEF OneRow
<1>14. CASE InsertSymbols
  BY <1>14 DEF InsertSymbols, Written, Settle
<1>15. CASE InsertChunks
  BY <1>15 DEF InsertChunks, Written, Settle
<1>16. CASE WriteError
  BY <1>16 DEF WriteError, Written
<1>17. CASE Fold
  BY <1>17 DEF Fold
<1>18. CASE Reconcile
  BY <1>18 DEF Reconcile
<1>19. ASSUME NEW b \in SUBSET queue, EmbedBatch(b) PROVE Kept
  BY <1>19 DEF EmbedBatch
<1>20. ASSUME NEW b \in SUBSET queue, EmbedError(b) PROVE Kept
  BY <1>20 DEF EmbedError
<1>21. CASE FileDone
  BY <1>21 DEF FileDone
<1>22. CASE RunDone
  BY <1>22 DEF RunDone, Reset
<1>23. CASE RemoveVectors
  BY <1>23 DEF RemoveVectors
<1>24. CASE Crash
  BY <1>24 DEF Crash, Reset
<1>25. CASE UNCHANGED vars
  BY <1>25 DEF vars
<1>26. QED
  BY <1>1, <1>2, <1>3, <1>4, <1>5, <1>6, <1>7, <1>8, <1>9, <1>10, <1>11, <1>12, <1>13,
     <1>14, <1>15, <1>16, <1>17, <1>18, <1>19, <1>20, <1>21, <1>22, <1>23, <1>24, <1>25
  DEF Next, Run

\* A re-index never drops the chunk row, hence the vector, of an unchanged symbol whose
\* name came once in what was written of its file.
THEOREM UnchangedChunksStay == Spec => KeepsUnchanged
<1>1. IInv => TypeInv /\ OneRow
  BY DEF IInv
<1>2. Spec => [][Kept]_vars
  BY IInvInvariant, <1>1, KeptStep, PTL DEF Spec
<1>3. QED
  BY <1>2 DEF KeepsUnchanged, Kept

----------------------------------------------------------------------------
(* What a finished run may claim: the inductive invariant above, together with the four
   parts below. *)

\* The run has seen the tree as it is, until somebody edits it; its report is about that
\* tree; and a streaming run scans the vector store last.
RunView ==
  /\ report \in {"uptodate", "done"} => pc = "idle"
  /\ mode \in {"batch", "stream"} /\ report # "edited" =>
       seen = disk /\ \A f \in Files : got[f] # None => got[f] = disk[f]
  /\ mode = "stream" /\ pc # "embed" => ~scanned

\* A file that is still to come, is being rewritten, or was read and not yet rewritten.
Ahead(f) == f \in todo \/ f = cur \/ got[f] # None

\* A run without an error has in step what it has not ahead of it, the suspect files apart.
FilesCovered ==
  mode \in {"batch", "stream"} /\ report # "edited" /\ ~errs =>
    \A f \in Present \ (suspect \cup unwalked) : Ahead(f) \/ InStep(f, disk[f])

\* A run that scanned the vector store and has met no error since.
Repairing == mode \in {"batch", "stream"} /\ ~errs /\ ~abort /\ scanned

\* The holes such a run is going to fill: the queue, the scan's until they are folded into
\* it, and the rows about to go whose vectors are gone.
Claimed ==
  IdsOf(queue) \cup (IF pc = "embed" THEN {} ELSE repair)
               \cup (IF pc = "drop" THEN StaleIds ELSE {})

HolesCovered == Repairing => Holes \subseteq Claimed

\* What a run has seen stays what is there.
LEMMA ViewStep == TypeInv /\ Control /\ RunView /\ [Next]_vars => RunView'
<1> SUFFICES ASSUME TypeInv, Control, RunView, [Next]_vars PROVE RunView'
  OBVIOUS
<1> USE DEF RunView, Control, Rewriting, db, work, embed, ghosts
<1>t. /\ got \in [Files -> Versions \cup {None}]
      /\ seen \in [Files -> Versions \cup {None}]
      /\ disk \in [Files -> Versions \cup {None}]
      /\ cur # None <=> pc \in Writing
      /\ cur \in Files \cup {None}
  BY DEF TypeInv, TypeOK
<1>1. ASSUME NEW f \in Files, NEW v \in Versions \cup {None}, Edit(f, v) PROVE RunView'
  BY <1>1 DEF Edit
<1>2. ASSUME NEW w \in SUBSET Present, NEW i \in BOOLEAN, StartBatch(i, w)
      PROVE  RunView'
  BY <1>2 DEF StartBatch, Walk
<1>3. ASSUME NEW w \in SUBSET Present, StartStream(w) PROVE RunView'
  BY <1>3 DEF StartStream, StartFiles, Walk
<1>4. ASSUME NEW f \in Files, StartWatch(f) PROVE RunView'
  BY <1>4 DEF StartWatch, StartFiles
<1>5. ASSUME NEW f \in Files, RemoveRows(f) PROVE RunView'
  BY <1>5 DEF RemoveRows
<1>6. ASSUME NEW f \in Files, ParseFile(f) PROVE RunView'
  BY <1>6, <1>t DEF ParseFile
<1>7. ASSUME NEW f \in Files, SkipFile(f) PROVE RunView'
  BY <1>7 DEF SkipFile
<1>8. ASSUME NEW f \in Files, HashFile(f) PROVE RunView'
  BY <1>8, <1>t DEF HashFile
<1>9. ASSUME NEW f \in Files, TakeParsed(f) PROVE RunView'
  BY <1>9 DEF TakeParsed
<1>10. CASE ReadFile
  <2>1. cur \in Files
    BY <1>10, <1>t, NoneAssumption DEF ReadFile, Writing
  <2>2. QED
    BY <1>10, <1>t, <2>1 DEF ReadFile
<1>11. CASE UpsertFile
  BY <1>11 DEF UpsertFile
<1>12. CASE DropVectors
  BY <1>12 DEF DropVectors
<1>13. CASE DropSymbols
  BY <1>13 DEF DropSymbols
<1>14. CASE InsertSymbols
  <2>1. cur \in Files
    BY <1>14, <1>t, NoneAssumption DEF InsertSymbols, Writing
  <2>2. \A f \in Files : got'[f] # None => got'[f] = got[f]
    BY <1>14, <1>t, <2>1 DEF InsertSymbols, Written
  <2>3. QED
    BY <1>14, <1>t, <2>1, <2>2 DEF InsertSymbols, Written
<1>15. CASE InsertChunks
  BY <1>15 DEF InsertChunks, Written, Settle
<1>16. CASE WriteError
  BY <1>16 DEF WriteError, Written
<1>17. CASE Fold
  BY <1>17 DEF Fold
<1>18. CASE Reconcile
  BY <1>18 DEF Reconcile
<1>19. ASSUME NEW b \in SUBSET queue, EmbedBatch(b) PROVE RunView'
  BY <1>19 DEF EmbedBatch
<1>20. ASSUME NEW b \in SUBSET queue, EmbedError(b) PROVE RunView'
  BY <1>20 DEF EmbedError
<1>21. CASE FileDone
  BY <1>21 DEF FileDone
<1>22. CASE RunDone
  BY <1>22 DEF RunDone, Reset
<1>23. CASE RemoveVectors
  BY <1>23 DEF RemoveVectors
<1>24. CASE Crash
  BY <1>24 DEF Crash, Reset
<1>25. CASE UNCHANGED vars
  BY <1>25 DEF vars
<1>26. QED
  BY <1>1, <1>2, <1>3, <1>4, <1>5, <1>6, <1>7, <1>8, <1>9, <1>10, <1>11, <1>12, <1>13,
     <1>14, <1>15, <1>16, <1>17, <1>18, <1>19, <1>20, <1>21, <1>22, <1>23, <1>24, <1>25
  DEF Next, Run

\* What a run leaves behind it is in step with the tree.
LEMMA FilesStep ==
  TypeInv /\ Control /\ RewriteInv /\ OneRow /\ HashAnswersForRows /\ RunView
    /\ FilesCovered /\ [Next]_vars => FilesCovered'
<1> SUFFICES ASSUME TypeInv, Control, RewriteInv, OneRow, HashAnswersForRows, RunView,
                    FilesCovered, [Next]_vars
             PROVE FilesCovered'
  OBVIOUS
<1> USE DEF FilesCovered, InStep, db, work, embed, ghosts
<1>t. /\ got \in [Files -> Versions \cup {None}]
      /\ fileRow \in [Files -> Versions \cup {None}]
      /\ symbols \in [Files -> SUBSET Row]
      /\ doubled \in [Files -> SUBSET Names]
      /\ cur # None <=> pc \in Writing
      /\ cur \in Files \cup {None}
  BY DEF TypeInv, TypeOK
<1>1. ASSUME NEW f \in Files, NEW v \in Versions \cup {None}, Edit(f, v) PROVE FilesCovered'
  BY <1>1 DEF Edit, Control, Ahead
<1>2. ASSUME NEW w \in SUBSET Present, NEW i \in BOOLEAN, StartBatch(i, w)
      PROVE  FilesCovered'
  <2>1. ASSUME mode' = "batch", NEW f \in Present \ (suspect \cup unwalked'), f \notin todo'
        PROVE InStep(f, disk[f])
    BY <1>2, <2>1 DEF StartBatch, Walk, HashAnswersForRows, Present
  <2>2. mode' = "batch" \/ mode' = "none"
    BY <1>2 DEF StartBatch, Walk
  <2>3. QED
    BY <1>2, <2>1, <2>2 DEF StartBatch, Walk, Present, Ahead
<1>3. ASSUME NEW w \in SUBSET Present, StartStream(w) PROVE FilesCovered'
  BY <1>3 DEF StartStream, StartFiles, Walk, Present, Ahead
<1>4. ASSUME NEW f \in Files, StartWatch(f) PROVE FilesCovered'
  BY <1>4 DEF StartWatch, StartFiles
<1>5. ASSUME NEW f \in Files, RemoveRows(f) PROVE FilesCovered'
  BY <1>5 DEF RemoveRows
<1>6. ASSUME NEW f \in Files, ParseFile(f) PROVE FilesCovered'
  <2>1. CASE errs'
    BY <2>1
  <2>2. CASE ~errs'
    <3>0. got' = [got EXCEPT ![f] = disk[f]] /\ disk[f] # None /\ errs' = errs
      BY <1>6, <2>2 DEF ParseFile
    <3>1. ~errs
      BY <2>2, <3>0, Zenon
    <3>2. \A g \in Files : Ahead(g) => Ahead(g)'
      BY <1>6, <1>t, <3>0 DEF ParseFile, Ahead
    <3>3. QED
      BY <1>6, <3>0, <3>1, <3>2 DEF ParseFile, Present
  <2>3. QED
    BY <2>1, <2>2
<1>7. ASSUME NEW f \in Files, SkipFile(f) PROVE FilesCovered'
  <2>1. CASE errs'
    BY <2>1
  <2>2. CASE ~errs' /\ mode = "stream" /\ report # "edited"
    <3>0. errs' = errs /\ (fileRow[f] = seen[f] \/ fileRow[f] = disk[f])
      BY <1>7, <2>2 DEF SkipFile
    <3>1. ~errs
      BY <2>2, <3>0, Zenon
    <3>2. fileRow[f] = disk[f]
      BY <2>2, <3>0 DEF RunView
    <3>3. f \in Present \ suspect => InStep(f, disk[f])
      BY <3>2 DEF HashAnswersForRows, Present
    <3>4. \A g \in Files \ {f} : Ahead(g) => Ahead(g)'
      BY <1>7 DEF SkipFile, Ahead
    <3>5. QED
      BY <1>7, <2>2, <3>1, <3>3, <3>4 DEF SkipFile, Present
  <2>3. QED
    BY <1>7, <2>1, <2>2 DEF SkipFile, Control, Rewriting
<1>8. ASSUME NEW f \in Files, HashFile(f) PROVE FilesCovered'
  <2>1. cur = None
    BY <1>8, <1>t DEF HashFile, Writing
  <2>2. \A g \in Files : Ahead(g) => Ahead(g)'
    BY <1>8, <2>1, NoneAssumption DEF HashFile, Ahead
  <2>3. QED
    BY <1>8, <2>2 DEF HashFile, Present
<1>9. ASSUME NEW f \in Files, TakeParsed(f) PROVE FilesCovered'
  <2>1. cur = None
    BY <1>9, <1>t DEF TakeParsed, Writing
  <2>2. \A g \in Files : Ahead(g) => Ahead(g)'
    BY <1>9, <2>1, NoneAssumption DEF TakeParsed, Ahead
  <2>3. QED
    BY <1>9, <2>2 DEF TakeParsed, Present
<1>10. CASE ReadFile
  <2>1. CASE errs'
    BY <2>1
  <2>2. CASE ~errs'
    <3>0. got' = [got EXCEPT ![cur] = disk[cur]] /\ disk[cur] # None /\ errs' = errs /\ cur' = cur
      BY <1>10, <2>2 DEF ReadFile
    <3>1. ~errs
      BY <2>2, <3>0, Zenon
    <3>2. \A g \in Files : Ahead(g) => Ahead(g)'
      BY <1>10, <1>t, <3>0 DEF ReadFile, Ahead
    <3>3. QED
      BY <1>10, <3>0, <3>1, <3>2 DEF ReadFile, Present
  <2>3. QED
    BY <2>1, <2>2
<1>11. CASE UpsertFile
  BY <1>11 DEF UpsertFile, Present, Ahead
<1>12. CASE DropVectors
  BY <1>12 DEF DropVectors, Present, Ahead
<1>13. CASE DropSymbols
  <2>1. \A g \in Files : g # cur => symbols'[g] = symbols[g] /\ doubled'[g] = doubled[g]
    BY <1>13, <1>t DEF DropSymbols
  <2>2. QED
    BY <1>13, <2>1 DEF DropSymbols, Present, Ahead
<1>14. CASE InsertSymbols
  <2>1. cur \in Files
    BY <1>14, <1>t, NoneAssumption DEF InsertSymbols, Writing
  <2>2. \A g \in Files : g # cur => symbols'[g] = symbols[g] /\ doubled'[g] = doubled[g]
    BY <1>14, <1>t DEF InsertSymbols
  <2>3. Mirrors(symbols'[cur], doubled'[cur], got[cur]) /\ got[cur] # None
    BY <1>14, InsertStep DEF InsertSymbols, TypeInv, ReadBeforeWrite, Writing
  <2>4. \A g \in Files : g # cur => (Ahead(g) => Ahead(g)')
    BY <1>14, <1>t, <2>1 DEF InsertSymbols, Written, Ahead
  <2>5. \A g \in Files : g # cur => (g \in suspect <=> g \in suspect')
    BY <1>14 DEF InsertSymbols, Settle
  <2>6. /\ disk' = disk /\ mode' = mode /\ report' = report /\ errs' = errs
        /\ unwalked' = unwalked
    BY <1>14 DEF InsertSymbols
  <2>7. mode \in {"batch", "stream"} /\ report # "edited" => got[cur] = disk[cur]
    BY <2>1, <2>3 DEF RunView
  <2>8. QED
    BY <2>2, <2>3, <2>4, <2>5, <2>6, <2>7 DEF Present
<1>15. CASE InsertChunks
  <2>1. cur \in Files
    BY <1>15, <1>t, NoneAssumption DEF InsertChunks, Writing
  <2>2. Mirrors(symbols[cur], doubled[cur], got[cur]) /\ got[cur] # None
    BY <1>15 DEF InsertChunks, RewriteInv, TypeInv, ReadBeforeWrite, Writing
  <2>3. \A g \in Files : g # cur => (Ahead(g) => Ahead(g)')
    BY <1>15, <1>t, <2>1 DEF InsertChunks, Written, Ahead
  <2>4. \A g \in Files : g # cur => (g \in suspect <=> g \in suspect')
    BY <1>15 DEF InsertChunks, Settle
  <2>5. /\ symbols' = symbols /\ disk' = disk /\ mode' = mode /\ report' = report
        /\ errs' = errs /\ doubled' = doubled /\ unwalked' = unwalked
    BY <1>15 DEF InsertChunks
  <2>6. mode \in {"batch", "stream"} /\ report # "edited" => got[cur] = disk[cur]
    BY <2>1, <2>2 DEF RunView
  <2>7. QED
    BY <2>2, <2>3, <2>4, <2>5, <2>6 DEF Present
<1>16. CASE WriteError
  <2>1. errs'
    BY <1>16 DEF WriteError
  <2>2. QED
    BY <2>1
<1>17. CASE Fold
  BY <1>17 DEF Fold, Present, Ahead
<1>18. CASE Reconcile
  BY <1>18 DEF Reconcile, Present, Ahead
<1>19. ASSUME NEW b \in SUBSET queue, EmbedBatch(b) PROVE FilesCovered'
  BY <1>19 DEF EmbedBatch, Present, Ahead
<1>20. ASSUME NEW b \in SUBSET queue, EmbedError(b) PROVE FilesCovered'
  BY <1>20 DEF EmbedError, Present, Ahead
<1>21. CASE FileDone
  <2>1. ~errs' => ~errs
    BY <1>21, Zenon DEF FileDone
  <2>2. QED
    BY <1>21, <2>1 DEF FileDone, Present, Ahead
<1>22. CASE RunDone
  BY <1>22 DEF RunDone, Reset
<1>23. CASE RemoveVectors
  BY <1>23 DEF RemoveVectors
<1>24. CASE Crash
  BY <1>24 DEF Crash, Reset
<1>25. CASE UNCHANGED vars
  BY <1>25 DEF vars, Present, Ahead
<1>26. QED
  BY <1>1, <1>2, <1>3, <1>4, <1>5, <1>6, <1>7, <1>8, <1>9, <1>10, <1>11, <1>12, <1>13,
     <1>14, <1>15, <1>16, <1>17, <1>18, <1>19, <1>20, <1>21, <1>22, <1>23, <1>24, <1>25
  DEF Next, Run

\* Every hole stays on some list of the run until its batch is stored.
LEMMA HolesStep ==
  Control /\ IdsDrawn /\ HolesCovered /\ [Next]_vars => HolesCovered'
<1> SUFFICES ASSUME Control, IdsDrawn, HolesCovered, [Next]_vars PROVE HolesCovered'
  OBVIOUS
<1> USE DEF HolesCovered, db, work, embed, ghosts
<1>1. ASSUME NEW f \in Files, NEW v \in Versions \cup {None}, Edit(f, v) PROVE HolesCovered'
  <2>1. Repairing' => Repairing
    BY <1>1, Zenon DEF Edit, Repairing
  <2>2. QED
    BY <1>1, <2>1, StaleSame DEF Edit, Claimed, Holes, StaleIds, IdsOf
<1>2. ASSUME NEW w \in SUBSET Present, NEW i \in BOOLEAN, StartBatch(i, w)
      PROVE  HolesCovered'
  <2>1. Repairing' => repair' = Holes /\ pc' = "parse"
    BY <1>2, Zenon DEF StartBatch, Walk, Spend, Scan, Repairing
  <2>2. QED
    BY <1>2, <2>1 DEF StartBatch, Walk, Holes, Claimed
<1>3. ASSUME NEW w \in SUBSET Present, StartStream(w) PROVE HolesCovered'
  <2>1. ~Repairing'
    BY <1>3, Zenon DEF StartStream, StartFiles, Walk, Repairing
  <2>2. QED
    BY <2>1
<1>4. ASSUME NEW f \in Files, StartWatch(f) PROVE HolesCovered'
  <2>1. ~Repairing'
    BY <1>4, Zenon DEF StartWatch, StartFiles, Repairing
  <2>2. QED
    BY <2>1
<1>5. ASSUME NEW f \in Files, RemoveRows(f) PROVE HolesCovered'
  <2>1. ~Repairing'
    BY <1>5 DEF RemoveRows, Repairing
  <2>2. QED
    BY <2>1
<1>6. ASSUME NEW f \in Files, ParseFile(f) PROVE HolesCovered'
  <2>1. Repairing' => Repairing
    BY <1>6, Zenon DEF ParseFile, Repairing
  <2>2. QED
    BY <1>6, <2>1 DEF ParseFile, Claimed, Holes
<1>7. ASSUME NEW f \in Files, SkipFile(f) PROVE HolesCovered'
  <2>1. Repairing' => Repairing
    BY <1>7, Zenon DEF SkipFile, Repairing
  <2>2. QED
    BY <1>7, <2>1 DEF SkipFile, Claimed, Holes
<1>8. ASSUME NEW f \in Files, HashFile(f) PROVE HolesCovered'
  <2>1. Repairing' => Repairing
    BY <1>8, Zenon DEF HashFile, Repairing
  <2>2. QED
    BY <1>8, <2>1 DEF HashFile, Claimed, Holes
<1>9. ASSUME NEW f \in Files, TakeParsed(f) PROVE HolesCovered'
  <2>1. Repairing' => Repairing
    BY <1>9, Zenon DEF TakeParsed, Repairing
  <2>2. QED
    BY <1>9, <2>1 DEF TakeParsed, Claimed, Holes
<1>10. CASE ReadFile
  <2>1. Repairing' => Repairing
    BY <1>10, Zenon DEF ReadFile, Repairing
  <2>2. QED
    BY <1>10, <2>1 DEF ReadFile, Claimed, Holes
<1>11. CASE UpsertFile
  <2>1. Repairing' => Repairing
    BY <1>11, Zenon DEF UpsertFile, Repairing
  <2>2. QED
    BY <1>11, <2>1 DEF UpsertFile, Claimed, Holes
<1>12. CASE DropVectors
  <2>1. Repairing' => Repairing
    BY <1>12, Zenon DEF DropVectors, Repairing
  <2>2. StaleIds' = StaleIds
    BY <1>12, StaleSame DEF DropVectors, StaleIds, IdsOf
  <2>3. Holes' \subseteq Holes \cup StaleIds
    BY <1>12 DEF DropVectors, Holes, IdsOf
  <2>4. QED
    BY <1>12, <2>1, <2>2, <2>3 DEF DropVectors, Claimed
<1>13. CASE DropSymbols
  <2>1. Repairing' => Repairing
    BY <1>13, Zenon DEF DropSymbols, Repairing
  <2>2. Holes' \subseteq Holes \ StaleIds
    BY <1>13 DEF DropSymbols, Holes, StaleIds, IdsDrawn, IdsOf
  <2>3. QED
    BY <1>13, <2>1, <2>2 DEF DropSymbols, Claimed
<1>14. CASE InsertSymbols
  <2>1. Repairing' => Repairing
    BY <1>14, Zenon DEF InsertSymbols, Repairing
  <2>2. Holes' = Holes /\ queue' = queue /\ repair' = repair /\ pc = "insert" /\ pc' # "drop"
        /\ pc' # "embed"
    BY <1>14 DEF InsertSymbols, Written, Holes, Control, Rewriting
  <2>3. QED
    BY <2>1, <2>2 DEF Claimed
<1>15. CASE InsertChunks
  <2>1. Repairing' => Repairing
    BY <1>15, Zenon DEF InsertChunks, Repairing
  <2>2. \A r \in fresh : <<nextTxn, r.id[2]>> \in IdsOf(queue')
    <3>1. TAKE r \in fresh
    <3>2. [id |-> <<nextTxn, r.id[2]>>, text |-> r.sym] \in queue'
      BY <1>15 DEF InsertChunks
    <3>3. QED
      BY <3>2 DEF IdsOf
  <2>3. Holes' \subseteq Holes \cup IdsOf(queue')
    BY <1>15, <2>2 DEF InsertChunks, Holes, IdsOf
  <2>4. IdsOf(queue) \subseteq IdsOf(queue') /\ repair' = repair /\ pc = "chunk" /\ pc' # "drop"
        /\ pc' # "embed"
    BY <1>15 DEF InsertChunks, Written, IdsOf
  <2>5. QED
    BY <2>1, <2>3, <2>4 DEF Claimed
<1>16. CASE WriteError
  <2>1. ~Repairing'
    BY <1>16, Zenon DEF WriteError, Repairing
  <2>2. QED
    BY <2>1
<1>17. CASE Fold
  <2>1. Repairing' => Repairing
    BY <1>17, Zenon DEF Fold, Repairing
  <2>2. \A c \in chunks : c.id \in repair => c.id \in IdsOf(queue')
    <3>1. TAKE c \in chunks
    <3>2. HAVE c.id \in repair
    <3>3. CASE c.id \in IdsOf(queue)
      BY <1>17, <3>3 DEF Fold, IdsOf
    <3>4. CASE c.id \notin IdsOf(queue)
      <4>1. [id |-> c.id, text |-> c.row.sym] \in queue'
        BY <1>17, <3>2, <3>4 DEF Fold, WorkFor
      <4>2. QED
        BY <4>1 DEF IdsOf
    <3>5. QED
      BY <3>3, <3>4
  <2>3. Holes' = Holes /\ Holes \subseteq IdsOf(chunks)
    BY <1>17 DEF Fold, Holes
  <2>4. Holes \cap repair \subseteq IdsOf(queue')
    BY <2>2, <2>3 DEF IdsOf
  <2>5. IdsOf(queue) \subseteq IdsOf(queue') /\ pc = "parse" /\ pc' = "embed"
    BY <1>17 DEF Fold, IdsOf
  <2>6. QED
    BY <2>1, <2>3, <2>4, <2>5 DEF Claimed
<1>18. CASE Reconcile
  <2>1. Repairing' => repair' = Holes /\ queue' = WorkFor(repair')
    BY <1>18, Zenon DEF Reconcile, Scan, Repairing
  <2>2. \A c \in chunks : c.id \in Holes => [id |-> c.id, text |-> c.row.sym] \in WorkFor(Holes)
    BY DEF WorkFor
  <2>3. Holes \subseteq IdsOf(WorkFor(Holes))
    <3>1. SUFFICES ASSUME NEW i \in Holes PROVE i \in IdsOf(WorkFor(Holes))
      OBVIOUS
    <3>2. PICK c \in chunks : c.id = i
      BY DEF Holes, IdsOf
    <3>3. [id |-> i, text |-> c.row.sym] \in WorkFor(Holes)
      BY <2>2, <3>2
    <3>4. QED
      BY <3>3 DEF IdsOf
  <2>4. Holes' = Holes
    BY <1>18 DEF Reconcile, Holes
  <2>5. QED
    BY <2>1, <2>3, <2>4 DEF Claimed
<1>19. ASSUME NEW b \in SUBSET queue, EmbedBatch(b) PROVE HolesCovered'
  <2>1. Repairing' => Repairing
    BY <1>19, Zenon DEF EmbedBatch, Repairing
  <2>2. IdsOf(queue) \subseteq IdsOf(b) \cup IdsOf(queue')
    BY <1>19 DEF EmbedBatch, IdsOf
  <2>3. \A w \in b : w.id \in IdsOf(vectors')
    <3>1. TAKE w \in b
    <3>2. [id |-> w.id, text |-> w.text] \in vectors'
      BY <1>19 DEF EmbedBatch
    <3>3. QED
      BY <3>2 DEF IdsOf
  <2>4. \A v \in vectors : v.id \in IdsOf(vectors')
    BY <1>19, <2>3 DEF EmbedBatch, IdsOf
  <2>5. Holes' \subseteq Holes \ IdsOf(b)
    BY <1>19, <2>3, <2>4 DEF EmbedBatch, Holes, IdsOf
  <2>6. pc' = pc /\ pc # "drop" /\ repair' = repair
    BY <1>19 DEF EmbedBatch, Embedding
  <2>7. QED
    BY <2>1, <2>2, <2>5, <2>6 DEF Claimed
<1>20. ASSUME NEW b \in SUBSET queue, EmbedError(b) PROVE HolesCovered'
  <2>1. ~Repairing'
    BY <1>20, Zenon DEF EmbedError, Repairing
  <2>2. QED
    BY <2>1
<1>21. CASE FileDone
  <2>1. Repairing' => Repairing /\ queue = {}
    BY <1>21, Zenon DEF FileDone, Repairing
  <2>2. QED
    BY <1>21, <2>1 DEF FileDone, Claimed, Holes
<1>22. CASE RunDone
  <2>1. ~Repairing'
    BY <1>22 DEF RunDone, Reset, Repairing
  <2>2. QED
    BY <2>1
<1>23. CASE RemoveVectors
  <2>1. ~Repairing'
    BY <1>23 DEF RemoveVectors, Repairing
  <2>2. QED
    BY <2>1
<1>24. CASE Crash
  <2>1. ~Repairing'
    BY <1>24 DEF Crash, Reset, Repairing
  <2>2. QED
    BY <2>1
<1>25. CASE UNCHANGED vars
  <2>1. Repairing' => Repairing
    BY <1>25, Zenon DEF vars, Repairing
  <2>2. QED
    BY <1>25, <2>1, StaleSame DEF vars, Claimed, Holes, StaleIds, IdsOf
<1>26. QED
  BY <1>1, <1>2, <1>3, <1>4, <1>5, <1>6, <1>7, <1>8, <1>9, <1>10, <1>11, <1>12, <1>13,
     <1>14, <1>15, <1>16, <1>17, <1>18, <1>19, <1>20, <1>21, <1>22, <1>23, <1>24, <1>25
  DEF Next, Run

\* A run reports success over what it covered.
LEMMA CoverStep ==
  TypeInv /\ Control /\ HashAnswersForRows /\ RunView /\ FilesCovered /\ HolesCovered
    /\ FinishedRunCovers /\ [Next]_vars => FinishedRunCovers'
<1> SUFFICES ASSUME TypeInv, Control, HashAnswersForRows, RunView, FilesCovered, HolesCovered,
                    FinishedRunCovers, [Next]_vars
             PROVE FinishedRunCovers'
  OBVIOUS
<1> USE DEF FinishedRunCovers, InStep, RunView, db, work, embed, ghosts
<1>1. ASSUME NEW f \in Files, NEW v \in Versions \cup {None}, Edit(f, v) PROVE FinishedRunCovers'
  BY <1>1 DEF Edit
<1>2. ASSUME NEW w \in SUBSET Present, NEW i \in BOOLEAN, StartBatch(i, w)
      PROVE  FinishedRunCovers'
  <2>1. CASE report' = "uptodate"
    <3>1. todo' = {} /\ repair' = {}
      BY <1>2, <2>1 DEF StartBatch, Walk
    <3>2. \A f \in Present \ (suspect \cup unwalked') : InStep(f, disk[f])
      BY <1>2, <3>1 DEF StartBatch, Walk, HashAnswersForRows, Present
    <3>3. scanned' => Holes = {}
      BY <1>2, <3>1, Zenon DEF StartBatch, Walk, Spend, Scan
    <3>4. QED
      BY <1>2, <3>2, <3>3 DEF StartBatch, Walk, Present, Holes
  <2>2. QED
    BY <1>2, <2>1 DEF StartBatch, Walk
<1>3. ASSUME NEW w \in SUBSET Present, StartStream(w) PROVE FinishedRunCovers'
  BY <1>3 DEF StartStream, StartFiles, Walk
<1>4. ASSUME NEW f \in Files, StartWatch(f) PROVE FinishedRunCovers'
  BY <1>4 DEF StartWatch, StartFiles
<1>5. ASSUME NEW f \in Files, RemoveRows(f) PROVE FinishedRunCovers'
  BY <1>5 DEF RemoveRows
<1>6. ASSUME NEW f \in Files, ParseFile(f) PROVE FinishedRunCovers'
  BY <1>6 DEF ParseFile
<1>7. ASSUME NEW f \in Files, SkipFile(f) PROVE FinishedRunCovers'
  BY <1>7 DEF SkipFile
<1>8. ASSUME NEW f \in Files, HashFile(f) PROVE FinishedRunCovers'
  BY <1>8 DEF HashFile
<1>9. ASSUME NEW f \in Files, TakeParsed(f) PROVE FinishedRunCovers'
  BY <1>9 DEF TakeParsed
<1>10. CASE ReadFile
  BY <1>10 DEF ReadFile
<1>11. CASE UpsertFile
  BY <1>11 DEF UpsertFile
<1>12. CASE DropVectors
  BY <1>12 DEF DropVectors
<1>13. CASE DropSymbols
  BY <1>13 DEF DropSymbols
<1>14. CASE InsertSymbols
  BY <1>14 DEF InsertSymbols, Written, Settle
<1>15. CASE InsertChunks
  BY <1>15 DEF InsertChunks, Written, Settle
<1>16. CASE WriteError
  BY <1>16 DEF WriteError, Written
<1>17. CASE Fold
  BY <1>17 DEF Fold
<1>18. CASE Reconcile
  BY <1>18 DEF Reconcile
<1>19. ASSUME NEW b \in SUBSET queue, EmbedBatch(b) PROVE FinishedRunCovers'
  BY <1>19 DEF EmbedBatch, Embedding
<1>20. ASSUME NEW b \in SUBSET queue, EmbedError(b) PROVE FinishedRunCovers'
  BY <1>20 DEF EmbedError, Embedding
<1>21. CASE FileDone
  BY <1>21 DEF FileDone
<1>22. CASE RunDone
  <2>1. CASE report' = "done"
    <3>1. mode # "watch" /\ report # "edited" /\ ~abort /\ ~errs
      BY <1>22, <2>1 DEF RunDone
    <3>2. pc = "embed" /\ queue = {}
      BY <1>22, <3>1, Zenon DEF RunDone
    <3>3. mode \in {"batch", "stream"}
      BY <3>1, <3>2 DEF Control, TypeInv, TypeOK
    <3>4. \A f \in Files : ~Ahead(f)
      BY <3>2, NoneAssumption DEF Control, Rewriting, Ahead, TypeInv, TypeOK, Writing
    <3>5. \A f \in Present \ (suspect \cup unwalked) : InStep(f, disk[f])
      BY <3>1, <3>3, <3>4 DEF FilesCovered, Present
    <3>6. scanned => Repairing
      BY <3>1, <3>3 DEF Repairing
    <3>7. Claimed = {}
      BY <3>2 DEF Claimed, IdsOf
    <3>8. scanned => Holes = {}
      BY <3>6, <3>7 DEF HolesCovered
    <3>9. scanned' = scanned
      BY <1>22 DEF RunDone
    <3>10. QED
      BY <1>22, <3>5, <3>8, <3>9 DEF RunDone, Present, Holes
  <2>2. report' \in {"none", "partial", "done"}
    BY <1>22 DEF RunDone
  <2>3. QED
    BY <2>1, <2>2
<1>23. CASE RemoveVectors
  BY <1>23 DEF RemoveVectors
<1>24. CASE Crash
  BY <1>24 DEF Crash, Reset
<1>25. CASE UNCHANGED vars
  BY <1>25 DEF vars, Present, Holes
<1>26. QED
  BY <1>1, <1>2, <1>3, <1>4, <1>5, <1>6, <1>7, <1>8, <1>9, <1>10, <1>11, <1>12, <1>13,
     <1>14, <1>15, <1>16, <1>17, <1>18, <1>19, <1>20, <1>21, <1>22, <1>23, <1>24, <1>25
  DEF Next, Run

\* A run that reports success, over a tree nobody edited meanwhile, left no chunk row
\* without a vector (if its scan worked) and no file its walk reached out of step, the
\* suspect ones apart.
THEOREM FinishedRunIsComplete == Spec => []FinishedRunCovers
<1> DEFINE Cover == RunView /\ FilesCovered /\ HolesCovered /\ FinishedRunCovers
<1>1. Init => Cover
  BY DEF Init, RunView, FilesCovered, HolesCovered, Repairing, FinishedRunCovers
<1>2. IInv /\ Cover /\ [Next]_vars => Cover'
  BY ViewStep, FilesStep, HolesStep, CoverStep DEF IInv
<1>3. Cover => FinishedRunCovers
  OBVIOUS
<1>4. QED
  BY IInvInvariant, <1>1, <1>2, <1>3, PTL DEF Spec
=============================================================================
