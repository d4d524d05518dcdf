-------------------------- MODULE StorePartsProofs --------------------------
(***************************************************************************)
(* What is proved of four small components: an embedding phase, the        *)
(* request limiter, the embedding cache and agent sessions.  They share    *)
(* nothing; each part has its own inductive invariant.                     *)
(***************************************************************************)
EXTENDS EmbedPhase, RequestLimiter, EmbeddingCache, AgentTurns,
        SequenceTheorems, FiniteSetTheorems, TLAPS

----------------------------------------------------------------------------
(* What an embedding phase reports, for every number of batches, permits   *)
(* and failures.  The counters are the cardinalities of the sets of        *)
(* batches they count; an outcome is set only when every batch is over;    *)
(* then landed, failed and skipped partition the batches.                  *)

Sent == {"embedding", "upserting", "stored", "landed", "failed"}

\* The counters count, what is stored has its vectors, and what is paid for was sent.
Counted ==
  /\ soFar = Cardinality(In("landed"))
  /\ skippedSoFar = Cardinality(In("skipped"))
  /\ In("stored") \cup In("landed") \subseteq vectors
  /\ paid = {b \in Batches : stage[b] \in Sent}

\* An outcome comes last, and is an error if and only if a batch failed.
Ended ==
  outcome # "none" =>
    /\ \A b \in Batches : stage[b] \in Over
    /\ outcome = "error" <=> In("failed") # {}

\* One by one, the batches that landed come before those that are left.
InLine ==
  ~together /\ outcome = "none" =>
    \A b \in Batches : /\ stage[b] \in {"made", "landed"}
                       /\ stage[b] = "landed" => \A c \in 1 .. b - 1 : stage[c] = "landed"

PhaseInv == PhaseTypeOK /\ Counted /\ Ended /\ InLine

----------------------------------------------------------------------------
LEMMA BatchesFinite ==
  /\ IsFiniteSet(Batches) /\ Cardinality(Batches) = NumBatches
  /\ \A S \in SUBSET Batches : IsFiniteSet(S) /\ Cardinality(S) \in 0 .. NumBatches
  <1>1. NumBatches \in Int /\ 1 \in Int /\ ~(1 > NumBatches)
    BY PhaseAssumption
  <1>2. IsFiniteSet(Batches) /\ Cardinality(Batches) = NumBatches
    BY <1>1, FS_Interval DEF Batches
  <1>3. ASSUME NEW S \in SUBSET Batches
        PROVE  IsFiniteSet(S) /\ Cardinality(S) \in 0 .. NumBatches
    <2>1. IsFiniteSet(S) /\ Cardinality(S) <= Cardinality(Batches)
      BY <1>2, FS_Subset
    <2> QED BY <1>2, <2>1, FS_CardinalityType, PhaseAssumption
  <1> QED BY <1>2, <1>3

\* Moving a batch to another stage takes it out of one set and puts it into the other.
LEMMA PutMoves ==
  ASSUME PhaseTypeOK, NEW b \in Batches,
         NEW st \in Over \cup {"made", "limiter", "permit", "embedding", "upserting", "stored"},
         Put(b, st)
  PROVE  /\ stage' \in [Batches -> Over \cup {"made", "limiter", "permit", "embedding",
                                              "upserting", "stored"}]
         /\ stage'[b] = st /\ \A c \in Batches \ {b} : stage'[c] = stage[c]
         /\ In(st)' = In(st) \cup {b}
         /\ \A t : t # st => In(t)' = In(t) \ {b}
  BY DEF PhaseTypeOK, Put, In

LEMMA PutCounts ==
  ASSUME PhaseTypeOK, NEW b \in Batches, Put(b, "landed") \/ Put(b, "skipped"),
         stage[b] \notin {"landed", "skipped"}
  PROVE  /\ Put(b, "landed") => /\ Cardinality(In("landed")') = Cardinality(In("landed")) + 1
                                /\ In("skipped")' = In("skipped")
         /\ Put(b, "skipped") => /\ Cardinality(In("skipped")') = Cardinality(In("skipped")) + 1
                                 /\ In("landed")' = In("landed")
  <1>1. b \notin In("landed") /\ b \notin In("skipped")
    BY DEF In
  <1>2. ASSUME Put(b, "landed")
        PROVE  /\ Cardinality(In("landed")') = Cardinality(In("landed")) + 1
               /\ In("skipped")' = In("skipped")
    <2>1. In("landed")' = In("landed") \cup {b} /\ In("skipped")' = In("skipped") \ {b}
      BY <1>2, PutMoves DEF Over
    <2>2. IsFiniteSet(In("landed"))
      BY BatchesFinite DEF In
    <2>3. Cardinality(In("landed") \cup {b}) = Cardinality(In("landed")) + 1
      BY <1>1, <2>2, FS_AddElement
    <2> QED BY <1>1, <2>1, <2>3
  <1>3. ASSUME Put(b, "skipped")
        PROVE  /\ Cardinality(In("skipped")') = Cardinality(In("skipped")) + 1
               /\ In("landed")' = In("landed")
    <2>1. In("skipped")' = In("skipped") \cup {b} /\ In("landed")' = In("landed") \ {b}
      BY <1>3, PutMoves DEF Over
    <2>2. IsFiniteSet(In("skipped"))
      BY BatchesFinite DEF In
    <2>3. Cardinality(In("skipped") \cup {b}) = Cardinality(In("skipped")) + 1
      BY <1>1, <2>2, FS_AddElement
    <2> QED BY <1>1, <2>1, <2>3
  <1> QED BY <1>2, <1>3

LEMMA PhaseInitInv == PhaseInit => PhaseInv
  <1>1. SUFFICES ASSUME PhaseInit PROVE PhaseInv
    OBVIOUS
  <1>2. \A st : st # "made" => In(st) = {}
    BY <1>1 DEF PhaseInit, In
  <1>3. PhaseTypeOK
    <2>1. 0 \in 0 .. NumBatches /\ 0 \in 0 .. MaxBatchFaults
      BY PhaseAssumption
    <2>2. \A b \in Batches : "made" \in Over \cup {"made", "limiter", "permit", "embedding",
                                                   "upserting", "stored"}
      OBVIOUS
    <2> QED BY <1>1, <2>1, <2>2 DEF PhaseInit, PhaseTypeOK
  <1>4. Counted
    <2>1. Cardinality(In("landed")) = 0 /\ Cardinality(In("skipped")) = 0
      BY <1>2, FS_EmptySet
    <2>2. paid = {b \in Batches : stage[b] \in Sent}
      BY <1>1 DEF PhaseInit, Sent
    <2> QED BY <1>1, <1>2, <2>1, <2>2 DEF PhaseInit, Counted
  <1> QED BY <1>1, <1>3, <1>4 DEF PhaseInit, PhaseInv, Ended, InLine

\* A batch that is not over keeps the phase from ending, and moves in the event loop only.
LEMMA NotOver ==
  ASSUME PhaseInv, NEW b \in Batches, stage[b] \notin Over, stage[b] = "made" => together
  PROVE  outcome = "none" /\ together
  BY DEF PhaseInv, PhaseTypeOK, Ended, InLine, Over

\* A step of one batch in the event loop that counts nothing and ends nothing.
LEMMA MoveKeepsPhase ==
  ASSUME PhaseInv, together, outcome = "none", NEW b \in Batches,
         NEW st \in {"limiter", "permit", "embedding", "upserting", "stored", "failed"},
         Put(b, st), stage[b] \notin Over,
         UNCHANGED <<together, soFar, skippedSoFar, outcome>>,
         abort' \in BOOLEAN, batchFaults' \in 0 .. MaxBatchFaults,
         vectors \subseteq vectors', vectors' \subseteq vectors \cup {b},
         st = "stored" => b \in vectors',
         paid' = IF st \in Sent THEN paid \cup {b} ELSE paid,
         stage[b] \in Sent => st \in Sent
  PROVE  PhaseInv'
  <1>1. /\ stage' \in [Batches -> Over \cup {"made", "limiter", "permit", "embedding",
                                             "upserting", "stored"}]
        /\ stage'[b] = st /\ \A c \in Batches \ {b} : stage'[c] = stage[c]
        /\ \A t : t # st => In(t)' = In(t) \ {b}
        /\ In(st)' = In(st) \cup {b}
    BY PutMoves DEF PhaseInv, Over
  <1>2. PhaseTypeOK'
    BY <1>1 DEF PhaseInv, PhaseTypeOK
  <1>3. In("landed")' = In("landed") /\ In("skipped")' = In("skipped")
    BY <1>1 DEF In, Over
  <1>4. Counted'
    <2>1. (In("stored") \cup In("landed"))' \subseteq vectors'
      BY <1>1, <1>3 DEF PhaseInv, Counted
    <2>2. paid' = {c \in Batches : stage'[c] \in Sent}
      BY <1>1 DEF PhaseInv, Counted
    <2> QED BY <1>3, <2>1, <2>2 DEF PhaseInv, Counted
  <1> QED BY <1>2, <1>4 DEF PhaseInv, Ended, InLine

LEMMA SkipKeepsPhase ==
  ASSUME PhaseInv, together, outcome = "none", NEW b \in Batches,
         stage[b] \in {"made", "permit"}, Skip(b)
  PROVE  PhaseInv'
  <1>1. Put(b, "skipped") /\ skippedSoFar' = skippedSoFar + 1
    BY DEF Skip
  <1>2. UNCHANGED <<together, abort, vectors, soFar, outcome, paid, batchFaults>>
    BY DEF Skip
  <1>3. /\ stage' \in [Batches -> Over \cup {"made", "limiter", "permit", "embedding",
                                             "upserting", "stored"}]
        /\ stage'[b] = "skipped" /\ \A c \in Batches \ {b} : stage'[c] = stage[c]
        /\ \A t : t # "skipped" => In(t)' = In(t) \ {b}
    BY <1>1, PutMoves DEF PhaseInv, Over
  <1>4. /\ Cardinality(In("skipped")') = Cardinality(In("skipped")) + 1
        /\ In("landed")' = In("landed")
    BY <1>1, PutCounts DEF PhaseInv
  <1>5. Counted'
    <2>1. In("stored")' \subseteq In("stored")
      BY <1>3
    <2>2. paid' = {c \in Batches : stage'[c] \in Sent}
      BY <1>2, <1>3 DEF PhaseInv, Counted, Sent
    <2> QED BY <1>1, <1>2, <1>4, <2>1, <2>2 DEF PhaseInv, Counted
  <1>6. PhaseTypeOK'
    <2>1. In("skipped")' \in SUBSET Batches /\ skippedSoFar' = Cardinality(In("skipped")')
      BY <1>5 DEF Counted, In
    <2>2. skippedSoFar' \in 0 .. NumBatches
      BY <2>1, BatchesFinite
    <2> QED BY <1>2, <1>3, <2>2 DEF PhaseInv, PhaseTypeOK
  <1> QED BY <1>2, <1>5, <1>6 DEF PhaseInv, Ended, InLine

LEMMA CountKeepsPhase ==
  ASSUME PhaseInv, NEW b \in Batches, CountLanded(b)
  PROVE  PhaseInv'
  <1>1. /\ Put(b, "landed") /\ soFar' = soFar + 1 /\ stage[b] = "stored"
        /\ UNCHANGED <<together, abort, vectors, skippedSoFar, outcome, paid, batchFaults>>
    BY DEF CountLanded
  <1>2. outcome = "none" /\ together
    BY <1>1, NotOver DEF Over
  <1>3. /\ stage' \in [Batches -> Over \cup {"made", "limiter", "permit", "embedding",
                                             "upserting", "stored"}]
        /\ stage'[b] = "landed" /\ \A c \in Batches \ {b} : stage'[c] = stage[c]
        /\ \A t : t # "landed" => In(t)' = In(t) \ {b}
        /\ In("landed")' = In("landed") \cup {b}
    BY <1>1, PutMoves DEF PhaseInv, Over
  <1>4. /\ Cardinality(In("landed")') = Cardinality(In("landed")) + 1
        /\ In("skipped")' = In("skipped")
    BY <1>1, PutCounts DEF PhaseInv
  <1>5. Counted'
    <2>1. (In("stored") \cup In("landed"))' \subseteq vectors
      BY <1>1, <1>3 DEF PhaseInv, Counted, In
    <2>2. paid' = {c \in Batches : stage'[c] \in Sent}
      BY <1>1, <1>3 DEF PhaseInv, Counted, Sent
    <2> QED BY <1>1, <1>4, <2>1, <2>2 DEF PhaseInv, Counted
  <1>6. PhaseTypeOK'
    <2>1. In("landed")' \in SUBSET Batches /\ soFar' = Cardinality(In("landed")')
      BY <1>5 DEF Counted, In
    <2>2. soFar' \in 0 .. NumBatches
      BY <2>1, BatchesFinite
    <2> QED BY <1>1, <1>3, <2>2 DEF PhaseInv, PhaseTypeOK
  <1> QED BY <1>1, <1>2, <1>5, <1>6 DEF PhaseInv, Ended, InLine

LEMMA EndKeepsPhase == PhaseInv /\ EndPhase => PhaseInv'
  <1>1. SUFFICES ASSUME PhaseInv, EndPhase PROVE PhaseInv'
    OBVIOUS
  <1>2. /\ UNCHANGED <<together, stage, abort, vectors, soFar, skippedSoFar, paid, batchFaults>>
        /\ outcome' = IF In("failed") = {} THEN "normal" ELSE "error"
    BY <1>1 DEF EndPhase
  <1>3. \A st : In(st)' = In(st)
    BY <1>2 DEF In
  <1>4. PhaseTypeOK' /\ Counted'
    BY <1>1, <1>2, <1>3 DEF PhaseInv, PhaseTypeOK, Counted
  <1>5. Ended' /\ InLine'
    BY <1>1, <1>2, <1>3 DEF PhaseInv, Ended, InLine, EndPhase
  <1> QED BY <1>4, <1>5 DEF PhaseInv

LEMMA ChooseKeepsPhase == PhaseInv /\ ChooseOneByOne => PhaseInv'
  <1>1. SUFFICES ASSUME PhaseInv, ChooseOneByOne PROVE PhaseInv'
    OBVIOUS
  <1>2. /\ UNCHANGED <<stage, abort, vectors, soFar, skippedSoFar, outcome, paid, batchFaults>>
        /\ together' = FALSE /\ In("made") = Batches
    BY <1>1 DEF ChooseOneByOne
  <1>3. \A st : In(st)' = In(st)
    BY <1>2 DEF In
  <1>4. PhaseTypeOK' /\ Counted' /\ Ended'
    BY <1>1, <1>2, <1>3 DEF PhaseInv, PhaseTypeOK, Counted, Ended
  <1>5. InLine'
    BY <1>2 DEF InLine, In
  <1> QED BY <1>4, <1>5 DEF PhaseInv

LEMMA OneByOneKeepsPhase ==
  ASSUME PhaseInv, NEW b \in Batches, EmbedAndStore(b)
  PROVE  PhaseInv'
  <1>1. /\ ~together /\ outcome = "none" /\ together' = together /\ abort' = abort
        /\ stage[b] = "made" /\ \A c \in 1 .. b - 1 : stage[c] = "landed"
        /\ paid' = paid \cup {b}
    BY DEF EmbedAndStore, NextInLine
  <1>2. NumBatches \in Nat \ {0} /\ b \in 1 .. NumBatches /\ Batches = 1 .. NumBatches
    BY PhaseAssumption DEF Batches
  <1>3. \A c \in Batches : c > b => stage[c] = "made"
    BY <1>1, <1>2 DEF PhaseInv, InLine
  <1>4. PhaseTypeOK /\ soFar = Cardinality(In("landed"))
        /\ skippedSoFar = Cardinality(In("skipped"))
    BY DEF PhaseInv, Counted
  <1>5. CASE /\ Put(b, "landed") /\ vectors' = vectors \cup {b} /\ soFar' = soFar + 1
             /\ outcome' = IF b = NumBatches THEN "normal" ELSE "none"
             /\ UNCHANGED <<skippedSoFar, batchFaults>>
    <2>1. /\ stage' \in [Batches -> Over \cup {"made", "limiter", "permit", "embedding",
                                               "upserting", "stored"}]
          /\ stage'[b] = "landed" /\ \A c \in Batches \ {b} : stage'[c] = stage[c]
          /\ \A t : t # "landed" => In(t)' = In(t) \ {b}
          /\ In("landed")' = In("landed") \cup {b}
      BY <1>4, <1>5, PutMoves DEF Over
    <2>2. /\ Cardinality(In("landed")') = Cardinality(In("landed")) + 1
          /\ In("skipped")' = In("skipped")
      BY <1>1, <1>4, <1>5, PutCounts
    <2>3. Counted'
      <3>1. (In("stored") \cup In("landed"))' \subseteq vectors'
        BY <1>5, <2>1 DEF PhaseInv, Counted
      <3>2. paid' = {c \in Batches : stage'[c] \in Sent}
        BY <1>1, <2>1 DEF PhaseInv, Counted, Sent
      <3> QED BY <1>4, <1>5, <2>2, <3>1, <3>2 DEF Counted
    <2>4. PhaseTypeOK'
      <3>1. In("landed")' \in SUBSET Batches /\ soFar' = Cardinality(In("landed")')
        BY <2>3 DEF Counted, In
      <3>2. soFar' \in 0 .. NumBatches
        BY <3>1, BatchesFinite
      <3>3. vectors' \subseteq Batches /\ paid' \subseteq Batches
        BY <1>1, <1>5 DEF PhaseInv, PhaseTypeOK
      <3>4. outcome' \in {"none", "normal", "error"}
        BY <1>5
      <3> QED BY <1>1, <1>4, <1>5, <2>1, <3>2, <3>3, <3>4 DEF PhaseTypeOK
    <2>5. Ended'
      <3>1. SUFFICES ASSUME b = NumBatches, outcome' = "normal"
                     PROVE  (\A c \in Batches : stage'[c] = "landed") /\ In("failed")' = {}
        BY <1>5 DEF Ended, Over
      <3>2. \A c \in Batches : stage'[c] = "landed"
        BY <1>1, <1>2, <2>1, <3>1
      <3> QED BY <3>2 DEF In
    <2>6. InLine'
      BY <1>1, <1>2, <1>3, <2>1 DEF InLine
    <2> QED BY <2>3, <2>4, <2>5, <2>6 DEF PhaseInv
  <1>6. CASE /\ BatchFault
             /\ stage' = [c \in Batches |-> IF c = b THEN "failed"
                                            ELSE IF c > b THEN "skipped" ELSE stage[c]]
             /\ vectors' \in {vectors, vectors \cup {b}}
             /\ skippedSoFar' = NumBatches - (b - 1) - 1
             /\ outcome' = "error"
             /\ UNCHANGED soFar
    <2>1. \A c \in Batches : stage'[c] = IF c = b THEN "failed"
                                         ELSE IF c > b THEN "skipped" ELSE "landed"
      BY <1>1, <1>2, <1>6
    <2>2. In("landed")' = In("landed") /\ In("stored")' = {} /\ In("failed")' = {b}
      BY <1>1, <1>2, <1>3, <2>1 DEF In
    <2>3. In("skipped")' = b + 1 .. NumBatches
      BY <1>2, <2>1 DEF In
    <2>4. Cardinality(b + 1 .. NumBatches) = NumBatches - b
      BY <1>2, FS_Interval
    <2>5. skippedSoFar' = NumBatches - b /\ skippedSoFar' \in 0 .. NumBatches
      BY <1>2, <1>6
    <2>6. paid' = {c \in Batches : stage'[c] \in Sent}
      <3>1. paid = {c \in Batches : c < b}
        BY <1>1, <1>2, <1>3 DEF PhaseInv, Counted, Sent
      <3> QED BY <1>1, <1>2, <2>1, <3>1 DEF Sent
    <2>7. Counted'
      <3>1. (In("stored") \cup In("landed"))' \subseteq vectors'
        BY <1>6, <2>2 DEF PhaseInv, Counted
      <3> QED BY <1>4, <1>6, <2>2, <2>3, <2>4, <2>5, <2>6, <3>1 DEF Counted
    <2>8. PhaseTypeOK'
      <3>1. stage' \in [Batches -> Over \cup {"made", "limiter", "permit", "embedding",
                                               "upserting", "stored"}]
        BY <1>4, <1>6 DEF PhaseTypeOK, Over
      <3>2. vectors' \subseteq Batches /\ paid' \subseteq Batches
        BY <1>1, <1>4, <1>6 DEF PhaseTypeOK
      <3>3. batchFaults' \in 0 .. MaxBatchFaults
        BY <1>4, <1>6, PhaseAssumption DEF PhaseTypeOK, BatchFault
      <3> QED BY <1>1, <1>4, <1>6, <2>5, <3>1, <3>2, <3>3 DEF PhaseTypeOK
    <2>9. Ended' /\ InLine'
      BY <1>6, <2>1, <2>2 DEF Ended, InLine, Over
    <2> QED BY <2>7, <2>8, <2>9 DEF PhaseInv
  <1> QED BY <1>5, <1>6 DEF EmbedAndStore

LEMMA PhaseStepInv == PhaseInv /\ [PhaseNext]_phaseVars => PhaseInv'
  <1>1. SUFFICES ASSUME PhaseInv, [PhaseNext]_phaseVars PROVE PhaseInv'
    OBVIOUS
  <1>2. abort \in BOOLEAN /\ batchFaults \in 0 .. MaxBatchFaults
    BY <1>1 DEF PhaseInv, PhaseTypeOK
  <1>3. ASSUME NEW b \in Batches, StartBatch(b) PROVE PhaseInv'
    <2>1. together /\ stage[b] = "made" /\ outcome = "none"
      BY <1>1, <1>3, NotOver DEF StartBatch, Over
    <2>2. CASE abort
      BY <1>1, <1>3, <2>1, <2>2, SkipKeepsPhase DEF StartBatch
    <2>3. CASE ~abort
      BY <1>1, <1>2, <1>3, <2>1, <2>3, MoveKeepsPhase DEF StartBatch, Proceed, Sent, Over
    <2> QED BY <2>2, <2>3
  <1>4. ASSUME NEW b \in Batches, PassLimiter(b) PROVE PhaseInv'
    <2>1. together /\ outcome = "none" /\ stage[b] = "limiter"
      BY <1>1, <1>4, NotOver DEF PassLimiter, Over
    <2> QED BY <1>1, <1>2, <1>4, <2>1, MoveKeepsPhase DEF PassLimiter, Proceed, Sent, Over
  <1>5. ASSUME NEW b \in Batches, TakePermit(b) PROVE PhaseInv'
    <2>1. together /\ outcome = "none" /\ stage[b] = "permit"
      BY <1>1, <1>5, NotOver DEF TakePermit, Over
    <2>2. CASE abort
      BY <1>1, <1>5, <2>1, <2>2, SkipKeepsPhase DEF TakePermit
    <2>3. CASE ~abort
      BY <1>1, <1>2, <1>5, <2>1, <2>3, MoveKeepsPhase DEF TakePermit, Sent, Over
    <2> QED BY <2>2, <2>3
  <1>6. ASSUME NEW b \in Batches, EmbedReturns(b) PROVE PhaseInv'
    <2>1. together /\ outcome = "none" /\ stage[b] = "embedding"
      BY <1>1, <1>6, NotOver DEF EmbedReturns, Over
    <2>2. b \in paid
      BY <1>1, <2>1 DEF PhaseInv, Counted, Sent
    <2>3. CASE Proceed(b, "upserting")
      BY <1>1, <1>2, <2>1, <2>2, <2>3, MoveKeepsPhase DEF Proceed, Sent, Over
    <2>4. CASE BatchFails(b) /\ UNCHANGED vectors
      <3>1. batchFaults' \in 0 .. MaxBatchFaults
        BY <1>2, <2>4, PhaseAssumption DEF BatchFails, BatchFault
      <3> QED BY <1>1, <2>1, <2>2, <2>4, <3>1, MoveKeepsPhase DEF BatchFails, Sent, Over
    <2> QED BY <1>6, <2>3, <2>4 DEF EmbedReturns
  <1>7. ASSUME NEW b \in Batches, UpsertReturns(b) PROVE PhaseInv'
    <2>1. together /\ outcome = "none" /\ stage[b] = "upserting"
      BY <1>1, <1>7, NotOver DEF UpsertReturns, Over
    <2>2. b \in paid
      BY <1>1, <2>1 DEF PhaseInv, Counted, Sent
    <2>3. CASE /\ Put(b, "stored") /\ vectors' = vectors \cup {b}
               /\ UNCHANGED <<together, abort, soFar, skippedSoFar, outcome, paid, batchFaults>>
      BY <1>1, <1>2, <2>1, <2>2, <2>3, MoveKeepsPhase DEF Sent, Over
    <2>4. CASE BatchFails(b) /\ vectors' \in {vectors, vectors \cup {b}}
      <3>1. batchFaults' \in 0 .. MaxBatchFaults
        BY <1>2, <2>4, PhaseAssumption DEF BatchFails, BatchFault
      <3>2. vectors \subseteq vectors' /\ vectors' \subseteq vectors \cup {b}
        BY <2>4
      <3> QED BY <1>1, <2>1, <2>2, <2>4, <3>1, <3>2, MoveKeepsPhase DEF BatchFails, Sent, Over
    <2> QED BY <1>7, <2>3, <2>4 DEF UpsertReturns
  <1>8. ASSUME NEW b \in Batches, CountLanded(b) PROVE PhaseInv'
    BY <1>1, <1>8, CountKeepsPhase
  <1>9. ASSUME NEW b \in Batches, EmbedAndStore(b) PROVE PhaseInv'
    BY <1>1, <1>9, OneByOneKeepsPhase
  <1>10. CASE EndPhase
    BY <1>1, <1>10, EndKeepsPhase
  <1>11. CASE ChooseOneByOne
    BY <1>1, <1>11, ChooseKeepsPhase
  <1>12. CASE UNCHANGED phaseVars
    <2>1. \A st : In(st)' = In(st)
      BY <1>12 DEF In, phaseVars
    <2> QED BY <1>1, <1>12, <2>1 DEF PhaseInv, PhaseTypeOK, Counted, Ended, InLine, phaseVars
  <1> QED
    BY <1>1, <1>3, <1>4, <1>5, <1>6, <1>7, <1>8, <1>9, <1>10, <1>11, <1>12 DEF PhaseNext

\* When every batch is over, landed, failed and skipped partition the batches.
LEMMA AccountsFollow == PhaseInv => PhaseAccounts
  <1>1. SUFFICES ASSUME PhaseInv, outcome # "none"
                 PROVE  /\ outcome = "error" <=> In("failed") # {}
                        /\ soFar + skippedSoFar + Cardinality(In("failed")) = NumBatches
                        /\ soFar = Cardinality(In("landed")) /\ In("landed") \subseteq vectors
                        /\ paid = In("landed") \cup In("failed")
    BY DEF PhaseAccounts
  <1>2. \A b \in Batches : stage[b] \in Over
    BY <1>1 DEF PhaseInv, Ended
  <1> DEFINE L == In("landed")
             S == In("skipped")
             F == In("failed")
  <1>3. /\ L \in SUBSET Batches /\ S \in SUBSET Batches /\ F \in SUBSET Batches
        /\ L \cap S = {} /\ (L \cup S) \cap F = {} /\ (L \cup S) \cup F = Batches
    BY <1>2 DEF In, Over
  <1>4. paid = L \cup F
    BY <1>1, <1>2 DEF PhaseInv, Counted, In, Sent, Over
  <1>5. outcome = "error" <=> F # {}
    BY <1>1 DEF PhaseInv, Ended
  <1>6. soFar = Cardinality(L) /\ skippedSoFar = Cardinality(S) /\ L \subseteq vectors
    BY <1>1 DEF PhaseInv, Counted
  <1> HIDE DEF L, S, F
  <1>7. /\ IsFiniteSet(L) /\ IsFiniteSet(S) /\ IsFiniteSet(F) /\ IsFiniteSet(L \cup S)
        /\ Cardinality(L) \in Nat /\ Cardinality(S) \in Nat /\ Cardinality(F) \in Nat
    BY <1>3, BatchesFinite
  <1>8. Cardinality(L \cup S) = Cardinality(L) + Cardinality(S)
    <2>1. Cardinality(L \cup S) = Cardinality(L) + Cardinality(S) - Cardinality(L \cap S)
      BY <1>7, FS_Union
    <2>2. Cardinality(L \cap S) = 0
      BY <1>3, FS_EmptySet
    <2> QED BY <1>7, <2>1, <2>2
  <1>9. Cardinality(Batches) = Cardinality(L \cup S) + Cardinality(F)
    <2>1. Cardinality((L \cup S) \cup F)
            = Cardinality(L \cup S) + Cardinality(F) - Cardinality((L \cup S) \cap F)
      BY <1>7, FS_Union
    <2>2. Cardinality((L \cup S) \cap F) = 0
      BY <1>3, FS_EmptySet
    <2>3. Cardinality(L \cup S) \in Nat
      BY <1>7, <1>8
    <2>4. Cardinality(F) \in Nat
      BY <1>7
    <2>5. Cardinality((L \cup S) \cup F) = Cardinality(L \cup S) + Cardinality(F)
      BY <2>1, <2>2, <2>3, <2>4
    <2>6. (L \cup S) \cup F = Batches
      BY <1>3
    <2> QED BY <2>5, <2>6
  <1>10. soFar + skippedSoFar + Cardinality(F) = NumBatches
    BY <1>6, <1>7, <1>8, <1>9, BatchesFinite
  <1> QED BY <1>4, <1>5, <1>6, <1>10 DEF L, F

THEOREM PhaseInvariant == PhaseSpec => []PhaseInv
  BY PhaseInitInv, PhaseStepInv, PTL DEF PhaseSpec

\* Every variable of the phase has its type; the counters never pass the number of batches.
THEOREM PhaseTypes == PhaseSpec => []PhaseTypeOK
  <1>1. PhaseInv => PhaseTypeOK
    BY DEF PhaseInv
  <1> QED BY <1>1, PhaseInvariant, PTL

\* What a run reports in the end adds up, for every number of batches, permits and failures
\* and every order in which the batches' steps interleave.
THEOREM AccountsAddUp == PhaseSpec => []PhaseAccounts
  BY AccountsFollow, PhaseInvariant, PTL

----------------------------------------------------------------------------
(* What the request limiter guarantees for every limit and every window.   *)
(* The deque is a suffix of the admissions so far; everything before the   *)
(* suffix is at least one window old, because only expired heads are       *)
(* popped.  An admission finds fewer than RpmLimit entries in the deque,   *)
(* so the request RpmLimit places before it is among the expired ones.     *)

\* No admission is later than the last reading of the clock.
Clocked ==
  /\ now <= clock
  /\ \A i \in 1 .. Len(times) : times[i] <= now

\* How many admissions the deque has let go of.
Popped == Len(times) - Len(admitted)

\* The deque is the suffix of the admissions after them, and never longer than the limit.
DequeIsSuffix ==
  /\ Len(admitted) <= Len(times) /\ Len(admitted) <= RpmLimit
  /\ \A i \in 1 .. Len(admitted) : admitted[i] = times[Popped + i]

PoppedExpired == \A i \in 1 .. Popped : now - times[i] >= Window

LimiterInv == LimiterTypeOK /\ Clocked /\ DequeIsSuffix /\ PoppedExpired /\ WindowHolds

----------------------------------------------------------------------------
LEMMA LimiterInitInv == LimiterInit => LimiterInv
  <1>1. SUFFICES ASSUME LimiterInit PROVE LimiterInv
    OBVIOUS
  <1>2. times \in Seq(Nat) /\ admitted \in Seq(Nat) /\ Len(times) = 0 /\ Len(admitted) = 0
    BY <1>1, EmptySeq DEF LimiterInit
  <1>3. LimiterTypeOK
    BY <1>1, <1>2 DEF LimiterInit, LimiterTypeOK
  <1>4. WindowHolds
    BY <1>2, LenProperties DEF WindowHolds
  <1> QED
    BY <1>1, <1>2, <1>3, <1>4, LimiterAssumption
    DEF LimiterInit, LimiterInv, Clocked, DequeIsSuffix, PoppedExpired, Popped

\* Reading the clock again ages what was popped: the invariant asks for no more of `now`.
LEMMA ClockOnly ==
  ASSUME LimiterInv, UNCHANGED <<admitted, times>>, clock' \in Nat, now' \in Nat,
         now' >= now, now' <= clock', wake' \in Nat,
         inside' \in {"nobody", "loop", "decide", "sleep"}
  PROVE  LimiterInv'
  <1>1. times \in Seq(Nat) /\ admitted \in Seq(Nat) /\ now \in Nat
    BY DEF LimiterInv, LimiterTypeOK
  <1>2. Len(times) \in Nat /\ Len(admitted) \in Nat /\ \A i \in 1 .. Len(times) : times[i] \in Nat
    BY <1>1, LenProperties, ElementOfSeq
  <1>3. LimiterTypeOK'
    BY DEF LimiterInv, LimiterTypeOK
  <1>4. Clocked'
    BY <1>1, <1>2 DEF LimiterInv, Clocked
  <1>5. DequeIsSuffix'
    BY DEF LimiterInv, DequeIsSuffix, Popped
  <1>6. PoppedExpired'
    <2>1. SUFFICES ASSUME NEW i \in 1 .. Popped PROVE now' - times[i] >= Window
      BY DEF PoppedExpired, Popped
    <2>2. now - times[i] >= Window /\ times[i] \in Nat
      BY <1>2, <2>1 DEF LimiterInv, PoppedExpired, Popped
    <2> QED BY <1>1, <2>2, LimiterAssumption
  <1>7. WindowHolds'
    BY DEF LimiterInv, WindowHolds
  <1> QED BY <1>3, <1>4, <1>5, <1>6, <1>7 DEF LimiterInv

LEMMA PopKeepsLimiter == LimiterInv /\ PopExpired => LimiterInv'
  <1>1. SUFFICES ASSUME LimiterInv, PopExpired PROVE LimiterInv'
    OBVIOUS
  <1>2. times \in Seq(Nat) /\ admitted \in Seq(Nat) /\ now \in Nat /\ admitted # << >>
    BY <1>1 DEF LimiterInv, LimiterTypeOK, PopExpired, HeadExpired
  <1>3. /\ Len(times) \in Nat /\ Len(admitted) \in Nat \ {0}
        /\ \A i \in 1 .. Len(times) : times[i] \in Nat
    BY <1>2, LenProperties, ElementOfSeq, EmptySeq
  <1>4. /\ admitted' \in Seq(Nat) /\ Len(admitted') = Len(admitted) - 1
        /\ \A i \in 1 .. Len(admitted') : admitted'[i] = admitted[i + 1]
    BY <1>1, <1>2, HeadTailProperties DEF PopExpired
  <1>5. times' = times /\ now' = now /\ clock' = clock /\ wake' = wake /\ inside' = inside
    BY <1>1 DEF PopExpired
  <1>6. Popped' = Popped + 1 /\ Popped \in Nat /\ Popped + 1 <= Len(times)
    BY <1>1, <1>3, <1>4, <1>5 DEF Popped, LimiterInv, DequeIsSuffix
  <1>7. now - times[Popped + 1] >= Window
    <2>1. Head(admitted) = admitted[1]
      BY <1>2
    <2>2. admitted[1] = times[Popped + 1]
      BY <1>1, <1>3 DEF LimiterInv, DequeIsSuffix
    <2> QED BY <1>1, <2>1, <2>2 DEF PopExpired, HeadExpired
  <1>8. LimiterTypeOK'
    BY <1>1, <1>4, <1>5 DEF LimiterInv, LimiterTypeOK
  <1>9. Clocked'
    BY <1>1, <1>5 DEF LimiterInv, Clocked
  <1>10. DequeIsSuffix'
    <2>1. Len(admitted') <= Len(times) /\ Len(admitted') <= RpmLimit
      BY <1>1, <1>3, <1>4, LimiterAssumption DEF LimiterInv, DequeIsSuffix
    <2>2. ASSUME NEW i \in 1 .. Len(admitted') PROVE admitted'[i] = times[(Popped + 1) + i]
      <3>1. i + 1 \in 1 .. Len(admitted) /\ Popped + (i + 1) = (Popped + 1) + i
        BY <1>3, <1>4, <1>6
      <3>2. admitted[i + 1] = times[Popped + (i + 1)]
        BY <1>1, <3>1 DEF LimiterInv, DequeIsSuffix
      <3> QED BY <1>4, <3>1, <3>2
    <2> QED BY <1>5, <1>6, <2>1, <2>2 DEF DequeIsSuffix
  <1>11. PoppedExpired'
    <2>1. SUFFICES ASSUME NEW i \in 1 .. Popped + 1 PROVE now - times[i] >= Window
      BY <1>5, <1>6 DEF PoppedExpired
    <2>2. CASE i = Popped + 1
      BY <1>7, <2>2
    <2>3. CASE i \in 1 .. Popped
      BY <1>1, <2>3 DEF LimiterInv, PoppedExpired
    <2> QED BY <1>6, <2>2, <2>3
  <1>12. WindowHolds'
    BY <1>1, <1>5 DEF LimiterInv, WindowHolds
  <1> QED BY <1>8, <1>9, <1>10, <1>11, <1>12 DEF LimiterInv

LEMMA AdmitKeepsLimiter == LimiterInv /\ Admit => LimiterInv'
  <1>1. SUFFICES ASSUME LimiterInv, Admit PROVE LimiterInv'
    OBVIOUS
  <1> DEFINE n == Len(times)
             m == Len(admitted)
  <1>2. times \in Seq(Nat) /\ admitted \in Seq(Nat) /\ now \in Nat
    BY <1>1 DEF LimiterInv, LimiterTypeOK
  <1>3. n \in Nat /\ m \in Nat /\ m <= n /\ m < RpmLimit /\ \A i \in 1 .. n : times[i] \in Nat
    BY <1>1, <1>2, LenProperties, ElementOfSeq DEF LimiterInv, DequeIsSuffix, Admit
  <1>4. /\ times' \in Seq(Nat) /\ Len(times') = n + 1
        /\ \A i \in 1 .. n : times'[i] = times[i]
        /\ times'[n + 1] = now
    BY <1>1, <1>2, AppendProperties DEF Admit
  <1>5. /\ admitted' \in Seq(Nat) /\ Len(admitted') = m + 1
        /\ \A i \in 1 .. m : admitted'[i] = admitted[i]
        /\ admitted'[m + 1] = now
    BY <1>1, <1>2, AppendProperties DEF Admit
  <1>6. now' = now /\ clock' = clock /\ wake' = wake /\ inside' = "nobody"
    BY <1>1 DEF Admit
  <1>7. Popped = n - m /\ Popped' = n - m
    BY <1>3, <1>4, <1>5 DEF Popped
  <1>8. LimiterTypeOK'
    BY <1>1, <1>4, <1>5, <1>6 DEF LimiterInv, LimiterTypeOK
  <1>9. Clocked'
    <2>1. ASSUME NEW i \in 1 .. n + 1 PROVE times'[i] <= now
      <3>1. CASE i = n + 1 BY <1>2, <1>4, <3>1
      <3>2. CASE i \in 1 .. n BY <1>1, <1>4, <3>2 DEF LimiterInv, Clocked
      <3> QED BY <1>3, <3>1, <3>2
    <2> QED BY <1>1, <1>4, <1>6, <2>1 DEF LimiterInv, Clocked
  <1>10. DequeIsSuffix'
    <2>1. ASSUME NEW i \in 1 .. m + 1 PROVE admitted'[i] = times'[n - m + i]
      <3>1. CASE i = m + 1 BY <1>3, <1>4, <1>5, <3>1
      <3>2. CASE i \in 1 .. m
        <4>1. n - m + i \in 1 .. n
          BY <1>3, <3>2
        <4>2. admitted[i] = times[n - m + i]
          BY <1>1, <1>7, <3>2 DEF LimiterInv, DequeIsSuffix
        <4> QED BY <1>4, <1>5, <3>2, <4>1, <4>2
      <3> QED BY <1>3, <3>1, <3>2
    <2>2. m + 1 <= n + 1 /\ m + 1 <= RpmLimit
      BY <1>3, LimiterAssumption
    <2> QED BY <1>4, <1>5, <1>7, <2>1, <2>2 DEF DequeIsSuffix
  <1>11. PoppedExpired'
    <2>1. SUFFICES ASSUME NEW i \in 1 .. n - m PROVE now - times'[i] >= Window
      BY <1>6, <1>7 DEF PoppedExpired
    <2>2. i \in 1 .. n /\ now - times[i] >= Window
      BY <1>1, <1>3, <1>7, <2>1 DEF LimiterInv, PoppedExpired
    <2> QED BY <1>4, <2>2
  <1>12. WindowHolds'
    <2>1. SUFFICES ASSUME NEW i \in 1 .. n + 1, i + RpmLimit \in 1 .. n + 1
                   PROVE  times'[i + RpmLimit] - times'[i] >= Window
      BY <1>4, LenProperties DEF WindowHolds
    <2>2. CASE i + RpmLimit = n + 1
      <3>1. i \in 1 .. n - m /\ i \in 1 .. n
        BY <1>3, <2>1, <2>2, LimiterAssumption
      <3>2. now - times[i] >= Window
        BY <1>1, <1>7, <3>1 DEF LimiterInv, PoppedExpired
      <3> QED BY <1>4, <2>2, <3>1, <3>2
    <2>3. CASE i + RpmLimit \in 1 .. n
      <3>1. i \in 1 .. n
        BY <1>3, <2>1, <2>3, LimiterAssumption
      <3>2. times[i + RpmLimit] - times[i] >= Window
        BY <1>1, <1>2, <2>3, <3>1, LenProperties DEF LimiterInv, WindowHolds
      <3> QED BY <1>4, <2>3, <3>1, <3>2
    <2> QED BY <1>3, <2>1, <2>2, <2>3, LimiterAssumption
  <1> QED BY <1>8, <1>9, <1>10, <1>11, <1>12 DEF LimiterInv

LEMMA LimiterStepInv == LimiterInv /\ [LimiterNext]_limiterVars => LimiterInv'
  <1>1. SUFFICES ASSUME LimiterInv, [LimiterNext]_limiterVars PROVE LimiterInv'
    OBVIOUS
  <1>2. /\ clock \in Nat /\ now \in Nat /\ wake \in Nat /\ now <= clock
        /\ inside \in {"nobody", "loop", "decide", "sleep"}
    BY <1>1 DEF LimiterInv, LimiterTypeOK, Clocked
  <1>3. CASE Tick
    BY <1>1, <1>2, <1>3, ClockOnly DEF Tick
  <1>4. CASE EnterAcquire
    BY <1>1, <1>2, <1>4, ClockOnly DEF EnterAcquire
  <1>5. CASE ReadClock
    BY <1>1, <1>2, <1>5, ClockOnly DEF ReadClock
  <1>6. CASE PopExpired
    BY <1>1, <1>6, PopKeepsLimiter
  <1>7. CASE Admit
    BY <1>1, <1>7, AdmitKeepsLimiter
  <1>8. CASE SleepOnIt
    \* The deque is full, so it has a head; the head has not expired, so the wait is positive.
    <2>1. admitted \in Seq(Nat) /\ Len(admitted) >= 1 /\ admitted # << >>
      BY <1>1, <1>8, LimiterAssumption, EmptySeq DEF LimiterInv, LimiterTypeOK, SleepOnIt
    <2>2. Head(admitted) \in Nat
      BY <2>1, HeadTailProperties
    <2>3. now - Head(admitted) < Window
      BY <1>2, <1>8, <2>1, <2>2, LimiterAssumption DEF SleepOnIt, HeadExpired
    <2>4. wake' \in Nat
      BY <1>2, <1>8, <2>2, <2>3, LimiterAssumption DEF SleepOnIt
    <2> QED BY <1>1, <1>2, <1>8, <2>4, ClockOnly DEF SleepOnIt
  <1>9. CASE WakeUp
    BY <1>1, <1>2, <1>9, ClockOnly DEF WakeUp
  <1>10. CASE UNCHANGED limiterVars
    BY <1>1, <1>2, <1>10, ClockOnly DEF limiterVars
  <1> QED
    BY <1>1, <1>3, <1>4, <1>5, <1>6, <1>7, <1>8, <1>9, <1>10 DEF LimiterNext

THEOREM LimiterInvariant == LimiterSpec => []LimiterInv
  BY LimiterInitInv, LimiterStepInv, PTL DEF LimiterSpec

\* Every variable of the limiter has its type: in particular the sleep it computes is positive.
THEOREM LimiterTypes == LimiterSpec => []LimiterTypeOK
  <1>1. LimiterInv => LimiterTypeOK
    BY DEF LimiterInv
  <1> QED BY <1>1, LimiterInvariant, PTL

\* acquire() never lets more than RpmLimit requests through in any stretch of one window,
\* wherever the stretch starts, for every limit, window and number of requests.
THEOREM WindowAlwaysHolds == LimiterSpec => []WindowHolds
  <1>1. LimiterInv => WindowHolds
    BY DEF LimiterInv
  <1> QED BY <1>1, LimiterInvariant, PTL

----------------------------------------------------------------------------
(* Why a trim never takes the cache below what the cap has room for.  The  *)
(* pages measured are at most those of the rows in their loosest layout    *)
(* (and the overhead), and rows only come between a measure and its own    *)
(* DELETE unless another DELETE does; rounding down the rows to keep       *)
(* never rounds below those the cap has room for in that layout.           *)

TrimShape ==
  trim \in [Trimmers -> [at : {"idle", "measure", "count", "delete", "vacuum"},
                         live : Nat, evict : 0 .. MaxPuts]]

\* The pages are those of some layout of the rows, and every row was put.
CacheFits == rowPages \in Layouts(cached) /\ cached <= puts

\* Rows are counted only for a file whose live pages are over the cap.
OverCap == \A t \in Trimmers : trim[t].at = "count" => trim[t].live > CapPages

\* While no other DELETE has come between, the rows are at least those measured; what is to be
\* evicted then leaves as many as the cap has room for.
Measured ==
  \A t \in Trimmers \ outdated :
    /\ trim[t].at = "count" => trim[t].live <= Overhead + MaxPages * cached
    /\ trim[t].at = "delete" => CapRows <= cached - trim[t].evict

CacheInv == CacheTypeOK /\ TrimShape /\ CacheFits /\ OverCap /\ Measured

LEMMA DivBounds ==
  ASSUME NEW a \in Int, NEW d \in Nat \ {0}
  PROVE  /\ a \div d \in Int /\ a % d \in 0 .. d - 1
         /\ a = d * (a \div d) + (a % d)
  OBVIOUS

LEMMA DivAbove ==
  ASSUME NEW a \in Int, NEW d \in Nat \ {0}, NEW k \in Int, k * d <= a
  PROVE  k <= a \div d
  <1> DEFINE q == a \div d
  <1>1. q \in Int /\ a < q * d + d
    BY DivBounds
  <1> HIDE DEF q
  <1>2. SUFFICES ASSUME q + 1 <= k PROVE FALSE
    BY <1>1
  <1>3. (q + 1) * d <= k * d
    BY <1>1, <1>2
  <1>4. (q + 1) * d = q * d + d
    BY <1>1
  <1>5. q * d \in Int /\ k * d \in Int
    BY <1>1
  <1> QED BY <1>1, <1>3, <1>4, <1>5

\* The share that is kept holds the rows the cap has room for in every layout.
LEMMA KeepEnough ==
  ASSUME NEW n \in Nat, NEW live \in Nat, live > CapPages, live <= Overhead + MaxPages * n
  PROVE  CapRows <= (CapPages * n) \div live
  <1> USE CacheAssumption
  <1> DEFINE c == CapPages - Overhead
  <1>1. c \in Int
    OBVIOUS
  <1>2. /\ CapRows \in Int /\ c = MaxPages * CapRows + (c % MaxPages)
        /\ c % MaxPages \in 0 .. MaxPages - 1
    BY <1>1, DivBounds DEF CapRows
  <1> DEFINE k == CapRows
  <1> HIDE DEF k
  <1>3. k \in Int /\ k = CapRows
    BY <1>2 DEF k
  <1>4. MaxPages * k \in Int /\ MaxPages * n \in Int /\ CapPages * n \in Nat
    BY <1>3
  <1>5. MaxPages * k + Overhead <= CapPages
    BY <1>2, <1>3, <1>4
  <1>6. live \in Nat \ {0}
    OBVIOUS
  <1>7. CASE k <= 0
    <2>1. 0 * live <= CapPages * n
      BY <1>4
    <2>2. 0 <= (CapPages * n) \div live
      BY <1>4, <1>6, <2>1, DivAbove
    <2>3. (CapPages * n) \div live \in Int
      BY <1>4, <1>6, DivBounds
    <2> QED BY <1>3, <1>7, <2>2, <2>3
  <1>8. CASE k > 0
    <2>1. k < n
      <3>1. MaxPages * k < MaxPages * n
        BY <1>4, <1>5
      <3>2. SUFFICES ASSUME n <= k PROVE FALSE
        BY <1>3
      <3>3. MaxPages * n <= MaxPages * k
        BY <1>3, <3>2
      <3> QED BY <1>4, <3>1, <3>3
    <2>2. k * live <= k * (Overhead + MaxPages * n)
      <3> DEFINE top == Overhead + MaxPages * n
      <3>1. top \in Nat /\ live <= top
        BY <1>4
      <3> HIDE DEF top
      <3>2. k * live <= k * top
        BY <1>3, <1>8, <3>1
      <3> QED BY <3>2 DEF top
    <2>3. k * (Overhead + MaxPages * n) = Overhead * k + (MaxPages * k) * n
      BY <1>3
    <2>4. Overhead * k <= Overhead * n
      BY <1>3, <2>1
    <2>5. (MaxPages * k + Overhead) * n <= CapPages * n
      <3> DEFINE a == MaxPages * k + Overhead
      <3>1. a \in Int /\ a <= CapPages
        BY <1>4, <1>5
      <3> HIDE DEF a
      <3>2. a * n <= CapPages * n
        BY <3>1
      <3> QED BY <3>2 DEF a
    <2>6. (MaxPages * k + Overhead) * n = (MaxPages * k) * n + Overhead * n
      BY <1>4
    <2>7. k * live <= CapPages * n
      <3>1. /\ k * live \in Int /\ Overhead * k \in Int /\ Overhead * n \in Int
            /\ (MaxPages * k) * n \in Int
        BY <1>3, <1>4
      <3> QED BY <1>4, <2>2, <2>3, <2>4, <2>5, <2>6, <3>1
    <2> QED BY <1>3, <1>4, <1>6, <2>7, DivAbove
  <1> QED BY <1>3, <1>7, <1>8

\* What is to be evicted is never negative, and never more than there is.
LEMMA EvictBounds ==
  ASSUME NEW n \in Nat, NEW live \in Nat, live > CapPages
  PROVE  n - (CapPages * n) \div live \in 0 .. n
  <1> USE CacheAssumption
  <1> DEFINE a == CapPages * n
             q == a \div live
  <1>1. a \in Nat /\ live \in Nat \ {0} /\ 0 * live <= a
    OBVIOUS
  <1>4. a <= live * n
    OBVIOUS
  <1> HIDE DEF a
  <1>2. q \in Int /\ a = live * q + (a % live) /\ a % live >= 0
    BY <1>1, DivBounds
  <1>3. 0 <= q
    BY <1>1, DivAbove
  <1>5. live * q <= live * n
    <2>1. live * q \in Int /\ live * n \in Int /\ a % live \in Int
      BY <1>1, <1>2, DivBounds
    <2> QED BY <1>1, <1>2, <1>4, <2>1
  <1> HIDE DEF q
  <1>6. ~(q >= n + 1)
    <2>1. SUFFICES ASSUME q >= n + 1 PROVE FALSE
      OBVIOUS
    <2>2. live * q >= live * (n + 1)
      BY <1>1, <1>2, <2>1
    <2>3. live * (n + 1) = live * n + live
      BY <1>1
    <2>4. live * q \in Int /\ live * n \in Int
      BY <1>1, <1>2
    <2> QED BY <1>1, <1>5, <2>2, <2>3, <2>4
  <1>7. n - q \in 0 .. n
    BY <1>2, <1>3, <1>6
  <1> QED BY <1>7 DEF q, a

----------------------------------------------------------------------------
\* What the invariant says of the file, as facts about numbers.
LEMMA FileNumbers ==
  ASSUME CacheInv
  PROVE  /\ cached \in Nat /\ cached <= MaxPuts /\ puts \in Nat /\ puts <= MaxPuts
         /\ freePages \in Nat /\ rowPages \in Nat /\ MaxPages * cached \in Nat
         /\ rowPages <= MaxPages * cached
         /\ LivePages \in Nat /\ LivePages <= Overhead + MaxPages * cached
         /\ CapRows \in Int
  <1>1. cached \in 0 .. MaxPuts /\ puts \in 0 .. MaxPuts /\ freePages \in Nat
    BY DEF CacheInv, CacheTypeOK
  <1>2. MaxPages * cached \in Nat /\ MinPages * cached \in Nat
    BY <1>1, CacheAssumption
  <1>3. rowPages \in MinPages * cached .. MaxPages * cached
    BY DEF CacheInv, CacheFits, Layouts
  <1>4. CapRows \in Int
    BY CacheAssumption, DivBounds DEF CapRows
  <1> QED BY <1>1, <1>2, <1>3, <1>4, CacheAssumption DEF LivePages

LEMMA MorePages ==
  ASSUME NEW a \in Nat, NEW b \in Nat, a <= b
  PROVE  MaxPages * a <= MaxPages * b /\ MaxPages * a \in Nat /\ MaxPages * b \in Nat
  BY CacheAssumption

\* Pages taken or freed leave a layout of the rows.
LEMMA TakenOrFreed ==
  ASSUME CacheInv, NEW n \in 0 .. MaxPuts, NEW pages \in Layouts(n), TakeOrFree(pages)
  PROVE  rowPages' \in Layouts(n) /\ rowPages' \in 0 .. MaxPages * MaxPuts /\ freePages' \in Nat
  <1>1. n \in Nat /\ n <= MaxPuts /\ MaxPuts \in Nat
    BY CacheAssumption
  <1>2. MinPages * n \in Nat /\ MaxPages * n \in Nat
    BY <1>1, CacheAssumption
  <1>3. MaxPages * n <= MaxPages * MaxPuts /\ MaxPages * MaxPuts \in Nat
    BY <1>1, MorePages
  <1>4. pages \in Nat /\ pages <= MaxPages * n
    BY <1>2 DEF Layouts
  <1>5. rowPages' = pages
    BY DEF TakeOrFree
  <1>6. freePages' \in Nat
    BY <1>4, FileNumbers DEF TakeOrFree
  <1>7. pages \in 0 .. MaxPages * MaxPuts
    BY <1>2, <1>3, <1>4
  <1> QED BY <1>5, <1>6, <1>7

\* Steps that leave the rows alone keep what was measured.
LEMMA OnlyTrims ==
  ASSUME CacheInv, NEW t \in Trimmers, UNCHANGED <<cached, puts>>,
         NEW r \in [at : {"idle", "measure", "count", "delete", "vacuum"},
                    live : Nat, evict : 0 .. MaxPuts],
         trim' = [trim EXCEPT ![t] = r],
         rowPages' \in Layouts(cached), rowPages' \in 0 .. MaxPages * MaxPuts, freePages' \in Nat,
         trimFaults' \in 0 .. MaxTrimFaults, outdated' \in {outdated, outdated \ {t}},
         r.at = "count" => r.live > CapPages,
         t \notin outdated' =>
           /\ r.at = "count" => r.live <= Overhead + MaxPages * cached
           /\ r.at = "delete" => CapRows <= cached - r.evict
  PROVE  CacheInv'
  <1>1. TrimShape' /\ \A u \in Trimmers : trim'[u] = IF u = t THEN r ELSE trim[u]
    BY DEF CacheInv, TrimShape
  <1>2. CacheTypeOK'
    <2>1. outdated' \subseteq Trimmers
      BY DEF CacheInv, CacheTypeOK
    <2> QED BY <1>1, <2>1 DEF CacheInv, CacheTypeOK, TrimShape
  <1>3. CacheFits'
    BY DEF CacheInv, CacheFits, Layouts
  <1>4. OverCap'
    BY <1>1 DEF CacheInv, OverCap
  <1>5. Measured'
    <2>1. SUFFICES ASSUME NEW u \in Trimmers \ outdated'
                   PROVE  /\ trim'[u].at = "count" =>
                               trim'[u].live <= Overhead + MaxPages * cached
                          /\ trim'[u].at = "delete" => CapRows <= cached - trim'[u].evict
      BY DEF Measured, CapRows
    <2>2. CASE u = t
      BY <1>1, <2>1, <2>2
    <2>3. CASE u # t
      <3>1. u \in Trimmers \ outdated /\ trim'[u] = trim[u]
        BY <1>1, <2>1, <2>3
      <3> QED BY <3>1 DEF CacheInv, Measured
    <2> QED BY <2>2, <2>3
  <1> QED BY <1>1, <1>2, <1>3, <1>4, <1>5 DEF CacheInv

LEMMA CacheInitInv == CacheInit => CacheInv
  <1>1. SUFFICES ASSUME CacheInit PROVE CacheInv
    OBVIOUS
  <1>2. TrimShape /\ \A t \in Trimmers : trim[t] = Idle
    BY <1>1, CacheAssumption DEF CacheInit, TrimShape, Idle
  <1>3. MaxPages * MaxPuts \in Nat /\ MinPages * 0 = 0 /\ MaxPages * 0 = 0
    BY CacheAssumption
  <1>4. CacheTypeOK
    BY <1>1, <1>2, <1>3, CacheAssumption DEF CacheInit, CacheTypeOK, TrimShape
  <1>5. CacheFits
    BY <1>1, <1>3 DEF CacheInit, CacheFits, Layouts
  <1>6. OverCap /\ Measured
    BY <1>2 DEF OverCap, Measured, Idle
  <1> QED BY <1>2, <1>4, <1>5, <1>6 DEF CacheInv

\* A row that is put or moved.
LEMMA PutRowInv ==
  ASSUME CacheInv, PutRow \/ MoveRows
  PROVE  CacheInv'
  <1>1. /\ cached' \in {cached, cached + 1} /\ cached' <= puts' /\ puts' \in 0 .. MaxPuts
        /\ UNCHANGED <<trim, trimFaults, outdated>>
    BY FileNumbers, CacheAssumption DEF PutRow, MoveRows, CacheInv, CacheFits
  <1>2. cached' \in 0 .. MaxPuts
    BY <1>1, FileNumbers, CacheAssumption
  <1>3. \E pages \in Layouts(cached') : TakeOrFree(pages)
    <2>1. CASE PutRow
      BY <2>1 DEF PutRow
    <2>2. CASE MoveRows
      BY <2>2 DEF MoveRows
    <2> QED BY <2>1, <2>2
  <1> DEFINE n == cached'
  <1>4. n \in 0 .. MaxPuts /\ \E pages \in Layouts(n) : TakeOrFree(pages)
    BY <1>2, <1>3
  <1> HIDE DEF n
  <1>5. rowPages' \in Layouts(n) /\ rowPages' \in 0 .. MaxPages * MaxPuts /\ freePages' \in Nat
    BY <1>4, TakenOrFreed
  <1>6. CacheTypeOK' /\ TrimShape' /\ OverCap'
    BY <1>1, <1>2, <1>5 DEF CacheInv, CacheTypeOK, TrimShape, OverCap
  <1>7. CacheFits'
    BY <1>1, <1>5 DEF CacheFits, Layouts, n
  <1>8. Measured'
    <2>1. SUFFICES ASSUME NEW t \in Trimmers \ outdated
                   PROVE  /\ trim[t].at = "count" => trim[t].live <= Overhead + MaxPages * n
                          /\ trim[t].at = "delete" => CapRows <= n - trim[t].evict
      BY <1>1 DEF Measured, CapRows, n
    <2>2. trim[t].live \in Int /\ trim[t].evict \in Int
      BY CacheAssumption DEF CacheInv, TrimShape
    <2>3. /\ trim[t].at = "count" => trim[t].live <= Overhead + MaxPages * cached
          /\ trim[t].at = "delete" => CapRows <= cached - trim[t].evict
      BY DEF CacheInv, Measured
    <2>4. n \in Nat /\ cached <= n
      BY <1>1, <1>4, FileNumbers, CacheAssumption DEF n
    <2>5. MaxPages * cached <= MaxPages * n /\ MaxPages * n \in Nat
      BY <2>4, MorePages, FileNumbers
    <2> QED BY <2>2, <2>3, <2>4, <2>5, FileNumbers, CacheAssumption
  <1> QED BY <1>6, <1>7, <1>8 DEF CacheInv

LEMMA MeasureInv ==
  ASSUME CacheInv, NEW t \in Trimmers, StatFile(t) \/ MeasureLive(t) \/ CountRows(t)
  PROVE  CacheInv'
  <1>1. /\ trim[t] \in [at : {"idle", "measure", "count", "delete", "vacuum"},
                        live : Nat, evict : 0 .. MaxPuts]
        /\ trimFaults \in 0 .. MaxTrimFaults
        /\ rowPages \in Layouts(cached) /\ rowPages \in 0 .. MaxPages * MaxPuts
        /\ freePages \in Nat
    BY DEF CacheInv, TrimShape, CacheTypeOK, CacheFits
  <1>2. CASE StatFile(t)
    <2> DEFINE r == [trim[t] EXCEPT !.at = "measure"]
    <2>1. trim' = [trim EXCEPT ![t] = r]
      BY <1>2 DEF StatFile
    <2>2. /\ r \in [at : {"idle", "measure", "count", "delete", "vacuum"},
                    live : Nat, evict : 0 .. MaxPuts]
          /\ r.at = "measure"
      BY <1>1
    <2> HIDE DEF r
    <2> QED BY <1>1, <1>2, <2>1, <2>2, OnlyTrims DEF StatFile
  <1>3. CASE MeasureLive(t)
    <2> DEFINE r == [trim[t] EXCEPT !.live = LivePages,
                                    !.at = IF LivePages <= CapPages THEN "vacuum" ELSE "count"]
    <2>1. trim' = [trim EXCEPT ![t] = r]
      BY <1>3 DEF MeasureLive
    <2>2. /\ r \in [at : {"idle", "measure", "count", "delete", "vacuum"},
                    live : Nat, evict : 0 .. MaxPuts]
          /\ r.at = IF LivePages <= CapPages THEN "vacuum" ELSE "count"
          /\ r.live = LivePages
      BY <1>1, FileNumbers
    <2> HIDE DEF r
    <2>3. r.at = "count" => r.live > CapPages
      BY <2>2, FileNumbers, CacheAssumption
    <2>4. r.live <= Overhead + MaxPages * cached /\ r.at # "delete"
      BY <2>2, FileNumbers
    <2> QED BY <1>1, <1>3, <2>1, <2>2, <2>3, <2>4, OnlyTrims DEF MeasureLive
  <1>4. CASE CountRows(t)
    <2> DEFINE keep == (CapPages * cached) \div trim[t].live
               r == [trim[t] EXCEPT !.at = "delete", !.evict = cached - keep]
    <2>1. trim' = [trim EXCEPT ![t] = r]
      BY <1>4 DEF CountRows
    <2>2. trim[t].live \in Nat /\ trim[t].live > CapPages
      BY <1>1, <1>4, CacheAssumption DEF CountRows, CacheInv, OverCap
    <2>3. cached - keep \in 0 .. cached
      BY <2>2, FileNumbers, EvictBounds
    <2>4. trim[t].live <= Overhead + MaxPages * cached => CapRows <= keep
      BY <2>2, FileNumbers, KeepEnough
    <2>5. keep \in Int
      <3> DEFINE a == CapPages * cached
      <3>1. a \in Int /\ trim[t].live \in Nat \ {0}
        BY <2>2, FileNumbers, CacheAssumption
      <3> HIDE DEF a
      <3>2. a \div trim[t].live \in Int
        BY <3>1, DivBounds
      <3> QED BY <3>2 DEF a
    <2> HIDE DEF keep
    <2>6. cached - keep \in 0 .. MaxPuts
      BY <2>3, FileNumbers, CacheAssumption
    <2> DEFINE e == cached - keep
    <2>7. e \in 0 .. MaxPuts
      BY <2>6
    <2> HIDE DEF e
    <2>8. /\ r \in [at : {"idle", "measure", "count", "delete", "vacuum"},
                    live : Nat, evict : 0 .. MaxPuts]
          /\ r.at = "delete" /\ r.evict = cached - keep
      BY <1>1, <2>7 DEF e
    <2> HIDE DEF r
    <2>9. t \notin outdated => CapRows <= cached - r.evict
      <3>1. t \notin outdated => trim[t].live <= Overhead + MaxPages * cached
        BY <1>4 DEF CountRows, CacheInv, Measured
      <3> QED BY <2>4, <2>5, <2>8, <3>1, FileNumbers, CacheAssumption
    <2> QED BY <1>1, <1>4, <2>1, <2>8, <2>9, OnlyTrims DEF CountRows
  <1> QED BY <1>2, <1>3, <1>4

LEMMA DeleteInv ==
  ASSUME CacheInv, NEW t \in Trimmers, DeleteOldest(t)
  PROVE  CacheInv'
  <1>1. trim[t].at = "delete" /\ puts' = puts
    BY DEF DeleteOldest
  <1>2. /\ trim \in [Trimmers -> [at : {"idle", "measure", "count", "delete", "vacuum"},
                                  live : Nat, evict : 0 .. MaxPuts]]
        /\ rowPages \in Layouts(cached) /\ rowPages \in 0 .. MaxPages * MaxPuts
        /\ freePages \in Nat
    BY DEF CacheInv, CacheTypeOK, CacheFits, TrimShape
  <1>3. CASE TrimFault /\ trim' = [trim EXCEPT ![t] = Idle]
             /\ UNCHANGED <<cached, rowPages, freePages, outdated>>
    <2>1. Idle \in [at : {"idle", "measure", "count", "delete", "vacuum"},
                    live : Nat, evict : 0 .. MaxPuts] /\ Idle.at = "idle"
      BY CacheAssumption DEF Idle
    <2>2. trimFaults' \in 0 .. MaxTrimFaults
      BY <1>3, CacheAssumption DEF TrimFault, CacheInv, CacheTypeOK
    <2> QED BY <1>1, <1>2, <1>3, <2>1, <2>2, OnlyTrims
  <1>4. CASE /\ cached' = IF trim[t].evict < cached THEN cached - trim[t].evict ELSE 0
             /\ \E pages \in {l \in Layouts(cached') : l <= rowPages} : TakeOrFree(pages)
             /\ trim' = [trim EXCEPT ![t].at = "vacuum"]
             /\ outdated' = outdated \cup
                   {u \in Trimmers \ {t} : trim[u].at \in {"count", "delete"}}
             /\ UNCHANGED trimFaults
    <2>1. trim[t].evict \in Nat
      BY <1>2, CacheAssumption
    <2>2. cached' \in Nat /\ cached' <= cached /\ cached' \in 0 .. MaxPuts
      BY <1>4, <2>1, FileNumbers, CacheAssumption
    <2> DEFINE n == cached'
    <2>3. n \in 0 .. MaxPuts /\ \E pages \in Layouts(n) : TakeOrFree(pages)
      BY <1>4, <2>2
    <2> HIDE DEF n
    <2>4. rowPages' \in Layouts(n) /\ rowPages' \in 0 .. MaxPages * MaxPuts /\ freePages' \in Nat
      BY <2>3, TakenOrFreed
    <2>5. CacheFits'
      <3>1. cached <= puts
        BY DEF CacheInv, CacheFits
      <3> QED BY <1>1, <2>2, <2>4, <3>1, FileNumbers DEF CacheFits, Layouts, n
    <2>6. /\ TrimShape'
          /\ \A u \in Trimmers :
               trim'[u] = IF u = t THEN [trim[t] EXCEPT !.at = "vacuum"] ELSE trim[u]
      BY <1>2, <1>4 DEF TrimShape
    <2>7. CacheTypeOK'
      <3>1. outdated' \subseteq Trimmers
        BY <1>4 DEF CacheInv, CacheTypeOK
      <3> QED BY <1>1, <1>4, <2>2, <2>4, <2>6, <3>1 DEF CacheInv, CacheTypeOK, TrimShape
    <2>8. \A u \in Trimmers : trim'[u].at \in {"count", "delete"} => u # t /\ trim'[u] = trim[u]
      BY <1>2, <2>6
    <2>9. OverCap'
      BY <2>8 DEF CacheInv, OverCap
    <2>10. Measured'
      BY <1>4, <2>8 DEF Measured
    <2> QED BY <2>5, <2>6, <2>7, <2>9, <2>10 DEF CacheInv
  <1> QED BY <1>3, <1>4 DEF DeleteOldest

LEMMA VacuumInv ==
  ASSUME CacheInv, NEW t \in Trimmers, Vacuum(t)
  PROVE  CacheInv'
  <1>1. /\ trim' = [trim EXCEPT ![t] = Idle] /\ UNCHANGED <<cached, puts, outdated>>
        /\ Idle \in [at : {"idle", "measure", "count", "delete", "vacuum"},
                    live : Nat, evict : 0 .. MaxPuts] /\ Idle.at = "idle"
    BY CacheAssumption DEF Vacuum, Idle
  <1>2. trimFaults' \in 0 .. MaxTrimFaults
    BY CacheAssumption DEF Vacuum, TrimFault, CacheInv, CacheTypeOK
  <1>3. rowPages' \in Layouts(cached) /\ freePages' \in Nat
    BY DEF Vacuum, CacheInv, CacheFits, CacheTypeOK
  <1>4. rowPages' \in 0 .. MaxPages * MaxPuts
    <2>1. rowPages' <= rowPages /\ rowPages \in 0 .. MaxPages * MaxPuts
          /\ rowPages' \in MinPages * cached .. MaxPages * cached
      BY <1>3, FileNumbers DEF Vacuum, CacheInv, CacheTypeOK, Layouts
    <2>2. MinPages * cached \in Nat /\ MaxPages * MaxPuts \in Nat
      BY FileNumbers, CacheAssumption
    <2> QED BY <2>1, <2>2, FileNumbers
  <1> QED BY <1>1, <1>2, <1>3, <1>4, OnlyTrims

LEMMA CacheStepInv == CacheInv /\ [CacheNext]_cacheVars => CacheInv'
  <1>1. SUFFICES ASSUME CacheInv, [CacheNext]_cacheVars PROVE CacheInv'
    OBVIOUS
  <1>2. CASE PutRow \/ MoveRows
    BY <1>1, <1>2, PutRowInv
  <1>3. CASE \E t \in Trimmers : StatFile(t) \/ MeasureLive(t) \/ CountRows(t)
    BY <1>1, <1>3, MeasureInv
  <1>4. CASE \E t \in Trimmers : DeleteOldest(t)
    BY <1>1, <1>4, DeleteInv
  <1>5. CASE \E t \in Trimmers : Vacuum(t)
    BY <1>1, <1>5, VacuumInv
  <1>6. CASE UNCHANGED cacheVars
    BY <1>1, <1>6 DEF cacheVars, CacheInv, CacheTypeOK, TrimShape, CacheFits, OverCap, Measured,
                      Layouts, CapRows
  <1> QED BY <1>1, <1>2, <1>3, <1>4, <1>5, <1>6 DEF CacheNext

\* Only the trim itself goes on from its DELETE to its VACUUM, and only after it.
LEMMA KeepsStep ==
  ASSUME CacheInv, CacheNext, NEW t \in Trimmers \ outdated,
         trim[t].at = "delete", trim'[t].at = "vacuum"
  PROVE  cached' >= CapRows
  <1>1. trim \in [Trimmers -> [at : {"idle", "measure", "count", "delete", "vacuum"},
                               live : Nat, evict : 0 .. MaxPuts]]
    BY DEF CacheInv, TrimShape
  <1>2. ~PutRow /\ ~MoveRows
    BY DEF PutRow, MoveRows
  <1>3. PICK u \in Trimmers :
          StatFile(u) \/ MeasureLive(u) \/ CountRows(u) \/ DeleteOldest(u) \/ Vacuum(u)
    BY <1>2 DEF CacheNext
  <1>4. u = t
    BY <1>1, <1>3 DEF StatFile, MeasureLive, CountRows, DeleteOldest, Vacuum
  <1>5. DeleteOldest(t)
    BY <1>3, <1>4 DEF StatFile, MeasureLive, CountRows, Vacuum
  <1>6. cached' = IF trim[t].evict < cached THEN cached - trim[t].evict ELSE 0
    <2>1. ~(trim' = [trim EXCEPT ![t] = Idle])
      BY <1>1 DEF Idle
    <2> QED BY <1>5, <2>1 DEF DeleteOldest
  <1>7. CapRows <= cached - trim[t].evict
    BY DEF CacheInv, Measured
  <1>8. trim[t].evict \in Int
    BY <1>1, CacheAssumption
  <1> QED BY <1>6, <1>7, <1>8, FileNumbers

\* The invariant of the embedding cache.
THEOREM CacheInvariant == CacheSpec => []CacheInv
  BY CacheInitInv, CacheStepInv, PTL DEF CacheSpec

\* Every variable of the cache has its type: in particular what a trim computes to evict is
\* never negative (SQLite reads a negative LIMIT as none, and would delete every row).
THEOREM CacheTypes == CacheSpec => []CacheTypeOK
  <1>1. CacheInv => CacheTypeOK
    BY DEF CacheInv
  <1> QED BY <1>1, CacheInvariant, PTL

\* enforce_size_cap() never evicts below the rows the cap has room for, for every cap, overhead
\* and number of pages a row takes, whatever layouts the file goes through, whatever is put while
\* it runs and however often VACUUM failed before, as long as no other trim's DELETE comes between
\* its measure and its own.
THEOREM TrimsKeepCapWorth == CacheSpec => TrimKeepsCapWorth
  <1>1. CacheInv /\ [CacheNext]_cacheVars =>
          [\A t \in Trimmers \ outdated :
             trim[t].at = "delete" /\ trim'[t].at = "vacuum" => cached' >= CapRows]_cacheVars
    BY KeepsStep
  <1> QED BY <1>1, CacheInvariant, PTL DEF CacheSpec, TrimKeepsCapWorth

----------------------------------------------------------------------------
(* Why turns are numbered without gaps though the number is read outside   *)
(* the transaction that uses it.  A number read is never above the number  *)
(* of turns stored meanwhile, unless the session was deleted in between;   *)
(* UNIQUE refuses it when it is below; so a turn that is stored has just   *)
(* the next number.                                                        *)

\* Numbers are naturals, and a session that has any has a greatest one.
Ranked ==
  \A s \in Sessions :
    /\ Indices(s) \subseteq Nat
    /\ Indices(s) # {} => \E m \in Indices(s) : \A k \in Indices(s) : k <= m

NextIndex(s) == IF sessions[s] = -1 THEN 0 ELSE sessions[s]

\* A number that was read is not above the next one.
ReadIndex ==
  \A l \in Loops :
    loop[l].at = "insert" /\ loop[l].session \notin reborn
      => loop[l].index <= NextIndex(loop[l].session)

\* A call that runs works on a session, and a row counts its turns.
Running ==
  /\ \A l \in Loops : loop[l].at # "out" => loop[l].session \in Sessions
  /\ \A s \in Sessions : sessions[s] >= -1
  /\ IsFiniteSet(turns)

AgentInv == AgentTypeOK /\ Ranked /\ ReadIndex /\ Running /\ TurnsGapless

----------------------------------------------------------------------------
LEMMA MaxIsMax ==
  ASSUME NEW S \in SUBSET Nat, NEW m \in S, \A k \in S : k <= m
  PROVE  Max(S) = m
  <1>1. \A x \in S : (\A y \in S : x >= y) <=> x = m
    OBVIOUS
  <1>2. m \in S /\ \A y \in S : m >= y
    OBVIOUS
  <1> QED BY <1>1, <1>2 DEF Max

LEMMA AgentInitInv == AgentInit => AgentInv
  <1>1. SUFFICES ASSUME AgentInit PROVE AgentInv
    OBVIOUS
  <1>2. \A s : TurnsOf(s) = {} /\ Indices(s) = {}
    BY <1>1 DEF AgentInit, TurnsOf, Indices
  <1>3. AgentTypeOK
    <2>1. 0 \in 0 .. MaxTurns /\ 0 \in 0 .. MaxRuns /\ 0 \in 0 .. MaxDrops /\ -1 \in Int
      BY AgentAssumption
    <2> QED BY <1>1, <2>1 DEF AgentInit, AgentTypeOK, Out
  <1> QED
    BY <1>1, <1>2, <1>3, FS_EmptySet
       DEF AgentInit, AgentInv, Ranked, ReadIndex, Running, TurnsGapless, Out

\* A step of one call that touches neither the tables nor the number of a pending insert.
LEMMA LoopOnly ==
  ASSUME AgentInv, NEW l \in Loops, UNCHANGED <<sessions, turns, reborn>>,
         NEW rec \in [at : {"out", "evict", "open", "think", "select"},
                      session : Sessions \cup {NoSession}, taken : 0 .. MaxTurns, index : Nat],
         loop' = [loop EXCEPT ![l] = rec],
         rec.at # "out" => rec.session \in Sessions,
         history' \in [Loops -> Nat], runs' \in 0 .. MaxRuns, drops' \in 0 .. MaxDrops
  PROVE  AgentInv'
  <1>1. \A k \in Loops : loop'[k] = IF k = l THEN rec ELSE loop[k]
    BY DEF AgentInv, AgentTypeOK
  <1>2. AgentTypeOK'
    BY <1>1 DEF AgentInv, AgentTypeOK
  <1>3. \A s : TurnsOf(s)' = TurnsOf(s) /\ Indices(s)' = Indices(s)
    BY DEF TurnsOf, Indices
  <1>4. Ranked' /\ TurnsGapless'
    BY <1>3 DEF AgentInv, Ranked, TurnsGapless
  <1>5. ReadIndex'
    <2>1. SUFFICES ASSUME NEW k \in Loops, loop'[k].at = "insert", loop'[k].session \notin reborn
                   PROVE  loop'[k].index <= NextIndex(loop[k].session)'
      BY DEF ReadIndex
    <2>2. loop'[k] = loop[k]
      BY <1>1, <2>1
    <2>3. loop[k].index <= NextIndex(loop[k].session)
      BY <2>1, <2>2 DEF AgentInv, ReadIndex
    <2> QED BY <2>2, <2>3 DEF NextIndex
  <1>6. Running'
    BY <1>1 DEF AgentInv, Running
  <1> QED BY <1>2, <1>4, <1>5, <1>6 DEF AgentInv

\* Deleting sessions, with another call perhaps between its SELECT and its INSERT.
LEMMA RemoveKeepsAgent ==
  ASSUME AgentInv, NEW set \in SUBSET Sessions, Remove(set),
         \/ loop' = loop
         \/ \E l \in Loops : loop[l].at = "evict" /\ loop' = [loop EXCEPT ![l].at = "open"],
         history' = history, runs' = runs, drops' \in 0 .. MaxDrops
  PROVE  AgentInv'
  <1>1. /\ sessions' = [s \in Sessions |-> IF s \in set THEN -1 ELSE sessions[s]]
        /\ turns' = {t \in turns : t[1] \notin set}
        /\ reborn' = (reborn \ set) \cup {loop[l].session : l \in {k \in Loops :
                                     loop[k].at = "insert" /\ loop[k].session \in set}}
    BY DEF Remove
  <1>2. \A k \in Loops : /\ loop'[k].session = loop[k].session /\ loop'[k].index = loop[k].index
                         /\ \/ loop'[k].at = loop[k].at
                            \/ loop[k].at = "evict" /\ loop'[k].at = "open"
    <2>1. CASE loop' = loop
      BY <2>1
    <2>2. CASE \E l \in Loops : loop[l].at = "evict" /\ loop' = [loop EXCEPT ![l].at = "open"]
      <3>1. PICK l \in Loops : loop[l].at = "evict" /\ loop' = [loop EXCEPT ![l].at = "open"]
        BY <2>2
      <3>2. \A k \in Loops : loop'[k] = IF k = l THEN [loop[k] EXCEPT !.at = "open"] ELSE loop[k]
        BY <3>1 DEF AgentInv, AgentTypeOK
      <3>3. [loop[l] EXCEPT !.at = "open"].session = loop[l].session
        BY DEF AgentInv, AgentTypeOK
      <3>4. [loop[l] EXCEPT !.at = "open"].index = loop[l].index
        BY DEF AgentInv, AgentTypeOK
      <3>5. [loop[l] EXCEPT !.at = "open"].at = "open"
        BY DEF AgentInv, AgentTypeOK
      <3> QED BY <3>1, <3>2, <3>3, <3>4, <3>5
    <2> QED BY <2>1, <2>2
  <1>3. AgentTypeOK'
    <2>1. sessions' \in [Sessions -> Int] /\ turns' \subseteq Sessions \X Int
      BY <1>1 DEF AgentInv, AgentTypeOK
    <2>2. loop' \in [Loops -> [at : {"out", "evict", "open", "think", "select", "insert"},
                               session : Sessions \cup {NoSession}, taken : 0 .. MaxTurns,
                               index : Nat]]
      BY DEF AgentInv, AgentTypeOK
    <2>3. reborn' \subseteq Sessions
      BY <1>1 DEF AgentInv, AgentTypeOK
    <2> QED BY <2>1, <2>2, <2>3 DEF AgentInv, AgentTypeOK
  <1>4. \A s \in set : TurnsOf(s)' = {} /\ Indices(s)' = {}
    BY <1>1 DEF TurnsOf, Indices
  <1>5. \A s \in Sessions \ set : TurnsOf(s)' = TurnsOf(s) /\ Indices(s)' = Indices(s)
    BY <1>1 DEF TurnsOf, Indices
  <1>6. Ranked'
    BY <1>4, <1>5 DEF AgentInv, Ranked
  <1>7. Running'
    <2>1. IsFiniteSet(turns')
      BY <1>1, FS_Subset DEF AgentInv, Running
    <2> QED BY <1>1, <1>2, <2>1 DEF AgentInv, Running
  <1>8. TurnsGapless'
    BY <1>1, <1>4, <1>5 DEF AgentInv, TurnsGapless
  <1>9. ReadIndex'
    <2>1. SUFFICES ASSUME NEW k \in Loops, loop'[k].at = "insert",
                          loop'[k].session \notin reborn'
                   PROVE  loop'[k].index <= NextIndex(loop[k].session)'
      BY DEF ReadIndex
    <2>2. loop[k].at = "insert" /\ loop'[k].session = loop[k].session
      BY <1>2, <2>1
    <2>3. loop[k].session \in Sessions
      BY <2>2 DEF AgentInv, Running
    <2>4. loop[k].session \notin set /\ loop[k].session \notin reborn
      BY <1>1, <2>1, <2>2
    <2>5. loop[k].index <= NextIndex(loop[k].session)
      BY <2>2, <2>4 DEF AgentInv, ReadIndex
    <2>6. sessions'[loop[k].session] = sessions[loop[k].session]
      BY <1>1, <2>3, <2>4
    <2> QED BY <1>2, <2>2, <2>5, <2>6 DEF NextIndex
  <1> QED BY <1>3, <1>6, <1>7, <1>8, <1>9 DEF AgentInv

----------------------------------------------------------------------------
LEMMA EvictKeepsAgent ==
  ASSUME AgentInv, NEW l \in Loops, NEW stale \in SUBSET Sessions, EvictStale(l, stale)
  PROVE  AgentInv'
  <1>1. /\ loop[l].at = "evict" /\ loop' = [loop EXCEPT ![l].at = "open"]
        /\ history' = history /\ runs' = runs
    BY DEF EvictStale, GoTo
  <1>2. drops' \in 0 .. MaxDrops /\ history \in [Loops -> Nat] /\ runs \in 0 .. MaxRuns
    BY AgentAssumption DEF AgentInv, AgentTypeOK, EvictStale, DropFault
  <1>3. CASE stale = {}
    <2> DEFINE rec == [loop[l] EXCEPT !.at = "open"]
    <2>1. /\ rec \in [at : {"out", "evict", "open", "think", "select"},
                      session : Sessions \cup {NoSession}, taken : 0 .. MaxTurns, index : Nat]
          /\ rec.at = "open" /\ rec.session = loop[l].session
      BY DEF AgentInv, AgentTypeOK
    <2>2. loop' = [loop EXCEPT ![l] = rec] /\ rec.session \in Sessions
      BY <1>1, <2>1 DEF AgentInv, Running
    <2>3. UNCHANGED <<sessions, turns, reborn>>
      BY <1>3 DEF EvictStale
    <2> HIDE DEF rec
    <2> QED BY <1>1, <1>2, <2>1, <2>2, <2>3, LoopOnly
  <1>4. CASE stale # {}
    <2>1. Remove(stale)
      BY <1>4 DEF EvictStale
    <2> QED BY <1>1, <1>2, <2>1, RemoveKeepsAgent
  <1> QED BY <1>3, <1>4

LEMMA OpenKeepsAgent ==
  ASSUME AgentInv, NEW l \in Loops, OpenSession(l)
  PROVE  AgentInv'
  <1> DEFINE s == loop[l].session
             rec == [loop[l] EXCEPT !.at = "think"]
  <1>1. s \in Sessions /\ loop[l].at = "open" /\ sessions \in [Sessions -> Int]
    BY DEF OpenSession, AgentInv, Running, AgentTypeOK
  <1>2. /\ rec \in [at : {"out", "evict", "open", "think", "select"},
                    session : Sessions \cup {NoSession}, taken : 0 .. MaxTurns, index : Nat]
        /\ rec.at = "think" /\ rec.session = s
        /\ loop' = [loop EXCEPT ![l] = rec]
    BY DEF AgentInv, AgentTypeOK, OpenSession, GoTo
  <1>3. UNCHANGED <<turns, reborn, runs>>
    BY DEF OpenSession
  <1>4. \A t : TurnsOf(t)' = TurnsOf(t) /\ Indices(t)' = Indices(t)
    BY <1>3 DEF TurnsOf, Indices
  <1> HIDE DEF rec
  <1>5. CASE DropFault /\ UNCHANGED <<sessions, history>>
    <2>1. drops' \in 0 .. MaxDrops /\ runs' \in 0 .. MaxRuns /\ history' \in [Loops -> Nat]
      BY <1>3, <1>5, AgentAssumption DEF DropFault, AgentInv, AgentTypeOK
    <2> QED BY <1>1, <1>2, <1>3, <1>5, <2>1, LoopOnly
  <1>6. CASE /\ sessions' = [sessions EXCEPT ![s] = IF @ = -1 THEN 0 ELSE @]
             /\ history' = [history EXCEPT ![l] = Cardinality(TurnsOf(s))]
             /\ UNCHANGED drops
    <2>1. \A t \in Sessions : sessions'[t] = IF t = s /\ sessions[t] = -1 THEN 0 ELSE sessions[t]
      BY <1>1, <1>6
    <2>2. sessions' \in [Sessions -> Int]
      BY <1>1, <1>6
    <2>3. history' \in [Loops -> Nat]
      <3>1. IsFiniteSet(TurnsOf(s))
        BY FS_Subset DEF AgentInv, Running, TurnsOf
      <3>2. Cardinality(TurnsOf(s)) \in Nat
        BY <3>1, FS_CardinalityType
      <3> QED BY <1>6, <3>2 DEF AgentInv, AgentTypeOK
    <2>4. \A k \in Loops : loop'[k] = IF k = l THEN rec ELSE loop[k]
      BY <1>2 DEF AgentInv, AgentTypeOK
    <2>5. loop' \in [Loops -> [at : {"out", "evict", "open", "think", "select", "insert"},
                               session : Sessions \cup {NoSession}, taken : 0 .. MaxTurns,
                               index : Nat]]
      BY <1>2 DEF AgentInv, AgentTypeOK
    <2>6. AgentTypeOK'
      BY <1>3, <1>6, <2>2, <2>3, <2>5 DEF AgentInv, AgentTypeOK
    <2>7. Ranked'
      BY <1>4 DEF AgentInv, Ranked
    <2>8. Running'
      BY <1>1, <1>2, <1>3, <2>1, <2>4 DEF AgentInv, Running
    <2>9. ReadIndex'
      <3>1. SUFFICES ASSUME NEW k \in Loops, loop'[k].at = "insert", loop'[k].session \notin reborn
                     PROVE  loop'[k].index <= NextIndex(loop[k].session)'
        BY <1>3 DEF ReadIndex
      <3>2. loop'[k] = loop[k]
        BY <1>2, <2>4, <3>1
      <3>3. loop[k].session \in Sessions /\ loop[k].index <= NextIndex(loop[k].session)
        BY <3>1, <3>2 DEF AgentInv, Running, ReadIndex
      <3> QED BY <2>1, <3>2, <3>3 DEF NextIndex
    <2>10. TurnsGapless'
      <3>1. SUFFICES ASSUME NEW t \in Sessions \ reborn
                     PROVE  IF sessions'[t] = -1 THEN TurnsOf(t) = {}
                            ELSE Indices(t) = 0 .. sessions'[t] - 1
        BY <1>3, <1>4 DEF TurnsGapless
      <3>2. IF sessions[t] = -1 THEN TurnsOf(t) = {} ELSE Indices(t) = 0 .. sessions[t] - 1
        BY DEF AgentInv, TurnsGapless
      <3>3. CASE t = s /\ sessions[t] = -1
        <4>1. Indices(t) = {} /\ sessions'[t] = 0
          BY <2>1, <3>2, <3>3 DEF Indices
        <4>2. 0 .. 0 - 1 = {}
          OBVIOUS
        <4> QED BY <4>1, <4>2
      <3>4. CASE ~(t = s /\ sessions[t] = -1)
        BY <2>1, <3>2, <3>4
      <3> QED BY <3>3, <3>4
    <2> QED BY <2>6, <2>7, <2>8, <2>9, <2>10 DEF AgentInv
  <1> QED BY <1>5, <1>6 DEF OpenSession

LEMMA SelectKeepsAgent ==
  ASSUME AgentInv, NEW l \in Loops, SelectIndex(l)
  PROVE  AgentInv'
  <1> DEFINE s == loop[l].session
             i == IF Indices(s) = {} THEN 0 ELSE Max(Indices(s)) + 1
  <1>1. s \in Sessions /\ loop[l].at = "select" /\ sessions \in [Sessions -> Int]
    BY DEF SelectIndex, AgentInv, Running, AgentTypeOK
  <1>2. UNCHANGED <<sessions, turns, history, reborn, runs, drops>>
    BY DEF SelectIndex
  <1>3. loop' = [loop EXCEPT ![l] = [loop[l] EXCEPT !.at = "insert", !.index = i]]
    BY DEF SelectIndex
  <1>4. i \in Nat
    <2>1. CASE Indices(s) # {}
      <3>1. PICK m \in Indices(s) : \A k \in Indices(s) : k <= m
        BY <1>1, <2>1 DEF AgentInv, Ranked
      <3>2. Indices(s) \in SUBSET Nat /\ m \in Nat
        BY <1>1 DEF AgentInv, Ranked
      <3>3. Max(Indices(s)) = m
        BY <3>1, <3>2, MaxIsMax
      <3> QED BY <2>1, <3>2, <3>3
    <2> QED BY <2>1
  <1>5. s \notin reborn => i <= NextIndex(s)
    <2>1. SUFFICES ASSUME s \notin reborn PROVE i <= NextIndex(s)
      OBVIOUS
    <2>2. IF sessions[s] = -1 THEN TurnsOf(s) = {} ELSE Indices(s) = 0 .. sessions[s] - 1
      BY <1>1, <2>1 DEF AgentInv, TurnsGapless
    <2>3. sessions[s] \in Int /\ sessions[s] >= -1
      BY <1>1 DEF AgentInv, Running
    <2>4. CASE Indices(s) = {}
      BY <2>3, <2>4 DEF NextIndex
    <2>5. CASE Indices(s) # {}
      <3>1. sessions[s] # -1 /\ Indices(s) = 0 .. sessions[s] - 1
        BY <2>2, <2>5 DEF Indices
      <3>2. sessions[s] \in Nat /\ sessions[s] - 1 \in Indices(s)
        BY <2>3, <2>5, <3>1
      <3>3. Indices(s) \in SUBSET Nat /\ \A k \in Indices(s) : k <= sessions[s] - 1
        BY <3>1, <3>2
      <3>4. Max(Indices(s)) = sessions[s] - 1
        BY <3>2, <3>3, MaxIsMax
      <3> QED BY <2>5, <3>1, <3>2, <3>4 DEF NextIndex
    <2> QED BY <2>4, <2>5
  <1> HIDE DEF i
  <1> DEFINE rec == [loop[l] EXCEPT !.at = "insert", !.index = i]
  <1>6. /\ rec \in [at : {"out", "evict", "open", "think", "select", "insert"},
                    session : Sessions \cup {NoSession}, taken : 0 .. MaxTurns, index : Nat]
        /\ rec.at = "insert" /\ rec.session = s /\ rec.index = i
    BY <1>4 DEF AgentInv, AgentTypeOK
  <1> HIDE DEF rec
  <1>7. \A k \in Loops : loop'[k] = IF k = l THEN rec ELSE loop[k]
    BY <1>3 DEF AgentInv, AgentTypeOK, rec
  <1>8. AgentTypeOK'
    BY <1>2, <1>3, <1>6 DEF AgentInv, AgentTypeOK, rec
  <1>9. \A t : TurnsOf(t)' = TurnsOf(t) /\ Indices(t)' = Indices(t)
    BY <1>2 DEF TurnsOf, Indices
  <1>10. Ranked' /\ TurnsGapless'
    BY <1>2, <1>9 DEF AgentInv, Ranked, TurnsGapless
  <1>11. Running'
    BY <1>1, <1>2, <1>6, <1>7 DEF AgentInv, Running
  <1>12. ReadIndex'
    BY <1>2, <1>5, <1>6, <1>7 DEF AgentInv, ReadIndex, NextIndex
  <1> QED BY <1>8, <1>10, <1>11, <1>12 DEF AgentInv

\* A turn that is stored has the next number.
LEMMA InsertKeepsAgent ==
  ASSUME AgentInv, NEW l \in Loops, InsertTurn(l)
  PROVE  AgentInv'
  <1> DEFINE rec == [loop[l] EXCEPT !.at = "think", !.index = 0]
  <1>1. loop[l].session \in Sessions /\ loop[l].index \in Nat
    BY DEF InsertTurn, AgentInv, Running, AgentTypeOK
  <1>2. PICK s \in Sessions, i \in Nat : s = loop[l].session /\ i = loop[l].index
    BY <1>1
  <1>3. s \in Sessions /\ loop[l].at = "insert" /\ i \in Nat /\ sessions \in [Sessions -> Int]
    BY DEF InsertTurn, AgentInv, AgentTypeOK
  <1>4. /\ rec \in [at : {"out", "evict", "open", "think", "select"},
                    session : Sessions \cup {NoSession}, taken : 0 .. MaxTurns, index : Nat]
        /\ rec.at = "think" /\ rec.session = s
        /\ loop' = [loop EXCEPT ![l] = rec]
    BY <1>2 DEF AgentInv, AgentTypeOK, InsertTurn
  <1>5. UNCHANGED <<history, reborn, runs>>
    BY DEF InsertTurn
  <1>6. drops' \in 0 .. MaxDrops /\ history' \in [Loops -> Nat] /\ runs' \in 0 .. MaxRuns
    <2>1. drops' \in 0 .. MaxDrops
      BY AgentAssumption DEF InsertTurn, DropFault, AgentInv, AgentTypeOK
    <2> QED BY <1>5, <2>1 DEF AgentInv, AgentTypeOK
  <1> HIDE DEF rec
  <1>7. CASE UNCHANGED <<sessions, turns>>
    BY <1>3, <1>4, <1>5, <1>6, <1>7, LoopOnly
  <1>8. CASE /\ sessions[s] # -1 /\ <<s, i>> \notin turns
             /\ turns' = turns \cup {<<s, i>>}
             /\ sessions' = [sessions EXCEPT ![s] = @ + 1]
    <2>1. \A t \in Sessions : sessions'[t] = IF t = s THEN sessions[t] + 1 ELSE sessions[t]
      BY <1>3, <1>8
    <2>2. \A t \in Sessions : sessions[t] \in Int /\ sessions[t] >= -1
      BY <1>3 DEF AgentInv, Running
    <2>3. \A k \in Loops : loop'[k] = IF k = l THEN rec ELSE loop[k]
      BY <1>4 DEF AgentInv, AgentTypeOK
    <2>4. AgentTypeOK'
      <3>1. sessions' \in [Sessions -> Int] /\ turns' \subseteq Sessions \X Int
        BY <1>3, <1>8, <2>2 DEF AgentInv, AgentTypeOK
      <3>2. loop' \in [Loops -> [at : {"out", "evict", "open", "think", "select", "insert"},
                                 session : Sessions \cup {NoSession}, taken : 0 .. MaxTurns,
                                 index : Nat]]
        BY <1>4 DEF AgentInv, AgentTypeOK
      <3> QED BY <1>5, <1>6, <3>1, <3>2 DEF AgentInv, AgentTypeOK
    <2>5. \A t \in Sessions \ {s} : TurnsOf(t)' = TurnsOf(t) /\ Indices(t)' = Indices(t)
      BY <1>8 DEF TurnsOf, Indices
    <2>6. Indices(s)' = Indices(s) \cup {i} /\ i \notin Indices(s)
      <3>1. TurnsOf(s)' = TurnsOf(s) \cup {<<s, i>>}
        BY <1>8 DEF TurnsOf
      <3>2. Indices(s)' = Indices(s) \cup {i}
        <4>1. <<s, i>>[2] = i
          OBVIOUS
        <4> QED BY <3>1, <4>1, Zenon DEF Indices
      <3>3. ASSUME i \in Indices(s) PROVE FALSE
        <4>1. PICK t \in turns : t[1] = s /\ t[2] = i
          BY <3>3 DEF Indices, TurnsOf
        <4>2. t = <<s, i>>
          BY <4>1 DEF AgentInv, AgentTypeOK
        <4> QED BY <1>8, <4>1, <4>2
      <3> QED BY <3>2, <3>3
    <2>7. Ranked'
      <3>1. SUFFICES ASSUME NEW t \in Sessions
                     PROVE  /\ Indices(t)' \subseteq Nat
                            /\ Indices(t)' # {} =>
                                 \E m \in Indices(t)' : \A k \in Indices(t)' : k <= m
        BY DEF Ranked
      <3>2. Indices(t) \subseteq Nat
        BY DEF AgentInv, Ranked
      <3>3. CASE t # s
        BY <2>5, <3>3 DEF AgentInv, Ranked
      <3>4. CASE t = s /\ Indices(t) = {}
        BY <1>3, <2>6, <3>4
      <3>5. CASE t = s /\ Indices(t) # {}
        <4>1. PICK m \in Indices(t) : \A k \in Indices(t) : k <= m
          BY <3>5 DEF AgentInv, Ranked
        <4>2. m \in Nat
          BY <3>2
        <4>3. CASE i <= m
          BY <1>3, <2>6, <3>2, <3>5, <4>1, <4>2, <4>3
        <4>4. CASE i > m
          BY <1>3, <2>6, <3>2, <3>5, <4>1, <4>2, <4>4
        <4> QED BY <1>3, <4>2, <4>3, <4>4
      <3> QED BY <3>3, <3>4, <3>5
    <2>8. Running'
      <3>1. IsFiniteSet(turns')
        BY <1>8, FS_AddElement DEF AgentInv, Running
      <3> QED BY <1>3, <1>4, <2>1, <2>2, <2>3, <3>1 DEF AgentInv, Running
    <2>9. ReadIndex'
      <3>1. SUFFICES ASSUME NEW k \in Loops, loop'[k].at = "insert", loop'[k].session \notin reborn
                     PROVE  loop'[k].index <= NextIndex(loop[k].session)'
        BY <1>4, <1>5, <2>3 DEF ReadIndex
      <3>2. loop'[k] = loop[k]
        BY <1>4, <2>3, <3>1
      <3>3. loop[k].session \in Sessions /\ loop[k].index <= NextIndex(loop[k].session)
        BY <3>1, <3>2 DEF AgentInv, Running, ReadIndex
      <3>4. loop[k].index \in Nat
        BY DEF AgentInv, AgentTypeOK
      <3>5. CASE loop[k].session = s
        <4>1. loop[k].index <= sessions[s]
          BY <1>8, <3>3, <3>5 DEF NextIndex
        <4>2. sessions'[s] = sessions[s] + 1 /\ sessions[s] \in Int /\ sessions[s] >= 0
          BY <1>3, <1>8, <2>1, <2>2
        <4>3. loop[k].index <= sessions'[s] /\ sessions'[s] # -1
          BY <3>4, <4>1, <4>2
        <4> QED BY <3>2, <3>5, <4>3 DEF NextIndex
      <3>6. CASE loop[k].session # s
        BY <2>1, <3>2, <3>3, <3>6 DEF NextIndex
      <3> QED BY <3>5, <3>6
    <2>10. TurnsGapless'
      <3>1. SUFFICES ASSUME NEW t \in Sessions \ reborn
                     PROVE  IF sessions'[t] = -1 THEN TurnsOf(t)' = {}
                            ELSE Indices(t)' = 0 .. sessions'[t] - 1
        BY <1>5 DEF TurnsGapless
      <3>2. IF sessions[t] = -1 THEN TurnsOf(t) = {} ELSE Indices(t) = 0 .. sessions[t] - 1
        BY DEF AgentInv, TurnsGapless
      <3>3. CASE t # s
        BY <2>1, <2>5, <3>2, <3>3
      <3>4. CASE t = s
        <4>1. sessions[s] \in Nat /\ Indices(s) = 0 .. sessions[s] - 1
          BY <1>3, <1>8, <2>2, <3>2, <3>4
        <4>2. i <= sessions[s]
          BY <1>3, <1>2, <1>8, <3>4 DEF AgentInv, ReadIndex, NextIndex
        <4>3. i = sessions[s]
          BY <1>3, <2>6, <4>1, <4>2
        <4>4. Indices(s)' = 0 .. sessions[s]
          BY <2>6, <4>1, <4>3
        <4>5. sessions'[s] = sessions[s] + 1
          BY <1>3, <2>1
        <4>6. sessions'[s] - 1 = sessions[s] /\ sessions'[s] # -1
          BY <4>1, <4>5
        <4> QED BY <3>4, <4>4, <4>6
      <3> QED BY <3>3, <3>4
    <2> QED BY <2>4, <2>7, <2>8, <2>9, <2>10 DEF AgentInv
  <1> QED BY <1>2, <1>7, <1>8 DEF InsertTurn

----------------------------------------------------------------------------
LEMMA StartKeepsAgent ==
  ASSUME AgentInv, NEW l \in Loops, NEW s \in Sessions, StartRun(l, s)
  PROVE  AgentInv'
  <1> DEFINE rec == [Out EXCEPT !.at = "evict", !.session = s]
  <1>1. /\ rec \in [at : {"out", "evict", "open", "think", "select"},
                    session : Sessions \cup {NoSession}, taken : 0 .. MaxTurns, index : Nat]
        /\ rec.session = s
    <2>1. Out \in [at : {"out", "evict", "open", "think", "select"},
                   session : Sessions \cup {NoSession}, taken : 0 .. MaxTurns, index : Nat]
      BY AgentAssumption DEF Out
    <2> QED BY <2>1
  <1>2. loop' = [loop EXCEPT ![l] = rec] /\ UNCHANGED <<sessions, turns, reborn>>
    BY DEF StartRun
  <1>3. history' \in [Loops -> Nat] /\ runs' \in 0 .. MaxRuns /\ drops' \in 0 .. MaxDrops
    BY AgentAssumption DEF StartRun, AgentInv, AgentTypeOK
  <1> HIDE DEF rec
  <1> QED BY <1>1, <1>2, <1>3, LoopOnly

LEMMA TurnKeepsAgent ==
  ASSUME AgentInv, NEW l \in Loops, TakeTurn(l)
  PROVE  AgentInv'
  <1> DEFINE rec == [loop[l] EXCEPT !.at = "select", !.taken = @ + 1]
  <1>1. loop[l].taken + 1 \in 0 .. MaxTurns /\ loop[l].session \in Sessions
    BY AgentAssumption DEF TakeTurn, AgentInv, AgentTypeOK, Running
  <1>2. /\ rec \in [at : {"out", "evict", "open", "think", "select"},
                    session : Sessions \cup {NoSession}, taken : 0 .. MaxTurns, index : Nat]
        /\ rec.session = loop[l].session
    BY <1>1 DEF AgentInv, AgentTypeOK
  <1>3. loop' = [loop EXCEPT ![l] = rec] /\ UNCHANGED <<sessions, turns, reborn>>
    BY DEF TakeTurn
  <1>4. history' \in [Loops -> Nat] /\ runs' \in 0 .. MaxRuns /\ drops' \in 0 .. MaxDrops
    BY DEF TakeTurn, AgentInv, AgentTypeOK
  <1> HIDE DEF rec
  <1> QED BY <1>1, <1>2, <1>3, <1>4, LoopOnly

LEMMA EndKeepsAgent ==
  ASSUME AgentInv, NEW l \in Loops, EndRun(l)
  PROVE  AgentInv'
  <1>1. /\ Out \in [at : {"out", "evict", "open", "think", "select"},
                    session : Sessions \cup {NoSession}, taken : 0 .. MaxTurns, index : Nat]
        /\ Out.at = "out"
    BY AgentAssumption DEF Out
  <1>2. loop' = [loop EXCEPT ![l] = Out] /\ UNCHANGED <<sessions, turns, reborn>>
    BY DEF EndRun
  <1>3. history' \in [Loops -> Nat] /\ runs' \in 0 .. MaxRuns /\ drops' \in 0 .. MaxDrops
    BY DEF EndRun, AgentInv, AgentTypeOK
  <1> QED BY <1>1, <1>2, <1>3, LoopOnly

LEMMA DeleteKeepsAgent ==
  ASSUME AgentInv, NEW s \in Sessions, DeleteSession(s)
  PROVE  AgentInv'
  <1>1. Remove({s}) /\ loop' = loop /\ history' = history /\ runs' = runs
    BY DEF DeleteSession
  <1>2. drops' \in 0 .. MaxDrops
    BY AgentAssumption DEF DeleteSession, DropFault, AgentInv, AgentTypeOK
  <1> QED BY <1>1, <1>2, RemoveKeepsAgent

LEMMA AgentStepInv == AgentInv /\ [AgentNext]_agentVars => AgentInv'
  <1> SUFFICES ASSUME AgentInv, [AgentNext]_agentVars PROVE AgentInv'
    OBVIOUS
  <1>1. CASE UNCHANGED agentVars
    BY <1>1 DEF agentVars, AgentInv, AgentTypeOK, Ranked, ReadIndex, Running, TurnsGapless,
                NextIndex, Indices, TurnsOf
  <1>2. ASSUME NEW l \in Loops, NEW s \in Sessions, StartRun(l, s) PROVE AgentInv'
    BY <1>2, StartKeepsAgent
  <1>3. ASSUME NEW l \in Loops, NEW stale \in SUBSET {s \in Sessions : sessions[s] # -1},
               EvictStale(l, stale)
        PROVE  AgentInv'
    BY <1>3, EvictKeepsAgent
  <1>4. ASSUME NEW l \in Loops, OpenSession(l) PROVE AgentInv'
    BY <1>4, OpenKeepsAgent
  <1>5. ASSUME NEW l \in Loops, TakeTurn(l) PROVE AgentInv'
    BY <1>5, TurnKeepsAgent
  <1>6. ASSUME NEW l \in Loops, SelectIndex(l) PROVE AgentInv'
    BY <1>6, SelectKeepsAgent
  <1>7. ASSUME NEW l \in Loops, InsertTurn(l) PROVE AgentInv'
    BY <1>7, InsertKeepsAgent
  <1>8. ASSUME NEW l \in Loops, EndRun(l) PROVE AgentInv'
    BY <1>8, EndKeepsAgent
  <1>9. ASSUME NEW s \in Sessions, DeleteSession(s) PROVE AgentInv'
    BY <1>9, DeleteKeepsAgent
  <1> QED BY <1>1, <1>2, <1>3, <1>4, <1>5, <1>6, <1>7, <1>8, <1>9 DEF AgentNext

\* The invariant that carries the theorems below holds of every state agent loops reach.
THEOREM AgentInvariant == AgentSpec => []AgentInv
  BY AgentInitInv, AgentStepInv, PTL DEF AgentSpec

\* Whatever the loops, evictions and failed statements do, the tables and the loops keep
\* their types.
THEOREM AgentTypes == AgentSpec => []AgentTypeOK
  <1>1. AgentInv => AgentTypeOK
    BY DEF AgentInv
  <1> QED BY <1>1, AgentInvariant, PTL

\* insert_agent_turn(): for any number of loops, sessions and turns, a session's turns are
\* numbered from 0 without gaps and counted by its row.
THEOREM TurnsStayGapless == AgentSpec => []TurnsGapless
  <1>1. AgentInv => TurnsGapless
    BY DEF AgentInv
  <1> QED BY <1>1, AgentInvariant, PTL
=============================================================================
