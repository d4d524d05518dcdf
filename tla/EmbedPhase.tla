----------------------------- MODULE EmbedPhase -----------------------------
(***************************************************************************)
(* Phase 3 of an indexing run (trelix/indexing/indexer.py): the pending    *)
(* chunks, in token-sized batches, are embedded by a paid API and written  *)
(* to the vector store.  index() sends all batches into one event loop     *)
(* (_batch_embed_and_store_async), index_file() one after the other        *)
(* (_batch_embed_and_store).  A failing batch must stop what is not paid   *)
(* for yet, and what the run reports in the end must add up.               *)
(***************************************************************************)
EXTENDS Naturals, FiniteSets

CONSTANTS
  NumBatches,      \* batches of the run
  Permits,         \* embed_async() calls in flight: Semaphore(4)
  MaxBatchFaults   \* bound: calls of the API or the store that raise

ASSUME PhaseAssumption ==
  /\ NumBatches \in Nat \ {0} /\ Permits \in Nat \ {0} /\ MaxBatchFaults \in Nat

Batches == 1 .. NumBatches

VARIABLES
  together,     \* index()'s event loop, or index_file()'s loop
  stage,        \* where each batch is
  abort,        \* the event loop's flag
  vectors,      \* batches the vector store holds the vectors of
  soFar,        \* embedded_so_far, in batches
  skippedSoFar, \* skipped_batches
  outcome,      \* what the phase ends with: nothing yet, normally, PartialIndexError
  paid,         \* batches sent to the API; looked back at by the property
  batchFaults   \* spent so far, of MaxBatchFaults

phaseVars == <<together, stage, abort, vectors, soFar, skippedSoFar, outcome, paid, batchFaults>>

Over == {"landed", "failed", "skipped"}

PhaseTypeOK ==
  /\ together \in BOOLEAN /\ abort \in BOOLEAN
  /\ stage \in [Batches -> Over \cup {"made", "limiter", "permit", "embedding", "upserting", "stored"}]
  /\ vectors \subseteq Batches /\ paid \subseteq Batches
  /\ soFar \in 0 .. NumBatches /\ skippedSoFar \in 0 .. NumBatches
  /\ outcome \in {"none", "normal", "error"}
  /\ batchFaults \in 0 .. MaxBatchFaults

PhaseInit ==
  /\ together = TRUE
  /\ stage = [b \in Batches |-> "made"]
  /\ abort = FALSE /\ vectors = {} /\ soFar = 0 /\ skippedSoFar = 0
  /\ outcome = "none" /\ paid = {} /\ batchFaults = 0

In(st) == {b \in Batches : stage[b] = st}
Put(b, st) == stage' = [stage EXCEPT ![b] = st]
BatchFault == batchFaults < MaxBatchFaults /\ batchFaults' = batchFaults + 1

----------------------------------------------------------------------------
(* _batch_embed_and_store_async(): every step runs to the next await. *)

Skip(b) ==
  /\ Put(b, "skipped") /\ skippedSoFar' = skippedSoFar + 1
  /\ UNCHANGED <<together, abort, vectors, soFar, outcome, paid, batchFaults>>

Proceed(b, st) ==
  /\ Put(b, st)
  /\ UNCHANGED <<together, abort, vectors, soFar, skippedSoFar, outcome, paid, batchFaults>>

StartBatch(b) ==
  /\ together /\ stage[b] = "made"
  /\ IF abort THEN Skip(b) ELSE Proceed(b, "limiter")

\* limiter.acquire() returns, now or after a sleep.
PassLimiter(b) == stage[b] = "limiter" /\ Proceed(b, "permit")

\* The permit may come long after: abort is read again.
TakePermit(b) ==
  /\ stage[b] = "permit" /\ Cardinality(In("embedding")) < Permits
  /\ IF abort
     THEN Skip(b)
     ELSE /\ Put(b, "embedding") /\ paid' = paid \cup {b}
          /\ UNCHANGED <<together, abort, vectors, soFar, skippedSoFar, outcome, batchFaults>>

BatchFails(b) ==
  /\ BatchFault
  /\ Put(b, "failed") /\ abort' = TRUE
  /\ UNCHANGED <<together, soFar, skippedSoFar, outcome, paid>>

\* embed_async() returns, and the permit with it, or raises.
EmbedReturns(b) ==
  /\ stage[b] = "embedding"
  /\ Proceed(b, "upserting") \/ (BatchFails(b) /\ UNCHANGED vectors)

\* upsert_batch() in the executor, abort or not; one that raises may have committed.
UpsertReturns(b) ==
  /\ stage[b] = "upserting"
  /\ \/ /\ Put(b, "stored") /\ vectors' = vectors \cup {b}
        /\ UNCHANGED <<together, abort, soFar, skippedSoFar, outcome, paid, batchFaults>>
     \/ BatchFails(b) /\ vectors' \in {vectors, vectors \cup {b}}

\* async with counter_lock.
CountLanded(b) ==
  /\ stage[b] = "stored"
  /\ Put(b, "landed") /\ soFar' = soFar + 1
  /\ UNCHANGED <<together, abort, vectors, skippedSoFar, outcome, paid, batchFaults>>

\* Variant: a bare gather() re-raises the first exception while other batches still run.
EndPhaseAtFirstFailure ==
  /\ together /\ outcome = "none"
  /\ (\A b \in Batches : stage[b] \in Over) \/ In("failed") # {}
  /\ outcome' = IF In("failed") = {} THEN "normal" ELSE "error"
  /\ UNCHANGED <<together, stage, abort, vectors, soFar, skippedSoFar, paid, batchFaults>>

\* gather() returns when every batch has, then the damage is raised.
EndPhase ==
  /\ together /\ outcome = "none"
  /\ \A b \in Batches : stage[b] \in Over
  /\ outcome' = IF In("failed") = {} THEN "normal" ELSE "error"
  /\ UNCHANGED <<together, stage, abort, vectors, soFar, skippedSoFar, paid, batchFaults>>

----------------------------------------------------------------------------
(* _batch_embed_and_store(): one batch at a time, and a failure ends the loop. *)

ChooseOneByOne ==
  /\ together /\ In("made") = Batches
  /\ together' = FALSE
  /\ UNCHANGED <<stage, abort, vectors, soFar, skippedSoFar, outcome, paid, batchFaults>>

NextInLine(b) == stage[b] = "made" /\ \A c \in 1 .. b - 1 : stage[c] = "landed"

EmbedAndStore(b) ==
  /\ ~together /\ outcome = "none" /\ NextInLine(b)
  /\ paid' = paid \cup {b}
  /\ \/ /\ Put(b, "landed") /\ vectors' = vectors \cup {b} /\ soFar' = soFar + 1
        /\ outcome' = IF b = NumBatches THEN "normal" ELSE "none"
        /\ UNCHANGED <<skippedSoFar, batchFaults>>
     \/ /\ BatchFault
        /\ stage' = [c \in Batches |-> IF c = b THEN "failed"
                                       ELSE IF c > b THEN "skipped" ELSE stage[c]]
        /\ vectors' \in {vectors, vectors \cup {b}}
        /\ skippedSoFar' = NumBatches - (b - 1) - 1
        /\ outcome' = "error"
        /\ UNCHANGED soFar
  /\ UNCHANGED <<together, abort>>

PhaseNext ==
  \/ \E b \in Batches :
       \/ StartBatch(b) \/ PassLimiter(b) \/ TakePermit(b) \/ EmbedReturns(b)
       \/ UpsertReturns(b) \/ CountLanded(b) \/ EmbedAndStore(b)
  \/ EndPhase \/ ChooseOneByOne

PhaseSpec == PhaseInit /\ [][PhaseNext]_phaseVars

----------------------------------------------------------------------------
\* What the run reports adds up, whatever failed while other batches were on their way: an
\* error is raised exactly if a batch failed; landed, failed and skipped are all the batches;
\* what counts as landed has its vectors; no skipped batch was paid for, every other one was.
PhaseAccounts ==
  outcome # "none" =>
    /\ outcome = "error" <=> In("failed") # {}
    /\ soFar + skippedSoFar + Cardinality(In("failed")) = NumBatches
    /\ soFar = Cardinality(In("landed")) /\ In("landed") \subseteq vectors
    /\ paid = In("landed") \cup In("failed")
=============================================================================
