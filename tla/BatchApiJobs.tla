---------------------------- MODULE BatchApiJobs ----------------------------
(***************************************************************************)
(* Embedding through OpenAI's Batch API: a protocol of several runs of     *)
(* index() (_batch_embed_and_store_via_batch_api, trelix/indexing/         *)
(* indexer.py).  One run submits the pending chunks as jobs and returns;   *)
(* later runs poll one job each, store its vectors and mark its row.  The  *)
(* provider works on a job for hours, while other runs rewrite files.      *)
(*                                                                         *)
(* A chunk is its AUTOINCREMENT id, 1 .. drawn: ids never come back.  The  *)
(* rows of embed_batch_jobs are kept in the order of submission, which is  *)
(* the order of their ids, together with what the provider knows.          *)
(***************************************************************************)
EXTENDS Naturals, FiniteSets, Sequences

CONSTANTS
  FirstChunks,    \* chunks the first run draws
  MaxChunks,      \* bound: chunk ids ever drawn
  MaxInBatch,     \* chunks that fit the token budget of one job
  MaxJobFaults,   \* bound: kills, failing calls, jobs the provider ends without result
  MaxIncomplete   \* bound: jobs that complete with failed requests in them

ASSUME JobBounds ==
  /\ FirstChunks \in Nat /\ MaxChunks \in Nat /\ FirstChunks <= MaxChunks
  /\ MaxInBatch \in Nat \ {0}
  /\ MaxJobFaults \in Nat /\ MaxIncomplete \in Nat

VARIABLES
  alive,     \* ids of the chunk rows
  drawn,     \* the last id drawn
  embedded,  \* ids the vector store holds a vector for
  jobs,      \* every job submitted: its chunk ids, its row's status, its state at the provider
  step,      \* where the running index() is in Phase 3
  viaApi,    \* it runs with use_batch_api
  pending,   \* its work list
  polled,    \* the job it polls
  jobFaults, incomplete   \* spent so far, of MaxJobFaults and MaxIncomplete

jobVars == <<alive, drawn, embedded, jobs, step, viaApi, pending, polled, jobFaults, incomplete>>

Unembedded == alive \ embedded

\* A job: a row status ("none" until insert_batch_job commits) and the provider's view.
Job == [ids : SUBSET (1 .. MaxChunks),
        row : {"none", "submitted", "completed", "failed"},
        remote : {"running", "done", "incomplete", "dead"}]

JobsTypeOK ==
  /\ alive \subseteq 1 .. drawn /\ drawn \in 0 .. MaxChunks
  /\ embedded \subseteq 1 .. drawn
  /\ jobs \in Seq(Job)
  /\ step \in {"idle", "embed", "store", "mark", "submit", "record"}
  /\ viaApi \in BOOLEAN
  /\ pending \subseteq 1 .. drawn
  /\ polled \in 0 .. Len(jobs)
  /\ jobFaults \in 0 .. MaxJobFaults /\ incomplete \in 0 .. MaxIncomplete

JobsInit ==
  /\ alive = {} /\ drawn = 0
  /\ embedded = {}
  /\ jobs = << >>
  /\ step = "idle" /\ viaApi = FALSE /\ pending = {} /\ polled = 0
  /\ jobFaults = 0 /\ incomplete = 0

JobFault == jobFaults < MaxJobFaults /\ jobFaults' = jobFaults + 1

\* get_pending_batch_job(): the rows whose status is not terminal, the newest first.
OpenJobs == {j \in DOMAIN jobs : jobs[j].row = "submitted"}
PendingJob == CHOOSE j \in OpenJobs : \A k \in OpenJobs : k <= j

SetRow(j, status) == jobs' = [jobs EXCEPT ![j].row = status]

\* Back to the shell, by a return or by an exception.
Leave == step' = "idle" /\ pending' = {} /\ polled' = 0

----------------------------------------------------------------------------
\* Phases 1 and 2 rewrite the chunks of changed files (here one chunk goes, with its vector,
\* and one comes); the repair scan adds the living chunks without a vector.  A run with
\* nothing to parse and nothing to repair returns early.
StartIndexRun(api, gone, new) ==
  /\ step = "idle"
  /\ gone \subseteq alive /\ new \in 0 .. MaxChunks - drawn
  /\ drawn' = drawn + new
  /\ alive' = (alive \ gone) \cup (drawn + 1 .. drawn')
  /\ embedded' = embedded \ gone
  /\ pending' = alive' \ embedded'
  /\ pending' # {}
  /\ step' = "embed" /\ viaApi' = api
  /\ UNCHANGED <<jobs, polled, jobFaults, incomplete>>

\* A removed file, outside a run.
DropChunk(c) ==
  /\ step = "idle" /\ c \in alive
  /\ alive' = alive \ {c} /\ embedded' = embedded \ {c}
  /\ UNCHANGED <<drawn, jobs, step, viaApi, pending, polled, jobFaults, incomplete>>

\* Without use_batch_api Phase 3 embeds the list in this run.
EmbedNow ==
  /\ step = "embed" /\ ~viaApi
  /\ embedded' = embedded \cup pending
  /\ Leave
  /\ UNCHANGED <<alive, drawn, jobs, viaApi, jobFaults, incomplete>>

\* Variant: a job with a chunk deleted meanwhile is refused, its row untouched.
PollBatchChecksIds ==
  /\ step = "embed" /\ viaApi /\ OpenJobs # {}
  /\ LET j == PendingJob IN
     \/ /\ jobs[j].remote = "done" /\ jobs[j].ids \subseteq alive
        /\ step' = "store" /\ polled' = j
        /\ UNCHANGED <<jobs, pending, jobFaults>>
     \/ /\ jobs[j].remote = "dead"
        /\ SetRow(j, "failed") /\ Leave
        /\ UNCHANGED jobFaults
     \/ /\ jobs[j].remote \in {"running", "incomplete"} \/ ~(jobs[j].ids \subseteq alive)
        /\ Leave
        /\ UNCHANGED <<jobs, jobFaults>>
     \/ /\ JobFault /\ Leave
        /\ UNCHANGED jobs
  /\ UNCHANGED <<alive, drawn, embedded, viaApi, incomplete>>

\* Some job is open: poll the newest and do nothing else in this run.  Its vectors are stored;
\* a job reported dead is marked and the error raised; a job still processing, an incomplete
\* one (BatchJobIncompleteError) and a failing call leave the row as it is.
PollBatch ==
  /\ step = "embed" /\ viaApi /\ OpenJobs # {}
  /\ LET j == PendingJob IN
     \/ /\ jobs[j].remote = "done"
        /\ step' = "store" /\ polled' = j
        /\ UNCHANGED <<jobs, pending, jobFaults>>
     \/ /\ jobs[j].remote = "dead"
        /\ SetRow(j, "failed") /\ Leave
        /\ UNCHANGED jobFaults
     \/ /\ jobs[j].remote \in {"running", "incomplete"}
        /\ Leave
        /\ UNCHANGED <<jobs, jobFaults>>
     \/ /\ JobFault /\ Leave
        /\ UNCHANGED jobs
  /\ UNCHANGED <<alive, drawn, embedded, viaApi, incomplete>>

\* vector_store.upsert_batch(): whether or not the ids are still those of chunk rows.
StoreVectors ==
  /\ step = "store"
  /\ embedded' = embedded \cup jobs[polled].ids
  /\ step' = "mark"
  /\ UNCHANGED <<alive, drawn, jobs, viaApi, pending, polled, jobFaults, incomplete>>

MarkCompleted ==
  /\ step = "mark"
  /\ SetRow(polled, "completed") /\ Leave
  /\ UNCHANGED <<alive, drawn, embedded, viaApi, jobFaults, incomplete>>

\* Variant: a job still processing does not keep the run from submitting.
TurnToSubmitAnyway ==
  /\ step = "embed" /\ viaApi /\ \A j \in OpenJobs : jobs[j].remote = "running"
  /\ step' = "submit"
  /\ UNCHANGED <<alive, drawn, embedded, jobs, viaApi, pending, polled, jobFaults, incomplete>>

TurnToSubmit ==
  /\ step = "embed" /\ viaApi /\ OpenJobs = {}
  /\ step' = "submit"
  /\ UNCHANGED <<alive, drawn, embedded, jobs, viaApi, pending, polled, jobFaults, incomplete>>

\* submit_batch(): the provider has the next token batch, and charges for it.
SubmitBatch(b) ==
  /\ step = "submit"
  /\ b # {} /\ b \subseteq pending /\ Cardinality(b) <= MaxInBatch
  /\ jobs' = Append(jobs, [ids |-> b, row |-> "none", remote |-> "running"])
  /\ polled' = Len(jobs')
  /\ step' = "record"
  /\ UNCHANGED <<alive, drawn, embedded, viaApi, pending, jobFaults, incomplete>>

\* insert_batch_job(), one commit per submission.
RecordJob ==
  /\ step = "record"
  /\ SetRow(polled, "submitted")
  /\ pending' = pending \ jobs[polled].ids
  /\ polled' = 0
  /\ step' = IF pending' = {} THEN "idle" ELSE "submit"
  /\ UNCHANGED <<alive, drawn, embedded, viaApi, jobFaults, incomplete>>

\* A kill, or an exception out of the provider or a store.
CutRun ==
  /\ step # "idle"
  /\ JobFault /\ Leave
  /\ UNCHANGED <<alive, drawn, embedded, jobs, viaApi, incomplete>>

\* The provider ends a job: with its vectors, with failed requests in it, or not at all.
EndJob(j) ==
  /\ jobs[j].remote = "running"
  /\ \/ /\ jobs' = [jobs EXCEPT ![j].remote = "done"]
        /\ UNCHANGED <<jobFaults, incomplete>>
     \/ /\ incomplete < MaxIncomplete /\ incomplete' = incomplete + 1
        /\ jobs' = [jobs EXCEPT ![j].remote = "incomplete"]
        /\ UNCHANGED jobFaults
     \/ /\ JobFault
        /\ jobs' = [jobs EXCEPT ![j].remote = "dead"]
        /\ UNCHANGED incomplete
  /\ UNCHANGED <<alive, drawn, embedded, step, viaApi, pending, polled>>

----------------------------------------------------------------------------
RunStep ==
  \/ EmbedNow \/ PollBatch \/ StoreVectors \/ MarkCompleted \/ TurnToSubmit \/ RecordJob
  \/ \E b \in SUBSET pending : SubmitBatch(b)

Rerun == StartIndexRun(TRUE, {}, 0)
ProviderStep == \E j \in DOMAIN jobs : EndJob(j)

JobsNext ==
  \/ RunStep \/ ProviderStep \/ CutRun
  \/ \E c \in alive : DropChunk(c)
  \/ \E api \in BOOLEAN, new \in IF drawn = 0 THEN {FirstChunks} ELSE 0 .. 1 :
        StartIndexRun(api, {}, new) \/ \E c \in alive : StartIndexRun(api, {c}, new)

\* A started run keeps running, the provider ends every job, and index() is run again and
\* again ("re-run indexing later").
JobsSpec ==
  /\ JobsInit /\ [][JobsNext]_jobVars
  /\ WF_jobVars(RunStep) /\ WF_jobVars(ProviderStep) /\ SF_jobVars(Rerun)

----------------------------------------------------------------------------
\* A chunk is sent in a second job only if the first one came to nothing: reported dead, or
\* never recorded because the run was cut between submitting and recording it.
\* (Costly duplicates are what the docstring of _batch_embed_and_store_via_batch_api avoids.)
PaidForOnce ==
  \A i, j \in DOMAIN jobs :
    i < j /\ jobs[i].ids \cap jobs[j].ids # {} => jobs[i].row \in {"failed", "none"}

\* Re-running index() drains the jobs: once the rewrites and the faults end, every chunk is
\* embedded, whatever chunks died while their job was with the provider, unless an incomplete
\* job is in the way (JobsFinish tells what becomes of its chunks).
HolesDrain ==
  <>[](Unembedded = {} \/ \E j \in OpenJobs : jobs[j].remote = "incomplete")

\* "re-run indexing later to poll for results and finish embedding" (indexer.py): a chunk
\* whose job is recorded is embedded in the end, or deleted.
JobsFinish ==
  \A c \in 1 .. MaxChunks :
    (c \in Unembedded /\ \E j \in OpenJobs : c \in jobs[j].ids) ~> c \notin Unembedded
=============================================================================
