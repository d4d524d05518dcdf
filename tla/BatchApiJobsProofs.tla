------------------------- MODULE BatchApiJobsProofs -------------------------
(***************************************************************************)
(* Why a chunk is not paid for twice.  A run submits only when no row is   *)
(* open, and only chunks that are alive and have no vector.  What an       *)
(* earlier job was sent and is still worth something is therefore not in   *)
(* the list: a completed job's chunks have their vectors or are dead       *)
(* (ids never come back), and the rows this very run has recorded were     *)
(* taken off the list.                                                     *)
(***************************************************************************)
EXTENDS BatchApiJobs, WellFoundedInduction, SequenceTheorems, TLAPS

\* The chunks of a job were drawn, and those of a completed one have vectors while they live.
JobsHave ==
  \A j \in DOMAIN jobs :
    /\ jobs[j].ids \subseteq 1 .. drawn
    /\ jobs[j].row = "completed" => jobs[j].ids \cap alive \subseteq embedded

\* What the run knows of the job it works on.
Polling ==
  /\ step \in {"store", "mark", "record"} => polled \in DOMAIN jobs
  /\ step \in {"store", "mark"} => jobs[polled].row = "submitted"
  /\ step = "mark" => jobs[polled].ids \subseteq embedded
  /\ step = "record" => polled = Len(jobs) /\ jobs[polled].row = "none"

\* What the run has still to submit is alive, has no vector and is in no open job.
Unsent ==
  /\ step \in {"embed", "submit", "record"} => pending \subseteq alive \ embedded
  /\ step \in {"submit", "record"} => \A j \in OpenJobs : jobs[j].ids \cap pending = {}

IInv == JobsTypeOK /\ JobsHave /\ Polling /\ Unsent /\ PaidForOnce

----------------------------------------------------------------------------
\* A set of naturals that is not empty has a least element.
LEMMA LeastElement ==
  ASSUME NEW S \in SUBSET Nat, S # {}
  PROVE  \E n \in S : \A m \in S : n <= m
  <1>1. PICK R : IsWellFoundedOn(R, Nat) /\ \A x, y \in Nat : x < y => <<x, y>> \in R
    <2>1. IsWellFoundedOn(OpToRel(<, Nat), Nat)
      BY NatLessThanWellFounded
    <2>2. \A x, y \in Nat : x < y => <<x, y>> \in OpToRel(<, Nat)
      BY DEF OpToRel
    <2> QED BY <2>1, <2>2, Zenon
  <1>2. PICK n \in S : \A m \in S : ~(<<m, n>> \in R)
    <2>1. IsWellFoundedOn(R, Nat) /\ S \subseteq Nat /\ S # {}
      BY <1>1
    <2> QED BY <2>1, WFMin
  <1>3. n \in Nat /\ \A m \in S : m \in Nat
    OBVIOUS
  <1>4. \A m \in S : ~(m < n)
    BY <1>1, <1>2, <1>3
  <1> QED BY <1>3, <1>4

\* get_pending_batch_job() returns a job that is open, if there is one.
LEMMA PendingJobIsOpen ==
  ASSUME jobs \in Seq(Job), OpenJobs # {}
  PROVE  PendingJob \in OpenJobs
  <1>1. Len(jobs) \in Nat /\ OpenJobs \subseteq 1 .. Len(jobs)
    BY LenProperties DEF OpenJobs
  <1> DEFINE Back == {n \in Nat : Len(jobs) - n \in OpenJobs}
  <1>2. PICK j \in OpenJobs : TRUE
    OBVIOUS
  <1>3. Len(jobs) - j \in Nat /\ Len(jobs) - (Len(jobs) - j) = j
    BY <1>1, <1>2
  <1>4. Back # {} /\ Back \in SUBSET Nat
    BY <1>2, <1>3
  <1>5. PICK n \in Back : \A m \in Back : n <= m
    <2> HIDE DEF Back
    <2> QED BY <1>4, LeastElement
  <1>6. \A k \in OpenJobs : k <= Len(jobs) - n
    <2>1. SUFFICES ASSUME NEW k \in OpenJobs PROVE k <= Len(jobs) - n
      OBVIOUS
    <2>2. Len(jobs) - k \in Nat /\ Len(jobs) - (Len(jobs) - k) = k /\ k \in Nat
      BY <1>1, <2>1
    <2>3. n <= Len(jobs) - k
      BY <1>5, <2>2
    <2> QED BY <1>1, <1>5, <2>2, <2>3
  <1>7. Len(jobs) - n \in OpenJobs
    BY <1>5
  <1> QED BY <1>6, <1>7 DEF PendingJob

\* update_batch_job_status() changes one row and no chunk ids.
LEMMA RowSet ==
  ASSUME jobs \in Seq(Job), NEW j \in DOMAIN jobs,
         NEW status \in {"none", "submitted", "completed", "failed"}, SetRow(j, status)
  PROVE  /\ jobs' \in Seq(Job) /\ Len(jobs') = Len(jobs) /\ DOMAIN jobs' = DOMAIN jobs
         /\ \A k \in DOMAIN jobs :
              /\ jobs'[k].ids = jobs[k].ids
              /\ jobs'[k].row = IF k = j THEN status ELSE jobs[k].row
  <1>1. j \in 1 .. Len(jobs) /\ DOMAIN jobs = 1 .. Len(jobs)
    BY LenProperties
  <1>2. jobs[j] \in Job
    BY <1>1, ElementOfSeq
  <1> DEFINE job == [jobs[j] EXCEPT !.row = status]
  <1>3. job \in Job /\ job.ids = jobs[j].ids /\ job.row = status
    BY <1>2 DEF Job
  <1>4. jobs' = [jobs EXCEPT ![j] = job]
    BY DEF SetRow
  <1> HIDE DEF job
  <1>5. /\ jobs' \in Seq(Job) /\ Len(jobs') = Len(jobs)
        /\ \A k \in 1 .. Len(jobs) : jobs'[k] = IF k = j THEN job ELSE jobs[k]
    BY <1>1, <1>3, <1>4, ExceptSeq
  <1>6. DOMAIN jobs' = DOMAIN jobs
    BY <1>1, <1>5, LenProperties
  <1> QED BY <1>1, <1>3, <1>5, <1>6

LEMMA InitIInv == JobsInit => IInv
  <1>1. SUFFICES ASSUME JobsInit PROVE IInv
    OBVIOUS
  <1>2. jobs \in Seq(Job) /\ Len(jobs) = 0 /\ DOMAIN jobs = {}
    BY <1>1, EmptySeq, LenProperties DEF JobsInit
  <1>3. JobsTypeOK
    <2>1. 0 \in 0 .. MaxChunks /\ 0 \in 0 .. MaxJobFaults /\ 0 \in 0 .. MaxIncomplete
      BY JobBounds
    <2>2. polled \in 0 .. Len(jobs)
      BY <1>1, <1>2 DEF JobsInit
    <2> QED BY <1>1, <1>2, <2>1, <2>2 DEF JobsInit, JobsTypeOK
  <1> QED
    BY <1>1, <1>2, <1>3 DEF JobsInit, IInv, JobsHave, Polling, Unsent, PaidForOnce

\* A run that stops, whatever it had begun, leaves nothing to be careful about.
LEMMA LeavingKeepsIInv ==
  ASSUME IInv, Leave, UNCHANGED <<alive, drawn, jobs, viaApi, incomplete>>,
         jobFaults' \in 0 .. MaxJobFaults,
         embedded \subseteq embedded', embedded' \subseteq 1 .. drawn
  PROVE  IInv'
  <1>1. JobsTypeOK'
    BY LenProperties DEF IInv, JobsTypeOK, Leave
  <1>2. JobsHave'
    BY DEF IInv, JobsHave
  <1>3. Polling' /\ Unsent'
    BY DEF Polling, Unsent, Leave
  <1>4. PaidForOnce'
    BY DEF IInv, PaidForOnce
  <1> QED BY <1>1, <1>2, <1>3, <1>4 DEF IInv

\* A row that becomes failed or completed is no longer open.
LEMMA ClosingKeepsIInv ==
  ASSUME IInv, NEW j \in DOMAIN jobs, NEW status \in {"completed", "failed"},
         SetRow(j, status), Leave, UNCHANGED <<alive, drawn, embedded, viaApi, incomplete>>,
         jobFaults' \in 0 .. MaxJobFaults,
         jobs[j].row = "submitted",
         status = "completed" => jobs[j].ids \subseteq embedded
  PROVE  IInv'
  <1>1. /\ jobs' \in Seq(Job) /\ Len(jobs') = Len(jobs) /\ DOMAIN jobs' = DOMAIN jobs
        /\ \A k \in DOMAIN jobs : /\ jobs'[k].ids = jobs[k].ids
                                  /\ jobs'[k].row = IF k = j THEN status ELSE jobs[k].row
    BY RowSet DEF IInv, JobsTypeOK
  <1>2. JobsTypeOK'
    BY <1>1, LenProperties DEF IInv, JobsTypeOK, Leave
  <1>3. JobsHave'
    BY <1>1 DEF IInv, JobsHave
  <1>4. Polling' /\ Unsent'
    BY DEF Polling, Unsent, Leave
  <1>5. PaidForOnce'
    <2>1. SUFFICES ASSUME NEW i \in DOMAIN jobs, NEW k \in DOMAIN jobs, i < k,
                          jobs[i].ids \cap jobs[k].ids # {}
                   PROVE  jobs'[i].row \in {"failed", "none"}
      BY <1>1 DEF PaidForOnce
    <2>2. jobs[i].row \in {"failed", "none"}
      BY <2>1 DEF IInv, PaidForOnce
    <2> QED BY <1>1, <2>2
  <1> QED BY <1>2, <1>3, <1>4, <1>5 DEF IInv

----------------------------------------------------------------------------
LEMMA StartKeepsIInv ==
  ASSUME IInv, NEW api \in BOOLEAN, NEW gone, NEW new, StartIndexRun(api, gone, new)
  PROVE  IInv'
  <1>1. /\ alive \subseteq 1 .. drawn /\ drawn \in 0 .. MaxChunks /\ embedded \subseteq 1 .. drawn
        /\ gone \subseteq alive /\ new \in 0 .. MaxChunks - drawn /\ drawn' = drawn + new
    BY DEF IInv, JobsTypeOK, StartIndexRun
  <1>2. /\ drawn' \in 0 .. MaxChunks /\ 1 .. drawn \subseteq 1 .. drawn'
        /\ (drawn + 1 .. drawn') \subseteq 1 .. drawn'
        /\ (drawn + 1 .. drawn') \cap (1 .. drawn) = {}
    BY <1>1, JobBounds
  <1>3. alive' \subseteq 1 .. drawn' /\ embedded' \subseteq 1 .. drawn'
    BY <1>1, <1>2 DEF StartIndexRun
  <1>4. JobsTypeOK'
    BY <1>1, <1>2, <1>3 DEF IInv, JobsTypeOK, StartIndexRun
  <1>5. JobsHave'
    <2>1. SUFFICES ASSUME NEW j \in DOMAIN jobs
                   PROVE  /\ jobs[j].ids \subseteq 1 .. drawn'
                          /\ jobs[j].row = "completed" => jobs[j].ids \cap alive' \subseteq embedded'
      BY DEF JobsHave, StartIndexRun
    <2>2. jobs[j].ids \subseteq 1 .. drawn
      BY DEF IInv, JobsHave
    <2>3. jobs[j].ids \cap alive' \subseteq jobs[j].ids \cap (alive \ gone)
      BY <1>2, <2>2 DEF StartIndexRun
    <2>4. ASSUME jobs[j].row = "completed" PROVE jobs[j].ids \cap alive' \subseteq embedded'
      BY <2>3, <2>4 DEF IInv, JobsHave, StartIndexRun
    <2> QED BY <1>2, <2>2, <2>4
  <1>6. Polling' /\ Unsent'
    BY DEF StartIndexRun, Polling, Unsent
  <1>7. PaidForOnce'
    BY DEF IInv, PaidForOnce, StartIndexRun
  <1> QED BY <1>4, <1>5, <1>6, <1>7 DEF IInv

LEMMA DropKeepsIInv ==
  ASSUME IInv, NEW c \in alive, DropChunk(c)
  PROVE  IInv'
  <1>1. JobsTypeOK'
    BY DEF IInv, JobsTypeOK, DropChunk
  <1>2. JobsHave'
    BY DEF IInv, JobsHave, DropChunk
  <1>3. Polling' /\ Unsent'
    BY DEF DropChunk, Polling, Unsent
  <1>4. PaidForOnce'
    BY DEF IInv, PaidForOnce, DropChunk
  <1> QED BY <1>1, <1>2, <1>3, <1>4 DEF IInv

LEMMA PollKeepsIInv == IInv /\ PollBatch => IInv'
  <1>1. SUFFICES ASSUME IInv, PollBatch PROVE IInv'
    OBVIOUS
  <1> DEFINE j == PendingJob
  <1>2. jobs \in Seq(Job) /\ j \in OpenJobs
    BY <1>1, PendingJobIsOpen DEF IInv, JobsTypeOK, PollBatch
  <1>3. j \in DOMAIN jobs /\ jobs[j].row = "submitted" /\ j \in 0 .. Len(jobs)
    BY <1>2, LenProperties DEF OpenJobs
  <1>4. UNCHANGED <<alive, drawn, embedded, viaApi, incomplete>> /\ step = "embed"
    BY <1>1 DEF PollBatch
  <1>5. jobFaults \in 0 .. MaxJobFaults /\ embedded \subseteq 1 .. drawn
    BY <1>1 DEF IInv, JobsTypeOK
  <1> HIDE DEF j
  <1>6. CASE step' = "store" /\ polled' = j /\ UNCHANGED <<jobs, pending, jobFaults>>
    <2>1. JobsTypeOK'
      BY <1>1, <1>3, <1>4, <1>6 DEF IInv, JobsTypeOK
    <2>2. JobsHave' /\ PaidForOnce'
      BY <1>1, <1>4, <1>6 DEF IInv, JobsHave, PaidForOnce
    <2>3. Polling' /\ Unsent'
      BY <1>3, <1>6 DEF Polling, Unsent
    <2> QED BY <2>1, <2>2, <2>3 DEF IInv
  <1>7. CASE SetRow(j, "failed") /\ Leave /\ UNCHANGED jobFaults
    BY <1>1, <1>3, <1>4, <1>5, <1>7, ClosingKeepsIInv
  <1>8. CASE Leave /\ UNCHANGED <<jobs, jobFaults>>
    BY <1>1, <1>4, <1>5, <1>8, LeavingKeepsIInv
  <1>9. CASE JobFault /\ Leave /\ UNCHANGED jobs
    <2>1. jobFaults' \in 0 .. MaxJobFaults
      BY <1>5, <1>9, JobBounds DEF JobFault
    <2> QED BY <1>1, <1>4, <1>5, <1>9, <2>1, LeavingKeepsIInv
  <1> QED
    BY <1>1, <1>6, <1>7, <1>8, <1>9 DEF PollBatch, j

LEMMA SubmitKeepsIInv ==
  ASSUME IInv, NEW b \in SUBSET pending, SubmitBatch(b)
  PROVE  IInv'
  <1> DEFINE new == [ids |-> b, row |-> "none", remote |-> "running"]
             n == Len(jobs)
  <1>1. /\ jobs \in Seq(Job) /\ drawn \in 0 .. MaxChunks
        /\ pending \subseteq 1 .. drawn /\ step = "submit" /\ pending \subseteq alive \ embedded
    BY DEF IInv, JobsTypeOK, SubmitBatch, Unsent
  <1>2. b \subseteq 1 .. MaxChunks
    BY <1>1, JobBounds
  <1>3. new \in Job
    BY <1>2 DEF Job
  <1>4. n \in Nat /\ DOMAIN jobs = 1 .. n
    BY <1>1, LenProperties
  <1>5. /\ jobs' \in Seq(Job) /\ Len(jobs') = n + 1 /\ jobs'[n + 1] = new
        /\ \A i \in 1 .. n : jobs'[i] = jobs[i]
    <2> HIDE DEF new
    <2>1. jobs' = Append(jobs, new)
      BY DEF SubmitBatch, new
    <2> QED BY <1>1, <1>3, <2>1, AppendProperties
  <1>6. DOMAIN jobs' = 1 .. n + 1 /\ new.ids = b /\ new.row = "none"
    BY <1>5, LenProperties
  <1> HIDE DEF new
  <1>7. JobsTypeOK'
    BY <1>4, <1>5 DEF IInv, JobsTypeOK, SubmitBatch
  <1>8. JobsHave'
    <2>1. SUFFICES ASSUME NEW i \in 1 .. n + 1
                   PROVE  /\ jobs'[i].ids \subseteq 1 .. drawn
                          /\ jobs'[i].row = "completed" => jobs'[i].ids \cap alive \subseteq embedded
      BY <1>6 DEF JobsHave, SubmitBatch
    <2>2. CASE i = n + 1
      BY <1>1, <1>5, <1>6, <2>2
    <2>3. CASE i \in 1 .. n
      BY <1>4, <1>5, <2>3 DEF IInv, JobsHave
    <2> QED BY <1>4, <2>2, <2>3
  <1>9. Polling'
    BY <1>4, <1>5, <1>6 DEF Polling, SubmitBatch
  <1>10. Unsent'
    <2>1. ASSUME NEW i \in 1 .. n + 1, jobs'[i].row = "submitted"
          PROVE  jobs'[i].ids \cap pending = {}
      <3>1. i \in 1 .. n
        BY <1>4, <1>5, <1>6, <2>1
      <3> QED BY <1>1, <1>4, <1>5, <2>1, <3>1 DEF IInv, Unsent, OpenJobs
    <2> QED BY <1>1, <1>6, <2>1 DEF Unsent, OpenJobs, SubmitBatch
  <1>11. PaidForOnce'
    <2>1. SUFFICES ASSUME NEW i \in 1 .. n + 1, NEW k \in 1 .. n + 1, i < k,
                          jobs'[i].ids \cap jobs'[k].ids # {}
                   PROVE  jobs'[i].row \in {"failed", "none"}
      BY <1>6 DEF PaidForOnce
    <2>2. i \in 1 .. n /\ jobs'[i] = jobs[i]
      BY <1>4, <1>5, <2>1
    <2>3. CASE k \in 1 .. n
      BY <1>4, <1>5, <2>1, <2>2, <2>3 DEF IInv, PaidForOnce
    <2>4. CASE k = n + 1
      \* An open job has nothing of the list; a completed one only what is dead or has a vector.
      <3>1. PICK c : c \in jobs[i].ids /\ c \in pending
        BY <1>5, <1>6, <2>1, <2>2, <2>4
      <3>2. jobs[i].row # "submitted"
        BY <1>1, <1>4, <2>2, <3>1 DEF IInv, Unsent, OpenJobs
      <3>3. jobs[i].row # "completed"
        BY <1>1, <1>4, <2>2, <3>1 DEF IInv, JobsHave
      <3>4. jobs[i].row \in {"none", "submitted", "completed", "failed"}
        <4>1. jobs[i] \in Job
          BY <1>1, <1>4, <2>2, ElementOfSeq
        <4> QED BY <4>1 DEF Job
      <3> QED BY <2>2, <3>2, <3>3, <3>4
    <2> QED BY <1>4, <2>3, <2>4
  <1> QED BY <1>7, <1>8, <1>9, <1>10, <1>11 DEF IInv

LEMMA RecordKeepsIInv == IInv /\ RecordJob => IInv'
  <1>1. SUFFICES ASSUME IInv, RecordJob PROVE IInv'
    OBVIOUS
  <1>2. /\ jobs \in Seq(Job) /\ polled \in DOMAIN jobs /\ polled = Len(jobs)
        /\ DOMAIN jobs = 1 .. Len(jobs) /\ Len(jobs) \in Nat /\ step = "record"
    BY <1>1, LenProperties DEF IInv, JobsTypeOK, Polling, RecordJob
  <1>3. /\ jobs' \in Seq(Job) /\ Len(jobs') = Len(jobs) /\ DOMAIN jobs' = DOMAIN jobs
        /\ \A k \in DOMAIN jobs : /\ jobs'[k].ids = jobs[k].ids
                                  /\ jobs'[k].row = IF k = polled THEN "submitted" ELSE jobs[k].row
    BY <1>1, <1>2, RowSet DEF RecordJob
  <1>4. JobsTypeOK'
    <2>1. polled' = 0 /\ 0 \in 0 .. Len(jobs)
      BY <1>1, <1>2 DEF RecordJob
    <2>2. polled' \in 0 .. Len(jobs') /\ pending' \subseteq 1 .. drawn
      <3>1. pending' \subseteq pending /\ pending \subseteq 1 .. drawn
        BY <1>1 DEF IInv, JobsTypeOK, RecordJob
      <3> QED BY <1>3, <2>1, <3>1
    <2>3. step' \in {"idle", "submit"}
      BY <1>1 DEF RecordJob
    <2> QED BY <1>1, <1>3, <2>2, <2>3 DEF IInv, JobsTypeOK, RecordJob
  <1>5. JobsHave'
    BY <1>1, <1>3 DEF IInv, JobsHave, RecordJob
  <1>6. Polling'
    BY <1>1 DEF Polling, RecordJob
  <1>7. Unsent'
    <2>1. pending' = pending \ jobs[polled].ids /\ alive' = alive /\ embedded' = embedded
      BY <1>1 DEF RecordJob
    <2>2. ASSUME NEW j \in DOMAIN jobs, jobs'[j].row = "submitted"
          PROVE  jobs'[j].ids \cap pending' = {}
      BY <1>1, <1>2, <1>3, <2>1, <2>2 DEF IInv, Unsent, OpenJobs
    <2> QED BY <1>1, <1>2, <1>3, <2>1, <2>2 DEF IInv, Unsent, OpenJobs
  <1>8. PaidForOnce'
    <2>1. SUFFICES ASSUME NEW i \in DOMAIN jobs, NEW k \in DOMAIN jobs, i < k,
                          jobs[i].ids \cap jobs[k].ids # {}
                   PROVE  jobs'[i].row \in {"failed", "none"}
      BY <1>3 DEF PaidForOnce
    <2>2. i # polled
      BY <1>2, <2>1
    <2> QED BY <1>1, <1>3, <2>1, <2>2 DEF IInv, PaidForOnce
  <1> QED BY <1>4, <1>5, <1>6, <1>7, <1>8 DEF IInv

LEMMA EndJobKeepsIInv ==
  ASSUME IInv, NEW j \in DOMAIN jobs, EndJob(j)
  PROVE  IInv'
  <1>1. jobs \in Seq(Job) /\ DOMAIN jobs = 1 .. Len(jobs) /\ jobs[j] \in Job
    BY LenProperties, ElementOfSeq DEF IInv, JobsTypeOK
  <1>2. PICK r \in {"done", "incomplete", "dead"} : jobs' = [jobs EXCEPT ![j].remote = r]
    BY DEF EndJob
  <1> DEFINE job == [jobs[j] EXCEPT !.remote = r]
  <1>3. job \in Job /\ job.ids = jobs[j].ids /\ job.row = jobs[j].row
    BY <1>1 DEF Job
  <1>4. jobs' = [jobs EXCEPT ![j] = job]
    BY <1>2
  <1> HIDE DEF job
  <1>5. /\ jobs' \in Seq(Job) /\ Len(jobs') = Len(jobs)
        /\ \A k \in 1 .. Len(jobs) : jobs'[k] = IF k = j THEN job ELSE jobs[k]
    BY <1>1, <1>3, <1>4, ExceptSeq
  <1>6. /\ DOMAIN jobs' = DOMAIN jobs
        /\ \A k \in DOMAIN jobs : jobs'[k].ids = jobs[k].ids /\ jobs'[k].row = jobs[k].row
    BY <1>1, <1>3, <1>5, LenProperties
  <1>7. UNCHANGED <<alive, drawn, embedded, step, viaApi, pending, polled>>
    BY DEF EndJob
  <1>8. jobFaults' \in 0 .. MaxJobFaults /\ incomplete' \in 0 .. MaxIncomplete
    BY JobBounds DEF IInv, JobsTypeOK, EndJob, JobFault
  <1>9. JobsTypeOK'
    BY <1>5, <1>7, <1>8 DEF IInv, JobsTypeOK
  <1>10. JobsHave'
    BY <1>6, <1>7 DEF IInv, JobsHave
  <1>11. Polling'
    BY <1>5, <1>6, <1>7 DEF IInv, Polling
  <1>12. OpenJobs' = OpenJobs
    BY <1>6 DEF OpenJobs
  <1>13. Unsent'
    BY <1>6, <1>7, <1>12 DEF IInv, Unsent, OpenJobs
  <1>14. PaidForOnce'
    BY <1>6 DEF IInv, PaidForOnce
  <1> QED BY <1>9, <1>10, <1>11, <1>13, <1>14 DEF IInv

LEMMA StepIInv == IInv /\ [JobsNext]_jobVars => IInv'
  <1>1. SUFFICES ASSUME IInv, [JobsNext]_jobVars PROVE IInv'
    OBVIOUS
  <1>2. /\ jobs \in Seq(Job) /\ embedded \subseteq 1 .. drawn /\ pending \subseteq 1 .. drawn
        /\ jobFaults \in 0 .. MaxJobFaults
    BY <1>1 DEF IInv, JobsTypeOK
  <1>3. CASE EmbedNow
    BY <1>1, <1>2, <1>3, LeavingKeepsIInv DEF EmbedNow
  <1>4. CASE PollBatch
    BY <1>1, <1>4, PollKeepsIInv
  <1>5. CASE StoreVectors
    <2>1. polled \in DOMAIN jobs /\ jobs[polled].row = "submitted" /\ jobs[polled].ids \subseteq 1 .. drawn
      BY <1>1, <1>5 DEF IInv, Polling, JobsHave, StoreVectors
    <2>2. JobsTypeOK'
      BY <1>1, <1>5, <2>1 DEF IInv, JobsTypeOK, StoreVectors
    <2>3. JobsHave' /\ PaidForOnce'
      BY <1>1, <1>5 DEF IInv, JobsHave, PaidForOnce, StoreVectors
    <2>4. Polling' /\ Unsent'
      BY <1>5, <2>1 DEF Polling, Unsent, StoreVectors
    <2> QED BY <2>2, <2>3, <2>4 DEF IInv
  <1>6. CASE MarkCompleted
    <2>1. polled \in DOMAIN jobs /\ jobs[polled].row = "submitted" /\ jobs[polled].ids \subseteq embedded
      BY <1>1, <1>6 DEF IInv, Polling, MarkCompleted
    <2> QED BY <1>1, <1>2, <1>6, <2>1, ClosingKeepsIInv DEF MarkCompleted
  <1>7. CASE TurnToSubmit
    <2>1. JobsTypeOK' /\ JobsHave' /\ PaidForOnce' /\ Polling'
      BY <1>1, <1>7 DEF IInv, JobsTypeOK, JobsHave, PaidForOnce, Polling, TurnToSubmit
    <2>2. OpenJobs' = {} /\ Unsent'
      BY <1>1, <1>7 DEF IInv, Unsent, OpenJobs, TurnToSubmit
    <2> QED BY <2>1, <2>2 DEF IInv
  <1>8. CASE RecordJob
    BY <1>1, <1>8, RecordKeepsIInv
  <1>9. ASSUME NEW b \in SUBSET pending, SubmitBatch(b) PROVE IInv'
    BY <1>1, <1>9, SubmitKeepsIInv
  <1>10. ASSUME NEW j \in DOMAIN jobs, EndJob(j) PROVE IInv'
    BY <1>1, <1>10, EndJobKeepsIInv
  <1>11. CASE CutRun
    <2>1. jobFaults' \in 0 .. MaxJobFaults
      BY <1>2, <1>11, JobBounds DEF CutRun, JobFault
    <2> QED BY <1>1, <1>2, <1>11, <2>1, LeavingKeepsIInv DEF CutRun
  <1>12. ASSUME NEW c \in alive, DropChunk(c) PROVE IInv'
    BY <1>1, <1>12, DropKeepsIInv
  <1>13. ASSUME NEW api \in BOOLEAN, NEW gone, NEW new, StartIndexRun(api, gone, new)
         PROVE IInv'
    BY <1>1, <1>13, StartKeepsIInv
  <1>14. CASE UNCHANGED jobVars
    BY <1>1, <1>14
    DEF IInv, JobsTypeOK, JobsHave, Polling, Unsent, OpenJobs, PaidForOnce, jobVars
  <1> QED
    BY <1>1, <1>3, <1>4, <1>5, <1>6, <1>7, <1>8, <1>9, <1>10, <1>11, <1>12, <1>13, <1>14
    DEF JobsNext, RunStep, ProviderStep

THEOREM InvariantHolds == JobsSpec => []IInv
  BY InitIInv, StepIInv, PTL DEF JobsSpec

\* Every variable of the protocol has its type; the bounds on ids, jobs and faults hold.
THEOREM TypeCorrect == JobsSpec => []JobsTypeOK
  <1>1. IInv => JobsTypeOK
    BY DEF IInv
  <1> QED BY <1>1, InvariantHolds, PTL

\* However runs, rewrites, deletions, kills and the provider interleave, no chunk is sent in a
\* second job while the first is open or has brought its vector, for any number of chunks.
THEOREM NobodyPaysTwice == JobsSpec => []PaidForOnce
  <1>1. IInv => PaidForOnce
    BY DEF IInv
  <1> QED BY <1>1, InvariantHolds, PTL
=============================================================================
