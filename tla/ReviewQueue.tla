----------------------------- MODULE ReviewQueue -----------------------------
(***************************************************************************)
(* The review queue of the GitHub app (infra/github-app/src/queue.ts), the *)
(* dedupe claims it takes (claims.ts) and the shutdown that drains it      *)
(* (shutdown.ts).                                                          *)
(*                                                                         *)
(* Node runs one callback at a time, so every synchronous call is one      *)
(* action: a delivery, a job settling, a watchdog or a signal.  What       *)
(* interleaves is their order: a job may settle before or after its        *)
(* deadline, during the drain, or never.                                   *)
(*                                                                         *)
(* Data abstraction.  A job is its dedupe key (one commit of one pull      *)
(* request) and the ticket of its arrival; the wait line's array order is  *)
(* the order of the tickets, since jobs are pushed at its end and spliced  *)
(* out.  Group gives the installation a key belongs to.  The Map of kept   *)
(* claims is ordered by completion, the order in which it is filled.       *)
(***************************************************************************)
EXTENDS Naturals, FiniteSets

CONSTANTS
  Keys,                \* dedupe keys
  Group,               \* the group (installation) of each key
  Capacity,            \* most waiting jobs
  PerGroupCapacity,    \* most waiting jobs of one group
  Concurrency,         \* most running jobs
  PerGroupConcurrency, \* most running jobs of one group
  KeepMs,              \* how long a finished claim is remembered
  MaxKept,             \* most finished claims remembered
  MaxArrivals,         \* bound: jobs accepted between two restarts
  MaxNow               \* bound: readings of the clock

Groups == {Group[k] : k \in Keys}

ASSUME GroupAssumption == DOMAIN Group = Keys
\* readWholeNumber() accepts no limit below 1.
ASSUME LimitAssumption ==
  /\ Capacity \in Nat \ {0} /\ PerGroupCapacity \in Nat \ {0}
  /\ Concurrency \in Nat \ {0} /\ PerGroupConcurrency \in Nat \ {0}
  /\ KeepMs \in Nat /\ MaxKept \in Nat \ {0}
ASSUME BoundAssumption == MaxArrivals \in Nat /\ MaxNow \in Nat

VARIABLES
  waiting,   \* jobs in the wait line
  slots,     \* jobs holding a slot: started, not finished
  hung,      \* jobs whose slot the watchdog took back and that still run
  running,   \* the queue's count of running jobs
  byGroup,   \* runningByGroup
  inFlight,  \* claims of queued and running jobs
  kept,      \* claims of finished jobs, until they expire
  now,       \* Date.now()
  proc,      \* "up", "draining" after a signal (the queue is closed), "exited"
  abandoned, \* jobs shutdown() dropped from the wait line
  status     \* exit status

VARIABLES
  arrivals,  \* tickets given out, at most MaxArrivals
  finished,  \* claims kept so far: the order of the Map

  \* what the properties look back at; no action reads them
  doneUntil, \* when the last finished review of each key is to be forgotten
  forgotten, \* keys dropped because more than MaxKept were kept
  peak,      \* the latest reading of the clock
  dropped    \* accepted jobs that will never start

queue  == <<waiting, slots, hung, running, byGroup, arrivals>>
claims == <<inFlight, kept, finished, doneUntil, forgotten>>
clock  == <<now, peak>>
exit   == <<proc, abandoned, status, dropped>>
vars   == <<queue, claims, clock, exit>>

Job  == [key : Keys, ticket : Nat]
Kept == [key : Keys, expires : Nat, done : Nat]

GroupOf(j)   == Group[j.key]
Of(jobs, g)  == {j \in jobs : GroupOf(j) = g}
KeysOf(jobs) == {j.key : j \in jobs}
Before(jobs, j) == {i \in jobs : i.ticket < j.ticket}

Init ==
  /\ waiting = {} /\ slots = {} /\ hung = {}
  /\ running = 0 /\ byGroup = [g \in Groups |-> 0]
  /\ inFlight = {} /\ kept = {}
  /\ proc = "up" /\ abandoned = 0 /\ status = 0
  /\ arrivals = 0 /\ finished = 0
  /\ doneUntil = [k \in Keys |-> 0] /\ forgotten = {}
  /\ dropped = {}
  /\ now = 0 /\ peak = 0

\* The clock runs, and may be stepped back.
Clock(t) ==
  /\ t # now
  /\ now' = t
  /\ peak' = IF t > peak THEN t ELSE peak
  /\ UNCHANGED <<queue, claims, exit>>

----------------------------------------------------------------------------
(* ClaimStore. *)

\* dropExpired(): the Map is walked from its oldest entry and left at the first live one.
DropExpired(entries) ==
  {e \in entries : \E d \in entries : d.done <= e.done /\ d.expires > now}

\* dropOverflow(): the oldest entries go until maxKept are left.
DropOverflow(entries) ==
  {e \in entries : Cardinality({d \in entries : d.done > e.done}) < MaxKept}

\* Variant: only the claims in flight are asked.
ClaimableUnlessInFlight(k) == k \notin inFlight

\* claim(): is the key free?
Claimable(k) ==
  k \notin inFlight /\ \A e \in DropExpired(kept) : e.key = k => e.expires <= now

ClaimedKept(k) == {e \in DropExpired(kept) : e.key # k}

\* Variant: the expiry is a duration, not a time.
KeepForDuration(k) ==
  LET entries == {e \in kept : e.key # k}
                   \cup {[key |-> k, expires |-> KeepMs, done |-> finished]}
  IN /\ kept' = DropExpired(DropOverflow(entries))
     /\ forgotten' = (forgotten \cup KeysOf(entries \ DropOverflow(entries))) \ {k}
     /\ doneUntil' = [doneUntil EXCEPT ![k] = now + KeepMs]
     /\ finished' = finished + 1

\* keep(): the key goes to the end of the Map.
Keep(k) ==
  LET entries == {e \in kept : e.key # k}
                   \cup {[key |-> k, expires |-> now + KeepMs, done |-> finished]}
  IN /\ kept' = DropExpired(DropOverflow(entries))
     /\ forgotten' = (forgotten \cup KeysOf(entries \ DropOverflow(entries))) \ {k}
     /\ doneUntil' = [doneUntil EXCEPT ![k] = now + KeepMs]
     /\ finished' = finished + 1

----------------------------------------------------------------------------
(* JobQueue. *)

CanStartNow(g) == running < Concurrency /\ byGroup[g] < PerGroupConcurrency

\* Variant: one job too many, since the line is measured before the push.
HasRoomOffByOne(g) ==
  /\ Cardinality(waiting) <= Capacity
  /\ Cardinality(Of(waiting, g)) <= PerGroupCapacity

\* refusalToWait() is null.
HasRoom(g) ==
  /\ Cardinality(waiting) < Capacity
  /\ Cardinality(Of(waiting, g)) < PerGroupCapacity

\* Variant: the scan stops at the first job its group blocks.
ScanHeadOnly(line, ran, ranBy, started) ==
  \A j \in line :
    j \in started <=>
      /\ Before(line, j) \subseteq started
      /\ ran + Cardinality(Before(started, j)) < Concurrency
      /\ ranBy[GroupOf(j)] + Cardinality(Before(Of(started, GroupOf(j)), j))
           < PerGroupConcurrency

\* Variant: the scan runs from the newest job.
ScanNewestFirst(line, ran, ranBy, started) ==
  \A j \in line :
    j \in started <=>
      /\ ran + Cardinality({i \in started : i.ticket > j.ticket}) < Concurrency
      /\ ranBy[GroupOf(j)]
           + Cardinality({i \in Of(started, GroupOf(j)) : i.ticket > j.ticket})
           < PerGroupConcurrency

\* One scan of the line, oldest first, starts every job that finds a free slot and its
\* group below the group's cap; the others are skipped, not waited for.
Scan(line, ran, ranBy, started) ==
  \A j \in line :
    j \in started <=>
      /\ ran + Cardinality(Before(started, j)) < Concurrency
      /\ ranBy[GroupOf(j)] + Cardinality(Before(Of(started, GroupOf(j)), j))
           < PerGroupConcurrency

\* pump(), called with the line, the two counts and the jobs that hold a slot.
Pump(line, ran, ranBy, held) ==
  \E started \in SUBSET line :
    /\ Scan(line, ran, ranBy, started)
    /\ waiting' = line \ started
    /\ slots' = held \cup started
    /\ running' = ran + Cardinality(started)
    /\ byGroup' = [g \in Groups |-> ranBy[g] + Cardinality(Of(started, g))]

\* submit() of a key that is queued, running or remembered.
Duplicate(k) ==
  /\ proc = "up"
  /\ ~Claimable(k)
  /\ kept' = DropExpired(kept)
  /\ UNCHANGED <<queue, inFlight, finished, doneUntil, forgotten, clock, exit>>

\* Variant: the refused job keeps its claim.
RefuseKeepingClaim(k) ==
  /\ proc = "up"
  /\ Claimable(k)
  /\ ~CanStartNow(Group[k]) /\ ~HasRoom(Group[k])
  /\ kept' = ClaimedKept(k)
  /\ inFlight' = inFlight \cup {k}
  /\ UNCHANGED <<queue, finished, doneUntil, forgotten, clock, exit>>

\* submit() with no room to wait: the claim just taken is given back.
Refuse(k) ==
  /\ proc = "up"
  /\ Claimable(k)
  /\ ~CanStartNow(Group[k]) /\ ~HasRoom(Group[k])
  /\ kept' = ClaimedKept(k)
  /\ UNCHANGED <<queue, inFlight, finished, doneUntil, forgotten, clock, exit>>

\* submit() that is accepted: claimed, pushed, pumped.
Accept(k) ==
  /\ proc = "up"
  /\ arrivals < MaxArrivals
  /\ Claimable(k)
  /\ CanStartNow(Group[k]) \/ HasRoom(Group[k])
  /\ kept' = ClaimedKept(k)
  /\ inFlight' = inFlight \cup {k}
  /\ arrivals' = arrivals + 1
  /\ Pump(waiting \cup {[key |-> k, ticket |-> arrivals]}, running, byGroup, slots)
  /\ UNCHANGED <<hung, finished, doneUntil, forgotten, clock, exit>>

\* Variant: a job that ends leaves its slot to the next delivery.
FinishWithoutPump(j, outcome) ==
  /\ waiting' = waiting /\ slots' = slots \ {j} /\ running' = running - 1
  /\ byGroup' = [byGroup EXCEPT ![GroupOf(j)] = @ - 1]
  /\ inFlight' = inFlight \ {j.key}
  /\ \/ outcome = "done" /\ Keep(j.key)
     \/ outcome = "retry" /\ UNCHANGED <<kept, finished, doneUntil, forgotten>>

\* finish(): the slot and the claim end, the next jobs start.
Finish(j, outcome) ==
  /\ Pump(waiting, running - 1, [byGroup EXCEPT ![GroupOf(j)] = @ - 1], slots \ {j})
  /\ inFlight' = inFlight \ {j.key}
  /\ \/ outcome = "done" /\ Keep(j.key)
     \/ outcome = "retry" /\ UNCHANGED <<kept, finished, doneUntil, forgotten>>

Alive == proc # "exited"

\* The job settles before its deadline; one that throws or rejects counts as "retry".
Settle(j, outcome) ==
  /\ Alive
  /\ Finish(j, outcome)
  /\ UNCHANGED <<hung, arrivals, clock, exit>>

\* The watchdog: the slot is taken back, the job itself cannot be stopped.
Timeout(j) ==
  /\ Alive
  /\ Finish(j, "retry")
  /\ hung' = hung \cup {j}
  /\ UNCHANGED <<arrivals, clock, exit>>

\* Variant: the late end of a timed-out job is handled like any other.
LateSettleFinishes(j) ==
  /\ Alive
  /\ hung' = hung \ {j}
  /\ running' = running - 1
  /\ byGroup' = [byGroup EXCEPT ![GroupOf(j)] = @ - 1]
  /\ inFlight' = inFlight \ {j.key}
  /\ UNCHANGED <<waiting, slots, arrivals, kept, finished, doneUntil, forgotten, clock, exit>>

\* A timed-out job settles after all: the race is over, nothing waits for it.
LateSettle(j) ==
  /\ Alive
  /\ hung' = hung \ {j}
  /\ UNCHANGED <<waiting, slots, running, byGroup, arrivals, claims, clock, exit>>

----------------------------------------------------------------------------
(* Shutdown. *)

\* Variant: the jobs are counted after they have been dropped.
SignalCountsTooLate ==
  /\ proc = "up"
  /\ proc' = "draining"
  /\ waiting' = {} /\ inFlight' = inFlight \ KeysOf(waiting)
  /\ abandoned' = Cardinality(waiting')
  /\ dropped' = waiting
  /\ UNCHANGED <<slots, hung, running, byGroup, arrivals, kept, finished, doneUntil,
                 forgotten, clock, status>>

\* The first SIGTERM or SIGINT closes the queue and drops the wait line.
Signal ==
  /\ proc = "up"
  /\ proc' = "draining"
  /\ waiting' = {} /\ inFlight' = inFlight \ KeysOf(waiting)
  /\ abandoned' = Cardinality(waiting)
  /\ dropped' = waiting
  /\ UNCHANGED <<slots, hung, running, byGroup, arrivals, kept, finished, doneUntil,
                 forgotten, clock, status>>

\* The queue is idle, or the grace period is over with jobs still running.
Drained ==
  /\ proc = "draining"
  /\ proc' = "exited"
  /\ status' = IF abandoned > 0 \/ running > 0 THEN 1 ELSE 0
  /\ UNCHANGED <<queue, claims, clock, abandoned, dropped>>

\* A second signal ends the process at once.
SecondSignal ==
  /\ proc = "draining"
  /\ proc' = "exited"
  /\ status' = 1
  /\ UNCHANGED <<queue, claims, clock, abandoned, dropped>>

\* The platform starts the service again: nothing was persisted.
Restart ==
  /\ proc = "exited"
  /\ waiting' = {} /\ slots' = {} /\ hung' = {}
  /\ running' = 0 /\ byGroup' = [g \in Groups |-> 0]
  /\ inFlight' = {} /\ kept' = {}
  /\ proc' = "up" /\ abandoned' = 0 /\ status' = 0
  /\ arrivals' = 0 /\ finished' = 0
  /\ doneUntil' = [k \in Keys |-> 0] /\ forgotten' = {}
  /\ dropped' = {}
  /\ UNCHANGED clock

Next ==
  \/ \E t \in 0..MaxNow : Clock(t)
  \/ \E k \in Keys : Duplicate(k) \/ Refuse(k) \/ Accept(k)
  \/ \E j \in slots : Timeout(j) \/ \E outcome \in {"done", "retry"} : Settle(j, outcome)
  \/ \E j \in hung : LateSettle(j)
  \/ Signal \/ Drained \/ SecondSignal \/ Restart

Spec == Init /\ [][Next]_vars

\* A job that never settles is cut off by its watchdog: every slot is given up.
SlotEnds(k) ==
  \E j \in slots : j.key = k /\ (Timeout(j) \/ \E outcome \in {"done", "retry"} : Settle(j, outcome))

LiveSpec == Spec /\ \A k \in Keys : WF_vars(SlotEnds(k))

----------------------------------------------------------------------------
(* Properties. *)

TypeOK ==
  /\ waiting \subseteq Job /\ slots \subseteq Job /\ hung \subseteq Job
  /\ running \in Nat /\ byGroup \in [Groups -> Nat]
  /\ inFlight \subseteq Keys /\ kept \subseteq Kept
  /\ now \in Nat /\ peak \in Nat
  /\ proc \in {"up", "draining", "exited"}
  /\ abandoned \in Nat /\ status \in {0, 1}
  /\ arrivals \in Nat /\ finished \in Nat
  /\ doneUntil \in [Keys -> Nat] /\ forgotten \subseteq Keys
  /\ dropped \subseteq Job

\* The two counters the caps are checked against are the numbers of jobs that hold a slot,
\* whenever and however often a job settles.
CountersExact ==
  /\ running = Cardinality(slots)
  /\ \A g \in Groups : byGroup[g] = Cardinality(Of(slots, g))

\* No installation, and no flood of deliveries, gets past its share of line and slots.
CapsHold ==
  /\ Cardinality(waiting) <= Capacity /\ Cardinality(slots) <= Concurrency
  /\ \A g \in Groups : /\ Cardinality(Of(waiting, g)) <= PerGroupCapacity
                       /\ Cardinality(Of(slots, g)) <= PerGroupConcurrency

\* No job waits that could run: a slot is free only while every waiting job's group is at
\* its cap.
WorkConserving ==
  running < Concurrency => \A j \in waiting : byGroup[GroupOf(j)] = PerGroupConcurrency

\* A claim is in flight exactly while one job with its key waits or holds a slot: none
\* leaks, so a refused or failed commit can be sent again, and no commit holds two slots.  (A
\* job its watchdog gave up on may still be at work beside its successor.)
ClaimsMatchJobs ==
  /\ inFlight = KeysOf(waiting \cup slots)
  /\ \A i, j \in waiting \cup slots : i.key = j.key => i = j

\* Within a group jobs start in the order they arrived.
FifoWithinGroup ==
  [][\A j \in waiting : j \in slots' =>
        \A i \in Of(waiting, GroupOf(j)) : i.ticket < j.ticket => i \in slots']_vars

\* A commit whose review is done is not reviewed again before its claim expires, unless
\* the process restarted or more than MaxKept newer reviews pushed the claim out.
NoRepeatedReview ==
  [][\A j \in (waiting' \cup slots') \ (waiting \cup slots) :
        doneUntil[j.key] <= peak \/ j.key \in forgotten]_vars

\* Exit status 0 means every accepted job ran, to its end or to its deadline.
StatusZeroDroppedNothing == proc = "exited" /\ status = 0 => dropped = {} /\ slots = {}

\* Every accepted job leaves the wait line, even if no job ever settles: watchdogs alone
\* keep the line moving.
EveryoneServed ==
  \A k \in Keys : k \in KeysOf(waiting) ~> k \notin KeysOf(waiting)

\* shutdown.ts: a review still running when the grace period ends is cut with the process;
\* "The exit status says which case it was: 0 when nothing was lost, 1 when work was."
StatusZeroCutNothing ==
  proc = "exited" /\ status = 0 => dropped = {} /\ slots = {} /\ hung = {}

----------------------------------------------------------------------------
(* What the queue promises for each commit. *)

Stage(k) ==
  CASE k \in KeysOf(waiting) -> "queued"
    [] k \in KeysOf(slots)   -> "running"
    [] k \in KeysOf(kept)    -> "done"
    [] OTHER                 -> "free"

Lifecycle == INSTANCE ReviewLifecycle
  WITH LineCap <- Capacity, SlotCap <- Concurrency, KeepFor <- KeepMs, Memory <- MaxKept,
       stage <- [k \in Keys |-> Stage(k)],
       until <- [k \in Keys |-> IF Stage(k) = "done" THEN doneUntil[k] ELSE 0],
       time  <- now

\* The queue, its claims and its shutdown implement the life cycle: in particular no commit
\* waits or is under review again while its finished review is to be remembered.
ImplementsLifecycle == Lifecycle!Spec
=============================================================================
