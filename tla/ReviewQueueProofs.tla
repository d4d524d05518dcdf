-------------------------- MODULE ReviewQueueProofs --------------------------
(***************************************************************************)
(* Safety of ReviewQueue for any commits, installations and limits.        *)
(***************************************************************************)
EXTENDS ReviewQueue, FiniteSetTheorems, WellFoundedInduction, TLAPS

\* What older jobs of a finite set there are is countable, and no more than the set.
LEMMA BeforeCount ==
  ASSUME NEW S, IsFiniteSet(S), NEW j
  PROVE  /\ IsFiniteSet(Before(S, j))
         /\ Cardinality(Before(S, j)) \in Nat
         /\ Cardinality(Before(S, j)) <= Cardinality(S)
<1>1. Before(S, j) \in SUBSET S
  BY DEF Before
<1>2. QED
  BY <1>1, FS_Subset, FS_CardinalityType

\* The jobs of one group of a finite set are countable, and no more than the set.
LEMMA OfCount ==
  ASSUME NEW S, IsFiniteSet(S), NEW g
  PROVE  /\ IsFiniteSet(Of(S, g))
         /\ Cardinality(Of(S, g)) \in Nat
         /\ Cardinality(Of(S, g)) <= Cardinality(S)
<1>1. Of(S, g) \in SUBSET S
  BY DEF Of
<1>2. QED
  BY <1>1, FS_Subset, FS_CardinalityType

\* A job that another started before leaves a count of at least one.
LEMMA BeforeSome ==
  ASSUME NEW S, IsFiniteSet(S), NEW i \in S, NEW j, i.ticket < j.ticket
  PROVE  Cardinality(Before(S, j)) >= 1
<1>1. i \in Before(S, j)
  BY DEF Before
<1>2. QED
  BY <1>1, BeforeCount, FS_EmptySet

\* A line, the jobs that hold a slot, and the counts that pump() takes for theirs.
Ready(line, ran, ranBy, held) ==
  /\ line \subseteq Job /\ IsFiniteSet(line)
  /\ held \subseteq Job /\ IsFiniteSet(held) /\ line \cap held = {}
  /\ ran = Cardinality(held) /\ ran <= Concurrency
  /\ ranBy \in [Groups -> Nat]
  /\ \A g \in Groups : ranBy[g] = Cardinality(Of(held, g)) /\ ranBy[g] <= PerGroupConcurrency

\* A scan that starts at most one job, and the counts it leaves.
StartsOne(line, ran, ranBy, started, r, b) ==
  /\ started \subseteq line /\ Scan(line, ran, ranBy, started)
  /\ \A i, j \in started : i = j
  /\ r = ran + Cardinality(started)
  /\ b = [g \in Groups |-> ranBy[g] + Cardinality(Of(started, g))]

\* A finite line and set of slots with exact counters, caps kept, and nobody waiting who
\* could run.
Leaves(line, held, r, b) ==
  /\ IsFiniteSet(held) /\ IsFiniteSet(line)
  /\ r \in Nat /\ b \in [Groups -> Nat]
  /\ r = Cardinality(held)
  /\ \A g \in Groups : b[g] = Cardinality(Of(held, g))
  /\ r <= Concurrency
  /\ \A g \in Groups : b[g] <= PerGroupConcurrency
  /\ r < Concurrency => \A j \in line : b[GroupOf(j)] = PerGroupConcurrency

\* Such a scan leaves exact counters, caps kept, and nobody waiting who could run.
LEMMA PumpOutcome ==
  ASSUME NEW line, NEW ran, NEW ranBy, NEW held, NEW started, NEW r, NEW b,
         Ready(line, ran, ranBy, held), StartsOne(line, ran, ranBy, started, r, b)
  PROVE  Leaves(line \ started, held \cup started, r, b)
<1> USE LimitAssumption DEF Ready, StartsOne, Leaves
<1>f. IsFiniteSet(started) /\ IsFiniteSet(line \ started)
  BY FS_Subset
<1>g. \A j \in line : GroupOf(j) \in Groups
  BY DEF Job, GroupOf, Groups
<1>n. ran \in Nat
  BY FS_CardinalityType
<1>h. \A g \in Groups : ranBy[g] \in Nat
  OBVIOUS
<1>1. /\ IsFiniteSet(held \cup started)
      /\ r \in Nat /\ b \in [Groups -> Nat]
      /\ r = Cardinality(held \cup started)
      /\ \A g \in Groups : b[g] = Cardinality(Of(held \cup started, g))
      /\ r <= Concurrency
      /\ \A g \in Groups : b[g] <= PerGroupConcurrency
  <2>1. CASE started = {}
    <3>1. Cardinality(started) = 0 /\ held \cup started = held
      BY <2>1, FS_EmptySet
    <3>2. r = ran
      BY <3>1, <1>n
    <3>3. ASSUME NEW g \in Groups
          PROVE  b[g] = ranBy[g] /\ Of(held \cup started, g) = Of(held, g)
      <4>1. Of(started, g) = {}
        BY <2>1 DEF Of
      <4>2. Cardinality(Of(started, g)) = 0
        BY <4>1, FS_EmptySet
      <4>3. b[g] = ranBy[g]
        BY <4>2, <1>h
      <4>4. QED
        BY <4>3, <3>1
    <3>4. b \in [Groups -> Nat]
      <4>1. \A g \in Groups : ranBy[g] + Cardinality(Of(started, g)) \in Nat
        BY <3>3, <1>h
      <4>2. QED
        BY <4>1
    <3>5. QED
      BY <1>n, <3>1, <3>2, <3>3, <3>4
  <2>2. CASE started # {}
    <3>1. PICK j \in started : started = {j}
      BY <2>2
    <3>2. j \in line /\ j \notin held
      BY <3>1
    <3>3. Cardinality(started) = 1 /\ Cardinality(held \cup started) = ran + 1
      BY <3>1, <3>2, FS_Singleton, FS_AddElement
    <3>4. IsFiniteSet(held \cup started)
      BY <1>f, FS_Union
    <3>5. ran < Concurrency /\ ranBy[GroupOf(j)] < PerGroupConcurrency
      <4>1. Cardinality(Before(started, j)) \in Nat
        BY <1>f, BeforeCount
      <4>2. Cardinality(Before(Of(started, GroupOf(j)), j)) \in Nat
        BY <1>f, OfCount, BeforeCount
      <4>3. ranBy[GroupOf(j)] \in Nat
        BY <1>g, <3>2
      <4>4. QED
        BY <1>n, <3>1, <3>2, <4>1, <4>2, <4>3 DEF Scan
    <3>6. ASSUME NEW g \in Groups
          PROVE  /\ ranBy[g] + Cardinality(Of(started, g)) \in Nat
                 /\ b[g] = Cardinality(Of(held \cup started, g))
                 /\ b[g] <= PerGroupConcurrency
      <4>0. ranBy[g] = Cardinality(Of(held, g)) /\ ranBy[g] \in Nat
            /\ ranBy[g] <= PerGroupConcurrency
        BY <1>h
      <4>1. CASE GroupOf(j) = g
        <5>1. Of(started, g) = {j} /\ Of(held \cup started, g) = Of(held, g) \cup {j}
              /\ j \notin Of(held, g)
          BY <3>1, <3>2, <4>1 DEF Of
        <5>2. Cardinality(Of(started, g)) = 1
              /\ Cardinality(Of(held \cup started, g)) = Cardinality(Of(held, g)) + 1
          <6>1. IsFiniteSet(Of(held, g))
            BY OfCount
          <6>2. Cardinality(Of(held, g) \cup {j}) = Cardinality(Of(held, g)) + 1
            BY <5>1, <6>1, FS_AddElement
          <6>3. QED
            BY <5>1, <6>2, FS_Singleton
        <5>3. b[g] = ranBy[g] + 1
          BY <5>2
        <5>4. QED
          BY <3>5, <4>0, <4>1, <5>2, <5>3
      <4>2. CASE GroupOf(j) # g
        <5>1. Of(started, g) = {} /\ Of(held \cup started, g) = Of(held, g)
          BY <3>1, <4>2 DEF Of
        <5>2. Cardinality(Of(started, g)) = 0
          BY <5>1, FS_EmptySet
        <5>3. b[g] = ranBy[g]
          BY <4>0, <5>2
        <5>4. QED
          BY <4>0, <5>1, <5>2, <5>3
      <4>3. QED
        BY <4>1, <4>2
    <3>7. b \in [Groups -> Nat]
      BY <3>6
    <3>8. r = ran + 1
      BY <3>3
    <3>9. r \in Nat /\ r <= Concurrency /\ r = Cardinality(held \cup started)
      BY <1>n, <3>3, <3>5, <3>8
    <3>10. QED
      BY <3>4, <3>6, <3>7, <3>9
  <2>3. QED
    BY <2>1, <2>2
<1>2. ASSUME r < Concurrency, NEW j \in line \ started
      PROVE  b[GroupOf(j)] = PerGroupConcurrency
  <2>1. /\ Cardinality(Before(started, j)) \in Nat
        /\ Cardinality(Before(started, j)) <= Cardinality(started)
        /\ Cardinality(started) \in Nat
    BY <1>f, BeforeCount, FS_CardinalityType
  <2>2. /\ Cardinality(Before(Of(started, GroupOf(j)), j)) \in Nat
        /\ Cardinality(Before(Of(started, GroupOf(j)), j)) <= Cardinality(Of(started, GroupOf(j)))
        /\ Cardinality(Of(started, GroupOf(j))) \in Nat
    BY <1>f, OfCount, BeforeCount
  <2>3. GroupOf(j) \in Groups /\ ranBy[GroupOf(j)] \in Nat
    BY <1>g
  <2>4. ~(/\ ran + Cardinality(Before(started, j)) < Concurrency
          /\ ranBy[GroupOf(j)] + Cardinality(Before(Of(started, GroupOf(j)), j))
               < PerGroupConcurrency)
    BY DEF Scan
  <2>5. ran + Cardinality(Before(started, j)) < Concurrency
    BY <1>2, <1>n, <2>1
  <2>6. b[GroupOf(j)] >= PerGroupConcurrency
    BY <2>2, <2>3, <2>4, <2>5
  <2>7. QED
    BY <1>1, <2>3, <2>6
<1>3. QED
  BY <1>f, <1>1, <1>2

----------------------------------------------------------------------------
(* The inductive invariant. *)

\* The line and the slots are finite and apart, and tickets tell the jobs of the line apart.
Lines ==
  /\ IsFiniteSet(waiting) /\ IsFiniteSet(slots) /\ waiting \cap slots = {}
  /\ \A j \in waiting \cup slots : j.ticket < arrivals
  /\ \A i, j \in waiting : i.ticket = j.ticket => i = j

\* What the queue itself keeps true, whatever the claims of finished jobs do.
Core == Lines /\ CountersExact /\ CapsHold /\ WorkConserving /\ ClaimsMatchJobs

\* A finished claim that must still be honoured is still in the Map.
ClaimsKept ==
  /\ now <= peak
  /\ \A e \in kept : e.done < finished /\ e.key \notin inFlight
  /\ \A k \in Keys : doneUntil[k] > peak /\ k \notin forgotten =>
       \E e \in kept : e.key = k /\ e.expires = doneUntil[k]

ExitInv ==
  IsFiniteSet(dropped) /\ abandoned = Cardinality(dropped) /\ StatusZeroDroppedNothing

IInv == TypeOK /\ Core /\ ClaimsKept /\ ExitInv

\* Two jobs never start in one pump after a job ended: either the slot it gave back is the
\* only free one, or only jobs of its group were blocked.
LEMMA FinishStartsOne ==
  ASSUME TypeOK, Core, NEW j \in slots, NEW started \in SUBSET waiting,
         Scan(waiting, running - 1, [byGroup EXCEPT ![GroupOf(j)] = @ - 1], started)
  PROVE  \A i, k \in started : i = k
<1> USE LimitAssumption
<1> DEFINE ranBy == [byGroup EXCEPT ![GroupOf(j)] = @ - 1]
<1> SUFFICES ASSUME NEW i \in started, NEW k \in started, i.ticket < k.ticket
             PROVE  FALSE
  <2>1. \A i \in started : i.ticket \in Nat
    BY DEF TypeOK, Job
  <2>2. \A i, k \in started : i.ticket = k.ticket => i = k
    BY DEF Core, Lines
  <2>3. QED
    BY <2>1, <2>2
<1>1. IsFiniteSet(started)
  BY FS_Subset DEF Core, Lines
<1>2. Cardinality(Before(started, k)) \in Nat /\ Cardinality(Before(started, k)) >= 1
  BY <1>1, BeforeCount, BeforeSome
<1>3. GroupOf(i) \in Groups /\ GroupOf(k) \in Groups /\ GroupOf(j) \in Groups
  BY DEF TypeOK, Job, GroupOf, Groups
<1>4. running \in Nat /\ \A g \in Groups : byGroup[g] \in Nat
  BY DEF TypeOK
<1>5. running - 1 + Cardinality(Before(started, k)) < Concurrency
  BY DEF Scan
<1>6. running < Concurrency
  BY <1>2, <1>4, <1>5
<1>7. \A m \in started : byGroup[GroupOf(m)] = PerGroupConcurrency
  BY <1>6 DEF Core, WorkConserving
<1>8. ASSUME NEW m \in started
      PROVE  GroupOf(m) = GroupOf(j)
  <2>1. Cardinality(Before(Of(started, GroupOf(m)), m)) \in Nat
    BY <1>1, OfCount, BeforeCount
  <2>2. ranBy[GroupOf(m)] + Cardinality(Before(Of(started, GroupOf(m)), m)) < PerGroupConcurrency
    BY DEF Scan
  <2>3. GroupOf(m) \in Groups
    BY DEF TypeOK, Job, GroupOf, Groups
  <2>4. ranBy[GroupOf(m)] # byGroup[GroupOf(m)]
    BY <1>4, <1>7, <2>1, <2>2, <2>3
  <2>5. QED
    BY <2>3, <2>4 DEF TypeOK
<1>9. ranBy[GroupOf(k)] = PerGroupConcurrency - 1
  BY <1>3, <1>7, <1>8 DEF TypeOK
<1>10. IsFiniteSet(Of(started, GroupOf(k))) /\ i \in Of(started, GroupOf(k))
  BY <1>1, <1>8, OfCount DEF Of
<1>11. /\ Cardinality(Before(Of(started, GroupOf(k)), k)) \in Nat
       /\ Cardinality(Before(Of(started, GroupOf(k)), k)) >= 1
  BY <1>10, BeforeCount, BeforeSome
<1>12. ranBy[GroupOf(k)] + Cardinality(Before(Of(started, GroupOf(k)), k)) < PerGroupConcurrency
  BY DEF Scan
<1>13. QED
  BY <1>9, <1>11, <1>12

\* A pump started by a delivery starts nothing but the job just delivered, and starts it if
\* it can start at once.
LEMMA AcceptStartsNew ==
  ASSUME TypeOK, Core, NEW k \in Keys,
         NEW new, new = [key |-> k, ticket |-> arrivals],
         NEW started \in SUBSET (waiting \cup {new}),
         Scan(waiting \cup {new}, running, byGroup, started)
  PROVE  started \subseteq {new} /\ (CanStartNow(Group[k]) => new \in started)
<1> USE LimitAssumption
<1>1. IsFiniteSet(waiting \cup {new})
  BY FS_AddElement DEF Core, Lines
<1>2. IsFiniteSet(started)
  BY <1>1, FS_Subset
<1>3. running \in Nat /\ \A g \in Groups : byGroup[g] \in Nat
  BY DEF TypeOK
<1>4. ASSUME NEW i \in waiting, i \in started
      PROVE  FALSE
  <2>1. GroupOf(i) \in Groups
    BY DEF TypeOK, Job, GroupOf, Groups
  <2>2. Cardinality(Before(started, i)) \in Nat
    BY <1>2, BeforeCount
  <2>3. Cardinality(Before(Of(started, GroupOf(i)), i)) \in Nat
    BY <1>2, OfCount, BeforeCount
  <2>4. /\ running + Cardinality(Before(started, i)) < Concurrency
        /\ byGroup[GroupOf(i)] + Cardinality(Before(Of(started, GroupOf(i)), i))
             < PerGroupConcurrency
    BY <1>4 DEF Scan
  <2>5. running < Concurrency
    BY <1>3, <2>2, <2>4
  <2>6. byGroup[GroupOf(i)] = PerGroupConcurrency
    BY <2>5 DEF Core, WorkConserving
  <2>7. QED
    BY <2>3, <2>4, <2>6
<1>5. started \subseteq {new}
  BY <1>4
<1>6. ASSUME CanStartNow(Group[k])
      PROVE  new \in started
  <2>1. arrivals \in Nat /\ new.ticket = arrivals /\ GroupOf(new) = Group[k] /\ Group[k] \in Groups
    BY DEF TypeOK, GroupOf, Groups
  <2>2. Before(started, new) = {} /\ Before(Of(started, Group[k]), new) = {}
    BY <1>5, <2>1 DEF Before, Of
  <2>3. Cardinality(Before(started, new)) = 0
        /\ Cardinality(Before(Of(started, Group[k]), new)) = 0
    BY <2>2, FS_EmptySet
  <2>4. running + Cardinality(Before(started, new)) < Concurrency
        /\ byGroup[GroupOf(new)] + Cardinality(Before(Of(started, GroupOf(new)), new))
             < PerGroupConcurrency
    BY <1>3, <1>6, <2>1, <2>3 DEF CanStartNow
  <2>5. QED
    BY <2>4 DEF Scan
<1>7. QED
  BY <1>5, <1>6

\* Fewer jobs of a set are no more of any group.
LEMMA FewerOf ==
  ASSUME NEW S, IsFiniteSet(S), NEW T \in SUBSET S, NEW g
  PROVE  Cardinality(Of(T, g)) <= Cardinality(Of(S, g)) /\ Cardinality(Of(T, g)) \in Nat
<1>1. IsFiniteSet(Of(S, g)) /\ IsFiniteSet(T)
  BY OfCount, FS_Subset
<1>2. Of(T, g) \in SUBSET Of(S, g)
  BY DEF Of
<1>3. QED
  BY <1>1, <1>2, OfCount, FS_Subset

\* The counts a job leaves when its slot is given up are the counts of the others.
LEMMA SlotGivenUp ==
  ASSUME TypeOK, Core, NEW j \in slots,
         NEW ranBy, ranBy = [byGroup EXCEPT ![GroupOf(j)] = @ - 1]
  PROVE  /\ IsFiniteSet(slots \ {j})
         /\ running - 1 = Cardinality(slots \ {j}) /\ running - 1 <= Concurrency
         /\ ranBy \in [Groups -> Nat]
         /\ \A g \in Groups : ranBy[g] = Cardinality(Of(slots \ {j}, g))
                              /\ ranBy[g] <= PerGroupConcurrency
<1> USE LimitAssumption
<1>1. IsFiniteSet(slots) /\ running \in Nat /\ running = Cardinality(slots)
      /\ running <= Concurrency
  BY DEF TypeOK, Core, Lines, CountersExact, CapsHold
<1>2. IsFiniteSet(slots \ {j}) /\ Cardinality(slots \ {j}) = Cardinality(slots) - 1
  BY <1>1, FS_RemoveElement
<1>3. GroupOf(j) \in Groups /\ byGroup \in [Groups -> Nat]
  BY DEF TypeOK, Job, GroupOf, Groups
<1>4. ASSUME NEW g \in Groups
      PROVE  ranBy[g] = Cardinality(Of(slots \ {j}, g)) /\ ranBy[g] \in Nat
             /\ ranBy[g] <= PerGroupConcurrency
  <2>1. IsFiniteSet(Of(slots, g)) /\ byGroup[g] = Cardinality(Of(slots, g))
        /\ byGroup[g] <= PerGroupConcurrency /\ byGroup[g] \in Nat
    BY <1>1, <1>3, OfCount DEF Core, CountersExact, CapsHold
  <2>2. CASE GroupOf(j) = g
    <3>1. Of(slots \ {j}, g) = Of(slots, g) \ {j} /\ j \in Of(slots, g)
      BY <2>2 DEF Of
    <3>2. IsFiniteSet(Of(slots, g) \ {j})
          /\ Cardinality(Of(slots, g) \ {j}) = Cardinality(Of(slots, g)) - 1
      BY <2>1, <3>1, FS_RemoveElement
    <3>3. ranBy[g] = byGroup[g] - 1
      BY <1>3, <2>2
    <3>4. Cardinality(Of(slots, g) \ {j}) \in Nat
      BY <3>2, FS_CardinalityType
    <3>5. QED
      BY <2>1, <3>1, <3>2, <3>3, <3>4
  <2>3. CASE GroupOf(j) # g
    <3>1. Of(slots \ {j}, g) = Of(slots, g)
      BY <2>3 DEF Of
    <3>2. ranBy[g] = byGroup[g]
      BY <1>3, <2>3
    <3>3. QED
      BY <2>1, <3>1, <3>2
  <2>4. QED
    BY <2>2, <2>3
<1>5. ranBy \in [Groups -> Nat]
  <2>1. ranBy = [g \in Groups |-> ranBy[g]]
    BY <1>3
  <2>2. QED
    BY <1>4, <2>1
<1>6. QED
  BY <1>1, <1>2, <1>4, <1>5

\* A job that ends, in time or at its deadline, leaves the queue as it should be.
LEMMA FinishKeepsCore ==
  ASSUME TypeOK, Core, NEW j \in slots, NEW outcome, Finish(j, outcome), arrivals' = arrivals
  PROVE  /\ Core'
         /\ waiting' \subseteq waiting /\ slots' \subseteq waiting \cup slots
         /\ j \notin waiting' \cup slots'
         /\ running' \in Nat /\ byGroup' \in [Groups -> Nat]
<1> USE LimitAssumption
<1> DEFINE ranBy == [byGroup EXCEPT ![GroupOf(j)] = @ - 1]
<1>1. PICK started \in SUBSET waiting :
        /\ Scan(waiting, running - 1, ranBy, started)
        /\ waiting' = waiting \ started
        /\ slots' = (slots \ {j}) \cup started
        /\ running' = running - 1 + Cardinality(started)
        /\ byGroup' = [g \in Groups |-> ranBy[g] + Cardinality(Of(started, g))]
  BY DEF Finish, Pump
<1>2. \A i, k \in started : i = k
  BY <1>1, FinishStartsOne
<1>3. /\ IsFiniteSet(slots \ {j})
      /\ running - 1 = Cardinality(slots \ {j}) /\ running - 1 <= Concurrency
      /\ ranBy \in [Groups -> Nat]
      /\ \A g \in Groups : ranBy[g] = Cardinality(Of(slots \ {j}, g))
                           /\ ranBy[g] <= PerGroupConcurrency
  BY SlotGivenUp
<1>4. /\ waiting \in SUBSET Job /\ slots \ {j} \in SUBSET Job /\ IsFiniteSet(waiting)
      /\ waiting \cap (slots \ {j}) = {}
  BY DEF TypeOK, Core, Lines
<1>5. /\ IsFiniteSet(slots') /\ IsFiniteSet(waiting')
      /\ running' \in Nat /\ byGroup' \in [Groups -> Nat]
      /\ running' = Cardinality(slots')
      /\ \A g \in Groups : byGroup'[g] = Cardinality(Of(slots', g))
      /\ running' <= Concurrency
      /\ \A g \in Groups : byGroup'[g] <= PerGroupConcurrency
      /\ running' < Concurrency =>
           \A i \in waiting' : byGroup'[GroupOf(i)] = PerGroupConcurrency
  <2>1. Ready(waiting, running - 1, ranBy, slots \ {j})
    BY <1>3, <1>4 DEF Ready
  <2>2. StartsOne(waiting, running - 1, ranBy, started, running', byGroup')
    BY <1>1, <1>2 DEF StartsOne
  <2>3. Leaves(waiting \ started, (slots \ {j}) \cup started, running', byGroup')
    <3> HIDE DEF ranBy
    <3> QED
      BY <2>1, <2>2, PumpOutcome, Zenon
  <2>4. QED
    BY <1>1, <2>3 DEF Leaves
<1>6. Lines'
  BY <1>1, <1>5 DEF Core, Lines
<1>7. CountersExact'
  BY <1>5 DEF CountersExact, Of, GroupOf
<1>8. CapsHold'
  <2>1. /\ Cardinality(waiting') <= Cardinality(waiting) /\ Cardinality(waiting) \in Nat
        /\ Cardinality(waiting') \in Nat
    BY <1>1, <1>4, <1>5, FS_Subset, FS_CardinalityType
  <2>2. Cardinality(waiting') <= Capacity
    BY <2>1 DEF Core, CapsHold
  <2>3. ASSUME NEW g \in Groups
        PROVE  Cardinality(Of(waiting', g)) <= PerGroupCapacity
    <3>1. Cardinality(Of(waiting', g)) <= Cardinality(Of(waiting, g))
          /\ Cardinality(Of(waiting', g)) \in Nat /\ Cardinality(Of(waiting, g)) \in Nat
      BY <1>1, <1>4, FewerOf, OfCount
    <3>2. QED
      BY <3>1 DEF Core, CapsHold
  <2>4. QED
    BY <1>5, <2>2, <2>3 DEF CapsHold, Of, GroupOf
<1>9. WorkConserving'
  BY <1>5 DEF WorkConserving, GroupOf
<1>10. ClaimsMatchJobs'
  <2>1. waiting' \cup slots' = (waiting \cup slots) \ {j}
    BY <1>1 DEF Core, Lines
  <2>2. inFlight' = inFlight \ {j.key}
    BY DEF Finish
  <2>3. inFlight = KeysOf(waiting \cup slots)
        /\ \A i, k \in waiting \cup slots : i.key = k.key => i = k
    BY DEF Core, ClaimsMatchJobs
  <2>4. inFlight' = KeysOf((waiting \cup slots) \ {j})
    BY <2>2, <2>3 DEF KeysOf
  <2>5. QED
    BY <2>1, <2>3, <2>4 DEF ClaimsMatchJobs, KeysOf
<1>11. j \notin waiting' \cup slots'
  BY <1>1 DEF Core, Lines
<1>12. QED
  BY <1>1, <1>5, <1>6, <1>7, <1>8, <1>9, <1>10, <1>11 DEF Core

\* A delivery that is accepted leaves the queue as it should be.
LEMMA AcceptKeepsCore ==
  ASSUME TypeOK, Core, NEW k \in Keys, Accept(k)
  PROVE  /\ Core'
         /\ waiting' \subseteq Job /\ slots' \subseteq Job
         /\ running' \in Nat /\ byGroup' \in [Groups -> Nat]
         /\ waiting \subseteq waiting' /\ slots \subseteq slots'
         /\ waiting' \cup slots' = waiting \cup slots \cup {[key |-> k, ticket |-> arrivals]}
<1> USE LimitAssumption
<1> DEFINE new == [key |-> k, ticket |-> arrivals]
<1>1. PICK started \in SUBSET (waiting \cup {new}) :
        /\ Scan(waiting \cup {new}, running, byGroup, started)
        /\ waiting' = (waiting \cup {new}) \ started
        /\ slots' = slots \cup started
        /\ running' = running + Cardinality(started)
        /\ byGroup' = [g \in Groups |-> byGroup[g] + Cardinality(Of(started, g))]
  BY DEF Accept, Pump
<1>2. started \subseteq {new} /\ (CanStartNow(Group[k]) => new \in started)
  BY <1>1, AcceptStartsNew
<1>3. /\ new \in Job /\ new.key = k /\ new.ticket = arrivals /\ arrivals \in Nat
      /\ new \notin waiting /\ new \notin slots
      /\ \A i \in waiting : i.ticket # arrivals /\ i.ticket \in Nat
  BY DEF TypeOK, Core, Lines, Job
<1>4. IsFiniteSet(waiting \cup {new}) /\ IsFiniteSet(waiting) /\ IsFiniteSet(slots)
  BY FS_AddElement DEF Core, Lines
<1>5. Ready(waiting \cup {new}, running, byGroup, slots)
  BY <1>3, <1>4 DEF Ready, TypeOK, Core, Lines, CountersExact, CapsHold
<1>6. StartsOne(waiting \cup {new}, running, byGroup, started, running', byGroup')
  BY <1>1, <1>2 DEF StartsOne
<1>7. Leaves((waiting \cup {new}) \ started, slots \cup started, running', byGroup')
  <2> HIDE DEF new
  <2> QED
    BY <1>5, <1>6, PumpOutcome, Zenon
<1>8. Leaves(waiting', slots', running', byGroup')
  BY <1>1, <1>7
<1>9. arrivals' = arrivals + 1 /\ inFlight' = inFlight \cup {k} /\ k \notin inFlight
      /\ (CanStartNow(Group[k]) \/ HasRoom(Group[k]))
  BY DEF Accept, Claimable
<1>10. Lines'
  <2>1. IsFiniteSet(waiting') /\ IsFiniteSet(slots') /\ waiting' \cap slots' = {}
    BY <1>1, <1>2, <1>3, <1>8 DEF Leaves, Core, Lines
  <2>2. \A i \in waiting \cup slots : i.ticket < arrivals /\ i.ticket \in Nat
    BY DEF TypeOK, Core, Lines, Job
  <2>3. \A i \in waiting' \cup slots' : i.ticket < arrivals'
    <3>1. \A i \in waiting' \cup slots' : i \in waiting \cup slots \/ i = new
      BY <1>1
    <3>2. QED
      BY <1>3, <1>9, <2>2, <3>1
  <2>4. \A i, m \in waiting' : i.ticket = m.ticket => i = m
    <3>1. \A i \in waiting' : i \in waiting \/ i = new
      BY <1>1
    <3>2. QED
      BY <1>3, <3>1 DEF Core, Lines
  <2>5. QED
    BY <2>1, <2>3, <2>4 DEF Lines
<1>11. CountersExact'
  BY <1>8 DEF CountersExact, Leaves, Of, GroupOf
<1>12. WorkConserving'
  BY <1>8 DEF WorkConserving, Leaves, GroupOf
<1>13. CapsHold'
  <2>1. CASE new \in started
    <3>1. waiting' = waiting
      BY <1>1, <1>2, <1>3, <2>1
    <3>2. QED
      BY <1>8, <3>1 DEF Core, CapsHold, Leaves, Of, GroupOf
  <2>2. CASE new \notin started
    <3>1. waiting' = waiting \cup {new} /\ HasRoom(Group[k])
      BY <1>1, <1>2, <1>9, <2>2
    <3>2. Cardinality(waiting) \in Nat /\ Cardinality(waiting \cup {new}) = Cardinality(waiting) + 1
      BY <1>3, <1>4, FS_AddElement, FS_CardinalityType
    <3>3. Cardinality(waiting') <= Capacity
      BY <3>1, <3>2 DEF HasRoom
    <3>4. ASSUME NEW g \in Groups
          PROVE  Cardinality(Of(waiting', g)) <= PerGroupCapacity
      <4>1. IsFiniteSet(Of(waiting, g)) /\ Cardinality(Of(waiting, g)) \in Nat
        BY <1>4, OfCount
      <4>2. CASE g = Group[k]
        <5>1. Of(waiting', g) = Of(waiting, g) \cup {new}
          BY <1>3, <3>1, <4>2 DEF Of, GroupOf
        <5>2. Cardinality(Of(waiting', g)) <= Cardinality(Of(waiting, g)) + 1
              /\ Cardinality(Of(waiting', g)) \in Nat
          <6>1. new \notin Of(waiting, g)
            BY <1>3 DEF Of
          <6>2. Cardinality(Of(waiting, g) \cup {new}) = Cardinality(Of(waiting, g)) + 1
            BY <4>1, <6>1, FS_AddElement
          <6>3. QED
            BY <4>1, <5>1, <6>2
        <5>3. QED
          BY <3>1, <4>1, <4>2, <5>2 DEF HasRoom
      <4>3. CASE g # Group[k]
        <5>1. Of(waiting', g) = Of(waiting, g)
          BY <1>3, <3>1, <4>3 DEF Of, GroupOf
        <5>2. QED
          BY <5>1 DEF Core, CapsHold
      <4>4. QED
        BY <4>2, <4>3
    <3>5. QED
      BY <1>8, <3>3, <3>4 DEF CapsHold, Leaves, Of, GroupOf
  <2>3. QED
    BY <2>1, <2>2
<1>14. waiting' \cup slots' = waiting \cup slots \cup {new}
  BY <1>1
<1>15. ClaimsMatchJobs'
  <2>1. inFlight' = KeysOf(waiting' \cup slots')
    BY <1>3, <1>9, <1>14 DEF Core, ClaimsMatchJobs, KeysOf
  <2>2. \A i \in waiting \cup slots : i.key # k
    BY <1>9 DEF Core, ClaimsMatchJobs, KeysOf
  <2>3. \A i, m \in waiting' \cup slots' : i.key = m.key => i = m
    BY <1>3, <1>14, <2>2 DEF Core, ClaimsMatchJobs
  <2>4. QED
    BY <2>1, <2>3 DEF ClaimsMatchJobs, KeysOf
<1>16. QED
  BY <1>1, <1>2, <1>3, <1>8, <1>10, <1>11, <1>12, <1>13, <1>14, <1>15
     DEF Core, Leaves, TypeOK

----------------------------------------------------------------------------
(* The invariant holds. *)

\* The queue and its claims agree in every state.
LEMMA CoreStep ==
  ASSUME TypeOK, Core, [Next]_vars
  PROVE  Core'
<1> USE LimitAssumption
<1>1. CASE UNCHANGED <<waiting, slots, running, byGroup, arrivals, inFlight>>
  BY <1>1 DEF Core, Lines, CountersExact, CapsHold, WorkConserving, ClaimsMatchJobs,
              Of, GroupOf, KeysOf
<1>2. ASSUME NEW k \in Keys, Accept(k)
      PROVE  Core'
  BY <1>2, AcceptKeepsCore
<1>3. ASSUME NEW j \in slots, NEW outcome, Finish(j, outcome), arrivals' = arrivals
      PROVE  Core'
  BY <1>3, FinishKeepsCore
<1>4. CASE Signal
  <2>1. /\ waiting' = {} /\ slots' = slots /\ running' = running /\ byGroup' = byGroup
        /\ arrivals' = arrivals /\ inFlight' = inFlight \ KeysOf(waiting)
    BY <1>4 DEF Signal
  <2>2. Lines'
    BY <2>1, FS_EmptySet DEF Core, Lines
  <2>3. Cardinality(waiting') = 0 /\ \A g \in Groups : Cardinality(Of(waiting', g)) = 0
    <3>1. \A g \in Groups : Of(waiting', g) = {}
      BY <2>1 DEF Of
    <3>2. Cardinality({}) = 0
      BY FS_EmptySet
    <3>3. QED
      BY <2>1, <3>1, <3>2
  <2>4. CapsHold'
    <3>1. Cardinality(waiting') <= Capacity /\ Cardinality(slots') <= Concurrency
      BY <2>1, <2>3 DEF Core, CapsHold
    <3>2. \A g \in Groups : /\ Cardinality(Of(waiting', g)) <= PerGroupCapacity
                           /\ Cardinality(Of(slots', g)) <= PerGroupConcurrency
      BY <2>1, <2>3 DEF Core, CapsHold
    <3>3. QED
      BY <3>1, <3>2 DEF CapsHold, Of, GroupOf
  <2>5. ClaimsMatchJobs'
    BY <2>1 DEF Core, Lines, ClaimsMatchJobs, KeysOf
  <2>6. CountersExact' /\ WorkConserving'
    BY <2>1 DEF Core, CountersExact, WorkConserving, Of, GroupOf
  <2>7. QED
    BY <2>2, <2>4, <2>5, <2>6 DEF Core
<1>5. CASE Restart
  <2>1. /\ waiting' = {} /\ slots' = {} /\ running' = 0 /\ byGroup' = [g \in Groups |-> 0]
        /\ arrivals' = 0 /\ inFlight' = {}
    BY <1>5 DEF Restart
  <2>2. Lines'
    BY <2>1, FS_EmptySet DEF Lines
  <2>3. /\ Cardinality(waiting') = 0 /\ Cardinality(slots') = 0
        /\ \A g \in Groups : Cardinality(Of(waiting', g)) = 0 /\ Cardinality(Of(slots', g)) = 0
    <3>1. \A g : Of({}, g) = {}
      BY DEF Of
    <3>2. QED
      BY <2>1, <3>1, FS_EmptySet
  <2>4. CapsHold'
    <3>1. Cardinality(waiting') <= Capacity /\ Cardinality(slots') <= Concurrency
      BY <2>3
    <3>2. \A g \in Groups : /\ Cardinality(Of(waiting', g)) <= PerGroupCapacity
                           /\ Cardinality(Of(slots', g)) <= PerGroupConcurrency
      BY <2>3
    <3>3. QED
      BY <3>1, <3>2 DEF CapsHold, Of, GroupOf
  <2>5. ClaimsMatchJobs' /\ WorkConserving'
    BY <2>1 DEF ClaimsMatchJobs, WorkConserving, KeysOf
  <2>6. CountersExact'
    BY <2>1, <2>3 DEF CountersExact, Of, GroupOf
  <2>7. QED
    BY <2>2, <2>4, <2>5, <2>6 DEF Core
<1>6. CASE UNCHANGED vars
  BY <1>1, <1>6 DEF vars, queue, claims
<1>7. ASSUME NEW t \in 0..MaxNow, Clock(t)
      PROVE  Core'
  BY <1>1, <1>7 DEF Clock, queue, claims
<1>8. ASSUME NEW k \in Keys, Duplicate(k) \/ Refuse(k)
      PROVE  Core'
  BY <1>1, <1>8 DEF Duplicate, Refuse, queue
<1>9. ASSUME NEW j \in slots, NEW outcome, Settle(j, outcome)
      PROVE  Core'
  BY <1>3, <1>9 DEF Settle
<1>10. ASSUME NEW j \in slots, Timeout(j)
      PROVE  Core'
  BY <1>3, <1>10 DEF Timeout
<1>11. ASSUME NEW j \in hung, LateSettle(j)
      PROVE  Core'
  BY <1>1, <1>11 DEF LateSettle, claims
<1>12. CASE Drained \/ SecondSignal
  BY <1>1, <1>12 DEF Drained, SecondSignal, queue, claims
<1>13. QED
  BY <1>2, <1>4, <1>5, <1>6, <1>7, <1>8, <1>9, <1>10, <1>11, <1>12 DEF Next

\* Every step keeps the types: no counter is taken below zero, no job but an accepted one appears.
LEMMA TypeStep ==
  ASSUME TypeOK, Core, [Next]_vars
  PROVE  TypeOK'
<1> USE LimitAssumption, BoundAssumption
<1>1. ASSUME NEW k \in Keys, Keep(k)
      PROVE  /\ kept' \subseteq Kept /\ finished' \in Nat
             /\ doneUntil' \in [Keys -> Nat] /\ forgotten' \subseteq Keys
  <2>1. now + KeepMs \in Nat /\ finished \in Nat
    BY DEF TypeOK
  <2>2. [key |-> k, expires |-> now + KeepMs, done |-> finished] \in Kept
    BY <2>1 DEF Kept
  <2>3. KeysOf({e \in kept : e.key # k}
                 \cup {[key |-> k, expires |-> now + KeepMs, done |-> finished]}) \subseteq Keys
    BY <2>2 DEF KeysOf, TypeOK, Kept
  <2>4. kept' \subseteq Kept
    BY <1>1, <2>2 DEF Keep, DropExpired, DropOverflow, TypeOK
  <2>5. forgotten' \subseteq Keys
    BY <1>1, <2>3 DEF Keep, DropOverflow, KeysOf, TypeOK
  <2>6. QED
    BY <1>1, <2>1, <2>4, <2>5 DEF Keep, TypeOK
<1>2. ASSUME NEW j \in slots, NEW outcome \in {"done", "retry"}, Finish(j, outcome),
             arrivals' = arrivals
      PROVE  /\ waiting' \subseteq Job /\ slots' \subseteq Job
             /\ running' \in Nat /\ byGroup' \in [Groups -> Nat] /\ inFlight' \subseteq Keys
             /\ kept' \subseteq Kept /\ finished' \in Nat
             /\ doneUntil' \in [Keys -> Nat] /\ forgotten' \subseteq Keys
  <2>1. j \in Job /\ j.key \in Keys
    BY DEF TypeOK, Job
  <2>2. waiting' \subseteq Job /\ slots' \subseteq Job
        /\ running' \in Nat /\ byGroup' \in [Groups -> Nat]
    BY <1>2, FinishKeepsCore DEF TypeOK
  <2>3. inFlight' \subseteq Keys
    BY <1>2 DEF Finish, TypeOK
  <2>4. kept' \subseteq Kept /\ finished' \in Nat
        /\ doneUntil' \in [Keys -> Nat] /\ forgotten' \subseteq Keys
    <3>1. CASE Keep(j.key)
      BY <1>1, <2>1, <3>1
    <3>2. CASE UNCHANGED <<kept, finished, doneUntil, forgotten>>
      BY <3>2 DEF TypeOK
    <3>3. QED
      BY <1>2, <3>1, <3>2 DEF Finish
  <2>5. QED
    BY <2>2, <2>3, <2>4
<1>3. CASE UNCHANGED vars
  BY <1>3 DEF vars, queue, claims, clock, exit, TypeOK
<1>4. ASSUME NEW t \in 0..MaxNow, Clock(t)
      PROVE  TypeOK'
  BY <1>4 DEF Clock, queue, claims, exit, TypeOK
<1>5. ASSUME NEW k \in Keys, Duplicate(k) \/ Refuse(k)
      PROVE  TypeOK'
  BY <1>5 DEF Duplicate, Refuse, ClaimedKept, DropExpired, queue, clock, exit, TypeOK
<1>6. ASSUME NEW k \in Keys, Accept(k)
      PROVE  TypeOK'
  <2>1. waiting' \subseteq Job /\ slots' \subseteq Job
        /\ running' \in Nat /\ byGroup' \in [Groups -> Nat]
    BY <1>6, AcceptKeepsCore
  <2>2. QED
    BY <1>6, <2>1 DEF Accept, ClaimedKept, DropExpired, clock, exit, TypeOK
<1>7. ASSUME NEW j \in slots, NEW outcome \in {"done", "retry"}, Settle(j, outcome)
      PROVE  TypeOK'
  <2>1. Finish(j, outcome) /\ UNCHANGED <<hung, arrivals, clock, exit>>
    BY <1>7 DEF Settle
  <2>2. QED
    BY <1>2, <2>1 DEF clock, exit, TypeOK
<1>8. ASSUME NEW j \in slots, Timeout(j)
      PROVE  TypeOK'
  <2>1. Finish(j, "retry") /\ hung' = hung \cup {j} /\ UNCHANGED <<arrivals, clock, exit>>
    BY <1>8 DEF Timeout
  <2>2. QED
    BY <1>2, <2>1 DEF clock, exit, TypeOK
<1>9. ASSUME NEW j \in hung, LateSettle(j)
      PROVE  TypeOK'
  BY <1>9 DEF LateSettle, claims, clock, exit, TypeOK
<1>10. CASE Signal
  <2>1. Cardinality(waiting) \in Nat
    BY FS_CardinalityType DEF Core, Lines
  <2>2. QED
    BY <1>10, <2>1 DEF Signal, clock, TypeOK
<1>11. CASE Drained \/ SecondSignal
  BY <1>11 DEF Drained, SecondSignal, queue, claims, clock, TypeOK
<1>12. CASE Restart
  BY <1>12 DEF Restart, clock, TypeOK
<1>13. QED
  BY <1>3, <1>4, <1>5, <1>6, <1>7, <1>8, <1>9, <1>10, <1>11, <1>12 DEF Next

\* A finished claim leaves the Map only when it has expired, when its key is claimed again
\* (which an unexpired claim forbids), or when newer ones push it out.
LEMMA ClaimsStep ==
  ASSUME TypeOK, Core, ClaimsKept, [Next]_vars
  PROVE  ClaimsKept'
<1> USE LimitAssumption, BoundAssumption
<1>1. /\ now \in Nat /\ peak \in Nat /\ now <= peak /\ finished \in Nat
      /\ kept \subseteq Kept /\ doneUntil \in [Keys -> Nat]
  BY DEF TypeOK, ClaimsKept
<1>2. ASSUME NEW e \in kept, e.expires > now
      PROVE  e \in DropExpired(kept)
  BY <1>1, <1>2 DEF DropExpired, Kept
<1>3. CASE UNCHANGED <<claims, clock>>
  BY <1>3 DEF ClaimsKept, claims, clock
<1>4. ASSUME NEW t \in 0..MaxNow, Clock(t)
      PROVE  ClaimsKept'
  <2>1. now' = t /\ peak' \in Nat /\ peak' >= peak /\ now' <= peak'
    BY <1>1, <1>4 DEF Clock
  <2>2. UNCHANGED <<kept, finished, inFlight, doneUntil, forgotten>>
    BY <1>4 DEF Clock, claims
  <2>3. \A k \in Keys : doneUntil[k] > peak' => doneUntil[k] > peak
    BY <1>1, <2>1
  <2>4. QED
    BY <2>1, <2>2, <2>3 DEF ClaimsKept
<1>5. ASSUME NEW k \in Keys, Claimable(k), kept' = ClaimedKept(k),
             inFlight' \subseteq inFlight \cup {k},
             UNCHANGED <<finished, doneUntil, forgotten, clock>>
      PROVE  ClaimsKept'
  <2>1. \A e \in kept' : e \in kept /\ e.key # k
    BY <1>5 DEF ClaimedKept, DropExpired
  <2>2. ASSUME NEW m \in Keys, doneUntil[m] > peak, m \notin forgotten
        PROVE  \E e \in kept' : e.key = m /\ e.expires = doneUntil[m]
    <3>1. PICK e \in kept : e.key = m /\ e.expires = doneUntil[m]
      BY <2>2 DEF ClaimsKept
    <3>2. e.expires > now
      BY <1>1, <2>2, <3>1
    <3>3. e \in DropExpired(kept)
      BY <1>2, <3>2
    <3>4. m # k
      BY <1>1, <1>5, <3>1, <3>2, <3>3 DEF Claimable
    <3>5. QED
      BY <1>5, <3>1, <3>3, <3>4 DEF ClaimedKept
  <2>3. QED
    BY <1>5, <2>1, <2>2 DEF ClaimsKept, clock
<1>6. ASSUME NEW k \in Keys, Duplicate(k)
      PROVE  ClaimsKept'
  <2>1. kept' = DropExpired(kept) /\ UNCHANGED <<inFlight, finished, doneUntil, forgotten, clock>>
    BY <1>6 DEF Duplicate
  <2>2. \A e \in kept' : e \in kept
    BY <2>1 DEF DropExpired
  <2>3. ASSUME NEW m \in Keys, doneUntil[m] > peak, m \notin forgotten
        PROVE  \E e \in kept' : e.key = m /\ e.expires = doneUntil[m]
    <3>1. PICK e \in kept : e.key = m /\ e.expires = doneUntil[m]
      BY <2>3 DEF ClaimsKept
    <3>2. e.expires > now
      BY <1>1, <2>3, <3>1
    <3>3. QED
      BY <1>2, <2>1, <3>1, <3>2
  <2>4. QED
    BY <2>1, <2>2, <2>3 DEF ClaimsKept, clock
<1>7. ASSUME NEW k \in Keys, Keep(k), inFlight' = inFlight \ {k}, UNCHANGED clock
      PROVE  ClaimsKept'
  <2> DEFINE new == [key |-> k, expires |-> now + KeepMs, done |-> finished]
             entries == {e \in kept : e.key # k} \cup {new}
  <2>1. /\ kept' = DropExpired(DropOverflow(entries)) /\ finished' = finished + 1
        /\ forgotten' = (forgotten \cup KeysOf(entries \ DropOverflow(entries))) \ {k}
        /\ doneUntil' = [doneUntil EXCEPT ![k] = now + KeepMs]
    BY <1>7 DEF Keep
  <2>2. kept' \subseteq entries
    BY <2>1 DEF DropExpired, DropOverflow
  <2>3. \A e \in kept' : e.done < finished' /\ e.key \notin inFlight'
    <3>1. ASSUME NEW e \in kept'
          PROVE  e.done < finished' /\ e.key \notin inFlight'
      <4>1. CASE e \in kept /\ e.key # k
        BY <1>1, <1>7, <2>1, <4>1 DEF ClaimsKept, Kept
      <4>2. CASE e = new
        BY <1>1, <1>7, <2>1, <4>2
      <4>3. QED
        BY <2>2, <4>1, <4>2
    <3>2. QED
      BY <3>1
  <2>4. ASSUME NEW e \in DropOverflow(entries), e.expires > now, e.done \in Nat
        PROVE  e \in kept'
    <3>1. e \in DropExpired(DropOverflow(entries))
      <4> HIDE DEF entries
      <4> QED
        BY <2>4 DEF DropExpired
    <3>2. QED
      BY <2>1, <3>1
  <2>5. ASSUME NEW m \in Keys, doneUntil'[m] > peak, m \notin forgotten'
        PROVE  \E e \in kept' : e.key = m /\ e.expires = doneUntil'[m]
    <3>1. CASE m = k
      <4>1. doneUntil'[m] = now + KeepMs /\ new.expires > now /\ new.done \in Nat
        BY <1>1, <2>1, <2>5, <3>1
      <4>2. {d \in entries : d.done > new.done} = {}
        BY <1>1 DEF ClaimsKept, Kept
      <4>3. new \in DropOverflow(entries)
        BY <4>2, FS_EmptySet DEF DropOverflow
      <4>4. QED
        BY <2>4, <3>1, <4>1, <4>3
    <3>2. CASE m # k
      <4>1. doneUntil'[m] = doneUntil[m] /\ m \notin forgotten
        BY <1>1, <2>1, <2>5, <3>2
      <4>2. PICK e \in kept : e.key = m /\ e.expires = doneUntil[m]
        BY <2>5, <4>1 DEF ClaimsKept
      <4>3. e \in entries /\ e.expires > now /\ e.done \in Nat
        BY <1>1, <2>5, <3>2, <4>1, <4>2 DEF Kept
      <4>4. e \in DropOverflow(entries)
        <5> HIDE DEF entries
        <5> QED
          BY <2>1, <2>5, <3>2, <4>2, <4>3 DEF KeysOf
      <4>5. QED
        BY <2>4, <4>1, <4>2, <4>3, <4>4
    <3>3. QED
      BY <3>1, <3>2
  <2>6. QED
    BY <1>1, <1>7, <2>3, <2>5 DEF ClaimsKept, clock
<1>8. ASSUME NEW j \in slots, NEW outcome, Finish(j, outcome), UNCHANGED clock
      PROVE  ClaimsKept'
  <2>1. j.key \in Keys /\ inFlight' = inFlight \ {j.key}
    BY <1>8 DEF TypeOK, Job, Finish
  <2>2. CASE Keep(j.key)
    BY <1>7, <1>8, <2>1, <2>2
  <2>3. CASE UNCHANGED <<kept, finished, doneUntil, forgotten>>
    BY <1>8, <2>1, <2>3 DEF ClaimsKept, clock
  <2>4. QED
    BY <1>8, <2>2, <2>3 DEF Finish
<1>9. CASE UNCHANGED vars
  BY <1>3, <1>9 DEF vars
<1>10. ASSUME NEW k \in Keys, Refuse(k)
      PROVE  ClaimsKept'
  BY <1>5, <1>10 DEF Refuse
<1>11. ASSUME NEW k \in Keys, Accept(k)
      PROVE  ClaimsKept'
  BY <1>5, <1>11 DEF Accept
<1>12. ASSUME NEW j \in slots, NEW outcome, Settle(j, outcome)
      PROVE  ClaimsKept'
  BY <1>8, <1>12 DEF Settle
<1>13. ASSUME NEW j \in slots, Timeout(j)
      PROVE  ClaimsKept'
  BY <1>8, <1>13 DEF Timeout
<1>14. ASSUME NEW j \in hung, LateSettle(j)
      PROVE  ClaimsKept'
  BY <1>3, <1>14 DEF LateSettle
<1>15. CASE Signal
  BY <1>15 DEF Signal, clock, ClaimsKept
<1>16. CASE Drained \/ SecondSignal
  BY <1>3, <1>16 DEF Drained, SecondSignal
<1>17. CASE Restart
  <2>1. /\ kept' = {} /\ inFlight' = {} /\ doneUntil' = [k \in Keys |-> 0]
        /\ now' = now /\ peak' = peak
    BY <1>17 DEF Restart, clock
  <2>2. \A k \in Keys : ~(doneUntil'[k] > peak')
    BY <1>1, <2>1
  <2>3. QED
    BY <1>1, <2>1, <2>2 DEF ClaimsKept
<1>18. QED
  BY <1>4, <1>6, <1>9, <1>10, <1>11, <1>12, <1>13, <1>14, <1>15, <1>16, <1>17 DEF Next

\* Exit status 0 is given only with no job dropped and no slot held, and nothing starts
\* in a process that has exited.
LEMMA ExitStep ==
  ASSUME TypeOK, Core, ExitInv, [Next]_vars
  PROVE  ExitInv'
<1>1. CASE UNCHANGED <<exit, slots>>
  BY <1>1 DEF ExitInv, StatusZeroDroppedNothing, exit
<1>2. CASE proc # "exited" /\ UNCHANGED exit
  BY <1>2 DEF ExitInv, StatusZeroDroppedNothing, exit
<1>3. CASE UNCHANGED vars
  BY <1>1, <1>3 DEF vars, queue
<1>4. ASSUME NEW t \in 0..MaxNow, Clock(t)
      PROVE  ExitInv'
  BY <1>1, <1>4 DEF Clock, queue
<1>5. ASSUME NEW k \in Keys, Duplicate(k) \/ Refuse(k) \/ Accept(k)
      PROVE  ExitInv'
  BY <1>2, <1>5 DEF Duplicate, Refuse, Accept
<1>6. ASSUME NEW j \in slots, NEW outcome, Settle(j, outcome) \/ Timeout(j)
      PROVE  ExitInv'
  BY <1>2, <1>6 DEF Settle, Timeout, Alive
<1>7. ASSUME NEW j \in hung, LateSettle(j)
      PROVE  ExitInv'
  BY <1>1, <1>7 DEF LateSettle
<1>8. CASE Signal
  BY <1>8 DEF Signal, Core, Lines, ExitInv, StatusZeroDroppedNothing
<1>9. CASE Drained
  <2>1. IsFiniteSet(slots) /\ running = Cardinality(slots) /\ running \in Nat
        /\ IsFiniteSet(dropped) /\ abandoned = Cardinality(dropped) /\ abandoned \in Nat
    BY DEF Core, Lines, CountersExact, TypeOK, ExitInv
  <2>2. status' = 0 => abandoned = 0 /\ running = 0
    BY <1>9, <2>1 DEF Drained
  <2>3. status' = 0 => dropped = {} /\ slots = {}
    BY <2>1, <2>2, FS_EmptySet
  <2>4. UNCHANGED <<slots, dropped, abandoned>>
    BY <1>9 DEF Drained, queue
  <2>5. QED
    BY <2>1, <2>3, <2>4 DEF ExitInv, StatusZeroDroppedNothing
<1>10. CASE SecondSignal
  BY <1>10 DEF SecondSignal, ExitInv, StatusZeroDroppedNothing
<1>11. CASE Restart
  BY <1>11, FS_EmptySet DEF Restart, ExitInv, StatusZeroDroppedNothing
<1>12. QED
  BY <1>3, <1>4, <1>5, <1>6, <1>7, <1>8, <1>9, <1>10, <1>11 DEF Next

\* The initial state satisfies the invariant.
LEMMA InitInv ==
  Init => IInv
<1> USE LimitAssumption
<1> SUFFICES ASSUME Init PROVE IInv
  OBVIOUS
<1>1. TypeOK
  BY DEF Init, TypeOK
<1>2. \A g : Of(waiting, g) = {} /\ Of(slots, g) = {}
  BY DEF Init, Of
<1>3. /\ Cardinality(waiting) = 0 /\ Cardinality(slots) = 0 /\ Cardinality({}) = 0
      /\ IsFiniteSet(waiting) /\ IsFiniteSet(slots) /\ IsFiniteSet(dropped)
  BY FS_EmptySet DEF Init
<1>4. \A g : Cardinality(Of(waiting, g)) = 0 /\ Cardinality(Of(slots, g)) = 0
  BY <1>2, <1>3
<1>5. Lines /\ WorkConserving
  BY <1>3 DEF Init, Lines, WorkConserving
<1>6. CountersExact
  BY <1>3, <1>4 DEF Init, CountersExact
<1>7. CapsHold
  <2>1. Cardinality(waiting) <= Capacity /\ Cardinality(slots) <= Concurrency
    BY <1>3
  <2>2. \A g \in Groups : /\ Cardinality(Of(waiting, g)) <= PerGroupCapacity
                         /\ Cardinality(Of(slots, g)) <= PerGroupConcurrency
    BY <1>4
  <2>3. QED
    BY <2>1, <2>2 DEF CapsHold
<1>8. ClaimsMatchJobs
  BY DEF Init, ClaimsMatchJobs, KeysOf
<1>9. ClaimsKept
  BY DEF Init, ClaimsKept
<1>10. ExitInv
  BY <1>3 DEF Init, ExitInv, StatusZeroDroppedNothing
<1>11. QED
  BY <1>1, <1>5, <1>6, <1>7, <1>8, <1>9, <1>10 DEF IInv, Core

\* IInv is inductive.
LEMMA IInvInvariant ==
  Spec => []IInv
<1>1. IInv /\ [Next]_vars => IInv'
  BY TypeStep, CoreStep, ClaimsStep, ExitStep DEF IInv
<1>2. QED
  BY InitInv, <1>1, PTL DEF Spec

----------------------------------------------------------------------------
(* Theorems. *)

\* Every variable keeps its type, the counts of running jobs above all: a counter that a job
\* gave back twice would leave Nat.
THEOREM TypeCorrect ==
  Spec => []TypeOK
<1>1. IInv => TypeOK
  BY DEF IInv
<1>2. QED
  BY IInvInvariant, <1>1, PTL

\* The counters that admit a job count the jobs that hold a slot, through deadlines, late
\* ends and shutdown.
THEOREM CountersCount ==
  Spec => []CountersExact
<1>1. IInv => CountersExact
  BY DEF IInv, Core
<1>2. QED
  BY IInvInvariant, <1>1, PTL

\* No limit is ever passed, whatever is delivered.
THEOREM LimitsHold ==
  Spec => []CapsHold
<1>1. IInv => CapsHold
  BY DEF IInv, Core
<1>2. QED
  BY IInvInvariant, <1>1, PTL

\* A free slot is never left unused by a job that may take it.
THEOREM NobodyWaitsForNothing ==
  Spec => []WorkConserving
<1>1. IInv => WorkConserving
  BY DEF IInv, Core
<1>2. QED
  BY IInvInvariant, <1>1, PTL

\* One job at most has the claim of a commit, and no claim is left without its job.
THEOREM ClaimsAreJobs ==
  Spec => []ClaimsMatchJobs
<1>1. IInv => ClaimsMatchJobs
  BY DEF IInv, Core
<1>2. QED
  BY IInvInvariant, <1>1, PTL

\* Exit status 0 never hides a job that was dropped or that held a slot.
THEOREM StatusZeroIsHonest ==
  Spec => []StatusZeroDroppedNothing
<1>1. IInv => StatusZeroDroppedNothing
  BY DEF IInv, ExitInv
<1>2. QED
  BY IInvInvariant, <1>1, PTL

----------------------------------------------------------------------------
(* Action properties. *)

\* Where a step leaves the jobs: only an accepted delivery brings a new one.
LEMMA JobsMove ==
  ASSUME IInv, [Next]_vars
  PROVE  \/ waiting' \subseteq waiting /\ slots' \subseteq waiting \cup slots
         \/ \E k \in Keys : Accept(k)
<1>1. CASE UNCHANGED <<waiting, slots>>
  BY <1>1
<1>2. ASSUME NEW j \in slots, NEW outcome, Finish(j, outcome), arrivals' = arrivals
      PROVE  waiting' \subseteq waiting /\ slots' \subseteq waiting \cup slots
  BY <1>2, FinishKeepsCore DEF IInv
<1>3. CASE UNCHANGED vars
  BY <1>1, <1>3 DEF vars, queue
<1>4. ASSUME NEW t \in 0..MaxNow, Clock(t)
      PROVE  UNCHANGED <<waiting, slots>>
  BY <1>4 DEF Clock, queue
<1>5. ASSUME NEW k \in Keys, Duplicate(k) \/ Refuse(k)
      PROVE  UNCHANGED <<waiting, slots>>
  BY <1>5 DEF Duplicate, Refuse, queue
<1>6. ASSUME NEW j \in slots, NEW outcome, Settle(j, outcome) \/ Timeout(j)
      PROVE  waiting' \subseteq waiting /\ slots' \subseteq waiting \cup slots
  BY <1>2, <1>6 DEF Settle, Timeout
<1>7. ASSUME NEW j \in hung, LateSettle(j)
      PROVE  UNCHANGED <<waiting, slots>>
  BY <1>7 DEF LateSettle
<1>8. CASE Signal
  BY <1>8 DEF Signal
<1>9. CASE Drained \/ SecondSignal
  BY <1>1, <1>9 DEF Drained, SecondSignal, queue
<1>10. CASE Restart
  BY <1>10 DEF Restart
<1>11. QED
  BY <1>1, <1>3, <1>4, <1>5, <1>6, <1>7, <1>8, <1>9, <1>10 DEF Next

\* A job is only taken in for a key whose finished claim is over.
LEMMA RepeatStep ==
  ASSUME IInv, [Next]_vars, NEW j \in (waiting' \cup slots') \ (waiting \cup slots)
  PROVE  doneUntil[j.key] <= peak \/ j.key \in forgotten
<1>1. PICK k \in Keys : Accept(k)
  BY JobsMove
<1>2. waiting' \cup slots' = waiting \cup slots \cup {[key |-> k, ticket |-> arrivals]}
  BY <1>1, AcceptKeepsCore DEF IInv
<1>3. j.key = k
  BY <1>2
<1>4. \A e \in DropExpired(kept) : e.key = k => e.expires <= now
  BY <1>1 DEF Accept, Claimable
<1>5. /\ now \in Nat /\ peak \in Nat /\ now <= peak /\ kept \subseteq Kept
      /\ doneUntil \in [Keys -> Nat]
  BY DEF IInv, TypeOK, ClaimsKept
<1>6. ASSUME doneUntil[k] > peak, k \notin forgotten
      PROVE  FALSE
  <2>1. PICK e \in kept : e.key = k /\ e.expires = doneUntil[k]
    BY <1>6 DEF IInv, ClaimsKept
  <2>2. e.expires > now /\ e.expires \in Nat
    BY <1>5, <1>6, <2>1
  <2>3. e \in DropExpired(kept)
    BY <1>5, <2>2 DEF DropExpired, Kept
  <2>4. QED
    BY <1>4, <1>5, <2>1, <2>2, <2>3
<1>7. QED
  BY <1>3, <1>5, <1>6

\* A review that is done is not done again while its claim lasts.
THEOREM DoneIsNotRepeated ==
  Spec => NoRepeatedReview
<1>1. ASSUME IInv, [Next]_vars
      PROVE  [\A j \in (waiting' \cup slots') \ (waiting \cup slots) :
                doneUntil[j.key] <= peak \/ j.key \in forgotten]_vars
  BY <1>1, RepeatStep
<1>2. QED
  BY IInvInvariant, <1>1, PTL DEF Spec, NoRepeatedReview

\* A scan that starts a job starts every older one of its group.
LEMMA ScanFifo ==
  ASSUME NEW line, IsFiniteSet(line), NEW ran \in Int, NEW ranBy,
         NEW started \in SUBSET line, Scan(line, ran, ranBy, started),
         NEW j \in started, NEW i \in line, GroupOf(i) = GroupOf(j), i.ticket < j.ticket,
         \A m \in line : m.ticket \in Nat, ranBy[GroupOf(j)] \in Int
  PROVE  i \in started
<1> USE LimitAssumption
<1>1. IsFiniteSet(started) /\ IsFiniteSet(Of(started, GroupOf(j)))
  BY FS_Subset, OfCount
<1>2. Before(started, i) \in SUBSET Before(started, j)
  BY DEF Before
<1>3. Before(Of(started, GroupOf(j)), i) \in SUBSET Before(Of(started, GroupOf(j)), j)
  BY DEF Before, Of
<1>4. /\ IsFiniteSet(Before(started, j)) /\ Cardinality(Before(started, j)) \in Nat
      /\ Cardinality(Before(started, i)) \in Nat
      /\ Cardinality(Before(started, i)) <= Cardinality(Before(started, j))
  BY <1>1, <1>2, BeforeCount, FS_Subset
<1>5. /\ IsFiniteSet(Before(Of(started, GroupOf(j)), j))
      /\ Cardinality(Before(Of(started, GroupOf(j)), j)) \in Nat
      /\ Cardinality(Before(Of(started, GroupOf(j)), i)) \in Nat
      /\ Cardinality(Before(Of(started, GroupOf(j)), i))
           <= Cardinality(Before(Of(started, GroupOf(j)), j))
  BY <1>1, <1>3, BeforeCount, FS_Subset
<1>6. /\ ran + Cardinality(Before(started, j)) < Concurrency
      /\ ranBy[GroupOf(j)] + Cardinality(Before(Of(started, GroupOf(j)), j))
           < PerGroupConcurrency
  BY DEF Scan
<1>7. /\ ran + Cardinality(Before(started, i)) < Concurrency
      /\ ranBy[GroupOf(j)] + Cardinality(Before(Of(started, GroupOf(j)), i))
           < PerGroupConcurrency
  BY <1>4, <1>5, <1>6
<1>8. QED
  BY <1>7 DEF Scan

\* A job never starts before an older one of its group.
LEMMA FifoStep ==
  ASSUME IInv, [Next]_vars, NEW j \in waiting, j \in slots',
         NEW i \in Of(waiting, GroupOf(j)), i.ticket < j.ticket
  PROVE  i \in slots'
<1>1. /\ IsFiniteSet(waiting) /\ j \notin slots /\ i \in waiting /\ GroupOf(i) = GroupOf(j)
      /\ \A m \in waiting : m.ticket \in Nat
      /\ running \in Nat /\ \A g \in Groups : byGroup[g] \in Nat
      /\ GroupOf(j) \in Groups /\ byGroup \in [Groups -> Nat]
  BY DEF IInv, TypeOK, Core, Lines, Of, Job, GroupOf, Groups
<1>2. ASSUME NEW m \in slots, NEW outcome, Finish(m, outcome)
      PROVE  i \in slots'
  <2> DEFINE ranBy == [byGroup EXCEPT ![GroupOf(m)] = @ - 1]
             ran == running - 1
  <2>1. PICK started \in SUBSET waiting :
          Scan(waiting, ran, ranBy, started) /\ slots' = (slots \ {m}) \cup started
    BY <1>2 DEF Finish, Pump
  <2>2. j \in started
    BY <1>1, <2>1
  <2>3. ranBy[GroupOf(j)] \in Int /\ ran \in Int
    BY <1>1
  <2>4. i \in started
    <3> HIDE DEF ranBy, ran
    <3> QED
      BY <1>1, <2>1, <2>2, <2>3, ScanFifo
  <2>5. QED
    BY <2>1, <2>4
<1>3. ASSUME NEW k \in Keys, Accept(k)
      PROVE  FALSE
  <2>1. waiting \subseteq waiting' /\ waiting' \cap slots' = {}
    BY <1>3, AcceptKeepsCore DEF IInv, Core, Lines
  <2>2. QED
    BY <2>1
<1>4. CASE slots' \subseteq slots
  BY <1>1, <1>4
<1>5. CASE UNCHANGED vars
  BY <1>4, <1>5 DEF vars, queue
<1>6. ASSUME NEW t \in 0..MaxNow, Clock(t)
      PROVE  slots' \subseteq slots
  BY <1>6 DEF Clock, queue
<1>7. ASSUME NEW k \in Keys, Duplicate(k) \/ Refuse(k)
      PROVE  slots' \subseteq slots
  BY <1>7 DEF Duplicate, Refuse, queue
<1>8. ASSUME NEW m \in slots, NEW outcome, Settle(m, outcome) \/ Timeout(m)
      PROVE  i \in slots'
  BY <1>2, <1>8 DEF Settle, Timeout
<1>9. ASSUME NEW m \in hung, LateSettle(m)
      PROVE  slots' \subseteq slots
  BY <1>9 DEF LateSettle
<1>10. CASE Signal
  BY <1>4, <1>10 DEF Signal
<1>11. CASE Drained \/ SecondSignal
  BY <1>4, <1>11 DEF Drained, SecondSignal, queue
<1>12. CASE Restart
  BY <1>4, <1>12 DEF Restart
<1>13. QED
  BY <1>3, <1>4, <1>5, <1>6, <1>7, <1>8, <1>9, <1>10, <1>11, <1>12 DEF Next

\* Within an installation reviews start in the order they were asked for.
THEOREM GroupsAreServedInOrder ==
  Spec => FifoWithinGroup
<1>1. ASSUME IInv, [Next]_vars
      PROVE  [\A j \in waiting : j \in slots' =>
                \A i \in Of(waiting, GroupOf(j)) : i.ticket < j.ticket => i \in slots']_vars
  BY <1>1, FifoStep
<1>2. QED
  BY IInvInvariant, <1>1, PTL DEF Spec, FifoWithinGroup

----------------------------------------------------------------------------
(* The queue implements the life cycle of a commit. *)

\* Distinct jobs are no fewer than their keys.
LEMMA KeysCount ==
  ASSUME NEW S, IsFiniteSet(S)
  PROVE  /\ IsFiniteSet(KeysOf(S)) /\ Cardinality(KeysOf(S)) \in Nat
         /\ Cardinality(KeysOf(S)) <= Cardinality(S) /\ Cardinality(S) \in Nat
<1> DEFINE f == [j \in S |-> j.key]
<1>1. f \in Surjection(S, KeysOf(S))
  BY DEF Surjection, KeysOf
<1>2. QED
  BY <1>1, FS_Surjection, FS_CardinalityType

\* A commit waits, is under review or is remembered, never two of them.
LEMMA StageIs ==
  IInv => \A k \in Keys :
         /\ k \in KeysOf(waiting) => k \notin KeysOf(slots) /\ k \notin KeysOf(kept)
         /\ k \in KeysOf(slots) => k \notin KeysOf(kept)
         /\ Stage(k) = "queued" <=> k \in KeysOf(waiting)
         /\ Stage(k) = "running" <=> k \in KeysOf(slots)
         /\ Stage(k) = "done" <=> k \in KeysOf(kept)
         /\ Stage(k) \in {"free", "queued", "running", "done"}
<1> SUFFICES ASSUME IInv, NEW k \in Keys
             PROVE  /\ k \in KeysOf(waiting) => k \notin KeysOf(slots) /\ k \notin KeysOf(kept)
                    /\ k \in KeysOf(slots) => k \notin KeysOf(kept)
                    /\ Stage(k) = "queued" <=> k \in KeysOf(waiting)
                    /\ Stage(k) = "running" <=> k \in KeysOf(slots)
                    /\ Stage(k) = "done" <=> k \in KeysOf(kept)
                    /\ Stage(k) \in {"free", "queued", "running", "done"}
  OBVIOUS
<1>1. /\ k \in KeysOf(waiting) => k \notin KeysOf(slots) /\ k \notin KeysOf(kept)
      /\ k \in KeysOf(slots) => k \notin KeysOf(kept)
  BY DEF IInv, Core, Lines, ClaimsMatchJobs, ClaimsKept, KeysOf
<1>2. CASE k \in KeysOf(waiting)
  BY <1>1, <1>2 DEF Stage
<1>3. CASE k \in KeysOf(slots)
  BY <1>1, <1>3 DEF Stage
<1>4. CASE k \in KeysOf(kept)
  BY <1>1, <1>4 DEF Stage
<1>5. CASE k \notin KeysOf(waiting) /\ k \notin KeysOf(slots) /\ k \notin KeysOf(kept)
  BY <1>5 DEF Stage
<1>6. QED
  BY <1>1, <1>2, <1>3, <1>4, <1>5

\* One entry a commit, in the order the reviews ended, each with the time it is kept for, and
\* no more entries than the Map may hold.
KeptOnce ==
  /\ IsFiniteSet(kept) /\ Cardinality(kept) <= MaxKept
  /\ \A e, d \in kept : e.key = d.key \/ e.done = d.done => e = d
  /\ \A e \in kept : e.expires = doneUntil[e.key]

\* What dropping entries leaves of that.
LEMMA KeptFewer ==
  ASSUME KeptOnce, kept' \subseteq kept, UNCHANGED doneUntil
  PROVE  KeptOnce'
<1>1. IsFiniteSet(kept') /\ Cardinality(kept') <= Cardinality(kept)
      /\ Cardinality(kept') \in Nat /\ Cardinality(kept) \in Nat
  BY FS_Subset, FS_CardinalityType DEF KeptOnce
<1>2. QED
  BY <1>1, LimitAssumption DEF KeptOnce

\* Of a finite number of entries one is the oldest.
LEMMA LeastDone ==
  ASSUME NEW E, E # {}, \A e \in E : e.done \in Nat
  PROVE  \E e \in E : \A d \in E : e.done <= d.done
<1> DEFINE S == {e.done : e \in E}
<1>1. PICK R : IsWellFoundedOn(R, Nat) /\ \A x, y \in Nat : x < y => <<x, y>> \in R
  <2>1. IsWellFoundedOn(OpToRel(<, Nat), Nat)
    BY NatLessThanWellFounded
  <2>2. \A x, y \in Nat : x < y => <<x, y>> \in OpToRel(<, Nat)
    BY DEF OpToRel
  <2>3. QED
    BY <2>1, <2>2, Zenon
<1>2. PICK n \in S : \A m \in S : ~(<<m, n>> \in R)
  <2>1. IsWellFoundedOn(R, Nat) /\ S \subseteq Nat /\ S # {}
    BY <1>1
  <2>2. QED
    BY <2>1, WFMin
<1>3. PICK e \in E : e.done = n
  OBVIOUS
<1>4. ASSUME NEW d \in E
      PROVE  e.done <= d.done
  <2>1. d.done \in S /\ d.done \in Nat /\ e.done \in Nat
    OBVIOUS
  <2>2. ~(d.done < e.done)
    BY <1>1, <1>2, <1>3, <2>1
  <2>3. QED
    BY <2>1, <2>2
<1>5. QED
  BY <1>4

\* The Map with the entry of a review that has just ended.
Grown(k) ==
  {e \in kept : e.key # k} \cup {[key |-> k, expires |-> now + KeepMs, done |-> finished]}

\* The new entry is the last: the Map grows by one, and at most one older entry is pushed out.
LEMMA OneMore ==
  ASSUME TypeOK, ClaimsKept, KeptOnce, NEW k \in Keys, k \notin KeysOf(kept)
  PROVE  /\ \A e, d \in Grown(k) : e.key = d.key \/ e.done = d.done => e = d
         /\ \A e \in Grown(k) : e.done \in Nat
         /\ IsFiniteSet(DropOverflow(Grown(k))) /\ Cardinality(DropOverflow(Grown(k))) <= MaxKept
         /\ \A e, d \in Grown(k) \ DropOverflow(Grown(k)) : e = d
         /\ Grown(k) \ DropOverflow(Grown(k)) # {} => Cardinality(kept) = MaxKept
<1> DEFINE new == [key |-> k, expires |-> now + KeepMs, done |-> finished]
           E == Grown(k)
           Newer(e) == {d \in E : d.done > e.done}
<1> USE LimitAssumption
<1>1. E = kept \cup {new} /\ new \notin kept
  BY DEF KeysOf, Grown
<1>2. IsFiniteSet(kept) /\ Cardinality(kept) \in Nat /\ Cardinality(kept) <= MaxKept
  BY FS_CardinalityType DEF KeptOnce
<1>3. IsFiniteSet(E) /\ Cardinality(E) = Cardinality(kept) + 1
  BY <1>1, <1>2, FS_AddElement
<1>4. finished \in Nat /\ \A e \in kept : e.done \in Nat /\ e.done < finished
  BY DEF TypeOK, Kept, ClaimsKept
<1>5. \A e \in E : e.done \in Nat
  BY <1>1, <1>4
<1>6. \A e, d \in E : e.key = d.key \/ e.done = d.done => e = d
  BY <1>1, <1>4 DEF KeptOnce, KeysOf
<1>7. \A e : IsFiniteSet(Newer(e)) /\ Cardinality(Newer(e)) \in Nat
             /\ Cardinality(Newer(e)) <= Cardinality(E)
  <2>1. \A e : Newer(e) \in SUBSET E
    OBVIOUS
  <2>2. QED
    BY <1>3, <2>1, FS_Subset, FS_CardinalityType
<1> HIDE DEF new
<1>n. \A e : \A d : d \in Newer(e) <=> d \in E /\ d.done > e.done
  OBVIOUS
<1> HIDE DEF Newer, E
<1>8. ASSUME NEW e \in E, NEW d \in E, d.done > e.done
      PROVE  Cardinality(Newer(d)) + 2 <= Cardinality(E)
  <2>1. d \notin Newer(d) /\ Newer(d) \cup {d} \subseteq Newer(e) /\ e \notin Newer(e)
    BY <1>5, <1>8, <1>n
  <2>2. IsFiniteSet(Newer(d)) /\ IsFiniteSet(Newer(e)) /\ Newer(e) \subseteq E
    BY <1>7, <1>n
  <2>3. Cardinality(Newer(d) \cup {d}) = Cardinality(Newer(d)) + 1
    BY <2>1, <2>2, FS_AddElement
  <2>4. Cardinality(Newer(e) \cup {e}) = Cardinality(Newer(e)) + 1
    BY <2>1, <2>2, FS_AddElement
  <2>5. Cardinality(Newer(d) \cup {d}) <= Cardinality(Newer(e))
    BY <2>1, <2>2, FS_Subset
  <2>6. Cardinality(Newer(e) \cup {e}) <= Cardinality(E)
    BY <1>3, <2>2, FS_Subset
  <2>7. Cardinality(Newer(d)) \in Nat /\ Cardinality(Newer(e)) \in Nat /\ Cardinality(E) \in Nat
    BY <1>3, <2>2, FS_CardinalityType
  <2>8. QED
    BY <2>3, <2>4, <2>5, <2>6, <2>7
<1>9. ASSUME NEW e \in E
      PROVE  Cardinality(Newer(e)) + 1 <= Cardinality(E)
  <2>1. e \notin Newer(e) /\ Newer(e) \subseteq E
    BY <1>5, <1>n
  <2>2. IsFiniteSet(Newer(e))
    BY <1>7
  <2>3. Cardinality(Newer(e) \cup {e}) = Cardinality(Newer(e)) + 1
    BY <2>1, <2>2, FS_AddElement
  <2>4. Cardinality(Newer(e) \cup {e}) <= Cardinality(E)
    BY <1>3, <2>1, FS_Subset
  <2>5. QED
    BY <2>3, <2>4
<1>10. \A e \in E : e \in DropOverflow(E) <=> Cardinality(Newer(e)) < MaxKept
  BY DEF DropOverflow, Newer, E
<1>11. DropOverflow(E) \subseteq E
  BY DEF DropOverflow
<1>12. \A e, d \in E \ DropOverflow(E) : e = d
  <2>1. SUFFICES ASSUME NEW e \in E \ DropOverflow(E), NEW d \in E \ DropOverflow(E),
                        d.done > e.done
                 PROVE  FALSE
    BY <1>5, <1>6
  <2>2. Cardinality(Newer(d)) + 2 <= Cardinality(E) /\ ~(Cardinality(Newer(d)) < MaxKept)
    BY <1>8, <1>10, <2>1
  <2>3. QED
    BY <1>2, <1>3, <1>7, <2>2
<1>13. E \ DropOverflow(E) # {} => Cardinality(kept) = MaxKept
  <2>1. SUFFICES ASSUME NEW e \in E \ DropOverflow(E) PROVE Cardinality(kept) = MaxKept
    OBVIOUS
  <2>2. Cardinality(Newer(e)) + 1 <= Cardinality(E) /\ ~(Cardinality(Newer(e)) < MaxKept)
    BY <1>9, <1>10
  <2>3. QED
    BY <1>2, <1>3, <1>7, <2>2
<1>14. IsFiniteSet(DropOverflow(E)) /\ Cardinality(DropOverflow(E)) <= MaxKept
  <2>1. IsFiniteSet(DropOverflow(E)) /\ Cardinality(DropOverflow(E)) \in Nat
        /\ Cardinality(DropOverflow(E)) <= Cardinality(E)
    BY <1>3, <1>11, FS_Subset, FS_CardinalityType
  <2>2. CASE DropOverflow(E) # E
    <3>1. PICK e \in E : e \notin DropOverflow(E)
      BY <1>11, <2>2
    <3>2. e \notin DropOverflow(E) /\ DropOverflow(E) \cup {e} \subseteq E
      BY <1>11, <3>1
    <3>3. Cardinality(DropOverflow(E) \cup {e}) = Cardinality(DropOverflow(E)) + 1
          /\ Cardinality(DropOverflow(E) \cup {e}) <= Cardinality(E)
      BY <1>3, <2>1, <3>2, FS_AddElement, FS_Subset
    <3>4. QED
      BY <1>2, <1>3, <2>1, <3>3
  <2>3. CASE DropOverflow(E) = E
    <3>1. CASE Cardinality(kept) = MaxKept
      <4>1. \E e \in E : \A d \in E : e.done <= d.done
        BY LeastDone, <1>1, <1>5
      <4>2. PICK e \in E : \A d \in E : e.done <= d.done
        BY <4>1
      <4>3. \A d \in E : d # e => d.done > e.done
        BY <1>5, <1>6, <4>2
      <4>4. E = Newer(e) \cup {e} /\ e \notin Newer(e)
        BY <1>5, <1>n, <4>3
      <4>5. Cardinality(E) = Cardinality(Newer(e)) + 1
        <5>1. IsFiniteSet(Newer(e))
          BY <1>7
        <5>2. QED
          BY <4>4, <5>1, FS_AddElement
      <4>6. QED
        <5>1. Cardinality(Newer(e)) < MaxKept /\ Cardinality(Newer(e)) \in Nat
          BY <1>7, <1>10, <2>3
        <5>2. QED
          BY <1>2, <1>3, <3>1, <4>5, <5>1
    <3>2. CASE Cardinality(kept) < MaxKept
      BY <1>2, <1>3, <2>1, <2>3, <3>2
    <3>3. QED
      BY <1>2, <3>1, <3>2
  <2>4. QED
    BY <2>2, <2>3
<1>15. QED
  BY <1>5, <1>6, <1>12, <1>13, <1>14 DEF E

\* What a step does to the finished claims: nothing; a delivery drops expired ones; a review
\* that ends adds its own; a restart drops them all.
LEMMA KeptMoves ==
  ASSUME IInv, [Next]_vars
  PROVE  \/ UNCHANGED <<kept, doneUntil>>
         \/ /\ UNCHANGED <<doneUntil, now>> /\ kept' \subseteq kept
            /\ \A e \in kept : e.expires > now => e \in kept'
         \/ \E j \in slots : /\ Keep(j.key) /\ now' = now
                             /\ waiting' \subseteq waiting /\ slots' \subseteq waiting \cup slots
                             /\ j \notin waiting' \cup slots'
         \/ Restart
<1> DEFINE Drops == /\ UNCHANGED <<doneUntil, now>> /\ kept' \subseteq kept
                    /\ \A e \in kept : e.expires > now => e \in kept'
           Ends == \E j \in slots : /\ Keep(j.key) /\ now' = now
                             /\ waiting' \subseteq waiting /\ slots' \subseteq waiting \cup slots
                             /\ j \notin waiting' \cup slots'
           Same == UNCHANGED <<kept, doneUntil>>
<1> SUFFICES Same \/ Drops \/ Ends \/ Restart
  OBVIOUS
<1>1. ASSUME NEW e \in kept, e.expires > now
      PROVE  e \in DropExpired(kept)
  BY <1>1 DEF IInv, TypeOK, DropExpired, Kept
<1>2. ASSUME NEW k \in Keys, Claimable(k), kept' = ClaimedKept(k), UNCHANGED <<doneUntil, now>>
      PROVE  Drops
  <2>1. kept' \subseteq kept
    BY <1>2 DEF ClaimedKept, DropExpired
  <2>2. ASSUME NEW e \in kept, e.expires > now
        PROVE  e \in kept'
    <3>1. e \in DropExpired(kept) /\ e.expires \in Nat /\ now \in Nat
      BY <1>1, <2>2 DEF IInv, TypeOK, Kept
    <3>2. e.key # k
      BY <1>2, <2>2, <3>1 DEF Claimable
    <3>3. QED
      BY <1>2, <3>1, <3>2 DEF ClaimedKept
  <2>3. QED
    BY <1>2, <2>1, <2>2
<1>3. ASSUME NEW j \in slots, NEW outcome, Finish(j, outcome), arrivals' = arrivals, now' = now
      PROVE  Ends \/ Same
  <2>1. Keep(j.key) \/ Same
    BY <1>3 DEF Finish
  <2>2. /\ waiting' \subseteq waiting /\ slots' \subseteq waiting \cup slots
        /\ j \notin waiting' \cup slots'
    BY <1>3, FinishKeepsCore DEF IInv
  <2>3. QED
    BY <1>3, <2>1, <2>2
<1>4. UNCHANGED vars => Same
  BY DEF vars, claims
<1>5. ASSUME NEW t \in 0..MaxNow, Clock(t)
      PROVE  Same
  BY <1>5 DEF Clock, claims
<1>6. ASSUME NEW k \in Keys, Refuse(k) \/ Accept(k)
      PROVE  Drops
  BY <1>2, <1>6 DEF Refuse, Accept, clock
<1>7. ASSUME NEW k \in Keys, Duplicate(k)
      PROVE  Drops
  <2>1. kept' = DropExpired(kept) /\ UNCHANGED <<doneUntil, now>>
    BY <1>7 DEF Duplicate, clock
  <2>2. kept' \subseteq kept
    BY <2>1 DEF DropExpired
  <2>3. QED
    BY <1>1, <2>1, <2>2
<1>8. ASSUME NEW j \in slots, NEW outcome, Settle(j, outcome) \/ Timeout(j)
      PROVE  Ends \/ Same
  <2>1. CASE Settle(j, outcome)
    BY <1>3, <2>1 DEF Settle, clock
  <2>2. CASE Timeout(j)
    BY <1>3, <2>2 DEF Timeout, clock
  <2>3. QED
    BY <1>8, <2>1, <2>2
<1>9. ASSUME NEW j \in hung, LateSettle(j)
      PROVE  Same
  BY <1>9 DEF LateSettle, claims
<1>10. Signal => Same
  BY DEF Signal
<1>11. Drained \/ SecondSignal => Same
  BY DEF Drained, SecondSignal, claims
<1>12. QED
  <2> HIDE DEF Drops, Ends, Same
  <2>1. QED
    BY <1>4, <1>5, <1>6, <1>7, <1>8, <1>9, <1>10, <1>11 DEF Next

\* A key that holds a slot has no finished claim.
LEMMA SlotNotKept ==
  ASSUME IInv, NEW j \in slots
  PROVE  j.key \in Keys /\ j.key \notin KeysOf(kept)
BY DEF IInv, TypeOK, Core, ClaimsMatchJobs, ClaimsKept, KeysOf, Job

\* The Map keeps to one entry a commit.
LEMMA KeptStep ==
  ASSUME IInv, KeptOnce, [Next]_vars
  PROVE  KeptOnce'
<1>1. CASE kept' \subseteq kept /\ UNCHANGED doneUntil
  BY <1>1, KeptFewer
<1>2. ASSUME NEW j \in slots, Keep(j.key), now' = now
      PROVE  KeptOnce'
  <2> DEFINE new == [key |-> j.key, expires |-> now + KeepMs, done |-> finished]
             E == Grown(j.key)
  <2>1. j.key \in Keys /\ j.key \notin KeysOf(kept) /\ TypeOK /\ ClaimsKept
    BY SlotNotKept DEF IInv
  <2>2. kept' = DropExpired(DropOverflow(E))
        /\ doneUntil' = [doneUntil EXCEPT ![j.key] = now + KeepMs]
    BY <1>2 DEF Keep, Grown
  <2>3. /\ \A e, d \in E : e.key = d.key \/ e.done = d.done => e = d
        /\ IsFiniteSet(DropOverflow(E)) /\ Cardinality(DropOverflow(E)) <= MaxKept
    BY <2>1, OneMore
  <2>4. kept' \in SUBSET DropOverflow(E) /\ DropOverflow(E) \subseteq E
    BY <2>2 DEF DropExpired, DropOverflow
  <2>5. IsFiniteSet(kept') /\ Cardinality(kept') <= MaxKept
    BY <2>3, <2>4, FS_Subset, FS_CardinalityType, LimitAssumption
  <2>6. ASSUME NEW e \in kept'
        PROVE  e.expires = doneUntil'[e.key]
    <3>1. CASE e = new
      BY <2>1, <2>2, <3>1 DEF TypeOK
    <3>2. CASE e \in kept /\ e.key # j.key
      <4>1. e.key \in Keys /\ e.expires = doneUntil[e.key]
        BY <2>1, <3>2 DEF TypeOK, Kept, KeptOnce
      <4>2. QED
        BY <2>1, <2>2, <3>2, <4>1 DEF TypeOK
    <3>3. QED
      BY <2>4, <3>1, <3>2 DEF Grown
  <2>7. QED
    BY <2>3, <2>4, <2>5, <2>6 DEF KeptOnce
<1>3. CASE Restart
  BY <1>3, FS_EmptySet, LimitAssumption DEF Restart, KeptOnce
<1>4. QED
  BY <1>1, <1>2, <1>3, KeptMoves

\* So it is in every state.
LEMMA KeptInvariant ==
  Spec => []KeptOnce
<1>1. Init => KeptOnce
  BY FS_EmptySet, LimitAssumption DEF Init, KeptOnce
<1>2. QED
  BY <1>1, IInvInvariant, KeptStep, PTL DEF Spec

\* A finished review is forgotten while it is to be remembered only to make room for one that
\* ends, and only one.
LEMMA Forgetting ==
  ASSUME IInv, KeptOnce, [Next]_vars, ~Restart,
         NEW e \in kept, e.key \notin KeysOf(kept'), e.expires > now
  PROVE  /\ Cardinality(kept) = MaxKept
         /\ \E j \in slots : /\ waiting' \subseteq waiting /\ slots' \subseteq waiting \cup slots
                             /\ j \notin waiting' \cup slots'
         /\ \A d \in kept : d.key \notin KeysOf(kept') /\ d.expires > now => d = e
<1>1. e \notin kept'
  BY DEF KeysOf
<1>2. PICK j \in slots : /\ Keep(j.key) /\ now' = now
                         /\ waiting' \subseteq waiting /\ slots' \subseteq waiting \cup slots
                         /\ j \notin waiting' \cup slots'
  BY <1>1, KeptMoves
<1> DEFINE E == Grown(j.key)
<1>3. j.key \in Keys /\ j.key \notin KeysOf(kept) /\ TypeOK /\ ClaimsKept
  BY SlotNotKept DEF IInv
<1>4. kept' = DropExpired(DropOverflow(E))
  BY <1>2 DEF Keep, Grown
<1>5. kept \subseteq E
  BY <1>3 DEF KeysOf, Grown
<1> HIDE DEF E
<1>6. /\ \A c, d \in E \ DropOverflow(E) : c = d
      /\ E \ DropOverflow(E) # {} => Cardinality(kept) = MaxKept
      /\ \A d \in E : d.done \in Nat
  BY <1>3, OneMore DEF E
<1>7. ASSUME NEW d \in kept, d.key \notin KeysOf(kept'), d.expires > now
      PROVE  d \in E \ DropOverflow(E)
  <2>1. d \in E /\ d \notin kept' /\ d.done \in Nat
    BY <1>5, <1>6, <1>7 DEF KeysOf
  <2>2. d \in DropOverflow(E) => d \in kept'
    BY <1>4, <1>7, <2>1 DEF DropExpired
  <2>3. QED
    BY <2>1, <2>2
<1>8. QED
  BY <1>2, <1>6, <1>7

\* Only a review that held a slot becomes a remembered one, from now on for KeepMs; the
\* others are remembered as long as before.
LEMMA Remembering ==
  ASSUME IInv, KeptOnce, [Next]_vars, ~Restart, NEW k \in KeysOf(kept')
  PROVE  \/ k \in KeysOf(kept) /\ doneUntil'[k] = doneUntil[k]
         \/ k \notin KeysOf(kept) /\ k \in KeysOf(slots) /\ doneUntil'[k] = now + KeepMs
<1>1. CASE kept' \subseteq kept /\ UNCHANGED doneUntil
  BY <1>1 DEF KeysOf
<1>2. ASSUME NEW j \in slots, Keep(j.key)
      PROVE  \/ k \in KeysOf(kept) /\ doneUntil'[k] = doneUntil[k]
             \/ k \notin KeysOf(kept) /\ k \in KeysOf(slots) /\ doneUntil'[k] = now + KeepMs
  <2>1. j.key \in Keys /\ j.key \notin KeysOf(kept) /\ j.key \in KeysOf(slots)
        /\ doneUntil \in [Keys -> Nat]
    BY SlotNotKept DEF IInv, TypeOK, KeysOf
  <2>2. \A e \in kept' : e.key = j.key \/ e \in kept
    BY <1>2 DEF Keep, DropExpired, DropOverflow
  <2>3. doneUntil' = [doneUntil EXCEPT ![j.key] = now + KeepMs]
    BY <1>2 DEF Keep
  <2>4. CASE k = j.key
    BY <2>1, <2>3, <2>4
  <2>5. CASE k # j.key
    <3>1. k \in KeysOf(kept)
      BY <2>2, <2>5 DEF KeysOf
    <3>2. doneUntil'[k] = doneUntil[k]
      BY <2>1, <2>3, <2>5
    <3>3. QED
      BY <3>1, <3>2
  <2>6. QED
    BY <2>4, <2>5
<1>3. QED
  BY <1>1, <1>2, KeptMoves

\* The clock moves alone.
LEMMA TimeMove ==
  ASSUME [Next]_vars, now' # now
  PROVE  \E t \in 0..MaxNow : Clock(t)
BY DEF Next, vars, clock, Duplicate, Refuse, Accept, Settle, Timeout, LateSettle, Signal,
       Drained, SecondSignal, Restart

\* The life cycle counts as this module does.
LEMMA SameCount ==
  \A S : Lifecycle!Cardinality(S) = Cardinality(S)
BY DEF Lifecycle!Cardinality, Cardinality

stages == [k \in Keys |-> Stage(k)]
untils == [k \in Keys |-> IF Stage(k) = "done" THEN doneUntil[k] ELSE 0]

\* Where the commits are after a step.
LEMMA StageNext ==
  IInv' => \A k \in Keys :
         /\ k \in KeysOf(waiting') => k \notin KeysOf(slots') /\ k \notin KeysOf(kept')
         /\ k \in KeysOf(slots') => k \notin KeysOf(kept')
         /\ Stage(k)' = "queued" <=> k \in KeysOf(waiting')
         /\ Stage(k)' = "running" <=> k \in KeysOf(slots')
         /\ Stage(k)' = "done" <=> k \in KeysOf(kept')
         /\ Stage(k)' \in {"free", "queued", "running", "done"}
<1>1. IInv' => (\A k \in Keys :
         /\ k \in KeysOf(waiting) => k \notin KeysOf(slots) /\ k \notin KeysOf(kept)
         /\ k \in KeysOf(slots) => k \notin KeysOf(kept)
         /\ Stage(k) = "queued" <=> k \in KeysOf(waiting)
         /\ Stage(k) = "running" <=> k \in KeysOf(slots)
         /\ Stage(k) = "done" <=> k \in KeysOf(kept)
         /\ Stage(k) \in {"free", "queued", "running", "done"})'
  BY StageIs, PTL
<1>2. QED
  BY <1>1 DEF KeysOf

\* No commit goes from its slot back to the line.
LEMMA NotBack ==
  ASSUME IInv, IInv', [Next]_vars, NEW k \in Keys, k \in KeysOf(slots)
  PROVE  k \notin KeysOf(waiting')
<1>1. CASE waiting' \subseteq waiting
  BY <1>1, StageIs DEF KeysOf
<1>2. CASE \E m \in Keys : Accept(m)
  <2>1. slots \subseteq slots'
    BY <1>2, AcceptKeepsCore DEF IInv
  <2>2. QED
    BY <2>1, StageNext DEF KeysOf
<1>3. QED
  BY <1>1, <1>2, JobsMove

\* A step leaves no more commits waiting, running and remembered than the limits allow.
LEMMA CapsNext ==
  ASSUME IInv', KeptOnce'
  PROVE  /\ Lifecycle!Cardinality(Lifecycle!In(stages', "queued")) <= Capacity
         /\ Lifecycle!Cardinality(Lifecycle!In(stages', "running")) <= Concurrency
         /\ Lifecycle!Cardinality(Lifecycle!In(stages', "done")) <= MaxKept
<1> USE LimitAssumption
<1>1. ASSUME NEW k \in Keys
      PROVE  /\ stages'[k] = "queued" <=> k \in KeysOf(waiting')
             /\ stages'[k] = "running" <=> k \in KeysOf(slots')
             /\ stages'[k] = "done" <=> k \in KeysOf(kept')
  BY StageNext DEF stages
<1>2. /\ KeysOf(waiting') \subseteq Keys /\ KeysOf(slots') \subseteq Keys
      /\ KeysOf(kept') \subseteq Keys
  BY DEF IInv, TypeOK, KeysOf, Job, Kept
<1>3. /\ Lifecycle!In(stages', "queued") = KeysOf(waiting')
      /\ Lifecycle!In(stages', "running") = KeysOf(slots')
      /\ Lifecycle!In(stages', "done") = KeysOf(kept')
  BY <1>1, <1>2 DEF Lifecycle!In
<1>4. /\ IsFiniteSet(waiting') /\ Cardinality(waiting') <= Capacity
      /\ IsFiniteSet(slots') /\ Cardinality(slots') <= Concurrency
      /\ IsFiniteSet(kept') /\ Cardinality(kept') <= MaxKept
  BY DEF IInv, Core, Lines, CapsHold, KeptOnce
<1>5. /\ Cardinality(KeysOf(waiting')) <= Cardinality(waiting')
      /\ Cardinality(KeysOf(slots')) <= Cardinality(slots')
      /\ Cardinality(KeysOf(kept')) <= Cardinality(kept')
      /\ Cardinality(waiting') \in Nat /\ Cardinality(KeysOf(waiting')) \in Nat
      /\ Cardinality(slots') \in Nat /\ Cardinality(KeysOf(slots')) \in Nat
      /\ Cardinality(kept') \in Nat /\ Cardinality(KeysOf(kept')) \in Nat
  BY <1>4, KeysCount
<1>6. /\ Cardinality(KeysOf(waiting')) <= Capacity
      /\ Cardinality(KeysOf(slots')) <= Concurrency
      /\ Cardinality(KeysOf(kept')) <= MaxKept
  BY <1>4, <1>5
<1>7. QED
  BY <1>3, <1>6, SameCount

\* There are as many remembered commits as entries.
LEMMA DoneCount ==
  ASSUME IInv, KeptOnce
  PROVE  Lifecycle!Cardinality(Lifecycle!In(stages, "done")) = Cardinality(kept)
<1>1. Lifecycle!In(stages, "done") = KeysOf(kept)
  <2>1. \A k \in Keys : stages[k] = "done" <=> k \in KeysOf(kept)
    BY StageIs DEF stages
  <2>2. KeysOf(kept) \subseteq Keys
    BY DEF IInv, TypeOK, KeysOf, Kept
  <2>3. QED
    BY <2>1, <2>2 DEF Lifecycle!In
<1>2. Cardinality(KeysOf(kept)) = Cardinality(kept)
  <2> DEFINE f == [e \in kept |-> e.key]
  <2>1. f \in Bijection(kept, KeysOf(kept))
    <3>1. f \in Surjection(kept, KeysOf(kept))
      BY DEF Surjection, KeysOf
    <3>2. f \in Injection(kept, KeysOf(kept))
      BY DEF Injection, IsInjective, KeysOf, KeptOnce
    <3>3. QED
      BY <3>1, <3>2 DEF Bijection
  <2>2. QED
    <3>1. IsFiniteSet(kept) /\ ExistsBijection(kept, KeysOf(kept))
      BY <2>1 DEF KeptOnce, ExistsBijection
    <3>2. QED
      BY <3>1, FS_Bijection
<1>3. QED
  BY <1>1, <1>2, SameCount

\* A commit leaves its stage by a move of the life cycle, or because it may be forgotten.
LEMMA StageMove ==
  ASSUME IInv, IInv', KeptOnce, [Next]_vars, ~Restart,
         NEW k \in Keys, stages'[k] # stages[k]
  PROVE  \/ <<stages[k], stages'[k]>> \in Lifecycle!Moves
         \/ stages[k] = "done" /\ (Lifecycle!Remembered(k) => Lifecycle!MakesRoom(k))
<1>1. \A m \in Keys : /\ stages[m] = Stage(m) /\ stages'[m] = Stage(m)'
                      /\ untils[m] = IF Stage(m) = "done" THEN doneUntil[m] ELSE 0
  BY DEF stages, untils
<1>2. \A m \in Keys :
        /\ stages[m] = "queued" <=> m \in KeysOf(waiting)
        /\ stages[m] = "running" <=> m \in KeysOf(slots)
        /\ stages[m] = "done" <=> m \in KeysOf(kept)
        /\ stages[m] \in {"free", "queued", "running", "done"}
  BY <1>1, StageIs
<1>3. \A m \in Keys :
        /\ stages'[m] = "queued" <=> m \in KeysOf(waiting')
        /\ stages'[m] = "running" <=> m \in KeysOf(slots')
        /\ stages'[m] = "done" <=> m \in KeysOf(kept')
        /\ stages'[m] \in {"free", "queued", "running", "done"}
  BY <1>1, StageNext
<1>4. CASE stages[k] # "done"
  <2>1. stages'[k] = "done" => stages[k] = "running"
    BY <1>2, <1>3, <1>4, Remembering
  <2>2. stages[k] = "running" => stages'[k] # "queued"
    BY <1>2, <1>3, NotBack
  <2>3. QED
    BY <1>2, <1>3, <1>4, <2>1, <2>2 DEF Lifecycle!Moves
<1>5. CASE stages[k] = "done" /\ Lifecycle!Remembered(k)
  <2>1. ASSUME NEW m \in Keys, Lifecycle!Remembered(m), stages'[m] # "done"
        PROVE  \E e \in kept : e.key = m /\ e.key \notin KeysOf(kept') /\ e.expires > now
    <3>1. stages[m] = "done" /\ untils[m] > now
      BY <2>1 DEF Lifecycle!Remembered, stages, untils
    <3>2. PICK e \in kept : e.key = m
      BY <1>2, <3>1 DEF KeysOf
    <3>3. e.expires = doneUntil[m] /\ untils[m] = doneUntil[m]
      BY <1>1, <3>1, <3>2 DEF KeptOnce
    <3>4. QED
      BY <1>3, <2>1, <3>1, <3>2, <3>3
  <2>2. PICK e \in kept : e.key = k /\ e.key \notin KeysOf(kept') /\ e.expires > now
    BY <1>5, <2>1
  <2>3. /\ Cardinality(kept) = MaxKept
        /\ \A d \in kept : d.key \notin KeysOf(kept') /\ d.expires > now => d = e
    BY <2>2, Forgetting
  <2>4. PICK j \in slots : /\ waiting' \subseteq waiting /\ slots' \subseteq waiting \cup slots
                           /\ j \notin waiting' \cup slots'
    BY <2>2, Forgetting
  <2>5. j.key \in Keys /\ stages[j.key] = "running"
    BY <1>2, SlotNotKept DEF KeysOf
  <2>6. \A i \in waiting \cup slots : i.key = j.key => i = j
    BY DEF IInv, Core, ClaimsMatchJobs
  <2>7. stages'[j.key] # "running"
    BY <1>3, <2>4, <2>5, <2>6 DEF KeysOf
  <2>8. stages'[k] = "free"
    <3>1. k \in KeysOf(kept) /\ k \notin KeysOf(waiting) /\ k \notin KeysOf(slots)
      BY <1>2, <1>5
    <3>2. k \notin KeysOf(waiting') /\ k \notin KeysOf(slots') /\ k \notin KeysOf(kept')
      BY <2>2, <2>4, <3>1 DEF KeysOf
    <3>3. QED
      BY <1>3, <3>2
  <2>9. Lifecycle!Cardinality(Lifecycle!In(stages, "done")) >= MaxKept
    BY <2>3, DoneCount, LimitAssumption
  <2>10. \A m \in Keys : Lifecycle!Remembered(m) /\ stages'[m] # "done" => m = k
    BY <2>1, <2>2, <2>3
  <2>11. Lifecycle!MakesRoom(k)
    BY <2>5, <2>7, <2>8, <2>9, <2>10 DEF Lifecycle!MakesRoom, stages
  <2>12. QED
    BY <1>5, <2>11
<1>6. QED
  BY <1>4, <1>5

\* A step moves the end of a memory only by a review that is done.
LEMMA UntilMove ==
  ASSUME IInv, IInv', KeptOnce, [Next]_vars, ~Restart, NEW k \in Keys
  PROVE  untils'[k] = IF stages'[k] # "done" THEN 0
                       ELSE IF stages[k] = "done" THEN untils[k] ELSE now + KeepMs
<1>1. /\ stages[k] = Stage(k) /\ stages'[k] = Stage(k)'
      /\ untils[k] = IF Stage(k) = "done" THEN doneUntil[k] ELSE 0
      /\ untils'[k] = IF Stage(k)' = "done" THEN doneUntil'[k] ELSE 0
  BY DEF stages, untils
<1>2. Stage(k) = "done" <=> k \in KeysOf(kept)
  BY StageIs
<1>3. Stage(k)' = "done" <=> k \in KeysOf(kept')
  BY StageNext
<1>4. CASE stages'[k] # "done"
  BY <1>1, <1>4
<1>5. CASE stages'[k] = "done"
  <2>1. \/ k \in KeysOf(kept) /\ doneUntil'[k] = doneUntil[k]
        \/ k \notin KeysOf(kept) /\ doneUntil'[k] = now + KeepMs
    BY <1>1, <1>3, <1>5, Remembering
  <2>2. QED
    BY <1>1, <1>2, <1>5, <2>1
<1>6. QED
  BY <1>4, <1>5

\* Each step is a step of the life cycle.
LEMMA LifecycleStep ==
  ASSUME IInv, IInv', KeptOnce, KeptOnce', [Next]_vars
  PROVE  [Lifecycle!Next]_<<stages, untils, now>>
<1>1. CASE now' # now
  <2>1. PICK t \in 0..MaxNow : Clock(t)
    BY <1>1, TimeMove
  <2>2. UNCHANGED <<waiting, slots, kept, doneUntil>> /\ now' = t
    BY <2>1 DEF Clock, queue, claims
  <2>3. UNCHANGED <<stages, untils>>
    BY <2>2 DEF stages, untils, Stage, KeysOf
  <2>4. now' \in Nat
    BY DEF IInv, TypeOK
  <2>5. Lifecycle!Tick
    BY <2>3, <2>4 DEF Lifecycle!Tick, stages, untils
  <2>6. QED
    BY <2>5 DEF Lifecycle!Next
<1>2. CASE Restart
  <2>1. waiting' = {} /\ slots' = {} /\ kept' = {} /\ now' = now
    BY <1>2 DEF Restart, clock
  <2>2. \A k \in Keys : Stage(k)' = "free"
    BY <2>1 DEF Stage, KeysOf
  <2>3. stages' = [k \in Keys |-> "free"] /\ untils' = [k \in Keys |-> 0]
    BY <2>2 DEF stages, untils
  <2>4. Lifecycle!Restart
    BY <2>1, <2>3 DEF Lifecycle!Restart, stages, untils
  <2>5. QED
    BY <2>4 DEF Lifecycle!Next
<1>3. CASE now' = now /\ ~Restart
  <2>1. stages' \in [Keys -> Lifecycle!Stages]
    <3>1. \A k \in Keys : Stage(k)' \in {"free", "queued", "running", "done"}
      BY StageNext
    <3>2. QED
      BY <3>1 DEF stages, Lifecycle!Stages
  <2>2. \A k \in Keys : stages'[k] # stages[k] =>
          \/ <<stages[k], stages'[k]>> \in Lifecycle!Moves
          \/ stages[k] = "done" /\ (Lifecycle!Remembered(k) => Lifecycle!MakesRoom(k))
    BY <1>3, StageMove
  <2>3. untils' = [k \in Keys |-> IF stages'[k] # "done" THEN 0
                                   ELSE IF stages[k] = "done" THEN untils[k] ELSE now + KeepMs]
    <3>1. \A k \in Keys : untils'[k] = IF stages'[k] # "done" THEN 0
                                       ELSE IF stages[k] = "done" THEN untils[k] ELSE now + KeepMs
      BY <1>3, UntilMove
    <3>2. untils' = [k \in Keys |-> untils'[k]]
      BY DEF untils
    <3>3. QED
      BY <3>1, <3>2
  <2>4. Lifecycle!Serve
    BY <1>3, <2>1, <2>2, <2>3, CapsNext DEF Lifecycle!Serve, stages, untils
  <2>5. QED
    BY <2>4 DEF Lifecycle!Next
<1>4. QED
  BY <1>1, <1>2, <1>3

\* The queue, its claims, its watchdogs and its shutdown give each commit the life cycle of
\* ReviewLifecycle: one review at a time, and none while the last one is remembered.
THEOREM QueueImplementsLifecycle ==
  Spec => ImplementsLifecycle
<1>1. Init => Lifecycle!Init
  BY DEF Init, Lifecycle!Init, Stage, KeysOf
<1>2. IInv /\ IInv' /\ KeptOnce /\ KeptOnce' /\ [Next]_vars
        => [Lifecycle!Next]_<<stages, untils, now>>
  BY LifecycleStep
<1>3. QED
  BY IInvInvariant, KeptInvariant, <1>1, <1>2, PTL
     DEF Spec, ImplementsLifecycle, Lifecycle!Spec, stages, untils
=============================================================================
