---------------------------- MODULE MCEventually ----------------------------
(***************************************************************************)
(* The components whose promise is that something happens in the end: the  *)
(* Batch API jobs, the two watchers and the read pool.  They share no      *)
(* state, so a behaviour is one of one of them, chosen at the start, with  *)
(* the fairness of its own specification.                                  *)
(***************************************************************************)
EXTENDS BatchApiJobs, FileWatcher, MultiRepoWatcher, ReadPool

VARIABLE part

Init ==
  /\ part \in {"jobs", "watch", "watch-all", "pool"}
  /\ JobsInit /\ WatcherInit /\ MultiInit /\ PoolInit

Next ==
  /\ UNCHANGED part
  /\ \/ part = "jobs" /\ JobsNext /\ UNCHANGED <<watchVars, multiVars, poolVars>>
     \/ part = "watch" /\ WatcherNext /\ UNCHANGED <<jobVars, multiVars, poolVars>>
     \/ part = "watch-all" /\ MultiNext /\ UNCHANGED <<jobVars, watchVars, poolVars>>
     \/ part = "pool" /\ PoolNext /\ UNCHANGED <<jobVars, watchVars, multiVars>>

Spec ==
  /\ Init /\ [][Next]_<<part, jobVars, watchVars, multiVars, poolVars>>
  /\ WF_jobVars(part = "jobs" /\ RunStep)
  /\ WF_jobVars(part = "jobs" /\ ProviderStep)
  /\ SF_jobVars(part = "jobs" /\ Rerun)
  /\ WF_watchVars(part = "watch" /\ ObserverStep)
  /\ WF_watchVars(part = "watch" /\ TimerStep)
  /\ WF_multiVars(part = "watch-all" /\ LoopStep)
  /\ WF_poolVars(part = "pool" /\ \E r \in Readers : ReaderStep(r))

\* The state of every component has its type.
EventuallyTypeOK == JobsTypeOK /\ WatcherTypeOK /\ MultiTypeOK /\ PoolTypeOK
=============================================================================
