---------------------------- MODULE StoresProofs ----------------------------
(***************************************************************************)
(* Every behaviour of the composition is one of each of its components:    *)
(* the one that runs takes its own steps, the others stand still.  What    *)
(* each module of proofs shows of its component then holds of the          *)
(* composition, for every value of the constants.                          *)
(***************************************************************************)
EXTENDS MCStores, CrossFileEdgesProofs, StorePartsProofs

\* Whatever runs, no component leaves its own next-state relation.
LEMMA PartsRunAlone ==
  Spec => EdgesSpec /\ PhaseSpec /\ LimiterSpec /\ CacheSpec /\ AgentSpec
  <1> DEFINE vars == <<part, edgeVars, phaseVars, limiterVars, cacheVars, agentVars>>
  <1>1. Init => EdgesInit /\ PhaseInit /\ LimiterInit /\ CacheInit /\ AgentInit
    BY DEF Init
  <1>2. [Next]_vars => [EdgesNext]_edgeVars
    BY DEF Next
  <1>3. [Next]_vars => [PhaseNext]_phaseVars
    BY DEF Next
  <1>4. [Next]_vars => [LimiterNext]_limiterVars
    BY DEF Next
  <1>5. [Next]_vars => [CacheNext]_cacheVars
    BY DEF Next
  <1>6. [Next]_vars => [AgentNext]_agentVars
    BY DEF Next
  <1> QED
    BY <1>1, <1>2, <1>3, <1>4, <1>5, <1>6, PTL
    DEF Spec, EdgesSpec, PhaseSpec, LimiterSpec, CacheSpec, AgentSpec

\* The state of every component has its type.
THEOREM StoresTypes == Spec => []StoresTypeOK
  <1>1. EdgesTypeOK /\ PhaseTypeOK /\ LimiterTypeOK /\ CacheTypeOK /\ AgentTypeOK => StoresTypeOK
    BY DEF StoresTypeOK
  <1> QED
    BY <1>1, PartsRunAlone, EdgeTypes, PhaseTypes, LimiterTypes, CacheTypes, AgentTypes, PTL

\* What each component promises holds of the composition: edges fit their names, are stored
\* once, keep what a rewrite kept and stay resolved; an embedding phase accounts for every
\* batch; the limiter's window holds; a trim keeps the cap's worth; turns have no gaps.
THEOREM PromisesKept ==
  Spec => /\ [](EdgesFitTheirNames /\ EdgesStoredOnce /\ LinksSurvive /\ ResolvedStays)
          /\ [](PhaseAccounts /\ WindowHolds /\ TurnsGapless)
          /\ TrimKeepsCapWorth
  BY PartsRunAlone, EdgesAlwaysFit, EdgesNeitherLostNorDoubled, RewritesKeepLinks,
     ResolutionSurvives, AccountsAddUp, WindowAlwaysHolds, TurnsStayGapless,
     TrimsKeepCapWorth, PTL
=============================================================================
