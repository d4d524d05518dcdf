------------------------------ MODULE MCStores ------------------------------
(***************************************************************************)
(* The components beside the pipeline whose promises are safety: edges     *)
(* between files, the embedding phase, the request limiter, the embedding  *)
(* cache and agent sessions.  They share no state, so a behaviour is one   *)
(* of one of them, chosen at the start, and TLC explores the union of      *)
(* their state spaces instead of the product.                              *)
(***************************************************************************)
EXTENDS CrossFileEdges, EmbedPhase, RequestLimiter, EmbeddingCache, AgentTurns

VARIABLE part

\* Two files, whose contents call each other: "f" defines the class A and its method run with
\* one body or another, or with both (a getter and its setter), "g" a main that calls them, with
\* or without a second run to confuse.
S(q, b) == [qn |-> q, body |-> b]
U(n, h, k) == [name |-> n, hint |-> h, kind |-> k]

MCDefs == [t \in Texts |->
  CASE t = "t1" -> <<S("A", 1), S("A.run", 1)>>
    [] t = "t2" -> <<S("A", 2), S("A.run", 2)>>
    [] t = "t3" -> <<S("main", 1)>>
    [] t = "t4" -> <<S("main", 1), S("B.run", 1)>>
    [] OTHER -> <<S("A", 1), S("A.run", 1), S("A.run", 2)>>]

MCUses == [s \in UNION {{MCDefs[t][i] : i \in DOMAIN MCDefs[t]} : t \in Texts} |->
  CASE s.qn = "main" -> {U("run", NoName, "call"), U("A", NoName, "type")}
    [] s.qn = "A"    -> {U("run", "A", "call")}
    [] OTHER         -> {}]

MCShort == [q \in QNames |-> IF q \in {"A.run", "B.run"} THEN "run" ELSE q]
MCOwner == [q \in QNames |-> CASE q = "A.run" -> "A" [] q = "B.run" -> "B" [] OTHER -> NoName]

----------------------------------------------------------------------------
Init ==
  /\ part \in {"edges", "phase", "limiter", "cache", "agent"}
  /\ EdgesInit /\ PhaseInit /\ LimiterInit /\ CacheInit /\ AgentInit

Next ==
  /\ UNCHANGED part
  /\ \/ /\ part = "edges" /\ EdgesNext
        /\ UNCHANGED <<phaseVars, limiterVars, cacheVars, agentVars>>
     \/ /\ part = "phase" /\ PhaseNext
        /\ UNCHANGED <<edgeVars, limiterVars, cacheVars, agentVars>>
     \/ /\ part = "limiter" /\ LimiterNext
        /\ UNCHANGED <<edgeVars, phaseVars, cacheVars, agentVars>>
     \/ /\ part = "cache" /\ CacheNext
        /\ UNCHANGED <<edgeVars, phaseVars, limiterVars, agentVars>>
     \/ /\ part = "agent" /\ AgentNext
        /\ UNCHANGED <<edgeVars, phaseVars, limiterVars, cacheVars>>

Spec == Init /\ [][Next]_<<part, edgeVars, phaseVars, limiterVars, cacheVars, agentVars>>

\* The state of every component has its type.
StoresTypeOK == EdgesTypeOK /\ PhaseTypeOK /\ LimiterTypeOK /\ CacheTypeOK /\ AgentTypeOK
=============================================================================
