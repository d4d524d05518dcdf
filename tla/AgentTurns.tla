----------------------------- MODULE AgentTurns -----------------------------
(***************************************************************************)
(* Agent sessions: AgentLoop.run() of trelix/agent/loop.py and the tables  *)
(* agent_sessions and agent_turns of trelix/store/db.py.  Every step opens *)
(* a connection of its own, so the lock inside Database orders nothing     *)
(* between two loops that resume one session; and a session may be deleted *)
(* or evicted under a running loop.  A turn that cannot be stored is       *)
(* dropped, and the loop goes on.                                          *)
(***************************************************************************)
EXTENDS Integers, FiniteSets, FiniteSetsExt

CONSTANTS
  Sessions,    \* session ids
  Loops,       \* calls of run() at one time
  NoSession,
  MaxTurns,    \* agent_max_turns
  MaxRuns,     \* bound: calls of run()
  MaxDrops     \* bound: sessions deleted or evicted, and statements that fail

ASSUME AgentAssumption ==
  /\ NoSession \notin Sessions
  /\ MaxTurns \in Nat /\ MaxRuns \in Nat /\ MaxDrops \in Nat

VARIABLES
  sessions,    \* turn_count of each row of agent_sessions, -1 where there is none
  turns,       \* rows of agent_turns: session and turn_index
  loop,        \* where each call is, its session, the turns it took, its turn_index
  history      \* turns the call knows of: those it loaded and its own

VARIABLES      \* read by no action
  reborn,      \* sessions deleted between a loop's SELECT and its INSERT
  runs, drops  \* spent so far, of MaxRuns and MaxDrops

agentVars == <<sessions, turns, loop, history, reborn, runs, drops>>

AgentTypeOK ==
  /\ sessions \in [Sessions -> Int] /\ turns \subseteq Sessions \X Int
  /\ loop \in [Loops -> [at : {"out", "evict", "open", "think", "select", "insert"},
                         session : Sessions \cup {NoSession}, taken : 0 .. MaxTurns, index : Nat]]
  /\ history \in [Loops -> Nat]
  /\ reborn \subseteq Sessions /\ runs \in 0 .. MaxRuns /\ drops \in 0 .. MaxDrops

Out == [at |-> "out", session |-> NoSession, taken |-> 0, index |-> 0]

AgentInit ==
  /\ sessions = [s \in Sessions |-> -1] /\ turns = {}
  /\ loop = [l \in Loops |-> Out] /\ history = [l \in Loops |-> 0]
  /\ reborn = {} /\ runs = 0 /\ drops = 0

TurnsOf(s) == {t \in turns : t[1] = s}
Indices(s) == {t[2] : t \in TurnsOf(s)}
GoTo(l, at) == loop' = [loop EXCEPT ![l].at = at]
DropFault == drops < MaxDrops /\ drops' = drops + 1

----------------------------------------------------------------------------
StartRun(l, s) ==
  /\ loop[l].at = "out" /\ runs < MaxRuns
  /\ loop' = [loop EXCEPT ![l] = [Out EXCEPT !.at = "evict", !.session = s]]
  /\ history' = [history EXCEPT ![l] = 0]
  /\ runs' = runs + 1
  /\ UNCHANGED <<sessions, turns, reborn, drops>>

\* ON DELETE CASCADE.
Remove(set) ==
  /\ sessions' = [s \in Sessions |-> IF s \in set THEN -1 ELSE sessions[s]]
  /\ turns' = {t \in turns : t[1] \notin set}
  /\ reborn' = (reborn \ set) \cup {loop[l].session : l \in {k \in Loops :
                                     loop[k].at = "insert" /\ loop[k].session \in set}}

\* evict_stale_agent_sessions(), if a maximal age is configured: the stale ones go, be it the
\* session this call resumes or one another loop is waiting for its model in.
EvictStale(l, stale) ==
  /\ loop[l].at = "evict"
  /\ IF stale = {} THEN UNCHANGED <<sessions, turns, reborn, drops>>
                   ELSE DropFault /\ Remove(stale)
  /\ GoTo(l, "open")
  /\ UNCHANGED <<history, runs>>

\* delete_agent_session(), by any caller.
DeleteSession(s) ==
  /\ sessions[s] # -1 /\ DropFault
  /\ Remove({s})
  /\ UNCHANGED <<loop, history, runs>>

\* upsert_agent_session() and, for a resumed session, get_agent_turns(); if it fails the loop
\* runs all the same, without history and perhaps without a session row.
OpenSession(l) ==
  /\ loop[l].at = "open"
  /\ LET s == loop[l].session IN
       \/ /\ sessions' = [sessions EXCEPT ![s] = IF @ = -1 THEN 0 ELSE @]
          /\ history' = [history EXCEPT ![l] = Cardinality(TurnsOf(s))]
          /\ UNCHANGED drops
       \/ DropFault /\ UNCHANGED <<sessions, history>>
  /\ GoTo(l, "think")
  /\ UNCHANGED <<turns, reborn, runs>>

\* The model names an action and it is executed, within agent_max_turns.
TakeTurn(l) ==
  /\ loop[l].at = "think" /\ loop[l].taken < MaxTurns
  /\ loop' = [loop EXCEPT ![l].at = "select", ![l].taken = @ + 1]
  /\ history' = [history EXCEPT ![l] = @ + 1]
  /\ UNCHANGED <<sessions, turns, reborn, runs, drops>>

\* The last turn was an answer or a question, the model failed, or the turns are used up.
EndRun(l) ==
  /\ loop[l].at = "think"
  /\ loop' = [loop EXCEPT ![l] = Out]
  /\ UNCHANGED <<sessions, turns, history, reborn, runs, drops>>

\* Variant: the caller numbers its turns by the history it holds.
SelectIndexByHistory(l) ==
  /\ loop[l].at = "select"
  /\ loop' = [loop EXCEPT ![l].at = "insert", ![l].index = history[l] - 1]
  /\ UNCHANGED <<sessions, turns, history, reborn, runs, drops>>

\* insert_agent_turn(): the SELECT of MAX(turn_index) + 1 runs before the transaction opens ...
SelectIndex(l) ==
  /\ loop[l].at = "select"
  /\ loop' = [loop EXCEPT ![l].at = "insert", ![l].index =
                IF Indices(loop[l].session) = {} THEN 0 ELSE Max(Indices(loop[l].session)) + 1]
  /\ UNCHANGED <<sessions, turns, history, reborn, runs, drops>>

\* ... and INSERT and turn_count are one commit.  An index taken meanwhile (UNIQUE) or a
\* session gone meanwhile (FOREIGN KEY) or any other failure drops the turn.
InsertTurn(l) ==
  /\ loop[l].at = "insert"
  /\ LET s == loop[l].session
         row == <<s, loop[l].index>>
         fits == sessions[s] # -1 /\ row \notin turns
     IN \/ /\ fits
           /\ turns' = turns \cup {row}
           /\ sessions' = [sessions EXCEPT ![s] = @ + 1]
           /\ UNCHANGED drops
        \/ ~fits /\ UNCHANGED <<sessions, turns, drops>>
        \/ fits /\ DropFault /\ UNCHANGED <<sessions, turns>>
  /\ loop' = [loop EXCEPT ![l].at = "think", ![l].index = 0]
  /\ UNCHANGED <<history, reborn, runs>>

AgentNext ==
  \/ \E l \in Loops, s \in Sessions : StartRun(l, s)
  \/ \E l \in Loops :
       \/ \E stale \in SUBSET {s \in Sessions : sessions[s] # -1} : EvictStale(l, stale)
       \/ OpenSession(l) \/ TakeTurn(l) \/ SelectIndex(l) \/ InsertTurn(l) \/ EndRun(l)
  \/ \E s \in Sessions : DeleteSession(s)

AgentSpec == AgentInit /\ [][AgentNext]_agentVars

----------------------------------------------------------------------------
\* A session's turns are numbered 0 .. n-1 and turn_count is n, though turns were dropped and
\* two loops wrote to it at once; save for a session deleted, and created again, between a
\* loop's SELECT and its INSERT, which then starts at a number of the old one.
TurnsGapless ==
  \A s \in Sessions \ reborn :
    IF sessions[s] = -1 THEN TurnsOf(s) = {}
    ELSE Indices(s) = 0 .. sessions[s] - 1
=============================================================================
