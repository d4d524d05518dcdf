--------------------------- MODULE RequestLimiter ---------------------------
(***************************************************************************)
(* _RpmRateLimiter of trelix/indexing/indexer.py: the requests-per-minute  *)
(* guard the summary threads of Phase 2.5 share.  acquire() holds one lock *)
(* from its first line to its return, sleep included, so the threads pass  *)
(* one at a time and which of them holds it makes no difference.           *)
(***************************************************************************)
EXTENDS Integers, Sequences

CONSTANTS
  RpmLimit,      \* requests a window admits; at 0 acquire() returns at once
  Window,        \* its length, 60 s, in ticks of the clock
  MaxRequests,   \* bound: requests ever admitted
  MaxClock       \* bound: the clock

ASSUME LimiterAssumption ==
  /\ RpmLimit \in Nat \ {0} /\ Window \in Nat \ {0}
  /\ MaxRequests \in Nat /\ MaxClock \in Nat

VARIABLES
  clock,      \* time.monotonic()
  now,        \* what the thread inside read from it
  admitted,   \* _admitted: the deque of admission times
  inside,     \* where the thread that holds the lock is
  wake        \* when its sleep ends

VARIABLE
  times       \* every admission time; looked back at by the property

limiterVars == <<clock, now, admitted, inside, wake, times>>

LimiterTypeOK ==
  /\ clock \in Nat /\ now \in Nat /\ wake \in Nat
  /\ inside \in {"nobody", "loop", "decide", "sleep"}
  /\ admitted \in Seq(Nat) /\ times \in Seq(Nat)

LimiterInit ==
  /\ clock = 0 /\ now = 0 /\ wake = 0
  /\ inside = "nobody"
  /\ admitted = << >> /\ times = << >>

----------------------------------------------------------------------------
Tick ==
  /\ clock < MaxClock
  /\ clock' = clock + 1
  /\ UNCHANGED <<now, admitted, inside, wake, times>>

EnterAcquire ==
  /\ inside = "nobody" /\ Len(times) < MaxRequests
  /\ inside' = "loop"
  /\ UNCHANGED <<clock, now, admitted, wake, times>>

ReadClock ==
  /\ inside = "loop"
  /\ now' = clock /\ inside' = "decide"
  /\ UNCHANGED <<clock, admitted, wake, times>>

HeadExpired == admitted # << >> /\ now - Head(admitted) >= Window

\* Variant: a window that has run out is over for all its requests.
PopAll ==
  /\ inside = "decide" /\ HeadExpired
  /\ admitted' = << >>
  /\ UNCHANGED <<clock, now, inside, wake, times>>

PopExpired ==
  /\ inside = "decide" /\ HeadExpired
  /\ admitted' = Tail(admitted)
  /\ UNCHANGED <<clock, now, inside, wake, times>>

Admit ==
  /\ inside = "decide" /\ ~HeadExpired
  /\ Len(admitted) < RpmLimit
  /\ admitted' = Append(admitted, now) /\ times' = Append(times, now)
  /\ inside' = "nobody"
  /\ UNCHANGED <<clock, now, wake>>

\* Until the oldest admission has left the window, and 50 ms more.
SleepOnIt ==
  /\ inside = "decide" /\ ~HeadExpired
  /\ Len(admitted) >= RpmLimit
  /\ wake' = clock + (Window - (now - Head(admitted)))
  /\ inside' = "sleep"
  /\ UNCHANGED <<clock, now, admitted, times>>

WakeUp ==
  /\ inside = "sleep" /\ clock >= wake
  /\ inside' = "loop"
  /\ UNCHANGED <<clock, now, admitted, wake, times>>

LimiterNext ==
  \/ Tick \/ EnterAcquire \/ ReadClock \/ PopExpired \/ Admit \/ SleepOnIt \/ WakeUp

LimiterSpec == LimiterInit /\ [][LimiterNext]_limiterVars

----------------------------------------------------------------------------
\* The window slides: no stretch of 60 s admits more than the limit, wherever it starts.  (A
\* fixed window lets twice the limit through across a boundary, as the class's docstring says.)
WindowHolds ==
  \A i \in DOMAIN times :
    i + RpmLimit \in DOMAIN times => times[i + RpmLimit] - times[i] >= Window
=============================================================================
