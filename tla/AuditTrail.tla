------------------------------ MODULE AuditTrail ------------------------------
(***************************************************************************)
(* What the audit log promises a reader: events are added at the end, only *)
(* the oldest are ever taken away, and nothing in between is edited,       *)
(* reordered or lost.  Nothing here knows of ids, hashes or anchors.       *)
(***************************************************************************)
EXTENDS Naturals, Sequences

CONSTANT Event

VARIABLES
  history,  \* every event ever recorded
  shown     \* the events a reader still finds

Init == history = <<>> /\ shown = <<>>

Record(e) == history' = Append(history, e) /\ shown' = Append(shown, e)

Retire(n) == shown' = SubSeq(shown, n + 1, Len(shown)) /\ UNCHANGED history

Next == (\E e \in Event : Record(e)) \/ (\E n \in 1..Len(shown) : Retire(n))

Spec == Init /\ [][Next]_<<history, shown>>
=============================================================================
