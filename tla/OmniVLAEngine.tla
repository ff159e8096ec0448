----------------------------- MODULE OmniVLAEngine -----------------------------
(***************************************************************************)
(* The OmniVLA-edge policy as far as it has a state: the ring of the last  *)
(* frames it was shown, stacked with the current one last.                 *)
(***************************************************************************)
EXTENDS Integers, Sequences

CONSTANT ContextSize   \* frames stacked before the current one

ASSUME EngineAssumption == ContextSize \in Nat

\* Mutants: one frame too many is kept; the newest frame is dropped.
PushKeepsOneMore(ring, f) ==
    IF Len(ring) > ContextSize + 1 THEN Append(Tail(ring), f) ELSE Append(ring, f)
PushDropsNewest(ring, f) ==
    IF Len(ring) > ContextSize THEN ring ELSE Append(ring, f)

PushFrame(ring, f) ==
    IF Len(ring) > ContextSize THEN Append(Tail(ring), f) ELSE Append(ring, f)

\* The model's input: the ring, padded in front with its oldest frame.
StackFrames(ring) ==
    LET missing == ContextSize + 1 - Len(ring)
    IN  [i \in 1 .. ContextSize + 1 |->
            IF i <= missing THEN ring[1] ELSE ring[i - missing]]
================================================================================
