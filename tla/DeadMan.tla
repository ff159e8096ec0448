-------------------------------- MODULE DeadMan --------------------------------
(***************************************************************************)
(* What a robot driven from a phone promises: it moves only while it keeps *)
(* hearing from the phone.  After Bound units of silence it stands still,  *)
(* as long as the process that watches the phone is alive.                 *)
(***************************************************************************)
EXTENDS Integers

CONSTANT Bound

VARIABLES silence,  \* time since the phone was last heard, up to Bound + 1
          moving,   \* the velocity command is not zero
          alive     \* the watching process

deadManVars == <<silence, moving, alive>>

Init ==
    /\ silence = Bound + 1
    /\ moving = FALSE
    /\ alive = TRUE

Hear ==
    /\ alive
    /\ silence' = 0
    /\ UNCHANGED <<moving, alive>>

Command ==
    /\ moving' \in BOOLEAN
    /\ alive /\ moving' => silence <= Bound
    /\ UNCHANGED <<silence, alive>>

\* Time does not pass the bound on a moving robot.
Pass ==
    /\ alive /\ moving => silence < Bound
    /\ silence' = IF silence > Bound THEN silence ELSE silence + 1
    /\ UNCHANGED <<moving, alive>>

Die ==
    /\ alive
    /\ alive' = FALSE
    /\ UNCHANGED <<silence, moving>>

Next == Hear \/ Command \/ Pass \/ Die

Spec == Init /\ [][Next]_deadManVars
================================================================================
