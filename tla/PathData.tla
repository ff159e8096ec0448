------------------------------- MODULE PathData -------------------------------
(* The paths on the path topic, told apart by identity and by whether they     *)
(* make the robot move.                                                        *)
EXTENDS Integers

CONSTANTS Paths,         \* what a Path message may carry
          MovingPaths,   \* the paths whose command exceeds cmd_epsilon
          Empty,         \* the path without poses
          None           \* Python's None

ASSUME PathAssumption ==
    /\ MovingPaths \subseteq Paths
    /\ Empty \in Paths
    /\ Empty \notin MovingPaths
    /\ None \notin Paths
===============================================================================
