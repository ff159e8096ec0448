----------------------------- MODULE PathFollower -----------------------------
(***************************************************************************)
(* The path follower: it keeps the last path it received and, at its own   *)
(* rate, turns it into a velocity command.  One executor thread runs the   *)
(* path callback, the stop service and the timer, so each is one step.     *)
(*                                                                         *)
(* The steering law is a function of the path alone, so a command is named *)
(* by the path it is computed from, and the zero command by the empty      *)
(* path.  A command below cmd_epsilon, which the node treats as a stop, is *)
(* the zero command here.                                                  *)
(***************************************************************************)
EXTENDS PathData

CONSTANT HoldTimeout   \* hold_timeout_sec, in time units; 0 disables the hold

ASSUME FollowerAssumption == HoldTimeout \in Nat

VARIABLES latest,       \* the last path in the expected frame
          mismatch,     \* the last message was in another frame
          pathNew,      \* a message arrived since the last decision
          held,         \* the last moving command, or None
          heldAge,      \* time since it was computed, up to HoldTimeout + 1
          forcedStop,   \* the stop service is engaged
          cmd,          \* the last command published
          pathAge       \* history: time since a message arrived, saturated

followerVars == <<latest, mismatch, pathNew, held, heldAge, forcedStop, cmd, pathAge>>

\* WaypointPD.compute, up to the identity of the command.
Law(p) == IF p \in MovingPaths THEN p ELSE Empty

FollowerInit ==
    /\ latest = Empty
    /\ mismatch = FALSE
    /\ pathNew = FALSE
    /\ held = None
    /\ heldAge = 0
    /\ forcedStop = FALSE
    /\ cmd = Empty
    /\ pathAge = 0

\* Mutant: the message is not marked as news.
OnPathUnmarked(p, expectedFrame) ==
    /\ mismatch' = ~expectedFrame
    /\ latest' = IF expectedFrame THEN p ELSE Empty
    /\ pathAge' = 0
    /\ UNCHANGED <<pathNew, held, heldAge, forcedStop, cmd>>

OnPath(p, expectedFrame) ==
    /\ pathNew' = TRUE
    /\ mismatch' = ~expectedFrame
    /\ latest' = IF expectedFrame THEN p ELSE Empty
    /\ pathAge' = 0
    /\ UNCHANGED <<held, heldAge, forcedStop, cmd>>

OnForcedStop(engage) ==
    /\ forcedStop' = engage
    /\ held' = None
    /\ heldAge' = 0
    /\ UNCHANGED <<latest, mismatch, pathNew, cmd, pathAge>>
------------------------------------------------------------------------------
(* The timer: a forced stop, or one of the branches of _decide_cmd.         *)

Release ==
    /\ held' = None
    /\ heldAge' = 0

Latch(c) ==
    /\ held' = c
    /\ heldAge' = 0

MayHold ==
    /\ HoldTimeout > 0
    /\ held # None
    /\ heldAge <= HoldTimeout

\* Mutant: a forced stop uses the news up.
TickForcedConsumes ==
    /\ forcedStop
    /\ cmd' = Empty
    /\ pathNew' = FALSE
    /\ UNCHANGED <<latest, mismatch, held, heldAge, forcedStop, pathAge>>

TickForced ==
    /\ forcedStop
    /\ cmd' = Empty
    /\ UNCHANGED <<latest, mismatch, pathNew, held, heldAge, forcedStop, pathAge>>

Deciding ==
    /\ ~forcedStop
    /\ pathNew' = FALSE
    /\ UNCHANGED <<latest, mismatch, forcedStop, pathAge>>

\* Mutants: a frame mismatch, or a fresh stop, coasts on the held command; the
\* command follows the latch instead of the path.
TickMismatchCoasts ==
    /\ Deciding
    /\ mismatch
    /\ cmd' = held
    /\ UNCHANGED <<held, heldAge>>

TickFreshStopCoasts ==
    /\ Deciding
    /\ ~mismatch
    /\ latest \notin MovingPaths
    /\ pathNew
    /\ cmd' = IF held # None THEN held ELSE Empty
    /\ UNCHANGED <<held, heldAge>>

TickMovingLags ==
    /\ Deciding
    /\ ~mismatch
    /\ latest \in MovingPaths
    /\ Latch(Law(latest))
    /\ cmd' = IF held # None THEN held ELSE Law(latest)

TickMismatch ==
    /\ Deciding
    /\ mismatch
    /\ Release
    /\ cmd' = Law(latest)

TickMoving ==
    /\ Deciding
    /\ ~mismatch
    /\ latest \in MovingPaths
    /\ Latch(Law(latest))
    /\ cmd' = Law(latest)

\* A fresh stop is honoured at once.
TickFreshStop ==
    /\ Deciding
    /\ ~mismatch
    /\ latest \notin MovingPaths
    /\ pathNew
    /\ Release
    /\ cmd' = Law(latest)

\* No message since the last decision: hold the last moving command if it is
\* recent, else stop.
TickNoNews ==
    /\ Deciding
    /\ ~mismatch
    /\ latest \notin MovingPaths
    /\ ~pathNew
    /\ IF MayHold
       THEN /\ cmd' = held
            /\ UNCHANGED <<held, heldAge>>
       ELSE /\ Release
            /\ cmd' = Law(latest)

FollowerTick == TickForced \/ TickMismatch \/ TickMoving \/ TickFreshStop \/ TickNoNews

FollowerTime ==
    /\ heldAge' = IF held # None /\ heldAge <= HoldTimeout THEN heldAge + 1 ELSE heldAge
    /\ pathAge' = IF pathAge <= HoldTimeout THEN pathAge + 1 ELSE pathAge
    /\ UNCHANGED <<latest, mismatch, pathNew, held, forcedStop, cmd>>

Init == FollowerInit

Next ==
    \/ \E p \in Paths, b \in BOOLEAN : OnPath(p, b)
    \/ \E b \in BOOLEAN : OnForcedStop(b)
    \/ FollowerTick
    \/ FollowerTime

Spec == Init /\ [][Next]_followerVars

\* The executor serves the timer; the clock advances.
FairSpec == Spec /\ WF_followerVars(FollowerTick) /\ WF_followerVars(FollowerTime)
------------------------------------------------------------------------------
TypeOK ==
    /\ latest \in Paths
    /\ mismatch \in BOOLEAN
    /\ pathNew \in BOOLEAN
    /\ held \in MovingPaths \cup {None}
    /\ heldAge \in 0 .. HoldTimeout + 1
    /\ forcedStop \in BOOLEAN
    /\ cmd \in Paths
    /\ pathAge \in 0 .. HoldTimeout + 1

\* A latched command is the command of the path being followed, unless a
\* message has arrived that the timer has not looked at yet.
\* (_on_path sets _path_new and _latest together)
HeldIsCurrent ==
    held # None /\ ~pathNew => latest = held /\ ~mismatch

\* The hold branch at the end of _decide_cmd is never taken: between messages
\* the same path gives the same command, and a message bypasses the hold.
HoldNeverApplies ==
    ~(~forcedStop /\ ~mismatch /\ latest \notin MovingPaths /\ ~pathNew /\ MayHold)

\* Together: the follower's state at any time.
FollowerInv ==
    /\ TypeOK
    /\ HeldIsCurrent
    /\ HoldNeverApplies

\* Every command published is zero or the command of the path that is latest
\* at that moment: "this hold NEVER masks a fresh inference"
\* (path_follower_node.py:44), and it never revives an older path either.
NeverAnOlderPath ==
    [][cmd' # cmd => cmd' \in {Empty, Law(latest)}]_followerVars

\* While the stop service is engaged the robot gets no motion, and what arrives
\* meanwhile is not lost: the first decision after the release is about it.
\* (_tick leaves _path_new alone under a forced stop)
ForcedStopKeepsNews ==
    [][forcedStop /\ forcedStop' => (pathNew => pathNew') /\ cmd' \in {cmd, Empty}]_followerVars

\* A stop, once received, reaches the wheels unless another path replaces it.
\* (_on_path, _decide_cmd)
StopArrives ==
    (latest = Empty) ~> (cmd = Empty \/ latest # Empty)
==============================================================================
