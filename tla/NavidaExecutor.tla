---------------------------- MODULE NavidaExecutor ----------------------------
(***************************************************************************)
(* The NaVIDA executor on the robot: it asks a remote policy for a chunk   *)
(* of primitives, executes them against odometry and takes the motor's     *)
(* power away after each one, so that the next image is exposed with the   *)
(* robot standing.  One thread runs every callback and the control timer;  *)
(* the inference runs in a worker, and the motor's power is switched by a  *)
(* service that answers late, refuses or never answers.                    *)
(*                                                                         *)
(* A handler is a function from the node to the set of nodes it may leave, *)
(* because it reads clocks and poses; each action applies one handler.     *)
(***************************************************************************)
EXTENDS NavidaCycle, Sequences

CONSTANTS Goals,      \* text goals
          MaxChunk,   \* bound: primitives in one reply
          MaxCalls    \* bound: power calls the service has not answered

ASSUME ExecutorAssumption ==
    /\ None \notin Goals
    /\ None \notin Primitives
    /\ MaxChunk \in Nat \ {0}
    /\ MaxCalls \in Nat \ {0}
    /\ None \notin {"waiting", "accepted", "refused"}

VARIABLES node,     \* the fields of NavidaStepBridge, and what it sent last
          running,  \* "up", "closing" in destroy_node, "gone"
          motor,    \* external: the motor has power
          lag,      \* external: a drive command may still take effect
          rolling,  \* external: the robot moves
          rolled,   \* history: it has moved since the last odometry sample
          strayed   \* history: it has moved since the capture barrier

executorVars == <<node, running, motor, lag, rolling, rolled, strayed>>

\* latest and token carry history: whether the robot has moved since exposure.
Frame == [goal : Goals \cup {None}, after : BOOLEAN, moved : BOOLEAN]
Token == [goal : Goals, moved : BOOLEAN]

Replies == UNION {[1 .. n -> Primitives] : n \in 1 .. MaxChunk}

\* What became of a request: still running, failed, or its chunk.
Future == [state : {"running", "error"}, chunk : {<<>>}]
              \cup [state : {"chunk"}, chunk : Replies]

Node ==
    [cycle  : Cycle,
     goal   : Goals \cup {None},
     latest : Frame \cup {None},                       \* after: past the barrier
     token  : Token \cup {None},                       \* the request in the worker
     future : Future \cup {None},
     queue  : Seq(Primitives),                         \* the rest of the chunk
     plan   : Goals \cup {None},                       \* history: the chunk's goal
     power  : {"stop", "disabling", "off", "enabling", "verify", "ready"},
     seen   : BOOLEAN,                                 \* a pose since enabling
     call   : {None, "waiting", "accepted", "refused"},
     calls  : Seq(BOOLEAN),                            \* calls not answered yet
     drive  : BOOLEAN]                                 \* the last command moves

ASSUME RequestAssumption == None \notin Token \cup Future

ExecutorInit ==
    /\ node = [cycle |-> NewCycle, goal |-> None, latest |-> None, token |-> None,
               future |-> None, queue |-> <<>>, plan |-> None, power |-> "stop",
               seen |-> FALSE, call |-> None, calls |-> <<>>, drive |-> FALSE]
    /\ running = "up"
    /\ motor \in BOOLEAN
    /\ lag \in BOOLEAN
    /\ rolling \in BOOLEAN
    /\ rolled = TRUE
    /\ strayed = TRUE
------------------------------------------------------------------------------
(* The motor's power.                                                        *)

\* _power_tick, its first half: the call has been answered, or gives up.
FailPower(n) == [n EXCEPT !.cycle = Fail(@), !.power = "stop", !.call = None,
                          !.drive = FALSE]

ConfirmPower(n) ==
    CASE n.power = "disabling" ->
           [n EXCEPT !.cycle = ConfirmMotorDisabled(@), !.power = "off", !.call = None]
      [] n.power = "enabling" ->
           [n EXCEPT !.power = "verify", !.seen = FALSE, !.call = None]
      [] OTHER -> [n EXCEPT !.call = None]

\* Its second half: the next call.
EnableDue(n) == n.power = "off" /\ ~n.cycle.settling

CallPower(n) ==
    IF n.power = "stop" \/ EnableDue(n)
    THEN [n EXCEPT !.drive = FALSE, !.call = "waiting",
                   !.calls = Append(@, EnableDue(n)),
                   !.power = IF EnableDue(n) THEN "enabling" ELSE "disabling"]
    ELSE n

PowerTick(n) ==
    CASE n.call = "waiting" ->
           {n} \cup (IF Len(n.calls) < MaxCalls THEN {CallPower(FailPower(n))} ELSE {})
      [] n.call = "refused" -> {CallPower(FailPower(n))}
      [] n.call = "accepted" -> {CallPower(ConfirmPower(n))}
      [] n.call = None ->
           {CallPower(n)}
           \cup (IF n.power = "verify" THEN {CallPower(FailPower(n))} ELSE {})

\* _stop_power: a zero command, and the motor is to be disabled.
StopPower(n) ==
    PowerTick([n EXCEPT !.drive = FALSE,
                        !.power = IF @ \in {"stop", "disabling"} THEN @ ELSE "stop"])
------------------------------------------------------------------------------
(* The callbacks.                                                            *)

\* Mutants: the rest of the old chunk stays; a new goal releases the stop.
SetGoalKeepsChunk(n, g) ==
    StopPower([n EXCEPT !.goal = g, !.latest = None,
                        !.cycle = Cancel(@, n.cycle.stopped \/ g = None)])

SetGoalReleases(n, g) ==
    StopPower([n EXCEPT !.goal = g, !.latest = None, !.queue = <<>>,
                        !.cycle = Cancel(@, g = None)])

SetGoal(n, g) ==
    StopPower([n EXCEPT !.goal = g, !.latest = None, !.queue = <<>>,
                        !.cycle = Cancel(@, n.cycle.stopped \/ g = None)])

\* A frame's goal counts too; an equal one restarts nothing.
TakeFrame(n, f) ==
    {[m EXCEPT !.latest = f] : m \in IF f.goal = n.goal THEN {n} ELSE SetGoal(n, f.goal)}

ForceStop(n, stop) ==
    StopPower([n EXCEPT !.cycle = Cancel(@, stop), !.queue = <<>>])

InvalidOdom(n) == StopPower([n EXCEPT !.cycle = Fail(@)])

\* Frames exposed so far are before a barrier set now.
Barrier(n) ==
    IF n.latest = None THEN n ELSE [n EXCEPT !.latest.after = FALSE]

\* The poses after enabling must show the robot standing as well.
Verifies(n, s) == n.power = "verify" /\ n.seen /\ s.still /\ s.long

TakeOdom(n, s) ==
    LET seen == [n EXCEPT !.cycle = Observe(@, s),
                          !.power = IF Verifies(n, s) THEN "ready" ELSE @,
                          !.seen  = @ \/ n.power = "verify"]
    IN  IF Completes(n.cycle, s) \/ (Verifies(n, s) /\ seen.cycle.action = None)
        THEN Barrier(seen)
        ELSE seen

SetsBarrier(n, s) ==
    Completes(n.cycle, s) \/ (Verifies(n, s) /\ Observe(n.cycle, s).action = None)
------------------------------------------------------------------------------
(* The control timer.                                                        *)

Waits(n) == n.token = None \/ n.future.state = "running"

Collected(n) == [n EXCEPT !.token = None, !.future = None]

FailedRequest(n) == [Collected(n) EXCEPT !.cycle = Fail(@)]

\* A reply older than 1.5 s fails the cycle; another starts its first primitive.
Answered(n) ==
    LET answered == [Collected(n) EXCEPT !.cycle.pending = FALSE]
    IN  {FailedRequest(n),
         IF MayStart(n.cycle)
         THEN [answered EXCEPT !.cycle = Start(@, Head(n.future.chunk)),
                               !.queue = Tail(n.future.chunk),
                               !.plan  = n.token.goal]
         ELSE answered}

\* Mutant: the error of a request that was cancelled counts.
FinishAnyRequest(n) ==
    CASE Waits(n) -> {n}
      [] ~Waits(n) /\ n.future.state = "error" -> {FailedRequest(n)}
      [] ~Waits(n) /\ n.future.state = "chunk" ->
           IF n.cycle.pending THEN Answered(n) ELSE {Collected(n)}

\* What is left of a cancelled request is only collected.
FinishRequest(n) ==
    CASE Waits(n) -> {n}
      [] ~Waits(n) /\ ~n.cycle.pending -> {Collected(n)}
      [] ~Waits(n) /\ n.cycle.pending ->
           IF n.future.state = "error" THEN {FailedRequest(n)} ELSE Answered(n)

\* Mutant: the motor's power is not asked for.
CommandedUnpowered(n) ==
    {[n EXCEPT !.cycle = c.cycle, !.drive = c.drive] : c \in Command(n.cycle, TRUE)}

Commanded(n) ==
    {[n EXCEPT !.cycle = c.cycle, !.drive = c.drive] :
        c \in Command(n.cycle, n.power = "ready")}

\* Mutant: the motor keeps its power while the stop is confirmed.
KeepsPower(n) == {n}

\* Settling takes the motor's power away.
CutPower(n) ==
    IF n.cycle.settling /\ n.power \in {"ready", "enabling", "verify"}
    THEN StopPower(n)
    ELSE {n}

DropChunk(n) == IF n.cycle.stopped THEN [n EXCEPT !.queue = <<>>] ELSE n

NextPrimitive(n) ==
    /\ n.queue # <<>>
    /\ n.power = "ready"
    /\ n.future = None
    /\ n.cycle.action = None
    /\ ~n.cycle.settling
    /\ MayStart(n.cycle)

\* The latest frame is asked about, if it was exposed after the barrier.
MayRequest(n) ==
    /\ n.power = "ready"
    /\ n.latest # None
    /\ n.goal # None
    /\ n.future = None
    /\ CanRequest(n.cycle)
    /\ n.latest.after

\* A frame older than 750 ms is not asked about.
NextStep(n) ==
    IF NextPrimitive(n)
    THEN {[n EXCEPT !.cycle = Start(@, Head(n.queue)), !.queue = Tail(@)]}
    ELSE {n} \cup
         (IF MayRequest(n)
          THEN {[n EXCEPT !.cycle.pending = TRUE, !.future = [state |-> "running", chunk |-> <<>>],
                          !.token = [goal |-> n.goal, moved |-> n.latest.moved]]}
          ELSE {})

ControlTick(n) ==
    UNION {UNION {UNION {UNION {NextStep(DropChunk(d)) : d \in CutPower(c)}
                           : c \in Commanded(b)}
                    : b \in IF a.power = "ready" THEN FinishRequest(a) ELSE {a}}
             : a \in PowerTick(n)}
------------------------------------------------------------------------------
(* The process.  destroy_node runs the same callbacks until the power is     *)
(* back, or five seconds are over.                                           *)

Alive == running = "up" \/ (running = "closing" /\ node.power # "ready")

\* What a handler leaves behind; a drive command may take effect late.
Becomes(nodes) ==
    /\ Alive
    /\ node' \in nodes
    /\ lag' = (lag \/ node'.drive)
    /\ UNCHANGED <<running, motor, rolling>>

OnGoal(g) == Becomes(SetGoal(node, g)) /\ UNCHANGED <<rolled, strayed>>

\* A frame exposed after the barrier has seen what the robot did since then; a
\* frame from before it may have seen anything.
OnObservation(f) ==
    /\ f.moved \in IF f.after THEN {rolling, strayed} ELSE {TRUE}
    /\ Becomes(TakeFrame(node, f))
    /\ UNCHANGED <<rolled, strayed>>

OnForcedStop(stop) == Becomes(ForceStop(node, stop)) /\ UNCHANGED <<rolled, strayed>>

OnOdom(s) ==
    /\ s.still = ~rolled
    /\ Becomes({TakeOdom(node, s)})
    /\ rolled' = rolling
    /\ strayed' = IF SetsBarrier(node, s) THEN rolling ELSE strayed

OnInvalidOdom == Becomes(InvalidOdom(node)) /\ UNCHANGED <<rolled, strayed>>

OnTick == Becomes(ControlTick(node)) /\ UNCHANGED <<rolled, strayed>>

DestroyNode ==
    /\ running = "up"
    /\ running' = "closing"
    /\ node' \in StopPower([node EXCEPT !.cycle = Cancel(@, TRUE)])
    /\ UNCHANGED <<motor, lag, rolling, rolled, strayed>>

\* While it waits, destroy_node drives the power handshake itself.
ClosingTick ==
    /\ running = "closing"
    /\ Becomes(PowerTick(node))
    /\ UNCHANGED <<rolled, strayed>>

Exit ==
    /\ running = "closing"
    /\ running' = "gone"
    /\ UNCHANGED <<node, motor, lag, rolling, rolled, strayed>>

\* No advancing odometry stamp for 0.3 s.
OdomGoesStale ==
    /\ node.cycle.fresh
    /\ node' = [node EXCEPT !.cycle.fresh = FALSE]
    /\ UNCHANGED <<running, motor, lag, rolling, rolled, strayed>>

\* The worker: the HTTP call returns a chunk, or fails, or answers another frame.
WorkerDone ==
    /\ node.future # None
    /\ node.future.state = "running"
    /\ \E result \in Future : result.state # "running" /\ node' = [node EXCEPT !.future = result]
    /\ UNCHANGED <<running, motor, lag, rolling, rolled, strayed>>
------------------------------------------------------------------------------
(* External: the power service and the wheels.  The service takes its calls *)
(* in order, also those the node has given up; disabling the motor drops     *)
(* the commands it has queued.                                               *)

PowerServed(ok) ==
    /\ node.calls # <<>>
    /\ motor' = IF ok THEN node.calls[1] ELSE motor
    /\ lag' = IF ok /\ ~node.calls[1] THEN FALSE ELSE lag
    /\ node' = [node EXCEPT !.calls = Tail(@),
                            !.call = IF @ = "waiting" /\ Len(node.calls) = 1
                                     THEN (IF ok THEN "accepted" ELSE "refused")
                                     ELSE @]
    /\ UNCHANGED <<running, rolling, rolled, strayed>>

Touch(f) == IF f = None THEN None ELSE [f EXCEPT !.moved = TRUE]

WheelsRoll ==
    /\ motor
    /\ node.drive \/ lag
    /\ ~rolling
    /\ rolling' = TRUE
    /\ rolled' = TRUE
    /\ strayed' = TRUE
    /\ node' = [node EXCEPT !.latest = Touch(@), !.token = Touch(@)]
    /\ UNCHANGED <<running, motor, lag>>

WheelsHalt ==
    /\ rolling
    /\ ~(motor /\ node.drive)
    /\ rolling' = FALSE
    /\ UNCHANGED <<node, running, motor, lag, rolled, strayed>>

ExecutorNext ==
    \/ \E g \in Goals \cup {None} : OnGoal(g)
    \/ \E f \in Frame : OnObservation(f)
    \/ \E stop \in BOOLEAN : OnForcedStop(stop)
    \/ \E s \in Sample : OnOdom(s)
    \/ OnInvalidOdom \/ OnTick \/ OdomGoesStale \/ WorkerDone
    \/ DestroyNode \/ ClosingTick \/ Exit
    \/ \E ok \in BOOLEAN : PowerServed(ok)
    \/ WheelsRoll \/ WheelsHalt

ExecutorSpec == ExecutorInit /\ [][ExecutorNext]_executorVars
------------------------------------------------------------------------------
ExecutorTypeOK ==
    /\ node \in Node
    /\ running \in {"up", "closing", "gone"}
    /\ {motor, lag, rolling, rolled, strayed} \subseteq BOOLEAN

\* The last command moves the robot only in the middle of an action, with the
\* power handshake complete and no stop latched.  (_tick, _stop_power,
\* StepCycle.command; _odom, _goal and the services publish the stop)
DrivesOnlyReady ==
    node.drive =>
        /\ node.power = "ready"
        /\ node.cycle.action # None
        /\ ~node.cycle.stopped
        /\ ~node.cycle.settling
        /\ running = "up"

\* The image behind a request that counts shows where the robot stands: it has
\* not moved since the exposure.  (the capture barrier of StepCycle.observe and
\* _odom, can_request, and the motor's power in between)
RequestSeesPlace ==
    node.cycle.pending => ~node.token.moved /\ ~rolling /\ ~lag

\* A primitive under way, and the rest of its chunk, answer the current goal.
\* (_set_goal, StepCycle.cancel, _finish_request)
ActsForCurrentGoal ==
    node.cycle.action # None \/ (node.queue # <<>> /\ ~node.cycle.stopped)
        => node.plan = node.goal

\* Chunks do not mix: while a request counts, nothing of an older reply is
\* left to execute.
OneChunkAtATime ==
    node.cycle.pending => node.queue = <<>> /\ node.cycle.action = None

(* What makes them inductive, of a node in the middle of a handler as well.  *)

\* Of the node alone: what drives, what is left of a chunk, what a request that
\* counts is about, and which power call is the last one.
Consistent(n) ==
    /\ n \in Node
    /\ n.drive => /\ n.power = "ready"
                  /\ n.cycle.action # None
                  /\ ~n.cycle.stopped
                  /\ ~n.cycle.settling
    /\ n.cycle.action # None \/ n.cycle.target \/ (n.queue # <<>> /\ ~n.cycle.stopped)
           => n.plan = n.goal
    /\ n.cycle.pending => /\ n.power = "ready"
                          /\ ~n.cycle.settling
                          /\ ~n.cycle.stopped
                          /\ n.token # None
                          /\ n.token.goal = n.goal
                          /\ ~n.token.moved
    /\ n.token = None <=> n.future = None
    /\ n.token # None => n.queue = <<>> /\ n.cycle.action = None /\ ~n.cycle.target
    /\ n.cycle.target /\ ~n.cycle.settling => n.cycle.action # None
    /\ n.cycle.settling /\ n.power = "ready" => n.cycle.action = None
    /\ n.call = "waiting" => n.calls # <<>>
    /\ n.call = "waiting" /\ n.power = "disabling" => n.calls[Len(n.calls)] = FALSE

\* Of the node and the robot: once the motor is known to be off no command is
\* left, and between two primitives nothing has moved since the barrier.
Quiet(n) ==
    /\ n.power \in {"off", "enabling", "verify"} \/ (n.power = "disabling" /\ n.call = "accepted")
           => ~lag
    /\ n.power = "ready" /\ n.cycle.action = None /\ ~n.cycle.settling =>
           /\ ~lag /\ ~rolling /\ ~strayed
           /\ n.latest # None /\ n.latest.after => ~n.latest.moved

\* A handler leaves no stop to be confirmed with the motor's power on, unless the
\* robot is already standing.  (CutPower)
PowerCut(n) ==
    n.cycle.settling => /\ n.power \notin {"enabling", "verify"}
                        /\ n.power = "ready" => ~lag /\ ~rolling

\* Together: what holds of the robot, its motor and its requests at any time.
ExecutorInv ==
    /\ ExecutorTypeOK
    /\ DrivesOnlyReady
    /\ RequestSeesPlace
    /\ OneChunkAtATime
    /\ Consistent(node) /\ Quiet(node) /\ PowerCut(node)
    /\ rolling => rolled

\* A stop, by the operator or by a fault, is released by the service alone.
\* (test_republished_goal_cannot_clear_operator_stop)
StopIsLatched ==
    [][node.cycle.stopped /\ ~node'.cycle.stopped => OnForcedStop(FALSE)]_executorVars

\* The late answer or error of a cancelled request neither stops the cycle nor
\* starts a primitive.
LateAnswerIsInert ==
    [][node.token # None /\ node'.token = None /\ ~node.cycle.pending /\ node.cycle.fresh
          /\ ~node.cycle.settling
        => /\ node'.cycle.stopped = node.cycle.stopped
           /\ node'.cycle.action = node.cycle.action
           /\ node'.queue = node.queue]_executorVars
===============================================================================
