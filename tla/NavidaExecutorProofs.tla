------------------------- MODULE NavidaExecutorProofs -------------------------
(***************************************************************************)
(* What the NaVIDA executor may do with the motor, for every set of goals, *)
(* every length of a chunk and every number of unanswered power calls.     *)
(***************************************************************************)
EXTENDS NavidaExecutor, SequenceTheorems, TLAPS

Good(n) == Consistent(n) /\ Quiet(n) /\ PowerCut(n)

\* A node about to lose the motor's power: a stop is to be confirmed, and no
\* request counts any more.
Halting(n) ==
    /\ n \in Node
    /\ n.cycle.settling
    /\ ~n.cycle.pending
    /\ n.cycle.action # None \/ n.cycle.target \/ (n.queue # <<>> /\ ~n.cycle.stopped)
           => n.plan = n.goal
    /\ n.token = None <=> n.future = None
    /\ n.token # None => n.queue = <<>> /\ n.cycle.action = None /\ ~n.cycle.target
    /\ n.call = "waiting" => n.calls # <<>>
    /\ n.call = "waiting" /\ n.power = "disabling" => n.calls[Len(n.calls)] = FALSE
    /\ n.power = "disabling" /\ n.call = "accepted" => ~lag
------------------------------------------------------------------------------
(* The fields of the records the operators build.                            *)

\* Cancelling a cycle.
LEMMA CancelFields ==
    ASSUME NEW c \in Cycle, NEW stop \in BOOLEAN
    PROVE  /\ Cancel(c, stop) \in Cycle
           /\ Cancel(c, stop).settling
           /\ Cancel(c, stop).action = None
           /\ ~Cancel(c, stop).target
           /\ ~Cancel(c, stop).pending
           /\ Cancel(c, stop).stopped = stop
  BY DEF Cancel, BeginSettling, Cycle

\* Confirming that the motor is disabled.
LEMMA ConfirmFields ==
    ASSUME NEW c \in Cycle
    PROVE  /\ ConfirmMotorDisabled(c) \in Cycle
           /\ ConfirmMotorDisabled(c).settling
           /\ ConfirmMotorDisabled(c).action = c.action
           /\ ConfirmMotorDisabled(c).target = c.target
           /\ ConfirmMotorDisabled(c).pending = c.pending
           /\ ConfirmMotorDisabled(c).stopped = c.stopped
  BY DEF ConfirmMotorDisabled, Cycle

\* Giving up the power handshake.
LEMMA FailPowerFields ==
    ASSUME NEW n \in Node
    PROVE  LET m == FailPower(n) IN
           /\ m \in Node
           /\ m.cycle = Fail(n.cycle)
           /\ m.power = "stop"
           /\ m.call = None
           /\ ~m.drive
           /\ m.goal = n.goal /\ m.latest = n.latest /\ m.token = n.token
           /\ m.future = n.future /\ m.queue = n.queue /\ m.plan = n.plan
           /\ m.calls = n.calls
<1>1. Fail(n.cycle) \in Cycle
  BY CancelFields DEF Fail, Node
<1> QED
  BY <1>1 DEF FailPower, Node

\* What a power tick leaves alone, and that it never gives the motor power.
PowerOutcome(n, m) ==
    /\ m.goal = n.goal /\ m.latest = n.latest /\ m.token = n.token
    /\ m.future = n.future /\ m.queue = n.queue /\ m.plan = n.plan
    /\ m.cycle \in {n.cycle, Fail(n.cycle), ConfirmMotorDisabled(n.cycle)}
    /\ m.drive => n.drive
    /\ m.power = "ready" => n.power = "ready" /\ m.cycle = n.cycle

\* Giving up the handshake leaves a stopped, settling cycle.
LEMMA FailPowerGood ==
    ASSUME NEW n, Consistent(n)
    PROVE  Good(FailPower(n)) /\ PowerOutcome(n, FailPower(n)) /\ FailPower(n).call = None
<1> DEFINE m == FailPower(n)
<1>1. n \in Node /\ n.cycle \in Cycle
  BY DEF Consistent, Node
<1>2. /\ m.cycle.settling /\ m.cycle.action = None /\ ~m.cycle.target
      /\ ~m.cycle.pending /\ m.cycle.stopped
  BY <1>1, FailPowerFields, CancelFields DEF Fail
<1>3. Consistent(m)
  BY <1>1, <1>2, FailPowerFields, ExecutorAssumption DEF Consistent
<1>4. Quiet(m) /\ PowerCut(m) /\ PowerOutcome(n, m) /\ m.call = None
  BY <1>1, <1>2, FailPowerFields, ExecutorAssumption DEF Quiet, PowerCut, PowerOutcome
<1> QED
  BY <1>3, <1>4 DEF Good

\* An accepted call: nothing was queued behind a call that disabled the motor.
LEMMA ConfirmPowerGood ==
    ASSUME NEW n, Good(n), n.call = "accepted"
    PROVE  /\ Good(ConfirmPower(n)) /\ PowerOutcome(n, ConfirmPower(n))
           /\ ConfirmPower(n).call = None
<1> DEFINE m == ConfirmPower(n)
<1>1. n \in Node /\ n.cycle \in Cycle
  BY DEF Good, Consistent, Node
<1>2. CASE n.power = "disabling"
  <2>0. ConfirmMotorDisabled(n.cycle) \in Cycle
    BY <1>1, ConfirmFields
  <2>1. m = [n EXCEPT !.cycle = ConfirmMotorDisabled(@), !.power = "off", !.call = None]
    BY <1>2 DEF ConfirmPower
  <2>2. /\ m \in Node /\ m.cycle = ConfirmMotorDisabled(n.cycle) /\ m.power = "off" /\ m.call = None
        /\ m.goal = n.goal /\ m.latest = n.latest /\ m.token = n.token /\ m.future = n.future
        /\ m.queue = n.queue /\ m.plan = n.plan /\ m.calls = n.calls /\ m.drive = n.drive
    BY <1>1, <2>0, <2>1 DEF Node
  <2>3. Consistent(m)
    BY <1>1, <1>2, <2>2, ConfirmFields, ExecutorAssumption DEF Good, Consistent
  <2> QED
    BY <1>1, <1>2, <2>2, <2>3, ConfirmFields DEF Good, Quiet, PowerCut, PowerOutcome
<1>3. CASE n.power = "enabling"
  <2>1. m = [n EXCEPT !.power = "verify", !.seen = FALSE, !.call = None]
    BY <1>3 DEF ConfirmPower
  <2>2. /\ m \in Node /\ m.cycle = n.cycle /\ m.power = "verify" /\ m.call = None
        /\ m.goal = n.goal /\ m.latest = n.latest /\ m.token = n.token /\ m.future = n.future
        /\ m.queue = n.queue /\ m.plan = n.plan /\ m.calls = n.calls /\ m.drive = n.drive
    BY <1>1, <2>1 DEF Node
  <2>3. Consistent(m)
    BY <1>1, <1>3, <2>2, ExecutorAssumption DEF Good, Consistent
  <2> QED
    BY <1>1, <1>3, <2>2, <2>3 DEF Good, Quiet, PowerCut, PowerOutcome
<1>4. CASE n.power \notin {"disabling", "enabling"}
  <2>1. m = [n EXCEPT !.call = None]
    BY <1>4 DEF ConfirmPower
  <2>2. /\ m \in Node /\ m.cycle = n.cycle /\ m.power = n.power /\ m.call = None
        /\ m.goal = n.goal /\ m.latest = n.latest /\ m.token = n.token /\ m.future = n.future
        /\ m.queue = n.queue /\ m.plan = n.plan /\ m.calls = n.calls /\ m.drive = n.drive
    BY <1>1, <2>1 DEF Node
  <2>3. Consistent(m)
    BY <1>1, <2>2, ExecutorAssumption DEF Good, Consistent
  <2> QED
    BY <1>1, <1>4, <2>2, <2>3 DEF Good, Quiet, PowerCut, PowerOutcome
<1> QED
  BY <1>2, <1>3, <1>4

\* The next call: enabling only from "off", where no command is left.
LEMMA CallPowerGood ==
    ASSUME NEW n, Good(n)
    PROVE  Good(CallPower(n)) /\ PowerOutcome(n, CallPower(n))
<1> DEFINE m == CallPower(n)
<1>1. n \in Node /\ n.cycle \in Cycle /\ n.calls \in Seq(BOOLEAN) /\ EnableDue(n) \in BOOLEAN
  BY DEF Good, Consistent, Node, EnableDue
<1>2. CASE n.power = "stop" \/ EnableDue(n)
  <2>1. m = [n EXCEPT !.drive = FALSE, !.call = "waiting", !.calls = Append(@, EnableDue(n)),
                      !.power = IF EnableDue(n) THEN "enabling" ELSE "disabling"]
    BY <1>2 DEF CallPower
  <2>2. Append(n.calls, EnableDue(n)) \in Seq(BOOLEAN)
    BY <1>1
  <2>3. /\ m \in Node /\ m.cycle = n.cycle /\ m.call = "waiting" /\ ~m.drive
        /\ m.power = IF EnableDue(n) THEN "enabling" ELSE "disabling"
        /\ m.goal = n.goal /\ m.latest = n.latest /\ m.token = n.token /\ m.future = n.future
        /\ m.queue = n.queue /\ m.plan = n.plan /\ m.calls = Append(n.calls, EnableDue(n))
    BY <1>1, <2>1, <2>2 DEF Node
  <2>4. m.calls # <<>> /\ m.calls[Len(m.calls)] = EnableDue(n)
    BY <1>1, <2>3
  <2>5. EnableDue(n) => n.power = "off" /\ ~n.cycle.settling
    BY DEF EnableDue
  <2>6. Consistent(m)
    BY <1>1, <1>2, <2>3, <2>4, <2>5 DEF Good, Consistent
  <2> QED
    BY <1>1, <1>2, <2>3, <2>5, <2>6 DEF Good, Quiet, PowerCut, PowerOutcome
<1>3. CASE ~(n.power = "stop" \/ EnableDue(n))
  BY <1>1, <1>3 DEF CallPower, PowerOutcome
<1> QED
  BY <1>2, <1>3

\* A power tick, answer and next call together.
LEMMA PowerTickGood ==
    ASSUME NEW n, Good(n), NEW m \in PowerTick(n)
    PROVE  Good(m) /\ PowerOutcome(n, m)
<1>1. Consistent(n) /\ n \in Node /\ n.cycle \in Cycle
      /\ n.call \in {None, "waiting", "accepted", "refused"}
  BY DEF Good, Consistent, Node
<1>2. Good(FailPower(n)) /\ PowerOutcome(n, FailPower(n))
  BY <1>1, FailPowerGood
<1>3. /\ Good(CallPower(FailPower(n))) /\ PowerOutcome(n, CallPower(FailPower(n)))
  <2>1. Good(CallPower(FailPower(n))) /\ PowerOutcome(FailPower(n), CallPower(FailPower(n)))
    BY <1>2, CallPowerGood
  <2>2. CallPower(FailPower(n)).cycle = FailPower(n).cycle
    BY <1>1, FailPowerFields DEF CallPower, Node
  <2> QED
    BY <1>2, <2>1, <2>2 DEF PowerOutcome
<1>4. CASE n.call = "accepted"
  <2>1. Good(ConfirmPower(n)) /\ PowerOutcome(n, ConfirmPower(n))
    BY <1>4, ConfirmPowerGood
  <2>2. /\ Good(CallPower(ConfirmPower(n)))
        /\ PowerOutcome(ConfirmPower(n), CallPower(ConfirmPower(n)))
    BY <2>1, CallPowerGood
  <2>3. CallPower(ConfirmPower(n)).cycle = ConfirmPower(n).cycle
    BY <2>1 DEF CallPower, Good, Consistent, Node
  <2>4. m = CallPower(ConfirmPower(n))
    BY <1>4, ExecutorAssumption DEF PowerTick
  <2> QED
    BY <2>1, <2>2, <2>3, <2>4 DEF PowerOutcome
<1>5. PowerOutcome(n, n)
  BY DEF PowerOutcome
<1>6. Good(CallPower(n)) /\ PowerOutcome(n, CallPower(n))
  BY CallPowerGood
<1>7. CASE n.call # "accepted"
  <2>1. m \in {n, CallPower(n), CallPower(FailPower(n))}
    BY <1>1, <1>7, ExecutorAssumption DEF PowerTick
  <2> QED
    BY <1>3, <1>5, <1>6, <2>1
<1> QED
  BY <1>4, <1>7

\* Every outcome of a power tick keeps a stop, and asks about nothing.
LEMMA OutcomeKeeps ==
    ASSUME NEW n, NEW m, n.cycle \in Cycle, PowerOutcome(n, m)
    PROVE  /\ n.cycle.stopped => m.cycle.stopped
           /\ m.cycle.pending => n.cycle.pending
           /\ m.goal = n.goal /\ m.latest = n.latest /\ m.token = n.token
<1>1. Fail(n.cycle).stopped /\ ~Fail(n.cycle).pending
  BY CancelFields DEF Fail
<1> QED
  BY <1>1, ConfirmFields DEF PowerOutcome

\* Stopping the motor: the node stays halted until the handshake starts over.
LEMMA StopPowerGood ==
    ASSUME NEW n, Halting(n), NEW m \in StopPower(n)
    PROVE  /\ Good(m)
           /\ m.power # "ready" /\ ~m.drive /\ ~m.cycle.pending
           /\ n.cycle.stopped => m.cycle.stopped
           /\ m.goal = n.goal /\ m.latest = n.latest /\ m.token = n.token
<1> DEFINE b == [n EXCEPT !.drive = FALSE,
                          !.power = IF @ \in {"stop", "disabling"} THEN @ ELSE "stop"]
<1>1. n \in Node /\ n.cycle \in Cycle
  BY DEF Halting, Node
<1>2. /\ b \in Node /\ ~b.drive /\ b.power \in {"stop", "disabling"}
      /\ b.power = "disabling" => n.power = "disabling"
      /\ b.cycle = n.cycle /\ b.call = n.call /\ b.calls = n.calls
      /\ b.goal = n.goal /\ b.latest = n.latest /\ b.token = n.token /\ b.future = n.future
      /\ b.queue = n.queue /\ b.plan = n.plan
  BY <1>1, ZenonT(60) DEF Node
<1>3. m \in PowerTick(b)
  BY DEF StopPower
<1> HIDE DEF b
<1>4. Consistent(b)
  BY <1>1, <1>2 DEF Halting, Consistent
<1>5. Good(b)
  BY <1>2, <1>4 DEF Halting, Good, Quiet, PowerCut
<1>6. Good(m) /\ PowerOutcome(b, m)
  BY <1>3, <1>5, PowerTickGood
<1>7. m.power # "ready" /\ ~m.drive
  BY <1>2, <1>6 DEF PowerOutcome
<1>8. /\ b.cycle.stopped => m.cycle.stopped
      /\ m.cycle.pending => b.cycle.pending
      /\ m.goal = b.goal /\ m.latest = b.latest /\ m.token = b.token
  BY <1>1, <1>2, <1>6, OutcomeKeeps
<1> QED
  BY <1>2, <1>6, <1>7, <1>8 DEF Halting
------------------------------------------------------------------------------
(* The callbacks.                                                            *)

\* What a callback that stops the motor leaves.
Stopped(n, m) ==
    /\ Good(m)
    /\ m.power # "ready" /\ ~m.drive
    /\ n.cycle.stopped => m.cycle.stopped
    /\ m.token = n.token

\* A goal: no stop is released by it.
LEMMA SetGoalGood ==
    ASSUME NEW n, Good(n), NEW g \in Goals \cup {None}, NEW m \in SetGoal(n, g)
    PROVE  Stopped(n, m)
<1> DEFINE c == Cancel(n.cycle, n.cycle.stopped \/ g = None)
           b == [n EXCEPT !.goal = g, !.latest = None, !.queue = <<>>, !.cycle = c]
<1>1. n \in Node /\ n.cycle \in Cycle /\ (n.cycle.stopped \/ g = None) \in BOOLEAN
  BY DEF Good, Consistent, Node
<1>2. /\ c \in Cycle /\ c.settling /\ c.action = None /\ ~c.target /\ ~c.pending
      /\ n.cycle.stopped => c.stopped
  BY <1>1, CancelFields
<1>3. m \in StopPower(b)
  BY DEF SetGoal
<1> HIDE DEF c
<1>4. <<>> \in Seq(Primitives)
  OBVIOUS
<1>5. /\ b \in Node /\ b.cycle = c /\ b.queue = <<>> /\ b.token = n.token
      /\ b.future = n.future /\ b.call = n.call /\ b.calls = n.calls /\ b.power = n.power
  BY <1>1, <1>2, <1>4 DEF Node
<1> HIDE DEF b
<1>6. Halting(b)
  BY <1>2, <1>5 DEF Halting, Good, Consistent, Quiet
<1> QED
  BY <1>2, <1>3, <1>5, <1>6, StopPowerGood DEF Stopped

\* The stop service, either way.
LEMMA ForceStopGood ==
    ASSUME NEW n, Good(n), NEW stop \in BOOLEAN, NEW m \in ForceStop(n, stop)
    PROVE  /\ Good(m)
           /\ m.power # "ready" /\ ~m.drive /\ m.token = n.token
           /\ stop => m.cycle.stopped
<1> DEFINE c == Cancel(n.cycle, stop)
           b == [n EXCEPT !.cycle = c, !.queue = <<>>]
<1>1. n \in Node /\ n.cycle \in Cycle
  BY DEF Good, Consistent, Node
<1>2. /\ c \in Cycle /\ c.settling /\ c.action = None /\ ~c.target /\ ~c.pending
      /\ c.stopped = stop
  BY <1>1, CancelFields
<1>3. m \in StopPower(b)
  BY DEF ForceStop
<1> HIDE DEF c
<1>4. <<>> \in Seq(Primitives)
  OBVIOUS
<1>5. /\ b \in Node /\ b.cycle = c /\ b.queue = <<>> /\ b.token = n.token
      /\ b.future = n.future /\ b.call = n.call /\ b.calls = n.calls /\ b.power = n.power
  BY <1>1, <1>2, <1>4 DEF Node
<1> HIDE DEF b
<1>6. Halting(b)
  BY <1>2, <1>5 DEF Halting, Good, Consistent, Quiet
<1> QED
  BY <1>2, <1>3, <1>5, <1>6, StopPowerGood

\* Invalid odometry, and destroy_node: the chunk stays, behind a latched stop.
LEMMA FailGood ==
    ASSUME NEW n, Good(n), NEW m \in StopPower([n EXCEPT !.cycle = Cancel(@, TRUE)])
    PROVE  Stopped(n, m)
<1> DEFINE c == Cancel(n.cycle, TRUE)
           b == [n EXCEPT !.cycle = c]
<1>1. n \in Node /\ n.cycle \in Cycle
  BY DEF Good, Consistent, Node
<1>2. /\ c \in Cycle /\ c.settling /\ c.action = None /\ ~c.target /\ ~c.pending
      /\ c.stopped
  BY <1>1, CancelFields
<1>3. m \in StopPower(b)
  OBVIOUS
<1> HIDE DEF c
<1>4. /\ b \in Node /\ b.cycle = c /\ b.queue = n.queue /\ b.token = n.token
      /\ b.future = n.future /\ b.call = n.call /\ b.calls = n.calls /\ b.power = n.power
  BY <1>1, <1>2 DEF Node
<1> HIDE DEF b
<1>5. Halting(b)
  BY <1>2, <1>4 DEF Halting, Good, Consistent, Quiet
<1> QED
  BY <1>2, <1>3, <1>4, <1>5, StopPowerGood DEF Stopped

\* What the other callbacks leave: no motion is begun, and no stop is released.
Kept(n, m) ==
    /\ Good(m)
    /\ m.drive => n.drive
    /\ n.cycle.stopped => m.cycle.stopped
    /\ m.token = n.token

\* A frame, and its goal: what it may have seen is what the barrier says.
LEMMA TakeFrameGood ==
    ASSUME NEW n, Good(n), NEW f \in Frame,
           f.moved \in IF f.after THEN {rolling, strayed} ELSE {TRUE},
           NEW m \in TakeFrame(n, f)
    PROVE  Kept(n, m)
<1>1. PICK k \in (IF f.goal = n.goal THEN {n} ELSE SetGoal(n, f.goal)) :
          m = [k EXCEPT !.latest = f]
  BY DEF TakeFrame
<1>2. f.goal \in Goals \cup {None} /\ f.after \in BOOLEAN /\ f.moved \in BOOLEAN
  BY DEF Frame
<1>3. /\ Good(k) /\ k.token = n.token
      /\ n.cycle.stopped => k.cycle.stopped
      /\ k.drive => n.drive
  <2>1. CASE f.goal = n.goal
    BY <1>1, <2>1
  <2>2. CASE f.goal # n.goal
    BY <1>1, <1>2, <2>2, SetGoalGood DEF Stopped
  <2> QED
    BY <2>1, <2>2
<1>4. k \in Node /\ k.cycle \in Cycle
  BY <1>3 DEF Good, Consistent, Node
<1>5. /\ m \in Node /\ m.latest = f /\ m.cycle = k.cycle /\ m.goal = k.goal
      /\ m.token = k.token /\ m.future = k.future /\ m.queue = k.queue /\ m.plan = k.plan
      /\ m.power = k.power /\ m.call = k.call /\ m.calls = k.calls /\ m.drive = k.drive
  BY <1>1, <1>4 DEF Node
<1>6. Consistent(m)
  BY <1>3, <1>5 DEF Good, Consistent
<1>7. Quiet(m) /\ PowerCut(m)
  BY <1>2, <1>3, <1>5 DEF Good, Quiet, PowerCut
<1> QED
  BY <1>3, <1>5, <1>6, <1>7 DEF Good, Kept

\* The cycle after a sample.
LEMMA ObserveFields ==
    ASSUME NEW c \in Cycle, NEW s \in Sample
    PROVE  LET d == Observe(c, s) IN
           /\ d \in Cycle
           /\ d.stopped = c.stopped /\ d.pending = c.pending
           /\ \/ /\ Completes(c, s) /\ c.settling
                 /\ d.action = None /\ ~d.settling /\ ~d.target
              \/ /\ ~Completes(c, s) /\ c.settling /\ c.target
                 /\ d.action = "turn" /\ ~d.settling /\ d.target
              \/ /\ ~Completes(c, s)
                 /\ d.action = c.action /\ d.settling = c.settling /\ d.target = c.target
<1> DEFINE e == [c EXCEPT !.posed = TRUE, !.fresh = TRUE]
<1>1. /\ e \in Cycle /\ e.settling = c.settling /\ e.action = c.action /\ e.target = c.target
      /\ e.pending = c.pending /\ e.stopped = c.stopped /\ e.sampled = c.sampled
  BY DEF Cycle
<1>2. Completes(c, s) => c.settling
  BY DEF Completes, ConfirmsStop
<1>3. CASE Completes(c, s)
  <2>1. Observe(c, s) = [e EXCEPT !.action = None, !.settling = FALSE, !.target = FALSE]
    BY <1>3 DEF Observe
  <2> HIDE DEF e
  <2> QED
    BY <1>1, <1>2, <1>3, <2>1 DEF Cycle
<1>4. CASE ~Completes(c, s) /\ ConfirmsStop(c, s)
  <2>1. Observe(c, s) = [e EXCEPT !.action = "turn", !.settling = FALSE]
    BY <1>4 DEF Observe
  <2>2. c.settling /\ c.target
    BY <1>4 DEF Completes, ConfirmsStop, Cycle, Sample
  <2> HIDE DEF e
  <2> QED
    BY <1>1, <1>4, <2>1, <2>2 DEF Cycle
<1>5. CASE ~Completes(c, s) /\ ~ConfirmsStop(c, s)
  <2>1. Observe(c, s) = [e EXCEPT !.sampled = @ \/ (c.settling /\ ~s.early)]
    BY <1>5 DEF Observe
  <2>2. (e.sampled \/ (c.settling /\ ~s.early)) \in BOOLEAN
    OBVIOUS
  <2> HIDE DEF e
  <2> QED
    BY <1>1, <1>5, <2>1, <2>2 DEF Cycle
<1> QED
  BY <1>3, <1>4, <1>5

\* What odometry makes of the node.
LEMMA TakeOdomFields ==
    ASSUME NEW n \in Node, NEW s \in Sample
    PROVE  LET m == TakeOdom(n, s) IN
           /\ m \in Node
           /\ m.cycle = Observe(n.cycle, s)
           /\ m.power = IF Verifies(n, s) THEN "ready" ELSE n.power
           /\ m.goal = n.goal /\ m.token = n.token /\ m.future = n.future
           /\ m.queue = n.queue /\ m.plan = n.plan
           /\ m.call = n.call /\ m.calls = n.calls /\ m.drive = n.drive
           /\ IF SetsBarrier(n, s) THEN m.latest # None => ~m.latest.after
              ELSE m.latest = n.latest
<1> DEFINE seen == [n EXCEPT !.cycle = Observe(n.cycle, s),
                             !.power = IF Verifies(n, s) THEN "ready" ELSE @,
                             !.seen  = @ \/ n.power = "verify"]
<1>1. Observe(n.cycle, s) \in Cycle
  BY ObserveFields DEF Node
<1>2. (n.seen \/ n.power = "verify") \in BOOLEAN
  OBVIOUS
<1>3. /\ seen \in Node /\ seen.cycle = Observe(n.cycle, s)
      /\ seen.power = IF Verifies(n, s) THEN "ready" ELSE n.power
      /\ seen.goal = n.goal /\ seen.token = n.token /\ seen.future = n.future
      /\ seen.queue = n.queue /\ seen.plan = n.plan /\ seen.latest = n.latest
      /\ seen.call = n.call /\ seen.calls = n.calls /\ seen.drive = n.drive
  BY <1>1, <1>2, ZenonT(60) DEF Node
<1>4. TakeOdom(n, s) = IF SetsBarrier(n, s) THEN Barrier(seen) ELSE seen
  BY <1>3 DEF TakeOdom, SetsBarrier
<1> HIDE DEF seen
<1>5. CASE ~SetsBarrier(n, s)
  BY <1>3, <1>4, <1>5
<1>6. CASE SetsBarrier(n, s) /\ seen.latest = None
  BY <1>3, <1>4, <1>6 DEF Barrier
<1>7. CASE SetsBarrier(n, s) /\ seen.latest # None
  <2>1. TakeOdom(n, s) = [seen EXCEPT !.latest = [seen.latest EXCEPT !.after = FALSE]]
    BY <1>4, <1>7 DEF Barrier
  <2>2. seen.latest \in Frame
    BY <1>3, <1>7 DEF Node
  <2> DEFINE old == [seen.latest EXCEPT !.after = FALSE]
  <2>3. old \in Frame /\ ~old.after
    BY <2>2 DEF Frame
  <2> HIDE DEF old
  <2>4. TakeOdom(n, s) = [seen EXCEPT !.latest = old]
    BY <2>1 DEF old
  <2>5. LET m == TakeOdom(n, s) IN
        /\ m \in Node /\ m.latest = old /\ m.cycle = seen.cycle /\ m.power = seen.power
        /\ m.goal = seen.goal /\ m.token = seen.token /\ m.future = seen.future
        /\ m.queue = seen.queue /\ m.plan = seen.plan
        /\ m.call = seen.call /\ m.calls = seen.calls /\ m.drive = seen.drive
    BY <1>3, <2>3, <2>4 DEF Node
  <2> QED
    BY <1>3, <1>7, <2>3, <2>5
<1> QED
  BY <1>5, <1>6, <1>7

\* Odometry: where it sets the barrier the robot stands, and nothing is left that
\* would move it.
LEMMA TakeOdomGood ==
    ASSUME NEW n, Good(n), NEW s \in Sample, rolling => rolled, s.still = ~rolled
    PROVE  LET m == TakeOdom(n, s) IN
           /\ Consistent(m) /\ PowerCut(m)
           /\ m.power \in {"off", "enabling", "verify"}
                  \/ (m.power = "disabling" /\ m.call = "accepted") => ~lag
           /\ m.power = "ready" /\ m.cycle.action = None /\ ~m.cycle.settling =>
                  /\ ~lag /\ ~rolling
                  /\ IF SetsBarrier(n, s) THEN m.latest # None => ~m.latest.after
                     ELSE ~strayed /\ (m.latest # None /\ m.latest.after => ~m.latest.moved)
<1> DEFINE m == TakeOdom(n, s)
<1>1. n \in Node /\ n.cycle \in Cycle
  BY DEF Good, Consistent, Node
<1> DEFINE d == Observe(n.cycle, s)
<1>2. /\ m \in Node /\ m.cycle = d
      /\ m.power = IF Verifies(n, s) THEN "ready" ELSE n.power
      /\ m.goal = n.goal /\ m.token = n.token /\ m.future = n.future
      /\ m.queue = n.queue /\ m.plan = n.plan
      /\ m.call = n.call /\ m.calls = n.calls /\ m.drive = n.drive
      /\ IF SetsBarrier(n, s) THEN m.latest # None => ~m.latest.after ELSE m.latest = n.latest
  BY <1>1, TakeOdomFields
<1>3. /\ d.stopped = n.cycle.stopped /\ d.pending = n.cycle.pending
      /\ \/ /\ Completes(n.cycle, s) /\ n.cycle.settling
            /\ d.action = None /\ ~d.settling /\ ~d.target
         \/ /\ ~Completes(n.cycle, s) /\ n.cycle.settling /\ n.cycle.target
            /\ d.action = "turn" /\ ~d.settling /\ d.target
         \/ /\ ~Completes(n.cycle, s) /\ d.action = n.cycle.action
            /\ d.settling = n.cycle.settling /\ d.target = n.cycle.target
  BY <1>1, ObserveFields
<1>4. SetsBarrier(n, s) <=> Completes(n.cycle, s) \/ (Verifies(n, s) /\ d.action = None)
  BY DEF SetsBarrier
<1>5. Verifies(n, s) => n.power = "verify" /\ ~lag /\ ~rolling /\ ~n.cycle.settling
  BY DEF Verifies, Good, Quiet, PowerCut
<1>6. "turn" # None
  BY ExecutorAssumption DEF Primitives
<1> HIDE DEF m, d
<1>7. Consistent(m)
  BY <1>1, <1>2, <1>3, <1>5, <1>6 DEF Good, Consistent
<1>8. PowerCut(m)
  BY <1>2, <1>3, <1>5 DEF Good, PowerCut
<1>9. m.power = "ready" /\ d.action = None /\ ~d.settling => ~lag /\ ~rolling
  BY <1>1, <1>2, <1>3, <1>5, <1>6 DEF Good, Consistent, PowerCut, Quiet
<1>10. m.power = "ready" /\ d.action = None /\ ~d.settling /\ ~SetsBarrier(n, s) =>
           ~strayed /\ (m.latest # None /\ m.latest.after => ~m.latest.moved)
  BY <1>1, <1>2, <1>3, <1>4, <1>5, <1>6 DEF Good, Consistent, Quiet
<1>11. m.power \in {"off", "enabling", "verify"}
           \/ (m.power = "disabling" /\ m.call = "accepted") => ~lag
  BY <1>2 DEF Good, Quiet
<1> QED
  BY <1>2, <1>7, <1>8, <1>9, <1>10, <1>11 DEF m
------------------------------------------------------------------------------
(* The control timer.                                                        *)

\* Starting a primitive; a zero primitive begins a stop.
LEMMA StartFields ==
    ASSUME NEW c \in Cycle, NEW a \in Primitives
    PROVE  LET d == Start(c, a) IN
           /\ d \in Cycle
           /\ d.stopped = c.stopped /\ d.pending = c.pending
           /\ \/ d.settling /\ d.action = None /\ ~d.target
              \/ d.settling = c.settling /\ d.action # None
<1>1. CASE a = "zero"
  BY <1>1 DEF Start, BeginSettling, Cycle
<1>2. CASE a # "zero"
  <2>1. a \in {"forward", "turn"} /\ a # None /\ (a = "turn") \in BOOLEAN
    BY <1>2, ExecutorAssumption DEF Primitives
  <2> QED
    BY <1>2, <2>1 DEF Start, Cycle
<1> QED
  BY <1>1, <1>2

\* A reply has a first primitive and a rest.
LEMMA ReplyParts ==
    ASSUME NEW chunk \in Replies
    PROVE  Head(chunk) \in Primitives /\ Tail(chunk) \in Seq(Primitives)
<1>1. PICK k \in 1 .. MaxChunk : chunk \in [1 .. k -> Primitives]
  BY DEF Replies
<1>2. k \in Nat /\ 1 <= k
  BY ExecutorAssumption
<1>3. chunk \in Seq(Primitives)
  BY <1>1, <1>2, SeqDef
<1>4. Len(chunk) = k
  BY <1>1, <1>2, <1>3, LenProperties
<1>5. chunk # <<>>
  BY <1>2, <1>4, EmptySeq
<1> QED
  BY <1>3, <1>5, HeadTailProperties

\* What finishing a request leaves alone, and that a late answer is inert.
Finished(n, m) ==
    /\ m.power = n.power
    /\ m.drive => n.drive
    /\ n.cycle.stopped => m.cycle.stopped
    /\ m.token \in {n.token, None}
    /\ ~n.cycle.pending => m.cycle = n.cycle /\ m.queue = n.queue

\* The answer of the worker, its error or what is left of a cancelled request.
LEMMA FinishRequestGood ==
    ASSUME NEW n, Good(n), n.power = "ready", NEW m \in FinishRequest(n)
    PROVE  Good(m) /\ Finished(n, m)
<1>1. /\ n \in Node /\ n.cycle \in Cycle /\ n.queue \in Seq(Primitives)
      /\ n.token \in Token \cup {None} /\ n.future \in Future \cup {None}
  BY DEF Good, Consistent, Node
<1> DEFINE k == Collected(n)
<1>2. /\ k \in Node /\ k.token = None /\ k.future = None
      /\ k.cycle = n.cycle /\ k.goal = n.goal /\ k.latest = n.latest /\ k.queue = n.queue
      /\ k.plan = n.plan /\ k.power = n.power /\ k.call = n.call /\ k.calls = n.calls
      /\ k.drive = n.drive
  BY <1>1 DEF Collected, Node
<1> HIDE DEF k
<1>3. CASE m = n
  BY <1>3 DEF Finished
<1>4. CASE m = k /\ ~n.cycle.pending
  <2>1. Consistent(m)
    BY <1>2, <1>4 DEF Good, Consistent
  <2>2. Quiet(m) /\ PowerCut(m)
    BY <1>2, <1>4 DEF Good, Quiet, PowerCut
  <2> QED
    BY <1>2, <1>4, <2>1, <2>2 DEF Good, Finished
<1>5. CASE n.cycle.pending /\ n.token # None /\ m \in {FailedRequest(n)} \cup Answered(n)
           /\ (m # FailedRequest(n) => n.future.state = "chunk" /\ n.future \in Future)
  <2>1. /\ ~n.cycle.settling /\ ~n.cycle.stopped /\ n.token.goal = n.goal
        /\ n.queue = <<>> /\ n.cycle.action = None /\ ~n.cycle.target /\ ~n.drive
        /\ ~lag /\ ~rolling /\ ~strayed
        /\ n.latest # None /\ n.latest.after => ~n.latest.moved
    BY <1>5 DEF Good, Consistent, Quiet
  <2>2. CASE m = FailedRequest(n)
    <3> DEFINE c == Fail(n.cycle)
    <3>1. c \in Cycle /\ c.settling /\ c.action = None /\ ~c.target /\ ~c.pending /\ c.stopped
      BY <1>1, CancelFields DEF Fail
    <3>2. m = [k EXCEPT !.cycle = c]
      BY <1>2, <2>2 DEF FailedRequest, k
    <3> HIDE DEF c
    <3>3. /\ m \in Node /\ m.cycle = c /\ m.token = None /\ m.future = None
          /\ m.goal = n.goal /\ m.latest = n.latest /\ m.queue = n.queue
          /\ m.plan = n.plan /\ m.power = n.power /\ m.call = n.call /\ m.calls = n.calls
          /\ m.drive = n.drive
      BY <1>2, <3>1, <3>2 DEF Node
    <3>4. Consistent(m)
      BY <2>1, <3>1, <3>3 DEF Good, Consistent
    <3>5. Quiet(m) /\ PowerCut(m)
      BY <2>1, <3>1, <3>3 DEF Good, Quiet, PowerCut
    <3> QED
      BY <1>5, <3>1, <3>3, <3>4, <3>5 DEF Good, Finished
  <2>3. CASE m # FailedRequest(n) /\ MayStart(n.cycle)
    <3>1. n.future.chunk \in Replies
      BY <1>5, <2>3 DEF Future
    <3>2. Head(n.future.chunk) \in Primitives /\ Tail(n.future.chunk) \in Seq(Primitives)
      BY <3>1, ReplyParts
    <3> DEFINE c == [n.cycle EXCEPT !.pending = FALSE]
               d == Start(c, Head(n.future.chunk))
    <3>3. /\ c \in Cycle /\ ~c.pending /\ c.stopped = n.cycle.stopped
          /\ c.settling = n.cycle.settling
      BY <1>1 DEF Cycle
    <3> HIDE DEF c
    <3>4. /\ d \in Cycle /\ d.stopped = n.cycle.stopped /\ ~d.pending
          /\ \/ d.settling /\ d.action = None /\ ~d.target
             \/ d.settling = n.cycle.settling /\ d.action # None
      BY <3>2, <3>3, StartFields
    <3>5. m = [[k EXCEPT !.cycle.pending = FALSE]
                 EXCEPT !.cycle = Start(@, Head(n.future.chunk)),
                        !.queue = Tail(n.future.chunk),
                        !.plan  = n.token.goal]
      BY <1>5, <2>3 DEF Answered, k
    <3>6. [k EXCEPT !.cycle.pending = FALSE].cycle = c
      BY <1>1, <1>2 DEF c, Node, Cycle
    <3>7. m = [k EXCEPT !.cycle = d, !.queue = Tail(n.future.chunk), !.plan = n.goal]
      BY <1>2, <2>1, <3>5, <3>6 DEF d, Node
    <3> HIDE DEF d
    <3>8. /\ m \in Node /\ m.cycle = d /\ m.token = None /\ m.future = None
          /\ m.goal = n.goal /\ m.latest = n.latest /\ m.plan = n.goal
          /\ m.power = n.power /\ m.call = n.call /\ m.calls = n.calls
          /\ m.drive = n.drive
      BY <1>2, <3>2, <3>4, <3>7 DEF Node
    <3>9. Consistent(m)
      BY <2>1, <3>4, <3>8 DEF Good, Consistent
    <3>10. Quiet(m) /\ PowerCut(m)
      BY <2>1, <3>4, <3>8 DEF Good, Quiet, PowerCut
    <3> QED
      BY <1>5, <3>4, <3>8, <3>9, <3>10 DEF Good, Finished
  <2>4. CASE m # FailedRequest(n) /\ ~MayStart(n.cycle)
    <3> DEFINE c == [n.cycle EXCEPT !.pending = FALSE]
    <3>1. /\ c \in Cycle /\ ~c.pending /\ c.stopped = n.cycle.stopped
          /\ c.settling = n.cycle.settling /\ c.action = n.cycle.action
          /\ c.target = n.cycle.target
      BY <1>1 DEF Cycle
    <3>2. m = [k EXCEPT !.cycle.pending = FALSE]
      BY <1>5, <2>4 DEF Answered, k
    <3>3. m = [k EXCEPT !.cycle = c]
      BY <1>2, <3>2
    <3> HIDE DEF c
    <3>4. /\ m \in Node /\ m.cycle = c /\ m.token = None /\ m.future = None
          /\ m.goal = n.goal /\ m.latest = n.latest /\ m.queue = n.queue
          /\ m.plan = n.plan /\ m.power = n.power /\ m.call = n.call /\ m.calls = n.calls
          /\ m.drive = n.drive
      BY <1>2, <3>1, <3>3 DEF Node
    <3>5. Consistent(m)
      BY <2>1, <3>1, <3>4 DEF Good, Consistent
    <3>6. Quiet(m) /\ PowerCut(m)
      BY <2>1, <3>1, <3>4 DEF Good, Quiet, PowerCut
    <3> QED
      BY <1>5, <3>1, <3>4, <3>5, <3>6 DEF Good, Finished
  <2> QED
    BY <2>2, <2>3, <2>4
<1>6. \/ m = n
      \/ m = k /\ ~n.cycle.pending
      \/ /\ n.cycle.pending /\ n.token # None /\ m \in {FailedRequest(n)} \cup Answered(n)
         /\ m # FailedRequest(n) => n.future.state = "chunk" /\ n.future \in Future
  <2>1. CASE Waits(n)
    BY <2>1 DEF FinishRequest
  <2>2. CASE ~Waits(n) /\ ~n.cycle.pending
    BY <2>2 DEF FinishRequest, k
  <2>3. CASE ~Waits(n) /\ n.cycle.pending
    <3>1. n.token # None /\ n.future # None /\ n.future.state # "running"
      BY <2>3 DEF Waits, Good, Consistent
    <3>2. n.future \in Future /\ n.future.state \in {"error", "chunk"}
      BY <1>1, <3>1 DEF Future
    <3> QED
      BY <2>3, <3>1, <3>2 DEF FinishRequest
  <2> QED
    BY <2>1, <2>2, <2>3
<1> QED
  BY <1>3, <1>4, <1>5, <1>6

\* The outcomes of command.
LEMMA CommandFields ==
    ASSUME NEW c \in Cycle, NEW enabled \in BOOLEAN, NEW o \in Command(c, enabled)
    PROVE  /\ o.cycle \in Cycle /\ o.drive \in BOOLEAN
           /\ c.stopped => o.cycle.stopped
           /\ \/ o.cycle = c /\ ~o.drive
              \/ /\ o.cycle = c /\ o.drive /\ enabled
                 /\ c.action # None /\ ~c.settling /\ ~c.stopped
              \/ /\ o.cycle.settling /\ o.cycle.action = None /\ ~o.cycle.pending /\ ~o.drive
                 /\ o.cycle.stopped /\ ~o.cycle.target
              \/ /\ o.cycle.settling /\ o.cycle.action = None /\ ~o.drive
                 /\ o.cycle.pending = c.pending /\ o.cycle.target = c.target
                 /\ o.cycle.stopped = c.stopped
                 /\ c.action # None
           /\ c.fresh /\ ~c.settling /\ c.action = None => o.cycle = c
<1> DEFINE d == Fail(c)
           e == BeginSettling(c)
<1>1. d \in Cycle /\ d.settling /\ d.action = None /\ ~d.pending /\ d.stopped /\ ~d.target
  BY CancelFields DEF Fail
<1>2. /\ e \in Cycle /\ e.settling /\ e.action = None
      /\ e.pending = c.pending /\ e.target = c.target /\ e.stopped = c.stopped
  BY DEF BeginSettling, Cycle
<1>3. /\ \/ o = Halt(c)
         \/ o = Halt(d)
         \/ o = Halt(e) /\ c.action # None
         \/ o = Drive(c) /\ enabled /\ c.action # None /\ ~c.settling /\ ~c.stopped
      /\ c.fresh /\ ~c.settling /\ c.action = None => o = Halt(c)
  BY DEF Command
<1> HIDE DEF d, e
<1>4. /\ \A x : Halt(x).cycle = x /\ Halt(x).drive = FALSE
      /\ \A x : Drive(x).cycle = x /\ Drive(x).drive = TRUE
  BY DEF Halt, Drive
<1>5. CASE o = Halt(c)
  <2>1. o.cycle = c /\ o.drive = FALSE
    BY <1>4, <1>5
  <2> QED
    BY <2>1
<1>6. CASE o = Halt(d) /\ ~(c.fresh /\ ~c.settling /\ c.action = None)
  <2>1. o.cycle = d /\ o.drive = FALSE
    BY <1>4, <1>6
  <2> QED
    BY <1>1, <1>6, <2>1
<1>7. CASE o = Halt(e) /\ c.action # None
  <2>1. o.cycle = e /\ o.drive = FALSE
    BY <1>4, <1>7
  <2> QED
    BY <1>2, <1>7, <2>1
<1>8. CASE o = Drive(c) /\ enabled /\ c.action # None /\ ~c.settling /\ ~c.stopped
  <2>1. o.cycle = c /\ o.drive = TRUE
    BY <1>4, <1>8
  <2> QED
    BY <1>8, <2>1
<1> QED
  BY <1>3, <1>5, <1>6, <1>7, <1>8

\* A command: the motor may still have to be cut off.
LEMMA CommandedGood ==
    ASSUME NEW n, Good(n), NEW m \in Commanded(n)
    PROVE  /\ Consistent(m) /\ Quiet(m)
           /\ m.drive => n.power = "ready"
           /\ m.power = n.power
           /\ n.cycle.stopped => m.cycle.stopped
           /\ m.token = n.token /\ m.queue = n.queue
           /\ n.cycle.fresh /\ ~n.cycle.settling /\ n.cycle.action = None => m.cycle = n.cycle
<1>1. n \in Node /\ n.cycle \in Cycle /\ (n.power = "ready") \in BOOLEAN
  BY DEF Good, Consistent, Node
<1>2. PICK o \in Command(n.cycle, n.power = "ready") :
          m = [n EXCEPT !.cycle = o.cycle, !.drive = o.drive]
  BY DEF Commanded
<1> DEFINE c == n.cycle
<1>3. /\ o.cycle \in Cycle /\ o.drive \in BOOLEAN
      /\ c.stopped => o.cycle.stopped
      /\ \/ o.cycle = c /\ ~o.drive
         \/ /\ o.cycle = c /\ o.drive /\ n.power = "ready"
            /\ c.action # None /\ ~c.settling /\ ~c.stopped
         \/ /\ o.cycle.settling /\ o.cycle.action = None /\ ~o.cycle.pending /\ ~o.drive
            /\ o.cycle.stopped /\ ~o.cycle.target
         \/ /\ o.cycle.settling /\ o.cycle.action = None /\ ~o.drive
            /\ o.cycle.pending = c.pending /\ o.cycle.target = c.target
            /\ o.cycle.stopped = c.stopped
            /\ c.action # None
      /\ c.fresh /\ ~c.settling /\ c.action = None => o.cycle = c
  BY <1>1, CommandFields
<1>4. /\ m \in Node /\ m.cycle = o.cycle /\ m.drive = o.drive
      /\ m.goal = n.goal /\ m.latest = n.latest /\ m.token = n.token /\ m.future = n.future
      /\ m.queue = n.queue /\ m.plan = n.plan /\ m.power = n.power
      /\ m.call = n.call /\ m.calls = n.calls
  BY <1>1, <1>2, <1>3 DEF Node
<1>5. Consistent(m)
  BY <1>3, <1>4 DEF Good, Consistent
<1>6. Quiet(m)
  BY <1>3, <1>4 DEF Good, Quiet
<1> QED
  BY <1>3, <1>4, <1>5, <1>6

\* Settling cuts the motor off.
LEMMA CutPowerGood ==
    ASSUME NEW n, Consistent(n), Quiet(n), NEW m \in CutPower(n)
    PROVE  /\ Good(m)
           /\ m.drive => n.drive
           /\ n.cycle.stopped => m.cycle.stopped
           /\ m.token = n.token
           /\ ~n.cycle.settling => m = n
<1>1. CASE n.cycle.settling /\ n.power \in {"ready", "enabling", "verify"}
  <2>1. m \in StopPower(n)
    BY <1>1 DEF CutPower
  <2>2. Halting(n)
    BY <1>1 DEF Halting, Consistent
  <2> QED
    BY <1>1, <2>1, <2>2, StopPowerGood
<1>2. CASE ~(n.cycle.settling /\ n.power \in {"ready", "enabling", "verify"})
  <2>1. m = n
    BY <1>2 DEF CutPower
  <2> QED
    BY <1>2, <2>1 DEF Good, PowerCut
<1> QED
  BY <1>1, <1>2

\* A latched stop drops the chunk.
LEMMA DropChunkGood ==
    ASSUME NEW n, Good(n)
    PROVE  LET m == DropChunk(n) IN
           /\ Good(m)
           /\ m.drive => n.drive
           /\ m.cycle = n.cycle /\ m.token = n.token
           /\ m.queue \in {n.queue, <<>>}
<1> DEFINE m == DropChunk(n)
<1>1. n \in Node /\ <<>> \in Seq(Primitives)
  BY DEF Good, Consistent
<1>2. CASE ~n.cycle.stopped
  BY <1>2 DEF DropChunk
<1>3. CASE n.cycle.stopped
  <2>1. m = [n EXCEPT !.queue = <<>>]
    BY <1>3 DEF DropChunk
  <2>2. /\ m \in Node /\ m.cycle = n.cycle /\ m.drive = n.drive
        /\ m.goal = n.goal /\ m.latest = n.latest /\ m.token = n.token /\ m.future = n.future
        /\ m.queue = <<>> /\ m.plan = n.plan /\ m.power = n.power
        /\ m.call = n.call /\ m.calls = n.calls
    BY <1>1, <2>1 DEF Node
  <2>3. Consistent(m)
    BY <2>2 DEF Good, Consistent
  <2> QED
    BY <2>2, <2>3 DEF Good, Quiet, PowerCut
<1> QED
  BY <1>2, <1>3

\* The next primitive of the chunk, or the next request: the robot is standing
\* where its newest image shows it.
LEMMA NextStepGood ==
    ASSUME NEW n, Good(n), NEW m \in NextStep(n)
    PROVE  /\ Good(m)
           /\ m.drive => n.drive
           /\ n.cycle.stopped => m.cycle.stopped
           /\ m.token = None => n.token = None
           /\ n.queue = <<>> /\ m.token = None => m = n
           /\ n.token # None => m = n
<1>1. /\ n \in Node /\ n.cycle \in Cycle /\ n.queue \in Seq(Primitives)
      /\ n.latest \in Frame \cup {None} /\ n.goal \in Goals \cup {None}
  BY DEF Good, Consistent, Node
<1>2. CASE NextPrimitive(n)
  <2>1. m = [n EXCEPT !.cycle = Start(@, Head(n.queue)), !.queue = Tail(@)]
    BY <1>2 DEF NextStep
  <2>2. Head(n.queue) \in Primitives /\ Tail(n.queue) \in Seq(Primitives)
    BY <1>1, <1>2, HeadTailProperties DEF NextPrimitive
  <2> DEFINE d == Start(n.cycle, Head(n.queue))
  <2>3. /\ d \in Cycle /\ d.stopped = n.cycle.stopped /\ d.pending = n.cycle.pending
        /\ \/ d.settling /\ d.action = None /\ ~d.target
           \/ d.settling = n.cycle.settling /\ d.action # None
    BY <1>1, <2>2, StartFields
  <2>4. m = [n EXCEPT !.cycle = d, !.queue = Tail(n.queue)]
    BY <2>1
  <2> HIDE DEF d
  <2>5. /\ m \in Node /\ m.cycle = d /\ m.drive = n.drive
        /\ m.goal = n.goal /\ m.latest = n.latest /\ m.token = n.token /\ m.future = n.future
        /\ m.queue = Tail(n.queue) /\ m.plan = n.plan /\ m.power = n.power
        /\ m.call = n.call /\ m.calls = n.calls
    BY <1>1, <2>2, <2>3, <2>4 DEF Node
  <2>6. /\ n.token = None /\ n.future = None /\ ~n.cycle.pending /\ ~n.drive /\ n.plan = n.goal
        /\ ~n.cycle.settling /\ ~lag /\ ~rolling
        /\ n.power = "ready" /\ ~n.cycle.stopped /\ n.queue # <<>>
    BY <1>2 DEF NextPrimitive, MayStart, Good, Consistent, Quiet
  <2>7. Consistent(m)
    BY <2>3, <2>5, <2>6 DEF Good, Consistent
  <2>8. Quiet(m) /\ PowerCut(m)
    BY <1>2, <2>3, <2>5, <2>6 DEF Good, Quiet, PowerCut, NextPrimitive
  <2> QED
    BY <2>3, <2>5, <2>6, <2>7, <2>8 DEF Good
<1>3. CASE m = n
  BY <1>3
<1>4. CASE ~NextPrimitive(n) /\ MayRequest(n) /\ m # n
  <2> DEFINE c == [n.cycle EXCEPT !.pending = TRUE]
             t == [goal |-> n.goal, moved |-> n.latest.moved]
             w == [state |-> "running", chunk |-> <<>>]
  <2>1. m = [n EXCEPT !.cycle.pending = TRUE, !.future = w, !.token = t]
    BY <1>4 DEF NextStep
  <2>2. /\ n.power = "ready" /\ n.latest # None /\ n.goal # None /\ n.future = None
        /\ n.latest.after /\ ~n.cycle.stopped /\ ~n.cycle.settling /\ n.cycle.action = None
        /\ ~n.cycle.pending /\ MayStart(n.cycle)
    BY <1>4 DEF MayRequest, CanRequest, MayStart
  <2>3. n.queue = <<>>
    BY <1>4, <2>2 DEF NextPrimitive
  <2>4. /\ n.token = None /\ ~n.cycle.target /\ ~n.latest.moved /\ ~n.drive
        /\ ~lag /\ ~rolling /\ ~strayed
    BY <2>2 DEF Good, Consistent, Quiet
  <2>5. /\ t \in Token /\ t # None /\ t.goal = n.goal /\ ~t.moved
        /\ w \in Future /\ w # None
    BY <1>1, <2>2, <2>4, RequestAssumption DEF Token, Frame, Future
  <2>6. /\ c \in Cycle /\ c.pending /\ c.stopped = n.cycle.stopped
        /\ c.settling = n.cycle.settling /\ c.action = n.cycle.action
        /\ c.target = n.cycle.target
    BY <1>1 DEF Cycle
  <2>7. m = [n EXCEPT !.cycle = c, !.future = w, !.token = t]
    BY <2>1
  <2> HIDE DEF c, t, w
  <2>8. /\ m \in Node /\ m.cycle = c /\ m.drive = n.drive
        /\ m.goal = n.goal /\ m.latest = n.latest /\ m.token = t /\ m.future = w
        /\ m.queue = n.queue /\ m.plan = n.plan /\ m.power = n.power
        /\ m.call = n.call /\ m.calls = n.calls
    BY <1>1, <2>5, <2>6, <2>7 DEF Node
  <2>9. Consistent(m)
    BY <2>2, <2>3, <2>4, <2>5, <2>6, <2>8 DEF Good, Consistent
  <2>10. Quiet(m) /\ PowerCut(m)
    BY <2>2, <2>4, <2>6, <2>8 DEF Good, Quiet, PowerCut
  <2> QED
    BY <2>4, <2>5, <2>6, <2>8, <2>9, <2>10 DEF Good
<1> QED
  BY <1>2, <1>3, <1>4 DEF NextStep

\* The control timer as a whole.
LEMMA ControlTickGood ==
    ASSUME NEW n, Good(n), NEW m \in ControlTick(n)
    PROVE  /\ Good(m)
           /\ m.drive => n.power = "ready"
           /\ n.cycle.stopped => m.cycle.stopped
           /\ n.token # None /\ m.token = None /\ ~n.cycle.pending
                  /\ n.cycle.fresh /\ ~n.cycle.settling
              => m.cycle = n.cycle /\ m.queue = n.queue
<1>1. PICK a \in PowerTick(n) :
          \E b \in (IF a.power = "ready" THEN FinishRequest(a) ELSE {a}) :
          \E c \in Commanded(b) : \E d \in CutPower(c) : m \in NextStep(DropChunk(d))
  BY DEF ControlTick
<1>2. PICK b \in (IF a.power = "ready" THEN FinishRequest(a) ELSE {a}) :
          \E c \in Commanded(b) : \E d \in CutPower(c) : m \in NextStep(DropChunk(d))
  BY <1>1
<1>3. PICK c \in Commanded(b) : \E d \in CutPower(c) : m \in NextStep(DropChunk(d))
  BY <1>2
<1>4. PICK d \in CutPower(c) : m \in NextStep(DropChunk(d))
  BY <1>3
<1>5. n.cycle \in Cycle
  BY DEF Good, Consistent, Node
<1>6. /\ Good(a) /\ PowerOutcome(n, a)
      /\ n.cycle.stopped => a.cycle.stopped
      /\ a.cycle.pending => n.cycle.pending
      /\ a.token = n.token
  BY <1>5, PowerTickGood, OutcomeKeeps
<1>7. /\ Good(b) /\ b.power = a.power
      /\ a.cycle.stopped => b.cycle.stopped
      /\ ~a.cycle.pending => b.cycle = a.cycle /\ b.queue = a.queue
      /\ a.power # "ready" => b = a
  <2>1. CASE a.power = "ready"
    BY <1>2, <1>6, <2>1, FinishRequestGood DEF Finished
  <2>2. CASE a.power # "ready"
    BY <1>2, <1>6, <2>2
  <2> QED
    BY <2>1, <2>2
<1>8. /\ Consistent(c) /\ Quiet(c)
      /\ c.drive => b.power = "ready"
      /\ b.cycle.stopped => c.cycle.stopped
      /\ c.token = b.token /\ c.queue = b.queue
      /\ b.cycle.fresh /\ ~b.cycle.settling /\ b.cycle.action = None => c.cycle = b.cycle
  BY <1>7, CommandedGood
<1>9. /\ Good(d)
      /\ d.drive => c.drive
      /\ c.cycle.stopped => d.cycle.stopped
      /\ d.token = c.token
      /\ ~c.cycle.settling => d = c
  BY <1>8, CutPowerGood
<1> DEFINE e == DropChunk(d)
<1>10. /\ Good(e)
       /\ e.drive => d.drive
       /\ e.cycle = d.cycle /\ e.token = d.token
       /\ e.queue \in {d.queue, <<>>}
  BY <1>9, DropChunkGood
<1>11. m \in NextStep(e)
  BY <1>4
<1> HIDE DEF e
<1>12. /\ Good(m)
       /\ m.drive => e.drive
       /\ e.cycle.stopped => m.cycle.stopped
       /\ m.token = None => e.token = None
       /\ e.queue = <<>> /\ m.token = None => m = e
  BY <1>10, <1>11, NextStepGood
<1>13. m.drive => n.power = "ready"
  BY <1>6, <1>7, <1>8, <1>9, <1>10, <1>12 DEF PowerOutcome
<1>14. n.cycle.stopped => m.cycle.stopped
  BY <1>6, <1>7, <1>8, <1>9, <1>10, <1>12
<1>15. ASSUME n.token # None, m.token = None, ~n.cycle.pending, n.cycle.fresh, ~n.cycle.settling
       PROVE  m.cycle = n.cycle /\ m.queue = n.queue
  <2>1. n.queue = <<>> /\ n.cycle.action = None
    BY <1>15 DEF Good, Consistent
  <2>2. a.power = "ready" /\ a.cycle = n.cycle /\ a.queue = n.queue
    <3>1. a.power # "ready" => m.token # None
      BY <1>6, <1>7, <1>8, <1>9, <1>10, <1>12, <1>15
    <3> QED
      BY <1>6, <1>15, <3>1 DEF PowerOutcome
  <2>3. b.cycle = n.cycle /\ b.queue = <<>>
    BY <1>6, <1>7, <1>15, <2>1, <2>2
  <2>4. c.cycle = n.cycle /\ c.queue = <<>>
    BY <1>8, <1>15, <2>1, <2>3
  <2>5. d = c
    BY <1>9, <1>15, <2>4
  <2>6. e.cycle = n.cycle /\ e.queue = <<>>
    BY <1>10, <2>4, <2>5
  <2> QED
    BY <1>12, <1>15, <2>1, <2>6
<1> QED
  BY <1>12, <1>13, <1>14, <1>15
------------------------------------------------------------------------------
(* The steps.                                                                *)

\* What StopIsLatched and LateAnswerIsInert say of a step.
KeepsStop == node.cycle.stopped /\ ~node'.cycle.stopped => OnForcedStop(FALSE)

KeepsQuiet ==
    node.token # None /\ node'.token = None /\ ~node.cycle.pending /\ node.cycle.fresh
       /\ ~node.cycle.settling
    => /\ node'.cycle.stopped = node.cycle.stopped
       /\ node'.cycle.action = node.cycle.action
       /\ node'.queue = node.queue

SafeStep == /\ ExecutorInv' /\ KeepsStop /\ KeepsQuiet

\* The invariant is about the node above all, and what is said of the node after
\* a step gives the invariant back.
LEMMA InvGood ==
    ASSUME ExecutorInv
    PROVE  Good(node)
  BY DEF ExecutorInv, Good

LEMMA GoodInv ==
    ASSUME running' \in {"up", "closing", "gone"},
           {motor, lag, rolling, rolled, strayed}' \subseteq BOOLEAN,
           Consistent(node)', Quiet(node)', PowerCut(node)',
           (node.drive => running = "up")', rolling' => rolled'
    PROVE  ExecutorInv'
<1>1. ExecutorTypeOK' /\ DrivesOnlyReady' /\ OneChunkAtATime'
  BY DEF ExecutorTypeOK, DrivesOnlyReady, OneChunkAtATime, Consistent
<1>2. RequestSeesPlace'
  BY DEF RequestSeesPlace, Consistent, Quiet
<1> QED
  BY <1>1, <1>2 DEF ExecutorInv

\* A handler drives only in the middle of an action, where a command that takes
\* effect late disturbs nothing.
LEMMA BecomesKeeps ==
    ASSUME ExecutorInv, NEW nodes, Becomes(nodes), UNCHANGED <<rolled, strayed>>,
           Good(node'), node'.drive => node.power = "ready"
    PROVE  ExecutorInv'
<1>1. /\ running' = running /\ motor' = motor /\ rolling' = rolling
      /\ rolled' = rolled /\ strayed' = strayed /\ lag' = (lag \/ node'.drive)
      /\ Alive
  BY DEF Becomes
<1>2. /\ running \in {"up", "closing", "gone"}
      /\ {motor, lag, rolling, rolled, strayed} \subseteq BOOLEAN
      /\ rolling => rolled
  BY DEF ExecutorInv, ExecutorTypeOK
<1>3. node' \in Node /\ node'.drive \in BOOLEAN
  BY DEF Good, Consistent, Node
<1>4. (node.drive => running = "up")'
  BY <1>1 DEF Alive
<1>5. Consistent(node)'
  BY DEF Good, Consistent
<1>6. CASE node'.drive
  <2>1. node'.power = "ready" /\ node'.cycle.action # None /\ ~node'.cycle.settling
    BY <1>6 DEF Good, Consistent
  <2>2. Quiet(node)' /\ PowerCut(node)'
    BY <2>1 DEF Quiet, PowerCut
  <2>3. {motor, lag, rolling, rolled, strayed}' \subseteq BOOLEAN
    BY <1>1, <1>2, <1>3
  <2> QED
    BY <1>1, <1>2, <1>4, <1>5, <2>2, <2>3, GoodInv
<1>7. CASE ~node'.drive
  <2>1. lag' = lag
    BY <1>1, <1>2, <1>7
  <2>2. Quiet(node)' /\ PowerCut(node)'
    BY <1>1, <2>1 DEF Good, Quiet, PowerCut
  <2>3. {motor, lag, rolling, rolled, strayed}' \subseteq BOOLEAN
    BY <1>1, <1>2, <2>1
  <2> QED
    BY <1>1, <1>2, <1>4, <1>5, <2>2, <2>3, GoodInv
<1> QED
  BY <1>6, <1>7

\* The callbacks.
LEMMA OnGoalSafe ==
    ASSUME ExecutorInv, NEW g \in Goals \cup {None}, OnGoal(g)
    PROVE  SafeStep
<1>1. Becomes(SetGoal(node, g)) /\ UNCHANGED <<rolled, strayed>> /\ node' \in SetGoal(node, g)
  BY DEF OnGoal, Becomes
<1>2. Stopped(node, node')
  BY <1>1, InvGood, SetGoalGood
<1>3. ExecutorInv'
  BY <1>1, <1>2, BecomesKeeps DEF Stopped
<1> QED
  BY <1>2, <1>3 DEF SafeStep, KeepsStop, KeepsQuiet, Stopped

LEMMA OnObservationSafe ==
    ASSUME ExecutorInv, NEW f \in Frame, OnObservation(f)
    PROVE  SafeStep
<1>1. /\ Becomes(TakeFrame(node, f)) /\ UNCHANGED <<rolled, strayed>>
      /\ node' \in TakeFrame(node, f)
      /\ f.moved \in IF f.after THEN {rolling, strayed} ELSE {TRUE}
  BY DEF OnObservation, Becomes
<1>2. Kept(node, node')
  BY <1>1, InvGood, TakeFrameGood
<1>3. node'.drive => node.power = "ready"
  BY <1>2, InvGood DEF Kept, Good, Consistent
<1>4. ExecutorInv'
  BY <1>1, <1>2, <1>3, BecomesKeeps DEF Kept
<1> QED
  BY <1>2, <1>4 DEF SafeStep, KeepsStop, KeepsQuiet, Kept

LEMMA OnForcedStopSafe ==
    ASSUME ExecutorInv, NEW stop \in BOOLEAN, OnForcedStop(stop)
    PROVE  SafeStep
<1>1. /\ Becomes(ForceStop(node, stop)) /\ UNCHANGED <<rolled, strayed>>
      /\ node' \in ForceStop(node, stop)
  BY DEF OnForcedStop, Becomes
<1>2. Good(node') /\ ~node'.drive /\ (stop => node'.cycle.stopped) /\ node'.token = node.token
  BY <1>1, InvGood, ForceStopGood
<1>3. ExecutorInv'
  BY <1>1, <1>2, BecomesKeeps
<1>4. KeepsStop
  BY <1>2 DEF KeepsStop
<1> QED
  BY <1>2, <1>3, <1>4 DEF SafeStep, KeepsQuiet

LEMMA OnInvalidOdomSafe ==
    ASSUME ExecutorInv, OnInvalidOdom
    PROVE  SafeStep
<1>1. /\ Becomes(InvalidOdom(node)) /\ UNCHANGED <<rolled, strayed>>
      /\ node' \in StopPower([node EXCEPT !.cycle = Cancel(@, TRUE)])
  BY DEF OnInvalidOdom, Becomes, InvalidOdom, Fail
<1>2. Stopped(node, node')
  BY <1>1, InvGood, FailGood
<1>3. ExecutorInv'
  BY <1>1, <1>2, BecomesKeeps DEF Stopped
<1> QED
  BY <1>2, <1>3 DEF SafeStep, KeepsStop, KeepsQuiet, Stopped

\* The control timer, and the power handshake of destroy_node.
LEMMA OnTickSafe ==
    ASSUME ExecutorInv, OnTick
    PROVE  SafeStep
<1>1. /\ Becomes(ControlTick(node)) /\ UNCHANGED <<rolled, strayed>>
      /\ node' \in ControlTick(node)
  BY DEF OnTick, Becomes
<1>2. /\ Good(node')
      /\ node'.drive => node.power = "ready"
      /\ node.cycle.stopped => node'.cycle.stopped
      /\ node.token # None /\ node'.token = None /\ ~node.cycle.pending
             /\ node.cycle.fresh /\ ~node.cycle.settling
         => node'.cycle = node.cycle /\ node'.queue = node.queue
  BY <1>1, InvGood, ControlTickGood
<1>3. ExecutorInv'
  BY <1>1, <1>2, BecomesKeeps
<1> QED
  BY <1>2, <1>3 DEF SafeStep, KeepsStop, KeepsQuiet

LEMMA ClosingTickSafe ==
    ASSUME ExecutorInv, ClosingTick
    PROVE  SafeStep
<1>1. /\ Becomes(PowerTick(node)) /\ UNCHANGED <<rolled, strayed>>
      /\ node' \in PowerTick(node)
  BY DEF ClosingTick, Becomes
<1>2. Good(node) /\ node.cycle \in Cycle
  BY InvGood DEF Good, Consistent, Node
<1>3. Good(node') /\ PowerOutcome(node, node')
  BY <1>1, <1>2, PowerTickGood
<1>4. /\ node.cycle.stopped => node'.cycle.stopped
      /\ node'.token = node.token
  BY <1>2, <1>3, OutcomeKeeps
<1>5. node'.drive => node.power = "ready"
  BY <1>2, <1>3 DEF PowerOutcome, Good, Consistent
<1>6. ExecutorInv'
  BY <1>1, <1>3, <1>5, BecomesKeeps
<1> QED
  BY <1>4, <1>6 DEF SafeStep, KeepsStop, KeepsQuiet

\* Odometry.
LEMMA OnOdomSafe ==
    ASSUME ExecutorInv, NEW s \in Sample, OnOdom(s)
    PROVE  SafeStep
<1>1. /\ Alive /\ node' = TakeOdom(node, s) /\ lag' = (lag \/ node'.drive)
      /\ running' = running /\ motor' = motor /\ rolling' = rolling
      /\ s.still = ~rolled
      /\ rolled' = rolling
      /\ strayed' = IF SetsBarrier(node, s) THEN rolling ELSE strayed
  BY DEF OnOdom, Becomes
<1>2. /\ running \in {"up", "closing", "gone"}
      /\ {motor, lag, rolling, rolled, strayed} \subseteq BOOLEAN
      /\ rolling => rolled
      /\ Good(node) /\ node \in Node /\ node.cycle \in Cycle
  BY InvGood DEF ExecutorInv, ExecutorTypeOK, Good, Consistent, Node
<1>3. /\ Consistent(node') /\ PowerCut(node')
      /\ node'.power \in {"off", "enabling", "verify"}
             \/ (node'.power = "disabling" /\ node'.call = "accepted") => ~lag
      /\ node'.power = "ready" /\ node'.cycle.action = None /\ ~node'.cycle.settling =>
             /\ ~lag /\ ~rolling
             /\ IF SetsBarrier(node, s) THEN node'.latest # None => ~node'.latest.after
                ELSE ~strayed /\ (node'.latest # None /\ node'.latest.after => ~node'.latest.moved)
  BY <1>1, <1>2, TakeOdomGood
<1>4. /\ node'.cycle = Observe(node.cycle, s) /\ node'.token = node.token
      /\ node'.drive = node.drive
  BY <1>1, <1>2, TakeOdomFields
<1>5. node'.cycle.stopped = node.cycle.stopped
  BY <1>2, <1>4, ObserveFields
<1>6. node'.drive \in BOOLEAN
  BY <1>3 DEF Consistent, Node
<1>7. node'.drive => node'.power = "ready" /\ node'.cycle.action # None /\ ~node'.cycle.settling
  BY <1>3 DEF Consistent
<1>8. (node.drive => running = "up")'
  BY <1>1, <1>2, <1>4 DEF Alive, Good, Consistent
<1>9. {motor, lag, rolling, rolled, strayed}' \subseteq BOOLEAN
  BY <1>1, <1>2, <1>6
<1>10. ~node'.drive => lag' = lag
  BY <1>1, <1>2
<1>11. Consistent(node)'
  BY <1>3 DEF Consistent
<1>12. PowerCut(node)'
  BY <1>1, <1>3, <1>7, <1>10 DEF PowerCut
<1>13. Quiet(node)'
  <2>1. CASE node'.drive
    BY <1>7, <2>1 DEF Quiet
  <2>2. CASE ~node'.drive
    BY <1>1, <1>3, <1>10, <2>2 DEF Quiet
  <2> QED
    BY <2>1, <2>2
<1>14. ExecutorInv'
  BY <1>1, <1>2, <1>8, <1>9, <1>11, <1>12, <1>13, GoodInv
<1> QED
  BY <1>4, <1>5, <1>14 DEF SafeStep, KeepsStop, KeepsQuiet

\* destroy_node: the stop is latched, and nothing drives any more.
LEMMA DestroyNodeSafe ==
    ASSUME ExecutorInv, DestroyNode
    PROVE  SafeStep
<1>1. /\ node' \in StopPower([node EXCEPT !.cycle = Cancel(@, TRUE)])
      /\ running' = "closing"
      /\ motor' = motor /\ lag' = lag /\ rolling' = rolling /\ rolled' = rolled
      /\ strayed' = strayed
  BY DEF DestroyNode
<1>2. Stopped(node, node')
  BY <1>1, InvGood, FailGood
<1>3. /\ {motor, lag, rolling, rolled, strayed}' \subseteq BOOLEAN
      /\ rolling' => rolled'
  BY <1>1 DEF ExecutorInv, ExecutorTypeOK
<1>4. Consistent(node)' /\ Quiet(node)' /\ PowerCut(node)' /\ ~node'.drive
  BY <1>1, <1>2 DEF Stopped, Good, Consistent, Quiet, PowerCut
<1>5. ExecutorInv'
  BY <1>1, <1>3, <1>4, GoodInv
<1> QED
  BY <1>2, <1>5 DEF SafeStep, KeepsStop, KeepsQuiet, Stopped

\* The end of the process, time, the worker and the environment.
LEMMA ExitSafe ==
    ASSUME ExecutorInv, Exit
    PROVE  SafeStep
<1>1. /\ running = "closing" /\ running' = "gone"
      /\ node' = node /\ motor' = motor /\ lag' = lag /\ rolling' = rolling /\ rolled' = rolled
      /\ strayed' = strayed
  BY DEF Exit
<1>2. ~node.drive
  BY <1>1 DEF ExecutorInv, DrivesOnlyReady
<1>3. /\ {motor, lag, rolling, rolled, strayed}' \subseteq BOOLEAN
      /\ rolling' => rolled'
  BY <1>1 DEF ExecutorInv, ExecutorTypeOK
<1>4. Consistent(node)' /\ Quiet(node)' /\ PowerCut(node)'
  BY <1>1 DEF ExecutorInv, Consistent, Quiet, PowerCut
<1>5. ExecutorInv'
  BY <1>1, <1>2, <1>3, <1>4, GoodInv
<1> QED
  BY <1>1, <1>5 DEF SafeStep, KeepsStop, KeepsQuiet

LEMMA OdomGoesStaleSafe ==
    ASSUME ExecutorInv, OdomGoesStale
    PROVE  SafeStep
<1>1. /\ node' = [node EXCEPT !.cycle.fresh = FALSE]
      /\ running' = running /\ motor' = motor /\ lag' = lag /\ rolling' = rolling
      /\ rolled' = rolled /\ strayed' = strayed
  BY DEF OdomGoesStale
<1>2. /\ running \in {"up", "closing", "gone"}
      /\ {motor, lag, rolling, rolled, strayed} \subseteq BOOLEAN
      /\ rolling => rolled
      /\ Good(node) /\ node \in Node /\ node.cycle \in Cycle
      /\ node.drive => running = "up"
  BY InvGood DEF ExecutorInv, ExecutorTypeOK, DrivesOnlyReady, Good, Consistent, Node
<1> DEFINE c == [node.cycle EXCEPT !.fresh = FALSE]
<1>3. /\ c \in Cycle /\ c.settling = node.cycle.settling /\ c.action = node.cycle.action
      /\ c.target = node.cycle.target /\ c.pending = node.cycle.pending
      /\ c.stopped = node.cycle.stopped
  BY <1>2 DEF Cycle
<1>4. node' = [node EXCEPT !.cycle = c]
  BY <1>1
<1> HIDE DEF c
<1>5. /\ node' \in Node /\ node'.cycle = c /\ node'.drive = node.drive
      /\ node'.goal = node.goal /\ node'.latest = node.latest /\ node'.token = node.token
      /\ node'.future = node.future /\ node'.queue = node.queue /\ node'.plan = node.plan
      /\ node'.power = node.power /\ node'.call = node.call /\ node'.calls = node.calls
  BY <1>2, <1>3, <1>4 DEF Node
<1>6. Consistent(node)'
  BY <1>2, <1>3, <1>5 DEF Good, Consistent
<1>7. Quiet(node)' /\ PowerCut(node)'
  BY <1>1, <1>2, <1>3, <1>5 DEF Good, Quiet, PowerCut
<1>8. ExecutorInv'
  BY <1>1, <1>2, <1>5, <1>6, <1>7, GoodInv
<1> QED
  BY <1>3, <1>5, <1>8 DEF SafeStep, KeepsStop, KeepsQuiet

LEMMA WorkerDoneSafe ==
    ASSUME ExecutorInv, WorkerDone
    PROVE  SafeStep
<1>1. /\ node.future # None
      /\ running' = running /\ motor' = motor /\ lag' = lag /\ rolling' = rolling
      /\ rolled' = rolled /\ strayed' = strayed
  BY DEF WorkerDone
<1>2. PICK result \in Future : node' = [node EXCEPT !.future = result]
  BY DEF WorkerDone
<1>3. /\ running \in {"up", "closing", "gone"}
      /\ {motor, lag, rolling, rolled, strayed} \subseteq BOOLEAN
      /\ rolling => rolled
      /\ Good(node) /\ node \in Node
      /\ node.drive => running = "up"
  BY InvGood DEF ExecutorInv, ExecutorTypeOK, DrivesOnlyReady, Good, Consistent
<1>4. result # None
  BY RequestAssumption
<1>5. /\ node' \in Node /\ node'.cycle = node.cycle /\ node'.drive = node.drive
      /\ node'.goal = node.goal /\ node'.latest = node.latest /\ node'.token = node.token
      /\ node'.future = result /\ node'.queue = node.queue /\ node'.plan = node.plan
      /\ node'.power = node.power /\ node'.call = node.call /\ node'.calls = node.calls
  BY <1>2, <1>3 DEF Node
<1>6. Consistent(node)'
  BY <1>1, <1>3, <1>4, <1>5 DEF Good, Consistent
<1>7. Quiet(node)' /\ PowerCut(node)'
  BY <1>1, <1>3, <1>5 DEF Good, Quiet, PowerCut
<1>8. ExecutorInv'
  BY <1>1, <1>3, <1>5, <1>6, <1>7, GoodInv
<1> QED
  BY <1>5, <1>8 DEF SafeStep, KeepsStop, KeepsQuiet

\* The power service answers its oldest call; the node hears of its newest.
LEMMA PowerServedSafe ==
    ASSUME ExecutorInv, NEW ok \in BOOLEAN, PowerServed(ok)
    PROVE  SafeStep
<1> DEFINE call == IF node.call = "waiting" /\ Len(node.calls) = 1
                   THEN (IF ok THEN "accepted" ELSE "refused")
                   ELSE node.call
<1>1. /\ node.calls # <<>>
      /\ motor' = IF ok THEN node.calls[1] ELSE motor
      /\ lag' = IF ok /\ ~node.calls[1] THEN FALSE ELSE lag
      /\ node' = [node EXCEPT !.calls = Tail(node.calls), !.call = call]
      /\ running' = running /\ rolling' = rolling /\ rolled' = rolled /\ strayed' = strayed
  BY DEF PowerServed
<1>2. /\ running \in {"up", "closing", "gone"}
      /\ {motor, lag, rolling, rolled, strayed} \subseteq BOOLEAN
      /\ rolling => rolled
      /\ Good(node) /\ node \in Node /\ node.calls \in Seq(BOOLEAN)
      /\ node.call \in {None, "waiting", "accepted", "refused"}
      /\ node.drive => running = "up"
  BY InvGood DEF ExecutorInv, ExecutorTypeOK, DrivesOnlyReady, Good, Consistent, Node
<1>3. /\ node.calls[1] \in BOOLEAN /\ Tail(node.calls) \in Seq(BOOLEAN)
      /\ Len(node.calls) \in Nat
      /\ Len(node.calls) # 0
      /\ Len(Tail(node.calls)) = Len(node.calls) - 1
      /\ \A i \in 1 .. Len(Tail(node.calls)) : Tail(node.calls)[i] = node.calls[i + 1]
  <2>1. Len(node.calls) \in Nat /\ Len(node.calls) # 0
    BY <1>1, <1>2, EmptySeq, LenProperties
  <2>2. /\ Tail(node.calls) \in Seq(BOOLEAN)
        /\ Len(Tail(node.calls)) = Len(node.calls) - 1
        /\ \A i \in 1 .. Len(Tail(node.calls)) : Tail(node.calls)[i] = node.calls[i + 1]
    BY <1>1, <1>2, HeadTailProperties
  <2>3. node.calls[1] \in BOOLEAN
    <3>1. 1 \in 1 .. Len(node.calls)
      BY <2>1
    <3> QED
      BY <1>2, <3>1, ElementOfSeq
  <2> QED
    BY <2>1, <2>2, <2>3
<1>4. ASSUME Len(node.calls) # 1
      PROVE  /\ Tail(node.calls) # <<>>
             /\ Tail(node.calls)[Len(Tail(node.calls))] = node.calls[Len(node.calls)]
  <2> DEFINE k == Len(Tail(node.calls))
  <2>1. k \in Nat /\ k # 0 /\ k + 1 = Len(node.calls)
    BY <1>3, <1>4
  <2>2. Tail(node.calls) # <<>>
    BY <1>3, <2>1, EmptySeq
  <2> HIDE DEF k
  <2>3. k \in 1 .. k
    BY <2>1
  <2>4. Tail(node.calls)[k] = node.calls[k + 1]
    BY <1>3, <2>3 DEF k
  <2> QED
    BY <2>1, <2>2, <2>4 DEF k
<1>5. /\ call \in {None, "waiting", "accepted", "refused"}
      /\ call = "waiting" => node.call = "waiting" /\ Len(node.calls) # 1
      /\ call = "accepted" => \/ node.call = "accepted"
                              \/ node.call = "waiting" /\ Len(node.calls) = 1 /\ ok
  BY <1>2
<1> HIDE DEF call
<1>6. /\ node' \in Node /\ node'.cycle = node.cycle /\ node'.drive = node.drive
      /\ node'.goal = node.goal /\ node'.latest = node.latest /\ node'.token = node.token
      /\ node'.future = node.future /\ node'.queue = node.queue /\ node'.plan = node.plan
      /\ node'.power = node.power /\ node'.call = call /\ node'.calls = Tail(node.calls)
  BY <1>1, <1>2, <1>3, <1>5 DEF Node
<1>7. /\ motor' \in BOOLEAN /\ lag' \in BOOLEAN
      /\ ~lag => ~lag'
  BY <1>1, <1>2, <1>3
<1>8. Consistent(node)'
  BY <1>2, <1>4, <1>5, <1>6 DEF Good, Consistent
<1>9. node.power = "disabling" /\ call = "accepted" => ~lag'
  <2>1. CASE node.call = "accepted"
    BY <1>2, <1>7, <2>1 DEF Good, Quiet
  <2>2. CASE node.call = "waiting" /\ Len(node.calls) = 1 /\ ok /\ node.power = "disabling"
    <3>1. node.calls[Len(node.calls)] = FALSE
      BY <1>2, <2>2 DEF Good, Consistent
    <3>2. node.calls[1] = FALSE
      BY <1>3, <2>2, <3>1
    <3> QED
      BY <1>1, <2>2, <3>2
  <2> QED
    BY <1>5, <2>1, <2>2
<1>10. Quiet(node)' /\ PowerCut(node)'
  BY <1>1, <1>2, <1>6, <1>7, <1>9 DEF Good, Quiet, PowerCut
<1>11. ExecutorInv'
  BY <1>1, <1>2, <1>6, <1>7, <1>8, <1>10, GoodInv
<1> QED
  BY <1>6, <1>11 DEF SafeStep, KeepsStop, KeepsQuiet

\* The wheels roll: only in the middle of an action, or before the node has
\* heard that the motor is off; no image that counts has been exposed then.
LEMMA WheelsRollSafe ==
    ASSUME ExecutorInv, WheelsRoll
    PROVE  SafeStep
<1>1. /\ node.drive \/ lag
      /\ rolling' = TRUE /\ rolled' = TRUE /\ strayed' = TRUE
      /\ node' = [node EXCEPT !.latest = Touch(node.latest), !.token = Touch(node.token)]
      /\ running' = running /\ motor' = motor /\ lag' = lag
  BY DEF WheelsRoll
<1>2. /\ running \in {"up", "closing", "gone"}
      /\ {motor, lag, rolling, rolled, strayed} \subseteq BOOLEAN
      /\ Good(node) /\ node \in Node
      /\ node.latest \in Frame \cup {None} /\ node.token \in Token \cup {None}
      /\ node.drive => running = "up"
  BY InvGood DEF ExecutorInv, ExecutorTypeOK, DrivesOnlyReady, Good, Consistent, Node
<1>3. \A f \in Frame : [f EXCEPT !.moved = TRUE] \in Frame
  BY DEF Frame
<1>4. Touch(node.latest) \in Frame \cup {None}
  BY <1>2, <1>3 DEF Touch
<1>5. \A t \in Token : [t EXCEPT !.moved = TRUE] \in Token /\ [t EXCEPT !.moved = TRUE] # None
  BY RequestAssumption DEF Token
<1>6. /\ Touch(node.token) \in Token \cup {None}
      /\ Touch(node.token) = None <=> node.token = None
  BY <1>2, <1>5 DEF Touch
<1>7. /\ node' \in Node /\ node'.cycle = node.cycle /\ node'.drive = node.drive
      /\ node'.goal = node.goal /\ node'.token = Touch(node.token)
      /\ node'.future = node.future /\ node'.queue = node.queue /\ node'.plan = node.plan
      /\ node'.power = node.power /\ node'.call = node.call /\ node'.calls = node.calls
  BY <1>1, <1>2, <1>4, <1>6 DEF Node
<1>8. ~(node.power = "ready" /\ node.cycle.action = None /\ ~node.cycle.settling)
  BY <1>1, <1>2 DEF Good, Consistent, Quiet
<1>9. ~node.cycle.pending
  BY <1>2, <1>8 DEF Good, Consistent
<1>10. Consistent(node)'
  BY <1>2, <1>6, <1>7, <1>9 DEF Good, Consistent
<1>11. Quiet(node)'
  BY <1>1, <1>2, <1>7, <1>8 DEF Good, Quiet
<1>12. PowerCut(node)'
  BY <1>1, <1>2, <1>7 DEF Good, Consistent, PowerCut
<1>13. ExecutorInv'
  BY <1>1, <1>2, <1>7, <1>10, <1>11, <1>12, GoodInv
<1> QED
  BY <1>6, <1>7, <1>13 DEF SafeStep, KeepsStop, KeepsQuiet

LEMMA WheelsHaltSafe ==
    ASSUME ExecutorInv, WheelsHalt
    PROVE  SafeStep
<1>1. /\ rolling' = FALSE /\ node' = node /\ running' = running /\ motor' = motor
      /\ lag' = lag /\ rolled' = rolled /\ strayed' = strayed
  BY DEF WheelsHalt
<1>2. /\ running \in {"up", "closing", "gone"}
      /\ {motor, lag, rolling, rolled, strayed} \subseteq BOOLEAN
      /\ Good(node)
      /\ node.drive => running = "up"
  BY InvGood DEF ExecutorInv, ExecutorTypeOK, DrivesOnlyReady
<1>3. Consistent(node)' /\ Quiet(node)' /\ PowerCut(node)'
  BY <1>1, <1>2 DEF Good, Consistent, Quiet, PowerCut
<1>4. ExecutorInv'
  BY <1>1, <1>2, <1>3, GoodInv
<1> QED
  BY <1>1, <1>4 DEF SafeStep, KeepsStop, KeepsQuiet
------------------------------------------------------------------------------
(* The theorems.                                                             *)

\* The process starts with the motor unknown and a stop to be confirmed.
LEMMA InitExecutor == ExecutorInit => ExecutorInv
<1> SUFFICES ASSUME ExecutorInit PROVE ExecutorInv
  OBVIOUS
<1>1. /\ node.cycle = NewCycle /\ node.goal = None /\ node.latest = None /\ node.token = None
      /\ node.future = None /\ node.queue = <<>> /\ node.power = "stop"
      /\ node.call = None /\ node.calls = <<>> /\ node.drive = FALSE
  BY DEF ExecutorInit
<1>2. /\ NewCycle \in Cycle /\ NewCycle.settling /\ ~NewCycle.pending /\ ~NewCycle.target
      /\ NewCycle.action = None
  BY DEF NewCycle, Cycle
<1>3. node \in Node
  <2>1. <<>> \in Seq(Primitives) /\ <<>> \in Seq(BOOLEAN)
    OBVIOUS
  <2> QED
    BY <1>2, <2>1 DEF ExecutorInit, Node
<1>4. Consistent(node) /\ Quiet(node) /\ PowerCut(node)
  BY <1>1, <1>2, <1>3, ExecutorAssumption DEF Consistent, Quiet, PowerCut
<1>5. ExecutorTypeOK /\ (rolling => rolled)
  BY <1>3 DEF ExecutorTypeOK, ExecutorInit
<1>6. DrivesOnlyReady /\ RequestSeesPlace /\ OneChunkAtATime
  BY <1>1, <1>2 DEF DrivesOnlyReady, RequestSeesPlace, OneChunkAtATime
<1> QED
  BY <1>4, <1>5, <1>6 DEF ExecutorInv

\* Every step, and a stutter.
LEMMA NextSafe ==
    ASSUME ExecutorInv, [ExecutorNext]_executorVars
    PROVE  ExecutorInv' /\ (SafeStep \/ UNCHANGED executorVars)
<1>1. CASE ExecutorNext
  <2>1. SafeStep
    BY <1>1, OnGoalSafe, OnObservationSafe, OnForcedStopSafe, OnOdomSafe, OnInvalidOdomSafe,
       OnTickSafe, OdomGoesStaleSafe, WorkerDoneSafe, DestroyNodeSafe, ClosingTickSafe,
       ExitSafe, PowerServedSafe, WheelsRollSafe, WheelsHaltSafe DEF ExecutorNext
  <2> QED
    BY <2>1 DEF SafeStep
<1>2. CASE UNCHANGED executorVars
  BY <1>2 DEF executorVars, ExecutorInv, ExecutorTypeOK, DrivesOnlyReady, RequestSeesPlace,
     OneChunkAtATime, Consistent, Quiet, PowerCut
<1> QED
  BY <1>1, <1>2

\* The robot, its motor and its requests at any time: the last command moves the
\* robot only with the power handshake complete and no stop latched, a request
\* that counts shows the place the robot stands at, and chunks do not mix.  The
\* motor's power is what carries it: a stop to be confirmed takes the power
\* away, and the power comes back only when no command is left to take effect.
THEOREM ExecutorIsSafe == ExecutorSpec => []ExecutorInv
<1>1. ExecutorInv /\ [ExecutorNext]_executorVars => ExecutorInv'
  BY NextSafe
<1> QED
  BY InitExecutor, <1>1, PTL DEF ExecutorSpec

\* A primitive under way, and what is left of its chunk, answer the current goal,
\* whatever goals arrive while a request is in the worker.
THEOREM ActsForGoal == ExecutorSpec => []ActsForCurrentGoal
<1>1. ExecutorInv => ActsForCurrentGoal
  BY DEF ExecutorInv, Consistent, ActsForCurrentGoal
<1> QED
  BY ExecutorIsSafe, <1>1, PTL

\* A stop is released by the service alone: no goal, frame, odometry, late answer
\* or power call clears it.
THEOREM StopLatched == ExecutorSpec => StopIsLatched
<1>1. ExecutorInv /\ [ExecutorNext]_executorVars
        => [node.cycle.stopped /\ ~node'.cycle.stopped => OnForcedStop(FALSE)]_executorVars
  BY NextSafe DEF SafeStep, KeepsStop
<1> QED
  BY ExecutorIsSafe, <1>1, PTL DEF ExecutorSpec, StopIsLatched

\* The late answer of a cancelled request neither stops the cycle nor starts a
\* primitive, with the power handshake in any state.
THEOREM LateAnswersInert == ExecutorSpec => LateAnswerIsInert
<1>1. ExecutorInv /\ [ExecutorNext]_executorVars
        => [node.token # None /\ node'.token = None /\ ~node.cycle.pending /\ node.cycle.fresh
               /\ ~node.cycle.settling
             => /\ node'.cycle.stopped = node.cycle.stopped
                /\ node'.cycle.action = node.cycle.action
                /\ node'.queue = node.queue]_executorVars
  BY NextSafe DEF SafeStep, KeepsQuiet
<1> QED
  BY ExecutorIsSafe, <1>1, PTL DEF ExecutorSpec, LateAnswerIsInert
===============================================================================
