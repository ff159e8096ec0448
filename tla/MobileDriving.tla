----------------------------- MODULE MobileDriving -----------------------------
(***************************************************************************)
(* Driving from a phone: the action bridge, the path topic and the path    *)
(* follower, against the clock.  The two timers fire at least once per     *)
(* period and a published path is delivered within PathLatency; that is    *)
(* what an executor that keeps up and a topic on one robot give.           *)
(***************************************************************************)
EXTENDS ActionPathBridge, PathFollower

CONSTANTS BridgePeriod,    \* the bridge timer's period
          FollowerPeriod,  \* the follower timer's period
          PathLatency      \* the longest delivery of a published path

ASSUME TimingAssumption ==
    /\ BridgePeriod \in Nat
    /\ FollowerPeriod \in Nat
    /\ PathLatency \in Nat

VARIABLES bridgeUp,      \* the bridge process is alive
          bridgeTimer,   \* time since the bridge timer fired
          followerTimer  \* time since the follower timer fired

mobileVars == <<worker, pending, rxAge, stopped, topic, topicAge, heard, silence,
                latest, mismatch, pathNew, held, heldAge, forcedStop, cmd, pathAge,
                bridgeUp, bridgeTimer, followerTimer>>

Bound == ChunkMaxAge + BridgePeriod + PathLatency + FollowerPeriod

MobileInit ==
    /\ BridgeInit(Bound + 1)
    /\ FollowerInit
    /\ bridgeUp = TRUE
    /\ bridgeTimer = 0
    /\ followerTimer = 0

ServerStep ==
    /\ bridgeUp
    /\ \E w \in Workers :
          \/ \E p \in Paths : ChunkArrives(w, p)
          \/ Accept(w)
          \/ Reject(w)
    /\ UNCHANGED <<followerVars, bridgeUp, bridgeTimer, followerTimer>>

BridgeTimer ==
    /\ bridgeUp
    /\ BridgeTick
    /\ bridgeTimer' = 0
    /\ UNCHANGED <<followerVars, bridgeUp, followerTimer>>

\* Nothing is published when the process ends.
BridgeDies ==
    /\ bridgeUp
    /\ bridgeUp' = FALSE
    /\ UNCHANGED <<bridgeVars, followerVars, bridgeTimer, followerTimer>>

\* The bridge stamps its paths with the frame the follower expects.
Deliver ==
    /\ topic # None
    /\ OnPath(topic, TRUE)
    /\ topic' = None
    /\ UNCHANGED <<worker, pending, rxAge, stopped, topicAge, heard, silence,
                   bridgeUp, bridgeTimer, followerTimer>>

ForcedStop ==
    /\ \E b \in BOOLEAN : OnForcedStop(b)
    /\ UNCHANGED <<bridgeVars, bridgeUp, bridgeTimer, followerTimer>>

FollowerTimer ==
    /\ FollowerTick
    /\ followerTimer' = 0
    /\ UNCHANGED <<bridgeVars, bridgeUp, bridgeTimer>>

\* Time passes, but not past a timer that is due or a late delivery.
MobileTime ==
    /\ bridgeUp => bridgeTimer < BridgePeriod
    /\ followerTimer < FollowerPeriod
    /\ topic # None => topicAge < PathLatency
    /\ BridgeTime(Bound + 1)
    /\ FollowerTime
    /\ bridgeTimer' = IF bridgeUp THEN bridgeTimer + 1 ELSE bridgeTimer
    /\ followerTimer' = followerTimer + 1
    /\ UNCHANGED bridgeUp

MobileNext ==
    \/ ServerStep \/ BridgeTimer \/ BridgeDies \/ Deliver
    \/ ForcedStop \/ FollowerTimer \/ MobileTime

MobileSpec == MobileInit /\ [][MobileNext]_mobileVars

\* The executors serve the timers and the topic, every thread is done with
\* its chunk some day, and the clock advances.
MobileFairSpec ==
    /\ MobileSpec
    /\ WF_mobileVars(BridgeTimer)
    /\ WF_mobileVars(Deliver)
    /\ WF_mobileVars(FollowerTimer)
    /\ WF_mobileVars(MobileTime)
    /\ \A w \in Workers : WF_mobileVars((Accept(w) \/ Reject(w)) /\ ServerStep)
------------------------------------------------------------------------------
LinkTypeOK ==
    /\ worker \in [Workers -> Decoding \cup {None}]
    /\ pending \in Paths \cup {None}
    /\ rxAge \in 0 .. ChunkMaxAge + 1
    /\ stopped \in BOOLEAN
    /\ topic \in Paths \cup {None}
    /\ topicAge \in 0 .. PathLatency
    /\ heard \in 0 .. ChunkMaxAge + 1
    /\ silence \in 0 .. Bound + 1
    /\ bridgeUp \in BOOLEAN
    /\ bridgeTimer \in 0 .. BridgePeriod
    /\ followerTimer \in 0 .. FollowerPeriod

\* The clocks stay within the bounds the timers and the topic guarantee.
MobileTypeOK == TypeOK /\ LinkTypeOK

Moving == cmd \in MovingPaths

\* The stop path is the last word of the bridge: once it is out, no older
\* chunk is queued or waiting behind it.  (tick clears _pending)
StopIsLast ==
    stopped => pending = None /\ topic \in {None, Empty}

\* The clock reading the watchdog tests is no newer than the silence, so the
\* watchdog stays armed until the timer has looked.
WatchdogArmed ==
    bridgeUp /\ ~stopped =>
        /\ rxAge <= ChunkMaxAge => silence <= rxAge
        /\ silence <= ChunkMaxAge + bridgeTimer

\* A path the follower drives on is covered by the armed watchdog, or the stop
\* path is on its way.
StopOnItsWay ==
    bridgeUp /\ stopped /\ latest \in MovingPaths =>
        /\ topic = Empty
        /\ silence <= ChunkMaxAge + BridgePeriod + topicAge

\* A command outlives the path it was computed from by one follower period.
CommandLags ==
    bridgeUp /\ Moving /\ latest \notin MovingPaths =>
        silence <= ChunkMaxAge + BridgePeriod + PathLatency + followerTimer

\* The inductive invariant behind the dead man's switch.
MobileInv ==
    /\ MobileTypeOK
    /\ HeldIsCurrent
    /\ StopIsLast
    /\ WatchdogArmed
    /\ StopOnItsWay
    /\ CommandLags

\* The robot moves only while it keeps hearing from the phone: silence for
\* longer than the chunk age, both periods and the latency stands it still.
\* (ActionPathBridge.tick, _on_path, _decide_cmd)
MovesOnlyWhenHeard == bridgeUp /\ Moving => silence <= Bound

\* Together: the clocks of the switch and what they bound.
SwitchInv == MobileInv /\ MovesOnlyWhenHeard

\* The whole of it, as a refinement.
Switch == INSTANCE DeadMan WITH moving <- Moving, alive <- bridgeUp

SwitchSpec == Switch!Spec

\* The watchdog fires early by no more than the time a thread may hold a clock
\* reading.  (handle_chunk reads the clock before it decodes)
EarlyStopBounded ==
    [][TickTimeout => heard + MaxDecode > ChunkMaxAge]_mobileVars

\* A phone that falls silent for good leaves the robot standing, unless the
\* bridge died.
QuietPhoneStops ==
    <>[](silence > 0) => <>[](~Moving \/ ~bridgeUp)
================================================================================
