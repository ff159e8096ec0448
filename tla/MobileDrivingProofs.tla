---------------------------- MODULE MobileDrivingProofs ----------------------------
(***************************************************************************)
(* Proofs about the path follower by itself, for any paths and any hold    *)
(* timeout, and about driving from a phone, for any number of server       *)
(* threads, any paths and any periods, ages and latencies.                 *)
(***************************************************************************)
EXTENDS MobileDriving, TLAPS

(***************************************************************************)
(* The path follower by itself.                                            *)
(***************************************************************************)

LEMMA LawIsPath == \A p \in Paths : Law(p) \in Paths
BY PathAssumption DEF Law

LEMMA Bounds == 0 \in 0 .. HoldTimeout + 1 /\ HoldTimeout \in Nat
BY FollowerAssumption

\* Every state of the follower is well typed.
THEOREM FollowerTypes == Spec => []TypeOK
<1>1. Init => TypeOK
  BY PathAssumption, Bounds DEF Init, FollowerInit, TypeOK
<1>2. TypeOK /\ [Next]_followerVars => TypeOK'
  <2> SUFFICES ASSUME TypeOK, [Next]_followerVars
               PROVE  TypeOK'
    OBVIOUS
  <2> USE DEF TypeOK
  <2>1. ASSUME NEW p \in Paths, NEW b \in BOOLEAN, OnPath(p, b)
        PROVE  TypeOK'
    BY <2>1, Bounds, PathAssumption DEF OnPath
  <2>2. ASSUME NEW b \in BOOLEAN, OnForcedStop(b)
        PROVE  TypeOK'
    BY <2>2, Bounds DEF OnForcedStop
  <2>3. CASE TickForced
    BY <2>3, PathAssumption DEF TickForced
  <2>4. CASE TickMismatch
    BY <2>4, Bounds, LawIsPath DEF TickMismatch, Deciding, Release
  <2>5. CASE TickMoving
    BY <2>5, Bounds, LawIsPath DEF TickMoving, Deciding, Latch, Law
  <2>6. CASE TickFreshStop
    BY <2>6, Bounds, LawIsPath DEF TickFreshStop, Deciding, Release
  <2>7. CASE TickNoNews
    BY <2>7, Bounds, LawIsPath, PathAssumption DEF TickNoNews, Deciding, Release, MayHold
  <2>8. CASE FollowerTime
    BY <2>8, Bounds DEF FollowerTime
  <2>9. CASE UNCHANGED followerVars
    BY <2>9 DEF followerVars
  <2> QED
    BY <2>1, <2>2, <2>3, <2>4, <2>5, <2>6, <2>7, <2>8, <2>9 DEF Next, FollowerTick
<1> QED
  BY <1>1, <1>2, PTL DEF Spec

\* A latched command is never one of an older path: the invariant that makes
\* the hold unreachable.
THEOREM HeldCommandIsCurrent == Spec => []HeldIsCurrent
<1>1. Init => HeldIsCurrent
  BY DEF Init, FollowerInit, HeldIsCurrent
<1>2. TypeOK /\ HeldIsCurrent /\ [Next]_followerVars => HeldIsCurrent'
  <2> SUFFICES ASSUME TypeOK, HeldIsCurrent, [Next]_followerVars
               PROVE  HeldIsCurrent'
    OBVIOUS
  <2> USE DEF HeldIsCurrent
  <2>1. ASSUME NEW p \in Paths, NEW b \in BOOLEAN, OnPath(p, b)
        PROVE  HeldIsCurrent'
    BY <2>1 DEF OnPath
  <2>2. ASSUME NEW b \in BOOLEAN, OnForcedStop(b)
        PROVE  HeldIsCurrent'
    BY <2>2 DEF OnForcedStop
  <2>3. CASE TickForced
    BY <2>3 DEF TickForced
  <2>4. CASE TickMismatch
    BY <2>4 DEF TickMismatch, Deciding, Release
  <2>5. CASE TickMoving
    BY <2>5 DEF TickMoving, Deciding, Latch, Law
  <2>6. CASE TickFreshStop
    BY <2>6 DEF TickFreshStop, Deciding, Release
  <2>7. CASE TickNoNews
    BY <2>7, PathAssumption DEF TickNoNews, Deciding, Release, MayHold, TypeOK
  <2>8. CASE FollowerTime
    BY <2>8 DEF FollowerTime
  <2>9. CASE UNCHANGED followerVars
    BY <2>9 DEF followerVars
  <2> QED
    BY <2>1, <2>2, <2>3, <2>4, <2>5, <2>6, <2>7, <2>8, <2>9 DEF Next, FollowerTick
<1> QED
  BY <1>1, <1>2, FollowerTypes, PTL DEF Spec

\* The hold branch of _decide_cmd is dead code, whatever hold_timeout_sec is.
THEOREM HoldIsDeadCode == Spec => []HoldNeverApplies
<1>1. TypeOK /\ HeldIsCurrent => HoldNeverApplies
  BY DEF TypeOK, HeldIsCurrent, HoldNeverApplies, MayHold
<1> QED
  BY <1>1, FollowerTypes, HeldCommandIsCurrent, PTL

\* The follower's state at any time, whatever it is sent.
THEOREM FollowerIsConsistent == Spec => []FollowerInv
BY FollowerTypes, HeldCommandIsCurrent, HoldIsDeadCode, PTL DEF FollowerInv

\* No command is ever that of a path older than the latest.
THEOREM CommandsAreCurrent == Spec => NeverAnOlderPath
<1>1. TypeOK /\ HeldIsCurrent /\ [Next]_followerVars
        => [cmd' # cmd => cmd' \in {Empty, Law(latest)}]_followerVars
  <2> SUFFICES ASSUME TypeOK, HeldIsCurrent, Next, cmd' # cmd
               PROVE  cmd' \in {Empty, Law(latest)}
    BY DEF followerVars
  <2>1. CASE TickForced
    BY <2>1 DEF TickForced
  <2>2. CASE TickMismatch \/ TickMoving \/ TickFreshStop
    BY <2>2 DEF TickMismatch, TickMoving, TickFreshStop
  <2>3. CASE TickNoNews
    BY <2>3 DEF TickNoNews, MayHold, TypeOK, HeldIsCurrent
  <2> QED
    BY <2>1, <2>2, <2>3 DEF Next, FollowerTick, OnPath, OnForcedStop, FollowerTime
<1> QED
  BY <1>1, FollowerTypes, HeldCommandIsCurrent, PTL DEF Spec, NeverAnOlderPath

\* Under an engaged stop nothing but zero is commanded, and the news of a path that
\* arrives meanwhile is kept for the first decision after the release.
THEOREM StopKeepsNews == Spec => ForcedStopKeepsNews
<1>1. TypeOK /\ [Next]_followerVars
        => [forcedStop /\ forcedStop' => (pathNew => pathNew') /\ cmd' \in {cmd, Empty}]_followerVars
  <2> SUFFICES ASSUME Next, forcedStop, forcedStop'
               PROVE  (pathNew => pathNew') /\ cmd' \in {cmd, Empty}
    BY DEF followerVars
  <2>1. CASE \E p \in Paths, b \in BOOLEAN : OnPath(p, b)
    BY <2>1 DEF OnPath
  <2>2. CASE \E b \in BOOLEAN : OnForcedStop(b)
    BY <2>2 DEF OnForcedStop
  <2>3. CASE FollowerTick
    BY <2>3 DEF FollowerTick, TickForced, TickMismatch, TickMoving, TickFreshStop, TickNoNews,
       Deciding
  <2>4. CASE FollowerTime
    BY <2>4 DEF FollowerTime
  <2> QED
    BY <2>1, <2>2, <2>3, <2>4 DEF Next
<1> QED
  BY <1>1, FollowerTypes, PTL DEF Spec, ForcedStopKeepsNews

(***************************************************************************)
(* Driving from a phone.                                                   *)
(***************************************************************************)

LEMMA BoundIsNat ==
    /\ ChunkMaxAge \in Nat /\ MaxDecode \in Nat
    /\ BridgePeriod \in Nat /\ FollowerPeriod \in Nat /\ PathLatency \in Nat
    /\ Bound \in Nat
    /\ Bound = ChunkMaxAge + BridgePeriod + PathLatency + FollowerPeriod
BY BridgeAssumption, TimingAssumption DEF Bound
------------------------------------------------------------------------------
(* Types of the bridge, the topic and the timers.                            *)

LEMMA LinkInit == MobileInit => LinkTypeOK
BY BoundIsNat, PathAssumption DEF MobileInit, BridgeInit, LinkTypeOK

LEMMA ServerTypes ==
    ASSUME LinkTypeOK, ServerStep
    PROVE  LinkTypeOK'
<1>1. PICK w \in Workers : \/ \E p \in Paths : ChunkArrives(w, p)
                           \/ Accept(w)
                           \/ Reject(w)
  BY DEF ServerStep
<1>2. UNCHANGED <<bridgeUp, bridgeTimer, followerTimer>>
  BY DEF ServerStep
<1>3. CASE \E p \in Paths : ChunkArrives(w, p)
  <2>1. PICK p \in Paths : ChunkArrives(w, p)
    BY <1>3
  <2>2. [path |-> p, age |-> 0] \in Decoding
    BY BoundIsNat DEF Decoding
  <2>3. worker' \in [Workers -> Decoding \cup {None}]
    BY <2>1, <2>2 DEF ChunkArrives, LinkTypeOK
  <2> QED
    BY <1>2, <2>1, <2>3 DEF ChunkArrives, LinkTypeOK
<1>4. CASE Accept(w)
  <2>1. worker[w] \in Decoding
    BY <1>4 DEF Accept, LinkTypeOK
  <2>2. worker[w].path \in Paths /\ worker[w].age \in 0 .. MaxDecode
    BY <2>1 DEF Decoding
  <2>3. worker' \in [Workers -> Decoding \cup {None}]
    BY <1>4 DEF Accept, LinkTypeOK
  <2>4. rxAge' \in 0 .. ChunkMaxAge + 1
    BY <1>4, <2>2, BoundIsNat DEF Accept
  <2>5. heard' \in 0 .. ChunkMaxAge + 1
    BY <1>4, <2>2, BoundIsNat DEF Accept, LinkTypeOK
  <2>6. silence' \in 0 .. Bound + 1
    BY <1>4, BoundIsNat DEF Accept
  <2> QED
    BY <1>2, <1>4, <2>2, <2>3, <2>4, <2>5, <2>6 DEF Accept, LinkTypeOK
<1>5. CASE Reject(w)
  BY <1>2, <1>5 DEF Reject, LinkTypeOK
<1> QED
  BY <1>1, <1>3, <1>4, <1>5

LEMMA BridgeTimerTypes ==
    ASSUME LinkTypeOK, BridgeTimer
    PROVE  LinkTypeOK'
<1>1. bridgeTimer' \in 0 .. BridgePeriod /\ UNCHANGED <<bridgeUp, followerTimer>>
  BY BoundIsNat DEF BridgeTimer
<1>2. CASE TickTimeout
  BY <1>1, <1>2, BoundIsNat, PathAssumption DEF TickTimeout, Publish, LinkTypeOK
<1>3. CASE TickForward
  BY <1>1, <1>3, BoundIsNat DEF TickForward, Publish, LinkTypeOK
<1>4. CASE TickQuiet
  BY <1>1, <1>4 DEF TickQuiet, bridgeVars, LinkTypeOK
<1> QED
  BY <1>2, <1>3, <1>4 DEF BridgeTimer, BridgeTick

LEMMA TimeTypes ==
    ASSUME LinkTypeOK, MobileTime
    PROVE  LinkTypeOK'
<1> USE DEF MobileTime, BridgeTime, LinkTypeOK
<1>1. worker' \in [Workers -> Decoding \cup {None}]
  <2> SUFFICES ASSUME NEW w \in Workers, worker[w] # None
               PROVE  [path |-> worker[w].path, age |-> worker[w].age + 1] \in Decoding
    OBVIOUS
  <2>1. worker[w] \in Decoding /\ worker[w].age < MaxDecode
    OBVIOUS
  <2> QED
    BY <2>1, BoundIsNat DEF Decoding
<1>2. rxAge' \in 0 .. ChunkMaxAge + 1 /\ heard' \in 0 .. ChunkMaxAge + 1
  BY BoundIsNat
<1>3. silence' \in 0 .. Bound + 1
  BY BoundIsNat
<1>4. topicAge' \in 0 .. PathLatency
  BY BoundIsNat
<1>5. bridgeTimer' \in 0 .. BridgePeriod /\ followerTimer' \in 0 .. FollowerPeriod
  BY BoundIsNat
<1> QED
  BY <1>1, <1>2, <1>3, <1>4, <1>5

LEMMA LinkStep ==
    ASSUME LinkTypeOK, [MobileNext]_mobileVars
    PROVE  LinkTypeOK'
<1>1. CASE UNCHANGED mobileVars
  BY <1>1 DEF mobileVars, LinkTypeOK
<1>2. CASE BridgeDies
  BY <1>2 DEF BridgeDies, bridgeVars, LinkTypeOK
<1>3. CASE Deliver
  BY <1>3 DEF Deliver, LinkTypeOK
<1>4. CASE ForcedStop
  BY <1>4 DEF ForcedStop, bridgeVars, LinkTypeOK
<1>5. CASE FollowerTimer
  BY <1>5, BoundIsNat DEF FollowerTimer, bridgeVars, LinkTypeOK
<1> QED
  BY <1>1, <1>2, <1>3, <1>4, <1>5, ServerTypes, BridgeTimerTypes, TimeTypes
     DEF MobileNext

LEMMA LinkTypes == MobileSpec => []LinkTypeOK
BY LinkInit, LinkStep, PTL DEF MobileSpec
------------------------------------------------------------------------------
(* The follower in the composition is the follower alone, so its theorems    *)
(* hold here too.                                                            *)

LEMMA FollowerStepInside ==
    ASSUME LinkTypeOK, [MobileNext]_mobileVars
    PROVE  [Next]_followerVars
<1>1. CASE UNCHANGED mobileVars
  BY <1>1 DEF mobileVars, followerVars
<1>2. CASE ServerStep \/ BridgeTimer \/ BridgeDies
  BY <1>2 DEF ServerStep, BridgeTimer, BridgeDies
<1>3. CASE Deliver
  <2>1. topic \in Paths /\ OnPath(topic, TRUE)
    BY <1>3 DEF Deliver, LinkTypeOK
  <2> QED
    BY <2>1 DEF Next
<1>4. CASE ForcedStop
  BY <1>4 DEF ForcedStop, Next
<1>5. CASE FollowerTimer
  BY <1>5 DEF FollowerTimer, Next
<1>6. CASE MobileTime
  BY <1>6 DEF MobileTime, Next
<1> QED
  BY <1>1, <1>2, <1>3, <1>4, <1>5, <1>6 DEF MobileNext

LEMMA FollowerInside == MobileSpec => Spec
<1>1. MobileInit => Init
  BY DEF MobileInit, Init
<1> QED
  BY <1>1, LinkTypes, FollowerStepInside, PTL DEF MobileSpec, Spec

\* Every state of the composition is well typed.
THEOREM MobileTypes == MobileSpec => []MobileTypeOK
BY LinkTypes, FollowerInside, FollowerTypes, PTL DEF MobileTypeOK
------------------------------------------------------------------------------
(* The dead man's switch.                                                    *)

\* What a decision of the follower may command.
LEMMA DecisionIsCurrent ==
    ASSUME TypeOK, HeldIsCurrent, FollowerTick
    PROVE  latest' = latest /\ cmd' \in {Empty, Law(latest)}
<1>1. CASE TickForced
  BY <1>1 DEF TickForced
<1>2. CASE TickMismatch \/ TickMoving \/ TickFreshStop
  BY <1>2 DEF TickMismatch, TickMoving, TickFreshStop, Deciding
<1>3. CASE TickNoNews
  BY <1>3 DEF TickNoNews, Deciding, MayHold, TypeOK, HeldIsCurrent
<1> QED
  BY <1>1, <1>2, <1>3 DEF FollowerTick

LEMMA StopIsLastStep ==
    ASSUME MobileTypeOK, StopIsLast, [MobileNext]_mobileVars
    PROVE  StopIsLast'
<1> USE DEF StopIsLast
<1>1. CASE UNCHANGED mobileVars
  BY <1>1 DEF mobileVars
<1>2. CASE ServerStep
  BY <1>2 DEF ServerStep, ChunkArrives, Accept, Reject
<1>3. CASE BridgeTimer
  BY <1>3 DEF BridgeTimer, BridgeTick, TickTimeout, TickForward, TickQuiet, Publish,
              bridgeVars
<1>4. CASE BridgeDies \/ ForcedStop \/ FollowerTimer
  BY <1>4 DEF BridgeDies, ForcedStop, FollowerTimer, bridgeVars
<1>5. CASE Deliver
  BY <1>5 DEF Deliver
<1>6. CASE MobileTime
  BY <1>6 DEF MobileTime, BridgeTime
<1> QED
  BY <1>1, <1>2, <1>3, <1>4, <1>5, <1>6 DEF MobileNext

LEMMA WatchdogArmedStep ==
    ASSUME MobileTypeOK, WatchdogArmed, [MobileNext]_mobileVars
    PROVE  WatchdogArmed'
<1> USE DEF WatchdogArmed
<1>t. /\ silence \in 0 .. Bound + 1 /\ rxAge \in 0 .. ChunkMaxAge + 1
      /\ bridgeTimer \in 0 .. BridgePeriod
  BY DEF MobileTypeOK, LinkTypeOK
<1>1. CASE UNCHANGED mobileVars
  BY <1>1 DEF mobileVars
<1>2. CASE ServerStep
  <2>1. CASE \E w \in Workers : Accept(w)
    <3>1. PICK w \in Workers : Accept(w)
      BY <2>1
    <3>2. worker[w] \in Decoding
      BY <3>1 DEF Accept, MobileTypeOK, LinkTypeOK
    <3>3. worker[w].age \in 0 .. MaxDecode
      BY <3>2 DEF Decoding
    <3>4. silence' = 0 /\ rxAge' >= 0 /\ bridgeTimer' = bridgeTimer
      BY <1>2, <3>1, <3>3, BoundIsNat DEF Accept, ServerStep
    <3> QED
      BY <1>t, <3>4, BoundIsNat
  <2>2. CASE UNCHANGED <<rxAge, stopped, silence>>
    BY <1>2, <2>2 DEF ServerStep
  <2> QED
    BY <1>2, <2>1, <2>2 DEF ServerStep, ChunkArrives, Reject
<1>3. CASE BridgeTimer
  <2>1. bridgeUp' = bridgeUp /\ bridgeUp /\ bridgeTimer' = 0
    BY <1>3 DEF BridgeTimer
  <2>2. CASE TickTimeout
    BY <2>2 DEF TickTimeout
  <2>3. CASE TickForward \/ TickQuiet
    <3>1. UNCHANGED <<rxAge, stopped, silence>> /\ ~TimedOut
      BY <2>3 DEF TickForward, TickQuiet, bridgeVars
    <3> QED
      BY <1>t, <2>1, <3>1, BoundIsNat DEF TimedOut
  <2> QED
    BY <1>3, <2>2, <2>3 DEF BridgeTimer, BridgeTick
<1>4. CASE BridgeDies \/ ForcedStop \/ FollowerTimer
  BY <1>4 DEF BridgeDies, ForcedStop, FollowerTimer, bridgeVars
<1>5. CASE Deliver
  BY <1>5 DEF Deliver
<1>6. CASE MobileTime
  <2>1. /\ UNCHANGED <<bridgeUp, stopped>>
        /\ bridgeUp => bridgeTimer' = bridgeTimer + 1
        /\ silence' <= silence + 1
        /\ rxAge' = IF rxAge > ChunkMaxAge THEN rxAge ELSE rxAge + 1
    BY <1>6, <1>t, BoundIsNat DEF MobileTime, BridgeTime
  <2>2. silence' \in Int
    BY <1>6, <1>t, BoundIsNat DEF MobileTime, BridgeTime
  <2> QED
    BY <1>t, <2>1, <2>2, BoundIsNat
<1> QED
  BY <1>1, <1>2, <1>3, <1>4, <1>5, <1>6 DEF MobileNext

LEMMA StopOnItsWayStep ==
    ASSUME MobileTypeOK, HeldIsCurrent, StopIsLast, WatchdogArmed, StopOnItsWay,
           [MobileNext]_mobileVars
    PROVE  StopOnItsWay'
<1> USE DEF StopOnItsWay
<1>t. /\ silence \in 0 .. Bound + 1 /\ topicAge \in 0 .. PathLatency
      /\ bridgeTimer \in 0 .. BridgePeriod
  BY DEF MobileTypeOK, LinkTypeOK
<1>1. CASE UNCHANGED mobileVars
  BY <1>1 DEF mobileVars
<1>2. CASE ServerStep
  <2>1. UNCHANGED <<latest, bridgeUp, topic, topicAge>>
    BY <1>2 DEF ServerStep, followerVars, ChunkArrives, Accept, Reject
  <2>2. ~stopped' \/ UNCHANGED <<stopped, silence>>
    BY <1>2 DEF ServerStep, ChunkArrives, Accept, Reject
  <2> QED
    BY <2>1, <2>2
<1>3. CASE BridgeTimer
  <2>1. bridgeUp /\ UNCHANGED <<latest, bridgeUp>>
    BY <1>3 DEF BridgeTimer, followerVars
  <2>2. CASE TickTimeout
    <3>1. /\ ~stopped /\ topic' = Empty /\ topicAge' = 0 /\ silence' = silence
      BY <2>2 DEF TickTimeout, TimedOut, Publish
    <3> QED
      BY <1>t, <2>1, <3>1, BoundIsNat DEF WatchdogArmed
  <2>3. CASE TickForward
    BY <2>1, <2>3 DEF TickForward, StopIsLast
  <2>4. CASE TickQuiet
    BY <2>1, <2>4 DEF TickQuiet, bridgeVars
  <2> QED
    BY <1>3, <2>2, <2>3, <2>4 DEF BridgeTimer, BridgeTick
<1>4. CASE BridgeDies \/ ForcedStop
  BY <1>4 DEF BridgeDies, ForcedStop, OnForcedStop, bridgeVars, followerVars
<1>5. CASE FollowerTimer
  <2>1. latest' = latest
    BY <1>5, DecisionIsCurrent DEF FollowerTimer, MobileTypeOK
  <2> QED
    BY <1>5, <2>1 DEF FollowerTimer, bridgeVars
<1>6. CASE Deliver
  <2>1. latest' = topic /\ UNCHANGED <<stopped, bridgeUp>> /\ topic # None
    BY <1>6 DEF Deliver, OnPath
  <2> QED
    BY <2>1, PathAssumption DEF StopIsLast
<1>7. CASE MobileTime
  <2>1. /\ UNCHANGED <<bridgeUp, stopped, latest, topic>>
        /\ topic # None => topicAge' = topicAge + 1
        /\ silence' <= silence + 1
        /\ silence' \in Int
    BY <1>7, <1>t, BoundIsNat DEF MobileTime, BridgeTime, FollowerTime
  <2> QED
    BY <1>t, <2>1, BoundIsNat, PathAssumption
<1> QED
  BY <1>1, <1>2, <1>3, <1>4, <1>5, <1>6, <1>7 DEF MobileNext

\* While the follower's path makes the robot move, the silence is one that the
\* bridge and the topic allow.
LEMMA PathIsCovered ==
    ASSUME MobileTypeOK, WatchdogArmed, StopOnItsWay, bridgeUp, latest \in MovingPaths
    PROVE  silence <= ChunkMaxAge + BridgePeriod + PathLatency
<1>1. /\ silence \in 0 .. Bound + 1 /\ topicAge \in 0 .. PathLatency
      /\ bridgeTimer \in 0 .. BridgePeriod /\ stopped \in BOOLEAN
  BY DEF MobileTypeOK, LinkTypeOK
<1>2. CASE stopped
  BY <1>1, <1>2, BoundIsNat DEF StopOnItsWay
<1>3. CASE ~stopped
  BY <1>1, <1>3, BoundIsNat DEF WatchdogArmed
<1> QED
  BY <1>2, <1>3

LEMMA CommandLagsStep ==
    ASSUME MobileTypeOK, HeldIsCurrent, WatchdogArmed, StopOnItsWay, CommandLags,
           [MobileNext]_mobileVars
    PROVE  CommandLags'
<1> USE DEF CommandLags, Moving
<1>t. /\ silence \in 0 .. Bound + 1 /\ followerTimer \in 0 .. FollowerPeriod
  BY DEF MobileTypeOK, LinkTypeOK
<1>1. CASE UNCHANGED mobileVars
  BY <1>1 DEF mobileVars
<1>2. CASE ServerStep
  <2>1. UNCHANGED <<latest, cmd, bridgeUp, followerTimer>>
    BY <1>2 DEF ServerStep, followerVars
  <2>2. silence' \in {silence, 0}
    BY <1>2 DEF ServerStep, ChunkArrives, Accept, Reject
  <2> QED
    BY <1>t, <2>1, <2>2, BoundIsNat
<1>3. CASE BridgeTimer
  <2>1. UNCHANGED <<latest, cmd, bridgeUp, followerTimer>>
    BY <1>3 DEF BridgeTimer, followerVars
  <2>2. silence' = silence
    BY <1>3 DEF BridgeTimer, BridgeTick, TickTimeout, TickForward, TickQuiet, bridgeVars
  <2> QED
    BY <2>1, <2>2
<1>4. CASE BridgeDies \/ ForcedStop
  BY <1>4 DEF BridgeDies, ForcedStop, OnForcedStop, bridgeVars, followerVars
<1>5. CASE FollowerTimer
  <2>1. latest' = latest /\ cmd' \in {Empty, Law(latest)}
    BY <1>5, DecisionIsCurrent DEF FollowerTimer, MobileTypeOK
  <2> QED
    BY <2>1, PathAssumption DEF Law
<1>6. CASE Deliver
  <2>1. UNCHANGED <<cmd, bridgeUp, silence, followerTimer>>
    BY <1>6 DEF Deliver, OnPath
  <2>2. CASE latest \in MovingPaths /\ bridgeUp
    BY <1>t, <2>1, <2>2, PathIsCovered, BoundIsNat
  <2> QED
    BY <2>1, <2>2
<1>7. CASE MobileTime
  <2>1. /\ UNCHANGED <<latest, cmd, bridgeUp>>
        /\ followerTimer' = followerTimer + 1
        /\ silence' <= silence + 1
        /\ silence' \in Int
    BY <1>7, <1>t, BoundIsNat DEF MobileTime, BridgeTime, FollowerTime
  <2> QED
    BY <1>t, <2>1, BoundIsNat
<1> QED
  BY <1>1, <1>2, <1>3, <1>4, <1>5, <1>6, <1>7 DEF MobileNext

\* The inductive invariant of the dead man's switch.
THEOREM MobileInvariantHolds == MobileSpec => []MobileInv
<1> DEFINE Inductive == StopIsLast /\ WatchdogArmed /\ StopOnItsWay /\ CommandLags
<1>1. MobileInit => Inductive
  BY PathAssumption
     DEF MobileInit, BridgeInit, FollowerInit, StopIsLast, WatchdogArmed, StopOnItsWay,
         CommandLags, Moving
<1>2. MobileTypeOK /\ HeldIsCurrent /\ Inductive /\ [MobileNext]_mobileVars
        => Inductive'
  BY StopIsLastStep, WatchdogArmedStep, StopOnItsWayStep, CommandLagsStep
<1>3. MobileSpec => []MobileTypeOK /\ []HeldIsCurrent
  BY MobileTypes, FollowerInside, HeldCommandIsCurrent, PTL
<1>4. MobileTypeOK /\ HeldIsCurrent /\ Inductive => MobileInv
  BY DEF MobileInv
<1> HIDE DEF Inductive
<1> QED
  BY <1>1, <1>2, <1>3, <1>4, PTL DEF MobileSpec

LEMMA InvImpliesHeard == MobileInv => MovesOnlyWhenHeard
<1> SUFFICES ASSUME MobileInv, bridgeUp, Moving
             PROVE  silence <= Bound
  BY DEF MovesOnlyWhenHeard
<1>1. /\ silence \in 0 .. Bound + 1 /\ followerTimer \in 0 .. FollowerPeriod
  BY DEF MobileInv, MobileTypeOK, LinkTypeOK
<1>2. CASE latest \in MovingPaths
  BY <1>1, <1>2, PathIsCovered, BoundIsNat DEF MobileInv
<1>3. CASE latest \notin MovingPaths
  BY <1>1, <1>3, BoundIsNat DEF MobileInv, CommandLags
<1> QED
  BY <1>2, <1>3

\* The robot moves only while it keeps hearing from the phone.
THEOREM RobotMovesOnlyWhenHeard == MobileSpec => []MovesOnlyWhenHeard
BY MobileInvariantHolds, InvImpliesHeard, PTL

\* Silence, deadlines and the stop on its way, at any time.
THEOREM SwitchIsSafe == MobileSpec => []SwitchInv
BY MobileInvariantHolds, RobotMovesOnlyWhenHeard, PTL DEF SwitchInv
------------------------------------------------------------------------------
(* The refinement.                                                           *)

\* Phone, bridge, topic and follower together implement the dead man's switch.
THEOREM MobileImplementsDeadMan == MobileSpec => SwitchSpec
<1>1. MobileInit => Switch!Init
  BY PathAssumption
     DEF MobileInit, BridgeInit, FollowerInit, Switch!Init, Moving
<1>2. MobileTypeOK /\ MovesOnlyWhenHeard' /\ [MobileNext]_mobileVars
        => [Switch!Next]_(Switch!deadManVars)
  <2> SUFFICES ASSUME MobileTypeOK, MovesOnlyWhenHeard', [MobileNext]_mobileVars
               PROVE  [Switch!Next]_(Switch!deadManVars)
    OBVIOUS
  <2> USE DEF Switch!Next, Switch!deadManVars, Moving
  <2>t. silence \in 0 .. Bound + 1
    BY DEF MobileTypeOK, LinkTypeOK
  <2>h. bridgeUp' /\ (cmd' \in MovingPaths) => silence' <= Bound
    BY DEF MovesOnlyWhenHeard
  <2>1. CASE UNCHANGED mobileVars
    BY <2>1 DEF mobileVars
  <2>2. CASE ServerStep
    <3>1. bridgeUp /\ UNCHANGED <<cmd, bridgeUp>>
      BY <2>2 DEF ServerStep, followerVars
    <3>2. silence' \in {silence, 0}
      BY <2>2 DEF ServerStep, ChunkArrives, Accept, Reject
    <3> QED
      BY <3>1, <3>2 DEF Switch!Hear
  <2>3. CASE BridgeTimer
    BY <2>3 DEF BridgeTimer, BridgeTick, TickTimeout, TickForward, TickQuiet, bridgeVars,
                followerVars
  <2>4. CASE BridgeDies
    BY <2>4 DEF BridgeDies, bridgeVars, followerVars, Switch!Die
  <2>5. CASE Deliver \/ ForcedStop
    BY <2>5 DEF Deliver, OnPath, ForcedStop, OnForcedStop, bridgeVars
  <2>6. CASE FollowerTimer
    <3>1. UNCHANGED <<silence, bridgeUp>>
      BY <2>6 DEF FollowerTimer, bridgeVars
    <3> QED
      BY <2>h, <3>1 DEF Switch!Command
  <2>7. CASE MobileTime
    <3>1. /\ UNCHANGED <<cmd, bridgeUp>>
          /\ silence' = IF silence >= Bound + 1 THEN silence ELSE silence + 1
      BY <2>7 DEF MobileTime, BridgeTime, FollowerTime
    <3>2. silence' = IF silence > Bound THEN silence ELSE silence + 1
      BY <2>t, <3>1, BoundIsNat
    <3>3. bridgeUp /\ (cmd \in MovingPaths) => silence < Bound
      BY <2>t, <2>h, <3>1, BoundIsNat
    <3> QED
      BY <3>1, <3>2, <3>3 DEF Switch!Pass
  <2> QED
    BY <2>1, <2>2, <2>3, <2>4, <2>5, <2>6, <2>7 DEF MobileNext
<1> QED
  BY <1>1, <1>2, MobileTypes, RobotMovesOnlyWhenHeard, PTL
     DEF MobileSpec, SwitchSpec, Switch!Spec
------------------------------------------------------------------------------
(* The watchdog's clock.                                                     *)

\* The reading the watchdog goes by is behind the newest one by no more than a
\* thread may hold a reading.
ReadingBehind == rxAge <= heard + MaxDecode

LEMMA LaterByAtMost == \A m, n \in Nat : m <= MaxDecode => m <= n + MaxDecode
BY BridgeAssumption

LEMMA ReadingBehindStep ==
    ASSUME MobileTypeOK, ReadingBehind, [MobileNext]_mobileVars
    PROVE  ReadingBehind'
<1> USE DEF ReadingBehind
<1>t. rxAge \in 0 .. ChunkMaxAge + 1 /\ heard \in 0 .. ChunkMaxAge + 1
  BY DEF MobileTypeOK, LinkTypeOK
<1>1. CASE ServerStep
  <2>1. CASE \E w \in Workers : Accept(w)
    <3>1. PICK w \in Workers : Accept(w)
      BY <2>1
    <3>2. worker[w] \in Decoding
      BY <3>1 DEF Accept, MobileTypeOK, LinkTypeOK
    <3>3. worker[w].age \in 0 .. MaxDecode
      BY <3>2 DEF Decoding
    <3>4. /\ rxAge' = IF worker[w].age > ChunkMaxAge THEN ChunkMaxAge + 1 ELSE worker[w].age
          /\ heard' = IF worker[w].age < heard THEN worker[w].age ELSE heard
      BY <3>1 DEF Accept
    <3>5. rxAge' \in Nat /\ heard' \in Nat /\ rxAge' <= MaxDecode
      BY <1>t, <3>3, <3>4, BoundIsNat
    <3>6. rxAge' <= heard' + MaxDecode
      BY <3>5, LaterByAtMost
    <3> QED
      BY <3>6
  <2>2. CASE UNCHANGED <<rxAge, heard>>
    BY <2>2
  <2> QED
    BY <1>1, <2>1, <2>2 DEF ServerStep, ChunkArrives, Reject
<1>2. CASE MobileTime
  <2>1. /\ rxAge' = IF rxAge > ChunkMaxAge THEN rxAge ELSE rxAge + 1
        /\ heard' = IF heard > ChunkMaxAge THEN heard ELSE heard + 1
    BY <1>2 DEF MobileTime, BridgeTime
  <2> QED
    BY <1>t, <2>1, BoundIsNat
<1>3. CASE UNCHANGED <<rxAge, heard>>
  BY <1>3
<1>4. BridgeTimer \/ BridgeDies \/ Deliver \/ ForcedStop \/ FollowerTimer
        \/ UNCHANGED mobileVars
      => UNCHANGED <<rxAge, heard>>
  BY DEF BridgeTimer, BridgeTick, TickTimeout, TickForward, TickQuiet, BridgeDies, Deliver,
         ForcedStop, FollowerTimer, bridgeVars, mobileVars
<1> QED
  BY <1>1, <1>2, <1>3, <1>4 DEF MobileNext

\* A watchdog stop never comes earlier than a decoding time before the chunk
\* age is reached.
THEOREM StopsAreNotMuchTooEarly == MobileSpec => EarlyStopBounded
<1>1. MobileInit => ReadingBehind
  BY BoundIsNat DEF MobileInit, BridgeInit, ReadingBehind
<1>2. MobileSpec => []ReadingBehind
  BY <1>1, MobileTypes, ReadingBehindStep, PTL DEF MobileSpec
<1>3. MobileTypeOK /\ ReadingBehind /\ [MobileNext]_mobileVars
        => [TickTimeout => heard + MaxDecode > ChunkMaxAge]_mobileVars
  BY BoundIsNat DEF MobileTypeOK, LinkTypeOK, ReadingBehind, TickTimeout, TimedOut
<1> QED
  BY <1>2, <1>3, MobileTypes, PTL DEF MobileSpec, EarlyStopBounded
================================================================================
