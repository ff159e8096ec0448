----------------------------- MODULE LocalEdgeProofs -----------------------------
(***************************************************************************)
(* Proofs about LocalEdge for every value of its constants: any number of  *)
(* threads, goals and attempts, any frame age, ring size and bounds.       *)
(***************************************************************************)
EXTENDS LocalEdge, SequenceTheorems, TLAPS

(***************************************************************************)
(* The ring of frames.                                                     *)
(***************************************************************************)

\* _push_frame keeps a sequence of frames of at most context_size + 1: the old
\* ones in their order, without the oldest if the ring was full, and the new.
LEMMA PushFrameKeeps ==
    ASSUME NEW ring \in Seq(Nat), Len(ring) <= ContextSize + 1, NEW f \in Nat
    PROVE  LET next == PushFrame(ring, f)
               gone == IF Len(ring) > ContextSize THEN 1 ELSE 0
           IN  /\ next \in Seq(Nat)
               /\ Len(next) = Len(ring) + 1 - gone
               /\ Len(next) <= ContextSize + 1
               /\ next[Len(next)] = f
               /\ \A i \in 1 .. Len(next) - 1 : next[i] = ring[i + gone]
<1>1. ContextSize \in Nat
  BY EngineAssumption
<1>2. CASE Len(ring) > ContextSize
  <2>1. ring # <<>>
    BY <1>1, <1>2
  <2> DEFINE rest == Tail(ring)
  <2>2. /\ rest \in Seq(Nat)
        /\ Len(rest) = Len(ring) - 1
        /\ \A i \in 1 .. Len(rest) : rest[i] = ring[i + 1]
    BY <2>1, HeadTailProperties
  <2>3. PushFrame(ring, f) = Append(rest, f)
    BY <1>2 DEF PushFrame
  <2> HIDE DEF rest
  <2>4. /\ Append(rest, f) \in Seq(Nat)
        /\ Len(Append(rest, f)) = Len(rest) + 1
        /\ \A i \in 1 .. Len(rest) : Append(rest, f)[i] = rest[i]
        /\ Append(rest, f)[Len(rest) + 1] = f
    BY <2>2, AppendProperties
  <2> QED
    BY <1>1, <1>2, <2>2, <2>3, <2>4
<1>3. CASE ~(Len(ring) > ContextSize)
  <2>1. PushFrame(ring, f) = Append(ring, f)
    BY <1>3 DEF PushFrame
  <2>2. /\ Append(ring, f) \in Seq(Nat)
        /\ Len(Append(ring, f)) = Len(ring) + 1
        /\ \A i \in 1 .. Len(ring) : Append(ring, f)[i] = ring[i]
        /\ Append(ring, f)[Len(ring) + 1] = f
    BY AppendProperties
  <2>3. Len(ring) \in Nat
    OBVIOUS
  <2> QED
    BY <1>1, <1>3, <2>1, <2>2, <2>3
<1> QED
  BY <1>2, <1>3

(***************************************************************************)
(* Types.                                                                  *)
(***************************************************************************)

\* What the death of the node leaves behind.
LEMMA CrashKeeps ==
    ASSUME LocalInv, Crash
    PROVE  LocalInv'
<1>1. TypeOK'
  <2>1. CaptureType'
    BY DEF Crash, LocalInv, TypeOK, CaptureType
  <2>2. LifecycleType'
    BY DEF Crash, LocalInv, TypeOK, LifecycleType, Phases
  <2>3. ledger' \in Observations!Ledger
    BY DEF Crash, Observations!Ledger, Observations!NewLedger
  <2> QED
    BY <2>1, <2>2, <2>3 DEF Crash, LocalInv, TypeOK
<1>2. CameraInv'
  BY DEF Crash, CameraInv, StoppedMeansEmpty, Alive
<1>3. GoalInv'
  BY DEF Crash, GoalInv, Observations!NewLedger, Idle, Subscribed
<1>4. RingInv' /\ PathInv'
  BY DEF Crash, RingInv, PathInv, LocalInv, Idle, OneLateDrive
<1>5. LinkInv'
  BY DEF Crash, LinkInv, LocalInv
<1> QED
  BY <1>1, <1>2, <1>3, <1>4, <1>5 DEF LocalInv

\* The methods of the ledger that local mode uses.
LEMMA LedgerTypes ==
    ASSUME NEW l \in Observations!Ledger
    PROVE  /\ \A g \in Goals : Observations!ChangeGoal(l, g) \in Observations!Ledger
           /\ Observations!ResetLedger(l) \in Observations!Ledger
  BY DEF Observations!Ledger, Observations!ChangeGoal, Observations!ResetLedger

\* What a predicted frame makes of the adapter.
LEMMA ShowFrameType ==
    ASSUME NEW a \in Adapters, Len(a.ring) <= ContextSize + 1
    PROVE  ShowFrame(a) \in Adapters
<1>1. ContextSize \in Nat
  BY EngineAssumption
<1>2. PushFrame(a.ring, a.gen) \in Seq(Nat)
  BY PushFrameKeeps DEF Adapters
<1>3. (IF a.shown > ContextSize THEN a.shown ELSE a.shown + 1) \in 0 .. ContextSize + 1
  BY <1>1 DEF Adapters
<1> DEFINE ring == PushFrame(a.ring, a.gen)
           shown == IF a.shown > ContextSize THEN a.shown ELSE a.shown + 1
<1>4. ShowFrame(a) = [a EXCEPT !.ring = ring, !.shown = shown]
  BY DEF ShowFrame
<1> HIDE DEF ring, shown
<1> QED
  BY <1>2, <1>3, <1>4 DEF Adapters, ring, shown

\* The camera's part of every step keeps its types.
LEMMA CaptureTypes ==
    ASSUME CaptureType,
           \/ \E opens \in BOOLEAN : OpenDevice(opens)
           \/ Start \/ StopRequested \/ ForgetThread \/ Close \/ CaptureStep
           \/ UNCHANGED captureVars
           \/ frame' \in {0, AgeFrame} /\ UNCHANGED <<cap, stopping, handle, loop, revived>>
    PROVE  CaptureType'
<1>1. ImageMaxAge \in Nat
  BY CaptureAssumption
<1>2. ASSUME NEW opens \in BOOLEAN, OpenDevice(opens)
      PROVE  CaptureType'
  BY <1>2 DEF CaptureType, OpenDevice
<1>3. CASE Start
  BY <1>3 DEF CaptureType, Start, captureVars
<1>4. CASE StopRequested \/ ForgetThread \/ Close \/ UNCHANGED captureVars
  BY <1>4 DEF CaptureType, StopRequested, ForgetThread, Close, captureVars
<1>5. CASE CaptureStep
  BY <1>1, <1>5 DEF CaptureType, CaptureStep, LoopCheck, LoopRead, LoopPut
<1>6. CASE frame' \in {0, AgeFrame} /\ UNCHANGED <<cap, stopping, handle, loop, revived>>
  BY <1>1, <1>6, CaptureAssumption DEF CaptureType, AgeFrame, FreshFrame
<1> QED
  BY <1>2, <1>3, <1>4, <1>5, <1>6

\* An attempt of a script leaves a script.
LEMMA ScriptTypes ==
    ASSUME script \in [pc : {"configure", "activate", "over"}, left : 1 .. Attempts],
           script.pc # "over", NEW succeeded \in BOOLEAN
    PROVE  AfterAttempt(succeeded)
             \in [pc : {"configure", "activate", "over"}, left : 1 .. Attempts]
<1>1. Attempts \in Nat \ {0}
  BY LaunchAssumption
<1>2. CASE succeeded \/ script.left = 1
  BY <1>1, <1>2 DEF AfterAttempt
<1>3. CASE ~(succeeded \/ script.left = 1)
  <2>1. AfterAttempt(succeeded) = [script EXCEPT !.left = script.left - 1]
    BY <1>3 DEF AfterAttempt
  <2> QED
    BY <1>1, <1>3, <2>1
<1> QED
  BY <1>2, <1>3

\* The lifecycle's part of every step keeps its types.
LEMMA LifecycleTypes ==
    ASSUME LifecycleType, links.held => links.alive > 0,
           \/ ConfigureNode \/ ActivateNode \/ StopNode \/ StoppedNode
           \/ ReleaseNode \/ UnlinkNode \/ UnsubscribeNode
           \/ AttemptRefused \/ DeviceAppears \/ NodeFound
           \/ UNCHANGED lifecycleVars
    PROVE  LifecycleType'
<1> USE DEF LifecycleType
<1>1. CASE ConfigureNode
  <2>1. Opens \in BOOLEAN
    BY DEF Opens
  <2>2. script' \in [pc : {"configure", "activate", "over"}, left : 1 .. Attempts]
        /\ operator' \in BOOLEAN
    BY <1>1, <2>1, ScriptTypes DEF ConfigureNode, Commanded
  <2>3. links' \in [alive : Nat, held : BOOLEAN, failed : BOOLEAN]
    BY <1>1, <2>1 DEF ConfigureNode
  <2>4. count' \in [session : Nat, activation : Nat]
    BY <1>1 DEF ConfigureNode
  <2> QED
    BY <1>1, <2>2, <2>3, <2>4 DEF ConfigureNode, Phases
<1>2. CASE ActivateNode
  <2>1. script' \in [pc : {"configure", "activate", "over"}, left : 1 .. Attempts]
        /\ operator' \in BOOLEAN
    BY <1>2, ScriptTypes DEF ActivateNode, Commanded
  <2> QED
    BY <1>2, <2>1 DEF ActivateNode, Phases
<1>3. CASE StopNode \/ StoppedNode \/ ReleaseNode \/ UnsubscribeNode
  BY <1>3 DEF StopNode, StoppedNode, ReleaseNode, UnsubscribeNode, Stage, ByOperator, Phases
<1>4. CASE UnlinkNode
  <2>1. links' \in [alive : Nat, held : BOOLEAN, failed : BOOLEAN]
    <3>1. CASE links.held
      <4>1. links' = [links EXCEPT !.alive = links.alive - 1, !.held = FALSE]
        BY <1>4, <3>1 DEF UnlinkNode
      <4>2. links.alive - 1 \in Nat
        BY <3>1
      <4> QED
        BY <4>1, <4>2
    <3>2. CASE ~links.held
      BY <1>4, <3>2 DEF UnlinkNode
    <3> QED
      BY <3>1, <3>2
  <2> QED
    BY <1>4, <2>1 DEF UnlinkNode, Phases
<1>5. CASE AttemptRefused
  <2>1. script' \in [pc : {"configure", "activate", "over"}, left : 1 .. Attempts]
    BY <1>5, ScriptTypes DEF AttemptRefused
  <2> QED
    BY <1>5, <2>1 DEF AttemptRefused
<1>6. CASE DeviceAppears \/ NodeFound \/ UNCHANGED lifecycleVars
  BY <1>6 DEF DeviceAppears, NodeFound, lifecycleVars
<1> QED
  BY <1>1, <1>2, <1>3, <1>4, <1>5, <1>6

\* Every step but a crash keeps the types.
LEMMA TypesStep ==
    ASSUME LocalInv, Next, ~Crash
    PROVE  TypeOK'
<1> USE DEF LocalInv, TypeOK
<1>1. links.held => links.alive > 0
  BY DEF LinkInv
<1>2. ASSUME NEW g \in Goals, OnGoal(g)
      PROVE  TypeOK'
  <2>1. ledger' \in Observations!Ledger
    BY <1>2, LedgerTypes DEF OnGoal
  <2>2. ledger.generation + 1 \in Nat
    BY DEF Observations!Ledger
  <2>3. io' \in {Idle} \cup [pc : {"forward"}, goal : Goals \ BadGoals, gen : Nat]
    BY <1>2, <2>2 DEF OnGoal
  <2>4. CaptureType' /\ LifecycleType'
    BY <1>1, <1>2, CaptureTypes, LifecycleTypes DEF OnGoal
  <2>5. stray' \in BOOLEAN /\ UNCHANGED <<adapter, tick, path, lateDrives>>
    BY <1>2 DEF OnGoal, Cleaning
  <2> QED
    BY <2>1, <2>3, <2>4, <2>5
<1>3. CASE ForwardGoal
  <2>1. io \in [pc : {"forward"}, goal : Goals \ BadGoals, gen : Nat] /\ adapter \in Adapters
    BY <1>3 DEF ForwardGoal, Idle
  <2>2. adapter' = [adapter EXCEPT !.goal = io.goal, !.gen = io.gen, !.shown = 0]
    BY <1>3 DEF ForwardGoal
  <2>3. 0 \in 0 .. ContextSize + 1
    BY EngineAssumption
  <2>4. adapter' \in Adapters
    BY <2>1, <2>2, <2>3 DEF Adapters
  <2> QED
    BY <1>1, <1>3, <2>4, CaptureTypes, LifecycleTypes DEF ForwardGoal
<1>4. CASE OnImage
  BY <1>1, <1>4, CaptureTypes, LifecycleTypes DEF OnImage, localVars
<1>5. CASE TickStep
  <2>1. /\ UNCHANGED <<captureVars, lifecycleVars, ledger, io, stray>>
        /\ adapter' = adapter \/ (adapter # None /\ adapter' = ShowFrame(adapter))
        /\ tick' \in {Idle, [pc |-> "predict"]} \cup [pc : {"publish"}, gen : Nat \cup {None}]
        /\ path' \in Nat \cup {None}
        /\ lateDrives' \in 0 .. 2
    <3>1. CASE TickFrame
      BY <1>5, <3>1 DEF TickFrame
    <3>2. CASE TickPredict
      BY <3>2 DEF TickPredict, Adapters
    <3>3. CASE TickPublish
      BY <3>3 DEF TickPublish, Idle
    <3> QED
      BY <1>5, <3>1, <3>2, <3>3 DEF TickStep
  <2>2. adapter' \in Adapters \cup {None}
    BY <2>1, ShowFrameType DEF RingInv
  <2> QED
    BY <1>1, <2>1, <2>2, CaptureTypes, LifecycleTypes
<1>6. CASE LifecycleStep
  <2>1. CASE Configure
    <3>1. NewAdapter \in Adapters
      BY EngineAssumption DEF NewAdapter, Adapters
    <3>2. \E opens \in BOOLEAN : OpenDevice(opens)
      BY <2>1 DEF Configure, CaptureType, LifecycleType
    <3> QED
      BY <1>1, <2>1, <3>1, <3>2, CaptureTypes, LifecycleTypes DEF Configure
  <2>2. CASE Cleanup
    BY <1>1, <2>2, LedgerTypes, CaptureTypes, LifecycleTypes DEF Cleanup
  <2>3. CASE CleanupLink
    BY <1>1, <2>3, CaptureTypes, LifecycleTypes DEF CleanupLink
  <2>4. CASE Activate \/ Deactivate \/ Deactivated \/ CleanupRest
    BY <1>1, <2>4, CaptureTypes, LifecycleTypes
    DEF Activate, Deactivate, Deactivated, CleanupRest, localVars
  <2> QED
    BY <1>6, <2>1, <2>2, <2>3, <2>4 DEF LifecycleStep
<1>7. CASE Capture
  BY <1>1, <1>7, CaptureTypes, LifecycleTypes DEF Capture, localVars
<1>8. CASE Outside
  BY <1>1, <1>8, CaptureTypes, LifecycleTypes DEF Outside, localVars
<1>9. CASE Tick
  BY <1>1, <1>9, CaptureTypes, LifecycleTypes DEF Tick, localVars
<1> QED
  BY <1>2, <1>3, <1>4, <1>5, <1>6, <1>7, <1>8, <1>9 DEF Next

(***************************************************************************)
(* The camera and its threads.                                             *)
(***************************************************************************)

\* A step that leaves the camera and the lifecycle state alone.
LEMMA QuietCamera ==
    ASSUME CameraInv, UNCHANGED <<captureVars, kind, phase>>
    PROVE  CameraInv'
  BY DEF CameraInv, StoppedMeansEmpty, Alive, captureVars

LEMMA CameraStep ==
    ASSUME LocalInv, Next, ~Crash
    PROVE  CameraInv'
<1> USE DEF LocalInv
<1>1. CASE \/ \E g \in Goals : OnGoal(g)
           \/ ForwardGoal \/ TickStep \/ Outside
  <2>1. UNCHANGED <<captureVars, kind, phase>>
    BY <1>1 DEF OnGoal, ForwardGoal, TickStep, TickFrame, TickPredict, TickPublish, Outside,
       AttemptRefused, DeviceAppears, NodeFound, lifecycleVars
  <2> QED
    BY <2>1, QuietCamera
<1>2. CASE OnImage
  BY <1>2 DEF OnImage, CameraInv, StoppedMeansEmpty, Alive, lifecycleVars
<1>3. CASE Tick
  BY <1>3 DEF Tick, CameraInv, StoppedMeansEmpty, Alive, lifecycleVars, AgeFrame, FreshFrame
<1>4. CASE Capture
  <2>1. UNCHANGED <<kind, phase, cap, stopping, handle, revived>>
    BY <1>4 DEF Capture, CaptureStep, LoopCheck, LoopRead, LoopPut, lifecycleVars
  <2>2. PICK t \in Threads : LoopCheck(t) \/ LoopRead(t) \/ LoopPut(t)
    BY <1>4 DEF Capture, CaptureStep
  <2>3. /\ t \in Alive
        /\ \A u \in Threads : u # t => loop'[u] = loop[u]
        /\ Alive' \subseteq Alive
    BY <2>2 DEF TypeOK, CaptureType, LoopCheck, LoopRead, LoopPut, Alive
  <2>4. CASE phase \in {"active", "stopping"}
    BY <2>1, <2>3, <2>4 DEF CameraInv, StoppedMeansEmpty
  <2>5. CASE ~kind.device \/ revived
    BY <2>1, <2>5 DEF CameraInv, StoppedMeansEmpty
  <2>6. CASE kind.device /\ ~revived /\ phase \notin {"active", "stopping"}
    <3>1. loop[t] = "read" /\ stopping /\ frame = None
      BY <2>3, <2>6 DEF CameraInv, StoppedMeansEmpty
    <3>2. loop'[t] = "done" /\ frame' = None
      BY <2>2, <3>1 DEF LoopCheck, LoopRead, LoopPut, TypeOK, CaptureType
    <3> QED
      BY <2>1, <2>3, <2>6, <3>1, <3>2 DEF CameraInv, StoppedMeansEmpty, Alive
  <2> QED
    BY <2>4, <2>5, <2>6
<1>5. CASE Configure
  <2>1. /\ UNCHANGED <<stopping, handle, loop, frame, revived, kind>>
        /\ phase = "unconfigured" /\ phase' \in {"inactive", "unconfigured"}
        /\ kind.device /\ phase' = "inactive" => cap'
    BY <1>5 DEF Configure, ConfigureNode, OpenDevice, Opens
  <2> QED
    BY <2>1 DEF CameraInv, StoppedMeansEmpty, Alive
<1>6. CASE Activate
  <2>1. phase = "inactive" /\ phase' = "active" /\ kind' = kind
    BY <1>6 DEF Activate, ActivateNode
  <2>2. CASE ~kind.device
    BY <2>1, <2>2 DEF CameraInv, StoppedMeansEmpty
  <2>3. CASE kind.device
    <3>1. cap /\ Start
      BY <1>6, <2>1, <2>3 DEF Activate, CameraInv
    <3>2. PICK t \in Threads : handle' = t /\ loop' = [loop EXCEPT ![t] = "check"]
      BY <3>1 DEF Start
    <3>3. cap' /\ revived' = (revived \/ Alive # {})
      BY <3>1 DEF Start
    <3>4. handle' # None
      BY <3>2, CaptureAssumption
    <3>5. ~revived' => \A u \in Alive' : u = handle'
      BY <3>2, <3>3 DEF Alive, TypeOK, CaptureType
    <3> QED
      BY <2>1, <2>3, <3>3, <3>4, <3>5 DEF CameraInv, StoppedMeansEmpty
  <2> QED
    BY <2>2, <2>3
<1>7. CASE Deactivate
  <2>1. /\ phase = "active" /\ phase' = "stopping"
        /\ UNCHANGED <<kind, cap, handle, loop, frame, revived>>
        /\ stopping' = (stopping \/ handle # None)
    BY <1>7 DEF Deactivate, StopNode, Stage, StopRequested
  <2> QED
    BY <2>1 DEF CameraInv, StoppedMeansEmpty, Alive
<1>8. CASE Deactivated
  <2>1. /\ phase = "stopping" /\ phase' = "inactive"
        /\ UNCHANGED <<kind, cap, stopping, loop, revived>>
        /\ frame' = None
        /\ handle # None => loop[handle] \in {"done", "read"}
    BY <1>8 DEF Deactivated, StoppedNode, Stage, ForgetThread, Joined
  <2> QED
    BY <2>1 DEF CameraInv, StoppedMeansEmpty, Alive
<1>9. CASE Cleanup
  <2>1. /\ phase = "inactive" /\ phase' = "released"
        /\ UNCHANGED <<kind, stopping, handle, loop, revived>>
        /\ frame' = None
    BY <1>9 DEF Cleanup, ReleaseNode, Stage, Close
  <2> QED
    BY <2>1 DEF CameraInv, StoppedMeansEmpty, Alive
<1>10. CASE CleanupLink \/ CleanupRest
  <2>1. /\ phase \in {"released", "unlinked"} /\ phase' \in {"unlinked", "unconfigured"}
        /\ UNCHANGED <<kind, captureVars>>
    BY <1>10 DEF CleanupLink, CleanupRest, UnlinkNode, UnsubscribeNode, Stage
  <2> QED
    BY <2>1 DEF CameraInv, StoppedMeansEmpty, Alive, captureVars
<1> QED
  BY <1>1, <1>2, <1>3, <1>4, <1>5, <1>6, <1>7, <1>8, <1>9, <1>10 DEF Next, LifecycleStep

(***************************************************************************)
(* The goal and the adapter.                                               *)
(***************************************************************************)


\* Predicting leaves the goal in the adapter.
LEMMA ShowFrameFields ==
    ASSUME NEW a \in Adapters
    PROVE  /\ ShowFrame(a).goal = a.goal
           /\ ShowFrame(a).gen = a.gen
           /\ ShowFrame(a).ring = PushFrame(a.ring, a.gen)
           /\ ShowFrame(a).shown = IF a.shown > ContextSize THEN a.shown ELSE a.shown + 1
<1> DEFINE ring == PushFrame(a.ring, a.gen)
           shown == IF a.shown > ContextSize THEN a.shown ELSE a.shown + 1
<1>1. ShowFrame(a) = [a EXCEPT !.ring = ring, !.shown = shown]
  BY DEF ShowFrame
<1> HIDE DEF ring, shown
<1>2. ShowFrame(a).goal = a.goal /\ ShowFrame(a).gen = a.gen
      /\ ShowFrame(a).ring = ring /\ ShowFrame(a).shown = shown
  BY <1>1 DEF Adapters
<1> QED
  BY <1>2 DEF ring, shown

\* A forwarded goal replaces the goal in the adapter, and nothing of the ring.
LEMMA ForwardFields ==
    ASSUME TypeOK, ForwardGoal, ~Crash
    PROVE  /\ io.pc = "forward" /\ adapter # None
           /\ adapter \in Adapters /\ adapter' \in Adapters
           /\ adapter'.goal = io.goal /\ adapter'.gen = io.gen
           /\ adapter'.ring = adapter.ring /\ adapter'.shown = 0
           /\ io' = Idle /\ lateDrives' = 0
           /\ UNCHANGED <<captureVars, lifecycleVars, ledger, tick, path, stray>>
<1>1. io \in [pc : {"forward"}, goal : Goals \ BadGoals, gen : Nat] /\ adapter \in Adapters
  BY DEF ForwardGoal, Idle, TypeOK
<1>2. adapter' = [adapter EXCEPT !.goal = io.goal, !.gen = io.gen, !.shown = 0]
  BY DEF ForwardGoal
<1>3. 0 \in 0 .. ContextSize + 1
  BY EngineAssumption
<1>4. adapter' \in Adapters
  BY <1>1, <1>2, <1>3 DEF Adapters
<1>5. /\ adapter'.goal = io.goal /\ adapter'.gen = io.gen
      /\ adapter'.ring = adapter.ring /\ adapter'.shown = 0
  BY <1>1, <1>2 DEF Adapters
<1> QED
  BY <1>1, <1>4, <1>5 DEF ForwardGoal

\* What a step other than a crash does to the adapter.
LEMMA AdapterStep ==
    ASSUME LocalInv, Next, ~Crash
    PROVE  \/ UNCHANGED adapter
           \/ /\ ForwardGoal
              /\ adapter \in Adapters /\ adapter' \in Adapters
              /\ adapter'.goal = io.goal /\ adapter'.gen = io.gen
              /\ adapter'.ring = adapter.ring /\ adapter'.shown = 0
           \/ /\ TickPredict
              /\ adapter \in Adapters /\ adapter' \in Adapters
              /\ adapter' = ShowFrame(adapter)
           \/ Configure \/ CleanupLink
<1> USE DEF LocalInv
<1>1. CASE ForwardGoal
  BY <1>1, ForwardFields
<1>2. CASE TickPredict
  <2>1. UNCHANGED adapter \/ (adapter # None /\ adapter' = ShowFrame(adapter))
    BY <1>2 DEF TickPredict
  <2>2. adapter # None => adapter \in Adapters /\ ShowFrame(adapter) \in Adapters
    BY ShowFrameType DEF TypeOK, RingInv
  <2> QED
    BY <1>2, <2>1, <2>2
<1> QED
  BY <1>1, <1>2 DEF Next, OnGoal, OnImage, TickStep, TickFrame, TickPublish, LifecycleStep,
     Activate, Deactivate, Deactivated, Cleanup, CleanupRest, Capture, Outside, Tick, localVars

LEMMA GoalStep ==
    ASSUME LocalInv, Next, ~Crash
    PROVE  GoalInv'
<1> USE DEF LocalInv
<1>1. ASSUME NEW g \in Goals, OnGoal(g)
      PROVE  GoalInv'
  <2>1. /\ UNCHANGED <<kind, phase, adapter>> /\ kind.local /\ Subscribed /\ io = Idle
        /\ stray' = Cleaning
        /\ ledger'.goal = g /\ ledger'.generation = ledger.generation + 1
        /\ io' = IF adapter # None /\ g \notin BadGoals
                 THEN [pc |-> "forward", goal |-> g, gen |-> ledger.generation + 1]
                 ELSE Idle
    BY <1>1 DEF OnGoal, lifecycleVars, Observations!ChangeGoal
  <2> QED
    BY <2>1 DEF GoalInv, Subscribed, Cleaning, Idle
<1>2. CASE ForwardGoal
  <2>1. /\ UNCHANGED <<kind, phase, ledger, stray>> /\ io' = Idle
        /\ adapter # None /\ io.pc = "forward"
        /\ adapter'.goal = io.goal /\ adapter'.gen = io.gen
    BY <1>2, ForwardFields DEF lifecycleVars
  <2>2. adapter' # None
    BY <1>2, AdapterAssumption, ForwardFields
  <2> QED
    BY <2>1, <2>2 DEF GoalInv, Idle, Subscribed
<1>3. CASE TickStep
  <2>1. UNCHANGED <<kind, phase, ledger, io, stray>>
    BY <1>3 DEF TickStep, TickFrame, TickPredict, TickPublish, lifecycleVars
  <2>2. \/ UNCHANGED adapter
        \/ /\ adapter # None /\ adapter' # None
           /\ adapter'.goal = adapter.goal /\ adapter'.gen = adapter.gen
    BY <1>3, ShowFrameType, ShowFrameFields, AdapterAssumption
    DEF TickStep, TickFrame, TickPredict, TickPublish, TypeOK, RingInv
  <2> QED
    BY <2>1, <2>2 DEF GoalInv, Subscribed
<1>4. CASE Configure
  <2>1. /\ UNCHANGED <<kind, ledger, io, stray>>
        /\ phase = "unconfigured" /\ phase' \in {"inactive", "unconfigured"}
        /\ adapter' = IF kind.local THEN NewAdapter ELSE None
    BY <1>4 DEF Configure, ConfigureNode
  <2>2. NewAdapter # None
    <3>1. NewAdapter \in Adapters
      BY EngineAssumption DEF NewAdapter, Adapters
    <3> QED
      BY <3>1, AdapterAssumption
  <2> QED
    BY <2>1, <2>2 DEF GoalInv, Subscribed
<1>5. CASE Activate \/ Deactivate \/ Deactivated
  <2>1. /\ UNCHANGED <<kind, ledger, adapter, io, stray>>
        /\ phase \in {"inactive", "active", "stopping"}
        /\ phase' \in {"inactive", "active", "stopping"}
    BY <1>5 DEF Activate, Deactivate, Deactivated, ActivateNode, StopNode, StoppedNode, Stage,
       localVars
  <2> QED
    BY <2>1 DEF GoalInv, Subscribed
<1>6. CASE Cleanup
  <2>1. /\ UNCHANGED <<kind, adapter, io, stray>>
        /\ phase = "inactive" /\ phase' = "released" /\ ledger'.goal = None
    BY <1>6 DEF Cleanup, ReleaseNode, Stage, Observations!ResetLedger
  <2> QED
    BY <2>1 DEF GoalInv, Subscribed
<1>7. CASE CleanupLink
  <2>1. /\ UNCHANGED <<kind, ledger, io, stray>> /\ adapter' = None
        /\ phase = "released" /\ phase' = "unlinked"
    BY <1>7 DEF CleanupLink, UnlinkNode
  <2> QED
    BY <2>1 DEF GoalInv, Subscribed
<1>8. CASE CleanupRest
  <2>1. /\ UNCHANGED <<kind, ledger, adapter, io, stray>>
        /\ phase = "unlinked" /\ phase' = "unconfigured"
    BY <1>8 DEF CleanupRest, UnsubscribeNode, Stage, localVars
  <2> QED
    BY <2>1 DEF GoalInv, Subscribed
<1>9. CASE OnImage \/ Capture \/ Outside \/ Tick
  <2>1. UNCHANGED <<kind, phase, ledger, adapter, io, stray>>
    BY <1>9 DEF OnImage, Capture, Outside, Tick, AttemptRefused, DeviceAppears, NodeFound,
       lifecycleVars, localVars
  <2> QED
    BY <2>1 DEF GoalInv, Subscribed
<1> QED
  BY <1>1, <1>2, <1>3, <1>4, <1>5, <1>6, <1>7, <1>8, <1>9 DEF Next, LifecycleStep

(***************************************************************************)
(* The frames in the ring and the paths made of them.                      *)
(***************************************************************************)

\* One more frame of the goal in the adapter at the end of the ring.
LEMMA ShowFrameKeepsOrder ==
    ASSUME TypeOK, RingInv, adapter # None, adapter' = ShowFrame(adapter)
    PROVE  RingInv'
<1>1. ContextSize \in Nat /\ adapter \in Adapters
  BY EngineAssumption DEF TypeOK
<1> DEFINE old == adapter.ring
           new == PushFrame(old, adapter.gen)
           gone == IF Len(old) > ContextSize THEN 1 ELSE 0
<1>2. /\ old \in Seq(Nat) /\ Len(old) \in Nat /\ adapter.gen \in Nat
      /\ adapter.shown \in 0 .. ContextSize + 1
      /\ adapter.shown <= Len(old)
      /\ Len(old) <= ContextSize + 1
      /\ \A i \in 1 .. Len(old) :
            /\ old[i] <= adapter.gen
            /\ i > Len(old) - adapter.shown => old[i] = adapter.gen
            /\ \A j \in 1 .. i : old[j] <= old[i]
  BY <1>1 DEF RingInv, Adapters
<1>3. /\ new \in Seq(Nat)
      /\ Len(new) = Len(old) + 1 - gone
      /\ Len(new) <= ContextSize + 1
      /\ new[Len(new)] = adapter.gen
      /\ \A i \in 1 .. Len(new) - 1 : new[i] = old[i + gone]
  BY <1>2, PushFrameKeeps
<1>4. /\ adapter'.gen = adapter.gen /\ adapter'.ring = new
      /\ adapter'.shown = IF adapter.shown > ContextSize THEN adapter.shown ELSE adapter.shown + 1
  BY <1>1, ShowFrameFields
<1> HIDE DEF old, new
<1>5. gone \in {0, 1} /\ Len(new) \in Nat /\ Len(new) > 0
  BY <1>1, <1>2, <1>3
<1>6. adapter'.shown <= Len(new)
  BY <1>1, <1>2, <1>3, <1>4
<1>7. adapter'.shown \in Nat /\ adapter'.shown <= adapter.shown + 1
  BY <1>1, <1>2, <1>4
<1>8. ASSUME NEW i \in 1 .. Len(new)
      PROVE  /\ new[i] <= adapter.gen
             /\ i > Len(new) - adapter'.shown => new[i] = adapter.gen
             /\ \A j \in 1 .. i : new[j] <= new[i]
  <2>1. CASE i = Len(new)
    <3>1. \A j \in 1 .. i : j < i => new[j] = old[j + gone] /\ j + gone \in 1 .. Len(old)
      BY SMTT(30), <1>2, <1>3, <1>5, <2>1
    <3>2. new[i] = adapter.gen
      BY <1>3, <2>1
    <3>3. \A j \in 1 .. i : j < i => new[j] <= adapter.gen
      BY <1>2, <3>1
    <3>4. \A j \in 1 .. i : j < i \/ j = i
      BY <1>5, <2>1
    <3> QED
      BY <1>2, <3>2, <3>3, <3>4
  <2>2. CASE i < Len(new)
    <3>1. new[i] = old[i + gone] /\ i + gone \in 1 .. Len(old)
      BY SMTT(30), <1>2, <1>3, <1>5, <2>2
    <3>2. \A j \in 1 .. i : new[j] = old[j + gone] /\ j + gone \in 1 .. i + gone
      BY <1>2, <1>3, <1>5, <2>2
    <3>3. i > Len(new) - adapter'.shown => i + gone > Len(old) - adapter.shown
      <4>1. /\ Len(old) \in Nat /\ adapter.shown \in Nat /\ i \in Nat
            /\ Len(new) = Len(old) + 1 - gone
        BY <1>1, <1>2, <1>3, <1>5
      <4> HIDE DEF gone
      <4> QED
        BY <1>5, <1>7, <4>1
    <3>4. new[i] <= adapter.gen /\ \A j \in 1 .. i : new[j] <= new[i]
      BY <1>2, <3>1, <3>2
    <3>5. i > Len(new) - adapter'.shown => new[i] = adapter.gen
      BY <1>2, <3>1, <3>3
    <3> QED
      BY <3>4, <3>5
  <2> QED
    BY <1>5, <2>1, <2>2
<1>10. DOMAIN new = 1 .. Len(new)
  BY <1>3
<1> QED
  BY <1>3, <1>4, <1>6, <1>8, <1>10 DEF RingInv

LEMMA RingStep ==
    ASSUME LocalInv, Next, ~Crash
    PROVE  RingInv'
<1> USE DEF LocalInv
<1>1. CASE UNCHANGED adapter
  BY <1>1 DEF RingInv
<1>2. CASE /\ ForwardGoal
           /\ adapter \in Adapters /\ adapter' \in Adapters
           /\ adapter'.goal = io.goal /\ adapter'.gen = io.gen
           /\ adapter'.ring = adapter.ring /\ adapter'.shown = 0
  <2>1. adapter # None /\ adapter.gen <= io.gen
    BY <1>2 DEF ForwardGoal, PathInv
  <2>2. /\ adapter.gen \in Nat /\ io.gen \in Nat
        /\ adapter.ring \in Seq(Nat) /\ adapter.shown \in 0 .. ContextSize + 1
    BY <1>2 DEF Adapters, TypeOK, ForwardGoal, Idle
  <2>3. \A i \in DOMAIN adapter.ring : i \in 1 .. Len(adapter.ring) /\ adapter.ring[i] \in Nat
    BY <2>2
  <2> QED
    BY <1>2, <2>1, <2>2, <2>3, EngineAssumption DEF RingInv
<1>3. CASE TickPredict /\ adapter \in Adapters /\ adapter' = ShowFrame(adapter)
  BY <1>3, ShowFrameKeepsOrder, AdapterAssumption
<1>4. CASE Configure
  <2>1. adapter' \in {NewAdapter, None}
    BY <1>4 DEF Configure
  <2>2. NewAdapter.shown = 0 /\ NewAdapter.ring = <<>>
    BY DEF NewAdapter
  <2>3. Len(<<>>) = 0 /\ DOMAIN <<>> = {} /\ 0 <= ContextSize + 1
    BY EngineAssumption
  <2> QED
    BY <2>1, <2>2, <2>3 DEF RingInv
<1>5. CASE CleanupLink
  BY <1>5 DEF CleanupLink, RingInv
<1> QED
  BY <1>1, <1>2, <1>3, <1>4, <1>5, AdapterStep

LEMMA PathStep ==
    ASSUME LocalInv, Next, ~Crash
    PROVE  PathInv'
<1> USE DEF LocalInv
<1>0. ledger.generation \in Nat /\ lateDrives \in 0 .. 2
  BY DEF TypeOK, Observations!Ledger
<1>1. ASSUME NEW g \in Goals, OnGoal(g)
      PROVE  PathInv'
  <2>1. /\ UNCHANGED <<adapter, tick, lateDrives>>
        /\ ledger'.generation = ledger.generation + 1
        /\ io' \in {Idle, [pc |-> "forward", goal |-> g, gen |-> ledger.generation + 1]}
    BY <1>1 DEF OnGoal, Observations!ChangeGoal
  <2>2. adapter # None => adapter.gen \in Nat
    BY DEF TypeOK, Adapters
  <2> QED
    BY <1>0, <2>1, <2>2 DEF PathInv, OneLateDrive, Late, Idle
<1>2. CASE ForwardGoal
  <2>1. /\ UNCHANGED <<ledger, tick>> /\ lateDrives' = 0 /\ io' = Idle
        /\ io.pc = "forward" /\ adapter'.gen = io.gen
    BY <1>2, ForwardFields
  <2> QED
    BY <2>1 DEF PathInv, OneLateDrive, Idle
<1>3. CASE TickFrame
  BY <1>3 DEF TickFrame, PathInv, OneLateDrive, Late
<1>4. CASE TickPredict
  <2>1. /\ UNCHANGED <<ledger, io, lateDrives>>
        /\ tick'.gen \in {adapter.gen, None}
        /\ UNCHANGED adapter \/ (adapter # None /\ adapter' = ShowFrame(adapter))
    BY <1>4 DEF TickPredict
  <2>2. adapter # None => ShowFrame(adapter).gen = adapter.gen /\ adapter.gen \in Nat
    BY ShowFrameFields DEF TypeOK, Adapters
  <2>3. ~Late(tick.gen)'
    BY <2>1, <2>2 DEF Late
  <2> QED
    BY <2>1, <2>2, <2>3 DEF PathInv, OneLateDrive
<1>5. CASE TickPublish
  <2>1. /\ UNCHANGED <<ledger, adapter, io>> /\ tick.pc = "publish" /\ tick' = Idle
        /\ lateDrives' = IF Late(tick.gen) /\ lateDrives < 2 THEN lateDrives + 1 ELSE lateDrives
    BY <1>5 DEF TickPublish
  <2> QED
    BY <1>0, <2>1 DEF PathInv, OneLateDrive, Idle
<1>6. CASE Configure
  <2>1. /\ UNCHANGED <<ledger, tick, io>> /\ lateDrives' = 0
        /\ adapter' \in {NewAdapter, None}
    BY <1>6 DEF Configure
  <2>2. NewAdapter.gen = 0 /\ (io.pc = "forward" => io.gen \in Nat)
    BY DEF NewAdapter, TypeOK, Idle
  <2> QED
    BY <1>0, <2>1, <2>2 DEF PathInv, OneLateDrive
<1>7. CASE Cleanup
  <2>1. /\ UNCHANGED <<adapter, tick, io, lateDrives>>
        /\ ledger'.generation = ledger.generation + 1
    BY <1>7 DEF Cleanup, Observations!ResetLedger
  <2>2. /\ adapter # None => adapter.gen \in Nat
        /\ io.pc = "forward" => io.gen \in Nat
    BY DEF TypeOK, Adapters, Idle
  <2> QED
    BY <1>0, <2>1, <2>2 DEF PathInv, OneLateDrive, Late
<1>8. CASE CleanupLink
  <2>1. UNCHANGED <<ledger, tick, io, lateDrives>> /\ adapter' = None
    BY <1>8 DEF CleanupLink
  <2> QED
    BY <2>1 DEF PathInv, OneLateDrive, Late
<1>9. CASE OnImage \/ Activate \/ Deactivate \/ Deactivated \/ CleanupRest \/ Capture \/ Outside \/ Tick
  <2>1. UNCHANGED <<ledger, adapter, tick, io, lateDrives>>
    BY <1>9 DEF OnImage, Activate, Deactivate, Deactivated, CleanupRest, Capture, Outside, Tick,
       localVars
  <2> QED
    BY <2>1 DEF PathInv, OneLateDrive, Late
<1> QED
  BY <1>1, <1>2, <1>3, <1>4, <1>5, <1>6, <1>7, <1>8, <1>9 DEF Next, TickStep, LifecycleStep

(***************************************************************************)
(* The subscriptions to the remote.                                        *)
(***************************************************************************)

LEMMA LinkStep ==
    ASSUME LocalInv, Next, ~Crash
    PROVE  LinkInv'
<1> USE DEF LocalInv
<1>0. links \in [alive : Nat, held : BOOLEAN, failed : BOOLEAN]
  BY DEF TypeOK, LifecycleType
<1>1. CASE UNCHANGED <<links, phase>>
  BY <1>1 DEF LinkInv
<1>2. CASE Configure
  <2>1. /\ phase = "unconfigured"
        /\ phase' = IF Opens THEN "inactive" ELSE "unconfigured"
        /\ links' = IF kind.local THEN links
                    ELSE [alive |-> links.alive + 1, held |-> TRUE,
                          failed |-> links.failed \/ ~Opens]
    BY <1>2 DEF Configure, ConfigureNode
  <2>2. CASE kind.local
    BY <2>1, <2>2 DEF LinkInv
  <2>3. CASE ~kind.local
    <3>1. links'.alive = links.alive + 1 /\ links'.held /\ links'.failed = (links.failed \/ ~Opens)
      BY <2>1, <2>3
    <3>2. links.alive \in Nat /\ links'.alive > 0
      BY <1>0, <3>1
    <3>3. ~links'.failed => links.alive = 0 /\ phase' = "inactive"
      BY <2>1, <3>1 DEF LinkInv
    <3> QED
      BY <3>1, <3>2, <3>3 DEF LinkInv
  <2> QED
    BY <2>2, <2>3
<1>3. CASE Activate \/ Deactivate \/ Deactivated \/ Cleanup
  <2>1. /\ UNCHANGED links
        /\ phase' \in {"inactive", "active", "stopping", "released"}
    BY <1>3 DEF Activate, Deactivate, Deactivated, Cleanup, ActivateNode, StopNode, StoppedNode,
       ReleaseNode, Stage
  <2> QED
    BY <2>1 DEF LinkInv
<1>4. CASE CleanupLink
  <2>1. links' = IF links.held
                 THEN [links EXCEPT !.alive = links.alive - 1, !.held = FALSE] ELSE links
    BY <1>4 DEF CleanupLink, UnlinkNode
  <2>2. CASE links.held
    <3>1. links'.alive = links.alive - 1 /\ links'.held = FALSE /\ links'.failed = links.failed
      BY <1>0, <2>1, <2>2
    <3> QED
      BY <1>0, <2>2, <3>1 DEF LinkInv
  <2>3. CASE ~links.held
    BY <2>1, <2>3 DEF LinkInv
  <2> QED
    BY <2>2, <2>3
<1>5. CASE CleanupRest
  <2>1. UNCHANGED links /\ phase = "unlinked"
    BY <1>5 DEF CleanupRest, UnsubscribeNode, Stage
  <2> QED
    BY <2>1 DEF LinkInv
<1> QED
  BY <1>1, <1>2, <1>3, <1>4, <1>5 DEF Next, LifecycleStep, OnGoal, ForwardGoal, OnImage, TickStep,
     TickFrame, TickPredict, TickPublish, Capture, Outside, Tick, AttemptRefused, DeviceAppears,
     NodeFound, lifecycleVars

(***************************************************************************)
(* The invariant and what follows from it.                                 *)
(***************************************************************************)

LEMMA LocalInit ==
    ASSUME Init
    PROVE  LocalInv
<1>1. TypeOK
  <2>1. CaptureType
    BY DEF Init, CaptureInit, CaptureType
  <2>2. LifecycleType
    <3>1. /\ links \in [alive : Nat, held : BOOLEAN, failed : BOOLEAN]
          /\ count \in [session : Nat, activation : Nat]
      BY DEF Init, LifecycleInit
    <3>2. script \in [pc : {"configure", "activate", "over"}, left : 1 .. Attempts]
      BY LaunchAssumption DEF Init, LifecycleInit
    <3> QED
      BY <3>1, <3>2 DEF Init, LifecycleInit, LifecycleType, Phases
  <2>3. ledger \in Observations!Ledger
    BY DEF Init, Observations!NewLedger, Observations!Ledger
  <2>4. io \in {Idle} /\ tick \in {Idle} /\ lateDrives \in 0 .. 2
    BY DEF Init
  <2> QED
    BY <2>1, <2>2, <2>3, <2>4 DEF Init, TypeOK
<1>2. CameraInv /\ LinkInv
  BY DEF Init, CameraInv, StoppedMeansEmpty, Alive, CaptureInit, LifecycleInit, LinkInv
<1>3. GoalInv /\ RingInv /\ PathInv
  BY DEF Init, GoalInv, RingInv, PathInv, OneLateDrive, Idle, Late, Observations!NewLedger,
     LifecycleInit
<1> QED
  BY <1>1, <1>2, <1>3 DEF LocalInv

LEMMA LocalStep ==
    ASSUME LocalInv, [Next]_vars
    PROVE  LocalInv'
<1>1. CASE UNCHANGED vars
  BY <1>1 DEF vars, captureVars, lifecycleVars, localVars, LocalInv, TypeOK, CaptureType,
     LifecycleType, CameraInv, StoppedMeansEmpty, Alive, GoalInv, Subscribed, RingInv, PathInv,
     OneLateDrive, Late, LinkInv
<1>2. CASE Crash
  BY <1>2, CrashKeeps
<1>3. CASE Next /\ ~Crash
  BY <1>3, TypesStep, CameraStep, GoalStep, RingStep, PathStep, LinkStep DEF LocalInv
<1> QED
  BY <1>1, <1>2, <1>3

\* The local node keeps its invariant: types, the camera and its threads, the
\* goal on its way to the adapter, the ring, the paths and the remote links.
THEOREM LocalEdgeSafe == Spec => []LocalInv
<1>1. Init => LocalInv
  BY LocalInit
<1>2. LocalInv /\ [Next]_vars => LocalInv'
  BY LocalStep
<1> QED
  BY <1>1, <1>2, PTL DEF Spec

\* A node that reports OK has armed its policy with the goal it reports.
\* (_publish_status, _on_goal, on_cleanup)
THEOREM ReadyIsArmed == Spec => []ReadyMeansArmed
<1>1. LocalInv => ReadyMeansArmed
  BY DEF LocalInv, GoalInv, ReadyMeansArmed, Ready
<1> QED
  BY <1>1, LocalEdgeSafe, PTL

\* What the model is shown after a goal change: the old goal's frames fade
\* within context_size predictions.  (_push_frame, _stack_frames)
THEOREM FramesFade == Spec => []OldFramesFade
<1>1. ASSUME LocalInv, adapter # None, adapter.ring # <<>>
      PROVE  LET input == StackFrames(adapter.ring)
             IN  /\ \A i \in 1 .. ContextSize : input[i] <= input[i + 1]
                 /\ adapter.shown > 0 => input[ContextSize + 1] = adapter.gen
                 /\ adapter.shown > ContextSize =>
                        \A i \in 1 .. ContextSize + 1 : input[i] = adapter.gen
  <2> DEFINE ring == adapter.ring
             n == Len(ring)
             missing == ContextSize + 1 - n
             input == StackFrames(ring)
  <2>1. /\ ContextSize \in Nat /\ ring \in Seq(Nat) /\ adapter.gen \in Nat
        /\ adapter.shown \in 0 .. ContextSize + 1
    BY <1>1, EngineAssumption DEF LocalInv, TypeOK, Adapters
  <2>2. n \in Nat /\ n > 0 /\ n <= ContextSize + 1 /\ adapter.shown <= n
    BY <1>1, <2>1, EmptySeq DEF LocalInv, RingInv
  <2>3. \A i \in 1 .. n :
            /\ ring[i] \in Nat
            /\ i > n - adapter.shown => ring[i] = adapter.gen
            /\ \A j \in 1 .. i : ring[j] <= ring[i]
    BY <1>1, <2>1 DEF LocalInv, RingInv
  <2>4. \A i \in 1 .. ContextSize + 1 :
            input[i] = IF i <= missing THEN ring[1] ELSE ring[i - missing]
    BY DEF StackFrames
  <2> HIDE DEF ring, n, input
  <2>5. ASSUME NEW i \in 1 .. ContextSize
        PROVE  input[i] <= input[i + 1]
    <3>1. i \in 1 .. ContextSize + 1 /\ i + 1 \in 1 .. ContextSize + 1
      BY <2>1
    <3>2. CASE i + 1 <= missing
      BY <2>1, <2>2, <2>3, <2>4, <3>1, <3>2
    <3>3. CASE i <= missing /\ i + 1 > missing
      <4>1. i + 1 - missing = 1
        BY <2>1, <2>2, <3>3
      <4> QED
        BY <2>1, <2>2, <2>3, <2>4, <3>1, <3>3, <4>1
    <3>4. CASE i > missing
      <4>1. i - missing \in 1 .. n /\ i + 1 - missing \in 1 .. n /\ i - missing \in 1 .. i + 1 - missing
        BY <2>1, <2>2, <3>4
      <4>2. input[i] = ring[i - missing] /\ input[i + 1] = ring[i + 1 - missing]
        BY <2>1, <2>2, <2>4, <3>1, <3>4
      <4> QED
        BY <2>3, <4>1, <4>2
    <3> QED
      BY <2>1, <2>2, <3>2, <3>3, <3>4
  <2>6. adapter.shown > 0 => input[ContextSize + 1] = adapter.gen
    <3>1. ContextSize + 1 - missing = n /\ ContextSize + 1 > missing
      BY <2>1, <2>2
    <3>2. input[ContextSize + 1] = ring[n]
      BY <2>1, <2>2, <2>4, <3>1
    <3> QED
      BY <2>1, <2>2, <2>3, <3>2
  <2>7. ASSUME adapter.shown > ContextSize, NEW i \in 1 .. ContextSize + 1
        PROVE  input[i] = adapter.gen
    <3>1. n = ContextSize + 1 /\ missing = 0
      BY <2>1, <2>2, <2>7
    <3>2. input[i] = ring[i] /\ i > n - adapter.shown /\ i \in 1 .. n
      BY <2>1, <2>2, <2>4, <2>7, <3>1
    <3> QED
      BY <2>3, <3>2
  <2> QED
    BY <2>5, <2>6, <2>7 DEF input, ring
<1>2. LocalInv => OldFramesFade
  BY <1>1 DEF OldFramesFade
<1> QED
  BY <1>2, LocalEdgeSafe, PTL

\* The node goes down only when a cleanup has overtaken one of its callbacks.
\* (_on_goal's unguarded set_goal, _action_tick_local's publish)
THEOREM CrashNeedsCleanup == Spec => CrashOnlyInCleanup
<1>1. ASSUME LocalInv, Next, phase # "crashed", phase' = "crashed"
      PROVE  Cleaning \/ phase = "unconfigured"
  <2>1. CASE ForwardGoal
    <3>1. adapter = None /\ io.pc = "forward"
      BY <1>1, <2>1 DEF ForwardGoal, lifecycleVars
    <3>2. kind.local /\ phase \in Phases
      BY <1>1, <3>1 DEF LocalInv, GoalInv, TypeOK, LifecycleType
    <3> QED
      BY <1>1, <3>1, <3>2 DEF LocalInv, GoalInv, Phases, Cleaning
  <2>2. CASE TickStep
    <3>1. ~Subscribed /\ phase \in Phases
      BY <1>1, <2>2 DEF TickStep, TickFrame, TickPredict, TickPublish, lifecycleVars, LocalInv,
         TypeOK, LifecycleType
    <3> QED
      BY <1>1, <3>1 DEF Subscribed, Phases
  <2>3. CASE LifecycleStep
    <3>1. phase' # "crashed"
      BY <2>3 DEF LifecycleStep, Configure, Activate, Deactivate, Deactivated, Cleanup,
         CleanupLink, CleanupRest, ConfigureNode, ActivateNode, StopNode, StoppedNode,
         ReleaseNode, UnlinkNode, UnsubscribeNode, Stage
    <3> QED
      BY <1>1, <3>1
  <2>4. CASE \/ \E g \in Goals : OnGoal(g)
             \/ OnImage \/ Capture \/ Outside \/ Tick
    BY <1>1, <2>4 DEF OnGoal, OnImage, Capture, Outside, Tick, AttemptRefused, DeviceAppears,
       NodeFound, lifecycleVars
  <2> QED
    BY <1>1, <2>1, <2>2, <2>3, <2>4 DEF Next
<1>2. LocalInv /\ [Next]_vars
      => [phase # "crashed" /\ phase' = "crashed" => Cleaning \/ phase = "unconfigured"]_vars
  BY <1>1
<1> QED
  BY <1>2, LocalEdgeSafe, PTL DEF Spec, CrashOnlyInCleanup
================================================================================
