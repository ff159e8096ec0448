------------------------------- MODULE LocalEdge -------------------------------
(***************************************************************************)
(* The edge node running its policy on the robot: goals go to the local    *)
(* adapter, the action tick shows the policy the newest camera frame, and  *)
(* the frames come from the node's own capture thread or from a topic.     *)
(* The lifecycle services, the io callbacks, the action tick and the       *)
(* capture threads run beside each other.  A node configured for the cloud *)
(* takes part with its lifecycle only: EdgeNode has its callbacks.         *)
(***************************************************************************)
EXTENDS CameraCapture, OmniVLAEngine, EdgeLifecycle

CONSTANTS Goals,         \* goals an operator may publish
          BadGoals,      \* images that cannot be decoded, unknown modes
          MaxFrames,     \* of the ledger, which sends nothing here
          MaxGeneration  \* bound: goal changes

ASSUME LocalAssumption ==
    /\ None \notin Goals
    /\ BadGoals \subseteq Goals

VARIABLES ledger,      \* ObservationLedger
          adapter,     \* the local adapter with its engine, or None
          io,          \* the goal callback in progress
          tick,        \* the action tick in progress
          path,        \* the last path: the generation it was made for, or None
          lateDrives,  \* history: paths for a goal replaced in the adapter
          stray        \* history: the last goal came in the middle of a cleanup

localVars == <<ledger, adapter, io, tick, path, lateDrives, stray>>
vars == <<captureVars, lifecycleVars, localVars>>

Observations == INSTANCE ObservationLedger WITH Images <- {}

Idle == [pc |-> "idle"]

\* The engine's ring holds, for each frame, the generation it was shown for;
\* shown counts the frames shown since the goal was set, saturated.
NewAdapter == [goal |-> None, gen |-> 0, ring |-> <<>>, shown |-> 0]

Adapters == [goal  : Goals \cup {None},
             gen   : Nat,
             ring  : Seq(Nat),
             shown : 0 .. ContextSize + 1]

ASSUME AdapterAssumption == None \notin Adapters

TypeOK ==
    /\ CaptureType
    /\ LifecycleType
    /\ ledger \in Observations!Ledger
    /\ adapter \in Adapters \cup {None}
    /\ io \in {Idle} \cup [pc : {"forward"}, goal : Goals \ BadGoals, gen : Nat]
    /\ tick \in {Idle, [pc |-> "predict"]}
                \cup [pc : {"publish"}, gen : Nat \cup {None}]
    /\ path \in Nat \cup {None}
    /\ lateDrives \in 0 .. 2
    /\ stray \in BOOLEAN

Init ==
    /\ CaptureInit
    /\ LifecycleInit
    /\ ledger = Observations!NewLedger
    /\ adapter = None
    /\ io = Idle
    /\ tick = Idle
    /\ path = None
    /\ lateDrives = 0
    /\ stray = FALSE

Crash ==
    /\ phase' = "crashed"
    /\ ledger' = Observations!NewLedger
    /\ adapter' = None
    /\ io' = Idle
    /\ tick' = Idle
    /\ cap' = FALSE
    /\ stopping' = FALSE
    /\ handle' = None
    /\ loop' = [t \in Threads |-> "done"]
    /\ frame' = None
    /\ links' = [links EXCEPT !.alive = 0, !.held = FALSE]
    /\ UNCHANGED <<revived, kind, device, found, script, operator, count, path,
                   lateDrives, stray>>
------------------------------------------------------------------------------
(* The io callbacks.                                                         *)

Cleaning == phase \in {"released", "unlinked"}

OnGoal(g) ==
    /\ kind.local
    /\ Subscribed
    /\ io = Idle
    /\ ledger.generation < MaxGeneration
    /\ ledger' = Observations!ChangeGoal(ledger, g)
    /\ io' = IF adapter # None /\ g \notin BadGoals
             THEN [pc |-> "forward", goal |-> g, gen |-> ledger.generation + 1]
             ELSE Idle
    /\ stray' = Cleaning
    /\ UNCHANGED <<captureVars, lifecycleVars, adapter, tick, path, lateDrives>>

\* Mutant: a new goal leaves the adapter on its first one.
ForwardFirstGoal ==
    /\ io.pc = "forward"
    /\ adapter # None
    /\ adapter' = IF adapter.goal = None
                  THEN [adapter EXCEPT !.goal = io.goal, !.gen = io.gen, !.shown = 0]
                  ELSE adapter
    /\ lateDrives' = 0
    /\ io' = Idle
    /\ UNCHANGED <<captureVars, lifecycleVars, ledger, tick, path, stray>>

\* The adapter was there before the goal was decoded; it may be gone.
ForwardGoal ==
    /\ io.pc = "forward"
    /\ \/ /\ adapter # None
          /\ adapter' = [adapter EXCEPT !.goal = io.goal, !.gen = io.gen, !.shown = 0]
          /\ lateDrives' = 0
          /\ io' = Idle
          /\ UNCHANGED <<captureVars, lifecycleVars, ledger, tick, path, stray>>
       \/ adapter = None /\ Crash

OnImage ==
    /\ ~kind.device
    /\ Subscribed
    /\ io = Idle
    /\ frame' = 0
    /\ UNCHANGED <<cap, stopping, handle, loop, revived, lifecycleVars, localVars>>
------------------------------------------------------------------------------
(* The action tick.                                                          *)

\* Mutant: without a fresh frame the tick does nothing.
TickFrameSilent ==
    /\ kind.local
    /\ phase \in {"active", "stopping"}
    /\ tick = Idle
    /\ FreshFrame
    /\ tick' = [pc |-> "predict"]
    /\ UNCHANGED <<captureVars, lifecycleVars, ledger, adapter, io, path, lateDrives, stray>>

\* The timer exists while the node is active, and while it is being stopped.
TickFrame ==
    /\ kind.local
    /\ phase \in {"active", "stopping"}
    /\ tick = Idle
    /\ IF FreshFrame
       THEN tick' = [pc |-> "predict"] /\ UNCHANGED path
       ELSE path' = None /\ UNCHANGED tick
    /\ UNCHANGED <<captureVars, lifecycleVars, ledger, adapter, io, lateDrives, stray>>

ShowFrame(a) ==
    [a EXCEPT !.ring  = PushFrame(@, a.gen),
              !.shown = IF @ > ContextSize THEN @ ELSE @ + 1]

\* Mutant: the prediction is not guarded.
TickPredictUnguarded ==
    /\ tick.pc = "predict"
    /\ \/ /\ adapter # None
          /\ adapter.goal # None
          /\ adapter' = ShowFrame(adapter)
          /\ tick' = [pc |-> "publish", gen |-> adapter.gen]
          /\ UNCHANGED <<captureVars, lifecycleVars, ledger, io, path, lateDrives, stray>>
       \/ (adapter # None => adapter.goal = None) /\ Crash

\* Mutant: a failed prediction publishes the path before it once more.
TickPredictReusesPath ==
    /\ tick.pc = "predict"
    /\ IF adapter # None /\ adapter.goal # None
       THEN /\ adapter' = ShowFrame(adapter)
            /\ tick' \in [pc : {"publish"}, gen : {adapter.gen, path}]
       ELSE /\ tick' = [pc |-> "publish", gen |-> None]
            /\ UNCHANGED adapter
    /\ UNCHANGED <<captureVars, lifecycleVars, ledger, io, path, lateDrives, stray>>

\* Without a goal the frame is not shown and the path is empty, as it is when
\* the prediction fails, which it does once cleanup has removed the adapter.
TickPredict ==
    /\ tick.pc = "predict"
    /\ \/ /\ adapter # None
          /\ adapter.goal # None
          /\ adapter' = ShowFrame(adapter)
          /\ tick' \in [pc : {"publish"}, gen : {adapter.gen, None}]
       \/ /\ adapter # None => adapter.goal = None
          /\ tick' = [pc |-> "publish", gen |-> None]
          /\ UNCHANGED adapter
    /\ UNCHANGED <<captureVars, lifecycleVars, ledger, io, path, lateDrives, stray>>

Late(gen) == gen # None /\ adapter # None /\ gen < adapter.gen

TickPublish ==
    /\ tick.pc = "publish"
    /\ \/ /\ Subscribed
          /\ path' = tick.gen
          /\ tick' = Idle
          /\ lateDrives' = IF Late(tick.gen) /\ lateDrives < 2
                           THEN lateDrives + 1 ELSE lateDrives
          /\ UNCHANGED <<captureVars, lifecycleVars, ledger, adapter, io, stray>>
       \/ ~Subscribed /\ Crash

TickStep == TickFrame \/ TickPredict \/ TickPublish
------------------------------------------------------------------------------
(* The lifecycle services.                                                   *)

Configure ==
    /\ ConfigureNode
    /\ OpenDevice(kind.device /\ device)
    /\ adapter' = IF kind.local THEN NewAdapter ELSE None
    /\ lateDrives' = 0
    /\ UNCHANGED <<ledger, io, tick, path, stray>>

Activate ==
    /\ ActivateNode
    /\ Start
    /\ UNCHANGED localVars

Deactivate ==
    /\ StopNode
    /\ StopRequested
    /\ UNCHANGED localVars

Deactivated ==
    /\ StoppedNode
    /\ ForgetThread
    /\ UNCHANGED localVars

Cleanup ==
    /\ ReleaseNode
    /\ Close
    /\ ledger' = Observations!ResetLedger(ledger)
    /\ UNCHANGED <<adapter, io, tick, path, lateDrives, stray>>

CleanupLink ==
    /\ UnlinkNode
    /\ adapter' = None
    /\ UNCHANGED <<captureVars, ledger, io, tick, path, lateDrives, stray>>

CleanupRest ==
    /\ UnsubscribeNode
    /\ UNCHANGED <<captureVars, localVars>>

LifecycleStep ==
    \/ Configure \/ Activate \/ Deactivate \/ Deactivated
    \/ Cleanup \/ CleanupLink \/ CleanupRest
------------------------------------------------------------------------------
Outside ==
    /\ AttemptRefused \/ DeviceAppears \/ NodeFound
    /\ UNCHANGED <<captureVars, localVars>>

Tick ==
    /\ frame' = AgeFrame
    /\ UNCHANGED <<cap, stopping, handle, loop, revived, lifecycleVars, localVars>>

Capture == CaptureStep /\ UNCHANGED <<lifecycleVars, localVars>>

Next ==
    \/ \E g \in Goals : OnGoal(g)
    \/ ForwardGoal \/ OnImage
    \/ TickStep
    \/ LifecycleStep
    \/ Capture
    \/ Outside
    \/ Tick

Spec == Init /\ [][Next]_vars

\* A transition that has begun ends, a timer and a callback are served, a
\* thread goes on, a blocked read ends with the driver's own timeout, and the
\* launch scripts go on: nothing is assumed of operators, goals or devices.
Fairness ==
    /\ WF_vars(TickStep)
    /\ WF_vars(ForwardGoal)
    /\ WF_vars(Deactivated) /\ WF_vars(CleanupLink) /\ WF_vars(CleanupRest)
    /\ \A t \in Threads :
           WF_vars((LoopCheck(t) \/ LoopRead(t) \/ LoopPut(t))
                   /\ UNCHANGED <<lifecycleVars, localVars>>)
    /\ WF_vars(Tick)
    /\ WF_vars((Configure \/ Activate \/ Outside) /\ script' # script)

FairSpec == Spec /\ Fairness
------------------------------------------------------------------------------
(* Properties.                                                               *)

\* _publish_status in local mode: an image and a goal.
Ready == Subscribed /\ FreshFrame /\ ledger.goal # None

\* A frame read by the node's own camera never outlives the deactivation: the
\* thread that was in the middle of a read when the join gave up throws its
\* frame away.  The exception is a thread that a later start has revived.
\* (V4L2CameraCapture.stop/close/capture_loop, on_deactivate)
StoppedMeansEmpty ==
    kind.device /\ ~revived /\ phase \notin {"active", "stopping"} => frame = None

\* A node that reports OK has given the goal it reports to its policy, unless
\* the goal cannot be decoded or came in the middle of a cleanup.
\* (_publish_status, _on_goal, set_goal, on_cleanup)
ReadyMeansArmed ==
    kind.local /\ Ready /\ io = Idle /\ ~stray /\ ledger.goal \notin BadGoals =>
        /\ adapter.goal = ledger.goal
        /\ adapter.gen = ledger.generation

\* Once a goal is in the adapter, at most one path of an older goal goes out:
\* the one being predicted.  (_action_tick_local, set_goal under its lock)
OneLateDrive == lateDrives <= 1

\* Frames shown for an older goal leave the policy's input after context_size
\* predictions for the new one, and never come back in front of newer frames.
\* (OmniVLAEdgeEngine._push_frame, _stack_frames; set_goal does not reset)
OldFramesFade ==
    adapter # None /\ adapter.ring # <<>> =>
        LET input == StackFrames(adapter.ring)
        IN  /\ \A i \in 1 .. ContextSize : input[i] <= input[i + 1]
            /\ adapter.shown > 0 => input[ContextSize + 1] = adapter.gen
            /\ adapter.shown > ContextSize =>
                   \A i \in 1 .. ContextSize + 1 : input[i] = adapter.gen

\* A local node goes down only in the middle of, or after, a cleanup that
\* overtook a callback; not while it is configured.
\* (_action_tick_local's try, _on_goal's unguarded set_goal)
CrashOnlyInCleanup ==
    [][phase # "crashed" /\ phase' = "crashed" => Cleaning \/ phase = "unconfigured"]_vars

\* When frames stop coming for good the drive ends.
\* (_fresh_image, the empty path of _action_tick_local)
DeadCameraStops ==
    <>[](~FreshFrame) => <>[](path = None \/ phase # "active")

\* A node the command line finds, with a camera that can be opened, is taken
\* to active by the launch scripts, unless an operator uses a command too.
\* (edge_lifecycle_actions)
LaunchActivates ==
    [](/\ script.pc = "configure" /\ phase = "unconfigured" /\ found /\ ~operator
       /\ kind.device => device
       => <>(phase = "active" \/ operator))

\* Cleanup takes the subscription to the remote with it.  A configure that
\* fails on its camera is the exception: it leaves a subscription that the next
\* one replaces without destroying it.  (on_configure, on_cleanup)
NoLeakWithoutFailure ==
    phase \in {"unlinked", "unconfigured"} /\ ~links.failed => links.alive = 0
------------------------------------------------------------------------------
(* The inductive invariant behind the safety properties above, by subject.   *)

\* Unless a start has revived one, no thread but the current one can store a
\* frame: what an earlier stop left behind is in its read, and told to stop.
CameraInv ==
    /\ kind.device /\ phase \in {"inactive", "active", "stopping"} => cap
    /\ kind.device /\ phase \in {"active", "stopping"} => handle # None
    /\ kind.device /\ phase = "stopping" => stopping
    /\ kind.device /\ ~revived =>
           IF phase \in {"active", "stopping"}
           THEN \A t \in Alive : t = handle
           ELSE \A t \in Alive : loop[t] = "read" /\ stopping
    /\ StoppedMeansEmpty

\* The adapter exists while the node is configured for a local policy, and may
\* be left by a configure that failed; a goal on its way to it is the one the
\* ledger names.
GoalInv ==
    /\ adapter # None => kind.local /\ phase \notin {"unlinked", "crashed"}
    /\ kind.local /\ phase \in {"inactive", "active", "stopping", "released"} => adapter # None
    /\ ledger.goal # None => kind.local
    /\ phase \notin {"inactive", "active", "stopping"} /\ ledger.goal # None => stray
    /\ io.pc = "forward" =>
           /\ kind.local
           /\ ~stray /\ ledger.goal # None =>
                  io.goal = ledger.goal /\ io.gen = ledger.generation
    /\ kind.local /\ Subscribed /\ io = Idle /\ ~stray
           /\ ledger.goal \notin BadGoals \cup {None} =>
               /\ adapter.goal = ledger.goal
               /\ adapter.gen = ledger.generation

\* The ring ends with the frames shown for the goal in the adapter.
RingInv ==
    adapter # None =>
        /\ adapter.shown <= Len(adapter.ring)
        /\ Len(adapter.ring) <= ContextSize + 1
        /\ \A i \in DOMAIN adapter.ring :
               /\ adapter.ring[i] <= adapter.gen
               /\ i > Len(adapter.ring) - adapter.shown => adapter.ring[i] = adapter.gen
               /\ \A j \in 1 .. i : adapter.ring[j] <= adapter.ring[i]

\* Generations only grow on their way from the ledger to a path.
PathInv ==
    /\ adapter # None => adapter.gen <= ledger.generation
    /\ io.pc = "forward" =>
           /\ io.gen <= ledger.generation
           /\ adapter # None => adapter.gen <= io.gen
    /\ OneLateDrive
    /\ tick.pc = "publish" /\ Late(tick.gen) => lateDrives = 0

\* A subscription is alive for the link held, and for every configure that failed.
LinkInv ==
    /\ links.held => links.alive > 0
    /\ ~links.failed =>
           /\ links.alive = IF links.held THEN 1 ELSE 0
           /\ links.held => phase \in {"inactive", "active", "stopping", "released"}

LocalInv ==
    /\ TypeOK
    /\ CameraInv
    /\ GoalInv
    /\ RingInv
    /\ PathInv
    /\ LinkInv
================================================================================
