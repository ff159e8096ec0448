------------------------------- MODULE EdgeNode -------------------------------
(***************************************************************************)
(* The edge node in its cloud mode: goals and camera frames come in,       *)
(* observations go out to the remote policy, embeddings come back and the  *)
(* action tick turns the cached one into a path for the follower.          *)
(*                                                                         *)
(* Three threads run at once, and a step of this module is what one of     *)
(* them does between two points at which another can interfere:            *)
(*   io    the callback group of the goal, image, odometry and embedding   *)
(*         callbacks and of the send tick, mutually exclusive;             *)
(*   tick  the callback group of the action tick, alone because a          *)
(*         prediction takes up to a second;                                *)
(*   phase the lifecycle services, in the node's default group.            *)
(*                                                                         *)
(* Time is the age of the camera frame, of the odometry and of the cached  *)
(* embedding, each saturated where no comparison tells more.               *)
(***************************************************************************)
EXTENDS ObservationLedger, EmbeddingCache

CONSTANTS OdomGoals,         \* pose goals expressed in the odom frame
          UnsupportedGoals,  \* pose goals in a frame the node refuses to send
          ImageMaxAge,       \* image_max_age_sec
          OdomMaxAge,        \* odom_max_age_sec
          MaxGeneration,     \* bound: goal generations explored
          MaxFrameId,        \* bound: observations sent by one process
          MaxActivations,    \* bound: activations of the node
          MaxSessions,       \* bound: configurations of the node
          MaxBoots,          \* bound: restarts of the process
          WireCapacity       \* bound: messages in flight in one direction

ASSUME EdgeAssumption ==
    /\ OdomGoals \subseteq Goals
    /\ UnsupportedGoals \subseteq Goals
    /\ ImageMaxAge \in Nat
    /\ OdomMaxAge \in Nat

VARIABLES phase,      \* lifecycle state, or how the process ended
          ledger,     \* ObservationLedger
          cache,      \* EmbeddingCache, None until configured
          camera,     \* CameraFrameStore: the frame and its age
          odomAge,    \* age of the last odometry message
          io,         \* the callback the io group is in the middle of
          tick,       \* the action tick in progress
          obsWire,    \* observations published and not yet delivered
          embWire,    \* embeddings published and not yet delivered
          path,       \* the last path published: the observation behind it,
                      \* None for an empty path
          lateDrives, \* history: paths of a replaced goal since it was replaced
          count       \* history: boots, sessions and activations so far

edgeVars == <<phase, ledger, cache, camera, odomAge, io, tick, obsWire, embWire,
              path, lateDrives, count>>

Idle == [pc |-> "idle"]

NoFrame == [img |-> None, age |-> ImageMaxAge + 1]

\* Cleanup runs beside the callbacks: first the ledger is reset, then the
\* remote link, the cache and the adapter go, then the rest.
Linked == phase \in {"inactive", "active", "ledger_reset"}
Subscribed == phase \in {"inactive", "active", "ledger_reset", "unlinked"}
Running == phase \notin {"crashed", "killed"}

FreshImage == camera.img # None /\ camera.age <= ImageMaxAge
FreshOdom == odomAge <= OdomMaxAge

EdgeInit ==
    /\ phase = "unconfigured"
    /\ ledger = NewLedger
    /\ cache = None
    /\ camera = NoFrame
    /\ odomAge = OdomMaxAge + 1
    /\ io = Idle
    /\ tick = Idle
    /\ obsWire = {}
    /\ embWire = {}
    /\ path = None
    /\ lateDrives = 0
    /\ count = [boot |-> 0, session |-> 0, activation |-> 0]

\* The process is gone; what the follower last received, and what is in
\* flight, stays.  A new process starts from the same state, unconfigured.
ProcessGone(how) ==
    /\ phase' = how
    /\ ledger' = NewLedger
    /\ cache' = None
    /\ camera' = NoFrame
    /\ odomAge' = OdomMaxAge + 1
    /\ io' = Idle
    /\ tick' = Idle
    /\ UNCHANGED <<obsWire, embWire, path, lateDrives, count>>

\* An exception that leaves a callback ends executor.spin().
Crash == ProcessGone("crashed")
------------------------------------------------------------------------------
(* The io group: goal, image and odometry callbacks.                        *)

\* The ledger calls the cache's invalidate inside its own lock.
OnGoal(g) ==
    /\ Subscribed
    /\ io = Idle
    /\ ledger.generation < MaxGeneration
    /\ ledger' = ChangeGoal(ledger, g)
    /\ cache' = IF Linked THEN Invalidate(cache, ledger.counter) ELSE cache
    /\ lateDrives' = 0
    /\ UNCHANGED <<phase, camera, odomAge, io, tick, obsWire, embWire, path, count>>

OnImage(i) ==
    /\ Subscribed
    /\ io = Idle
    /\ camera' = [img |-> i, age |-> 0]
    /\ UNCHANGED <<phase, ledger, cache, odomAge, io, tick, obsWire, embWire, path,
                   lateDrives, count>>

OnOdom ==
    /\ Subscribed
    /\ io = Idle
    /\ odomAge' = 0
    /\ UNCHANGED <<phase, ledger, cache, camera, io, tick, obsWire, embWire, path,
                   lateDrives, count>>
------------------------------------------------------------------------------
(* The io group: the send tick.                                             *)

\* Frame, goal and generation are read; JPEG encoding follows.
SendSnapshot ==
    /\ phase = "active"
    /\ io = Idle
    /\ ledger.counter < MaxFrameId
    /\ FreshImage
    /\ ledger.goal # None
    /\ ledger.goal \notin UnsupportedGoals
    /\ ledger.goal \in OdomGoals => FreshOdom
    /\ io' = [pc |-> "encoded", gen |-> ledger.generation, img |-> camera.img]
    /\ UNCHANGED <<phase, ledger, cache, camera, odomAge, tick, obsWire, embWire,
                   path, lateDrives, count>>

\* Encoding fails, or record_sent refuses: the generation has moved on.
SendSkip ==
    /\ io.pc = "encoded"
    /\ io' = Idle
    /\ UNCHANGED <<phase, ledger, cache, camera, odomAge, tick, obsWire, embWire, path,
                   lateDrives, count>>

SendRecord ==
    /\ io.pc = "encoded"
    /\ MayRecord(ledger, io.gen)
    /\ ledger' = RecordSent(ledger, io.img)
    /\ io' = [pc  |-> "recorded",
              obs |-> [frame   |-> ledger.counter + 1,
                       img     |-> io.img,
                       gen     |-> io.gen,
                       session |-> count.session,
                       boot    |-> count.boot]]
    /\ UNCHANGED <<phase, cache, camera, odomAge, tick, obsWire, embWire, path,
                   lateDrives, count>>

\* Best effort: the message may be lost, and is when the wire is full.
\* Cleanup may have set the publisher to None under the tick.
SendPublish ==
    /\ io.pc = "recorded"
    /\ \/ /\ Linked
          /\ io' = Idle
          /\ \/ /\ Cardinality(obsWire) < WireCapacity
                /\ obsWire' = obsWire \cup {io.obs}
             \/ obsWire' = obsWire
          /\ UNCHANGED <<phase, ledger, cache, camera, odomAge, tick, embWire, path,
                         lateDrives, count>>
       \/ /\ ~Linked
          /\ Crash
------------------------------------------------------------------------------
(* The io group: the embedding callback.                                    *)

\* The reply takes its image, and every older one, out of the ledger.
ReplyTake(m) ==
    /\ Linked
    /\ io = Idle
    /\ m \in embWire
    /\ embWire' = embWire \ {m}
    /\ io' = [pc  |-> "taken",
              emb |-> [obs  |-> m,
                       past |-> ReplyFrame(ledger, m.frame),
                       age  |-> 0]]
    /\ ledger' = TakeReplyFrame(ledger, m.frame)
    /\ UNCHANGED <<phase, cache, camera, odomAge, tick, obsWire, path, lateDrives,
                   count>>

ReplyPut ==
    /\ io.pc = "taken"
    /\ \/ /\ Linked
          /\ cache' = Put(cache, io.emb)
          /\ io' = Idle
          /\ UNCHANGED <<phase, ledger, camera, odomAge, tick, obsWire, embWire, path,
                         lateDrives, count>>
       \/ /\ ~Linked
          /\ Crash
------------------------------------------------------------------------------
(* The action tick.                                                         *)

PublishStop ==
    /\ path' = None
    /\ tick' = Idle

\* Status, goal and odometry are read.  The timer exists only while active.
\* No reader tells whether the goal changes between the two reads.
TickStatus ==
    /\ phase = "active"
    /\ tick = Idle
    /\ LET stop == \/ ledger.goal \in OdomGoals /\ ~FreshOdom
                   \/ CacheStatus(cache) \in {"WAITING_REMOTE", "STALE"}
       IN  IF stop
           THEN PublishStop
           ELSE /\ tick' = [pc |-> "checked"]
                /\ UNCHANGED path
    /\ UNCHANGED <<phase, ledger, cache, camera, odomAge, io, obsWire, embWire,
                   lateDrives, count>>

\* The slot and the camera frame are read again, without the status.
TickFetch ==
    /\ tick.pc = "checked"
    /\ \/ /\ Linked
          /\ ~FreshImage
          /\ PublishStop
          /\ UNCHANGED <<phase, ledger, cache, camera, odomAge, io, obsWire, embWire,
                         lateDrives, count>>
       \/ /\ Linked
          /\ FreshImage
          /\ cache.latest # None
          /\ tick' = [pc |-> "predicting", emb |-> cache.latest]
          /\ UNCHANGED <<phase, ledger, cache, camera, odomAge, io, obsWire, embWire,
                         path, lateDrives, count>>
       \/ /\ Linked => FreshImage /\ cache.latest = None
          /\ Crash

LateDrives(obs) ==
    IF obs.session = count.session /\ obs.gen # ledger.generation /\ lateDrives < 2
    THEN lateDrives + 1
    ELSE lateDrives

\* The prediction succeeds, or fails (as it does once cleanup has removed the
\* adapter) and an empty path goes out instead.
TickPublish ==
    /\ tick.pc = "predicting"
    /\ \/ /\ Subscribed
          /\ \/ /\ path' = tick.emb.obs
                /\ tick' = Idle
                /\ lateDrives' = LateDrives(tick.emb.obs)
             \/ /\ PublishStop
                /\ UNCHANGED lateDrives
          /\ UNCHANGED <<phase, ledger, cache, camera, odomAge, io, obsWire, embWire,
                         count>>
       \/ /\ ~Subscribed
          /\ Crash
------------------------------------------------------------------------------
(* The lifecycle services.                                                  *)

Configure ==
    /\ phase = "unconfigured"
    /\ count.session < MaxSessions
    /\ phase' = "inactive"
    /\ cache' = NewCache
    /\ count' = [count EXCEPT !.session = @ + 1]
    /\ UNCHANGED <<ledger, camera, odomAge, io, tick, obsWire, embWire, path,
                   lateDrives>>

Activate ==
    /\ phase = "inactive"
    /\ count.activation < MaxActivations
    /\ phase' = "active"
    /\ count' = [count EXCEPT !.activation = @ + 1]
    /\ UNCHANGED <<ledger, cache, camera, odomAge, io, tick, obsWire, embWire, path,
                   lateDrives>>

\* Only the timers go: subscriptions stay and no path is published.
Deactivate ==
    /\ phase = "active"
    /\ phase' = "inactive"
    /\ camera' = NoFrame
    /\ UNCHANGED <<ledger, cache, odomAge, io, tick, obsWire, embWire, path,
                   lateDrives, count>>

CleanupLedger ==
    /\ phase = "inactive"
    /\ count.session < MaxSessions
    /\ phase' = "ledger_reset"
    /\ camera' = NoFrame
    /\ ledger' = ResetLedger(ledger)
    /\ lateDrives' = 0
    /\ UNCHANGED <<cache, odomAge, io, tick, obsWire, embWire, path, count>>

\* Mutant: the cache outlives the link.
CleanupLinkKeepsCache ==
    /\ phase = "ledger_reset"
    /\ phase' = "unlinked"
    /\ UNCHANGED <<ledger, cache, camera, odomAge, io, tick, obsWire, embWire, path,
                   lateDrives, count>>

CleanupLink ==
    /\ phase = "ledger_reset"
    /\ phase' = "unlinked"
    /\ cache' = None
    /\ UNCHANGED <<ledger, camera, odomAge, io, tick, obsWire, embWire, path,
                   lateDrives, count>>

CleanupRest ==
    /\ phase = "unlinked"
    /\ phase' = "unconfigured"
    /\ odomAge' = OdomMaxAge + 1
    /\ UNCHANGED <<ledger, cache, camera, io, tick, obsWire, embWire, path, lateDrives,
                   count>>

\* The process is killed, and a dead one is started again.
Kill ==
    /\ Running
    /\ count.boot < MaxBoots
    /\ ProcessGone("killed")

Boot ==
    /\ ~Running
    /\ count.boot < MaxBoots
    /\ phase' = "unconfigured"
    /\ count' = [count EXCEPT !.boot = @ + 1]
    /\ UNCHANGED <<ledger, cache, camera, odomAge, io, tick, obsWire, embWire, path,
                   lateDrives>>
------------------------------------------------------------------------------
Tick ==
    /\ camera' = [camera EXCEPT !.age = IF @ > ImageMaxAge THEN @ ELSE @ + 1]
    /\ odomAge' = IF odomAge > OdomMaxAge THEN odomAge ELSE odomAge + 1
    /\ cache' = IF Linked THEN AgeCache(cache) ELSE cache
    /\ UNCHANGED <<phase, ledger, io, tick, obsWire, embWire, path, lateDrives, count>>

IoStep ==
    \/ \E g \in Goals : OnGoal(g)
    \/ \E i \in Images : OnImage(i)
    \/ OnOdom
    \/ SendSnapshot \/ SendSkip \/ SendRecord \/ SendPublish
    \/ \E m \in embWire : ReplyTake(m)
    \/ ReplyPut

TickStep == TickStatus \/ TickFetch \/ TickPublish

LifecycleStep ==
    \/ Configure \/ Activate \/ Deactivate
    \/ CleanupLedger \/ CleanupLink \/ CleanupRest

EdgeStep == IoStep \/ TickStep \/ LifecycleStep \/ Kill \/ Boot \/ Tick
===============================================================================
