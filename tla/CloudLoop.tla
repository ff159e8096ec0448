------------------------------ MODULE CloudLoop ------------------------------
(***************************************************************************)
(* The edge node and the remote inference node over two best-effort        *)
(* topics: messages are lost, delayed and reordered, and outlive the       *)
(* process that sent them.                                                 *)
(***************************************************************************)
EXTENDS EdgeNode

VARIABLES remote, remoteUp

Remote == INSTANCE RemoteInference

vars == <<phase, ledger, cache, camera, odomAge, io, tick, obsWire, embWire, path,
          lateDrives, count, remote, remoteUp>>

Init == EdgeInit /\ Remote!RemoteInit

Next ==
    \/ EdgeStep /\ UNCHANGED <<remote, remoteUp>>
    \/ Remote!RemoteStep /\ UNCHANGED <<phase, ledger, cache, camera, odomAge, io, tick,
                                 path, lateDrives, count>>

Spec == Init /\ [][Next]_vars

\* The executor serves a timer that stays due, a callback that has started
\* runs to its end, and the clock advances.  Nothing is assumed of operators,
\* cameras, the network or the remote.
Fairness ==
    /\ WF_vars(TickStep /\ UNCHANGED <<remote, remoteUp>>)
    /\ WF_vars((SendSkip \/ SendRecord \/ SendPublish \/ ReplyPut)
               /\ UNCHANGED <<remote, remoteUp>>)
    /\ WF_vars(Tick /\ UNCHANGED <<remote, remoteUp>>)

FairSpec == Spec /\ Fairness
------------------------------------------------------------------------------
Latest == IF Linked THEN cache.latest ELSE None

IoType ==
    {Idle} \cup [pc : {"encoded"}, gen : Nat, img : Images]
           \cup [pc : {"recorded"}, obs : Observation]
           \cup [pc : {"taken"}, emb : Embedding]

TickType == {Idle, [pc |-> "checked"]} \cup [pc : {"predicting"}, emb : Embedding]

\* Every variable has the type its Python counterpart has, and the cache
\* exists exactly while the node is linked to the remote.
TypeOK ==
    /\ phase \in {"unconfigured", "inactive", "active", "ledger_reset", "unlinked",
                  "crashed", "killed"}
    /\ ledger \in Ledger
    /\ IF Linked THEN cache \in Cache ELSE cache = None
    /\ camera \in [img : Images \cup {None}, age : 0 .. ImageMaxAge + 1]
    /\ odomAge \in 0 .. OdomMaxAge + 1
    /\ io \in IoType
    /\ tick \in TickType
    /\ obsWire \subseteq Observation
    /\ embWire \subseteq Observation
    /\ path \in Observation \cup {None}
    /\ lateDrives \in 0 .. 2
    /\ count \in [boot : Nat, session : Nat, activation : Nat]
    /\ remote \in Observation \cup {None}
    /\ remoteUp \in BOOLEAN
------------------------------------------------------------------------------
(* Safety.                                                                  *)

ThisSession(obs) == obs.session = count.session

\* An embedding of an observation sent since the node was configured is only
\* ever cached while the goal it was computed for is still the goal: a reply
\* under way when the goal changes cannot land.
\* (_on_goal, ObservationLedger.change_goal, EmbeddingCache.put/invalidate)
CachedForCurrentGoal ==
    Latest # None /\ ledger.goal # None /\ ThisSession(Latest.obs)
        => Latest.obs.gen = ledger.generation

\* The observations that may still be answered, or whose answer is not cached.
InFlight == obsWire \cup embWire \cup ({remote} \ {None})
            \cup (IF io.pc = "recorded" THEN {io.obs} ELSE {})
            \cup (IF io.pc = "taken" THEN {io.emb.obs} ELSE {})

\* Why CachedForCurrentGoal holds.  The frame counter bounds what this session
\* has sent, so the floor a goal change leaves behind covers every observation
\* of the old goal; what lies above the floor was recorded for the new one.
FloorSeparatesGoals ==
    Linked =>
        \A o \in InFlight : ThisSession(o) =>
            /\ o.frame <= ledger.counter
            /\ ledger.goal # None /\ o.frame > cache.floor => o.gen = ledger.generation

\* A send tick that survives a cleanup finds its generation gone.
EncodedIsCurrent ==
    io.pc = "encoded" =>
        /\ io.gen <= ledger.generation
        /\ io.gen = ledger.generation => phase \in {"active", "inactive"}

SessionsBounded == \A o \in InFlight : o.session <= count.session

\* The inductive invariant behind CachedForCurrentGoal.
IInv ==
    /\ TypeOK
    /\ SessionsBounded
    /\ EncodedIsCurrent
    /\ FloorSeparatesGoals
    /\ CachedForCurrentGoal

\* The past image handed to the adapter is the image the remote computed the
\* embedding from, whatever replies were lost, late or out of order.
\* (_on_embedding_received, ObservationLedger.take_reply_frame)
PastImageIsEmbedded ==
    Latest # None /\ Latest.past # None /\ Latest.obs.boot = count.boot
        => Latest.past = Latest.obs.img

\* An observation whose image the ledger still holds can still be answered:
\* neither the floor nor the monotonicity rule of the cache refuses it, unless
\* the cache holds a reply to an earlier process, whose frames counted further.
\* (record_sent, take_reply_frame against put/invalidate)
PendingRepliesAcceptable ==
    Linked =>
        \A s \in ledger.sent :
            /\ s.id > cache.floor
            /\ Latest # None /\ Latest.obs.boot = count.boot => s.id > Latest.obs.frame

\* The ledger remembers at most max_frames images, all of them sent for the
\* goal that is current.  (record_sent's eviction, change_goal's clear)
LedgerBounded ==
    /\ IsFiniteSet(ledger.sent)
    /\ Cardinality(ledger.sent) <= MaxFrames
    /\ ledger.goal = None => ledger.sent = {}

\* What is in flight was sent by this process or by one before it, and the
\* frame counter of this process bounds what this process has sent.
CounterBoundsFrames ==
    /\ \A s \in ledger.sent : s.id <= ledger.counter
    /\ Linked => cache.floor <= ledger.counter
    /\ Latest # None /\ Latest.obs.boot = count.boot => Latest.obs.frame <= ledger.counter
    /\ \A o \in InFlight :
           /\ o.boot <= count.boot
           /\ Running /\ o.boot = count.boot => o.frame <= ledger.counter

\* An image in the ledger is the image of the observation with its identifier.
LedgerPairsImages ==
    \A s \in ledger.sent, o \in InFlight :
        o.boot = count.boot /\ o.frame = s.id => o.img = s.img

\* A reply that has taken its image has taken every older one with it.
TakenIsPaired ==
    io.pc = "taken" /\ io.emb.obs.boot = count.boot =>
        /\ io.emb.past # None => io.emb.past = io.emb.obs.img
        /\ \A s \in ledger.sent : s.id > io.emb.obs.frame

\* The inductive invariant behind PastImageIsEmbedded and
\* PendingRepliesAcceptable.
PairingInv ==
    /\ CounterBoundsFrames
    /\ LedgerPairsImages
    /\ TakenIsPaired
    /\ PastImageIsEmbedded
    /\ PendingRepliesAcceptable
    /\ LedgerBounded

\* Once a goal is replaced, at most one path of the old goal still goes out:
\* the one the action tick was predicting.  (_action_tick against _on_goal)
OneLateDrive == lateDrives <= 1

\* A prediction for a goal replaced in this session.
PredictsOldGoal ==
    /\ tick.pc = "predicting"
    /\ ThisSession(tick.emb.obs)
    /\ tick.emb.obs.gen # ledger.generation

\* Why OneLateDrive holds: while such a prediction runs none has been driven
\* on, and the tick that a cleanup overtakes is the last of its session.
LateDriveInv ==
    /\ OneLateDrive
    /\ PredictsOldGoal => lateDrives = 0
    /\ tick.pc = "checked" /\ phase = "ledger_reset" => lateDrives = 0
    /\ tick.pc = "predicting" => tick.emb.obs.session <= count.session
    /\ Latest # None => Latest.obs.session <= count.session
    /\ phase \in {"inactive", "active"} /\ ledger.goal = None =>
           /\ \A o \in InFlight : ~ThisSession(o)
           /\ Latest # None => ~ThisSession(Latest.obs)

\* When embeddings stop coming for good, because the remote or the network is
\* gone, or the camera died and nothing is asked any more, the node ends the
\* drive on what it heard last: the last path is empty, or the node not active.
\* (EmbeddingCache.status STALE, the WAITING/STALE branch of _action_tick)
UnansweredStops ==
    <>[](io.pc # "taken") => <>[](path = None \/ phase # "active")
------------------------------------------------------------------------------
(* What the documentation says and the code does not do; each is the        *)
(* property of a run that finds the behaviour.                              *)

\* "WAITING_REMOTE / STALE -> publish empty path so the follower stops
\* driving" (edge_node.py:566-567): a tick that finds no embedding does not
\* take the node down.
TickSurvivesEmptyCache == phase # "crashed"
==============================================================================
