---------------------------- MODULE CloudLoopProofs ----------------------------
(***************************************************************************)
(* Proofs about CloudLoop for every value of its constants: any number of  *)
(* goals, images and frames, any ages and any bounds on generations,       *)
(* restarts and wires.                                                     *)
(***************************************************************************)
EXTENDS CloudLoop, FiniteSetTheorems, WellFoundedInduction, TLAPS

(***************************************************************************)
(* What the locked regions of the ledger and of the cache return.          *)
(***************************************************************************)

\* Every method of ObservationLedger returns a ledger, and what
\* take_reply_frame hands out is an image or None.
LEMMA LedgerTypes ==
    ASSUME NEW l \in Ledger
    PROVE  /\ \A g \in Goals : ChangeGoal(l, g) \in Ledger
           /\ \A i \in Images : RecordSent(l, i) \in Ledger
           /\ \A id \in Nat : TakeReplyFrame(l, id) \in Ledger
           /\ \A id \in Nat : ReplyFrame(l, id) \in Images \cup {None}
           /\ ResetLedger(l) \in Ledger
<1>1. \A g \in Goals : ChangeGoal(l, g) \in Ledger
  BY DEF Ledger, ChangeGoal
<1>2. ASSUME NEW i \in Images
      PROVE  RecordSent(l, i) \in Ledger
  <2> DEFINE grown == l.sent \cup {[id |-> l.counter + 1, img |-> i]}
  <2>1. l.counter + 1 \in Nat /\ grown \in SUBSET SentFrame
    BY DEF Ledger, SentFrame
  <2>2. Evict(grown) \in SUBSET SentFrame
    BY <2>1 DEF Evict
  <2> HIDE DEF grown
  <2>3. RecordSent(l, i) = [l EXCEPT !.counter = l.counter + 1, !.sent = Evict(grown)]
    BY DEF RecordSent, grown, Ledger
  <2> QED
    BY <2>1, <2>2, <2>3 DEF Ledger
<1>3. \A id \in Nat : TakeReplyFrame(l, id) \in Ledger
  BY DEF Ledger, TakeReplyFrame
<1>4. \A id \in Nat : ReplyFrame(l, id) \in Images \cup {None}
  <2> TAKE id \in Nat
  <2>1. CASE \E s \in l.sent : s.id = id
    <3>1. (CHOOSE s \in l.sent : s.id = id) \in l.sent
      BY <2>1
    <3>2. (CHOOSE s \in l.sent : s.id = id).img \in Images
      BY <3>1 DEF Ledger, SentFrame
    <3> QED
      BY <2>1, <3>2 DEF ReplyFrame
  <2>2. CASE ~ \E s \in l.sent : s.id = id
    BY <2>2 DEF ReplyFrame
  <2> QED
    BY <2>1, <2>2
<1>5. ResetLedger(l) \in Ledger
  BY DEF Ledger, ResetLedger
<1> QED
  BY <1>1, <1>2, <1>3, <1>4, <1>5

\* The methods of EmbeddingCache keep the type of the cache.
LEMMA CacheTypes ==
    ASSUME NEW c \in Cache
    PROVE  /\ \A e \in Embedding : Put(c, e) \in Cache
           /\ \A n \in Nat : Invalidate(c, n) \in Cache
           /\ AgeCache(c) \in Cache
<1>1. \A e \in Embedding : Put(c, e) \in Cache
  BY DEF Put, Cache
<1>2. \A n \in Nat : Invalidate(c, n) \in Cache
  BY DEF Invalidate, Cache
<1>3. AgeCache(c) \in Cache
  <2>1. CASE c.latest = None \/ c.latest.age >= HardTimeout
    BY <2>1 DEF AgeCache, Cache
  <2>2. CASE ~(c.latest = None \/ c.latest.age >= HardTimeout)
    <3> DEFINE aged == [c.latest EXCEPT !.age = c.latest.age + 1]
    <3>1. aged \in Embedding
      BY <2>2 DEF Embedding, Cache
    <3>2. AgeCache(c) = [c EXCEPT !.latest = aged]
      BY <2>2 DEF AgeCache
    <3> QED
      BY <3>1, <3>2 DEF Cache
  <2> QED
    BY <2>1, <2>2
<1> QED
  BY <1>1, <1>2, <1>3

(***************************************************************************)
(* Types.                                                                  *)
(***************************************************************************)

\* What a new process starts from has the types of TypeOK.
LEMMA ProcessGoneType ==
    ASSUME TypeOK, NEW how \in {"crashed", "killed"}, ProcessGone(how),
           UNCHANGED <<remote, remoteUp>>
    PROVE  TypeOK'
  BY EdgeAssumption DEF TypeOK, ProcessGone, NewLedger, Ledger, NoFrame, IoType,
     TickType, Linked

\* Steps of the io group keep the types.
LEMMA IoTypes ==
    ASSUME TypeOK, IoStep, UNCHANGED <<remote, remoteUp>>
    PROVE  TypeOK'
<1> USE DEF TypeOK
<1>1. ASSUME NEW g \in Goals, OnGoal(g)
      PROVE  TypeOK'
  <2>1. ledger' \in Ledger
    BY <1>1, LedgerTypes DEF OnGoal
  <2>2. ledger.counter \in Nat
    BY DEF Ledger
  <2>3. IF Linked' THEN cache' \in Cache ELSE cache' = None
    BY <1>1, <2>2, CacheTypes DEF OnGoal, Linked
  <2> QED
    BY <1>1, <2>1, <2>3 DEF OnGoal
<1>2. ASSUME NEW i \in Images, OnImage(i)
      PROVE  TypeOK'
  BY <1>2, EdgeAssumption DEF OnImage, Linked
<1>3. CASE OnOdom
  BY <1>3, EdgeAssumption DEF OnOdom, Linked
<1>4. CASE SendSnapshot
  <2>1. io' \in IoType
    BY <1>4 DEF SendSnapshot, IoType, FreshImage, Ledger
  <2> QED
    BY <1>4, <2>1 DEF SendSnapshot, Linked
<1>5. CASE SendRecord
  <2>1. io.gen \in Nat /\ io.img \in Images
    BY <1>5 DEF SendRecord, IoType, Idle
  <2>2. ledger' \in Ledger
    BY <1>5, <2>1, LedgerTypes DEF SendRecord
  <2>3. io' \in IoType
    BY <1>5, <2>1 DEF SendRecord, IoType, Observation, Ledger
  <2> QED
    BY <1>5, <2>2, <2>3 DEF SendRecord, Linked
<1>6. CASE SendPublish
  <2>1. io.obs \in Observation
    BY <1>6 DEF SendPublish, IoType, Idle
  <2>2. CASE Linked
    BY <1>6, <2>1, <2>2 DEF SendPublish, IoType, Linked
  <2>3. CASE ~Linked
    BY <1>6, <2>3, ProcessGoneType DEF SendPublish, Crash
  <2> QED
    BY <2>2, <2>3
<1>7. ASSUME NEW m \in embWire, ReplyTake(m)
      PROVE  TypeOK'
  <2>1. m \in Observation /\ m.frame \in Nat
    BY DEF Observation
  <2>2. ledger' \in Ledger /\ ReplyFrame(ledger, m.frame) \in Images \cup {None}
    BY <1>7, <2>1, LedgerTypes DEF ReplyTake
  <2>3. io' \in IoType
    BY <1>7, <2>1, <2>2 DEF ReplyTake, IoType, Embedding
  <2> QED
    BY <1>7, <2>2, <2>3 DEF ReplyTake, Linked
<1>8. CASE ReplyPut
  <2>1. io.emb \in Embedding
    BY <1>8 DEF ReplyPut, IoType, Idle
  <2>2. CASE Linked
    <3>1. cache' \in Cache
      BY <1>8, <2>1, <2>2, CacheTypes DEF ReplyPut
    <3> QED
      BY <1>8, <2>2, <3>1 DEF ReplyPut, IoType, Linked
  <2>3. CASE ~Linked
    BY <1>8, <2>3, ProcessGoneType DEF ReplyPut, Crash
  <2> QED
    BY <2>2, <2>3
<1>9. CASE SendSkip
  BY <1>9 DEF SendSkip, IoType, Linked
<1> QED
  BY <1>1, <1>2, <1>3, <1>4, <1>5, <1>6, <1>7, <1>8, <1>9 DEF IoStep

\* Steps of the action tick keep the types.
LEMMA TickTypes ==
    ASSUME TypeOK, TickStep, UNCHANGED <<remote, remoteUp>>
    PROVE  TypeOK'
<1> USE DEF TypeOK
<1>1. CASE TickStatus
  BY <1>1 DEF TickStatus, PublishStop, TickType, Linked
<1>2. CASE TickFetch
  <2>1. CASE Linked /\ ~FreshImage
    BY <1>2, <2>1 DEF TickFetch, PublishStop, TickType, Linked
  <2>2. CASE Linked /\ FreshImage /\ cache.latest # None
    <3>1. cache.latest \in Embedding
      BY <2>2 DEF Cache
    <3> QED
      BY <1>2, <2>2, <3>1 DEF TickFetch, TickType, Linked
  <2>3. CASE Linked => FreshImage /\ cache.latest = None
    BY <1>2, <2>3, ProcessGoneType DEF TickFetch, Crash
  <2> QED
    BY <2>1, <2>2, <2>3
<1>3. CASE TickPublish
  <2>1. tick.emb.obs \in Observation
    BY <1>3 DEF TickPublish, TickType, Idle, Embedding
  <2>2. CASE Subscribed
    <3>1. LateDrives(tick.emb.obs) \in 0 .. 2
      BY DEF LateDrives
    <3> QED
      BY <1>3, <2>1, <2>2, <3>1 DEF TickPublish, PublishStop, TickType, Linked
  <2>3. CASE ~Subscribed
    BY <1>3, <2>3, ProcessGoneType DEF TickPublish, Crash
  <2> QED
    BY <2>2, <2>3
<1> QED
  BY <1>1, <1>2, <1>3 DEF TickStep

\* Lifecycle transitions, the death and the start of the process, and time keep
\* the types.
LEMMA LifecycleTypes ==
    ASSUME TypeOK, LifecycleStep \/ Kill \/ Boot \/ Tick, UNCHANGED <<remote, remoteUp>>
    PROVE  TypeOK'
<1> USE DEF TypeOK
<1>1. CASE Configure
  BY <1>1 DEF Configure, NewCache, NoFloor, Cache, Linked
<1>2. CASE Activate
  BY <1>2 DEF Activate, Linked
<1>3. CASE Deactivate
  BY <1>3, EdgeAssumption DEF Deactivate, NoFrame, Linked
<1>4. CASE CleanupLedger
  <2>1. ledger' \in Ledger
    BY <1>4, LedgerTypes DEF CleanupLedger
  <2> QED
    BY <1>4, <2>1, EdgeAssumption DEF CleanupLedger, NoFrame, Linked
<1>5. CASE CleanupLink
  BY <1>5 DEF CleanupLink, Linked
<1>6. CASE CleanupRest
  BY <1>6, EdgeAssumption DEF CleanupRest, Linked
<1>7. CASE Kill
  BY <1>7, ProcessGoneType DEF Kill
<1>8. CASE Boot
  BY <1>8 DEF Boot, Running, Linked
<1>9. CASE Tick
  <2>1. camera' \in [img : Images \cup {None}, age : 0 .. ImageMaxAge + 1]
    BY <1>9, EdgeAssumption DEF Tick
  <2>2. odomAge' \in 0 .. OdomMaxAge + 1
    BY <1>9, EdgeAssumption DEF Tick
  <2>3. IF Linked' THEN cache' \in Cache ELSE cache' = None
    BY <1>9, CacheTypes DEF Tick, Linked
  <2> QED
    BY <1>9, <2>1, <2>2, <2>3 DEF Tick
<1> QED
  BY <1>1, <1>2, <1>3, <1>4, <1>5, <1>6, <1>7, <1>8, <1>9 DEF LifecycleStep

\* Steps of the remote keep the types.
LEMMA RemoteTypes ==
    ASSUME TypeOK, Remote!RemoteStep,
           UNCHANGED <<phase, ledger, cache, camera, odomAge, io, tick, path, lateDrives,
                       count>>
    PROVE  TypeOK'
<1> USE DEF TypeOK
<1>1. ASSUME NEW m \in obsWire, Remote!OnObservation(m)
      PROVE  TypeOK'
  BY <1>1 DEF Remote!OnObservation, Linked
<1>2. CASE Remote!Reply
  BY <1>2 DEF Remote!Reply, Linked
<1>3. CASE Remote!RemoteDies
  BY <1>3 DEF Remote!RemoteDies, Linked
<1> QED
  BY <1>1, <1>2, <1>3 DEF Remote!RemoteStep

\* The types are inductive.
LEMMA TypesStep == TypeOK /\ [Next]_vars => TypeOK'
<1> SUFFICES ASSUME TypeOK, [Next]_vars
             PROVE  TypeOK'
  OBVIOUS
<1>1. CASE EdgeStep /\ UNCHANGED <<remote, remoteUp>>
  BY <1>1, IoTypes, TickTypes, LifecycleTypes DEF EdgeStep
<1>2. CASE Remote!RemoteStep /\ UNCHANGED <<phase, ledger, cache, camera, odomAge, io, tick,
                                           path, lateDrives, count>>
  BY <1>2, RemoteTypes
<1>3. CASE UNCHANGED vars
  BY <1>3 DEF vars, TypeOK, Linked
<1> QED
  BY <1>1, <1>2, <1>3 DEF Next

LEMMA TypesInit == Init => TypeOK
  BY EdgeAssumption DEF Init, EdgeInit, Remote!RemoteInit, TypeOK, NewLedger, Ledger,
     NoFrame, IoType, TickType, Linked

\* Every reachable state of the loop is well typed; in particular a cache exists
\* exactly while the node is linked to the remote.
THEOREM CloudLoopTypes == Spec => []TypeOK
  BY TypesInit, TypesStep, PTL DEF Spec

(***************************************************************************)
(* No embedding of a replaced goal.                                        *)
(***************************************************************************)

\* A step that sends nothing, changes neither goal nor floor and puts nothing
\* in the cache preserves the invariant.
LEMMA QuietStep ==
    ASSUME IInv, TypeOK',
           InFlight' \subseteq InFlight,
           count'.session = count.session,
           io' = io \/ io'.pc # "encoded",
           io'.pc = "encoded" => /\ ledger'.generation = ledger.generation
                                 /\ phase \in {"active", "inactive"}
                                       => phase' \in {"active", "inactive"},
           Linked' => /\ Linked
                      /\ ledger' = ledger
                         \/ /\ ledger'.counter = ledger.counter
                            /\ ledger'.generation = ledger.generation
                            /\ ledger'.goal = ledger.goal
                      /\ cache'.floor = cache.floor
                      /\ \/ cache'.latest = cache.latest
                         \/ cache.latest # None /\ cache'.latest.obs = cache.latest.obs
    PROVE  IInv'
<1>1. SessionsBounded'
  BY DEF IInv, SessionsBounded
<1>2. EncodedIsCurrent'
  BY DEF IInv, EncodedIsCurrent
<1>3. FloorSeparatesGoals'
  BY DEF IInv, FloorSeparatesGoals, ThisSession
<1>4. CachedForCurrentGoal'
  BY DEF IInv, CachedForCurrentGoal, ThisSession, Latest
<1> QED
  BY <1>1, <1>2, <1>3, <1>4 DEF IInv

\* The death of the process is such a step: nothing is linked any more.
LEMMA ProcessGoneStep ==
    ASSUME IInv, TypeOK', NEW how \in {"crashed", "killed"}, ProcessGone(how),
           UNCHANGED <<remote, remoteUp>>
    PROVE  IInv'
<1>1. InFlight' \subseteq InFlight
  BY DEF ProcessGone, InFlight, Idle
<1>2. ~Linked'
  BY DEF ProcessGone, Linked
<1>3. io'.pc # "encoded" /\ count' = count
  BY DEF ProcessGone, Idle
<1> QED
  BY <1>1, <1>2, <1>3, QuietStep

\* Callbacks and the send tick.
LEMMA IoPreserves ==
    ASSUME IInv, TypeOK', IoStep, UNCHANGED <<remote, remoteUp>>
    PROVE  IInv'
<1> USE DEF IInv
\* The floor becomes the frame counter, above which nothing of this session is.
<1>1. ASSUME NEW g \in Goals, OnGoal(g)
      PROVE  IInv'
  <2>1. InFlight' = InFlight
    BY <1>1 DEF OnGoal, InFlight
  <2>2. SessionsBounded'
    BY <1>1, <2>1 DEF OnGoal, SessionsBounded
  <2>3. EncodedIsCurrent'
    BY <1>1 DEF OnGoal, EncodedIsCurrent, Idle
  <2>4. CASE Linked
    <3>1. /\ cache'.floor = ledger.counter
          /\ cache'.latest = None
          /\ ledger'.counter = ledger.counter
      BY <1>1, <2>4 DEF OnGoal, Invalidate, ChangeGoal
    <3>2. ledger.counter \in Nat /\ \A o \in InFlight : o.frame \in Nat
      BY DEF TypeOK, Ledger, InFlight, Observation, IoType, Idle, Embedding
    <3>3. FloorSeparatesGoals'
      BY <1>1, <2>1, <2>4, <3>1, <3>2 DEF FloorSeparatesGoals, ThisSession, OnGoal
    <3>4. CachedForCurrentGoal'
      BY <3>1 DEF CachedForCurrentGoal, Latest
    <3> QED
      BY <2>2, <2>3, <3>3, <3>4
  <2>5. CASE ~Linked
    <3>1. ~Linked'
      BY <1>1, <2>5 DEF OnGoal, Linked
    <3> QED
      BY <2>2, <2>3, <3>1 DEF FloorSeparatesGoals, CachedForCurrentGoal, Latest
  <2> QED
    BY <2>4, <2>5
<1>2. ASSUME NEW i \in Images, OnImage(i)
      PROVE  IInv'
  BY <1>2, QuietStep DEF OnImage, InFlight, Linked
<1>3. CASE OnOdom
  BY <1>3, QuietStep DEF OnOdom, InFlight, Linked
<1>4. CASE SendSnapshot
  <2>1. InFlight' \subseteq InFlight
    BY <1>4 DEF SendSnapshot, InFlight, Idle
  <2>2. EncodedIsCurrent'
    BY <1>4 DEF SendSnapshot, EncodedIsCurrent, TypeOK, Ledger
  <2> QED
    BY <1>4, <2>1, <2>2 DEF SendSnapshot, SessionsBounded, FloorSeparatesGoals,
       CachedForCurrentGoal, ThisSession, Latest, Linked
\* What is recorded was encoded for the current generation.
<1>5. CASE SendRecord
  <2>1. /\ io'.pc = "recorded"
        /\ io'.obs.frame = ledger.counter + 1
        /\ io'.obs.gen = ledger.generation
        /\ io'.obs.session = count.session
    BY <1>5 DEF SendRecord, MayRecord
  <2>2. InFlight' = InFlight \cup {io'.obs}
    BY <1>5, <2>1 DEF SendRecord, InFlight
  <2>3. /\ ledger'.counter = ledger.counter + 1
        /\ ledger'.generation = ledger.generation
        /\ ledger'.goal = ledger.goal
    BY <1>5 DEF SendRecord, RecordSent, TypeOK, Ledger
  <2>4. SessionsBounded'
    BY <1>5, <2>1, <2>2 DEF SendRecord, SessionsBounded, TypeOK
  <2>5. EncodedIsCurrent'
    BY <2>1 DEF EncodedIsCurrent
  <2>6. ledger.counter \in Nat /\ \A o \in InFlight : o.frame \in Nat
    BY DEF TypeOK, Ledger, InFlight, Observation, IoType, Idle, Embedding
  <2>7. FloorSeparatesGoals'
    BY <1>5, <2>1, <2>2, <2>3, <2>6
    DEF SendRecord, FloorSeparatesGoals, ThisSession, Linked
  <2>8. CachedForCurrentGoal'
    BY <1>5, <2>3 DEF SendRecord, CachedForCurrentGoal, ThisSession, Latest, Linked
  <2> QED
    BY <2>4, <2>5, <2>7, <2>8
<1>6. CASE SendPublish
  <2>1. CASE Linked
    <3>1. InFlight' \subseteq InFlight
      BY <1>6, <2>1 DEF SendPublish, InFlight, Idle
    <3> QED
      BY <1>6, <2>1, <3>1, QuietStep DEF SendPublish, Idle, Linked
  <2>2. CASE ~Linked
    BY <1>6, <2>2, ProcessGoneStep DEF SendPublish, Crash
  <2> QED
    BY <2>1, <2>2
<1>7. ASSUME NEW m \in embWire, ReplyTake(m)
      PROVE  IInv'
  <2>1. InFlight' \subseteq InFlight
    BY <1>7 DEF ReplyTake, InFlight, Idle
  <2>2. /\ ledger'.counter = ledger.counter
        /\ ledger'.generation = ledger.generation
        /\ ledger'.goal = ledger.goal
    BY <1>7 DEF ReplyTake, TakeReplyFrame, TypeOK, Ledger
  <2>3. io'.pc # "encoded"
    BY <1>7 DEF ReplyTake
  <2> QED
    BY <1>7, <2>1, <2>2, <2>3, QuietStep DEF ReplyTake, Linked
\* Only a reply above the floor is put, and that one is of the current goal.
<1>8. CASE ReplyPut
  <2>1. CASE ~Linked
    BY <1>8, <2>1, ProcessGoneStep DEF ReplyPut, Crash
  <2>2. CASE Linked
    <3>1. InFlight' \subseteq InFlight
      BY <1>8, <2>2 DEF ReplyPut, InFlight, Idle
    <3>2. cache' = Put(cache, io.emb) /\ UNCHANGED <<phase, ledger, count>> /\ io' = Idle
      BY <1>8, <2>2 DEF ReplyPut
    <3>3. CASE cache' = cache
      BY <3>1, <3>2, <3>3, QuietStep DEF Idle, Linked
    <3>4. CASE cache' # cache
      <4>1. io.emb.obs \in InFlight
        BY <1>8 DEF ReplyPut, InFlight
      <4>2. /\ io.emb.obs.frame > cache.floor
            /\ cache'.floor = cache.floor
            /\ cache'.latest = io.emb
        BY <2>2, <3>2, <3>4 DEF Put, TypeOK, Cache
      <4>3. CachedForCurrentGoal'
        BY <2>2, <3>2, <4>1, <4>2
        DEF CachedForCurrentGoal, FloorSeparatesGoals, ThisSession, Latest, Linked
      <4>4. FloorSeparatesGoals'
        BY <2>2, <3>1, <3>2, <4>2 DEF FloorSeparatesGoals, ThisSession, Linked
      <4>5. SessionsBounded' /\ EncodedIsCurrent'
        BY <3>1, <3>2 DEF SessionsBounded, EncodedIsCurrent, Idle
      <4> QED
        BY <4>3, <4>4, <4>5
    <3> QED
      BY <3>3, <3>4
  <2> QED
    BY <2>1, <2>2
<1>9. CASE SendSkip
  <2>1. InFlight' \subseteq InFlight
    BY <1>9 DEF SendSkip, InFlight, Idle
  <2> QED
    BY <1>9, <2>1, QuietStep DEF SendSkip, Idle, Linked
<1> QED
  BY <1>1, <1>2, <1>3, <1>4, <1>5, <1>6, <1>7, <1>8, <1>9 DEF IoStep

\* The action tick only reads.
LEMMA TickPreserves ==
    ASSUME IInv, TypeOK', TickStep, UNCHANGED <<remote, remoteUp>>
    PROVE  IInv'
<1>1. CASE TickStatus
  BY <1>1, QuietStep DEF TickStatus, InFlight, Linked
<1>2. CASE TickFetch
  <2>1. CASE UNCHANGED <<phase, ledger, cache, camera, odomAge, io, obsWire, embWire,
                         lateDrives, count>>
    BY <2>1, QuietStep DEF InFlight, Linked
  <2>2. CASE Crash
    BY <2>2, ProcessGoneStep DEF Crash
  <2> QED
    BY <1>2, <2>1, <2>2 DEF TickFetch
<1>3. CASE TickPublish
  <2>1. CASE UNCHANGED <<phase, ledger, cache, camera, odomAge, io, obsWire, embWire,
                         count>>
    BY <2>1, QuietStep DEF InFlight, Linked
  <2>2. CASE Crash
    BY <2>2, ProcessGoneStep DEF Crash
  <2> QED
    BY <1>3, <2>1, <2>2 DEF TickPublish
<1> QED
  BY <1>1, <1>2, <1>3 DEF TickStep

\* Configuring starts a session nothing in flight belongs to; the reset of the
\* ledger leaves no goal, so nothing is claimed until the next one.
LEMMA LifecyclePreserves ==
    ASSUME IInv, TypeOK', LifecycleStep \/ Kill \/ Boot \/ Tick,
           UNCHANGED <<remote, remoteUp>>
    PROVE  IInv'
<1>1. CASE Configure
  <2>1. InFlight' = InFlight
    BY <1>1 DEF Configure, InFlight
  <2>2. count'.session = count.session + 1 /\ count.session \in Nat
    BY <1>1 DEF Configure, IInv, TypeOK
  <2>3. \A o \in InFlight : o.session \in Nat
    BY DEF IInv, TypeOK, InFlight, Observation, IoType, Idle, Embedding
  <2>4. SessionsBounded'
    BY <2>1, <2>2, <2>3 DEF IInv, SessionsBounded
  <2>5. FloorSeparatesGoals'
    BY <2>1, <2>2, <2>3 DEF IInv, SessionsBounded, FloorSeparatesGoals, ThisSession
  <2>6. EncodedIsCurrent' /\ CachedForCurrentGoal'
    BY <1>1 DEF Configure, IInv, EncodedIsCurrent, CachedForCurrentGoal, Latest, NewCache
  <2> QED
    BY <2>4, <2>5, <2>6 DEF IInv
<1>2. CASE Activate
  BY <1>2, QuietStep DEF Activate, InFlight, Linked
<1>3. CASE Deactivate
  BY <1>3, QuietStep DEF Deactivate, InFlight, Linked
<1>4. CASE CleanupLedger
  <2>1. InFlight' = InFlight /\ count' = count /\ io' = io
    BY <1>4 DEF CleanupLedger, InFlight
  <2>2. /\ ledger'.goal = None
        /\ ledger'.counter = ledger.counter
        /\ ledger'.generation = ledger.generation + 1
        /\ ledger.generation \in Nat
    BY <1>4 DEF CleanupLedger, ResetLedger, IInv, TypeOK, Ledger
  <2>3. io.pc = "encoded" => io.gen \in Nat
    BY DEF IInv, TypeOK, IoType, Idle
  <2>4. EncodedIsCurrent'
    BY <2>1, <2>2, <2>3 DEF IInv, EncodedIsCurrent
  <2>5. FloorSeparatesGoals' /\ CachedForCurrentGoal' /\ SessionsBounded'
    BY <1>4, <2>1, <2>2 DEF CleanupLedger, IInv, FloorSeparatesGoals, CachedForCurrentGoal,
       SessionsBounded, ThisSession, Linked
  <2> QED
    BY <2>4, <2>5 DEF IInv
<1>5. CASE CleanupLink
  BY <1>5, QuietStep DEF CleanupLink, InFlight, Linked
<1>6. CASE CleanupRest
  BY <1>6, QuietStep DEF CleanupRest, InFlight, Linked
<1>7. CASE Kill
  BY <1>7, ProcessGoneStep DEF Kill
<1>8. CASE Boot
  <2>1. InFlight' = InFlight /\ count'.session = count.session
    BY <1>8 DEF Boot, InFlight, IInv, TypeOK
  <2>2. ~Linked' /\ io' = io /\ ledger' = ledger
    BY <1>8 DEF Boot, Linked
  <2>3. phase \notin {"active", "inactive"}
    BY <1>8 DEF Boot, Running
  <2> QED
    BY <2>1, <2>2, <2>3, QuietStep
<1>9. CASE Tick
  <2>1. InFlight' = InFlight /\ UNCHANGED <<phase, ledger, io, count>>
    BY <1>9 DEF Tick, InFlight
  <2>2. ASSUME Linked
        PROVE  /\ cache'.floor = cache.floor
               /\ \/ cache'.latest = cache.latest
                  \/ cache.latest # None /\ cache'.latest.obs = cache.latest.obs
    <3>1. cache \in Cache /\ cache' = AgeCache(cache)
      BY <1>9, <2>2 DEF Tick, IInv, TypeOK
    <3>2. CASE cache' = cache
      BY <3>2
    <3>3. CASE cache' # cache
      <4>1. /\ cache.latest # None
            /\ cache' = [cache EXCEPT !.latest =
                            [cache.latest EXCEPT !.age = cache.latest.age + 1]]
        BY <3>1, <3>3 DEF AgeCache
      <4> QED
        BY <3>1, <4>1 DEF Cache, Embedding
    <3> QED
      BY <3>2, <3>3
  <2> QED
    BY <2>1, <2>2, QuietStep DEF Linked
<1> QED
  BY <1>1, <1>2, <1>3, <1>4, <1>5, <1>6, <1>7, <1>8, <1>9 DEF LifecycleStep

\* The remote only moves observations it was sent.
LEMMA RemotePreserves ==
    ASSUME IInv, TypeOK', Remote!RemoteStep,
           UNCHANGED <<phase, ledger, cache, camera, odomAge, io, tick, path, lateDrives,
                       count>>
    PROVE  IInv'
<1>1. InFlight' \subseteq InFlight
  <2>1. ASSUME NEW m \in obsWire, Remote!OnObservation(m)
        PROVE  InFlight' \subseteq InFlight
    BY <2>1 DEF Remote!OnObservation, InFlight
  <2>2. CASE Remote!Reply
    BY <2>2 DEF Remote!Reply, InFlight
  <2>3. CASE Remote!RemoteDies
    BY <2>3 DEF Remote!RemoteDies, InFlight
  <2> QED
    BY <2>1, <2>2, <2>3 DEF Remote!RemoteStep
<1> QED
  BY <1>1, QuietStep DEF Linked

LEMMA InvariantInit == Init => IInv
<1> SUFFICES ASSUME Init
             PROVE  IInv
  OBVIOUS
<1>1. InFlight = {} /\ ~Linked /\ io = Idle
  BY DEF Init, EdgeInit, Remote!RemoteInit, InFlight, Linked, Idle
<1> QED
  BY <1>1, TypesInit DEF IInv, SessionsBounded, EncodedIsCurrent, FloorSeparatesGoals,
     CachedForCurrentGoal, Latest, Idle

LEMMA InvariantStep == IInv /\ [Next]_vars => IInv'
<1> SUFFICES ASSUME IInv, [Next]_vars
             PROVE  IInv'
  OBVIOUS
<1>1. TypeOK'
  BY TypesStep DEF IInv
<1>2. CASE EdgeStep /\ UNCHANGED <<remote, remoteUp>>
  BY <1>1, <1>2, IoPreserves, TickPreserves, LifecyclePreserves DEF EdgeStep
<1>3. CASE Remote!RemoteStep /\ UNCHANGED <<phase, ledger, cache, camera, odomAge, io, tick,
                                           path, lateDrives, count>>
  BY <1>1, <1>3, RemotePreserves
<1>4. CASE UNCHANGED vars
  BY <1>1, <1>4, QuietStep DEF vars, InFlight, Linked
<1> QED
  BY <1>2, <1>3, <1>4 DEF Next

\* The inductive invariant holds in every reachable state.
THEOREM InvariantHolds == Spec => []IInv
  BY InvariantInit, InvariantStep, PTL DEF Spec

\* However many goals, frames, restarts and reconfigurations there are, and
\* whatever the network loses or reorders, no embedding of a goal replaced in
\* this configuration is ever in the cache.  (_on_goal and _on_embedding_received)
THEOREM NoEmbeddingOfReplacedGoal == Spec => []CachedForCurrentGoal
<1>1. IInv => CachedForCurrentGoal
  BY DEF IInv
<1> QED
  BY <1>1, InvariantHolds, PTL


(***************************************************************************)
(* Eviction.                                                               *)
(***************************************************************************)

\* Among finitely or infinitely many natural numbers one is the least.
LEMMA LeastNatural ==
    ASSUME NEW S \in SUBSET Nat, S # {}
    PROVE  \E n \in S : \A m \in S : n <= m
<1> DEFINE less == {ss \in Nat \X Nat : ss[1] < ss[2]}
<1>1. IsWellFoundedOn(less, Nat)
  BY NatLessThanWellFounded DEF OpToRel
<1> HIDE DEF less
<1>2. PICK n \in S : \A m \in S : ~(<<m, n>> \in less)
  BY <1>1, WFMin
<1>3. ASSUME NEW m \in S
      PROVE  n <= m
  <2>1. n \in Nat /\ m \in Nat /\ <<m, n>> \notin less
    BY <1>2, <1>3
  <2>2. ~(m < n)
    BY <2>1 DEF less
  <2> QED
    BY <2>1, <2>2
<1> QED
  BY <1>3

\* Evicting leaves at most max_frames images when one more had been added.
LEMMA EvictBounds ==
    ASSUME NEW sent \in SUBSET SentFrame, IsFiniteSet(sent),
           Cardinality(sent) <= MaxFrames + 1
    PROVE  /\ Evict(sent) \subseteq sent
           /\ IsFiniteSet(Evict(sent))
           /\ Cardinality(Evict(sent)) <= MaxFrames
<1>1. Evict(sent) \subseteq sent
  BY DEF Evict
<1>2. IsFiniteSet(Evict(sent))
  BY <1>1, FS_Subset
<1>3. MaxFrames \in Nat /\ Cardinality(sent) \in Nat
  BY LedgerAssumption, FS_CardinalityType
<1>4. CASE Cardinality(sent) <= MaxFrames
  BY <1>1, <1>2, <1>3, <1>4 DEF Evict
<1>5. CASE Cardinality(sent) > MaxFrames
  <2> DEFINE ids == {s.id : s \in sent}
  <2>1. sent # {}
    BY <1>3, <1>5, FS_EmptySet
  <2>2. ids \in SUBSET Nat /\ ids # {}
    BY <2>1 DEF SentFrame
  <2>3. PICK n \in ids : \A m \in ids : n <= m
    BY <2>2, LeastNatural
  <2>4. PICK first \in sent : first.id = n
    BY <2>3
  <2>5. first \notin Evict(sent)
    BY <1>5, <2>2, <2>3, <2>4 DEF Evict
  <2>6. Evict(sent) \subseteq sent \ {first}
    BY <1>1, <2>5
  <2>7. /\ IsFiniteSet(sent \ {first})
        /\ Cardinality(sent \ {first}) = Cardinality(sent) - 1
    BY <2>4, FS_RemoveElement
  <2>8. Cardinality(Evict(sent)) <= Cardinality(sent \ {first})
    BY <2>6, <2>7, FS_Subset
  <2>9. Cardinality(Evict(sent)) \in Nat
    BY <1>2, FS_CardinalityType
  <2> QED
    BY <1>1, <1>2, <1>3, <2>7, <2>8, <2>9
<1> QED
  BY <1>3, <1>4, <1>5

\* record_sent keeps the ledger finite and within its bound.
LEMMA RecordBounds ==
    ASSUME NEW l \in Ledger, NEW i \in Images, IsFiniteSet(l.sent),
           Cardinality(l.sent) <= MaxFrames
    PROVE  /\ RecordSent(l, i).sent \subseteq l.sent \cup {[id |-> l.counter + 1, img |-> i]}
           /\ IsFiniteSet(RecordSent(l, i).sent)
           /\ Cardinality(RecordSent(l, i).sent) <= MaxFrames
<1> DEFINE grown == l.sent \cup {[id |-> l.counter + 1, img |-> i]}
<1>1. grown \in SUBSET SentFrame
  BY DEF Ledger, SentFrame
<1>2. IsFiniteSet(grown) /\ Cardinality(grown) <= Cardinality(l.sent) + 1
  <2>1. Cardinality(l.sent) \in Nat
    BY FS_CardinalityType
  <2>2. /\ IsFiniteSet(grown)
        /\ Cardinality(grown) = IF [id |-> l.counter + 1, img |-> i] \in l.sent
                                THEN Cardinality(l.sent) ELSE Cardinality(l.sent) + 1
    BY FS_AddElement, Zenon
  <2> QED
    BY <2>1, <2>2
<1>3. Cardinality(grown) <= MaxFrames + 1
  BY <1>2, FS_CardinalityType, LedgerAssumption
<1>4. RecordSent(l, i).sent = Evict(grown)
  BY DEF RecordSent, Ledger
<1> HIDE DEF grown
<1>5. /\ Evict(grown) \subseteq grown
      /\ IsFiniteSet(Evict(grown))
      /\ Cardinality(Evict(grown)) <= MaxFrames
  BY <1>1, <1>2, <1>3, EvictBounds
<1> QED
  BY <1>4, <1>5 DEF grown

(***************************************************************************)
(* Replies and the images they are paired with.                            *)
(***************************************************************************)

\* The frames of what is in flight are numbers.
LEMMA InFlightTypes ==
    ASSUME TypeOK
    PROVE  \A o \in InFlight : /\ o.frame \in Nat /\ o.boot \in Nat
                               /\ o.session \in Nat /\ o.img \in Images
  BY DEF TypeOK, InFlight, Observation, IoType, Idle, Embedding

\* A step that records nothing, takes no reply and puts none.
LEMMA QuietPairing ==
    ASSUME TypeOK, TypeOK', PairingInv,
           InFlight' \subseteq InFlight,
           count'.boot = count.boot,
           Running' => Running,
           ledger'.sent \subseteq ledger.sent,
           ledger'.sent = {} \/ ledger'.goal = ledger.goal,
           ledger'.counter = ledger.counter \/ (~Running' /\ ledger'.sent = {}),
           io' = io \/ io'.pc # "taken",
           Linked' => /\ cache'.floor <= ledger'.counter
                      /\ ledger'.sent = {} \/ (Linked /\ cache'.floor = cache.floor)
                      /\ \/ cache'.latest = None
                         \/ /\ Linked
                            /\ cache.latest # None
                            /\ cache'.latest.obs = cache.latest.obs
                            /\ cache'.latest.past = cache.latest.past
    PROVE  PairingInv'
<1> USE DEF PairingInv
<1>1. LedgerBounded'
  <2>1. IsFiniteSet(ledger'.sent) /\ Cardinality(ledger'.sent) <= Cardinality(ledger.sent)
    BY FS_Subset DEF LedgerBounded
  <2>2. Cardinality(ledger.sent) \in Nat /\ Cardinality(ledger'.sent) \in Nat
    BY <2>1, FS_CardinalityType DEF LedgerBounded
  <2> QED
    BY <2>1, <2>2, LedgerAssumption DEF LedgerBounded
<1>2. Linked => Running
  BY DEF Linked, Running
<1>3. Linked' => Running'
  BY DEF Linked, Running
<1>4. CounterBoundsFrames'
  BY <1>2, <1>3 DEF CounterBoundsFrames, Latest
<1>5. LedgerPairsImages'
  BY DEF LedgerPairsImages
<1>6. TakenIsPaired'
  BY DEF TakenIsPaired
<1>7. PastImageIsEmbedded'
  BY DEF PastImageIsEmbedded, Latest
<1>8. PendingRepliesAcceptable'
  BY DEF PendingRepliesAcceptable, Latest
<1> QED
  BY <1>1, <1>4, <1>5, <1>6, <1>7, <1>8

\* The death of the process forgets the ledger and the cache.
LEMMA ProcessGonePairing ==
    ASSUME TypeOK, TypeOK', PairingInv, NEW how \in {"crashed", "killed"}, ProcessGone(how),
           UNCHANGED <<remote, remoteUp>>
    PROVE  PairingInv'
<1>1. InFlight' \subseteq InFlight
  BY DEF ProcessGone, InFlight, Idle
<1>2. ~Linked' /\ ~Running' /\ count' = count /\ io'.pc # "taken"
  BY DEF ProcessGone, Linked, Running, Idle
<1>3. ledger'.sent = {}
  BY DEF ProcessGone, NewLedger
<1> QED
  BY <1>1, <1>2, <1>3, QuietPairing

\* The three steps that matter: an observation is recorded, a reply takes its
\* image, a reply is put into the cache.
LEMMA RecordPairing ==
    ASSUME TypeOK, TypeOK', EncodedIsCurrent, PairingInv, SendRecord,
           UNCHANGED <<remote, remoteUp>>
    PROVE  PairingInv'
<1> USE DEF PairingInv
<1> DEFINE new == [id |-> ledger.counter + 1, img |-> io.img]
<1>1. io.img \in Images
  BY DEF SendRecord, TypeOK, IoType, Idle
<1>2. /\ ledger'.sent \subseteq ledger.sent \cup {new}
      /\ LedgerBounded'
  <2>1. ledger \in Ledger /\ IsFiniteSet(ledger.sent) /\ Cardinality(ledger.sent) <= MaxFrames
    BY DEF TypeOK, LedgerBounded
  <2>2. ledger' = RecordSent(ledger, io.img) /\ ledger.goal # None
    BY DEF SendRecord, MayRecord
  <2>3. ledger'.goal # None
    BY <2>1, <2>2 DEF RecordSent, Ledger
  <2> QED
    BY <1>1, <2>1, <2>2, <2>3, RecordBounds DEF LedgerBounded
<1>3. ledger'.counter = ledger.counter + 1 /\ ledger.counter \in Nat
  BY DEF SendRecord, RecordSent, TypeOK, Ledger
<1>4. /\ io'.pc = "recorded" /\ io'.obs.img = io.img
      /\ io'.obs.frame = ledger.counter + 1 /\ io'.obs.boot = count.boot
  BY DEF SendRecord
<1>5. InFlight' = InFlight \cup {io'.obs}
  BY <1>4 DEF SendRecord, InFlight
<1>6. Running /\ UNCHANGED <<phase, cache, count>>
  BY DEF SendRecord, EncodedIsCurrent, MayRecord, Running
<1>7. \A o \in InFlight : o.frame \in Nat /\ o.boot \in Nat
  BY InFlightTypes
<1>8. /\ \A s \in ledger.sent : s.id \in Nat
      /\ Linked => cache.floor \in Int
      /\ Latest # None => Latest.obs.frame \in Nat
      /\ count.boot \in Nat
  BY DEF TypeOK, Ledger, SentFrame, Cache, Latest, Embedding, Observation
<1>9. Latest' = Latest /\ (Linked' <=> Linked)
  BY <1>6 DEF Latest, Linked
<1>10. CounterBoundsFrames'
  BY <1>2, <1>3, <1>4, <1>5, <1>6, <1>7, <1>8, <1>9 DEF CounterBoundsFrames
<1>11. LedgerPairsImages'
  <2> SUFFICES ASSUME NEW s \in ledger'.sent, NEW o \in InFlight',
                      o.boot = count.boot, o.frame = s.id
               PROVE  o.img = s.img
    BY <1>6 DEF LedgerPairsImages
  <2>1. CASE s \in ledger.sent /\ o \in InFlight
    BY <2>1 DEF LedgerPairsImages
  <2>2. CASE s = new /\ o \in InFlight
    BY <1>3, <1>6, <1>7, <2>2 DEF CounterBoundsFrames
  <2>3. CASE s \in ledger.sent /\ o = io'.obs
    BY <1>3, <1>4, <1>8, <2>3 DEF CounterBoundsFrames
  <2>4. CASE s = new /\ o = io'.obs
    BY <1>4, <2>4
  <2> QED
    BY <1>2, <1>5, <2>1, <2>2, <2>3, <2>4
<1>12. TakenIsPaired'
  BY <1>4 DEF TakenIsPaired
<1>13. PastImageIsEmbedded'
  BY <1>6, <1>9 DEF PastImageIsEmbedded
<1>14. PendingRepliesAcceptable'
  BY <1>2, <1>3, <1>6, <1>8, <1>9 DEF PendingRepliesAcceptable, CounterBoundsFrames
<1> QED
  BY <1>2, <1>10, <1>11, <1>12, <1>13, <1>14

LEMMA TakePairing ==
    ASSUME TypeOK, TypeOK', PairingInv, NEW m \in embWire, ReplyTake(m),
           UNCHANGED <<remote, remoteUp>>
    PROVE  PairingInv'
<1> USE DEF PairingInv
<1>1. m \in InFlight /\ m \in Observation
  BY DEF InFlight, TypeOK
<1>2. InFlight' \subseteq InFlight
  BY DEF ReplyTake, InFlight, Idle
<1>3. /\ ledger'.counter = ledger.counter
      /\ ledger'.goal = ledger.goal
      /\ ledger'.sent = {s \in ledger.sent : s.id > m.frame}
  BY DEF ReplyTake, TakeReplyFrame, TypeOK, Ledger
<1>4. io'.pc = "taken" /\ io'.emb.obs = m /\ io'.emb.past = ReplyFrame(ledger, m.frame)
  BY DEF ReplyTake
<1>5. UNCHANGED <<phase, cache, count>>
  BY DEF ReplyTake
<1>6. Latest' = Latest /\ (Linked' <=> Linked) /\ (Running' <=> Running)
  BY <1>5 DEF Latest, Linked, Running
<1>7. LedgerBounded'
  <2>1. IsFiniteSet(ledger'.sent) /\ Cardinality(ledger'.sent) <= Cardinality(ledger.sent)
    BY <1>3, FS_Subset DEF LedgerBounded
  <2>2. Cardinality(ledger.sent) \in Nat /\ Cardinality(ledger'.sent) \in Nat
    BY <2>1, FS_CardinalityType DEF LedgerBounded
  <2> QED
    BY <1>3, <2>1, <2>2, LedgerAssumption DEF LedgerBounded
<1>8. CounterBoundsFrames'
  BY <1>2, <1>3, <1>5, <1>6 DEF CounterBoundsFrames
<1>9. LedgerPairsImages'
  BY <1>2, <1>3, <1>5 DEF LedgerPairsImages
<1>10. TakenIsPaired'
  <2>1. ASSUME m.boot = count.boot, ReplyFrame(ledger, m.frame) # None
        PROVE  ReplyFrame(ledger, m.frame) = m.img
    <3>1. \E s \in ledger.sent : s.id = m.frame
      BY <2>1 DEF ReplyFrame
    <3> DEFINE own == CHOOSE s \in ledger.sent : s.id = m.frame
    <3>2. own \in ledger.sent /\ own.id = m.frame
      BY <3>1
    <3>3. ReplyFrame(ledger, m.frame) = own.img
      BY <3>1 DEF ReplyFrame
    <3> HIDE DEF own
    <3> QED
      BY <1>1, <2>1, <3>2, <3>3 DEF LedgerPairsImages
  <2> QED
    BY <1>3, <1>4, <1>5, <2>1 DEF TakenIsPaired
<1>11. PastImageIsEmbedded'
  BY <1>5, <1>6 DEF PastImageIsEmbedded
<1>12. PendingRepliesAcceptable'
  BY <1>3, <1>5, <1>6 DEF PendingRepliesAcceptable
<1> QED
  BY <1>7, <1>8, <1>9, <1>10, <1>11, <1>12

LEMMA PutPairing ==
    ASSUME TypeOK, TypeOK', PairingInv, ReplyPut, Linked, UNCHANGED <<remote, remoteUp>>
    PROVE  PairingInv'
<1> USE DEF PairingInv
<1>1. InFlight' \subseteq InFlight
  BY DEF ReplyPut, InFlight, Idle
<1>2. /\ cache' = Put(cache, io.emb) /\ io' = Idle /\ cache \in Cache
      /\ UNCHANGED <<phase, ledger, count>>
  BY DEF ReplyPut, TypeOK
<1>3. Linked' /\ Running /\ Running'
  BY <1>2 DEF Linked, Running
<1>4. CASE cache' = cache
  BY <1>1, <1>2, <1>3, <1>4, QuietPairing DEF Idle, CounterBoundsFrames, Linked
<1>5. CASE cache' # cache
  <2>1. cache'.floor = cache.floor /\ cache'.latest = io.emb
    BY <1>2, <1>5 DEF Put, Cache
  <2>2. Latest' = io.emb
    BY <1>3, <2>1 DEF Latest
  <2>3. io.pc = "taken" /\ io.emb.obs \in InFlight
    BY DEF ReplyPut, InFlight
  <2>4. CounterBoundsFrames'
    BY <1>1, <1>2, <1>3, <2>1, <2>2, <2>3 DEF CounterBoundsFrames
  <2>5. LedgerPairsImages' /\ TakenIsPaired'
    BY <1>1, <1>2 DEF LedgerPairsImages, TakenIsPaired, Idle
  <2>6. PastImageIsEmbedded' /\ PendingRepliesAcceptable'
    BY <1>2, <2>1, <2>2, <2>3
    DEF PastImageIsEmbedded, PendingRepliesAcceptable, TakenIsPaired
  <2>7. LedgerBounded'
    BY <1>2 DEF LedgerBounded
  <2> QED
    BY <2>4, <2>5, <2>6, <2>7
<1> QED
  BY <1>4, <1>5

\* Callbacks and the send tick.
LEMMA IoPairing ==
    ASSUME TypeOK, TypeOK', EncodedIsCurrent, PairingInv, IoStep,
           UNCHANGED <<remote, remoteUp>>
    PROVE  PairingInv'
<1> USE DEF PairingInv
<1>1. ASSUME NEW g \in Goals, OnGoal(g)
      PROVE  PairingInv'
  <2>1. InFlight' \subseteq InFlight /\ UNCHANGED <<phase, io, count>>
    BY <1>1 DEF OnGoal, InFlight
  <2>2. ledger'.sent = {} /\ ledger'.counter = ledger.counter /\ ledger.counter \in Nat
    BY <1>1 DEF OnGoal, ChangeGoal, TypeOK, Ledger
  <2>3. Linked' => cache'.floor = ledger.counter /\ cache'.latest = None
    BY <1>1 DEF OnGoal, Invalidate, Linked
  <2> QED
    BY <2>1, <2>2, <2>3, QuietPairing DEF Running
<1>2. ASSUME NEW i \in Images, OnImage(i)
      PROVE  PairingInv'
  BY <1>2, QuietPairing DEF OnImage, InFlight, Linked, Running, CounterBoundsFrames
<1>3. CASE OnOdom
  BY <1>3, QuietPairing DEF OnOdom, InFlight, Linked, Running, CounterBoundsFrames
<1>4. CASE SendSnapshot
  <2>1. InFlight' \subseteq InFlight
    BY <1>4 DEF SendSnapshot, InFlight, Idle
  <2> QED
    BY <1>4, <2>1, QuietPairing DEF SendSnapshot, Linked, Running, CounterBoundsFrames
<1>5. CASE SendSkip
  <2>1. InFlight' \subseteq InFlight
    BY <1>5 DEF SendSkip, InFlight, Idle
  <2> QED
    BY <1>5, <2>1, QuietPairing DEF SendSkip, Idle, Linked, Running, CounterBoundsFrames
<1>6. CASE SendRecord
  BY <1>6, RecordPairing
<1>7. CASE SendPublish
  <2>1. CASE Linked
    <3>1. InFlight' \subseteq InFlight
      BY <1>7, <2>1 DEF SendPublish, InFlight, Idle
    <3> QED
      BY <1>7, <2>1, <3>1, QuietPairing
      DEF SendPublish, Idle, Linked, Running, CounterBoundsFrames
  <2>2. CASE ~Linked
    BY <1>7, <2>2, ProcessGonePairing DEF SendPublish, Crash
  <2> QED
    BY <2>1, <2>2
<1>8. ASSUME NEW m \in embWire, ReplyTake(m)
      PROVE  PairingInv'
  BY <1>8, TakePairing
<1>9. CASE ReplyPut
  BY <1>9, PutPairing, ProcessGonePairing DEF ReplyPut, Crash
<1> QED
  BY <1>1, <1>2, <1>3, <1>4, <1>5, <1>6, <1>7, <1>8, <1>9 DEF IoStep

\* The action tick.
LEMMA TickPairing ==
    ASSUME TypeOK, TypeOK', PairingInv, TickStep, UNCHANGED <<remote, remoteUp>>
    PROVE  PairingInv'
<1> USE DEF PairingInv
<1>1. CASE Crash
  BY <1>1, ProcessGonePairing DEF Crash
<1>2. CASE UNCHANGED <<phase, ledger, cache, io, obsWire, embWire, count>>
  <2>1. InFlight' = InFlight
    BY <1>2 DEF InFlight
  <2> QED
    BY <1>2, <2>1, QuietPairing DEF Linked, Running, CounterBoundsFrames
<1> QED
  BY <1>1, <1>2 DEF TickStep, TickStatus, TickFetch, TickPublish

\* Lifecycle, death, start and time.
LEMMA LifecyclePairing ==
    ASSUME TypeOK, TypeOK', PairingInv, LifecycleStep \/ Kill \/ Boot \/ Tick,
           UNCHANGED <<remote, remoteUp>>
    PROVE  PairingInv'
<1> USE DEF PairingInv
<1>1. CASE Configure
  <2>1. InFlight' = InFlight /\ UNCHANGED <<ledger, io>> /\ count'.boot = count.boot
    BY <1>1 DEF Configure, InFlight, TypeOK
  <2>2. cache'.floor = -1 /\ cache'.latest = None /\ Latest' = None
    BY <1>1 DEF Configure, NewCache, NoFloor, Latest
  <2>3. ledger.counter \in Nat /\ \A s \in ledger.sent : s.id \in Nat
    BY DEF TypeOK, Ledger, SentFrame
  <2>4. Running
    BY <1>1 DEF Configure, Running
  <2>5. CounterBoundsFrames'
    BY <2>1, <2>2, <2>3, <2>4 DEF CounterBoundsFrames
  <2>6. LedgerPairsImages' /\ TakenIsPaired' /\ PastImageIsEmbedded' /\ LedgerBounded'
    BY <2>1, <2>2 DEF LedgerPairsImages, TakenIsPaired, PastImageIsEmbedded, LedgerBounded
  <2>7. PendingRepliesAcceptable'
    BY <2>1, <2>2, <2>3 DEF PendingRepliesAcceptable
  <2> QED
    BY <2>5, <2>6, <2>7
<1>2. CASE Activate
  <2>1. count'.boot = count.boot
    BY <1>2 DEF Activate, TypeOK
  <2> QED
    BY <1>2, <2>1, QuietPairing DEF Activate, InFlight, Linked, Running, CounterBoundsFrames
<1>3. CASE Deactivate
  BY <1>3, QuietPairing DEF Deactivate, InFlight, Linked, Running, CounterBoundsFrames
<1>4. CASE CleanupLedger
  <2>1. InFlight' = InFlight /\ UNCHANGED <<io, count, cache>>
    BY <1>4 DEF CleanupLedger, InFlight
  <2>2. ledger'.sent = {} /\ ledger'.counter = ledger.counter
    BY <1>4 DEF CleanupLedger, ResetLedger
  <2>3. Linked /\ Linked' /\ Running
    BY <1>4 DEF CleanupLedger, Linked, Running
  <2> QED
    BY <2>1, <2>2, <2>3, QuietPairing DEF CounterBoundsFrames
<1>5. CASE CleanupLink
  BY <1>5, QuietPairing DEF CleanupLink, InFlight, Linked, Running
<1>6. CASE CleanupRest
  BY <1>6, QuietPairing DEF CleanupRest, InFlight, Linked, Running
<1>7. CASE Kill
  BY <1>7, ProcessGonePairing DEF Kill
\* Nothing in flight was sent by the process that starts.
<1>8. CASE Boot
  <2>1. InFlight' = InFlight /\ UNCHANGED <<ledger, io, cache>>
    BY <1>8 DEF Boot, InFlight
  <2>2. count'.boot = count.boot + 1 /\ count.boot \in Nat
    BY <1>8 DEF Boot, TypeOK
  <2>3. ~Linked' /\ Latest' = None
    BY <1>8 DEF Boot, Linked, Latest
  <2>4. \A o \in InFlight : o.boot \in Nat /\ o.boot <= count.boot
    BY InFlightTypes DEF CounterBoundsFrames
  <2>5. \A o \in InFlight' : o.boot <= count'.boot /\ o.boot # count'.boot
    BY <2>1, <2>2, <2>4
  <2>6. CounterBoundsFrames'
    BY <2>1, <2>3, <2>5 DEF CounterBoundsFrames
  <2>7. LedgerPairsImages'
    BY <2>5 DEF LedgerPairsImages
  <2>8. TakenIsPaired'
    BY <2>1, <2>5 DEF TakenIsPaired, InFlight
  <2>9. PastImageIsEmbedded' /\ PendingRepliesAcceptable' /\ LedgerBounded'
    BY <2>1, <2>3 DEF PastImageIsEmbedded, PendingRepliesAcceptable, LedgerBounded
  <2> QED
    BY <2>6, <2>7, <2>8, <2>9
<1>9. CASE Tick
  <2>1. InFlight' = InFlight /\ UNCHANGED <<phase, ledger, io, count>>
    BY <1>9 DEF Tick, InFlight
  <2>2. ASSUME Linked
        PROVE  /\ cache'.floor = cache.floor
               /\ \/ cache' = cache
                  \/ /\ cache.latest # None
                     /\ cache'.latest.obs = cache.latest.obs
                     /\ cache'.latest.past = cache.latest.past
    <3>1. cache \in Cache /\ cache' = AgeCache(cache)
      BY <1>9, <2>2 DEF Tick, TypeOK
    <3>2. CASE cache' = cache
      BY <3>2
    <3>3. CASE cache' # cache
      <4>1. /\ cache.latest # None
            /\ cache' = [cache EXCEPT !.latest =
                            [cache.latest EXCEPT !.age = cache.latest.age + 1]]
        BY <3>1, <3>3 DEF AgeCache
      <4> QED
        BY <3>1, <4>1 DEF Cache, Embedding
    <3> QED
      BY <3>2, <3>3
  <2>3. Linked' <=> Linked
    BY <2>1 DEF Linked
  <2> QED
    BY <2>1, <2>2, <2>3, QuietPairing DEF Running, CounterBoundsFrames
<1> QED
  BY <1>1, <1>2, <1>3, <1>4, <1>5, <1>6, <1>7, <1>8, <1>9 DEF LifecycleStep

\* The remote only moves observations it was sent.
LEMMA RemoteMoves ==
    ASSUME Remote!RemoteStep,
           UNCHANGED <<phase, ledger, cache, camera, odomAge, io, tick, path, lateDrives,
                       count>>
    PROVE  InFlight' \subseteq InFlight
<1>1. ASSUME NEW m \in obsWire, Remote!OnObservation(m)
      PROVE  InFlight' \subseteq InFlight
  BY <1>1 DEF Remote!OnObservation, InFlight
<1>2. CASE Remote!Reply
  BY <1>2 DEF Remote!Reply, InFlight
<1>3. CASE Remote!RemoteDies
  BY <1>3 DEF Remote!RemoteDies, InFlight
<1> QED
  BY <1>1, <1>2, <1>3 DEF Remote!RemoteStep

LEMMA PairingInit == Init => PairingInv
<1> SUFFICES ASSUME Init
             PROVE  PairingInv
  OBVIOUS
<1>1. InFlight = {} /\ ~Linked /\ io = Idle /\ ledger.sent = {}
  BY DEF Init, EdgeInit, Remote!RemoteInit, InFlight, Linked, Idle, NewLedger
<1>2. IsFiniteSet({}) /\ Cardinality({}) = 0
  BY FS_EmptySet
<1> QED
  BY <1>1, <1>2, LedgerAssumption
  DEF PairingInv, CounterBoundsFrames, LedgerPairsImages, TakenIsPaired,
      PastImageIsEmbedded, PendingRepliesAcceptable, LedgerBounded, Latest, Idle

LEMMA PairingStep == IInv /\ PairingInv /\ [Next]_vars => PairingInv'
<1> SUFFICES ASSUME IInv, PairingInv, [Next]_vars
             PROVE  PairingInv'
  OBVIOUS
<1>1. TypeOK /\ TypeOK' /\ EncodedIsCurrent
  BY TypesStep DEF IInv
<1>2. CASE EdgeStep /\ UNCHANGED <<remote, remoteUp>>
  BY <1>1, <1>2, IoPairing, TickPairing, LifecyclePairing DEF EdgeStep
<1>3. CASE Remote!RemoteStep /\ UNCHANGED <<phase, ledger, cache, camera, odomAge, io, tick,
                                           path, lateDrives, count>>
  BY <1>1, <1>3, RemoteMoves, QuietPairing
  DEF Linked, Running, PairingInv, CounterBoundsFrames
<1>4. CASE UNCHANGED vars
  BY <1>1, <1>4, QuietPairing
  DEF vars, InFlight, Linked, Running, PairingInv, CounterBoundsFrames
<1> QED
  BY <1>2, <1>3, <1>4 DEF Next

\* Whatever the network loses or reorders and however often the process is
\* restarted, a reply is paired with the image it was computed from or with
\* none, a reply the ledger still waits for is not refused, and the ledger
\* keeps at most max_frames images.  (record_sent, take_reply_frame, put)
THEOREM RepliesArePaired == Spec => []PairingInv
<1>1. Init => IInv /\ PairingInv
  BY InvariantInit, PairingInit
<1>2. (IInv /\ PairingInv) /\ [Next]_vars => (IInv /\ PairingInv)'
  BY InvariantStep, PairingStep
<1> QED
  BY <1>1, <1>2, PTL DEF Spec

(***************************************************************************)
(* How often a path of a replaced goal goes out.                           *)
(***************************************************************************)

\* A step that leaves the goal, the session and the tick alone and puts nothing
\* into the cache; or one that ends the tick.
LEMMA QuietDrive ==
    ASSUME LateDriveInv,
           InFlight' \subseteq InFlight,
           count'.session = count.session,
           ledger'.generation = ledger.generation \/ tick'.pc = "idle",
           lateDrives' = lateDrives,
           tick' = tick \/ tick'.pc = "idle",
           phase' = phase \/ phase' \notin {"ledger_reset", "inactive", "active"}
               \/ (phase \in {"inactive", "active"} /\ phase' \in {"inactive", "active"}),
           phase' \in {"inactive", "active"} => ledger'.goal = ledger.goal,
           Linked' => /\ Linked
                      /\ \/ cache'.latest = cache.latest
                         \/ cache.latest # None /\ cache'.latest.obs = cache.latest.obs
    PROVE  LateDriveInv'
<1> USE DEF LateDriveInv
<1>1. OneLateDrive'
  BY DEF OneLateDrive
<1>2. PredictsOldGoal' => lateDrives' = 0
  BY DEF PredictsOldGoal, ThisSession
<1>3. tick'.pc = "checked" /\ phase' = "ledger_reset" => lateDrives' = 0
  OBVIOUS
<1>4. tick'.pc = "predicting" => tick'.emb.obs.session <= count'.session
  OBVIOUS
<1>5. Latest' # None => Latest # None /\ Latest'.obs = Latest.obs
  BY DEF Latest
<1> QED
  BY <1>1, <1>2, <1>3, <1>4, <1>5 DEF ThisSession

\* The death of the process ends the tick.
LEMMA ProcessGoneDrive ==
    ASSUME LateDriveInv, NEW how \in {"crashed", "killed"}, ProcessGone(how),
           UNCHANGED <<remote, remoteUp>>
    PROVE  LateDriveInv'
<1>1. InFlight' \subseteq InFlight
  BY DEF ProcessGone, InFlight, Idle
<1>2. ~Linked' /\ tick'.pc = "idle"
  BY DEF ProcessGone, Linked, Idle
<1> QED
  BY <1>1, <1>2, QuietDrive DEF ProcessGone

\* Callbacks and the send tick.
LEMMA IoDrive ==
    ASSUME IInv, LateDriveInv, IoStep, UNCHANGED <<remote, remoteUp>>
    PROVE  LateDriveInv'
<1>1. ASSUME NEW g \in Goals, OnGoal(g)
      PROVE  LateDriveInv'
  <2>1. lateDrives' = 0 /\ UNCHANGED <<phase, tick, count>>
    BY <1>1 DEF OnGoal
  <2>2. ledger'.goal # None
    BY <1>1, DataAssumption DEF OnGoal, ChangeGoal
  <2>3. Latest' = None
    BY <1>1 DEF OnGoal, Latest, Linked, Invalidate
  <2> QED
    BY <2>1, <2>2, <2>3 DEF LateDriveInv, OneLateDrive
<1>2. ASSUME NEW i \in Images, OnImage(i)
      PROVE  LateDriveInv'
  BY <1>2, QuietDrive DEF OnImage, InFlight, Linked
<1>3. CASE OnOdom
  BY <1>3, QuietDrive DEF OnOdom, InFlight, Linked
<1>4. CASE SendSnapshot
  <2>1. InFlight' \subseteq InFlight
    BY <1>4 DEF SendSnapshot, InFlight, Idle
  <2> QED
    BY <1>4, <2>1, QuietDrive DEF SendSnapshot, Linked
<1>5. CASE SendSkip
  <2>1. InFlight' \subseteq InFlight
    BY <1>5 DEF SendSkip, InFlight, Idle
  <2> QED
    BY <1>5, <2>1, QuietDrive DEF SendSkip, Linked
\* There is a goal when an observation is recorded.
<1>6. CASE SendRecord
  <2>1. ledger.goal # None /\ UNCHANGED <<phase, cache, tick, count, lateDrives>>
    BY <1>6 DEF SendRecord, MayRecord
  <2>2. ledger'.goal = ledger.goal /\ ledger'.generation = ledger.generation
    BY <1>6 DEF SendRecord, RecordSent, IInv, TypeOK, Ledger
  <2>3. Latest' = Latest
    BY <2>1 DEF Latest, Linked
  <2> QED
    BY <2>1, <2>2, <2>3 DEF LateDriveInv, OneLateDrive, PredictsOldGoal, ThisSession
<1>7. CASE SendPublish
  <2>1. CASE Linked
    <3>1. InFlight' \subseteq InFlight
      BY <1>7, <2>1 DEF SendPublish, InFlight, Idle
    <3> QED
      BY <1>7, <2>1, <3>1, QuietDrive DEF SendPublish, Linked
  <2>2. CASE ~Linked
    BY <1>7, <2>2, ProcessGoneDrive DEF SendPublish, Crash
  <2> QED
    BY <2>1, <2>2
<1>8. ASSUME NEW m \in embWire, ReplyTake(m)
      PROVE  LateDriveInv'
  <2>1. InFlight' \subseteq InFlight
    BY <1>8 DEF ReplyTake, InFlight, Idle
  <2>2. ledger'.goal = ledger.goal /\ ledger'.generation = ledger.generation
    BY <1>8 DEF ReplyTake, TakeReplyFrame, IInv, TypeOK, Ledger
  <2> QED
    BY <1>8, <2>1, <2>2, QuietDrive DEF ReplyTake, Linked
<1>9. CASE ReplyPut
  <2>1. CASE ~Linked
    BY <1>9, <2>1, ProcessGoneDrive DEF ReplyPut, Crash
  <2>2. CASE Linked
    <3>1. InFlight' \subseteq InFlight
      BY <1>9, <2>2 DEF ReplyPut, InFlight, Idle
    <3>2. /\ cache' = Put(cache, io.emb) /\ cache \in Cache
          /\ UNCHANGED <<phase, ledger, tick, count, lateDrives>>
      BY <1>9, <2>2 DEF ReplyPut, IInv, TypeOK
    <3>3. CASE cache' = cache
      BY <3>1, <3>2, <3>3, QuietDrive DEF Linked
    <3>4. CASE cache' # cache
      <4>1. Latest' = io.emb
        BY <2>2, <3>2, <3>4 DEF Put, Cache, Latest, Linked
      <4>2. io.emb.obs \in InFlight
        BY <1>9 DEF ReplyPut, InFlight
      <4>3. io.emb.obs.session <= count.session
        BY <4>2 DEF IInv, SessionsBounded
      <4> QED
        BY <3>1, <3>2, <4>1, <4>2, <4>3
        DEF LateDriveInv, OneLateDrive, PredictsOldGoal, ThisSession
    <3> QED
      BY <3>3, <3>4
  <2> QED
    BY <2>1, <2>2
<1> QED
  BY <1>1, <1>2, <1>3, <1>4, <1>5, <1>6, <1>7, <1>8, <1>9 DEF IoStep

\* What the tick fetches is of the current goal, unless a cleanup has overtaken
\* it; and what it publishes is counted only if it is of a replaced one.
LEMMA TickDrive ==
    ASSUME IInv, LateDriveInv, TickStep, UNCHANGED <<remote, remoteUp>>
    PROVE  LateDriveInv'
<1>1. CASE Crash
  BY <1>1, ProcessGoneDrive DEF Crash
<1>2. CASE TickStatus
  <2>1. /\ UNCHANGED <<phase, ledger, cache, io, obsWire, embWire, lateDrives, count>>
        /\ phase = "active"
        /\ tick'.pc \in {"idle", "checked"}
    BY <1>2 DEF TickStatus, PublishStop, Idle
  <2>2. InFlight' = InFlight /\ Latest' = Latest
    BY <2>1 DEF InFlight, Latest, Linked
  <2> QED
    BY <2>1, <2>2 DEF LateDriveInv, OneLateDrive, PredictsOldGoal, ThisSession
<1>3. CASE TickFetch /\ ~Crash
  <2>1. /\ UNCHANGED <<phase, ledger, cache, io, obsWire, embWire, lateDrives, count>>
        /\ tick.pc = "checked" /\ Linked
        /\ \/ tick'.pc = "idle"
           \/ /\ tick'.pc = "predicting" /\ Latest # None
              /\ tick'.emb = Latest
    BY <1>3 DEF TickFetch, PublishStop, Idle, Latest
  <2>2. InFlight' = InFlight /\ Latest' = Latest
    BY <2>1 DEF InFlight, Latest, Linked
  <2>3. PredictsOldGoal' => lateDrives' = 0
    <3> SUFFICES ASSUME PredictsOldGoal'
                 PROVE  lateDrives = 0
      BY <2>1
    <3>1. Latest # None /\ ThisSession(Latest.obs) /\ Latest.obs.gen # ledger.generation
      BY <2>1 DEF PredictsOldGoal, ThisSession
    <3>2. ledger.goal = None
      BY <3>1 DEF IInv, CachedForCurrentGoal
    <3>3. phase = "ledger_reset"
      BY <2>1, <3>1, <3>2 DEF LateDriveInv, Linked
    <3> QED
      BY <2>1, <3>3 DEF LateDriveInv
  <2> QED
    BY <2>1, <2>2, <2>3 DEF LateDriveInv, OneLateDrive, ThisSession
<1>4. CASE TickPublish /\ ~Crash
  <2>1. /\ UNCHANGED <<phase, ledger, cache, io, obsWire, embWire, count>>
        /\ tick.pc = "predicting" /\ tick'.pc = "idle"
        /\ lateDrives' \in {lateDrives, LateDrives(tick.emb.obs)}
    BY <1>4 DEF TickPublish, PublishStop, Idle
  <2>2. InFlight' = InFlight /\ Latest' = Latest
    BY <2>1 DEF InFlight, Latest, Linked
  <2>3. lateDrives' <= 1
    BY <2>1 DEF LateDriveInv, OneLateDrive, LateDrives, PredictsOldGoal, ThisSession
  <2> QED
    BY <2>1, <2>2, <2>3 DEF LateDriveInv, OneLateDrive, PredictsOldGoal, ThisSession
<1> QED
  BY <1>1, <1>2, <1>3, <1>4 DEF TickStep

\* A new session has sent nothing yet, and what is left of the one before is no
\* longer counted.
LEMMA LifecycleDrive ==
    ASSUME IInv, LateDriveInv, LifecycleStep \/ Kill \/ Boot \/ Tick,
           UNCHANGED <<remote, remoteUp>>
    PROVE  LateDriveInv'
<1>1. CASE Configure
  <2>1. /\ InFlight' = InFlight
        /\ UNCHANGED <<tick, lateDrives>> /\ phase' = "inactive" /\ Latest' = None
    BY <1>1 DEF Configure, InFlight, NewCache, Latest
  <2>2. count'.session = count.session + 1 /\ count.session \in Nat
    BY <1>1 DEF Configure, IInv, TypeOK
  <2>3. \A o \in InFlight : o.session \in Nat /\ o.session <= count.session
    BY InFlightTypes DEF IInv, SessionsBounded
  <2>4. tick.pc = "predicting" => /\ tick.emb.obs.session \in Nat
                                  /\ tick.emb.obs.session <= count.session
    BY DEF IInv, TypeOK, TickType, Idle, Embedding, Observation, LateDriveInv
  <2> QED
    BY <2>1, <2>2, <2>3, <2>4 DEF LateDriveInv, OneLateDrive, PredictsOldGoal, ThisSession
<1>2. CASE Activate
  <2>1. count'.session = count.session
    BY <1>2 DEF Activate, IInv, TypeOK
  <2> QED
    BY <1>2, <2>1, QuietDrive DEF Activate, InFlight, Linked
<1>3. CASE Deactivate
  BY <1>3, QuietDrive DEF Deactivate, InFlight, Linked
<1>4. CASE CleanupLedger
  <2>1. /\ lateDrives' = 0 /\ phase' = "ledger_reset" /\ phase = "inactive"
        /\ UNCHANGED <<tick, count, cache>>
    BY <1>4 DEF CleanupLedger
  <2>2. Latest' = Latest
    BY <2>1 DEF Latest, Linked
  <2> QED
    BY <2>1, <2>2 DEF LateDriveInv, OneLateDrive
<1>5. CASE CleanupLink
  BY <1>5, QuietDrive DEF CleanupLink, InFlight, Linked
<1>6. CASE CleanupRest
  BY <1>6, QuietDrive DEF CleanupRest, InFlight, Linked
<1>7. CASE Kill
  BY <1>7, ProcessGoneDrive DEF Kill
<1>8. CASE Boot
  <2>1. count'.session = count.session
    BY <1>8 DEF Boot, IInv, TypeOK
  <2> QED
    BY <1>8, <2>1, QuietDrive DEF Boot, InFlight, Linked
<1>9. CASE Tick
  <2>1. InFlight' = InFlight /\ UNCHANGED <<phase, ledger, tick, lateDrives, count>>
    BY <1>9 DEF Tick, InFlight
  <2>2. ASSUME Linked
        PROVE  \/ cache'.latest = cache.latest
               \/ cache.latest # None /\ cache'.latest.obs = cache.latest.obs
    <3>1. cache \in Cache /\ cache' = AgeCache(cache)
      BY <1>9, <2>2 DEF Tick, IInv, TypeOK
    <3>2. CASE cache' = cache
      BY <3>2
    <3>3. CASE cache' # cache
      <4>1. /\ cache.latest # None
            /\ cache' = [cache EXCEPT !.latest =
                            [cache.latest EXCEPT !.age = cache.latest.age + 1]]
        BY <3>1, <3>3 DEF AgeCache
      <4> QED
        BY <3>1, <4>1 DEF Cache, Embedding
    <3> QED
      BY <3>2, <3>3
  <2> QED
    BY <2>1, <2>2, QuietDrive DEF Linked
<1> QED
  BY <1>1, <1>2, <1>3, <1>4, <1>5, <1>6, <1>7, <1>8, <1>9 DEF LifecycleStep

LEMMA DriveInit == Init => LateDriveInv
<1> SUFFICES ASSUME Init
             PROVE  LateDriveInv
  OBVIOUS
<1>1. InFlight = {} /\ ~Linked /\ tick = Idle /\ lateDrives = 0
  BY DEF Init, EdgeInit, Remote!RemoteInit, InFlight, Linked, Idle
<1> QED
  BY <1>1 DEF LateDriveInv, OneLateDrive, PredictsOldGoal, Latest, Idle

LEMMA DriveStep == IInv /\ LateDriveInv /\ [Next]_vars => LateDriveInv'
<1> SUFFICES ASSUME IInv, LateDriveInv, [Next]_vars
             PROVE  LateDriveInv'
  OBVIOUS
<1>1. CASE EdgeStep /\ UNCHANGED <<remote, remoteUp>>
  BY <1>1, IoDrive, TickDrive, LifecycleDrive DEF EdgeStep
<1>2. CASE Remote!RemoteStep /\ UNCHANGED <<phase, ledger, cache, camera, odomAge, io, tick,
                                           path, lateDrives, count>>
  BY <1>2, RemoteMoves, QuietDrive DEF Linked
<1>3. CASE UNCHANGED vars
  BY <1>3, QuietDrive DEF vars, InFlight, Linked
<1> QED
  BY <1>1, <1>2, <1>3 DEF Next

\* However often the goal changes and the node is reconfigured or restarted,
\* after a change of the goal at most one path of an older one is published.
\* (_action_tick against _on_goal)
THEOREM AtMostOneLateDrive == Spec => []OneLateDrive
<1>1. Init => IInv /\ LateDriveInv
  BY InvariantInit, DriveInit
<1>2. (IInv /\ LateDriveInv) /\ [Next]_vars => (IInv /\ LateDriveInv)'
  BY InvariantStep, DriveStep
<1>3. LateDriveInv => OneLateDrive
  BY DEF LateDriveInv
<1> QED
  BY <1>1, <1>2, <1>3, PTL DEF Spec
================================================================================
