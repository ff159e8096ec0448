--------------------------- MODULE ActionPathBridge ---------------------------
(***************************************************************************)
(* The bridge between a phone or a browser that infers action chunks and   *)
(* the path topic of the robot.  The threads of the server decode chunks   *)
(* and queue the path; the node's timer publishes the queued path, or one  *)
(* empty path when chunks stop arriving.  The gRPC server has a pool of    *)
(* threads, the WebSocket server one.                                      *)
(*                                                                         *)
(* A thread reads the clock before it decodes, and the bridge's lock       *)
(* orders the threads only after that.  Clock readings are ages, saturated *)
(* past chunk_max_age_sec.                                                 *)
(***************************************************************************)
EXTENDS PathData

CONSTANTS Workers,      \* threads of the server
          ChunkMaxAge,  \* chunk_max_age_sec
          MaxDecode     \* assumed: the longest a thread takes for a chunk

ASSUME BridgeAssumption ==
    /\ ChunkMaxAge \in Nat
    /\ MaxDecode \in Nat

VARIABLES worker,    \* the chunk each thread is decoding: its path, and the
                     \* time since the thread read the clock
          pending,   \* the path queued for the timer
          rxAge,     \* time since the reading of the last chunk accepted;
                     \* saturated before the first
          stopped,   \* nothing to follow, or the stop path is out
          topic,     \* the path published and not delivered yet
          topicAge,  \* how long it has been waiting
          heard,     \* history: age of the newest reading of an accepted chunk
          silence    \* history: time since a chunk was last accepted

bridgeVars == <<worker, pending, rxAge, stopped, topic, topicAge, heard, silence>>

Decoding == [path : Paths, age : 0 .. MaxDecode]

BridgeInit(never) ==
    /\ worker = [w \in Workers |-> None]
    /\ pending = None
    /\ rxAge = ChunkMaxAge + 1
    /\ stopped = TRUE
    /\ topic = None
    /\ topicAge = 0
    /\ heard = ChunkMaxAge + 1
    /\ silence = never

\* A chunk reaches a thread, which reads the clock.
ChunkArrives(w, p) ==
    /\ worker[w] = None
    /\ worker' = [worker EXCEPT ![w] = [path |-> p, age |-> 0]]
    /\ UNCHANGED <<pending, rxAge, stopped, topic, topicAge, heard, silence>>

\* receive: the path replaces the queued one, the reading the last one.
Accept(w) ==
    /\ worker[w] # None
    /\ worker' = [worker EXCEPT ![w] = None]
    /\ pending' = worker[w].path
    /\ rxAge' = IF worker[w].age > ChunkMaxAge THEN ChunkMaxAge + 1 ELSE worker[w].age
    /\ stopped' = FALSE
    /\ heard' = IF worker[w].age < heard THEN worker[w].age ELSE heard
    /\ silence' = 0
    /\ UNCHANGED <<topic, topicAge>>

\* A malformed chunk is answered with an error and changes nothing.
Reject(w) ==
    /\ worker[w] # None
    /\ worker' = [worker EXCEPT ![w] = None]
    /\ UNCHANGED <<pending, rxAge, stopped, topic, topicAge, heard, silence>>
------------------------------------------------------------------------------
(* The timer.  The publisher keeps one message: an undelivered path is      *)
(* replaced.                                                                *)

Publish(p) ==
    /\ topic' = p
    /\ topicAge' = 0

\* Mutant: off by one.
TimedOutAtAge == ~stopped /\ rxAge >= ChunkMaxAge

TimedOut == ~stopped /\ rxAge > ChunkMaxAge

\* Mutants: the stop path is not published; the queued path survives it.
TickTimeoutSilent ==
    /\ TimedOut
    /\ stopped' = TRUE
    /\ pending' = None
    /\ UNCHANGED <<worker, rxAge, topic, topicAge, heard, silence>>

TickTimeoutKeepsPending ==
    /\ TimedOut
    /\ stopped' = TRUE
    /\ Publish(Empty)
    /\ UNCHANGED <<worker, pending, rxAge, heard, silence>>

TickTimeout ==
    /\ TimedOut
    /\ stopped' = TRUE
    /\ pending' = None
    /\ Publish(Empty)
    /\ UNCHANGED <<worker, rxAge, heard, silence>>

TickForward ==
    /\ ~TimedOut
    /\ pending # None
    /\ pending' = None
    /\ Publish(pending)
    /\ UNCHANGED <<worker, rxAge, stopped, heard, silence>>

TickQuiet ==
    /\ ~TimedOut
    /\ pending = None
    /\ UNCHANGED bridgeVars

BridgeTick == TickTimeout \/ TickForward \/ TickQuiet

\* One unit of time passes; no chunk is decoded for longer than MaxDecode.
BridgeTime(never) ==
    /\ \A w \in Workers : worker[w] # None => worker[w].age < MaxDecode
    /\ worker' = [w \in Workers |->
                    IF worker[w] = None THEN None
                    ELSE [path |-> worker[w].path, age |-> worker[w].age + 1]]
    /\ rxAge' = IF rxAge > ChunkMaxAge THEN rxAge ELSE rxAge + 1
    /\ heard' = IF heard > ChunkMaxAge THEN heard ELSE heard + 1
    /\ topicAge' = IF topic = None THEN topicAge ELSE topicAge + 1
    /\ silence' = IF silence >= never THEN silence ELSE silence + 1
    /\ UNCHANGED <<pending, stopped, topic>>
===============================================================================
