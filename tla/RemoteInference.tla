--------------------------- MODULE RemoteInference ---------------------------
(***************************************************************************)
(* The remote inference node: one callback that decodes an observation,    *)
(* runs the backend on it and on the previous image, and publishes the     *)
(* embedding with the frame_id echoed.  Both topics are best effort.       *)
(***************************************************************************)
EXTENDS Integers, FiniteSets

CONSTANTS None, WireCapacity

VARIABLES obsWire, embWire,
          remote,    \* the observation being inferred, or None
          remoteUp   \* the process is alive

RemoteInit ==
    /\ remote = None
    /\ remoteUp = TRUE

\* Observations arrive in any order: the newest is not preferred here, which
\* allows more than the depth-1 queue of the subscription does.
OnObservation(m) ==
    /\ remoteUp
    /\ remote = None
    /\ m \in obsWire
    /\ obsWire' = obsWire \ {m}
    /\ remote' = m
    /\ UNCHANGED <<embWire, remoteUp>>

\* The embedding goes out, unless inference raised (logged, nothing sent) or
\* the message is lost.
Reply ==
    /\ remote # None
    /\ remote' = None
    /\ \/ /\ Cardinality(embWire) < WireCapacity
          /\ embWire' = embWire \cup {remote}
       \/ embWire' = embWire
    /\ UNCHANGED <<obsWire, remoteUp>>

\* The remote process dies; nothing restarts it.
RemoteDies ==
    /\ remoteUp
    /\ remoteUp' = FALSE
    /\ remote' = None
    /\ UNCHANGED <<obsWire, embWire>>

RemoteStep ==
    \/ \E m \in obsWire : OnObservation(m)
    \/ Reply
    \/ RemoteDies
==============================================================================
