----------------------------- MODULE CameraCapture -----------------------------
(***************************************************************************)
(* The edge node's own camera capture: a device, a stop event and a thread *)
(* that reads the device into the one-frame store.  Stopping joins the     *)
(* thread for two seconds and then forgets it; a read can block longer.    *)
(***************************************************************************)
EXTENDS Integers

CONSTANTS None,
          Threads,      \* capture threads that may exist at a time
          ImageMaxAge   \* image_max_age_sec

ASSUME CaptureAssumption ==
    /\ None \notin Threads
    /\ None \notin Int
    /\ ImageMaxAge \in Nat

VARIABLES cap,       \* the device is open
          stopping,  \* the stop event
          handle,    \* the thread the object knows of
          loop,      \* where each capture thread is
          frame,     \* the frame in the store: its age, saturated
          revived    \* history: a start has cleared the event under a thread

captureVars == <<cap, stopping, handle, loop, frame, revived>>

Alive == {t \in Threads : loop[t] # "done"}

CaptureType ==
    /\ cap \in BOOLEAN
    /\ stopping \in BOOLEAN
    /\ handle \in Threads \cup {None}
    /\ loop \in [Threads -> {"done", "check", "read", "put"}]
    /\ frame \in 0 .. ImageMaxAge + 1 \cup {None}
    /\ revived \in BOOLEAN

CaptureInit ==
    /\ cap = FALSE
    /\ stopping = FALSE
    /\ handle = None
    /\ loop = [t \in Threads |-> "done"]
    /\ frame = None
    /\ revived = FALSE
------------------------------------------------------------------------------
(* The methods, as the parts of the node's transitions.                      *)

OpenDevice(opens) ==
    /\ cap' = (cap \/ opens)
    /\ UNCHANGED <<stopping, handle, loop, frame, revived>>

\* Without a device there is nothing to start.
Start ==
    \/ /\ ~cap
       /\ UNCHANGED captureVars
    \/ /\ cap
       /\ stopping' = FALSE
       /\ revived' = (revived \/ Alive # {})
       /\ \E t \in Threads \ Alive :
              /\ handle' = t
              /\ loop' = [loop EXCEPT ![t] = "check"]
       /\ UNCHANGED <<cap, frame>>

\* Mutant: the thread is joined without having been told to stop.
StopUnrequested == UNCHANGED captureVars

StopRequested ==
    /\ stopping' = (stopping \/ handle # None)
    /\ UNCHANGED <<cap, handle, loop, frame, revived>>

\* join returns: the thread has ended, or has been in the device's read for
\* two seconds.  Everything else it does takes far less.
Joined == handle # None => loop[handle] \in {"done", "read"}

\* The store is emptied once the thread has been joined.
ForgetThread ==
    /\ Joined
    /\ handle' = None
    /\ frame' = None
    /\ UNCHANGED <<cap, stopping, loop, revived>>

\* close: the node is inactive, so its thread has been forgotten already.
Close ==
    /\ cap' = FALSE
    /\ frame' = None
    /\ UNCHANGED <<stopping, handle, loop, revived>>
------------------------------------------------------------------------------
(* capture_loop.                                                             *)

LoopCheck(t) ==
    /\ loop[t] = "check"
    /\ loop' = [loop EXCEPT ![t] = IF stopping \/ ~cap THEN "done" ELSE "read"]
    /\ UNCHANGED <<cap, stopping, handle, frame, revived>>

\* Mutant: the event is not looked at after the read.
LoopReadNoRecheck(t) ==
    /\ loop[t] = "read"
    /\ loop' \in {[loop EXCEPT ![t] = next] : next \in {"put", "check"}}
    /\ UNCHANGED <<cap, stopping, handle, frame, revived>>

\* The read returns, with a frame or without: the event is looked at first.
LoopRead(t) ==
    /\ loop[t] = "read"
    /\ loop' \in {[loop EXCEPT ![t] = next] :
                     next \in IF stopping THEN {"done"} ELSE {"put", "check"}}
    /\ UNCHANGED <<cap, stopping, handle, frame, revived>>

LoopPut(t) ==
    /\ loop[t] = "put"
    /\ loop' = [loop EXCEPT ![t] = "check"]
    /\ frame' = 0
    /\ UNCHANGED <<cap, stopping, handle, revived>>

CaptureStep == \E t \in Threads : LoopCheck(t) \/ LoopRead(t) \/ LoopPut(t)
------------------------------------------------------------------------------
FreshFrame == frame # None /\ frame <= ImageMaxAge

AgeFrame == IF FreshFrame THEN frame + 1 ELSE frame
================================================================================
