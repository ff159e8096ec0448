------------------------------ MODULE R2REpisode -------------------------------
(***************************************************************************)
(* A child process of the R2R batch: it marks its result file "started",   *)
(* boots the simulator, asks the policy for one action per observation,    *)
(* writes "completed" or "error", and closes the simulator.  Kit may end   *)
(* the process at any point.  Result files are replaced atomically.        *)
(***************************************************************************)
EXTENDS R2RPolicy

Splits == {0, 1}   \* the split file before and after an edit

VARIABLES children,   \* the processes
          rows,       \* the result file of each episode, or None
          split       \* the edition of the split file on disk

episodeVars == <<policyVars, children, rows, split>>

Child == [episode : Episodes, run : Nat, frame : 0 .. MaxSteps,
          pc : {"preflight", "kit", "resetting", "acting", "closing", "gone"},
          wrote : {"nothing", "started", "completed", "error"},
          failed : BOOLEAN, split : Splits]

\* Of a result that is not complete only the status is ever read.
Row == [status : {"started", "error"}] \cup
       [status : {"completed"}, split : Splits, policy : Policies,
        own : BOOLEAN,              \* the memory held this child's observations only
        intruders : {None} \cup 0 .. 2]

ASSUME EpisodeAssumption == None \notin Splits \cup Child \cup Row

EpisodeType ==
    /\ PolicyType
    /\ children \in [Children -> {None} \cup Child]
    /\ rows \in [Episodes -> {None} \cup Row]
    /\ split \in Splits

EpisodeInit ==
    /\ PolicyInit
    /\ children = [c \in Children |-> None]
    /\ rows = [e \in Episodes |-> None]
    /\ split = 0

Alive(c) == children[c] # None /\ children[c].pc # "gone"
At(c, pc) == children[c] # None /\ children[c].pc = pc

WriteRow(c, row) == rows' = [rows EXCEPT ![children[c].episode] = row]

\* The process is over, whatever it was waiting for.
Leave(c, failed) ==
    /\ children' = [children EXCEPT ![c].pc = "gone", ![c].failed = failed,
                                    ![c].frame = 0, ![c].split = 0]
    /\ inbox' = [inbox EXCEPT ![c] = None]
    /\ disturbed' = [disturbed EXCEPT ![c] = None]

---------------------------------------------------------------------------
\* run: the split is hashed and the result marked "started" before Kit boots.
MarkStarted(c) ==
    /\ At(c, "preflight")
    /\ children' = [children EXCEPT ![c].pc = "kit", ![c].wrote = "started",
                                    ![c].split = split]
    /\ WriteRow(c, [status |-> "started"])
    /\ UNCHANGED <<policyVars, split>>

\* The child asks, and waits for the answer.
Ask(c, kind, frame, pc) ==
    /\ Cardinality(requests) < MaxInFlight
    /\ requests' = requests \cup {[kind |-> kind, episode |-> children[c].episode,
                                   frame |-> frame, by |-> c]}
    /\ inbox' = [inbox EXCEPT ![c] = Waiting]
    /\ children' = [children EXCEPT ![c].pc = pc, ![c].frame = frame]
    /\ UNCHANGED <<session, disturbed, rows, split>>

\* run_episode resets the policy before the simulator.
AskReset(c) == At(c, "kit") /\ Ask(c, "reset", 0, "resetting")

\* R2RHttpPolicy.reset: the server has to attest the planned identity.
AttestedByAnyone(c) == inbox[c] # None /\ inbox[c].kind = "ack"
Attested(c) == inbox[c] = [kind |-> "ack", policy |-> PlannedPolicy]

\* run_episode asks about the first observation,
FirstFrame(c) == At(c, "resetting") /\ Attested(c) /\ Ask(c, "act", 0, "acting")

Answered(c) == inbox[c] # None /\ inbox[c].kind = "action"
Final(c) == inbox[c].action = "stop" \/ children[c].frame + 1 = MaxSteps

\* and applies every action but a stop before it asks about the next one.
NextFrame(c) == /\ At(c, "acting") /\ Answered(c) /\ ~Final(c)
                /\ Ask(c, "act", children[c].frame + 1, "acting")

\* A stop, or the last frame: the trace is scored and written.
Complete(c) ==
    /\ At(c, "acting") /\ Answered(c) /\ Final(c)
    /\ WriteRow(c, [status |-> "completed", split |-> children[c].split,
                    policy |-> inbox[c].policy, own |-> inbox[c].authors = {c},
                    intruders |-> disturbed[c]])
    /\ inbox' = [inbox EXCEPT ![c] = None]
    /\ disturbed' = [disturbed EXCEPT ![c] = None]
    /\ children' = [children EXCEPT ![c].pc = "closing", ![c].wrote = "completed"]
    /\ UNCHANGED <<session, requests, split>>

\* The error is written and raised.
Raise(c) ==
    /\ WriteRow(c, [status |-> "error"])
    /\ inbox' = [inbox EXCEPT ![c] = None]
    /\ children' = [children EXCEPT ![c].pc = "closing", ![c].wrote = "error",
                                    ![c].failed = TRUE]
    /\ disturbed' = [disturbed EXCEPT ![c] = None]
    /\ UNCHANGED <<session, requests, split>>

\* Kit does not boot, or the scene has the wrong axes, units or colliders.
BootFails(c) == At(c, "kit") /\ Raise(c)

\* The camera gives no RGB and depth frame within 240 steps and 5 s.
RenderFails(c) ==
    /\ \/ At(c, "resetting") /\ Attested(c)
       \/ At(c, "acting") /\ Answered(c) /\ ~Final(c)
    /\ Raise(c)

\* A refusal, another identity, or 15 s without an answer: the request may still be
\* executed, or has been and only the answer is lost.
AskFails(c) == /\ At(c, "resetting") \/ At(c, "acting")
               /\ Raise(c)

\* The simulator is closed and the process exits.
Exit(c) ==
    /\ At(c, "closing")
    /\ Leave(c, children[c].failed)
    /\ UNCHANGED <<session, requests, rows, split>>

\* Kit ends the process natively, with any exit code.
NativeExit(c) ==
    /\ Alive(c)
    /\ \E failed \in BOOLEAN : Leave(c, failed)
    /\ UNCHANGED <<session, requests, rows, split>>

ChildProgress(c) == \/ MarkStarted(c) \/ AskReset(c) \/ FirstFrame(c) \/ NextFrame(c)
                    \/ Complete(c) \/ BootFails(c) \/ RenderFails(c) \/ AskFails(c)
                    \/ Exit(c)
================================================================================
