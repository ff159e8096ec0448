------------------------------- MODULE LiveMatrix -------------------------------
(***************************************************************************)
(* The live benchmark over several policies: run_live_matrix submits the   *)
(* Slurm job of one policy after the other, waits for its server, runs the *)
(* episodes in the simulator's container and cancels the job.  An episode  *)
(* begins with a reset of the server; what it does afterwards is module    *)
(* LiveEpisode's subject, here it is a client that sends observations.     *)
(***************************************************************************)
EXTENDS LiveServer, FiniteSets

CONSTANTS MaxEpisodes,   \* bound: episodes started
          MaxFaults,     \* bound: kinds of faults in one behaviour
          Bridge,        \* the client live_bridge, started by hand
          Plans          \* the policies, the episodes of each, and bounds: how often the
                         \* matrix is started, and the observations of a client

ASSUME MatrixAssumption ==
    /\ MaxEpisodes \in Nat
    /\ Clients = (1 .. MaxEpisodes) \cup {Bridge}
    /\ Bridge \notin 1 .. MaxEpisodes
    /\ \A p \in Plans : /\ p.models \in Seq(Kinds) /\ p.models # <<>>
                        /\ {p.episodes, p.runs, p.frames} \subseteq Nat \ {0}
                        /\ Len(p.models) * p.episodes * p.runs <= MaxEpisodes

Runners == 1 .. MaxEpisodes    \* the processes of live_episode, in order of their start

VARIABLES plan,      \* what the matrix is to run
          matrix,    \* the state of run_live_matrix
          client,    \* per client how far it is
          faults,    \* the kinds of faults that have happened
          cancelled  \* jobs for which scancel was called

vars == <<serverVars, plan, matrix, client, faults, cancelled>>

Faults == {"leak", "ended", "scancel", "stop"}
Fault(kind) ==
    /\ kind \notin faults
    /\ Cardinality(faults) < MaxFaults
    /\ faults' = faults \cup {kind}

\* Every variable has its type; the matrix stays within its plan.
MatrixType ==
    /\ ServerType
    /\ plan \in Plans
    /\ matrix \in [pc : {"submit", "wait", "sim", "start", "episode", "cancel", "stop",
                         "done", "failed"},
                   model : 1 .. Len(plan.models), episode : 1 .. plan.episodes,
                   job : Jobs \cup {None}, runner : 0 .. MaxEpisodes,
                   failing : BOOLEAN, runs : 1 .. plan.runs]
    /\ client \in [Clients -> [pc : {"off", "start", "reset", "run", "over", "died"},
                               job : Jobs \cup {None},
                               text : {"", "left", "right"}, sent : 0 .. plan.frames,
                               version : Kinds \cup {None}]]
    /\ faults \subseteq Faults
    /\ cancelled \subseteq Jobs

Idle == [pc |-> "off", job |-> None, text |-> "", sent |-> 0, version |-> None]

Init ==
    /\ ServerInit
    /\ plan \in Plans
    /\ matrix = [pc |-> "submit", model |-> 1, episode |-> 1, job |-> None, runner |-> 0,
                 failing |-> FALSE, runs |-> 1]
    /\ client = [c \in Clients |-> Idle]
    /\ faults = {}
    /\ cancelled = {}

InContainer == {c \in Clients : client[c].pc \in {"start", "reset", "run"}}
Text(episode) == IF episode % 2 = 1 THEN "left" ELSE "right"
------------------------------------------------------------------------------
(* run_live_matrix.                                                          *)

Go(pc) == matrix' = [matrix EXCEPT !.pc = pc]

\* An exception of the try block: its finally runs, and the matrix ends.
Raise == matrix' = [matrix EXCEPT !.pc = "cancel", !.failing = TRUE]

\* The job is there, but its number is not known: the answer of sbatch is lost
\* or is no number, outside of the try block.
Submit ==
    /\ matrix.pc = "submit"
    /\ \/ \E j \in Jobs :
             /\ SubmitJob(j, plan.models[matrix.model])
             /\ \/ /\ matrix' = [matrix EXCEPT !.pc = "wait", !.job = j, !.episode = 1]
                   /\ UNCHANGED faults
                \/ Fault("leak") /\ Go("failed")
             /\ UNCHANGED <<server, queue, replies>>
       \/ Go("failed") /\ UNCHANGED <<serverVars, faults>>
    /\ UNCHANGED <<plan, client, cancelled>>

\* wait_server: until the server names this job, or for 300 s.
WaitServer ==
    /\ matrix.pc = "wait"
    /\ (Health(matrix.job) /\ Go("sim")) \/ Raise
    /\ UNCHANGED <<serverVars, plan, client, faults, cancelled>>

\* The container is stopped, with every process in it.
Kill ==
    /\ client' = [c \in Clients |->
                     IF c \in InContainer THEN [client[c] EXCEPT !.pc = "died"] ELSE client[c]]
    /\ Forget(InContainer)
    /\ UNCHANGED <<jobs, server>>

\* docker stop's failure is not looked at.
DockerStop ==
    \/ Kill /\ UNCHANGED faults
    \/ Fault("stop") /\ UNCHANGED <<serverVars, client>>

\* start_sim
StartSim ==
    /\ matrix.pc = "sim"
    /\ DockerStop
    /\ Go("start") \/ Raise
    /\ UNCHANGED <<plan, cancelled>>

\* run_episode: docker exec of live_episode.
StartEpisode ==
    /\ matrix.pc = "start"
    /\ matrix' = [matrix EXCEPT !.pc = "episode", !.runner = @ + 1]
    /\ client' = [client EXCEPT ![matrix.runner + 1] =
                     [Idle EXCEPT !.pc = "start", !.job = matrix.job,
                                  !.text = Text(matrix.episode)]]
    /\ UNCHANGED <<serverVars, plan, faults, cancelled>>

\* Mutant: one episode too many.
NextEpisodeOffByOne ==
    matrix' = IF matrix.episode <= plan.episodes
              THEN [matrix EXCEPT !.pc = "sim", !.episode = @ + 1]
              ELSE [matrix EXCEPT !.pc = "cancel"]

NextEpisode ==
    matrix' = IF matrix.episode < plan.episodes
              THEN [matrix EXCEPT !.pc = "sim", !.episode = @ + 1]
              ELSE [matrix EXCEPT !.pc = "cancel"]

\* Mutants: an exception skips the finally; the call has no time limit.
AwaitEpisodeAborts ==
    /\ matrix.pc = "episode"
    /\ (client[matrix.runner].pc = "over" /\ NextEpisode) \/ Go("failed")
    /\ UNCHANGED <<serverVars, plan, client, faults, cancelled>>
AwaitEpisodeForever ==
    /\ matrix.pc = "episode"
    /\ \/ client[matrix.runner].pc = "over" /\ (NextEpisode \/ Raise)
       \/ client[matrix.runner].pc = "died" /\ Raise
    /\ UNCHANGED <<serverVars, plan, client, faults, cancelled>>

\* The process has ended and its files are copied, or it has failed; after
\* 150 s it is left alone in its container.
AwaitEpisode ==
    /\ matrix.pc = "episode"
    /\ (client[matrix.runner].pc = "over" /\ NextEpisode) \/ Raise
    /\ UNCHANGED <<serverVars, plan, client, faults, cancelled>>

\* Slurm ends the job some time after scancel.
Cancel ==
    /\ matrix.pc = "cancel"
    /\ \/ /\ cancelled' = cancelled \cup {matrix.job}
          /\ Go("stop")
          /\ UNCHANGED faults
       \/ /\ Fault("scancel")
          /\ matrix' = [matrix EXCEPT !.pc = "stop", !.failing = TRUE]
          /\ UNCHANGED cancelled
    /\ UNCHANGED <<serverVars, plan, client>>

\* After an exception, or one of its own, the matrix is over.
StopContainer ==
    /\ matrix.pc = "stop"
    /\ DockerStop
    /\ \/ Go("failed")
       \/ /\ ~matrix.failing
          /\ matrix' = IF matrix.model = Len(plan.models) THEN [matrix EXCEPT !.pc = "done"]
                       ELSE [matrix EXCEPT !.pc = "submit", !.model = @ + 1]
    /\ UNCHANGED <<plan, cancelled>>

MatrixStep ==
    \/ Submit \/ WaitServer \/ StartSim \/ StartEpisode
    \/ AwaitEpisode \/ Cancel \/ StopContainer

\* The operator starts the matrix again.
Rerun ==
    /\ matrix.pc = "failed"
    /\ matrix.runs < plan.runs
    /\ matrix' = [matrix EXCEPT !.pc = "submit", !.model = 1, !.job = None,
                                !.failing = FALSE, !.runs = @ + 1]
    /\ UNCHANGED <<serverVars, plan, cancelled, client, faults>>
------------------------------------------------------------------------------
(* The clients in the container.                                             *)

Leave(c, pc) == client' = [client EXCEPT ![c] = [Idle EXCEPT !.pc = pc, !.job = client[c].job]]

Frame(c, text) == [by |-> c, number |-> client[c].sent, text |-> text]
InferRequest(c, text, posed) ==
    [kind |-> "infer", by |-> c, frame |-> Frame(c, text), posed |-> posed, awaited |-> TRUE]

SendReset(c) ==
    /\ client[c].pc = "start"
    /\ Send([kind |-> "reset", by |-> c, frame |-> None, posed |-> FALSE, awaited |-> TRUE])
    /\ client' = [client EXCEPT ![c].pc = "reset"]

\* live_episode's run: without the answer to its reset it ends.
AwaitReset(c) ==
    /\ client[c].pc = "reset"
    /\ IF replies[c] = Ack THEN client' = [client EXCEPT ![c].pc = "run"] ELSE Leave(c, "died")
    /\ Forget({c})
    /\ UNCHANGED <<jobs, server>>

\* Episode._observation, with the pose it has waited for at the start.
SendObservation(c) ==
    /\ c # Bridge
    /\ client[c].pc = "run"
    /\ replies[c] = None
    /\ client[c].sent < plan.frames
    /\ Send(InferRequest(c, client[c].text, TRUE))
    /\ client' = [client EXCEPT ![c].sent = @ + 1]

\* Bridge.on_observation: the text is the edge's goal of the moment.
SendBridged ==
    /\ client[Bridge].pc = "run"
    /\ replies[Bridge] = None
    /\ client[Bridge].sent < 1
    /\ \E text \in {"", "left"} : Send(InferRequest(Bridge, text, FALSE))
    /\ client' = [client EXCEPT ![Bridge].sent = @ + 1]

IsAnswer(c) == replies[c] # None /\ replies[c].kind = "answer"

\* Another version of the model than before in the episode is an error.
Accepted(c) ==
    IsAnswer(c) /\ (c = Bridge \/ client[c].version \in {None, replies[c].version})

\* An answer is published, or else an error is noted; 8 s, or 4 s for the
\* bridge, without one are an error too.
TakeReply(c) ==
    /\ client[c].pc = "run"
    /\ replies[c] # None
    /\ client' = IF Accepted(c) THEN [client EXCEPT ![c].version = replies[c].version] ELSE client
    /\ Forget({c})
    /\ UNCHANGED <<jobs, server>>

\* The episode is over, or raises.
FinishClient(c) ==
    /\ client[c].pc = "run"
    /\ replies[c] = None
    /\ \E pc \in {"over", "died"} : Leave(c, pc)
    /\ UNCHANGED serverVars

StartBridge ==
    /\ client[Bridge].pc = "off"
    /\ client' = [client EXCEPT ![Bridge].pc = "run"]
    /\ UNCHANGED serverVars

ClientStep ==
    /\ \/ \E c \in Clients : \/ SendReset(c) \/ AwaitReset(c) \/ SendObservation(c)
                             \/ TakeReply(c) \/ FinishClient(c)
       \/ SendBridged \/ StartBridge
    /\ UNCHANGED <<plan, matrix, cancelled, faults>>
------------------------------------------------------------------------------
(* The servers.                                                              *)

\* A job that nobody has cancelled ends: its walltime, its node, an exception.
JobEnds(j) ==
    /\ EndJob(j)
    /\ IF j \in cancelled THEN UNCHANGED faults ELSE Fault("ended")

ServerStep ==
    /\ \/ /\ \/ \E j \in Jobs : (j \notin cancelled /\ Launch(j)) \/ Bind(j)
             \/ ServeNext
          /\ UNCHANGED faults
       \/ \E j \in Jobs : JobEnds(j)
    /\ UNCHANGED <<plan, matrix, cancelled, client>>

Next == MatrixStep \/ Rerun \/ ClientStep \/ ServerStep

Spec == Init /\ [][Next]_vars

\* Every step of the matrix is a command with a time limit.
FairSpec == Spec /\ WF_vars(MatrixStep)
------------------------------------------------------------------------------
(* Properties.                                                               *)

\* What an answer that is about to be published was computed from.
Shown(c) == {replies[c].context[i] : i \in DOMAIN replies[c].context} \ {None}
Felt(c) == {replies[c].motion[i] : i \in DOMAIN replies[c].motion}

\* The episode the matrix is waiting for is about to publish an answer.
Publishes(c) == matrix.pc = "episode" /\ c = matrix.runner /\ client[c].pc = "run" /\ Accepted(c)

\* An episode publishes answers of the job its matrix has waited for; another
\* server, of a job left behind or not gone yet, can only get in when that job
\* has ended by itself.
\* (wait_server's job number, Episode._observation's version check)
OwnServer ==
    \A c \in Runners :
        Publishes(c) /\ replies[c].job # client[c].job
            => "ended" \in faults

\* What an episode publishes is computed from its own frames and poses: what
\* earlier episodes left in the server's memory or in its queue is gone.  A
\* process that outlived its container, or the bridge, can mix in.
\* (do_POST /reset, live_episode's reset, docker stop)
OwnMemory ==
    \A c \in Runners :
        Publishes(c) => \/ \A f \in Shown(c) \cup Felt(c) : f.by = c
                        \/ "stop" \in faults
                        \/ client[Bridge].pc # "off"

\* NaVIDA and NaVILA are never shown a frame of another instruction than the
\* one they are asked about, whoever asks.  (infer's clear)
OneInstruction ==
    \A c \in Clients :
        IsAnswer(c) /\ replies[c].version \in {"navida", "navila"}
            => Cardinality({f.text : f \in Shown(c)}) = 1

\* The frames of one sender are shown in the order it took them; once there is a
\* past the current frame is shown last and only there, and NaVIDA and NaVILA are
\* shown no frame twice.
\* (_sample_history, sample_and_pad_images, _context_images, _stack_frames)
PastThenPresent ==
    \A c \in Clients : IsAnswer(c) /\ Cardinality(Shown(c)) > 1 =>
        LET shown == replies[c].context
            once == replies[c].version \in {"navida", "navila"}
        IN  /\ Last(shown) # None
            /\ \A i, k \in DOMAIN shown :
                  i < k /\ None \notin {shown[i], shown[k]} /\ shown[i].by = shown[k].by
                      => IF once \/ k = Len(shown) THEN shown[i].number < shown[k].number
                         ELSE shown[i].number <= shown[k].number

\* When the matrix is over and nothing has gone wrong outside of it, each of its
\* jobs has been cancelled and nothing of it is running in the container.
\* (main's finally)
NothingLeft ==
    matrix.pc \in {"done", "failed"} /\ faults = {}
        => Alive \subseteq cancelled /\ InContainer \cap Runners = {}

\* Together: what any sender is answered, and what a matrix leaves behind.
MatrixInv ==
    /\ MatrixType
    /\ OneInstruction
    /\ PastThenPresent
    /\ NothingLeft

\* A matrix comes to its end: no wait for a server or for an episode is for ever.
\* (wait_server, run_episode)
MatrixEnds == []<>(matrix.pc \in {"done", "failed"})
================================================================================
