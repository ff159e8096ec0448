------------------------------- MODULE LiveServer -------------------------------
(***************************************************************************)
(* The policy servers of the live benchmark, one per Slurm job.  They want *)
(* the same port, so at most one of them serves.  It has one thread: the   *)
(* requests wait in its queue, also those of clients that gave up.         *)
(***************************************************************************)
EXTENDS Backends

CONSTANTS Clients,   \* who may send requests
          MaxJobs,   \* bound: jobs submitted
          MaxQueue   \* bound: requests waiting

Jobs == 1 .. MaxJobs
Phases == {"free", "pending", "loading", "serving", "ended"}

\* What is told apart of a camera frame, and what a server has of the frames sent to it.
Frames == [by : Clients, number : Nat, text : {"", "left", "right"}]
Memories == [frames : Seq(Frames), text : {"", "left", "right"}, poses : Seq(Frames)]
Servers == [job : Jobs, usable : BOOLEAN, memory : Memories, previous : Frames \cup {None}]

ASSUME ServerAssumption ==
    /\ MaxJobs \in Nat \ {0} /\ MaxQueue \in Nat \ {0}
    /\ None \notin Clients \cup Frames \cup Servers

VARIABLES jobs,      \* per job its backend and how far it is
          server,    \* the job that has the port and what it remembers, or None
          queue,     \* its requests, oldest first
          replies    \* per client: None, Waiting, or the answer it has not read

serverVars == <<jobs, server, queue, replies>>

Waiting == [kind |-> "waiting"]
Ack == [kind |-> "reset"]
Dropped == [kind |-> "dropped"]     \* the connection is closed, or refused
Rejected == [kind |-> "rejected"]   \* status 400

Alive == {j \in Jobs : jobs[j].phase \in {"pending", "loading", "serving"}}
Serving == server # None

ServerType ==
    /\ jobs \in [Jobs -> [backend : Kinds \cup {None}, phase : Phases]]
    /\ server \in Servers \cup {None}
    /\ Len(queue) <= MaxQueue
    /\ \A c \in Clients : replies[c] = None
                          \/ replies[c].kind \in {"waiting", "reset", "dropped", "rejected", "answer"}

ServerInit ==
    /\ jobs = [j \in Jobs |-> [backend |-> None, phase |-> "free"]]
    /\ server = None
    /\ queue = <<>>
    /\ replies = [c \in Clients |-> None]
------------------------------------------------------------------------------
(* Slurm.                                                                    *)

SubmitJob(j, backend) ==
    /\ jobs[j].phase = "free"
    /\ \A i \in 1 .. j - 1 : jobs[i].phase # "free"
    /\ jobs' = [jobs EXCEPT ![j] = [backend |-> backend, phase |-> "pending"]]

Launch(j) ==
    /\ jobs[j].phase = "pending"
    /\ jobs' = [jobs EXCEPT ![j].phase = "loading"]
    /\ UNCHANGED <<server, queue, replies>>

\* main: the backend is built before the port is bound, and a taken port is
\* the end of the process.
Bind(j) ==
    /\ jobs[j].phase = "loading"
    /\ IF Serving
       THEN /\ jobs' = [jobs EXCEPT ![j].phase = "ended"]
            /\ UNCHANGED server
       ELSE /\ jobs' = [jobs EXCEPT ![j].phase = "serving"]
            /\ server' = [job |-> j, usable |-> TRUE, memory |-> NewMemory, previous |-> None]
    /\ UNCHANGED <<queue, replies>>

\* A server that ends breaks the connections of everyone who waits.
EndJob(j) ==
    /\ j \in Alive
    /\ jobs' = [jobs EXCEPT ![j].phase = "ended"]
    /\ IF Serving /\ server.job = j
       THEN /\ server' = None
            /\ queue' = <<>>
            /\ replies' = [c \in Clients |-> IF replies[c] = Waiting THEN Dropped ELSE replies[c]]
       ELSE UNCHANGED <<server, queue, replies>>
------------------------------------------------------------------------------
(* HTTP.                                                                     *)

Send(request) ==
    /\ IF Serving
       THEN /\ Len(queue) < MaxQueue
            /\ queue' = Append(queue, request)
            /\ replies' = [replies EXCEPT ![request.by] = Waiting]
       ELSE /\ replies' = [replies EXCEPT ![request.by] = Dropped]
            /\ UNCHANGED queue
    /\ UNCHANGED <<jobs, server>>

\* The client's timeout, or its end: its request stays in the queue.
Forget(clients) ==
    /\ replies' = [c \in Clients |-> IF c \in clients THEN None ELSE replies[c]]
    /\ queue' = [i \in DOMAIN queue |->
                    IF queue[i].by \in clients THEN [queue[i] EXCEPT !.awaited = FALSE] ELSE queue[i]]

\* Mutant: any server that answers will do.
HealthAny(job) == Serving /\ queue = <<>>

\* do_GET: the job that has the port says which one it is.
Health(job) == Serving /\ queue = <<>> /\ server.job = job

Answer(r, answer) ==
    /\ queue' = Tail(queue)
    /\ replies' = IF r.awaited THEN [replies EXCEPT ![r.by] = answer] ELSE replies

\* Mutant: the backend is kept instead of being built again.
ResetKeepsBackend(r) ==
    /\ r.kind = "reset"
    /\ server' = [server EXCEPT !.previous = None]
    /\ Answer(r, Ack)
    /\ UNCHANGED jobs

\* do_POST /reset: the backend is deleted and built again; when the building
\* fails there is none any more, and deleting what is not there fails as well.
ServeReset(r) ==
    /\ r.kind = "reset"
    /\ \/ /\ server.usable
          /\ server' = [server EXCEPT !.memory = NewMemory, !.previous = None]
          /\ Answer(r, Ack)
       \/ /\ server' = [server EXCEPT !.usable = FALSE, !.memory = NewMemory, !.previous = None]
          /\ Answer(r, Dropped)
    /\ UNCHANGED jobs

Backend == jobs[server.job].backend

\* What the handler catches: a request without what the backend needs.
Incomplete(r) == Backend = "movla" /\ ~r.posed

\* do_POST /infer: the frame becomes the previous one before the output is
\* checked; an exception of the model that nobody catches drops the connection.
ServeInfer(r) ==
    /\ r.kind = "infer"
    /\ LET done == Infer(Backend, server.memory, server.previous, r.frame)
           answer == [kind |-> "answer", job |-> server.job, version |-> Backend,
                      context |-> done.context,
                      motion |-> Motion(Backend, done.memory)]
       IN  IF ~server.usable THEN Answer(r, Dropped) /\ UNCHANGED server
           ELSE IF Incomplete(r) \/ Rejects(Backend, r.frame)
           THEN Answer(r, Rejected) /\ UNCHANGED server
           ELSE \/ /\ server' = [server EXCEPT !.memory = done.memory, !.previous = r.frame]
                   /\ \E a \in {answer, Rejected} : Answer(r, a)
                \/ /\ \E m \in {done.memory, done.failed} : server' = [server EXCEPT !.memory = m]
                   /\ \E a \in {Rejected, Dropped} : Answer(r, a)
    /\ UNCHANGED jobs

ServeNext ==
    /\ Serving
    /\ queue # <<>>
    /\ ServeReset(Head(queue)) \/ ServeInfer(Head(queue))
================================================================================
