---- MODULE EdgeClients ----
(***************************************************************************)
(* The operator's side of the mobile stack: the phone application, or the  *)
(* browser page that ports it.  One event loop runs the inference tick,    *)
(* the operator's goals and switches, the connections to the robot and,    *)
(* on the phone, the camera and the life cycle; whatever awaits may find   *)
(* the rest changed when it goes on.                                       *)
(*                                                                         *)
(* A generation is what the source counts to recognise work that was begun *)
(* for an earlier goal, connection or run.  A goal stands for its text and *)
(* its identifier.  The connection is external: the gRPC library listens   *)
(* to the stream of chunks only once the channel is up, and the future of  *)
(* closing a stream that nobody listens to never completes.                *)
(***************************************************************************)
EXTENDS CoalescingSender, PhoneEngine, FiniteSets

CONSTANTS MaxGeneration,    \* bound: generations of one behaviour
          MaxRequests,      \* bound: connects, disconnects and the farewell
          MaxStarts         \* bound: starts of the camera

ASSUME ClientsAssumption ==
    /\ MaxGeneration \in Nat /\ MaxRequests \in Nat /\ MaxStarts \in Nat

VARIABLES
    app,         \* "phone" or "browser"
    ui,          \* the page: its goal, its switches and its counters
    engine,      \* ring and cache of the features
    models,      \* whether they are loaded, and whether the text encoder is there
    tick,        \* the inference under way, or None
    senders,     \* every sender made, the last one is the current one
    links,       \* the connection behind each of them
    requests,    \* the asynchronous connects, disconnects and the farewell
    camera       \* of the phone

vars == <<app, ui, engine, models, tick, senders, links, requests, camera>>

-----------------------------------------------------------------------------
(* The connection. *)

\* channel: gRPC channel and stub, or the browser's socket or its timer; stream: of chunks.
NoLink == [channel |-> FALSE, stream |-> "none"]

\* connect() of the phone: the channel, and a stream that waits for it.
PhoneConnects(link) ==
    [channel |-> TRUE, stream |-> IF link.stream = "none" THEN "waiting" ELSE link.stream]

\* connect() and open() of the browser: a socket that is opening.
BrowserConnects(link) == [link EXCEPT !.channel = TRUE, !.stream = "waiting"]

Connects(link) == IF app = "phone" THEN PhoneConnects(link) ELSE BrowserConnects(link)

\* send() of the phone makes the stream it misses; the browser drops the chunk instead.
Sends(kind, link) == IF kind = "link" /\ app = "phone" THEN PhoneConnects(link) ELSE link

\* Mutant: the timer stays.
BrowserKeepsTimer(link) == [link EXCEPT !.stream = "none"]

\* close() of the browser: the timer and the socket go at once.
BrowserCloses(link) == [link EXCEPT !.channel = FALSE, !.stream = "none"]

Current == Len(senders)
Now == ui.generation

\* The step from s to t takes the chunk out of the slot and gives it to the connection.
HandsOver(s, t) ==
    t.phase = "sending" /\ t.pending = None /\ (s.phase = "sending" => s.pending # None)

\* A sender replaced by its next state; a chunk handed over reaches the link in the same step.
SenderBecomes(i, t) ==
    /\ senders' = [senders EXCEPT ![i] = t]
    /\ links' = [links EXCEPT ![i] =
                    IF HandsOver(senders[i], t) THEN Sends(t.kind, links[i]) ELSE links[i]]

-----------------------------------------------------------------------------
(* Loading the models. *)

\* Policy, text encoder and tokenizer are there, or their absence is known.
Loaded == ~models.ready /\ \E found \in BOOLEAN : models' = [ready |-> TRUE, text |-> found]

\* The phone starts its camera only now.
PhoneLoads ==
    /\ app = "phone" /\ Loaded
    /\ camera' = IF ui.mounted
                 THEN [camera EXCEPT !.starts = 1, !.crossed = ~camera.front] ELSE camera
    /\ UNCHANGED <<app, ui, engine, tick, senders, links, requests>>

\* The page has been ticking meanwhile.
PageLoads ==
    /\ app = "browser" /\ Loaded
    /\ UNCHANGED <<app, ui, engine, tick, senders, links, requests, camera>>

-----------------------------------------------------------------------------
(* The inference tick. *)

\* What a tick needs to begin, beside its clock.
MayTick == tick = None /\ ui.running /\ ui.goal # None /\ camera.frame /\ ui.mounted

\* inferChunk up to its first await: the frame is pushed, the history taken, the cache read.
BeginInference ==
    LET seen == Push(engine.ring, ui.goal)
        begun == [engine EXCEPT !.ring = seen]
        job == [goal |-> ui.goal, generation |-> Now,
                history |-> Stack(seen), at |-> "running", features |-> Zero]
    IN IF Cached(engine, ui.goal)
       THEN tick' = [job EXCEPT !.features = engine.cache.features] /\ engine' = begun
       ELSE IF models.text THEN tick' = [job EXCEPT !.at = "encoding"] /\ engine' = begun
       ELSE tick' = job /\ engine' = Remember(begun, ui.goal, Zero)

PhoneTick ==
    /\ app = "phone" /\ camera.loop /\ MayTick
    /\ BeginInference
    /\ UNCHANGED <<app, ui, models, senders, links, requests, camera>>

\* The page does not wait for its models.
BrowserTick ==
    /\ app = "browser" /\ MayTick
    /\ BeginInference
    /\ UNCHANGED <<app, ui, models, senders, links, requests, camera>>

\* The encoder answers; the cache is written for the goal of the tick, whatever the goal is now.
TextEncoded ==
    /\ tick # None /\ tick.at = "encoding"
    /\ tick' = [tick EXCEPT !.at = "running", !.features = tick.goal]
    /\ engine' = Remember(engine, tick.goal, tick.goal)
    /\ UNCHANGED <<app, ui, models, senders, links, requests, camera>>

\* What the tick still holds for when its chunk is there.
StillWanted == ui.mounted /\ tick.generation = Now /\ ui.running

\* The chunk, of the model or the dummy in its place, goes to the current sender.
Inferred ==
    /\ tick # None /\ tick.at = "running"
    /\ tick' = None
    /\ IF StillWanted
       THEN \E wait \in BOOLEAN :
              SenderBecomes(Current,
                  Submit(senders[Current], [goal |-> tick.goal, generation |-> tick.generation],
                         wait, Now))
       ELSE UNCHANGED <<senders, links>>
    /\ UNCHANGED <<app, ui, engine, models, requests, camera>>

\* The runtime throws: the error is shown, the next tick may begin.
InferenceFails ==
    /\ tick # None
    /\ tick' = None
    /\ UNCHANGED <<app, ui, engine, models, senders, links, requests, camera>>

-----------------------------------------------------------------------------
(* The drain loops. *)

Paced(i) ==
    /\ senders[i].phase = "pacing"
    /\ SenderBecomes(i, AfterDelay(senders[i], Now))
    /\ UNCHANGED <<app, ui, engine, models, tick, requests, camera>>

\* The send is over, answered or failed alike.
Sent(i) ==
    /\ senders[i].phase = "sending"
    /\ \E wait \in BOOLEAN :
         SenderBecomes(i, DrainLoop([senders[i] EXCEPT !.sending = None], wait, Now))
    /\ UNCHANGED <<app, ui, engine, models, tick, requests, camera>>

DrainOver(i) ==
    /\ senders[i].phase = "ended"
    /\ \E wait \in BOOLEAN : SenderBecomes(i, DrainCompletes(senders[i], wait, Now))
    /\ UNCHANGED <<app, ui, engine, models, tick, requests, camera>>

SenderStep(i) == i \in DOMAIN senders /\ (Paced(i) \/ Sent(i) \/ DrainOver(i))

-----------------------------------------------------------------------------
(* The operator. *)

Renewed == [ui EXCEPT !.generation = @ + 1]
CurrentCleared == [senders EXCEPT ![Current] = ClearPending(@)]

SetGoal(goal) ==
    /\ ui.mounted /\ Now < MaxGeneration
    /\ ui' = [Renewed EXCEPT !.goal = goal]
    /\ senders' = CurrentCleared
    /\ engine' = Reset(engine)
    /\ UNCHANGED <<app, models, tick, links, requests, camera>>

Toggle ==
    /\ ui.mounted
    /\ ui.running => Now < MaxGeneration
    /\ ui' = [(IF ui.running THEN Renewed ELSE ui) EXCEPT !.running = ~@]
    /\ senders' = IF ui.running THEN CurrentCleared ELSE senders
    /\ UNCHANGED <<app, engine, models, tick, links, requests, camera>>

\* connect and disconnect up to their first await: the sender there is begins to close.
Request(kind) ==
    /\ ui.mounted /\ Now < MaxGeneration /\ Len(requests) < MaxRequests
    /\ ui' = Renewed
    /\ senders' = [senders EXCEPT ![Current] = BeginClose(@)]
    /\ requests' = Append(requests, [kind |-> kind, of |-> Current, at |-> "draining"])
    /\ UNCHANGED <<app, engine, models, tick, links, camera>>

Connect == Request("connect")
Disconnect == Request("disconnect")

\* The page goes away: the sender closes as in a disconnect, nothing replaces it.
Leave ==
    /\ ui.mounted /\ Len(requests) < MaxRequests
    /\ ui' = [Renewed EXCEPT !.mounted = FALSE]
    /\ senders' = [senders EXCEPT ![Current] = BeginClose(@)]
    /\ requests' = Append(requests, [kind |-> "leave", of |-> Current, at |-> "draining"])
    /\ camera' = [camera EXCEPT !.held = FALSE, !.loop = FALSE]
    /\ UNCHANGED <<app, engine, models, tick, links>>

-----------------------------------------------------------------------------
(* The connects and disconnects under way. *)

\* Mutant: nobody looks whether a later request came.
AnyRequest(n) == TRUE

\* The connection counter still holds what this request saw.
Newest(n) == n = Len(requests)
At(n, place) == requests' = [requests EXCEPT ![n].at = place]

\* The loop is over: the client closes.  The phone gives up the stream and waits for its end.
BeginLinkClose(n) ==
    LET i == requests[n].of IN
    /\ requests[n].at = "stale" \/ (requests[n].at = "draining" /\ Drained(senders[i]))
    /\ IF app = "browser"
       THEN links' = [links EXCEPT ![i] = BrowserCloses(@)] /\ At(n, "closed")
       ELSE /\ links' = [links EXCEPT ![i].stream = "none"]
            /\ At(n, CASE links[i].stream = "none" -> "down"
                       [] links[i].stream = "waiting" -> "unheard"
                       [] links[i].stream = "open" -> "ending")
    /\ UNCHANGED <<app, ui, engine, models, tick, senders, camera>>

\* The stream has been read to its end.
StreamEnded(n) ==
    /\ requests[n].at = "ending" /\ At(n, "down")
    /\ UNCHANGED <<app, ui, engine, models, tick, senders, links, camera>>

\* The channel comes up after all and the library listens to the stream given up.
StreamHeard(n) ==
    /\ requests[n].at = "unheard" /\ links[requests[n].of].channel
    /\ At(n, "ending")
    /\ UNCHANGED <<app, ui, engine, models, tick, senders, links, camera>>

\* The channel shuts down.
ChannelDown(n) ==
    /\ requests[n].at = "down"
    /\ links' = [links EXCEPT ![requests[n].of] = NoLink]
    /\ At(n, "closed")
    /\ UNCHANGED <<app, ui, engine, models, tick, senders, camera>>

\* After the close: only the newest request goes on, to the sender it was made for.
Replace(n) ==
    /\ requests[n].at = "closed"
    /\ IF Newest(n) /\ ui.mounted
       THEN LET kind == IF requests[n].kind = "connect" THEN "link" ELSE "log" IN
            /\ senders' = Append(senders, NewSender(kind))
            /\ links' = Append(links, IF kind = "link" THEN Connects(NoLink) ELSE NoLink)
            /\ requests' = [requests EXCEPT ![n].of = Current + 1,
                                            ![n].at = IF kind = "link" THEN "opening" ELSE "done"]
       ELSE At(n, "done") /\ UNCHANGED <<senders, links>>
    /\ UNCHANGED <<app, ui, engine, models, tick, camera>>

\* After connect(): a phone that was overtaken closes the client it has just made.
Connected(n) ==
    /\ requests[n].at = "opening"
    /\ At(n, IF app = "phone" /\ ~(Newest(n) /\ ui.mounted) THEN "stale" ELSE "done")
    /\ UNCHANGED <<app, ui, engine, models, tick, senders, links, camera>>

RequestStep(n) ==
    n \in DOMAIN requests /\ (\/ BeginLinkClose(n) \/ StreamEnded(n) \/ ChannelDown(n)
                              \/ Replace(n) \/ Connected(n))

-----------------------------------------------------------------------------
(* The network. *)

Established(i) ==
    /\ links[i].stream = "waiting"
    /\ links' = [links EXCEPT ![i].stream = "open"]
    /\ UNCHANGED <<app, ui, engine, models, tick, senders, requests, camera>>

\* The stream of the phone is dropped; the socket of the browser is, and a timer set.
Lost(i) ==
    /\ links[i].stream # "none"
    /\ links' = [links EXCEPT ![i].stream = "none"]
    /\ UNCHANGED <<app, ui, engine, models, tick, senders, requests, camera>>

\* The timer of the browser opens a socket again.
Reopen(i) ==
    /\ app = "browser" /\ links[i].channel /\ links[i].stream = "none"
    /\ links' = [links EXCEPT ![i] = BrowserConnects(@)]
    /\ UNCHANGED <<app, ui, engine, models, tick, senders, requests, camera>>

-----------------------------------------------------------------------------
(* The camera and the life cycle of the phone, and frames. *)

Live == camera.held \/ camera.leaked > 0 \/ camera.starts > 0

FrameArrives ==
    /\ ~camera.frame /\ (app = "phone" => Live)
    /\ camera' = [camera EXCEPT !.frame = TRUE]
    /\ UNCHANGED <<app, ui, engine, models, tick, senders, links, requests>>

\* inactive or paused: also while the system asks for the camera permission.
Pause ==
    /\ app = "phone" /\ ui.mounted /\ camera.front /\ Now < MaxGeneration
    /\ ui' = Renewed
    /\ senders' = CurrentCleared
    /\ camera' = [camera EXCEPT !.front = FALSE, !.frame = FALSE, !.held = FALSE,
                                !.crossed = camera.starts > 0]
    /\ UNCHANGED <<app, engine, models, tick, links, requests>>

\* Mutant: a camera that is there is not looked at.
RestartsAlways == ~camera.failed /\ models.ready

Restarts == ~camera.held /\ ~camera.failed /\ models.ready

Resume ==
    /\ app = "phone" /\ ui.mounted /\ ~camera.front
    /\ Restarts => camera.begun < MaxStarts
    /\ camera' = IF Restarts
                 THEN [camera EXCEPT !.front = TRUE, !.starts = @ + 1, !.begun = @ + 1,
                                     !.overlap = @ \/ camera.starts > 0]
                 ELSE [camera EXCEPT !.front = TRUE]
    /\ UNCHANGED <<app, ui, engine, models, tick, senders, links, requests>>

\* A start ends with a camera: it takes the place of one that is there, which nobody disposes of.
CameraStarts ==
    /\ camera.starts > 0
    /\ camera' = IF ~ui.mounted THEN [camera EXCEPT !.starts = @ - 1]
                 ELSE [camera EXCEPT !.starts = @ - 1, !.held = TRUE, !.loop = TRUE,
                                     !.failed = FALSE,
                                     !.leaked = IF camera.held THEN @ + 1 ELSE @]
    /\ UNCHANGED <<app, ui, engine, models, tick, senders, links, requests>>

\* No permission, or neither resolution could be opened.
CameraFails ==
    /\ camera.starts > 0
    /\ camera' = [camera EXCEPT !.starts = @ - 1, !.failed = ui.mounted \/ @]
    /\ UNCHANGED <<app, ui, engine, models, tick, senders, links, requests>>

-----------------------------------------------------------------------------

Init ==
    /\ app \in {"phone", "browser"}
    /\ ui = [goal |-> None, running |-> TRUE, mounted |-> TRUE, generation |-> 0]
    /\ engine = EmptyEngine
    /\ models = [ready |-> FALSE, text |-> FALSE]
    /\ tick = None
    /\ senders = <<NewSender("log")>>
    /\ links = <<NoLink>>
    /\ requests = <<>>
    /\ camera = [starts |-> 0, begun |-> 0, held |-> FALSE, leaked |-> 0, overlap |-> FALSE,
                 crossed |-> FALSE, failed |-> FALSE, loop |-> FALSE, frame |-> FALSE, front |-> TRUE]

InferenceStep == PhoneTick \/ BrowserTick \/ TextEncoded \/ Inferred \/ InferenceFails
OperatorStep == (\E goal \in Goals : SetGoal(goal)) \/ Toggle \/ Connect \/ Disconnect \/ Leave
NetworkStep == \E i \in DOMAIN links : Established(i) \/ Lost(i) \/ Reopen(i)
CameraStep == FrameArrives \/ Pause \/ Resume \/ CameraStarts \/ CameraFails

Next ==
    \/ PhoneLoads \/ PageLoads \/ InferenceStep \/ OperatorStep \/ NetworkStep \/ CameraStep
    \/ \E i \in DOMAIN senders : SenderStep(i)
    \/ \E n \in DOMAIN requests : RequestStep(n) \/ StreamHeard(n)

\* The event loop runs what is ready: timers, promises and shutdowns complete; the network need not.
Fairness ==
    /\ \A i \in 1..(MaxRequests + 1) : WF_vars(SenderStep(i))
    /\ \A n \in 1..MaxRequests : WF_vars(RequestStep(n))

Spec == Init /\ [][Next]_vars /\ Fairness

-----------------------------------------------------------------------------
(* Correctness. *)

Chunks == [goal : Goals, generation : 0..(MaxGeneration + 1)]
Places == {"draining", "unheard", "ending", "down", "closed", "opening", "stale", "done"}

ClientsType ==
    /\ ui.goal \in Goals \cup {None} /\ ui.generation \in 0..(MaxGeneration + 1)
    /\ tick = None \/ tick.features \in Goals \cup {Zero}
    /\ Len(engine.ring) <= HistoryLen
    /\ Len(senders) = Len(links)
    /\ \A i \in DOMAIN senders :
         /\ senders[i].pending \in Chunks \cup {None}
         /\ senders[i].phase \in {"idle", "pacing", "sending", "ended"}
    /\ \A n \in DOMAIN requests : requests[n].at \in Places

\* Whatever is handed to a connection was inferred in the generation of the moment it is handed
\* over: not for an earlier goal, an earlier run, an earlier connection or before a pause; and it
\* goes under the name of its own goal.
NothingStaleIsHanded ==
    \A i \in DOMAIN senders :
        LET s == senders[i].sending IN
        s # None => /\ s.chunk.generation = s.at
                    /\ s.name = s.chunk.goal

Closing(i) == \E n \in DOMAIN requests : requests[n].of = i /\ requests[n].at \notin {"opening", "done"}

\* However connects, disconnects and the end of the page overtake one another: a sender that is
\* not the current one is closed and its connection down, unless a request is still closing it;
\* and a connection that was closed is not opened again.
OneOpenConnection ==
    \A i \in DOMAIN senders :
        /\ i # Current => senders[i].closed
        /\ senders[i].closed /\ links[i].channel => Closing(i)

\* A request that came to its end as the newest left its own sender in place, open.
NewestRequestStands ==
    LET n == Len(requests) IN
    (n > 0 /\ requests[n].at = "done" /\ requests[n].kind # "leave" /\ ui.mounted) =>
        /\ ~senders[Current].closed
        /\ senders[Current].kind = IF requests[n].kind = "connect" THEN "link" ELSE "log"

\* What a running inference works on was seen under its own goal, also when the goal changes while
\* the text is being encoded; the features are those of its own goal, or of no prompt; and on the
\* phone, which waits for its models, no prompt only where there is no text encoder.
InferenceOfOneGoal ==
    tick # None =>
        /\ \A k \in DOMAIN tick.history : tick.history[k] = tick.goal
        /\ tick.at = "running" =>
              /\ tick.features \in {tick.goal, Zero}
              /\ app = "phone" /\ models.text => tick.features = tick.goal

\* A camera nobody can dispose of any more, or one that runs behind a closed screen, comes only of
\* a start that was still under way when the application was paused.
CamerasAreHeld ==
    /\ camera.leaked > 0 => camera.overlap
    /\ (~camera.front /\ camera.held) => camera.crossed

\* Together: what the application holds open, and what its inference works on.
ClientsInv ==
    /\ ClientsType
    /\ OneOpenConnection
    /\ NewestRequestStands
    /\ InferenceOfOneGoal
    /\ CamerasAreHeld

\* A chunk that was taken in leaves the slot: handed over, replaced or cleared.
PendingLeaves == (senders[Current].pending # None) ~> (senders[Current].pending = None)

\* A connect or disconnect comes to its end, but for one that waits for the end of a stream the
\* library has never listened to.
RequestsEnd ==
    \A n \in 1..MaxRequests :
        (n \in DOMAIN requests)
            ~> (n \in DOMAIN requests /\ requests[n].at \in {"done", "unheard"})
====
