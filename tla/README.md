# rvln: specifications, model checks and proofs

rvln drives a robot with a vision-language navigation policy. An edge node on the
robot sends camera frames to a remote policy, or shows them to a policy of its own,
and turns the answer into a short path; a path follower turns the path into wheel
commands. A phone or a browser can take the place of the policy. A separate executor
runs the NaVIDA policy one primitive at a time. A benchmark drives all of this in a
simulator, and a logger records data on a phone. This directory specifies the parts
that decide whether the robot moves, on what information and when it stops, and
whether what the benchmark and the logger report is what happened.

## 1. Inventory

Paths are relative to `src/`; `edge/` is `src/rvln_edge/rvln_edge/`, `remote/` is
`src/rvln_remote/rvln_remote/`.

| Component | State | Operations | Interacts through | Hard behaviour | What makes it correct |
|---|---|---|---|---|---|
| Edge node, cloud mode (`edge/edge_node.py`, `observation_state.py`, `embedding_cache.py`) | goal, generation, frame counter, sent images; one cached embedding and a floor; camera frame; odometry age; lifecycle | goal, image, odometry and embedding callbacks; send tick; action tick; configure, activate, deactivate, cleanup | observation, embedding, goal and path topics | three callback groups run at once; a goal change meets a reply, a send tick or a prediction; cleanup takes objects away under callbacks; restarts number frames from 1 | nothing computed for a replaced goal is cached; the image paired with an embedding is the right one; a dead camera or remote stops the robot |
| Remote inference (`remote/inference_node.py`) | one observation in work | observation callback | observation and embedding topics, best effort | lost, delayed, reordered replies; failures; death | the reply echoes its frame |
| Path follower (`edge/path_follower_node.py`, `waypoint_pd.py`) | latest path, frame mismatch, news flag, held command and its time, forced stop | path callback, stop service, timer | path topic, `cmd_vel` | the hold against news, mismatch and forced stop | commands come from the latest path; a stop reaches the wheels |
| Mobile bridge (`edge/action_path_bridge.py`, `edge_action_grpc_node.py`, `edge_action_ws_node.py`) | queued path, clock of the last chunk, stopped | `receive` on server threads, `tick` on the timer | gRPC or WebSocket stream, path topic | server threads read the clock before they take the lock; chunk against watchdog | the robot moves only while the phone is heard |
| Edge node, local mode (`edge/edge_node.py`, `adapters/omnivla_edge_local.py`, `src/rvln_core` engine) | goal in the ledger and in the adapter, ring of past frames | local goal and tick | as cloud mode | a goal image that fails to decode leaves ledger and adapter apart; a goal beside a cleanup | ready means the policy has the reported goal; old frames fade |
| Camera capture (`edge/camera_capture.py`) | device, threads, stop event | open, start, stop, close, capture loop | frame store of the edge node | a join that times out leaves a thread behind, a later start revives it | stopped means no frame |
| Launch (`edge/launch_util.py`, `scripts/`) | attempts of configure and activate | lifecycle commands | lifecycle services | activation after a failed configure; a retry after a half-done one; an operator beside the scripts | the node ends active |
| Phone and browser client (`app/inference/lib`, `web/src`) | newest chunk, sender and connection, generation, ring and text cache, camera | goal, stop, connect, disconnect, pause, tick, send | stream to the bridge | everything that awaits finds the rest changed: sends, closes, encoders, cameras | nothing inferred for something earlier is sent; one open connection |
| Logger (`app/logger/lib`) | session, clock, sources, files | start, stop, talk, samples | file writer | start and stop run beside each other and beside frames being saved | a session holds its own data, counts are true, files are closed |
| NaVIDA executor (`bench/src/bench/navida_step.py`, `live_navida.py`) | step cycle (settling, action, request, stop), power handshake, chunk queue, worker | goal, observation, odometry, stop callbacks; control timer; shutdown | HTTP worker, `/motor_power` service, `cmd_vel`, odometry | late replies, refused or lost power calls, cancellation at any point | it moves only with the handshake complete and for the current goal; it asks only about images exposed standing |
| Live episode (`bench/src/isaac_rvln/live_transport.py`, `live_results.py`, `bench/score.py`, `bench/validate_live.py`) | stage of the run, errors, counts, confirmation | service calls, waits, callbacks, shutdown | follower stop, motor power, logger services; HTTP policy | calls given up are executed later; the stop at the end is not checked; failures skip steps | the report is true, the motor is powered only while the follower is held, the robot rests afterwards |
| Live matrix (`bench/legacy_gazebo/run_live_matrix.py`, `bench/live_server.py`, `live_bridge.py`, `remote/backends`) | jobs, port, server memory, queue, container | submit, wait, run, cancel; reset, infer | Slurm, docker, HTTP | jobs left behind, servers of another job on the port, requests of clients that gave up | an answer comes from the episode's own job and own frames |
| R2R evaluation (`bench/src/isaac_r2r`, `bench/episode.py`) | policy state, result rows, manifest, summary | reset, act; episode; batch, retry, resume | HTTP, files, child processes | native exits, timeouts, kills, a child left running, edited inputs | a completed row is its own; manifest and summary are true |
| Adapters' arithmetic, networks, scene construction, replay and scoring, message definitions | numerical or none | pure functions, I/O | | | out of scope, section 6 |

`PROJECT.json` lists the same parts with their sources, and every hazard at its line.

## 2. Modules

```
EdgeData ── ObservationLedger ─┐
         └─ EmbeddingCache ────┴─ EdgeNode ─┐
                       RemoteInference ─────┴─ CloudLoop ── CloudLoopProofs
                                                      └──── MCCloudLoop
CameraCapture ─┐
OmniVLAEngine ─┼─ LocalEdge ── LocalEdgeProofs          (ObservationLedger inside)
EdgeLifecycle ─┘
PathData ── PathFollower
         └─ ActionPathBridge ─┐
            PathFollower ─────┴─ MobileDriving ── MobileDrivingProofs
                    DeadMan ────┘ (abstract)
ClientData ─┬─ CoalescingSender ─┬─ EdgeClients ─┐
            └─ PhoneEngine ──────┘               ├─ AppProofs
                              SessionRecorder ───┘
NavidaCycle ── NavidaExecutor ── NavidaExecutorProofs
LiveRobot ── LiveEpisode ── LiveEpisodeProofs
Backends ── LiveServer ── LiveMatrix ── LiveMatrixProofs
                                     └──── MCLiveMatrix
R2RPolicy ── R2REpisode ── R2RBatch ── R2RBatchProofs
                   R2RCampaign ──┘ (abstract)
```

**ObservationLedger, EmbeddingCache.** Each Python object guards its methods with
one lock, so a method is one operator from record to record, and a step of the
edge node applies it atomically. `change_goal` calls the cache's `invalidate`
inside the ledger's lock; `OnGoal` therefore does both in one step.

**EdgeNode.** One action per stretch of code between two points where another
callback group can interfere. `io` is the program counter of the group of the
goal, image, odometry and embedding callbacks and of the send tick; `tick` is that
of the action tick, which has its own group; the lifecycle services run in a third
and are `phase`. A send tick is `SendSnapshot` (frame, goal and generation are
read), then `SendRecord` or `SendSkip` (`record_sent` accepts or refuses), then
`SendPublish`. The embedding callback is `ReplyTake`, `ReplyPut`. The action tick
is `TickStatus`, `TickFetch`, `TickPublish`. Cleanup is three steps, in the order
of the code. An exception that leaves a callback ends the executor: `Crash`.
An observation is a record of its frame identifier, image and, as history, the
generation, session (configuration) and process that sent it; an embedding or a
path is named by the observation behind it.

**RemoteInference, CloudLoop.** The remote takes any message from the wire,
answers it, drops it or dies. `CloudLoop` is the composition over two wires that
lose, delay and reorder, and that survive the processes.

**LocalEdge** and its parts. `CameraCapture` has the capture threads: each is at its
test of the stop event, in the device's read, or about to store its frame, and
`stop` waits for the current one or gives up. `OmniVLAEngine` is the ring of past
frames. `EdgeLifecycle` has the transitions of the node, cut where a callback can
come between, the launch scripts with their attempts, and an operator who uses the
same services. `LocalEdge` adds the goal callback in its two halves (ledger, then
adapter) and the local action tick. A frame or a path is named by the generation it
was seen for.

**PathFollower.** One executor thread, so path callback, stop service and timer are
one step each, the timer split by the branches of `_decide_cmd`. `waypoint_pd` is a
function of the path, so a command is named by its path and the zero command by the
empty path.

**ActionPathBridge, MobileDriving, DeadMan.** A server thread holds a chunk and
the age of its clock reading (`ChunkArrives`) until it takes the lock (`Accept`) or
the chunk is malformed (`Reject`). The timer is `tick` with its three outcomes.
`MobileDriving` adds the path topic, the follower and the clock. `DeadMan` is what
the whole promises: silence, a flag that the robot moves, and a bound.

**ClientData, CoalescingSender, PhoneEngine, EdgeClients.** The phone and the
browser are event loops that run the same protocol, so they are one specification:
`app`, chosen at the start, says which, and the steps that only one of them has are
guarded by it. A sender is its slot, its pacing delay and its chunk in flight. An
inference is cut at its awaits: the text encoder, then the model. A connect, a
disconnect and the farewell of a page are requests that go through the stages of
`close` and `connect`. What lies behind the connection is external: it comes up,
its stream ends, and the Dart library listens to a stream only once it is up, so
that closing one earlier never completes (`unheard`).

**SessionRecorder.** `start` and `stop` cut at their awaits, with the camera, the
sensors and the audio each holding the writer they write to; `stops` is the set of
stops in progress. `tangled` is history: a start was pressed beside another start or
a stop, which the guard of `start` does not exclude.

**NavidaCycle, NavidaExecutor.** `StepCycle` is a record with an operator per
method. The bridge runs everything on one thread, so a handler is one step;
because a handler reads clocks and poses, it is a function from the node's record
to the set of records it may leave, and the control timer is the composition of
its parts in the order of the code. The generation of a request is whether the
outstanding request belongs to the current generation: only one is outstanding and
a generation never returns. The motor service serves its calls in order, also
those the node has given up, and may refuse; the wheels may roll while the motor
has power and a drive command is in force or still queued. Disabling the motor
drops queued commands, as `confirm_motor_disabled` states.

**LiveRobot, LiveEpisode.** `LiveRobot` has the services: a queue of calls each,
whether somebody still waits for the answer, and what the executed calls did to the
follower's hold and to the motor. Calls of an episode before may still be queued at
the start. `LiveEpisode` is `run` stage by stage, the callbacks it serves while it
waits, and the results, the score and the audit as operators on what it noted.

**Backends, LiveServer, LiveMatrix.** `Backends` is the memory of each policy and the
frames a prediction is shown. `LiveServer` is the job on its node: it binds the port
or fails, serves its queue in order, resets and infers. `LiveMatrix` is the matrix,
the episodes as clients, the bridge started by hand, and one fault from outside: a
job that stays, a job that ends by itself, a `scancel` that is not heard, a container
that is not stopped.

**R2RPolicy, R2REpisode, R2RBatch, R2RCampaign.** The policy server with requests that
are late or of somebody else; the episode process with its result file; the batch
with retries, manifest, resume and summary, and what an operator may do meanwhile.
`R2RCampaign` is what a batch promises: results are added and kept, and the report
comes when all are there.

## 3. Runs

| Run | Question | Result |
|---|---|---|
| CloudGoals | goals change against sends, replies and ticks, in one lifetime | holds |
| CloudLiveness | embeddings stop coming for good; cleanup, kill and restart with messages in flight | the robot stops; the invariant holds across sessions and processes |
| CloudTickRace | the goal changes between `status()` and `get_latest_raw()` | violated: the action tick takes the process down |
| LocalEdge | goals, frames, predictions and capture threads against the lifecycle and the launch scripts | holds |
| Follower | paths, mismatches, forced stops in any order | holds; the hold is never used |
| MobileSwitch | bridge, topic and follower against the clock, two threads | holds; implements `DeadMan` |
| EdgeClients | goals, switches, requests that overtake one another, pauses, beside inferences and sends | holds |
| SessionRecorder | sessions beside frames being saved, voice notes and one another | holds |
| NavidaExecutor | goals, stops, odometry, replies and power answers in any order | holds |
| LiveEpisode | services late, refusing or gone, leftovers of an episode before, failing inferences | holds |
| LiveMatrix | jobs of several policies that want one port, late requests, one fault | holds |
| R2RBatch | native exits, lost and late requests, kill and resume, one mishap | holds; implements `R2RCampaign` |

What the properties say. An invariant whose name ends in `Inv` is a conjunction of
named parts, of which the type invariant is one; each part has its comment in the
module.

- `CachedForCurrentGoal`: an embedding of this session is cached only while the
  goal it was computed for is current. `IInv` is the inductive form.
- `PairingInv`: the ledger pairs each reply with its own image
  (`PastImageIsEmbedded`), keeps no image whose reply would be refused
  (`PendingRepliesAcceptable`), and keeps a bounded number (`LedgerBounded`).
- `OneLateDrive`: after a goal change at most one path of the old goal goes out,
  the one being predicted. The code accepts that one.
- `UnansweredStops`: when embeddings stop coming for good (remote, network or camera
  gone) the last path becomes empty, or the node is not active.
- `FollowerInv` (`HeldIsCurrent`, `HoldNeverApplies`), `NeverAnOlderPath`,
  `ForcedStopKeepsNews`, `StopArrives`: the follower's latch. `HoldNeverApplies` says
  that the hold branch is dead: with no news the path, and so the command, is
  unchanged; with news the hold is bypassed.
- `SwitchInv` (`MovesOnlyWhenHeard`), `SwitchSpec`, `EarlyStopBounded`,
  `QuietPhoneStops`: the robot moves at most `Bound` = chunk age + both timer periods
  + latency after the last accepted chunk; the watchdog is early by at most the
  decoding time.
- `LocalInv`: a stopped camera leaves no frame (unless a start revived a thread that
  outlived its join); ledger, goal callback and adapter agree; the ring ends with the
  frames of the adapter's goal; one late path; one subscription (unless a configure
  failed on its camera).
- `ReadyMeansArmed`: a local node that reports OK has given its policy the goal it
  reports, unless that goal cannot be decoded or came during a cleanup.
- `CrashOnlyInCleanup`, `DeadCameraStops`, `LaunchActivates`: what takes a local node
  down, what ends its drive, and that the launch scripts bring it up.
- `ClientsInv` (`OneOpenConnection`, `NewestRequestStands`, `InferenceOfOneGoal`,
  `CamerasAreHeld`), `NothingStaleIsHanded`, `PendingLeaves`, `RequestsEnd`: what the
  application holds open, infers and sends.
- `RecorderInv`: one clock per session, nothing written after its files are closed,
  every source connected while recording (these three unless `tangled`), and counts
  that cover the rows (always). `StopsFinish`: a stop is never left half done.
- `ExecutorInv`: `DrivesOnlyReady` (the last command moves only with the power
  handshake complete, an action under way and no stop latched), `RequestSeesPlace`
  (while a request counts, the robot has not moved since its image was exposed),
  `OneChunkAtATime`, and what makes them inductive (section 4). `ActsForCurrentGoal`, `StopIsLatched`, `LateAnswerIsInert`:
  cancellation, the latched stop, late answers.
- `PoweredGated`: the motor gets power only while the follower is held.
  `EpisodeInv`: success is of a confirmed stop, counts agree, collisions are counted
  only from a whole log. `EveryRunEnds`, `RestsAfterwards`.
- `OwnServer`, `OwnMemory`: an episode publishes answers of its own job, computed from
  its own frames. `MatrixInv` (`OneInstruction`, `PastThenPresent`, `NothingLeft`),
  `MatrixEnds`.
- `RowIsOwn`: a completed row rests on its own observations with at most one intruding
  request. `BatchInv` (`RowPolicy`, `RetriesOnlyUnfinished`, `ManifestIsTrue`),
  `BatchEnds`, `CampaignSpec`.

### Bounds

`CloudGoals`: two goals, one of them in the odom frame, two images, two remembered
frames, three observations and two goal changes: enough for a reply to overtake
another, for an eviction and for a reply to be late by two goals. `CloudLiveness`: two
sessions, two processes; a message can be from the one before.
Its counters are bounded, so at some point nothing new is asked; that is the premise
of the property, and no conclusion is drawn from it about a node that is still
answered. `LocalEdge`: two capture threads, which is what a join that times out needs,
two sessions, two activations, two goal changes and a ring of two frames.
`MobileSwitch`: one moving path and two threads, which is what
a stale clock needs; the chunk age and the bridge's period are 2 and the rest 1, so that
a chunk may still be queued when the watchdog fires. `EdgeClients`: two goals, three
generations, two requests beside one another and a page that ends, one start of the
camera beside the ones the life cycle makes. `SessionRecorder`: two sessions of two
frames, two starts under way, one voice note. `NavidaExecutor`: two goals,
chunks of up to two primitives (one to run, one queued) and two unanswered power
calls (one given up, one current). `LiveEpisode`: two errors end the drive (five in the
code), one call of an episode before per service. `LiveMatrix`: two policies or two
episodes or two starts of the matrix; the windows of the policies are small (4 frames
of which 2 or 3 are shown), so that frames are left out; one fault. `R2RBatch`: two
episodes of two steps, one retry, two runs of the command, one mishap. Ages saturate
where no comparison of the code tells more. Images are symmetric: nothing compares
them. The proofs have none of these bounds.

`CHECK_DEADLOCK FALSE` stands where bounds end a behaviour, or a process may be
gone or done; the follower alone cannot stop and is checked for deadlock.

### Fairness

`CloudLoop`: the action timer, a callback that has started, and the clock. The
executor serves timers that stay due and callbacks run to their end; nothing is
assumed of the network, the camera, the remote or the operator.
`LocalEdge`: likewise, and a transition that has begun ends, a capture thread goes on
(the driver's read has a timeout of its own), and the launch scripts go on.
`PathFollower`: its timer and the clock. `MobileDriving`: both timers, delivery,
every server thread, the clock; the timing assumption that each timer fires within
its period and a path arrives within `PathLatency` is in the guard of `MobileTime`.
`MaxDecode` bounds how long a thread holds a clock reading. `EdgeClients`: each
sender's and each request's own continuation, which the event loop resumes; not the
connection, the operator or the models. `SessionRecorder`: the awaits of `start` and
`stop` return. `LiveEpisode`: strong fairness of the main step, because `run` looks
at its deadline after every callback it has served, so callbacks cannot keep it from
its next step for ever; a request has a deadline, and a service that stays works off
its queue (`RestsAfterwards` excepts one that refuses or leaves). `LiveMatrix`,
`R2RBatch`: the command goes on, since every call it makes has a time limit.
`NavidaExecutor` has none: its deadlines are choices, and a behaviour that times out
for ever is among them, so nothing about what it finally reaches is stated.

## 4. Proofs

All theorems are proved for every value of the constants that satisfies the named
assumptions (each stands beside the constants it is about; most say that a value standing for
"none" is none of the others).

**CloudLoopProofs.** `CloudLoopTypes`, `InvariantHolds`, `NoEmbeddingOfReplacedGoal`.
`CachedForCurrentGoal` alone is not inductive: a reply in flight may still be
cached. The strengthening `FloorSeparatesGoals` says of everything in flight in this
session that its frame is not above the counter, and that a frame above the cache's
floor belongs to the current generation. A goal change sets the floor to the counter,
so nothing old stays above; a send increments the counter and carries the generation
that `record_sent` has compared. `EncodedIsCurrent` covers a send tick that survives
a cleanup: the reset has moved the generation on. `SessionsBounded` keeps messages
of earlier sessions out.

`RepliesArePaired`, `AtMostOneLateDrive` follow in the same module. The ledger's images
are inductive with a bound on the frames in them; that eviction keeps the bound needs
the cardinality theorems. A late drive is counted when the action tick fetched before
the goal changed; the strengthening says that while such a tick is still to publish,
none has gone out.

**LocalEdgeProofs.** `LocalEdgeSafe` proves `LocalInv`, which is inductive as it
stands: threads other than the current one are in the device's read and told to stop
(`CameraInv`); a goal on its way to the adapter is the one the ledger names
(`GoalInv`); the ring is sorted by generation and ends with the frames of the
adapter's goal (`RingInv`); generations grow from ledger to path (`PathInv`);
subscriptions are counted (`LinkInv`). `ReadyIsArmed`, `FramesFade` (what a policy is
shown once enough frames of a goal have come is of that goal) and `CrashNeedsCleanup`
follow.

**MobileDrivingProofs.** The theorems about the follower alone come first.
`HeldIsCurrent` is inductive with the type invariant, and `HoldNeverApplies` follows:
a latched command with no news means the latest path is the latched one, hence moving,
which is another branch. `NeverAnOlderPath` follows from the branches, and
`StopKeepsNews` (`ForcedStopKeepsNews`) because a stopped tick never calls
`_decide_cmd`; `FollowerIsConsistent` is the conjunction the run checks.

The chain of the composition is `WatchdogArmed` (the reading the watchdog tests
is no newer than the silence), `StopOnItsWay` (a path still followed after the stop
is covered by the topic's age), `CommandLags` (a command outlives its path by one
follower period), together `MobileInv`. `MovesOnlyWhenHeard` follows by adding the
four delays. `FollowerInside` shows that the composition implements the follower's
own specification, so `HeldIsCurrent` carries over. `MobileImplementsDeadMan` maps
each step to a step of `DeadMan` or a stutter. `StopsAreNotMuchTooEarly` uses a lemma
on how far a stored reading lags behind the newest.

**AppProofs.** The theorems about both applications; their specifications share nothing.
`HandedIsFresh`, `ClientsAreConsistent`: neither property is
inductive: both look at what has been handed over or closed, and the hazard is in what
is still on its way. `SlotIsNow` says that only the sender in use holds a chunk and
that the chunk is of the generation of now, because every step that moves the
generation empties that slot; so what a sender takes up when its pacing ends is still
good. `AskedClosed` and `DownIsComing` follow a connect or a disconnect through its
awaits: past its beginning it has closed its own sender, and a connection that is up
behind a closed sender has a request that will take it down. `NewestRules` says the
same of the newest one, so that older ones may end in any order beside it. `EngineOwn`
holds the ring and the text cache to the goal they are named for, and `WaitsForModels`
is why the phone never infers without its text. `CameraCounted`: two starts at once
are the only source of a camera that nobody can dispose of.

`RecorderIsConsistent` proves `RecorderInv` from `RecorderIInv`. While nothing is tangled
the recorder rests, opens its files, records or stops, one at a time (`OneAtATime`), and
`Left` says what each place of a stop has left standing: no subscription of the camera
from the start, no writer in it after `camera`, no sensor after `sensors`, empty fields
after `audio`, the description at `sinks`. So every stamp is taken while the clock is
still that of the session, and the sinks close behind everybody. The counts hold also
when tangled. Every frame still to be saved has a number of its own out of those given
out (`FramesOwn`), hence rows and unsaved frames together do not exceed them
(`SessionCounted`); and any stop, whichever session it is of, makes the one camera
forget its writer before a description is written, and a later start names a newer
session, so the count is final (`CountIsFinal`).

**LiveEpisodeProofs.** `ReportsAreTrue` and `PowerOnlyWhileHeld`. `PoweredGated` needs
`CallsInOrder` and `HeldSinceGate`: a service works off its queue in order, so once
the stop call has been answered nothing is left in that queue that could release the
follower, neither of this episode nor of one before. `SuccessIsConfirmed` and
`CountsAgree` need `NotedSoFar`, which says the same of the stages before the end.

**NavidaExecutorProofs.** `ExecutorIsSafe`, `ActsForGoal`, `StopLatched`,
`LateAnswersInert`. A handler is a function on the node, so each part of one is a lemma
about the nodes it may leave, and a step follows from the lemma of its handler. That a
request shows the place the robot stands at rests on the motor's power. `Quiet`: once
the motor is known to be off no queued command is left, and between two primitives
nothing has moved since the barrier. `PowerCut`: no handler leaves a stop to be
confirmed with the power on, unless the robot already stands. `Consistent`: which chunk
and which token go with which state of the cycle, and that the call the node waits for
is the newest in the queue. Within a handler a stop may be begun and the power not yet
cut: `Halting` says what holds there, and `StopPowerGood` that stopping the motor
restores the rest. Whether the motor accepts, refuses or never answers makes no
difference.

**LiveMatrixProofs.** `ServerIsOwn`, `MemoryIsOwn`, `MatrixHolds`, for any plans,
windows and queue length and for any number of kinds of faults. The inductive
invariant follows three things. The jobs: from the moment its server has named it, the
matrix's job has the port until the matrix cancels it or it ends by itself
(`ServerOwn`), cancelled jobs were once submitted (`JobsOwn`), and no job that is
alive is forgotten (`JobsLeft`); `Counted` says that the plan's product bounds the
episodes started, so there is a client for each. The frames: of one sender those in
the server's memory are older than those in its queue, in order, and numbered below
the next one it sends (`FramesInOrder`, `FramesSent`); NaVIDA and NaVILA clear their
memory at a new instruction (`OneText`). The reset: a client's reset either waits last
in the queue, behind requests of clients that gave up, or has been answered, and then
all the server has is the client's own (`ResetStands`, `RunnerOwn`) for the rest of
the episode, because nobody else is in the container (`ContainerOwn`). What a policy
shows of its memory is a lemma per policy (`GoodContext`): a selection in order, with
the current frame last, whatever the rounding of the sampling does.

**R2RBatchProofs.** `BatchImplementsCampaign`: while nothing but the batch acts there is
one edition of the split (`OneEdition`), and the only process is the child the runner
waits for, started because its episode has no result, which it still lacks until that
child closes (`OneChild`). So a result is never overwritten, a step of a child is
`Finish` or a stutter, and `Summarize` is `Report`; a result is lost only when disrupted.
`BatchIsConsistent` proves `BatchInv` from `BatchIInv`, which adds: the only process is
the one waited for, also after an edit or a restart (`Sole`); children of this run are
for the episodes up to the current one, those before the last left it unfinished, and
the last child's result is the one on disk (`Retried`); the runner has a result for
every episode it has passed (`Noted`); a summary is either the plan's, and a resumed run
keeps every row, or the plan is not today's and no run resumes (`Published`); a child
with an attested identity acts on a server that is still the planned one, or on one
that nobody has reset since it started again (`FromPlanned`). `RowsAreOwn` proves
`RowIsOwn` without that: children left running may ask too. `Recall` says that a child
has at most the question in flight that it waits for, and that the session is at the
frame it asks about next with nobody else's observations in the memory; one intruding
request moves the frame past it or back to 0, and then the child is refused until a
second one moves it again. So the counter of two intruders in the property is exact.

Only model-checked: everything that must eventually happen (`UnansweredStops`,
`StopArrives`, `QuietPhoneStops`, `DeadCameraStops`, `LaunchActivates`, `PendingLeaves`,
`RequestsEnd`, `StopsFinish`, `EveryRunEnds`, `RestsAfterwards`, `MatrixEnds`,
`BatchEnds`) is beyond the prover. Every other property of the passing runs has a
theorem.

## 5. What the modelling found

A run shows the first. The others are built into the models as the code has them, and
named in the property that has to except them.

1. `_action_tick` reads the status and then the slot; a goal change between the two
   makes `emb` None outside the `try`, and the process ends (CloudTickRace).
2. `on_configure` builds a cache without a floor while frames go on being counted:
   a reply to the session before a cleanup is cached. `CachedForCurrentGoal` speaks
   of embeddings of this session only.
3. A restarted process numbers frames from 1, and a late reply takes the image of a
   new frame. `PastImageIsEmbedded` excepts replies to another process.
4. The follower has no age limit on a moving path, against the "stale path" of the
   documentation: what stops it is an empty path, which needs an active node.
5. An empty path stops the follower at once: the hold that should coast over a brief
   gap is dead code (`HoldNeverApplies`, proved).
6. With two gRPC streams the watchdog can fire although a chunk came in time: the
   slower stream's older clock reading replaces the newer (`EarlyStopBounded` bounds it).
7. In local mode a goal that cannot be decoded changes the reported goal and leaves
   the policy on the old one; a configure that fails on its camera leaks the remote
   subscription; a capture thread that outlives its join is revived by the next start.
8. The phone's `close` never returns for a connection that was never up (`unheard`).
9. The logger: a start pressed beside another start or a stop passes the guard before
   the await and mixes two sessions (`tangled`); session names have a resolution of
   a second, where the comment says milliseconds.
10. The R2R batch: two intruding requests can enter a completed row; a child that exits
    before it writes leaves the row of an earlier attempt to be judged; a crash between
    the directory and the manifest leaves a batch that neither starts nor resumes.

## 6. Not modelled

Cloud mode: diagnostics and the debug embedding topic, which change no state the
control depends on. Mobile bridge: the goal identifier (only logged) and the
acknowledgement. Remote inference node: the previous image, which only backends read
(the benchmark's server, which keeps one too, has it in `LiveServer`). Adapters and engine:
the arithmetic from embedding to path, and the text feature cache, whose key is the
text. Executor: the steering law, the parsing of replies, the 555 ms window after a turn
(its effect, ignoring early samples, is a choice). Clients: widgets, settings and
previews. Logger: the AR bridge, the pages, the export and the upload. Backends:
the networks. Offline replay, scoring of geometry, smoke tests and scene construction
are pure functions or simulator glue; message definitions are layouts.

The edge node and the NaVIDA executor are not composed: the executor takes the goal
from each observation, so an observation published before the edge took a new goal sets
it back until the next one; and the two have no state in common. The cloud loop and the
follower are not composed either: `UnansweredStops` ends with the empty path on the
topic, and `StopArrives` begins there.
