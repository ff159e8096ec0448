------------------------------ MODULE LiveEpisode ------------------------------
(***************************************************************************)
(* One episode of the live benchmark: it holds the follower, waits until   *)
(* the policy has answered, powers the motor, releases the follower, drives*)
(* until the goal, too many errors or the deadline, and shuts down.  The   *)
(* subscriptions are served whenever the one thread spins; an observation  *)
(* is answered by a blocking HTTP request.  The Gazebo and the Isaac       *)
(* transport differ in their contact log.                                  *)
(***************************************************************************)
EXTENDS LiveRobot, Naturals

CONSTANTS MaxErrors,     \* errors that end the drive
          MaxPublished   \* bound: observations answered

ASSUME EpisodeAssumption == MaxErrors \in Nat \ {0} /\ MaxPublished \in Nat \ {0}

VARIABLES sim,       \* "gazebo" or "isaac"
          episode,   \* the state of the run, see EpisodeType
          pose,      \* the last ground truth: None, or near or far from the goal
          seen,      \* the command heard in the last 0.5 s, or None
          http,      \* a request is being waited for
          logger     \* the contact log: off, running or broken

episodeVars == <<sim, episode, pose, seen, http, logger>>
vars == <<robotVars, episodeVars>>

\* The stages that call set_bool, and what each asks for: the follower's stop
\* service or the motor's power, with the value; unchecked calls may fail.
CallStages == {"gate", "power", "release", "stop", "shut_stop", "shut_motor"}

Calls == [stage \in CallStages |->
             [service |-> IF stage \in {"power", "shut_motor"}
                          THEN "motor_power" ELSE "follower_stop",
              value   |-> stage \notin {"release", "shut_motor"},
              checked |-> stage \in {"gate", "power", "release"}]]

Stages == CallStages \cup {"reset", "pose", "contacts", "embedding", "drive", "confirm",
                             "report", "over", "died"}

Episode == [pc        : Stages,
            reason    : {"startup_failure", "timeout", "goal_tolerance",
                         "remote_error", "unconfirmed_stop"},
            confirmed : BOOLEAN,
            started   : BOOLEAN,
            goalSent  : BOOLEAN,
            errors    : 0 .. MaxErrors,
            published : Nat,
            inferred  : Nat,
            counted   : BOOLEAN]

EpisodeType ==
    /\ sim \in {"gazebo", "isaac"}
    /\ episode \in Episode
    /\ pose \in {None, "near", "far"}
    /\ seen \in {None, "moving", "still"}
    /\ http \in BOOLEAN
    /\ logger \in {"off", "running", "broken"}

\* Every variable has its type, and a call is waited for in its own stage only.
TypeOK ==
    /\ RobotType
    /\ EpisodeType
    /\ call # None => /\ episode.pc \in CallStages
                      /\ call.service = Calls[episode.pc].service

Init ==
    /\ RobotInit
    /\ sim \in {"gazebo", "isaac"}
    /\ episode = [pc |-> "reset", reason |-> "startup_failure", confirmed |-> FALSE,
                  started |-> FALSE, goalSent |-> FALSE, errors |-> 0, published |-> 0,
                  inferred |-> 0, counted |-> FALSE]
    /\ pose = None
    /\ seen = None
    /\ http = FALSE
    /\ logger = IF sim = "isaac" THEN "running" ELSE "off"

OneError(e) == [e EXCEPT !.errors = IF @ < MaxErrors THEN @ + 1 ELSE @]

\* An exception ends the run early, one of the shutdown ends the shutdown.
Raise(e) ==
    [OneError(e) EXCEPT !.pc = IF @ \in {"shut_stop", "shut_motor"}
                               THEN "report" ELSE "shut_stop"]

Go(stage) == [episode EXCEPT !.pc = stage]

Enter(e) ==
    /\ episode' = e
    /\ UNCHANGED <<sim, pose, seen, http, logger>>
------------------------------------------------------------------------------
(* run, in the order of its lines.                                           *)

Reset ==
    /\ episode.pc = "reset"
    /\ \E next \in {"pose", "died"} : Enter(Go(next))
    /\ UNCHANGED robotVars

WaitPose ==
    /\ episode.pc = "pose"
    /\ ~http
    /\ \/ pose # None /\ Enter(Go("gate"))
       \/ Enter(Raise(episode))
    /\ UNCHANGED robotVars

GoalPublished == [Go("embedding") EXCEPT !.goalSent = TRUE]

\* start_contacts: every sensor is heard within 15 s, or the logger is gone.
StartContacts ==
    /\ episode.pc = "contacts"
    /\ \/ /\ episode' = GoalPublished
          /\ logger' = "running"
       \/ /\ episode' = Raise(episode)
          /\ UNCHANGED logger
    /\ UNCHANGED <<robotVars, sim, pose, seen, http>>

\* The robot may not be powered before the policy has answered.
WaitEmbedding ==
    /\ episode.pc = "embedding"
    /\ ~http
    /\ \/ episode.published > 0 /\ Enter([Go("power") EXCEPT !.started = TRUE])
       \/ Enter(Raise(episode))
    /\ UNCHANGED robotVars

\* Mutant: the shutdown leaves the motor as it is.
AfterCallSkipsMotor ==
    CASE episode.pc = "gate"       -> IF sim = "gazebo" THEN Go("contacts") ELSE GoalPublished
      [] episode.pc = "power"      -> Go("release")
      [] episode.pc = "release"    -> [Go("drive") EXCEPT !.reason = "timeout"]
      [] episode.pc = "stop"       -> Go("confirm")
      [] episode.pc \in {"shut_stop", "shut_motor"} -> Go("report")

AfterCall ==
    CASE episode.pc = "gate"       -> IF sim = "gazebo" THEN Go("contacts") ELSE GoalPublished
      [] episode.pc = "power"      -> Go("release")
      [] episode.pc = "release"    -> [Go("drive") EXCEPT !.reason = "timeout"]
      [] episode.pc = "stop"       -> Go("confirm")
      [] episode.pc = "shut_stop"  -> Go("shut_motor")
      [] episode.pc = "shut_motor" -> Go("report")

IssueCall ==
    /\ episode.pc \in CallStages
    /\ call = None
    /\ ~http
    /\ LET c == Calls[episode.pc]
       IN  \/ Request(c.service, c.value) /\ Enter(episode)
           \/ /\ c.service \notin up
              /\ Enter(Raise(episode))
              /\ UNCHANGED robotVars

\* Mutant: whether the call was answered is not looked at.
ReturnUnchecked ==
    /\ call # None
    /\ ~http
    /\ Enter(AfterCall)
    /\ StopWaiting

\* Mutant: a call that was given up is still waited for in the next stage.
ReturnStillWaits ==
    /\ call # None
    /\ ~http
    /\ Enter(AfterCall)
    /\ IF call.answer = None THEN UNCHANGED robotVars ELSE StopWaiting

Return ==
    /\ call # None
    /\ ~http
    /\ Enter(IF Calls[episode.pc].checked /\ call.answer # TRUE
             THEN Raise(episode) ELSE AfterCall)
    /\ StopWaiting

DriveEnds ==
    /\ episode.pc = "drive"
    /\ ~http
    /\ \/ pose = "near" /\ Enter([Go("stop") EXCEPT !.reason = "goal_tolerance"])
       \/ /\ pose # "near"
          /\ episode.errors >= MaxErrors
          /\ Enter([Go("stop") EXCEPT !.reason = "remote_error"])
       \/ Enter(Go("stop"))
    /\ UNCHANGED robotVars

SeenStop == seen = "still"

\* Mutants: the reason stays; the wait has no deadline.
ConfirmKeepsReason ==
    /\ episode.pc = "confirm"
    /\ ~http
    /\ \/ SeenStop /\ Enter([Go("shut_stop") EXCEPT !.confirmed = TRUE])
       \/ Enter(Go("shut_stop"))
    /\ UNCHANGED robotVars
ConfirmForever ==
    /\ episode.pc = "confirm"
    /\ ~http
    /\ SeenStop
    /\ Enter([Go("shut_stop") EXCEPT !.confirmed = TRUE])
    /\ UNCHANGED robotVars

Confirm ==
    /\ episode.pc = "confirm"
    /\ ~http
    /\ \/ SeenStop /\ Enter([Go("shut_stop") EXCEPT !.confirmed = TRUE])
       \/ Enter([Go("shut_stop") EXCEPT !.reason =
                    IF @ = "goal_tolerance" THEN "unconfirmed_stop" ELSE @])
    /\ UNCHANGED robotVars

\* Mutant: what the logger failed to receive does not count.
ReportAnyContacts ==
    /\ episode.pc = "report"
    /\ Enter([Go("over") EXCEPT !.counted = logger # "off" /\ episode.started])
    /\ UNCHANGED robotVars

\* finish_contacts: a logger that lost messages is an error.
GazeboReport ==
    Enter(CASE logger = "running" -> [Go("over") EXCEPT !.counted = TRUE]
            [] logger = "broken"  -> [OneError(episode) EXCEPT !.pc = "over"]
            [] logger = "off"     -> Go("over"))

\* attach_contacts, once the simulator has exited: a log with errors, or an
\* episode without a measurement window, is refused.
IsaacReport ==
    Enter([Go("over") EXCEPT !.counted = logger = "running" /\ episode.started])

Report ==
    /\ episode.pc = "report"
    /\ IF sim = "gazebo" THEN GazeboReport ELSE IsaacReport
    /\ UNCHANGED robotVars

MainStep ==
    \/ Reset \/ WaitPose \/ StartContacts \/ WaitEmbedding
    \/ IssueCall \/ Return \/ DriveEnds \/ Confirm \/ Report
------------------------------------------------------------------------------
(* The subscriptions.                                                        *)

Spinning ==
    /\ ~http
    /\ \/ call # None
       \/ episode.pc \in {"pose", "embedding", "drive", "confirm"}

OnPose ==
    /\ Spinning
    /\ pose = None \/ Moving
    /\ pose' \in {"near", "far"}
    /\ UNCHANGED <<robotVars, sim, episode, seen, http, logger>>

OnCommand ==
    /\ Spinning
    /\ seen' = IF cmd THEN "moving" ELSE "still"
    /\ UNCHANGED <<robotVars, sim, episode, pose, http, logger>>

\* The edge goes on about its old goal until it has the one published here.
OnObservation ==
    /\ Spinning
    /\ episode.published < MaxPublished
    /\ \/ episode.goalSent /\ http' = TRUE /\ UNCHANGED episode
       \/ episode' = OneError(episode) /\ UNCHANGED http
    /\ UNCHANGED <<robotVars, sim, pose, seen, logger>>

\* Mutant: what fails after the publication is not noted.
AnswerLosesError ==
    /\ http
    /\ http' = FALSE
    /\ \/ /\ episode' \in {[episode EXCEPT !.published = @ + 1, !.inferred = @ + 1],
                           [episode EXCEPT !.published = @ + 1]}
       \/ episode' = OneError(episode)
    /\ UNCHANGED <<robotVars, sim, pose, seen, logger>>

\* The answer is published before it is recorded, and what is missing for the
\* record only raises then; no answer within 8 s is an error.
Answer ==
    /\ http
    /\ http' = FALSE
    /\ \/ episode' = [episode EXCEPT !.published = @ + 1, !.inferred = @ + 1]
       \/ episode' = [OneError(episode) EXCEPT !.published = @ + 1]
       \/ episode' = OneError(episode)
    /\ UNCHANGED <<robotVars, sim, pose, seen, logger>>
------------------------------------------------------------------------------
(* The logger and the clock.                                                 *)

LoggerBreaks ==
    /\ logger = "running"
    /\ episode.pc # "over"
    /\ logger' = "broken"
    /\ UNCHANGED <<robotVars, sim, episode, pose, seen, http>>

SeenAges ==
    /\ seen' = None
    /\ UNCHANGED <<robotVars, sim, episode, pose, http, logger>>

Next ==
    \/ MainStep
    \/ OnPose \/ OnCommand \/ OnObservation \/ Answer
    \/ LoggerBreaks \/ SeenAges
    \/ RobotStep /\ UNCHANGED episodeVars

Spec == Init /\ [][Next]_vars

\* run looks at its deadline after every callback it has served, so callbacks
\* cannot keep it from its next step for ever; a request has a deadline of its
\* own, and a server that stays works off its queue.
Fairness ==
    /\ SF_vars(MainStep)
    /\ WF_vars(Answer)
    /\ \A s \in Services : WF_vars(Serve(s) /\ UNCHANGED episodeVars)

FairSpec == Spec /\ Fairness
------------------------------------------------------------------------------
(* Properties.                                                               *)

\* score_episode, and the episodes validate_live lets pass.
Success == pose = "near" /\ episode.reason = "goal_tolerance"
Over == episode.pc = "over"
Clean == Over /\ episode.errors = 0

\* An episode without errors that is scored as a success has seen the stop it
\* is scored for.  (run's unconfirmed_stop, score_episode, validate)
SuccessIsConfirmed == Clean /\ Success => episode.confirmed

\* The motor is powered only while the follower is held: neither a stop call
\* that timed out nor a release an earlier episode left behind can have let it
\* go.  (run's checked calls, set_bool)
PoweredGated ==
    (episode.pc = "power" \/ (episode.pc = "release" /\ call = None)) => gated

\* The audit's count of embeddings is the count of the inferences it lists.
\* (_observation's partial failure, validate)
CountsAgree == Clean => episode.published = episode.inferred

\* Collisions are reported only from a log that lost nothing from before the
\* start of the drive to its end.
\* (start_contacts, finish_contacts, attach_contacts)
CountedMeansWatched ==
    Over /\ episode.counted => logger = "running" /\ (sim = "isaac" => episode.started)

\* The request waited for is the last of its queue and asks for what the stage
\* asks for; once a stop call is answered, the hold is what it asked for.
CallsInOrder ==
    /\ \A s \in Services : \A i \in DOMAIN queue[s] :
           queue[s][i].awaited =>
               /\ i = Len(queue[s])
               /\ call # None
               /\ call.service = s
               /\ call.answer = None
               /\ queue[s][i].value = Calls[episode.pc].value
    /\ call # None /\ call.service = "follower_stop" /\ call.answer # None =>
           /\ queue["follower_stop"] = <<>>
           /\ gated = Calls[episode.pc].value

\* From the answer to the first stop call to the release no request can let the
\* follower go.
HeldSinceGate ==
    \/ episode.pc \in {"contacts", "embedding", "power"}
    \/ episode.pc = "release" /\ call = None
    => gated /\ queue["follower_stop"] = <<>>

\* What the episode has noted of its run so far.
NotedSoFar ==
    /\ episode.errors = 0 => episode.published = episode.inferred
    /\ episode.errors = 0 /\ episode.reason = "goal_tolerance"
           /\ episode.pc \notin {"stop", "confirm"} => episode.confirmed
    /\ episode.counted => Over

\* The inductive invariant: what an episode reports is what it has seen, and
\* why PoweredGated holds.
EpisodeInv ==
    /\ TypeOK
    /\ CallsInOrder
    /\ HeldSinceGate
    /\ NotedSoFar
    /\ SuccessIsConfirmed
    /\ CountsAgree
    /\ CountedMeansWatched

\* A run ends: every wait in it has a deadline.  (spin_until, set_bool, run)
EveryRunEnds == <>(episode.pc \in {"over", "died"})

\* After a run the robot comes to rest, also when the calls of the shutdown
\* were given up before they were executed.  (run's finally, set_bool)
RestsAfterwards ==
    Over ~> ((gated /\ ~power) \/ refused \/ up # Services)
================================================================================
