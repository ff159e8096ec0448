--------------------------- MODULE LiveEpisodeProofs ---------------------------
(***************************************************************************)
(* Proofs about LiveEpisode for any number of errors and of answers, with  *)
(* whatever an earlier episode may have left in the queues.                *)
(***************************************************************************)
EXTENDS LiveEpisode, SequenceTheorems, TLAPS

Stop == "follower_stop"

\* What the stages ask for.
LEMMA CallFacts ==
    /\ \A c \in CallStages : /\ Calls[c].service \in Services
                             /\ Calls[c].value \in BOOLEAN
    /\ Calls["gate"].service = Stop /\ Calls["gate"].value = TRUE
    /\ Calls["gate"].checked = TRUE
    /\ Calls["power"].service = "motor_power"
    /\ Calls["release"].service = Stop
  BY DEF Calls, CallStages, Services, Stop

(***************************************************************************)
(* The queues of the services.                                             *)
(***************************************************************************)

\* A request goes to the end of its queue, unexecuted ones stay before it.
LEMMA RequestFields ==
    ASSUME RobotType, NEW s \in Services, NEW v \in BOOLEAN, Request(s, v)
    PROVE  /\ queue' \in [Services -> Seq(Message)]
           /\ \A t \in Services \ {s} : queue'[t] = queue[t]
           /\ Len(queue'[s]) = Len(queue[s]) + 1
           /\ \A i \in 1 .. Len(queue[s]) : queue'[s][i] = queue[s][i]
           /\ queue'[s][Len(queue'[s])] = [value |-> v, awaited |-> TRUE]
           /\ call' = [service |-> s, answer |-> None]
           /\ UNCHANGED <<up, gated, power, cmd, refused>>
<1> DEFINE m == [value |-> v, awaited |-> TRUE]
<1>1. queue[s] \in Seq(Message) /\ m \in Message
  BY DEF RobotType, Message
<1>2. queue' = [queue EXCEPT ![s] = Append(queue[s], m)]
  BY DEF Request
<1> HIDE DEF m
<1>3. /\ Append(queue[s], m) \in Seq(Message)
      /\ Len(Append(queue[s], m)) = Len(queue[s]) + 1
      /\ \A i \in 1 .. Len(queue[s]) : Append(queue[s], m)[i] = queue[s][i]
      /\ Append(queue[s], m)[Len(queue[s]) + 1] = m
  BY <1>1, AppendProperties
<1>4. queue'[s] = Append(queue[s], m) /\ \A t \in Services \ {s} : queue'[t] = queue[t]
  BY <1>2 DEF RobotType
<1>5. queue' \in [Services -> Seq(Message)]
  BY <1>2, <1>3 DEF RobotType
<1> QED
  BY <1>3, <1>4, <1>5 DEF Request, m

\* Giving up, or having been answered, leaves the requests where they are.
LEMMA StopWaitingFields ==
    ASSUME RobotType, call # None, StopWaiting
    PROVE  /\ queue' \in [Services -> Seq(Message)]
           /\ \A t \in Services : Len(queue'[t]) = Len(queue[t])
           /\ \A t \in Services : t # call.service => queue'[t] = queue[t]
           /\ \A i \in DOMAIN queue'[call.service] : queue'[call.service][i].awaited = FALSE
           /\ call' = None
           /\ UNCHANGED <<up, gated, power, cmd, refused>>
<1> DEFINE s == call.service
           old == queue[s]
           new == [i \in DOMAIN old |-> [old[i] EXCEPT !.awaited = FALSE]]
<1>1. s \in Services /\ old \in Seq(Message)
  BY DEF RobotType, Waiting
<1>2. DOMAIN old = 1 .. Len(old) /\ Len(old) \in Nat /\ \A i \in 1 .. Len(old) : old[i] \in Message
  BY <1>1
<1>3. \A i \in 1 .. Len(old) : new[i] \in Message /\ new[i].awaited = FALSE
  BY <1>2 DEF Message
<1>4. new \in Seq(Message) /\ Len(new) = Len(old) /\ DOMAIN new = 1 .. Len(old)
  <2>1. new = [i \in 1 .. Len(old) |-> [old[i] EXCEPT !.awaited = FALSE]]
    BY <1>2
  <2>2. new \in [1 .. Len(old) -> Message]
    BY <1>2, <1>3, <2>1
  <2> QED
    BY <1>2, <2>2, SeqDef, LenProperties
<1>5. queue' = [queue EXCEPT ![s] = new]
  BY DEF StopWaiting
<1> HIDE DEF new
<1>6. queue'[s] = new /\ \A t \in Services : t # s => queue'[t] = queue[t]
  BY <1>1, <1>5 DEF RobotType
<1>7. queue' \in [Services -> Seq(Message)]
  BY <1>1, <1>4, <1>5 DEF RobotType
<1> QED
  BY <1>1, <1>3, <1>4, <1>6, <1>7 DEF StopWaiting

\* A server executes the first request of its queue.
LEMMA ServeFields ==
    ASSUME RobotType, NEW s \in Services, Serve(s)
    PROVE  /\ queue' \in [Services -> Seq(Message)]
           /\ \A t \in Services \ {s} : queue'[t] = queue[t]
           /\ queue[s] # <<>>
           /\ Len(queue'[s]) = Len(queue[s]) - 1
           /\ \A i \in 1 .. Len(queue'[s]) : queue'[s][i] = queue[s][i + 1]
           /\ Len(queue[s]) = 1 => queue'[s] = <<>>
           /\ gated' = IF s = Stop THEN queue[s][1].value ELSE gated
           /\ power' \in BOOLEAN /\ refused' \in BOOLEAN
           /\ \E accepted \in BOOLEAN :
                 call' = IF queue[s][1].awaited THEN [call EXCEPT !.answer = accepted] ELSE call
           /\ UNCHANGED <<up, cmd>>
<1>1. queue[s] \in Seq(Message) /\ queue[s] # <<>>
  BY DEF RobotType, Serve
<1>2. /\ Tail(queue[s]) \in Seq(Message)
      /\ Len(Tail(queue[s])) = Len(queue[s]) - 1
      /\ \A i \in 1 .. Len(Tail(queue[s])) : Tail(queue[s])[i] = queue[s][i + 1]
      /\ Head(queue[s]) = queue[s][1] /\ Head(queue[s]) \in Message
  BY <1>1, HeadTailProperties
<1>3. Len(queue[s]) = 1 => Tail(queue[s]) = <<>>
  BY <1>2, EmptySeq
<1>4. queue' = [queue EXCEPT ![s] = Tail(queue[s])]
  BY DEF Serve
<1>5. queue'[s] = Tail(queue[s]) /\ \A t \in Services \ {s} : queue'[t] = queue[t]
  BY <1>4 DEF RobotType
<1>6. queue' \in [Services -> Seq(Message)]
  BY <1>2, <1>4 DEF RobotType
<1>7. PICK accepted \in BOOLEAN :
        /\ call' = IF Head(queue[s]).awaited THEN [call EXCEPT !.answer = accepted] ELSE call
        /\ gated' = IF s = "follower_stop" THEN Head(queue[s]).value ELSE gated
        /\ power' = IF s = "motor_power" /\ accepted THEN Head(queue[s]).value ELSE power
        /\ refused' = (refused \/ ~accepted)
  BY DEF Serve
<1>8. power' \in BOOLEAN /\ refused' \in BOOLEAN
  BY <1>2, <1>7 DEF RobotType, Message
<1> QED
  BY <1>1, <1>2, <1>3, <1>5, <1>6, <1>7, <1>8 DEF Serve, Stop

\* A request that is waited for is executed when it is the first, and then it
\* was the only one.
LEMMA ServeAnswers ==
    ASSUME RobotType, CallsInOrder, NEW s \in Services, Serve(s), queue[s][1].awaited
    PROVE  /\ Len(queue[s]) = 1
           /\ call \in Waiting /\ call.service = s /\ call.answer = None
           /\ queue[s][1].value = Calls[episode.pc].value
<1>1. queue[s] \in Seq(Message) /\ queue[s] # <<>>
  BY DEF RobotType, Serve
<1>2. 1 \in DOMAIN queue[s]
  BY <1>1, EmptySeq
<1> QED
  BY <1>2 DEF CallsInOrder, RobotType

(***************************************************************************)
(* The episode.                                                            *)
(***************************************************************************)

LEMMA OneErrorFields ==
    ASSUME NEW e \in Episode
    PROVE  /\ OneError(e) \in Episode /\ OneError(e).errors > 0
           /\ OneError(e).pc = e.pc /\ OneError(e).counted = e.counted
           /\ OneError(e).started = e.started /\ OneError(e).reason = e.reason
           /\ OneError(e).published = e.published /\ OneError(e).inferred = e.inferred
<1> DEFINE n == IF e.errors < MaxErrors THEN e.errors + 1 ELSE e.errors
<1>1. n \in 0 .. MaxErrors /\ n > 0
  BY EpisodeAssumption DEF Episode
<1>2. OneError(e) = [e EXCEPT !.errors = n]
  BY DEF OneError
<1> HIDE DEF n
<1> QED
  BY <1>1, <1>2 DEF Episode

LEMMA RaiseFields ==
    ASSUME NEW e \in Episode
    PROVE  /\ Raise(e) \in Episode /\ Raise(e).errors > 0
           /\ Raise(e).pc \in {"report", "shut_stop"} /\ Raise(e).counted = e.counted
<1> DEFINE o == OneError(e)
           stage == IF e.pc \in {"shut_stop", "shut_motor"} THEN "report" ELSE "shut_stop"
<1>1. o \in Episode /\ o.errors > 0 /\ o.pc = e.pc /\ o.counted = e.counted
  BY OneErrorFields
<1>2. Raise(e) = [o EXCEPT !.pc = IF o.pc \in {"shut_stop", "shut_motor"}
                                  THEN "report" ELSE "shut_stop"]
  BY DEF Raise
<1> HIDE DEF o
<1>3. Raise(e) = [o EXCEPT !.pc = stage]
  BY <1>1, <1>2
<1>4. stage \in Stages /\ stage \in {"report", "shut_stop"}
  BY DEF Stages, CallStages
<1> HIDE DEF stage
<1> QED
  BY <1>1, <1>3, <1>4 DEF Episode

\* Where an answered call leads.
LEMMA AfterCallFields ==
    ASSUME episode \in Episode, episode.pc \in CallStages
    PROVE  /\ AfterCall \in Episode
           /\ AfterCall.errors = episode.errors /\ AfterCall.counted = episode.counted
           /\ AfterCall.published = episode.published /\ AfterCall.inferred = episode.inferred
           /\ AfterCall.confirmed = episode.confirmed
           /\ AfterCall.reason = IF episode.pc = "release" THEN "timeout" ELSE episode.reason
           /\ episode.pc = "gate" => AfterCall.pc \in {"contacts", "embedding"}
           /\ episode.pc = "power" => AfterCall.pc = "release"
           /\ episode.pc = "release" => AfterCall.pc = "drive"
           /\ episode.pc = "stop" => AfterCall.pc = "confirm"
           /\ episode.pc = "shut_stop" => AfterCall.pc = "shut_motor"
           /\ episode.pc = "shut_motor" => AfterCall.pc = "report"
<1>1. CASE episode.pc = "gate"
  <2>1. AfterCall = IF sim = "gazebo" THEN [episode EXCEPT !.pc = "contacts"]
                    ELSE [[episode EXCEPT !.pc = "embedding"] EXCEPT !.goalSent = TRUE]
    BY <1>1 DEF AfterCall, Go, GoalPublished
  <2> QED
    BY <1>1, <2>1 DEF Episode, Stages
<1>2. CASE episode.pc = "release"
  <2>1. AfterCall = [[episode EXCEPT !.pc = "drive"] EXCEPT !.reason = "timeout"]
    BY <1>2 DEF AfterCall, Go
  <2> QED
    BY <1>2, <2>1 DEF Episode, Stages
<1>3. CASE episode.pc \in {"power", "stop", "shut_stop", "shut_motor"}
  <2>1. PICK stage \in {"release", "confirm", "shut_motor", "report"} :
          /\ AfterCall = [episode EXCEPT !.pc = stage]
          /\ episode.pc = "power" => stage = "release"
          /\ episode.pc = "stop" => stage = "confirm"
          /\ episode.pc = "shut_stop" => stage = "shut_motor"
          /\ episode.pc = "shut_motor" => stage = "report"
    BY <1>3 DEF AfterCall, Go
  <2> QED
    BY <1>3, <2>1 DEF Episode, Stages, CallStages
<1> QED
  BY <1>1, <1>2, <1>3 DEF CallStages

\* What a step of the main thread does to the record of the episode, and when.
LEMMA MainFields ==
    ASSUME TypeOK, MainStep
    PROVE  /\ episode' \in Episode
           /\ UNCHANGED <<sim, pose, seen, http>>
           /\ logger' \in {"off", "running", "broken"}
           /\ episode.pc \notin {"report", "over"} => episode'.counted = episode.counted
           /\ ~Report => episode'.pc # "over" /\ episode.pc \notin {"report", "over"}
           /\ \/ episode'.errors > 0
              \/ /\ episode'.errors = episode.errors
                 /\ episode'.published = episode.published
                 /\ episode'.inferred = episode.inferred
                 /\ \/ /\ episode'.reason = episode.reason
                       /\ episode'.confirmed = episode.confirmed
                       /\ episode.pc \notin {"stop", "confirm"} \/ episode'.pc \in {"stop", "confirm"}
                    \/ episode'.reason # "goal_tolerance"
                    \/ episode'.confirmed
                    \/ episode'.pc = "stop"
<1> USE DEF TypeOK, EpisodeType
<1>1. CASE Reset
  <2>1. PICK stage \in {"pose", "died"} : episode' = [episode EXCEPT !.pc = stage]
    BY <1>1 DEF Reset, Enter, Go
  <2>2. stage \in Stages
    BY DEF Stages
  <2> QED
    BY <1>1, <2>1, <2>2 DEF Reset, Enter, Episode
<1>2. CASE WaitPose
  <2>1. episode' \in {[episode EXCEPT !.pc = "gate"], Raise(episode)}
    BY <1>2 DEF WaitPose, Enter, Go
  <2>2. "gate" \in Stages
    BY DEF Stages, CallStages
  <2> QED
    BY <1>2, <2>1, <2>2, RaiseFields DEF WaitPose, Enter, Episode
<1>3. CASE StartContacts
  <2>1. episode' \in {[[episode EXCEPT !.pc = "embedding"] EXCEPT !.goalSent = TRUE], Raise(episode)}
    BY <1>3 DEF StartContacts, GoalPublished, Go
  <2>2. "embedding" \in Stages
    BY DEF Stages
  <2> QED
    BY ZenonT(60), <1>3, <2>1, <2>2, RaiseFields DEF StartContacts, Episode
<1>4. CASE WaitEmbedding
  <2>1. episode' \in {[[episode EXCEPT !.pc = "power"] EXCEPT !.started = TRUE], Raise(episode)}
    BY <1>4 DEF WaitEmbedding, Enter, Go
  <2>2. "power" \in Stages
    BY DEF Stages, CallStages
  <2> QED
    BY ZenonT(60), <1>4, <2>1, <2>2, RaiseFields DEF WaitEmbedding, Enter, Episode
<1>5. CASE IssueCall
  <2>1. episode' \in {episode, Raise(episode)} /\ UNCHANGED <<sim, pose, seen, http, logger>>
        /\ episode.pc \in CallStages
    BY <1>5 DEF IssueCall, Enter
  <2> QED
    BY <2>1, RaiseFields DEF CallStages
<1>6. CASE Return
  <2>1. episode' \in {AfterCall, Raise(episode)} /\ UNCHANGED <<sim, pose, seen, http, logger>>
        /\ episode.pc \in CallStages
    BY <1>6 DEF Return, Enter
  <2> QED
    BY <2>1, AfterCallFields, RaiseFields DEF CallStages
<1>7. CASE DriveEnds
  <2>1. episode' \in {[[episode EXCEPT !.pc = "stop"] EXCEPT !.reason = "goal_tolerance"],
                      [[episode EXCEPT !.pc = "stop"] EXCEPT !.reason = "remote_error"],
                      [episode EXCEPT !.pc = "stop"]}
    BY <1>7 DEF DriveEnds, Enter, Go
  <2>2. "stop" \in Stages
    BY DEF Stages, CallStages
  <2> QED
    BY <1>7, <2>1, <2>2 DEF DriveEnds, Enter, Episode
<1>8. CASE Confirm
  <2>1. \/ episode' = [[episode EXCEPT !.pc = "shut_stop"] EXCEPT !.confirmed = TRUE]
        \/ episode' = [[episode EXCEPT !.pc = "shut_stop"] EXCEPT !.reason =
                          IF episode.reason = "goal_tolerance" THEN "unconfirmed_stop"
                          ELSE episode.reason]
    BY <1>8 DEF Confirm, Enter, Go, Episode
  <2>2. "shut_stop" \in Stages
    BY DEF Stages, CallStages
  <2> QED
    BY ZenonT(60), <1>8, <2>1, <2>2 DEF Confirm, Enter, Episode
<1>9. CASE Report
  <2>1. UNCHANGED <<sim, pose, seen, http, logger>> /\ episode.pc = "report"
    BY <1>9 DEF Report, GazeboReport, IsaacReport, Enter
  <2>2. PICK b \in BOOLEAN :
          episode' \in {[[episode EXCEPT !.pc = "over"] EXCEPT !.counted = b],
                        [OneError(episode) EXCEPT !.pc = "over"],
                        [episode EXCEPT !.pc = "over"]}
    BY <1>9 DEF Report, GazeboReport, IsaacReport, Enter, Go
  <2>3. "over" \in Stages
    BY DEF Stages
  <2>4. OneError(episode) \in Episode /\ OneError(episode).errors > 0
    BY OneErrorFields
  <2>5. CASE episode' = [OneError(episode) EXCEPT !.pc = "over"]
    BY <1>9, <2>1, <2>3, <2>4, <2>5 DEF Episode
  <2>6. CASE episode' \in {[[episode EXCEPT !.pc = "over"] EXCEPT !.counted = b],
                           [episode EXCEPT !.pc = "over"]}
    BY <1>9, <2>1, <2>3, <2>6 DEF Episode
  <2> QED
    BY <2>2, <2>5, <2>6
<1> QED
  BY <1>1, <1>2, <1>3, <1>4, <1>5, <1>6, <1>7, <1>8, <1>9 DEF MainStep

\* The main thread touches the services in one of three ways.
LEMMA MainRobot ==
    ASSUME TypeOK, MainStep
    PROVE  \/ UNCHANGED robotVars /\ call = None
           \/ /\ episode' = episode /\ call = None /\ episode.pc \in CallStages
              /\ Request(Calls[episode.pc].service, Calls[episode.pc].value)
           \/ Return /\ call # None /\ StopWaiting /\ episode.pc \in CallStages
<1> USE DEF TypeOK
<1>1. CASE IssueCall
  BY <1>1 DEF IssueCall, Enter
<1>2. CASE Return
  BY <1>2 DEF Return
<1>3. CASE \/ Reset \/ WaitPose \/ StartContacts \/ WaitEmbedding \/ DriveEnds \/ Confirm \/ Report
  <2>1. UNCHANGED robotVars /\ episode.pc \notin CallStages
    BY <1>3 DEF Reset, WaitPose, StartContacts, WaitEmbedding, DriveEnds, Confirm, Report,
       CallStages
  <2> QED
    BY <2>1
<1> QED
  BY <1>1, <1>2, <1>3 DEF MainStep

\* The subscriptions, the logger and the clock leave the services alone.
CallbackStep ==
    OnPose \/ OnCommand \/ OnObservation \/ Answer \/ LoggerBreaks \/ SeenAges

LEMMA CallbackFields ==
    ASSUME TypeOK, CallbackStep
    PROVE  /\ EpisodeType'
           /\ UNCHANGED <<robotVars, sim>>
           /\ episode'.pc = episode.pc /\ episode'.counted = episode.counted
           /\ episode'.reason = episode.reason /\ episode'.confirmed = episode.confirmed
           /\ episode'.started = episode.started
           /\ episode.pc = "over" => UNCHANGED logger
           /\ episode'.errors = 0 =>
                  /\ episode.errors = 0
                  /\ episode.published = episode.inferred => episode'.published = episode'.inferred
<1> USE DEF TypeOK, EpisodeType
<1>1. CASE OnPose \/ OnCommand \/ LoggerBreaks \/ SeenAges
  BY <1>1 DEF OnPose, OnCommand, LoggerBreaks, SeenAges
<1>2. CASE OnObservation
  <2>1. /\ UNCHANGED <<robotVars, sim, pose, seen, logger>> /\ http' \in BOOLEAN
        /\ episode' \in {episode, OneError(episode)}
    BY <1>2 DEF OnObservation
  <2>2. OneError(episode).confirmed = episode.confirmed
    BY DEF OneError, Episode
  <2> QED
    BY <2>1, <2>2, OneErrorFields
<1>3. CASE Answer
  <2>1. /\ UNCHANGED <<robotVars, sim, pose, seen, logger>> /\ http' \in BOOLEAN
        /\ \/ episode' = [episode EXCEPT !.published = episode.published + 1,
                                         !.inferred = episode.inferred + 1]
           \/ episode' = [OneError(episode) EXCEPT !.published = OneError(episode).published + 1]
           \/ episode' = OneError(episode)
    BY <1>3 DEF Answer
  <2>2. /\ OneError(episode) \in Episode /\ OneError(episode).errors > 0
        /\ OneError(episode).confirmed = episode.confirmed
    BY OneErrorFields DEF OneError, Episode
  <2>3. episode.published + 1 \in Nat /\ episode.inferred + 1 \in Nat
    BY DEF Episode
  <2>4. CASE episode' = [episode EXCEPT !.published = episode.published + 1,
                                        !.inferred = episode.inferred + 1]
    BY <2>1, <2>3, <2>4 DEF Episode
  <2>5. CASE episode' = OneError(episode)
    BY <2>1, <2>2, <2>5, OneErrorFields
  <2>6. CASE episode' = [OneError(episode) EXCEPT !.published = OneError(episode).published + 1]
    <3>1. OneError(episode).published + 1 \in Nat
      BY <2>2 DEF Episode
    <3>2. /\ OneError(episode).pc = episode.pc /\ OneError(episode).counted = episode.counted
          /\ OneError(episode).started = episode.started
          /\ OneError(episode).reason = episode.reason
      BY OneErrorFields
    <3> QED
      BY <2>1, <2>2, <2>6, <3>1, <3>2 DEF Episode
  <2> QED
    BY <2>1, <2>4, <2>5, <2>6
<1> QED
  BY <1>1, <1>2, <1>3 DEF CallbackStep

(***************************************************************************)
(* The invariant, step by step.                                            *)
(***************************************************************************)

LEMMA TypesStep ==
    ASSUME EpisodeInv, Next
    PROVE  TypeOK'
<1> USE DEF EpisodeInv
<1>1. CASE MainStep
  <2>1. EpisodeType'
    BY <1>1, MainFields DEF TypeOK, EpisodeType
  <2>2. CASE UNCHANGED robotVars /\ call = None
    BY <2>1, <2>2 DEF TypeOK, RobotType, robotVars
  <2>3. CASE /\ episode' = episode /\ call = None /\ episode.pc \in CallStages
             /\ Request(Calls[episode.pc].service, Calls[episode.pc].value)
    <3> DEFINE s == Calls[episode.pc].service
               v == Calls[episode.pc].value
    <3>1. s \in Services /\ v \in BOOLEAN
      BY <2>3, CallFacts
    <3>2. Request(s, v) /\ RobotType
      BY <2>3 DEF TypeOK
    <3> HIDE DEF v
    <3>3. /\ queue' \in [Services -> Seq(Message)]
          /\ call' = [service |-> s, answer |-> None]
          /\ UNCHANGED <<up, gated, power, cmd, refused>>
      BY <3>1, <3>2, RequestFields
    <3> QED
      BY <2>1, <2>3, <3>1, <3>2, <3>3 DEF TypeOK, RobotType, Waiting
  <2>4. CASE call # None /\ StopWaiting
    BY <2>1, <2>4, StopWaitingFields DEF TypeOK, RobotType
  <2> QED
    BY <1>1, <2>2, <2>3, <2>4, MainRobot
<1>2. CASE CallbackStep
  BY <1>2, CallbackFields DEF TypeOK, RobotType, robotVars
<1>3. CASE RobotStep /\ UNCHANGED episodeVars
  <2>1. EpisodeType' /\ UNCHANGED episode
    BY <1>3 DEF TypeOK, EpisodeType, episodeVars
  <2>2. ASSUME NEW s \in Services, Serve(s)
        PROVE  TypeOK'
    <3>1. PICK accepted \in BOOLEAN :
            call' = IF queue[s][1].awaited THEN [call EXCEPT !.answer = accepted] ELSE call
      BY <2>2, ServeFields DEF TypeOK
    <3>2. /\ call' \in Waiting \cup {None}
          /\ call' # None => call # None /\ call'.service = call.service
      <4>1. CASE queue[s][1].awaited
        BY <2>2, <3>1, <4>1, ServeAnswers, RobotAssumption DEF TypeOK, Waiting
      <4>2. CASE ~queue[s][1].awaited
        BY <3>1, <4>2 DEF TypeOK, RobotType
      <4> QED
        BY <4>1, <4>2
    <3>3. gated' \in BOOLEAN
      <4>1. queue[s] \in Seq(Message) /\ queue[s] # <<>>
        BY <2>2 DEF TypeOK, RobotType, Serve
      <4>2. queue[s][1] \in Message
        BY <4>1, EmptySeq
      <4> QED
        BY <2>2, <4>2, ServeFields DEF TypeOK, RobotType, Message
    <3> QED
      BY <2>1, <2>2, <3>2, <3>3, ServeFields DEF TypeOK, RobotType
  <2>3. ASSUME NEW s \in Services, Vanish(s)
        PROVE  TypeOK'
    <3>1. <<>> \in Seq(Message)
      BY EmptySeq
    <3> QED
      BY <2>1, <2>3, <3>1 DEF TypeOK, RobotType, Vanish
  <2>4. CASE FollowerTick
    BY <2>1, <2>4 DEF TypeOK, RobotType, FollowerTick
  <2> QED
    BY <1>3, <2>2, <2>3, <2>4 DEF RobotStep
<1> QED
  BY <1>1, <1>2, <1>3 DEF Next, CallbackStep

\* One request more or less in the queues, one step further in the stages.
LEMMA CallsStep ==
    ASSUME EpisodeInv, Next
    PROVE  CallsInOrder'
<1> USE DEF EpisodeInv
<1>0. RobotType /\ \A s \in Services : queue[s] \in Seq(Message)
  BY DEF TypeOK, RobotType
<1>1. CASE MainStep
  <2>2. CASE UNCHANGED robotVars /\ call = None
    BY <2>2 DEF CallsInOrder, robotVars
  <2>3. CASE /\ episode' = episode /\ call = None /\ episode.pc \in CallStages
             /\ Request(Calls[episode.pc].service, Calls[episode.pc].value)
    <3> DEFINE s == Calls[episode.pc].service
               v == Calls[episode.pc].value
    <3>1. s \in Services /\ v \in BOOLEAN
      BY <2>3, CallFacts
    <3>2. /\ queue' \in [Services -> Seq(Message)]
          /\ \A t \in Services \ {s} : queue'[t] = queue[t]
          /\ Len(queue'[s]) = Len(queue[s]) + 1
          /\ \A i \in 1 .. Len(queue[s]) : queue'[s][i] = queue[s][i]
          /\ queue'[s][Len(queue'[s])] = [value |-> v, awaited |-> TRUE]
          /\ call' = [service |-> s, answer |-> None]
      BY <1>0, <2>3, <3>1, RequestFields
    <3>3. \A t \in Services : \A i \in DOMAIN queue[t] : ~queue[t][i].awaited
      BY <2>3 DEF CallsInOrder
    <3>4. \A t \in Services : DOMAIN queue[t] = 1 .. Len(queue[t]) /\ Len(queue[t]) \in Nat
      BY <1>0
    <3>5. call' # None /\ call'.service = s /\ call'.answer = None
      BY <3>1, <3>2, RobotAssumption DEF Waiting
    <3>6. ASSUME NEW t \in Services, NEW i \in DOMAIN queue'[t], queue'[t][i].awaited
          PROVE  t = s /\ i = Len(queue'[t]) /\ queue'[t][i].value = v
      <4>1. t = s
        BY <3>2, <3>3, <3>6
      <4>2. i \in 1 .. Len(queue[s]) + 1
        BY <3>1, <3>2, <4>1
      <4>3. i \notin 1 .. Len(queue[s])
        BY <3>1, <3>2, <3>3, <3>4, <3>6, <4>1
      <4> QED
        BY <3>1, <3>2, <3>4, <4>1, <4>2, <4>3
    <3> QED
      BY <2>3, <3>5, <3>6 DEF CallsInOrder
  <2>4. CASE call # None /\ StopWaiting
    <3>1. /\ \A t \in Services : t # call.service => queue'[t] = queue[t]
          /\ \A i \in DOMAIN queue'[call.service] : queue'[call.service][i].awaited = FALSE
          /\ call' = None
      BY <1>0, <2>4, StopWaitingFields
    <3> QED
      BY <3>1 DEF CallsInOrder
  <2> QED
    BY <1>1, <2>2, <2>3, <2>4, MainRobot
<1>2. CASE CallbackStep
  BY <1>2, CallbackFields DEF CallsInOrder, robotVars
<1>3. ASSUME NEW s \in Services, Serve(s), UNCHANGED episodeVars
      PROVE  CallsInOrder'
  <2>1. /\ queue' \in [Services -> Seq(Message)]
        /\ \A t \in Services \ {s} : queue'[t] = queue[t]
        /\ Len(queue'[s]) = Len(queue[s]) - 1
        /\ \A i \in 1 .. Len(queue'[s]) : queue'[s][i] = queue[s][i + 1]
        /\ Len(queue[s]) = 1 => queue'[s] = <<>>
        /\ gated' = IF s = Stop THEN queue[s][1].value ELSE gated
        /\ queue[s] # <<>>
    BY <1>0, <1>3, ServeFields
  <2>2. PICK accepted \in BOOLEAN :
          call' = IF queue[s][1].awaited THEN [call EXCEPT !.answer = accepted] ELSE call
    BY <1>0, <1>3, ServeFields
  <2>3. UNCHANGED episode
    BY <1>3 DEF episodeVars
  <2>4. /\ DOMAIN queue[s] = 1 .. Len(queue[s]) /\ Len(queue[s]) \in Nat
        /\ DOMAIN queue'[s] = 1 .. Len(queue'[s]) /\ Len(queue'[s]) \in Nat
    BY <1>0, <2>1
  <2>5. CASE queue[s][1].awaited
    <3>1. /\ Len(queue[s]) = 1
          /\ call \in Waiting /\ call.service = s /\ call.answer = None
          /\ queue[s][1].value = Calls[episode.pc].value
      BY <1>0, <1>3, <2>5, ServeAnswers
    <3>2. call'.service = s /\ queue'[s] = <<>>
      BY <2>1, <2>2, <2>5, <3>1 DEF Waiting
    <3>3. \A t \in Services : \A i \in DOMAIN queue[t] : queue[t][i].awaited => t = s
      BY <3>1 DEF CallsInOrder
    <3>4. \A t \in Services : \A i \in DOMAIN queue'[t] : ~queue'[t][i].awaited
      BY <2>1, <3>2, <3>3, EmptySeq
    <3>5. s = Stop => gated' = Calls[episode'.pc].value
      BY <2>1, <2>3, <3>1
    <3> QED
      BY <3>2, <3>4, <3>5 DEF CallsInOrder, Stop
  <2>6. CASE ~queue[s][1].awaited
    <3>1. call' = call
      BY <2>2, <2>6
    <3>2. ASSUME NEW i \in DOMAIN queue'[s], queue'[s][i].awaited
          PROVE  i = Len(queue'[s]) /\ queue[s][i + 1].awaited /\ i + 1 \in DOMAIN queue[s]
                 /\ queue'[s][i] = queue[s][i + 1]
      <4>1. i \in 1 .. Len(queue'[s]) /\ i + 1 \in 1 .. Len(queue[s])
        BY <2>1, <2>4
      <4>2. queue'[s][i] = queue[s][i + 1]
        BY <2>1, <4>1
      <4>3. i + 1 = Len(queue[s])
        BY <2>4, <3>2, <4>1, <4>2 DEF CallsInOrder
      <4> QED
        BY <2>1, <2>4, <3>2, <4>1, <4>2, <4>3
    <3>3. call # None /\ call.service = "follower_stop" /\ call.answer # None => s # Stop
      BY <2>1 DEF CallsInOrder, Stop
    <3>4. s # Stop => gated' = gated /\ queue'["follower_stop"] = queue["follower_stop"]
      BY <2>1 DEF Stop, Services
    <3>5. \A t \in Services : \A i \in DOMAIN queue'[t] : queue'[t][i].awaited =>
              /\ i = Len(queue'[t])
              /\ call # None
              /\ call.service = t
              /\ call.answer = None
              /\ queue'[t][i].value = Calls[episode.pc].value
      BY <2>1, <3>2 DEF CallsInOrder
    <3> QED
      BY <2>3, <3>1, <3>3, <3>4, <3>5 DEF CallsInOrder
  <2> QED
    BY <2>5, <2>6
<1>4. ASSUME NEW s \in Services, Vanish(s), UNCHANGED episodeVars
      PROVE  CallsInOrder'
  <2>1. /\ queue'[s] = <<>> /\ \A t \in Services \ {s} : queue'[t] = queue[t]
        /\ UNCHANGED <<call, gated, episode>>
    BY <1>0, <1>4 DEF Vanish, RobotType, episodeVars
  <2>2. DOMAIN queue'[s] = {}
    BY <2>1, EmptySeq
  <2>3. queue["follower_stop"] = <<>> => queue'["follower_stop"] = <<>>
    BY <2>1 DEF Services
  <2> QED
    BY <2>1, <2>2, <2>3 DEF CallsInOrder
<1>5. CASE FollowerTick /\ UNCHANGED episodeVars
  BY <1>5 DEF FollowerTick, episodeVars, CallsInOrder
<1> QED
  BY <1>1, <1>2, <1>3, <1>4, <1>5 DEF Next, RobotStep, CallbackStep

\* The answer to the first stop call holds the follower, and nothing that was
\* asked for before it is left to let it go.
LEMMA HeldStep ==
    ASSUME EpisodeInv, Next
    PROVE  HeldSinceGate'
<1> USE DEF EpisodeInv
<1>0. RobotType /\ \A s \in Services : queue[s] \in Seq(Message)
  BY DEF TypeOK, RobotType
<1>1. CASE MainStep
  <2>1. CASE Reset \/ WaitPose \/ Report \/ DriveEnds \/ Confirm
    <3>1. episode'.pc \notin {"contacts", "embedding", "power", "release"}
      <4>1. Raise(episode).pc \in {"report", "shut_stop"}
        BY RaiseFields DEF TypeOK, EpisodeType
      <4>2. OneError(episode) \in Episode
        BY OneErrorFields DEF TypeOK, EpisodeType
      <4> QED
        BY <2>1, <4>1, <4>2 DEF Reset, WaitPose, Report, GazeboReport, IsaacReport, DriveEnds,
           Confirm, Enter, Go, Episode, TypeOK, EpisodeType
    <3> QED
      BY <3>1 DEF HeldSinceGate
  <2>2. CASE StartContacts \/ WaitEmbedding
    <3>1. episode.pc \in {"contacts", "embedding"} /\ UNCHANGED robotVars
      BY <2>2 DEF StartContacts, WaitEmbedding
    <3> QED
      BY <3>1 DEF HeldSinceGate, robotVars
  <2>3. CASE IssueCall
    <3>1. CASE episode' = Raise(episode)
      <4>1. Raise(episode).pc \in {"report", "shut_stop"}
        BY RaiseFields DEF TypeOK, EpisodeType
      <4> QED
        BY <3>1, <4>1 DEF HeldSinceGate
    <3>2. CASE /\ episode' = episode
               /\ Request(Calls[episode.pc].service, Calls[episode.pc].value)
      <4>1. episode.pc \in CallStages
        BY <2>3 DEF IssueCall
      <4> DEFINE s == Calls[episode.pc].service
                 v == Calls[episode.pc].value
      <4>2. s \in Services /\ v \in BOOLEAN
        BY <4>1, CallFacts
      <4>3. /\ \A t \in Services \ {s} : queue'[t] = queue[t]
            /\ call' = [service |-> s, answer |-> None] /\ gated' = gated
        BY <1>0, <3>2, <4>2, RequestFields
      <4>4. call' # None
        BY <4>2, <4>3, RobotAssumption DEF Waiting
      <4>5. episode.pc = "power" => queue'["follower_stop"] = queue["follower_stop"]
        BY <4>3, CallFacts DEF Services
      <4>6. episode.pc \notin {"contacts", "embedding"}
        BY <4>1 DEF CallStages
      <4> QED
        BY <3>2, <4>3, <4>4, <4>5, <4>6 DEF HeldSinceGate
    <3> QED
      BY <2>3, <3>1, <3>2 DEF IssueCall, Enter
  <2>4. CASE Return
    <3>1. /\ \A t \in Services : t # call.service => queue'[t] = queue[t]
          /\ \A t \in Services : Len(queue'[t]) = Len(queue[t])
          /\ queue' \in [Services -> Seq(Message)]
          /\ gated' = gated
      BY <1>0, <2>4, StopWaitingFields DEF Return
    <3>2. /\ episode.pc \in CallStages /\ call.service = Calls[episode.pc].service
          /\ call # None /\ episode \in Episode
      BY <2>4 DEF Return, TypeOK, EpisodeType
    <3>3. CASE episode' = Raise(episode)
      BY <3>2, <3>3, RaiseFields DEF HeldSinceGate
    <3>4. CASE episode' = AfterCall /\ episode.pc = "gate"
      <4>1. call.answer = TRUE
        BY <2>4, <3>2, <3>3, <3>4, CallFacts, RaiseFields, AfterCallFields DEF Return, Enter
      <4>2. queue["follower_stop"] = <<>> /\ gated
        BY <3>2, <3>4, <4>1, CallFacts, RobotAssumption DEF CallsInOrder, Stop
      <4>3. queue'["follower_stop"] = <<>>
        BY <3>1, <4>2, EmptySeq DEF Services
      <4> QED
        BY <3>1, <4>2, <4>3 DEF HeldSinceGate
    <3>5. CASE episode' = AfterCall /\ episode.pc = "power"
      <4>1. queue["follower_stop"] = <<>> /\ gated
        BY <3>5 DEF HeldSinceGate
      <4>2. queue'["follower_stop"] = queue["follower_stop"]
        BY <3>1, <3>2, <3>5, CallFacts DEF Services
      <4> QED
        BY <3>1, <4>1, <4>2 DEF HeldSinceGate
    <3>6. CASE episode' = AfterCall /\ episode.pc \notin {"gate", "power"}
      <4>1. episode'.pc \in {"drive", "confirm", "shut_motor", "report"}
        BY <3>2, <3>6, AfterCallFields DEF CallStages
      <4> QED
        BY <4>1 DEF HeldSinceGate
    <3> QED
      BY <2>4, <3>3, <3>4, <3>5, <3>6 DEF Return, Enter
  <2> QED
    BY <1>1, <2>1, <2>2, <2>3, <2>4 DEF MainStep
<1>2. CASE CallbackStep
  BY <1>2, CallbackFields DEF HeldSinceGate, robotVars
<1>3. ASSUME NEW s \in Services, Serve(s), UNCHANGED episodeVars
      PROVE  HeldSinceGate'
  <2>1. /\ \A t \in Services \ {s} : queue'[t] = queue[t]
        /\ queue[s] # <<>>
        /\ gated' = IF s = Stop THEN queue[s][1].value ELSE gated
    BY <1>0, <1>3, ServeFields
  <2>2. PICK accepted \in BOOLEAN :
          call' = IF queue[s][1].awaited THEN [call EXCEPT !.answer = accepted] ELSE call
    BY <1>0, <1>3, ServeFields
  <2>3. UNCHANGED episode
    BY <1>3 DEF episodeVars
  <2>4. call' = None => call = None
    <3>1. CASE queue[s][1].awaited
      <4>1. call \in Waiting
        BY <1>0, <1>3, <3>1, ServeAnswers
      <4>2. call' \in Waiting
        BY <2>2, <3>1, <4>1 DEF Waiting
      <4> QED
        BY <4>2, RobotAssumption
    <3> QED
      BY <2>2, <3>1
  <2>5. queue["follower_stop"] = <<>> => s # Stop /\ queue'["follower_stop"] = <<>>
    BY <2>1 DEF Stop, Services
  <2> QED
    BY <2>1, <2>3, <2>4, <2>5 DEF HeldSinceGate
<1>4. ASSUME NEW s \in Services, Vanish(s), UNCHANGED episodeVars
      PROVE  HeldSinceGate'
  <2>1. /\ queue'[s] = <<>> /\ \A t \in Services \ {s} : queue'[t] = queue[t]
        /\ UNCHANGED <<call, gated, episode>>
    BY <1>0, <1>4 DEF Vanish, RobotType, episodeVars
  <2>2. queue["follower_stop"] = <<>> => queue'["follower_stop"] = <<>>
    BY <2>1 DEF Services
  <2> QED
    BY <2>1, <2>2 DEF HeldSinceGate
<1>5. CASE FollowerTick /\ UNCHANGED episodeVars
  BY <1>5 DEF FollowerTick, episodeVars, HeldSinceGate
<1> QED
  BY <1>1, <1>2, <1>3, <1>4, <1>5 DEF Next, RobotStep, CallbackStep

LEMMA NotedStep ==
    ASSUME EpisodeInv, Next
    PROVE  NotedSoFar' /\ CountedMeansWatched'
<1> USE DEF EpisodeInv
<1>0. episode \in Episode /\ logger \in {"off", "running", "broken"} /\ sim \in {"gazebo", "isaac"}
  BY DEF TypeOK, EpisodeType
<1>1. CASE Report
  <2>1. episode.pc = "report" /\ UNCHANGED <<sim, logger>>
    BY <1>1 DEF Report, GazeboReport, IsaacReport, Enter
  <2>2. episode.counted = FALSE
    BY <1>0, <2>1 DEF NotedSoFar, Over, Episode
  <2>3. /\ OneError(episode) \in Episode /\ OneError(episode).errors > 0
        /\ OneError(episode).counted = episode.counted
    BY <1>0, OneErrorFields
  <2>4. CASE sim = "isaac"
    <3>1. episode' = [[episode EXCEPT !.pc = "over"] EXCEPT !.counted =
                         (logger = "running" /\ episode.started)]
      BY <1>1, <2>4 DEF Report, IsaacReport, Enter, Go
    <3>2. /\ episode'.pc = "over" /\ episode'.errors = episode.errors
          /\ episode'.published = episode.published /\ episode'.inferred = episode.inferred
          /\ episode'.reason = episode.reason /\ episode'.confirmed = episode.confirmed
          /\ episode'.started = episode.started
          /\ episode'.counted = (logger = "running" /\ episode.started)
      BY <1>0, <3>1 DEF Episode
    <3> QED
      BY <2>1, <3>2 DEF NotedSoFar, CountedMeansWatched, Over
  <2>5. CASE sim = "gazebo" /\ logger = "running"
    <3>1. episode' = [[episode EXCEPT !.pc = "over"] EXCEPT !.counted = TRUE]
      BY <1>1, <2>5 DEF Report, GazeboReport, Enter, Go
    <3>2. /\ episode'.pc = "over" /\ episode'.errors = episode.errors
          /\ episode'.published = episode.published /\ episode'.inferred = episode.inferred
          /\ episode'.reason = episode.reason /\ episode'.confirmed = episode.confirmed
      BY <1>0, <3>1 DEF Episode
    <3> QED
      BY <2>1, <2>5, <3>2 DEF NotedSoFar, CountedMeansWatched, Over
  <2>6. CASE sim = "gazebo" /\ logger # "running"
    <3>1. episode' \in {[OneError(episode) EXCEPT !.pc = "over"], [episode EXCEPT !.pc = "over"]}
      BY <1>0, <1>1, <2>6 DEF Report, GazeboReport, Enter, Go
    <3>2. CASE episode' = [OneError(episode) EXCEPT !.pc = "over"]
      <4>1. episode'.errors > 0 /\ episode'.counted = FALSE
        BY <2>2, <2>3, <3>2 DEF Episode
      <4> QED
        BY <4>1 DEF NotedSoFar, CountedMeansWatched, Over
    <3>3. CASE episode' = [episode EXCEPT !.pc = "over"]
      <4>1. /\ episode'.errors = episode.errors /\ episode'.counted = FALSE
            /\ episode'.published = episode.published /\ episode'.inferred = episode.inferred
            /\ episode'.reason = episode.reason /\ episode'.confirmed = episode.confirmed
        BY <1>0, <2>2, <3>3 DEF Episode
      <4> QED
        BY <2>1, <4>1 DEF NotedSoFar, CountedMeansWatched, Over
    <3> QED
      BY <3>1, <3>2, <3>3
  <2> QED
    BY <1>0, <2>4, <2>5, <2>6
<1>2. CASE MainStep /\ ~Report
  <2>1. /\ episode'.pc # "over" /\ episode.pc \notin {"report", "over"}
        /\ episode'.counted = episode.counted
    BY <1>2, MainFields
  <2>2. ~episode'.counted
    BY <2>1 DEF NotedSoFar, Over
  <2>3. /\ episode'.errors = 0 => episode'.published = episode'.inferred
        /\ episode'.errors = 0 /\ episode'.reason = "goal_tolerance"
               /\ episode'.pc \notin {"stop", "confirm"} => episode'.confirmed
    BY <1>2, MainFields DEF NotedSoFar
  <2> QED
    BY <2>1, <2>2, <2>3 DEF NotedSoFar, CountedMeansWatched, Over
<1>3. CASE CallbackStep
  BY <1>3, CallbackFields DEF NotedSoFar, CountedMeansWatched, Over
<1>4. CASE RobotStep /\ UNCHANGED episodeVars
  BY <1>4 DEF episodeVars, NotedSoFar, CountedMeansWatched, Over
<1> QED
  BY <1>1, <1>2, <1>3, <1>4 DEF Next, MainStep, CallbackStep

LEMMA EpisodeInit ==
    ASSUME Init
    PROVE  EpisodeInv
<1>1. PICK left \in Leftovers :
        queue = [s \in Services |->
                    [i \in DOMAIN left[s] |-> [value |-> left[s][i], awaited |-> FALSE]]]
  BY DEF Init, RobotInit
<1>2. \A s \in Services : left[s] \in {<<>>, <<FALSE, TRUE>>, <<TRUE, FALSE>>}
  BY DEF Leftovers, Services
<1>3. ASSUME NEW s \in Services
      PROVE  /\ queue[s] \in Seq(Message)
             /\ \A i \in DOMAIN queue[s] : queue[s][i].awaited = FALSE
  <2>1. left[s] \in Seq(BOOLEAN)
    <3>1. <<>> \in Seq(BOOLEAN)
      OBVIOUS
    <3>2. <<FALSE, TRUE>> \in Seq(BOOLEAN)
      OBVIOUS
    <3>3. <<TRUE, FALSE>> \in Seq(BOOLEAN)
      OBVIOUS
    <3> QED
      BY <1>2, <3>1, <3>2, <3>3
  <2>2. queue[s] = [i \in 1 .. Len(left[s]) |-> [value |-> left[s][i], awaited |-> FALSE]]
    BY <1>1, <2>1
  <2>3. \A i \in 1 .. Len(left[s]) : [value |-> left[s][i], awaited |-> FALSE] \in Message
    BY <2>1 DEF Message
  <2>4. queue[s] \in [1 .. Len(left[s]) -> Message] /\ Len(left[s]) \in Nat
    BY <2>1, <2>2, <2>3
  <2>5. queue[s] \in Seq(Message)
    BY <2>4, SeqDef
  <2>6. \A i \in DOMAIN queue[s] : queue[s][i].awaited = FALSE
    BY <2>2
  <2> QED
    BY <2>5, <2>6
<1>4. queue \in [Services -> Seq(Message)]
  BY <1>1, <1>3
<1>5. RobotType
  BY <1>4 DEF Init, RobotInit, RobotType
<1>6. EpisodeType
  <2>1. "reset" \in Stages /\ 0 \in 0 .. MaxErrors
    BY EpisodeAssumption DEF Stages
  <2>2. episode \in Episode
    BY <2>1 DEF Init, Episode
  <2> QED
    BY <2>2 DEF Init, EpisodeType
<1>7. CallsInOrder
  BY <1>3 DEF Init, RobotInit, CallsInOrder
<1>8. HeldSinceGate /\ NotedSoFar /\ SuccessIsConfirmed /\ CountsAgree /\ CountedMeansWatched
  BY DEF Init, HeldSinceGate, NotedSoFar, SuccessIsConfirmed, CountsAgree, CountedMeansWatched,
     Over, Clean, Success
<1> QED
  BY <1>5, <1>6, <1>7, <1>8 DEF EpisodeInv, TypeOK, Init, RobotInit

(***************************************************************************)
(* The theorems.                                                           *)
(***************************************************************************)

\* What an episode reports is what it has seen, whatever answers were late,
\* given up, refused or left behind.  (run, set_bool, finish_contacts)
THEOREM ReportsAreTrue == Spec => []EpisodeInv
<1>1. Init => EpisodeInv
  BY EpisodeInit
<1>2. EpisodeInv /\ [Next]_vars => EpisodeInv'
  <2>1. ASSUME EpisodeInv, Next
        PROVE  EpisodeInv'
    <3>1. SuccessIsConfirmed' /\ CountsAgree'
      BY <2>1, NotedStep DEF NotedSoFar, SuccessIsConfirmed, CountsAgree, Success, Clean, Over
    <3> QED
      BY <2>1, <3>1, TypesStep, CallsStep, HeldStep, NotedStep DEF EpisodeInv
  <2>2. ASSUME EpisodeInv, UNCHANGED vars
        PROVE  EpisodeInv'
    BY <2>2 DEF vars, robotVars, episodeVars, EpisodeInv, TypeOK, RobotType, EpisodeType,
       CallsInOrder, HeldSinceGate, NotedSoFar, SuccessIsConfirmed, CountsAgree,
       CountedMeansWatched, Success, Clean, Over
  <2> QED
    BY <2>1, <2>2
<1> QED
  BY <1>1, <1>2, PTL DEF Spec

\* The motor is powered only while the follower is held.  (run, set_bool)
THEOREM PowerOnlyWhileHeld == Spec => []PoweredGated
<1>1. EpisodeInv => PoweredGated
  BY DEF EpisodeInv, HeldSinceGate, PoweredGated
<1> QED
  BY <1>1, ReportsAreTrue, PTL
================================================================================
