------------------------------- MODULE LiveRobot -------------------------------
(***************************************************************************)
(* What an episode of the live benchmark works on: the local follower with *)
(* its stop service and the motor with its power service.  A call that     *)
(* times out at the client stays in the server's queue and is executed     *)
(* later, in the order of the calls.                                       *)
(***************************************************************************)
EXTENDS Sequences

CONSTANT None

Services == {"follower_stop", "motor_power"}

\* A request in a server's queue, and the call a client waits for.
Message == [value : BOOLEAN, awaited : BOOLEAN]
Waiting == [service : Services, answer : BOOLEAN \cup {None}]

ASSUME RobotAssumption == None \notin BOOLEAN \cup Waiting

VARIABLES up,       \* the services that are there
          queue,    \* requests not executed yet
          call,     \* the call being waited for, or None
          gated,    \* the follower is held by its stop service
          power,    \* the motor has power
          cmd,      \* the follower's last command moves the robot
          refused   \* history: the motor has refused a call

robotVars == <<up, queue, call, gated, power, cmd, refused>>

\* What an earlier episode may have left in the queues: its last word is that
\* the follower is held and the motor has no power.
Leftovers ==
    [follower_stop : {<<>>, <<FALSE, TRUE>>}, motor_power : {<<>>, <<TRUE, FALSE>>}]

RobotType ==
    /\ up \subseteq Services
    /\ queue \in [Services -> Seq(Message)]
    /\ call \in Waiting \cup {None}
    /\ gated \in BOOLEAN
    /\ power \in BOOLEAN
    /\ cmd \in BOOLEAN
    /\ refused \in BOOLEAN

RobotInit ==
    /\ up = Services
    /\ \E left \in Leftovers :
           queue = [s \in Services |->
                       [i \in DOMAIN left[s] |-> [value |-> left[s][i], awaited |-> FALSE]]]
    /\ call = None
    /\ gated \in BOOLEAN
    /\ power \in BOOLEAN
    /\ cmd = FALSE
    /\ refused = FALSE

Moving == power /\ cmd
------------------------------------------------------------------------------
(* The client's side of a call.                                              *)

Request(service, value) ==
    /\ service \in up
    /\ queue' = [queue EXCEPT ![service] = Append(@, [value |-> value, awaited |-> TRUE])]
    /\ call' = [service |-> service, answer |-> None]
    /\ UNCHANGED <<up, gated, power, cmd, refused>>

\* The answer is there, or the time is over and nobody waits for it any more.
StopWaiting ==
    /\ call' = None
    /\ queue' = [queue EXCEPT ![call.service] =
                    [i \in DOMAIN @ |-> [@[i] EXCEPT !.awaited = FALSE]]]
    /\ UNCHANGED <<up, gated, power, cmd, refused>>
------------------------------------------------------------------------------
(* The servers and the follower's timer.                                     *)

Serve(service) ==
    /\ queue[service] # <<>>
    /\ \E accepted \in {TRUE} \cup (IF service = "motor_power" THEN {FALSE} ELSE {}) :
           LET request == Head(queue[service])
           IN  /\ queue' = [queue EXCEPT ![service] = Tail(@)]
               /\ call' = IF request.awaited THEN [call EXCEPT !.answer = accepted] ELSE call
               /\ gated' = IF service = "follower_stop" THEN request.value ELSE gated
               /\ power' = IF service = "motor_power" /\ accepted THEN request.value ELSE power
               /\ refused' = (refused \/ ~accepted)
    /\ UNCHANGED <<up, cmd>>

\* A service dies with the requests it has not executed.
Vanish(service) ==
    /\ service \in up
    /\ up' = up \ {service}
    /\ queue' = [queue EXCEPT ![service] = <<>>]
    /\ UNCHANGED <<call, gated, power, cmd, refused>>

\* A held follower stops; one that is not follows the edge node's path, if any.
FollowerTick ==
    /\ "follower_stop" \in up
    /\ cmd' \in IF gated THEN {FALSE} ELSE BOOLEAN
    /\ UNCHANGED <<up, queue, call, gated, power, refused>>

RobotStep ==
    \/ \E s \in Services : Serve(s) \/ Vanish(s)
    \/ FollowerTick
================================================================================
