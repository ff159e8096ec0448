----------------------------- MODULE EdgeLifecycle -----------------------------
(***************************************************************************)
(* The edge node's lifecycle and the launch file's scripts that drive it:  *)
(* `configure` is retried until it succeeds or its attempts are used up,   *)
(* then `activate` is, whatever became of the first.  An operator may use  *)
(* the same commands at any time.                                          *)
(***************************************************************************)
EXTENDS Integers

CONSTANTS Attempts,        \* attempts of one script
          MaxSessions,     \* bound: configurations tried
          MaxActivations   \* bound: activations

ASSUME LaunchAssumption == Attempts \in Nat \ {0}

VARIABLES kind,      \* parameters: a local policy, an own camera device
          phase,     \* lifecycle state, and the stages of a transition
          device,    \* external: the camera device can be opened
          found,     \* external: the command line finds the node
          script,    \* the launch scripts
          operator,  \* history: an operator has used a command
          links,     \* remote subscriptions: alive, one held, a configure failed
          count      \* bound: configurations and activations so far

lifecycleVars == <<kind, phase, device, found, script, operator, links, count>>

Phases == {"unconfigured", "inactive", "active", "stopping", "released", "unlinked",
           "crashed"}

LifecycleType ==
    /\ kind \in [local : BOOLEAN, device : BOOLEAN]
    /\ phase \in Phases
    /\ device \in BOOLEAN
    /\ found \in BOOLEAN
    /\ script \in [pc : {"configure", "activate", "over"}, left : 1 .. Attempts]
    /\ operator \in BOOLEAN
    /\ links \in [alive : Nat, held : BOOLEAN, failed : BOOLEAN]
    /\ count \in [session : Nat, activation : Nat]

LifecycleInit ==
    /\ kind \in [local : BOOLEAN, device : BOOLEAN]
    /\ phase = "unconfigured"
    /\ device \in BOOLEAN
    /\ found \in BOOLEAN
    /\ script = [pc |-> "configure", left |-> Attempts]
    /\ operator = FALSE
    /\ links = [alive |-> 0, held |-> FALSE, failed |-> FALSE]
    /\ count = [session |-> 0, activation |-> 0]

\* The goal, odometry and path topics exist between configure and cleanup.
Subscribed == phase \in {"inactive", "active", "stopping", "released", "unlinked"}
------------------------------------------------------------------------------
(* The scripts.                                                              *)

\* Mutant: the exit of the configure command starts nothing.
AfterAttemptEnds(succeeded) ==
    IF succeeded \/ script.left = 1
    THEN [pc |-> "over", left |-> 1]
    ELSE [script EXCEPT !.left = @ - 1]

AfterAttempt(succeeded) ==
    CASE script.pc = "configure" /\ (succeeded \/ script.left = 1) ->
             [pc |-> "activate", left |-> Attempts]
      [] script.pc = "activate" /\ (succeeded \/ script.left = 1) ->
             [pc |-> "over", left |-> 1]
      [] OTHER -> [script EXCEPT !.left = @ - 1]

\* A command comes from the script whose turn it is, or from an operator.
Commanded(transition, succeeded) ==
    \/ /\ script.pc = transition
       /\ found
       /\ script' = AfterAttempt(succeeded)
       /\ UNCHANGED operator
    \/ /\ found
       /\ operator' = TRUE
       /\ UNCHANGED script

ByOperator ==
    /\ found
    /\ operator' = TRUE
    /\ UNCHANGED script

\* The command line does not find the node, or the transition is not allowed
\* in the state the node is left in by the transition before.
AttemptRefused ==
    /\ \/ script.pc # "over" /\ (~found \/ phase = "crashed")
       \/ script.pc = "configure" /\ phase \in {"inactive", "active"}
       \/ script.pc = "activate" /\ phase \in {"unconfigured", "active"}
    /\ script' = AfterAttempt(FALSE)
    /\ UNCHANGED <<kind, phase, device, found, operator, links, count>>

\* The camera device appears late, as after a slow USB enumeration.
DeviceAppears ==
    /\ ~device
    /\ device' = TRUE
    /\ UNCHANGED <<kind, phase, found, script, operator, links, count>>

NodeFound ==
    /\ ~found
    /\ found' = TRUE
    /\ UNCHANGED <<kind, phase, device, script, operator, links, count>>
------------------------------------------------------------------------------
(* The node's transitions, without what they do to the other components.     *)

\* In cloud mode a link to the remote is created before the camera is opened.
Opens == kind.device => device

ConfigureNode ==
    /\ phase = "unconfigured"
    /\ count.session < MaxSessions
    /\ Commanded("configure", Opens)
    /\ phase' = IF Opens THEN "inactive" ELSE "unconfigured"
    /\ links' = IF kind.local THEN links
                ELSE [alive |-> links.alive + 1, held |-> TRUE,
                      failed |-> links.failed \/ ~Opens]
    /\ count' = [count EXCEPT !.session = @ + 1]
    /\ UNCHANGED <<kind, device, found>>

ActivateNode ==
    /\ phase = "inactive"
    /\ count.activation < MaxActivations
    /\ Commanded("activate", TRUE)
    /\ phase' = "active"
    /\ count' = [count EXCEPT !.activation = @ + 1]
    /\ UNCHANGED <<kind, device, found, links>>

Stage(from, to) ==
    /\ phase = from
    /\ phase' = to
    /\ UNCHANGED <<kind, device, found, links, count>>

\* on_deactivate up to the join, and from it.
StopNode == Stage("active", "stopping") /\ ByOperator
StoppedNode == Stage("stopping", "inactive") /\ UNCHANGED <<script, operator>>

\* on_cleanup: the camera and the ledger; the link and the adapter; the rest.
ReleaseNode == Stage("inactive", "released") /\ ByOperator

\* Mutant: the subscription is forgotten, not destroyed.
UnlinkForgets ==
    /\ phase = "released"
    /\ phase' = "unlinked"
    /\ links' = [links EXCEPT !.held = FALSE]
    /\ UNCHANGED <<kind, device, found, script, operator, count>>

UnlinkNode ==
    /\ phase = "released"
    /\ phase' = "unlinked"
    /\ links' = IF links.held
                THEN [links EXCEPT !.alive = @ - 1, !.held = FALSE]
                ELSE links
    /\ UNCHANGED <<kind, device, found, script, operator, count>>

UnsubscribeNode == Stage("unlinked", "unconfigured") /\ UNCHANGED <<script, operator>>
================================================================================
