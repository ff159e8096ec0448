----------------------------- MODULE NavidaCycle -----------------------------
(***************************************************************************)
(* The step cycle of the NaVIDA executor: one request, one motion, one     *)
(* confirmed stop.  The cycle is a record and every method an operator on  *)
(* it.  Poses and times are reduced to what the code compares: whether the *)
(* odometry is fresh, whether two samples show the robot standing, whether *)
(* a turn ended near its target.                                           *)
(***************************************************************************)
EXTENDS Naturals

CONSTANT None

\* The primitives of NaVIDA; a zero primitive only asks for a stop.
Primitives == {"forward", "turn", "zero"}

\* pending: the outstanding request is of this generation.  A generation ends
\* with cancel and never comes back, so no number is needed to tell a reply of
\* an older one.
Cycle == [settling : BOOLEAN,                       \* a stop is being confirmed
          sampled  : BOOLEAN,                       \* ... and has a first pose
          action   : {"forward", "turn", None},
          target   : BOOLEAN,                       \* a turn is to be verified
          pending  : BOOLEAN,
          stopped  : BOOLEAN,
          posed    : BOOLEAN,                       \* odometry has been seen
          fresh    : BOOLEAN]                       \* ... within 0.3 s

NewCycle == [settling |-> TRUE, sampled |-> FALSE, action |-> None, target |-> FALSE,
             pending |-> FALSE, stopped |-> FALSE, posed |-> FALSE, fresh |-> FALSE]

BeginSettling(c) == [c EXCEPT !.settling = TRUE, !.sampled = FALSE, !.action = None]

\* Settling starts over, and an action waiting for the motor is kept.
ConfirmMotorDisabled(c) == [c EXCEPT !.settling = TRUE, !.sampled = FALSE]

Cancel(c, stop) ==
    BeginSettling([c EXCEPT !.pending = FALSE, !.stopped = stop, !.target = FALSE])

Fail(c) == Cancel(c, TRUE)
------------------------------------------------------------------------------
(* Odometry.  A sample s tells whether it is too early to count, whether the *)
(* robot stood still since the sample before, whether it has stood long       *)
(* enough, and whether a turn came out near its target.                       *)

Sample == [early : BOOLEAN, still : BOOLEAN, long : BOOLEAN, near : BOOLEAN]

ConfirmsStop(c, s) ==
    /\ c.settling
    /\ ~s.early
    /\ c.sampled
    /\ s.still
    /\ s.long

\* A turn that came out too far from its target is corrected first.
Completes(c, s) == ConfirmsStop(c, s) /\ (c.target => s.near)

Observe(c, s) ==
    LET d == [c EXCEPT !.posed = TRUE, !.fresh = TRUE] IN
    IF Completes(c, s)
    THEN [d EXCEPT !.action = None, !.settling = FALSE, !.target = FALSE]
    ELSE IF ConfirmsStop(c, s)
    THEN [d EXCEPT !.action = "turn", !.settling = FALSE]
    ELSE [d EXCEPT !.sampled = @ \/ (c.settling /\ ~s.early)]
------------------------------------------------------------------------------
(* Requests and motion.                                                      *)

\* Mutant: a request may go out while a primitive is executed.
CanRequestMoving(c) ==
    ~c.stopped /\ ~c.settling /\ ~c.pending /\ c.posed /\ c.fresh

CanRequest(c) ==
    /\ ~c.stopped
    /\ ~c.settling
    /\ c.action = None
    /\ ~c.pending
    /\ c.posed
    /\ c.fresh

MayStart(c) == ~c.stopped /\ c.posed /\ c.fresh

\* Mutant: a zero primitive is started like a motion.
StartAny(c, a) == [c EXCEPT !.action = a, !.target = (a = "turn")]

Start(c, a) ==
    IF a = "zero"
    THEN BeginSettling([c EXCEPT !.target = FALSE])
    ELSE [c EXCEPT !.action = a, !.target = (a = "turn")]

\* Every outcome of command: the cycle after it, and whether it drives.  The
\* settling and motion deadlines may have passed, the target may be reached,
\* a turn may have to wait for its rate to fall.
Halt(c) == [cycle |-> c, drive |-> FALSE]
Drive(c) == [cycle |-> c, drive |-> TRUE]

Command(c, motionEnabled) ==
    IF c.stopped \/ ~c.posed THEN {Halt(c)}
    ELSE IF ~c.fresh THEN {Halt(Fail(c))}
    ELSE (IF c.settling \/ c.action # None THEN {Halt(Fail(c))} ELSE {})
         \cup (IF c.settling \/ c.action = None \/ ~motionEnabled
               THEN {Halt(c)}
               ELSE {Drive(c), Halt(BeginSettling(c))}
                    \cup (IF c.action = "turn" THEN {Halt(c)} ELSE {}))
===============================================================================
