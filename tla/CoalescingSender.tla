---- MODULE CoalescingSender ----
(***************************************************************************)
(* The sender between the inference loop of the phone, or of the browser,  *)
(* and the connection to the robot: it holds the newest chunk only and     *)
(* hands it to the connection no faster than one per interval.  The drain  *)
(* loop suspends where the source awaits: in the pacing delay, in the send *)
(* and between the end of the loop and the completion of its promise.      *)
(*                                                                         *)
(* Whether the interval has passed when the loop reads the clock is a      *)
(* parameter (wait) that the actions choose freely; now is the generation  *)
(* of the application at the call, recorded with what is handed over.      *)
(***************************************************************************)
EXTENDS ClientData

\* A sender in front of a connection of a kind: "log" or "link".
NewSender(kind) ==
    [kind |-> kind, pending |-> None, name |-> None, phase |-> "idle", sending |-> None,
     closed |-> FALSE]

\* The chunk leaves the slot and is given to the connection with the name the fields hold.
HandOver(s, now) ==
    [s EXCEPT !.pending = None, !.phase = "sending",
              !.sending = [chunk |-> s.pending, name |-> s.name, at |-> now]]

\* After the delay the slot is read again: it may hold a newer chunk, or none.
AfterDelay(s, now) ==
    IF s.closed \/ s.pending = None THEN [s EXCEPT !.phase = "ended"] ELSE HandOver(s, now)

\* The head of the drain loop, until it awaits or ends.
DrainLoop(s, wait, now) ==
    IF s.closed \/ s.pending = None THEN [s EXCEPT !.phase = "ended"]
    ELSE IF wait THEN [s EXCEPT !.phase = "pacing"] ELSE AfterDelay(s, now)

\* Mutant: what came meanwhile waits for the next submit().
NoRestart(s, wait, now) == [s EXCEPT !.phase = "idle"]

\* The promise of the loop completes; what came meanwhile starts another loop.
DrainCompletes(s, wait, now) ==
    IF s.closed \/ s.pending = None THEN [s EXCEPT !.phase = "idle"]
    ELSE DrainLoop(s, wait, now)

\* submit(): a closed sender ignores it, a loop already running will see it.
Submit(s, chunk, wait, now) ==
    LET held == [s EXCEPT !.pending = chunk, !.name = chunk.goal] IN
    IF s.closed THEN s
    ELSE IF s.phase = "idle" THEN DrainLoop(held, wait, now) ELSE held

\* Mutant: nothing is cleared.
ClearNothing(s) == s

\* clearPending() of the phone: only the chunk is cleared.
ClearPending(s) == [s EXCEPT !.pending = None]

\* close(), up to its first await.
BeginClose(s) == ClearPending([s EXCEPT !.closed = TRUE])

\* Mutant: waits for the end of a loop also where none runs.
DrainedByLoop(s) == s.phase = "ended"

\* What close() waits for: the loop that runs, if any, not the completion of its promise.
Drained(s) == s.phase \in {"idle", "ended"}
====
