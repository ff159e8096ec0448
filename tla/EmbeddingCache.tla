---------------------------- MODULE EmbeddingCache ----------------------------
(***************************************************************************)
(* The one-slot cache of the newest embedding received from the remote     *)
(* policy.  As in the ledger, a method is one locked region, hence one     *)
(* operator.  The monotonic clock is the age of the slot, saturated at the *)
(* hard timeout: no method tells older ages apart.                         *)
(***************************************************************************)
EXTENDS EdgeData

CONSTANTS MaxAge,       \* age from which the slot is DEGRADED
          HardTimeout   \* age from which the slot is STALE

ASSUME CacheAssumption ==
    /\ MaxAge \in Nat
    /\ HardTimeout \in Nat
    /\ HardTimeout >= MaxAge

Cache == [latest : Embedding \cup {None}, floor : Int]

NoFloor == -1

NewCache == [latest |-> None, floor |-> NoFloor]

Put(c, emb) ==
    IF emb.obs.frame > c.floor /\ (c.latest # None => emb.obs.frame > c.latest.obs.frame)
    THEN [c EXCEPT !.latest = emb]
    ELSE c

\* Mutants: the floor is not raised; the slot is not emptied.
InvalidateWithoutFloor(c, floor) == [c EXCEPT !.latest = None]
InvalidateKeepsSlot(c, floor) == [c EXCEPT !.floor = floor]

Invalidate(c, floor) == [latest |-> None, floor |-> floor]

\* Mutant: the hard timeout is not looked at.
StatusWithoutTimeout(c) == IF c.latest = None THEN "WAITING_REMOTE" ELSE "OK"

CacheStatus(c) ==
    CASE c.latest = None                 -> "WAITING_REMOTE"
      [] c.latest # None
            /\ c.latest.age >= HardTimeout -> "STALE"
      [] c.latest # None
            /\ c.latest.age < HardTimeout
            /\ c.latest.age >= MaxAge      -> "DEGRADED"
      [] OTHER                           -> "OK"

\* One unit of time.
AgeCache(c) ==
    IF c.latest = None \/ c.latest.age >= HardTimeout
    THEN c
    ELSE [c EXCEPT !.latest.age = @ + 1]
================================================================================
