---- MODULE PhoneEngine ----
(***************************************************************************)
(* OmniVLA-edge inside the phone and the browser: the ring of recent       *)
(* frames and the cache of the features of one prompt.  A frame is the     *)
(* goal it was seen under; features are the goal they encode, or Zero.     *)
(***************************************************************************)
EXTENDS ClientData, Naturals, Sequences

CONSTANT HistoryLen       \* frames in the ring
ASSUME PhoneEngineAssumption == HistoryLen \in Nat \ {0}

NoCache == [key |-> None, features |-> None]
EmptyEngine == [ring |-> <<>>, cache |-> NoCache]

\* Mutant: a ring that drops too late.
PushLate(ring, frame) ==
    LET longer == Append(ring, frame) IN
    IF Len(longer) > HistoryLen + 1 THEN Tail(longer) ELSE longer

\* push: the newest frame last, the oldest dropped.
Push(ring, frame) ==
    LET longer == Append(ring, frame) IN
    IF Len(longer) > HistoryLen THEN Tail(longer) ELSE longer

\* stack: as many frames as the model wants, the oldest repeated in front.
Stack(ring) == [i \in 1..(HistoryLen - Len(ring)) |-> ring[1]] \o ring

\* reset(), on a change of goal: history and cache go, a running inference stays.
Reset(engine) == [engine EXCEPT !.ring = <<>>, !.cache = NoCache]

\* Mutant: whatever was encoded last.
CachedAny(engine, text) == engine.cache.features # None

Cached(engine, text) == engine.cache.key = text /\ engine.cache.features # None

Remember(engine, text, features) ==
    [engine EXCEPT !.cache = [key |-> text, features |-> features]]
====
