-------------------------- MODULE ObservationLedger --------------------------
(***************************************************************************)
(* The ledger that pairs goal generations, sent frame identifiers and the  *)
(* images kept for the replies.  Every method holds one lock for its whole *)
(* body, so each is an operator from ledger to ledger that a step of the   *)
(* edge node applies atomically.                                           *)
(***************************************************************************)
EXTENDS EdgeData, FiniteSets

CONSTANT MaxFrames   \* sent images kept at most

ASSUME LedgerAssumption == MaxFrames \in Nat \ {0}

\* The dictionary of sent frames is the set of its items.
SentFrame == [id : Nat, img : Images]

Ledger == [ goal       : Goals \cup {None},
            generation : Nat,
            counter    : Nat,
            sent       : SUBSET SentFrame ]

NewLedger == [goal |-> None, generation |-> 0, counter |-> 0, sent |-> {}]

\* The goal replaces the old one, every remembered image is forgotten.
\* The caller invalidates the cache with floor l.counter under the same lock.
ChangeGoal(l, g) ==
    [goal |-> g, generation |-> l.generation + 1, counter |-> l.counter, sent |-> {}]

\* A frame identifier is allocated only for the goal that is still current.
MayRecord(l, generation) ==
    /\ generation = l.generation
    /\ l.goal # None

\* Mutant: nothing is evicted.
EvictNothing(sent) == sent

\* Python dictionaries iterate in insertion order, so the entry evicted is the
\* one with the smallest identifier.
Evict(sent) ==
    IF Cardinality(sent) > MaxFrames
    THEN {s \in sent : \E older \in sent : older.id < s.id}
    ELSE sent

RecordSent(l, image) ==
    [l EXCEPT !.counter = @ + 1,
              !.sent    = Evict(@ \cup {[id |-> l.counter + 1, img |-> image]})]

\* Mutant: the reply's own image leaves, older ones stay.
TakeOnlyReplyFrame(l, id) == [l EXCEPT !.sent = {s \in @ : s.id # id}]

\* The reply's image leaves the ledger together with every older one.
TakeReplyFrame(l, id) == [l EXCEPT !.sent = {s \in @ : s.id > id}]

\* Mutant: the oldest image not newer than the reply, whichever it is.
OldestFrame(l, id) ==
    IF \E s \in l.sent : s.id <= id
    THEN (CHOOSE s \in l.sent : \A t \in l.sent : s.id <= t.id).img
    ELSE None

ReplyFrame(l, id) ==
    IF \E s \in l.sent : s.id = id
    THEN (CHOOSE s \in l.sent : s.id = id).img
    ELSE None

\* Mutants: the frame counter starts again; the generation stays.
ResetRestartsCounter(l) ==
    [goal |-> None, generation |-> l.generation + 1, counter |-> 0, sent |-> {}]
ResetKeepsGeneration(l) ==
    [goal |-> None, generation |-> l.generation, counter |-> l.counter, sent |-> {}]

\* Lifecycle cleanup: the goal is gone, the frame counter goes on.
ResetLedger(l) ==
    [goal |-> None, generation |-> l.generation + 1, counter |-> l.counter, sent |-> {}]
==============================================================================
