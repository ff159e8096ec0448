------------------------------ MODULE R2RPolicy --------------------------------
(***************************************************************************)
(* The policy server of the R2R benchmark and the requests under way to    *)
(* it.  One session serves whoever asks: a reset takes it over, an action  *)
(* is answered when it names the episode and the next frame.  A request    *)
(* whose asker gave up stays with the server and is executed later, in any *)
(* order.  The model's memory is abstracted to the set of children whose   *)
(* observations it holds.                                                  *)
(***************************************************************************)
EXTENDS Naturals, FiniteSets

CONSTANTS NumEpisodes, MaxChildren, MaxSteps,
          MaxInFlight,     \* bound: requests sent and not executed
          Policies,        \* checkpoints a server can be started with
          PlannedPolicy,   \* the one the batch names
          None

ASSUME PolicyAssumption ==
    /\ NumEpisodes \in Nat \ {0} /\ MaxChildren \in Nat \ {0} /\ MaxSteps \in Nat \ {0}
    /\ MaxInFlight \in Nat \ {0}
    /\ PlannedPolicy \in Policies
    /\ None \notin 1 .. NumEpisodes

Episodes == 1 .. NumEpisodes
Children == 1 .. MaxChildren

VARIABLES session,    \* what the server remembers of the active episode
          requests,   \* requests sent and not executed yet
          inbox,      \* per child: None, Waiting, or the answer it has not read
          disturbed   \* per child with an accepted reset: requests of others accepted since

policyVars == <<session, requests, inbox, disturbed>>

Requests == [kind : {"reset", "act"}, episode : Episodes, frame : 0 .. MaxSteps,
             by : Children]
Waiting == [kind |-> "waiting"]
Actions == {"stop", "move"}
Answers == [kind : {"ack"}, policy : Policies]
           \cup [kind : {"action"}, action : Actions, policy : Policies,
                 authors : SUBSET Children]
           \cup [kind : {"refused"}]

PolicyType ==
    /\ session \in [episode : Episodes \cup {None}, frame : 0 .. MaxSteps,
                    stopped : BOOLEAN, authors : SUBSET Children, policy : Policies]
    /\ requests \subseteq Requests
    /\ inbox \in [Children -> {None, Waiting} \cup Answers]
    /\ disturbed \in [Children -> {None} \cup 0 .. 2]

FreshSession(policy) == [episode |-> None, frame |-> 0, stopped |-> FALSE,
                         authors |-> {}, policy |-> policy]

PolicyInit ==
    /\ session = FreshSession(PlannedPolicy)
    /\ requests = {}
    /\ inbox = [c \in Children |-> None]
    /\ disturbed = [c \in Children |-> None]

---------------------------------------------------------------------------
\* PolicySession.reset: the one session is given to whoever asks.
Reset(s, r) == [FreshSession(s.policy) EXCEPT !.episode = r.episode]

\* The checks of PolicySession.act.
AcceptAnyFrame(s, r) == s.episode = r.episode /\ ~s.stopped
Acceptable(s, r) == /\ s.episode = r.episode
                    /\ s.frame = r.frame
                    /\ ~s.stopped

\* CMAInference.act: the recurrent state takes in every observation it answers.
Remember(memory, c) == memory \cup {c}

\* PolicySession.act: the new state is kept with the answer.
Act(s, r, action) == [s EXCEPT !.authors = Remember(@, r.by),
                               !.frame = @ + 1,
                               !.stopped = (action = "stop")]

\* The answer reaches its asker unless it has given up.
Deliver(c, answer) ==
    inbox' = IF inbox[c] = Waiting THEN [inbox EXCEPT ![c] = answer] ELSE inbox

\* An accepted request counts against every other child that has the session.
Intrude(r) ==
    disturbed' = [c \in Children |->
        IF c = r.by THEN IF r.kind = "reset" /\ inbox[c] = Waiting THEN 0 ELSE disturbed[c]
        ELSE IF disturbed[c] \in {0, 1} THEN disturbed[c] + 1 ELSE disturbed[c]]

ExecuteReset(r) ==
    /\ r \in requests /\ r.kind = "reset"
    /\ session' = Reset(session, r)
    /\ Deliver(r.by, [kind |-> "ack", policy |-> session.policy])
    /\ Intrude(r)
    /\ requests' = requests \ {r}

ExecuteAct(r, action) ==
    /\ r \in requests /\ r.kind = "act"
    /\ Acceptable(session, r)
    /\ session' = Act(session, r, action)
    /\ Deliver(r.by, [kind |-> "action", action |-> action, policy |-> session.policy,
                      authors |-> session'.authors])
    /\ Intrude(r)
    /\ requests' = requests \ {r}

\* A stale, early or late frame, another episode, or a model that fails: status 422
\* and the session as it was.
Refuse(r) ==
    /\ r \in requests /\ r.kind = "act"
    /\ Deliver(r.by, [kind |-> "refused"])
    /\ requests' = requests \ {r}
    /\ UNCHANGED <<session, disturbed>>

\* The operator starts the server again, perhaps from another checkpoint: its
\* connections break and nobody has a session.
RestartServer(policy) ==
    /\ session' = FreshSession(policy)
    /\ requests' = {}
    /\ inbox' = [c \in Children |->
                    IF inbox[c] = Waiting THEN [kind |-> "refused"] ELSE inbox[c]]
    /\ UNCHANGED disturbed

ServerStep == \E r \in requests : \/ ExecuteReset(r)
                                  \/ \E action \in Actions : ExecuteAct(r, action)
                                  \/ Refuse(r)
================================================================================
