------------------------------- MODULE EdgeData -------------------------------
(***************************************************************************)
(* The data the edge node and the remote inference node exchange.          *)
(*                                                                         *)
(* An observation carries on the wire its frame identifier, the image and  *)
(* the goal.  The fields gen, session and boot are history: the goal       *)
(* generation, the lifecycle configuration and the process in which it was *)
(* sent.  No handler reads them; the properties do.                        *)
(***************************************************************************)
EXTENDS Integers

CONSTANTS Goals,    \* goals an operator may publish
          Images,   \* camera images, told apart only by identity
          None      \* Python's None

ASSUME DataAssumption == None \notin Goals \cup Images

Observation == [ frame   : Nat,
                 img     : Images,
                 gen     : Nat,
                 session : Nat,
                 boot    : Nat ]

\* An embedding answers one observation.  On the wire it is that observation
\* (its frame_id is echoed, its vector is a function of the image and goal).
\* The edge adds the image it believes the vector was computed from.
Embedding == [ obs  : Observation,
               past : Images \cup {None},
               age  : Nat ]
===============================================================================
