---- MODULE ClientData ----
(***************************************************************************)
(* What the parts of the operator's application share: a goal, which       *)
(* stands for its text, its identifier and the features of its text.       *)
(***************************************************************************)
CONSTANTS None,     \* no goal, no chunk, no inference
          Zero,     \* the features of no prompt
          Goals     \* what the operator can ask for

ASSUME ClientDataAssumption == None \notin Goals /\ Zero \notin Goals /\ None # Zero
====
