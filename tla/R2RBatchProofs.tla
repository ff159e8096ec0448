---------------------------- MODULE R2RBatchProofs -----------------------------
(***************************************************************************)
(* Three theorems on the batch runner, for every number of episodes,       *)
(* children, runs and retries.  It implements the campaign: results are    *)
(* added one at a time, the report needs them all, and none is lost while  *)
(* nothing but the batch touches the files and its children.  Its files    *)
(* say what its children did.  And a result rests on the observations of   *)
(* its own episode.                                                        *)
(***************************************************************************)
EXTENDS R2RBatch, FiniteSetTheorems, TLAPS

Done == {e \in Episodes : StatusOf(rows[e]) = "completed"}
Completed(e) == StatusOf(rows[e]) = "completed"

\* The shape of what the runner reads; the bounds of BatchType are not needed.
Process == [episode : Episodes, run : Nat, frame : Nat,
            pc : {"preflight", "kit", "resetting", "acting", "closing", "gone"},
            wrote : {"nothing", "started", "completed", "error"},
            failed : BOOLEAN, split : Splits]

Manifest == [status : {"unwritten", "running", "error", "completed"}, completed : Nat,
             plan : Splits]

Runner == [pc : {"off", "created", "next", "spawn", "wait", "summarized"},
           index : Nat \ {0}, attempt : Nat, child : Nat, run : Nat]

Shape ==
    /\ children \in [Children -> {None} \cup Process]
    /\ rows = [e \in Episodes |-> rows[e]]
    /\ split \in Splits
    /\ batch \in Runner
    /\ manifest \in {None} \cup Manifest
    /\ summary \in {None} \cup Splits
    /\ batch.pc # "off" => manifest \in Manifest
    /\ batch.pc \in {"spawn", "wait"} => batch.index \in Episodes

\* As long as nothing but the batch acts, there is one edition of the split, ...
OneEdition ==
    /\ split = 0
    /\ manifest # None \/ batch.pc # "off" => manifest.plan = 0
    /\ \A e \in Episodes : Completed(e) => rows[e].split = 0

\* ... and the only process is the child the runner waits for, which was started
\* because its episode has no result.
OneChild ==
    /\ \A c \in Children : Alive(c) =>
           /\ batch.pc = "wait" /\ c = batch.child
           /\ children[c].episode = batch.index
           /\ children[c].split = 0
           /\ children[c].pc # "closing" => ~Completed(batch.index)
    /\ batch.pc = "spawn" => ~Completed(batch.index)

Undisturbed == mishaps = {} => OneEdition /\ OneChild

ProofInv == Shape /\ Undisturbed
------------------------------------------------------------------------------
(* What a step of a child does.                                              *)

\* A child that acts is a process on its episode.
LEMMA ActorShape ==
    ASSUME Shape, NEW c \in Children, NEW pc, At(c, pc)
    PROVE  /\ children[c] \in Process /\ children[c].episode \in Episodes
           /\ children[c].pc = pc
           /\ pc # "gone" => Alive(c)
  BY DEF Shape, At, Alive, Process

\* A child that leaves is not alive, and everybody else is as before.
LEMMA LeaveShape ==
    ASSUME Shape, NEW c \in Nat, Alive(c), NEW failed \in BOOLEAN, Leave(c, failed)
    PROVE  /\ children' \in [Children -> {None} \cup Process]
           /\ \A d \in Children : d = c => ~Alive(d)'
           /\ \A d \in Children : d # c => children'[d] = children[d]
<1>1. CASE c \in Children
  <2> DEFINE gone == [children[c] EXCEPT !.pc = "gone", !.failed = failed,
                                         !.frame = 0, !.split = 0]
  <2>1. children[c] \in Process
    BY <1>1 DEF Shape, Alive
  <2>2. gone \in Process /\ gone.pc = "gone"
    BY <2>1 DEF Process, Splits
  <2>3. children' = [children EXCEPT ![c] = gone]
    BY <1>1 DEF Leave, Shape
  <2> HIDE DEF gone
  <2> QED
    BY <1>1, <2>2, <2>3 DEF Shape, Alive
<1>2. CASE c \notin Children
  <2>1. children' = children
    BY <1>2 DEF Leave, Shape
  <2> QED
    BY <1>2, <2>1 DEF Shape
<1> QED
  BY <1>1, <1>2

\* One result is written.
Writes(e, row) == rows' = [rows EXCEPT ![e] = row]

LEMMA WriteShape ==
    ASSUME Shape, NEW e \in Episodes, NEW row, Writes(e, row)
    PROVE  /\ rows' = [f \in Episodes |-> rows'[f]]
           /\ rows'[e] = row
           /\ \A f \in Episodes : f # e => rows'[f] = rows[f]
  BY DEF Shape, Writes

\* What the steps of a child have in common: it changes itself, and perhaps the
\* result of its episode.  A result is only lost by starting over.
ChildStep(c) ==
    /\ c \in Children /\ Alive(c)
    /\ \E p \in Process :
           /\ children' = [children EXCEPT ![c] = p]
           /\ p.episode = children[c].episode
           /\ p.pc # "gone" => p.split \in {children[c].split, split}
           /\ \/ rows' = rows /\ (p.pc # "closing" => children[c].pc # "closing" \/ p.pc = "gone")
              \/ \E row : /\ Writes(children[c].episode, row)
                          /\ children[c].pc # "closing"
                          /\ StatusOf(row) = "completed" =>
                                 row.split = children[c].split /\ p.pc = "closing"
    /\ split' = split

LEMMA WorkIsChildStep ==
    ASSUME Shape, NEW c \in Children, ChildProgress(c) \/ NativeExit(c)
    PROVE  ChildStep(c)
<1>1. CASE MarkStarted(c)
  <2> DEFINE p == [children[c] EXCEPT !.pc = "kit", !.wrote = "started", !.split = split]
             row == [status |-> "started"]
  <2>1. At(c, "preflight") /\ split' = split
        /\ children' = [children EXCEPT ![c] = p] /\ Writes(children[c].episode, row)
    BY <1>1 DEF MarkStarted, WriteRow, Writes, Shape
  <2>2. children[c] \in Process /\ Alive(c) /\ children[c].pc = "preflight"
    BY <2>1, ActorShape
  <2>3. p \in Process /\ p.episode = children[c].episode /\ p.pc = "kit" /\ p.split = split
    BY <2>2 DEF Process, Shape
  <2>4. StatusOf(row) # "completed"
    BY DEF StatusOf
  <2> HIDE DEF p, row
  <2> QED
    BY <2>1, <2>2, <2>3, <2>4 DEF ChildStep
<1>2. ASSUME NEW kind, NEW frame \in Nat, NEW pc \in {"resetting", "acting"},
             NEW old \in {"kit", "resetting", "acting"},
             At(c, old), Ask(c, kind, frame, pc)
      PROVE  ChildStep(c)
  <2> DEFINE p == [children[c] EXCEPT !.pc = pc, !.frame = frame]
  <2>1. children' = [children EXCEPT ![c] = p] /\ rows' = rows /\ split' = split
    BY <1>2 DEF Ask, Shape
  <2>2. children[c] \in Process /\ Alive(c) /\ children[c].pc = old
    BY <1>2, ActorShape
  <2>3. p \in Process /\ p.episode = children[c].episode /\ p.split = children[c].split
        /\ p.pc = pc
    BY <1>2, <2>2 DEF Process
  <2> HIDE DEF p
  <2> QED
    BY <1>2, <2>1, <2>2, <2>3 DEF ChildStep
<1>3. CASE AskReset(c)
  BY <1>2, <1>3 DEF AskReset
<1>4. CASE FirstFrame(c)
  BY <1>2, <1>4 DEF FirstFrame
<1>5. CASE NextFrame(c)
  <2>1. At(c, "acting") /\ Ask(c, "act", children[c].frame + 1, "acting")
    BY <1>5 DEF NextFrame
  <2>2. children[c].frame + 1 \in Nat
    BY <2>1, ActorShape DEF Process
  <2> QED
    BY <1>2, <2>1, <2>2
<1>6. CASE Complete(c)
  <2> DEFINE p == [children[c] EXCEPT !.pc = "closing", !.wrote = "completed"]
             row == [status |-> "completed", split |-> children[c].split,
                     policy |-> inbox[c].policy, own |-> inbox[c].authors = {c},
                     intruders |-> disturbed[c]]
  <2>1. At(c, "acting") /\ split' = split
        /\ children' = [children EXCEPT ![c] = p] /\ Writes(children[c].episode, row)
    BY <1>6 DEF Complete, WriteRow, Writes, Shape
  <2>2. children[c] \in Process /\ Alive(c) /\ children[c].pc = "acting"
    BY <2>1, ActorShape
  <2>3. p \in Process /\ p.episode = children[c].episode /\ p.pc = "closing"
        /\ p.split = children[c].split
    BY <2>2 DEF Process
  <2>4. row.split = children[c].split
    OBVIOUS
  <2> HIDE DEF p, row
  <2> QED
    BY <2>1, <2>2, <2>3, <2>4 DEF ChildStep
<1>7. ASSUME NEW old \in {"kit", "resetting", "acting"}, At(c, old), Raise(c)
      PROVE  ChildStep(c)
  <2> DEFINE p == [children[c] EXCEPT !.pc = "closing", !.wrote = "error", !.failed = TRUE]
             row == [status |-> "error"]
  <2>1. split' = split
        /\ children' = [children EXCEPT ![c] = p] /\ Writes(children[c].episode, row)
    BY <1>7 DEF Raise, WriteRow, Writes, Shape
  <2>2. children[c] \in Process /\ Alive(c) /\ children[c].pc = old
    BY <1>7, ActorShape
  <2>3. p \in Process /\ p.episode = children[c].episode /\ p.pc = "closing"
        /\ p.split = children[c].split
    BY <2>2 DEF Process
  <2>4. StatusOf(row) # "completed"
    BY DEF StatusOf
  <2> HIDE DEF p, row
  <2> QED
    BY <1>7, <2>1, <2>2, <2>3, <2>4 DEF ChildStep
<1>8. CASE BootFails(c) \/ RenderFails(c) \/ AskFails(c)
  BY <1>7, <1>8 DEF BootFails, RenderFails, AskFails
<1>9. ASSUME NEW failed \in BOOLEAN, Alive(c), Leave(c, failed), rows' = rows, split' = split
      PROVE  ChildStep(c)
  <2> DEFINE p == [children[c] EXCEPT !.pc = "gone", !.failed = failed, !.frame = 0, !.split = 0]
  <2>1. children[c] \in Process
    BY <1>9 DEF Shape, Alive
  <2>2. children' = [children EXCEPT ![c] = p]
    BY <1>9 DEF Leave, Shape
  <2>3. p \in Process /\ p.episode = children[c].episode /\ p.pc = "gone"
    BY <2>1 DEF Process, Splits
  <2> HIDE DEF p
  <2> QED
    BY <1>9, <2>1, <2>2, <2>3 DEF ChildStep
<1>10. CASE Exit(c)
  <2>1. At(c, "closing") /\ Leave(c, children[c].failed) /\ rows' = rows /\ split' = split
    BY <1>10 DEF Exit
  <2>2. Alive(c) /\ children[c].failed \in BOOLEAN
    BY <2>1, ActorShape DEF Process
  <2> QED
    BY <1>9, <2>1, <2>2
<1>11. CASE NativeExit(c)
  BY <1>9, <1>11 DEF NativeExit
<1> QED
  BY <1>1, <1>3, <1>4, <1>5, <1>6, <1>8, <1>10, <1>11 DEF ChildProgress

\* What a child does keeps the invariant: its result is of the edition it has read.
LEMMA ChildKeeps ==
    ASSUME ProofInv, NEW c \in Children, ChildStep(c),
           UNCHANGED <<batch, manifest, summary, mishaps>>
    PROVE  ProofInv'
<1>1. PICK p \in Process :
          /\ children' = [children EXCEPT ![c] = p]
          /\ p.episode = children[c].episode
          /\ p.pc # "gone" => p.split \in {children[c].split, split}
          /\ \/ rows' = rows /\ (p.pc # "closing" => children[c].pc # "closing" \/ p.pc = "gone")
             \/ \E row : /\ Writes(children[c].episode, row)
                         /\ children[c].pc # "closing"
                         /\ StatusOf(row) = "completed" =>
                                row.split = children[c].split /\ p.pc = "closing"
  BY DEF ChildStep
<1> DEFINE e == children[c].episode
<1>2. /\ children[c] \in Process /\ Alive(c) /\ e \in Episodes
      /\ batch' = batch /\ manifest' = manifest /\ summary' = summary /\ mishaps' = mishaps
      /\ split' = split
  BY DEF ChildStep, ProofInv, Shape, Alive, Process
<1>3. /\ children' \in [Children -> {None} \cup Process] /\ children'[c] = p
      /\ \A d \in Children : d # c => children'[d] = children[d]
  BY <1>1 DEF ProofInv, Shape
<1>4. rows' = [f \in Episodes |-> rows'[f]]
  BY <1>1, <1>2, WriteShape DEF ProofInv, Shape
<1>5. Shape'
  BY <1>2, <1>3, <1>4 DEF ProofInv, Shape
<1>6. ASSUME mishaps = {}
      PROVE  OneEdition' /\ OneChild'
  <2>1. OneEdition /\ OneChild
    BY <1>6 DEF ProofInv, Undisturbed
  <2>2. /\ batch.pc = "wait" /\ c = batch.child /\ e = batch.index
        /\ children[c].split = 0
        /\ children[c].pc # "closing" => ~Completed(e)
    BY <1>2, <2>1 DEF OneChild
  <2>3. \A d \in Children : d # c => ~Alive(d)'
    BY <1>3, <2>1, <2>2 DEF OneChild, Alive
  <2>4. Alive(c)' => p.pc # "gone" /\ p.split = 0
    BY <1>1, <1>2, <1>3, <2>1, <2>2 DEF Alive, OneEdition
  <2>5. CASE rows' = rows
    <3>1. \A f \in Episodes : Completed(f)' <=> Completed(f)
      BY <2>5 DEF Completed
    <3>2. OneEdition'
      BY <1>2, <2>1, <2>5, <3>1 DEF OneEdition
    <3>3. Alive(c)' /\ p.pc # "closing" => StatusOf(rows'[e]) # "completed"
      BY <1>1, <1>2, <2>2, <2>4, <2>5 DEF Writes, Completed
    <3>4. OneChild'
      BY <1>1, <1>2, <1>3, <2>2, <2>3, <2>4, <3>3 DEF OneChild, Completed
    <3> QED
      BY <3>2, <3>4
  <2>6. CASE rows' # rows
    <3>1. PICK row : /\ Writes(e, row)
                     /\ children[c].pc # "closing"
                     /\ StatusOf(row) = "completed" =>
                            row.split = children[c].split /\ p.pc = "closing"
      BY <1>1, <2>6
    <3>2. /\ rows'[e] = row
          /\ \A f \in Episodes : f # e => rows'[f] = rows[f]
      BY <1>2, <3>1, WriteShape DEF ProofInv
    <3>3. \A f \in Episodes : Completed(f)' => rows'[f].split = 0
      BY <2>1, <2>2, <3>1, <3>2 DEF Completed, OneEdition
    <3>4. OneEdition'
      BY <1>2, <2>1, <3>3 DEF OneEdition
    <3>5. p.pc # "closing" => StatusOf(rows'[e]) # "completed"
      BY <3>1, <3>2
    <3>6. OneChild'
      BY <1>1, <1>2, <1>3, <2>2, <2>3, <2>4, <3>5 DEF OneChild, Completed
    <3> QED
      BY <3>4, <3>6
  <2> QED
    BY <2>5, <2>6
<1> QED
  BY <1>2, <1>5, <1>6 DEF ProofInv, Undisturbed

\* A child finishes the episode, or starts one over that had been disrupted.
CampaignStep == [Campaign!CampaignNext]_(Campaign!campaignVars)

LEMMA ChildRefines ==
    ASSUME ProofInv, NEW c \in Children, ChildStep(c),
           UNCHANGED <<batch, manifest, summary, mishaps>>
    PROVE  CampaignStep
<1> DEFINE e == children[c].episode
<1>1. /\ e \in Episodes /\ Alive(c) /\ summary' = summary /\ mishaps' = mishaps
  BY DEF ChildStep, ProofInv, Shape, Alive, Process
<1>2. CASE rows' = rows
  BY <1>1, <1>2 DEF CampaignStep, Campaign!campaignVars, StatusOf
<1>3. CASE rows' # rows
  <2>1. PICK row : Writes(e, row) /\ children[c].pc # "closing"
    BY <1>3 DEF ChildStep
  <2>2. /\ rows'[e] = row
        /\ \A f \in Episodes : f # e => rows'[f] = rows[f]
    BY <1>1, <2>1, WriteShape DEF ProofInv
  <2>3. mishaps = {} => ~Completed(e)
    BY <1>1, <2>1 DEF ProofInv, Undisturbed, OneChild
  <2>4. CASE StatusOf(row) = "completed" /\ Completed(e)
    <3>1. Done' = Done
      BY <1>1, <2>2, <2>4 DEF Done, Completed
    <3> QED
      BY <1>1, <3>1 DEF CampaignStep, Campaign!campaignVars, Done
  <2>5. CASE StatusOf(row) = "completed" /\ ~Completed(e)
    <3>1. e \notin Done /\ Done' = Done \cup {e}
      BY <1>1, <2>2, <2>5 DEF Done, Completed
    <3>2. Campaign!Finish(e)
      BY <1>1, <3>1 DEF Campaign!Finish, Done
    <3> QED
      BY <1>1, <3>2 DEF CampaignStep, Campaign!CampaignNext, Episodes
  <2>6. CASE StatusOf(row) # "completed" /\ ~Completed(e)
    <3>1. Done' = Done
      BY <1>1, <2>2, <2>6 DEF Done, Completed
    <3> QED
      BY <1>1, <3>1 DEF CampaignStep, Campaign!campaignVars, Done
  <2>7. CASE StatusOf(row) # "completed" /\ Completed(e)
    <3>1. e \in Done /\ Done' = Done \ {e} /\ mishaps # {}
      BY <1>1, <2>2, <2>3, <2>7 DEF Done, Completed
    <3>2. Campaign!Lose(e)
      BY <1>1, <3>1 DEF Campaign!Lose, Done
    <3> QED
      BY <1>1, <3>2 DEF CampaignStep, Campaign!CampaignNext, Episodes
  <2> QED
    BY <2>4, <2>5, <2>6, <2>7
<1> QED
  BY <1>2, <1>3
------------------------------------------------------------------------------
(* What a step of the runner does.                                           *)

\* The runner's own record.
LEMMA RunnerShape ==
    ASSUME Shape
    PROVE  /\ \A pc \in {"off", "created", "next", "spawn", "wait", "summarized"} :
                  Goto(pc) => batch' \in Runner /\ batch'.pc = pc /\ batch'.index = batch.index
           /\ Stop => batch' \in Runner /\ batch'.pc = "off"
           /\ \A pc \in {"created", "next"} : Launch(pc) => batch' \in Runner /\ batch'.pc = pc
           /\ MoveOn => batch' \in Runner /\ batch'.pc = "next"
<1>1. batch \in Runner
  BY DEF Shape
<1>2. ASSUME NEW pc \in {"off", "created", "next", "spawn", "wait", "summarized"}, Goto(pc)
      PROVE  batch' \in Runner /\ batch'.pc = pc /\ batch'.index = batch.index
  BY <1>1, <1>2 DEF Goto, Runner
<1>3. ASSUME Stop PROVE batch' \in Runner /\ batch'.pc = "off"
  <2>1. batch' = [batch EXCEPT !.pc = "off", !.index = 1, !.attempt = 0, !.child = 0]
    BY <1>3 DEF Stop
  <2>2. 1 \in Nat \ {0} /\ 0 \in Nat
    OBVIOUS
  <2> QED
    BY <1>1, <2>1, <2>2 DEF Runner
<1>4. ASSUME NEW pc \in {"created", "next"}, Launch(pc)
      PROVE  batch' \in Runner /\ batch'.pc = pc
  <2>1. batch.run + 1 \in Nat
    BY <1>1 DEF Runner
  <2>2. batch' = [batch EXCEPT !.pc = pc, !.run = batch.run + 1]
    BY <1>4 DEF Launch
  <2> QED
    BY <1>1, <2>1, <2>2 DEF Runner
<1>5. ASSUME MoveOn PROVE batch' \in Runner /\ batch'.pc = "next"
  <2>1. batch.index + 1 \in Nat \ {0}
    BY <1>1 DEF Runner
  <2>2. batch' = [batch EXCEPT !.pc = "next", !.index = batch.index + 1, !.attempt = 0, !.child = 0]
    BY <1>5 DEF MoveOn
  <2> QED
    BY <1>1, <2>1, <2>2 DEF Runner
<1> QED
  BY <1>2, <1>3, <1>4, <1>5

\* Nobody is alive when the runner is not waiting, or its child has ended.
LEMMA NobodyAlive ==
    ASSUME ProofInv, batch.pc # "wait" \/ ~Alive(batch.child)
    PROVE  mishaps = {} => \A c \in Children : ~Alive(c)
  BY DEF ProofInv, Undisturbed, OneChild

\* Between two children: what the runner notes of them keeps the invariant.
LEMMA RunnerKeeps ==
    ASSUME ProofInv, UNCHANGED <<rows, split, mishaps>>,
           children' \in [Children -> {None} \cup Process],
           mishaps = {} => \A c \in Children : ~Alive(c)',
           batch' \in Runner, batch'.pc # "wait",
           batch'.pc = "spawn" => batch'.index \in Episodes /\ ~Completed(batch'.index),
           summary' \in {None} \cup Splits,
           \/ /\ manifest' = manifest
              /\ batch'.pc # "off" => batch.pc # "off" \/ manifest # None
           \/ manifest' \in Manifest /\ manifest'.plan = split
           \/ manifest' \in Manifest /\ batch.pc # "off" /\ manifest'.plan = manifest.plan
    PROVE  ProofInv'
<1>1. Shape'
  BY DEF ProofInv, Shape
<1>2. ASSUME mishaps = {}
      PROVE  OneEdition' /\ OneChild'
  <2>1. OneEdition
    BY <1>2 DEF ProofInv, Undisturbed
  <2>2. \A e \in Episodes : Completed(e)' <=> Completed(e)
    BY DEF Completed
  <2>3. OneEdition'
    BY <2>1, <2>2 DEF OneEdition
  <2>4. batch'.pc = "spawn" => ~Completed(batch.index)'
    BY <2>2
  <2>5. OneChild'
    BY <1>2, <2>4 DEF OneChild
  <2> QED
    BY <2>3, <2>5
<1> QED
  BY <1>1, <1>2 DEF ProofInv, Undisturbed

\* The steps of the runner that leave every process alone.
Bookkeeping == \/ Create \/ WritePlan \/ Resume \/ Skip \/ Retry \/ Accept \/ Reject
               \/ Summarize \/ AuditFails \/ CloseManifest

\* A note in the manifest does not change the plan.
LEMMA NoteShape ==
    ASSUME manifest \in Manifest,
           NEW status \in {"unwritten", "running", "error", "completed"}, NEW completed \in Nat
    PROVE  /\ LET m == [manifest EXCEPT !.status = status]
              IN  m \in Manifest /\ m.plan = manifest.plan
           /\ LET m == [manifest EXCEPT !.status = status, !.completed = completed]
              IN  m \in Manifest /\ m.plan = manifest.plan
  BY DEF Manifest

LEMMA BookkeepingKeeps ==
    ASSUME ProofInv, Bookkeeping
    PROVE  ProofInv' /\ UNCHANGED <<children, rows, split, mishaps>>
<1>1. UNCHANGED <<children, rows, split, mishaps>>
  BY DEF Bookkeeping, Create, WritePlan, Resume, Skip, Retry, Accept, Reject, Abort, Summarize,
     AuditFails, CloseManifest, episodeVars, batchVars
<1>2. batch.pc # "wait" \/ ~Alive(batch.child)
  BY DEF Bookkeeping, Create, WritePlan, Resume, Skip, Retry, Accept, Reject, Judged, ChildEnded,
     Summarize, AuditFails, Finished, CloseManifest
<1>3. /\ children' \in [Children -> {None} \cup Process]
      /\ mishaps = {} => \A c \in Children : ~Alive(c)'
  BY <1>1, <1>2, NobodyAlive DEF ProofInv, Shape, Alive
<1>4. /\ Shape
      /\ batch \in Runner /\ split \in Splits /\ NumEpisodes \in Nat
      /\ summary \in {None} \cup Splits
      /\ batch.pc # "off" => manifest \in Manifest
      /\ batch.pc = "wait" => batch.index \in Episodes
  BY PolicyAssumption DEF ProofInv, Shape
<1>5. CASE Create
  <2>1. /\ batch' \in Runner /\ batch'.pc = "created" /\ summary' = summary
        /\ manifest' \in Manifest /\ manifest'.plan = split
    BY <1>4, <1>5, RunnerShape DEF Create, Manifest
  <2> QED
    BY <1>1, <1>3, <1>4, <2>1, RunnerKeeps
<1>6. CASE WritePlan
  <2>1. batch' \in Runner /\ batch'.pc = "next" /\ batch.pc # "off" /\ summary' = summary
        /\ manifest \in Manifest
    BY <1>4, <1>6, RunnerShape DEF WritePlan
  <2>2. manifest' \in Manifest /\ manifest'.plan = manifest.plan
    BY <1>6, <2>1, NoteShape DEF WritePlan
  <2> QED
    BY <1>1, <1>3, <1>4, <2>1, <2>2, RunnerKeeps
<1>7. CASE Resume
  <2>1. batch' \in Runner /\ batch'.pc = "next" /\ summary' = summary
        /\ manifest' = manifest /\ manifest # None
    BY <1>4, <1>7, RunnerShape DEF Resume, batchVars, Shape
  <2> QED
    BY <1>1, <1>3, <1>4, <2>1, RunnerKeeps
<1>8. CASE Skip
  <2>1. batch' \in Runner /\ batch'.pc = "next" /\ summary' = summary
        /\ manifest' = manifest /\ batch.pc # "off"
    BY <1>4, <1>8, RunnerShape DEF Skip, batchVars
  <2> QED
    BY <1>1, <1>3, <1>4, <2>1, RunnerKeeps
<1>9. CASE Retry
  <2>1. batch' \in Runner /\ batch'.pc = "spawn" /\ batch'.index = batch.index
        /\ batch.pc = "wait" /\ summary' = summary /\ manifest' = manifest
    <3>1. batch.attempt + 1 \in Nat
      BY <1>4 DEF Runner
    <3>2. /\ batch' = [batch EXCEPT !.pc = "spawn", !.attempt = batch.attempt + 1, !.child = 0]
          /\ batch.pc = "wait" /\ summary' = summary /\ manifest' = manifest
      BY <1>9 DEF Retry, ChildEnded, batchVars
    <3> QED
      BY <1>4, <3>1, <3>2 DEF Runner
  <2>2. ~Completed(batch.index)
    BY <1>9 DEF Retry, Unfinished, Completed
  <2> QED
    BY <1>1, <1>3, <1>4, <2>1, <2>2, RunnerKeeps
<1>10. CASE Accept
  <2>1. batch' \in Runner /\ batch'.pc = "next" /\ batch.pc # "off" /\ summary' = summary
        /\ manifest \in Manifest
    BY <1>4, <1>10, RunnerShape DEF Accept, Judged, ChildEnded
  <2>2. batch.index \in Nat
    BY <1>4 DEF Runner
  <2>3. manifest' \in Manifest /\ manifest'.plan = manifest.plan
    BY <1>10, <2>1, <2>2, NoteShape DEF Accept
  <2> QED
    BY <1>1, <1>3, <1>4, <2>1, <2>3, RunnerKeeps
<1>11. CASE Reject
  <2>1. batch' \in Runner /\ batch'.pc = "off" /\ batch.pc # "off" /\ summary' = summary
        /\ manifest \in Manifest
    BY <1>4, <1>11, RunnerShape DEF Reject, Abort, Judged, ChildEnded
  <2>2. manifest' \in Manifest /\ manifest'.plan = manifest.plan
    BY <1>11, <2>1, NoteShape DEF Reject, Abort
  <2> QED
    BY <1>1, <1>3, <1>4, <2>1, <2>2, RunnerKeeps
<1>12. CASE Summarize
  <2>1. batch' \in Runner /\ batch'.pc = "summarized" /\ summary' = split
        /\ manifest' = manifest /\ batch.pc # "off"
    BY <1>4, <1>12, RunnerShape DEF Summarize, Finished
  <2> QED
    BY <1>1, <1>3, <1>4, <2>1, RunnerKeeps
<1>13. CASE AuditFails
  <2>1. batch' \in Runner /\ batch'.pc = "off" /\ summary' = summary /\ manifest' = manifest
    BY <1>4, <1>13, RunnerShape DEF AuditFails, batchVars
  <2> QED
    BY <1>1, <1>3, <1>4, <2>1, RunnerKeeps
<1>14. CASE CloseManifest
  <2>1. batch' \in Runner /\ batch'.pc = "off" /\ batch.pc # "off" /\ summary' = summary
        /\ manifest \in Manifest
    BY <1>4, <1>14, RunnerShape DEF CloseManifest
  <2>2. manifest' \in Manifest /\ manifest'.plan = manifest.plan
    BY <1>4, <1>14, <2>1, NoteShape DEF CloseManifest
  <2> QED
    BY <1>1, <1>3, <1>4, <2>1, <2>2, RunnerKeeps
<1> QED
  BY <1>1, <1>5, <1>6, <1>7, <1>8, <1>9, <1>10, <1>11, <1>12, <1>13, <1>14 DEF Bookkeeping

\* The runner ends its child: by the timeout, or interrupted together with it.
LEMMA EndingKeeps ==
    ASSUME ProofInv, TimeOut \/ Interrupt
    PROVE  ProofInv' /\ UNCHANGED <<rows, summary, mishaps>>
<1>1. /\ Shape /\ batch.pc # "off" /\ manifest \in Manifest
      /\ summary \in {None} \cup Splits /\ batch.child \in Nat
  BY DEF TimeOut, Interrupt, ProofInv, Shape, Runner
<1>2. UNCHANGED <<rows, split, mishaps, summary>> /\ Stop
  BY DEF TimeOut, Interrupt, Abort, batchVars
<1>3. batch' \in Runner /\ batch'.pc = "off"
  BY <1>1, <1>2, RunnerShape
<1>4. manifest' \in Manifest /\ manifest'.plan = manifest.plan
  <2>1. CASE TimeOut
    BY <1>1, <2>1, NoteShape DEF TimeOut, Abort
  <2>2. CASE Interrupt
    BY <1>1, <2>2 DEF Interrupt, batchVars
  <2> QED
    BY <2>1, <2>2
<1>5. CASE batch.pc = "wait" /\ Alive(batch.child)
  <2>1. Leave(batch.child, TRUE)
    BY <1>5 DEF TimeOut, Interrupt
  <2>2. /\ children' \in [Children -> {None} \cup Process]
        /\ \A d \in Children : d = batch.child => ~Alive(d)'
        /\ \A d \in Children : d # batch.child => children'[d] = children[d]
    BY <1>1, <1>5, <2>1, LeaveShape
  <2>3. mishaps = {} => \A d \in Children : ~Alive(d)'
    BY <2>2 DEF ProofInv, Undisturbed, OneChild, Alive
  <2> QED
    BY <1>1, <1>2, <1>3, <1>4, <2>2, <2>3, RunnerKeeps
<1>6. CASE batch.pc # "wait" \/ ~Alive(batch.child)
  <2>1. children' = children
    BY <1>6 DEF TimeOut, Interrupt
  <2>2. mishaps = {} => \A d \in Children : ~Alive(d)'
    BY <1>6, <2>1, NobodyAlive DEF Alive
  <2>3. children' \in [Children -> {None} \cup Process]
    BY <1>1, <2>1 DEF Shape
  <2> QED
    BY <1>1, <1>2, <1>3, <1>4, <2>2, <2>3, RunnerKeeps
<1> QED
  BY <1>5, <1>6

\* A child is started for an episode without a result of this plan: undisturbed,
\* for one without a result.
LEMMA SpawnKeeps ==
    ASSUME ProofInv, Spawn
    PROVE  ProofInv' /\ UNCHANGED <<rows, summary, mishaps>>
<1> DEFINE c == Cardinality(Born) + 1
           p == [episode |-> batch.index, run |-> batch.run, frame |-> 0, pc |-> "preflight",
                 wrote |-> "nothing", failed |-> FALSE, split |-> 0]
<1>1. /\ Shape /\ batch \in Runner /\ batch.index \in Nat \ {0} /\ batch.run \in Nat
      /\ manifest \in Manifest /\ NumEpisodes \in Nat
  BY PolicyAssumption DEF Spawn, ProofInv, Shape, Runner
<1>2. /\ UNCHANGED <<rows, split, manifest, summary, mishaps>>
      /\ children' = [children EXCEPT ![c] = p]
      /\ batch' = [batch EXCEPT !.pc = "wait", !.child = c]
      /\ batch.pc # "wait" /\ batch.pc # "off"
  BY DEF Spawn, batchVars
<1>3. c \in Nat
  <2>1. IsFiniteSet(Children)
    BY FS_Interval, PolicyAssumption DEF Children
  <2>2. IsFiniteSet(Born)
    BY <2>1, FS_Subset DEF Born
  <2>3. Cardinality(Born) \in Nat
    BY <2>2, FS_CardinalityType
  <2> QED
    BY <2>3
<1>4. batch.index \in Episodes
  BY <1>1 DEF Spawn, Shape, Episodes
<1>5. p \in Process /\ p.episode = batch.index /\ p.split = 0
  BY <1>1, <1>4 DEF Process, Splits
<1> HIDE DEF c, p
<1>6. /\ batch' \in Runner /\ batch'.pc = "wait" /\ batch'.child = c
      /\ batch'.index = batch.index
  BY <1>1, <1>2, <1>3 DEF Runner
<1>7. /\ children' \in [Children -> {None} \cup Process]
      /\ \A d \in Children : d = c => children'[d] = p
      /\ \A d \in Children : d # c => children'[d] = children[d]
  BY <1>1, <1>2, <1>5 DEF Shape
<1>8. Shape'
  BY <1>1, <1>2, <1>4, <1>6, <1>7 DEF Shape
<1>9. ASSUME mishaps = {}
      PROVE  OneEdition' /\ OneChild'
  <2>1. OneEdition /\ OneChild
    BY <1>9 DEF ProofInv, Undisturbed
  <2>2. \A e \in Episodes : Completed(e)' <=> Completed(e)
    BY <1>2 DEF Completed
  <2>3. OneEdition'
    BY <1>2, <1>6, <2>1, <2>2 DEF OneEdition
  <2>4. ~Completed(batch.index)
    <3>1. CASE batch.pc = "spawn"
      BY <2>1, <3>1 DEF OneChild
    <3>2. CASE batch.pc # "spawn"
      <4>1. ~Kept(batch.index)
        BY <3>2 DEF Spawn
      <4>2. Completed(batch.index) => rows[batch.index].split = manifest.plan
        BY <1>2, <1>4, <2>1 DEF OneEdition
      <4>3. Completed(batch.index) => Kept(batch.index)
        BY <4>2 DEF Kept, Completed, StatusOf
      <4> QED
        BY <4>1, <4>3
    <3> QED
      BY <3>1, <3>2
  <2>5. \A d \in Children : d # c => ~Alive(d)'
    BY <1>2, <1>7, <2>1 DEF OneChild, Alive
  <2>6. OneChild'
    BY <1>4, <1>5, <1>6, <1>7, <2>2, <2>4, <2>5 DEF OneChild
  <2> QED
    BY <2>3, <2>6
<1> QED
  BY <1>2, <1>8, <1>9 DEF ProofInv, Undisturbed

\* The operator disturbs the batch: from here on nothing is promised.
LEMMA MishapKeeps ==
    ASSUME ProofInv, Terminate \/ EditSplit \/ Restart
    PROVE  ProofInv' /\ mishaps' # {} /\ UNCHANGED <<rows, summary>>
<1>1. mishaps' # {}
  BY DEF Terminate, EditSplit, Restart, Mishap
<1>2. UNCHANGED <<rows, summary, children, manifest>> /\ split' \in Splits
  BY DEF Terminate, EditSplit, Restart, episodeVars, ProofInv, Shape, Splits
<1>3. batch' \in Runner /\ batch'.pc \in {"off", batch.pc}
      /\ (batch' = batch \/ batch'.pc = "off")
  BY RunnerShape DEF Terminate, EditSplit, Restart, ProofInv, Shape
<1>4. Shape'
  BY <1>2, <1>3 DEF ProofInv, Shape
<1> QED
  BY <1>1, <1>2, <1>4 DEF ProofInv, Undisturbed
------------------------------------------------------------------------------
(* The first theorem: the batch implements the campaign.                     *)

LEMMA InitKeeps == Init => ProofInv /\ Campaign!CampaignInit
<1> SUFFICES ASSUME Init PROVE ProofInv /\ Campaign!CampaignInit
  OBVIOUS
<1>1. /\ children = [c \in Children |-> None] /\ rows = [e \in Episodes |-> None] /\ split = 0
      /\ batch = [pc |-> "off", index |-> 1, attempt |-> 0, child |-> 0, run |-> 0]
      /\ manifest = None /\ summary = None /\ mishaps = {}
  BY DEF Init, EpisodeInit
<1>2. \A e \in Episodes : ~Completed(e)
  BY <1>1 DEF Completed, StatusOf
<1>3. \A c \in Children : ~Alive(c)
  BY <1>1 DEF Alive
<1>4. batch \in Runner /\ batch.pc = "off"
  BY <1>1 DEF Runner
<1>5. Shape
  BY <1>1, <1>4 DEF Shape, Splits
<1>6. OneEdition /\ OneChild
  BY <1>1, <1>2, <1>3, <1>4 DEF OneEdition, OneChild
<1>7. Campaign!CampaignInit
  BY <1>1, <1>2 DEF Campaign!CampaignInit, Completed
<1> QED
  BY <1>5, <1>6, <1>7 DEF ProofInv, Undisturbed

LEMMA StepKeeps ==
    ASSUME ProofInv, [Next]_vars
    PROVE  ProofInv' /\ CampaignStep
<1> USE DEF CampaignStep, Campaign!campaignVars
<1>1. CASE Summarize
  <2>1. ProofInv' /\ UNCHANGED <<rows, mishaps>>
    BY <1>1, BookkeepingKeeps DEF Bookkeeping
  <2>2. summary' # None
    BY <1>1, EpisodeAssumption DEF Summarize, ProofInv, Shape
  <2>3. Done = 1 .. NumEpisodes
    BY <1>1 DEF Summarize, Summarizable, Done, Episodes
  <2>4. Campaign!Report
    BY <2>1, <2>2, <2>3 DEF Campaign!Report, Done
  <2> QED
    BY <2>1, <2>4 DEF Campaign!CampaignNext
<1>2. ASSUME Bookkeeping, ~Summarize PROVE ProofInv' /\ CampaignStep
  <2>1. ProofInv' /\ UNCHANGED <<rows, mishaps>>
    BY <1>2, BookkeepingKeeps
  <2>2. summary' = summary
    BY <1>2 DEF Bookkeeping, Create, WritePlan, Resume, Skip, Retry, Accept, Reject, Abort,
       AuditFails, CloseManifest, batchVars
  <2> QED
    BY <2>1, <2>2
<1>3. CASE TimeOut \/ Interrupt \/ Spawn
  BY <1>3, EndingKeeps, SpawnKeeps
<1>4. CASE Terminate \/ EditSplit \/ Restart
  <2>1. ProofInv' /\ mishaps' # {} /\ UNCHANGED <<rows, summary>>
    BY <1>4, MishapKeeps
  <2>2. Campaign!Disrupt
    BY <2>1 DEF Campaign!Disrupt
  <2> QED
    BY <2>1, <2>2 DEF Campaign!CampaignNext
<1>5. CASE Serve \/ UNCHANGED vars
  <2>1. UNCHANGED <<children, rows, split, batch, manifest, summary, mishaps>>
    BY <1>5 DEF Serve, vars, episodeVars, batchVars
  <2>2. ProofInv'
    BY <2>1 DEF ProofInv, Shape, Undisturbed, OneEdition, OneChild, Alive, Completed
  <2> QED
    BY <2>1, <2>2
<1>6. ASSUME NEW c \in Children, Work(c) \/ Die(c)
      PROVE  ProofInv' /\ CampaignStep
  <2>1. ChildProgress(c) \/ NativeExit(c)
    BY <1>6 DEF Work, Die
  <2>2. UNCHANGED <<batch, manifest, summary, mishaps>>
    BY <1>6 DEF Work, Die, batchVars
  <2>3. ChildStep(c)
    BY <2>1, WorkIsChildStep DEF ProofInv
  <2> QED
    BY <2>2, <2>3, ChildKeeps, ChildRefines
<1> QED
  BY <1>1, <1>2, <1>3, <1>4, <1>5, <1>6 DEF Next, BatchStep, Bookkeeping

\* The batch implements the campaign: however its children end, and whenever the
\* runner is interrupted and resumed, no result is lost and the report needs them
\* all, as long as nothing but the batch acts.
THEOREM BatchImplementsCampaign == Spec => CampaignSpec
<1>1. Init => ProofInv /\ Campaign!CampaignInit
  BY InitKeeps
<1>2. ProofInv /\ [Next]_vars => ProofInv'
  BY StepKeeps
<1>3. ProofInv /\ [Next]_vars => [Campaign!CampaignNext]_(Campaign!campaignVars)
  BY StepKeeps DEF CampaignStep
<1> QED
  BY <1>1, <1>2, <1>3, PTL DEF Spec, CampaignSpec, Campaign!CampaignSpec
------------------------------------------------------------------------------
(* The types, with the bounds on the frames.                                 *)

FramesBounded ==
    /\ \A r \in requests : r.kind = "act" => r.frame < MaxSteps
    /\ \A c \in Children : At(c, "acting") => children[c].frame < MaxSteps

RunnerTyped ==
    /\ batch.pc \in {"spawn", "wait"} => batch.index \in Episodes
    /\ batch.pc # "off" => manifest \in Manifests

TypesInv == BatchType /\ FramesBounded /\ RunnerTyped

\* The answer to a request, and what it counts against the others.
LEMMA AnswerTypes ==
    ASSUME PolicyType, NEW r \in Requests, NEW answer \in Answers
    PROVE  /\ Deliver(r.by, answer) => inbox' \in [Children -> {None, Waiting} \cup Answers]
           /\ Intrude(r) => disturbed' \in [Children -> {None} \cup 0 .. 2]
<1>1. ASSUME Deliver(r.by, answer) PROVE inbox' \in [Children -> {None, Waiting} \cup Answers]
  BY <1>1 DEF Deliver, PolicyType
<1>2. ASSUME Intrude(r) PROVE disturbed' \in [Children -> {None} \cup 0 .. 2]
  <2> DEFINE counted(c) ==
        IF c = r.by THEN IF r.kind = "reset" /\ inbox[c] = Waiting THEN 0 ELSE disturbed[c]
        ELSE IF disturbed[c] \in {0, 1} THEN disturbed[c] + 1 ELSE disturbed[c]
  <2>1. \A c \in Children : counted(c) \in {None} \cup 0 .. 2
    BY DEF PolicyType
  <2>2. disturbed' = [c \in Children |-> counted(c)]
    BY <1>2 DEF Intrude
  <2> QED
    BY <2>1, <2>2
<1> QED
  BY <1>1, <1>2

\* The server keeps to its types: it accepts frames below the last.
LEMMA ServerTypes ==
    ASSUME PolicyType, \A r \in requests : r.kind = "act" => r.frame < MaxSteps, ServerStep
    PROVE  PolicyType' /\ requests' \subseteq requests
<1>1. PICK r \in requests : \/ ExecuteReset(r)
                            \/ \E action \in Actions : ExecuteAct(r, action)
                            \/ Refuse(r)
  BY DEF ServerStep
<1>2. /\ r \in Requests /\ r.episode \in Episodes /\ r.frame \in 0 .. MaxSteps /\ r.by \in Children
      /\ session.policy \in Policies /\ session.authors \in SUBSET Children
      /\ session.frame \in 0 .. MaxSteps /\ MaxSteps \in Nat
  BY PolicyAssumption DEF PolicyType, Requests
<1>3. CASE ExecuteReset(r)
  <2>1. [kind |-> "ack", policy |-> session.policy] \in Answers
    BY <1>2 DEF Answers
  <2>2. session' = [episode |-> r.episode, frame |-> 0, stopped |-> FALSE, authors |-> {},
                    policy |-> session.policy]
    BY <1>3 DEF ExecuteReset, Reset, FreshSession
  <2>3. session' \in [episode : Episodes \cup {None}, frame : 0 .. MaxSteps,
                      stopped : BOOLEAN, authors : SUBSET Children, policy : Policies]
    BY <1>2, <2>2
  <2> QED
    BY <1>2, <1>3, <2>1, <2>3, AnswerTypes DEF ExecuteReset, PolicyType
<1>4. ASSUME NEW action \in Actions, ExecuteAct(r, action)
      PROVE  PolicyType' /\ requests' \subseteq requests
  <2>1. session.frame < MaxSteps
    BY <1>4 DEF ExecuteAct, Acceptable
  <2>2. session' = [session EXCEPT !.authors = session.authors \cup {r.by},
                                   !.frame = session.frame + 1,
                                   !.stopped = (action = "stop")]
    BY <1>4 DEF ExecuteAct, Act, Remember
  <2>3. /\ session.authors \cup {r.by} \in SUBSET Children
        /\ session.frame + 1 \in 0 .. MaxSteps
        /\ (action = "stop") \in BOOLEAN
    BY <1>2, <2>1
  <2>4. session' \in [episode : Episodes \cup {None}, frame : 0 .. MaxSteps,
                      stopped : BOOLEAN, authors : SUBSET Children, policy : Policies]
    BY <2>2, <2>3 DEF PolicyType
  <2>5. session'.authors \in SUBSET Children
    BY <2>4
  <2> DEFINE answer == [kind |-> "action", action |-> action, policy |-> session.policy,
                        authors |-> session'.authors]
  <2>6. answer \in Answers
    BY <1>2, <2>5 DEF Answers
  <2>7. Deliver(r.by, answer) /\ Intrude(r) /\ requests' = requests \ {r}
    BY <1>4 DEF ExecuteAct
  <2> HIDE DEF answer
  <2> QED
    BY <1>2, <2>4, <2>6, <2>7, AnswerTypes DEF PolicyType
<1>5. CASE Refuse(r)
  <2>1. [kind |-> "refused"] \in Answers
    BY DEF Answers
  <2> QED
    BY <1>2, <1>5, <2>1, AnswerTypes DEF Refuse, PolicyType
<1> QED
  BY <1>1, <1>3, <1>4, <1>5

\* A child keeps to its types: it asks about frames below the last.
LEMMA ChildTypes ==
    ASSUME EpisodeType, FramesBounded, NEW c \in Children, ChildProgress(c) \/ NativeExit(c)
    PROVE  EpisodeType' /\ FramesBounded'
<1>1. \A pc : At(c, pc) => children[c] \in Child /\ children[c].pc = pc
  BY DEF EpisodeType, At
<1>2. /\ PolicyType /\ MaxSteps \in Nat \ {0} /\ split \in Splits
      /\ 0 \in 0 .. MaxSteps
  BY PolicyAssumption DEF EpisodeType
<1>3. ASSUME NEW p \in {None} \cup Child, NEW q \in {None} \cup {Waiting} \cup Answers,
             NEW d \in {None} \cup 0 .. 2,
             children' = [children EXCEPT ![c] = p], inbox' = [inbox EXCEPT ![c] = q],
             disturbed' = [disturbed EXCEPT ![c] = d],
             p # None /\ p.pc = "acting" => p.frame < MaxSteps,
             requests' \subseteq Requests,
             \A r \in requests' : r.kind = "act" => r.frame < MaxSteps,
             session' = session, split' = split,
             rows' \in [Episodes -> {None} \cup Row]
      PROVE  EpisodeType' /\ FramesBounded'
  <2>1. children' \in [Children -> {None} \cup Child]
    BY <1>3 DEF EpisodeType
  <2>2. PolicyType'
    BY <1>2, <1>3 DEF PolicyType
  <2>3. \A d1 \in Children : At(d1, "acting")' => children'[d1].frame < MaxSteps
    BY <1>3 DEF At, EpisodeType, FramesBounded
  <2> QED
    BY <1>2, <1>3, <2>1, <2>2, <2>3 DEF EpisodeType, FramesBounded
<1>4. /\ inbox = [inbox EXCEPT ![c] = inbox[c]] /\ inbox[c] \in {None} \cup {Waiting} \cup Answers
      /\ disturbed = [disturbed EXCEPT ![c] = disturbed[c]] /\ disturbed[c] \in {None} \cup 0 .. 2
  BY <1>2 DEF PolicyType
<1>5. ASSUME NEW row \in Row, children[c] \in Child, WriteRow(c, row)
      PROVE  rows' \in [Episodes -> {None} \cup Row]
  BY <1>5 DEF WriteRow, EpisodeType
<1>6. CASE MarkStarted(c)
  <2> DEFINE p == [children[c] EXCEPT !.pc = "kit", !.wrote = "started", !.split = split]
  <2>1. p \in Child /\ p.pc = "kit"
    BY <1>1, <1>2, <1>6 DEF MarkStarted, Child
  <2>2. [status |-> "started"] \in Row
    BY DEF Row
  <2>3. rows' \in [Episodes -> {None} \cup Row]
    BY <1>1, <1>5, <1>6, <2>2 DEF MarkStarted
  <2>4. children' = [children EXCEPT ![c] = p] /\ session' = session /\ requests' = requests
        /\ inbox' = inbox /\ disturbed' = disturbed /\ split' = split
    BY <1>6 DEF MarkStarted, policyVars, EpisodeType
  <2> HIDE DEF p
  <2> QED
    BY <1>2, <1>3, <1>4, <2>1, <2>3, <2>4 DEF PolicyType, FramesBounded
<1>7. ASSUME NEW kind \in {"reset", "act"}, NEW frame \in 0 .. MaxSteps,
             NEW pc \in {"resetting", "acting"}, children[c] \in Child,
             pc = "acting" \/ kind = "act" => frame < MaxSteps,
             Ask(c, kind, frame, pc)
      PROVE  EpisodeType' /\ FramesBounded'
  <2> DEFINE p == [children[c] EXCEPT !.pc = pc, !.frame = frame]
             r == [kind |-> kind, episode |-> children[c].episode, frame |-> frame, by |-> c]
  <2>1. p \in Child /\ p.pc = pc /\ p.frame = frame
    BY <1>7 DEF Child
  <2>2. r \in Requests /\ r.kind = kind /\ r.frame = frame
    BY <1>7 DEF Requests, Child
  <2>3. children' = [children EXCEPT ![c] = p] /\ requests' = requests \cup {r}
        /\ inbox' = [inbox EXCEPT ![c] = Waiting] /\ disturbed' = disturbed
        /\ session' = session /\ rows' = rows /\ split' = split
    BY <1>7 DEF Ask, EpisodeType
  <2> HIDE DEF p, r
  <2>4. requests' \subseteq Requests
        /\ \A q \in requests' : q.kind = "act" => q.frame < MaxSteps
    BY <1>2, <1>7, <2>2, <2>3 DEF PolicyType, FramesBounded
  <2> QED
    BY <1>3, <1>4, <1>7, <2>1, <2>3, <2>4 DEF EpisodeType
<1>8. CASE AskReset(c)
  BY <1>1, <1>2, <1>7, <1>8 DEF AskReset
<1>9. CASE FirstFrame(c)
  BY <1>1, <1>2, <1>7, <1>9 DEF FirstFrame
<1>10. CASE NextFrame(c)
  <2>1. children[c] \in Child /\ children[c].frame \in 0 .. MaxSteps
        /\ children[c].frame < MaxSteps /\ children[c].frame + 1 # MaxSteps
    BY <1>1, <1>10 DEF NextFrame, Final, FramesBounded, Child
  <2>2. children[c].frame + 1 \in 0 .. MaxSteps /\ children[c].frame + 1 < MaxSteps
    BY <1>2, <2>1
  <2> QED
    BY <1>7, <1>10, <2>1, <2>2 DEF NextFrame
<1>11. ASSUME NEW p \in Child, p.pc \notin {"acting"}, NEW row \in Row, children[c] \in Child,
              children' = [children EXCEPT ![c] = p], WriteRow(c, row),
              inbox' = [inbox EXCEPT ![c] = None], disturbed' = [disturbed EXCEPT ![c] = None],
              UNCHANGED <<session, requests, split>>
       PROVE  EpisodeType' /\ FramesBounded'
  <2>1. rows' \in [Episodes -> {None} \cup Row]
    BY <1>5, <1>11
  <2> QED
    BY <1>2, <1>3, <1>11, <2>1 DEF PolicyType, FramesBounded
<1>12. CASE Complete(c)
  <2> DEFINE p == [children[c] EXCEPT !.pc = "closing", !.wrote = "completed"]
             row == [status |-> "completed", split |-> children[c].split,
                     policy |-> inbox[c].policy, own |-> inbox[c].authors = {c},
                     intruders |-> disturbed[c]]
  <2>1. children[c] \in Child /\ children[c].split \in Splits
    BY <1>1, <1>12 DEF Complete, Child
  <2>2. p \in Child /\ p.pc = "closing"
    BY <2>1 DEF Child
  <2>3. inbox[c].policy \in Policies
    <3>1. inbox[c] # None /\ inbox[c].kind = "action"
      BY <1>12 DEF Complete, Answered
    <3>2. inbox[c] \in Answers
      BY <1>4, <3>1 DEF Waiting
    <3> QED
      BY <3>1, <3>2 DEF Answers
  <2>4. row \in Row
    BY <1>4, <2>1, <2>3 DEF Row
  <2>5. children' = [children EXCEPT ![c] = p] /\ WriteRow(c, row)
        /\ inbox' = [inbox EXCEPT ![c] = None] /\ disturbed' = [disturbed EXCEPT ![c] = None]
        /\ UNCHANGED <<session, requests, split>>
    BY <1>12 DEF Complete, EpisodeType
  <2> HIDE DEF p, row
  <2> QED
    BY <1>11, <2>1, <2>2, <2>4, <2>5
<1>13. ASSUME children[c] \in Child, Raise(c)
       PROVE  EpisodeType' /\ FramesBounded'
  <2> DEFINE p == [children[c] EXCEPT !.pc = "closing", !.wrote = "error", !.failed = TRUE]
  <2>1. p \in Child /\ p.pc = "closing" /\ [status |-> "error"] \in Row
    BY <1>13 DEF Child, Row
  <2>2. children' = [children EXCEPT ![c] = p] /\ WriteRow(c, [status |-> "error"])
        /\ inbox' = [inbox EXCEPT ![c] = None] /\ disturbed' = [disturbed EXCEPT ![c] = None]
        /\ UNCHANGED <<session, requests, split>>
    BY <1>13 DEF Raise, EpisodeType
  <2> HIDE DEF p
  <2> QED
    BY <1>11, <1>13, <2>1, <2>2
<1>14. CASE BootFails(c) \/ RenderFails(c) \/ AskFails(c)
  BY <1>1, <1>13, <1>14 DEF BootFails, RenderFails, AskFails
<1>15. ASSUME NEW failed \in BOOLEAN, children[c] \in Child, Leave(c, failed),
              UNCHANGED <<session, requests, rows, split>>
       PROVE  EpisodeType' /\ FramesBounded'
  <2> DEFINE p == [children[c] EXCEPT !.pc = "gone", !.failed = failed, !.frame = 0, !.split = 0]
  <2>1. p \in Child /\ p.pc = "gone"
    BY <1>2, <1>15 DEF Child, Splits
  <2>2. children' = [children EXCEPT ![c] = p]
        /\ inbox' = [inbox EXCEPT ![c] = None] /\ disturbed' = [disturbed EXCEPT ![c] = None]
    BY <1>15 DEF Leave, EpisodeType
  <2> HIDE DEF p
  <2> QED
    BY <1>2, <1>3, <1>15, <2>1, <2>2 DEF PolicyType, FramesBounded, EpisodeType
<1>16. CASE Exit(c)
  BY <1>1, <1>15, <1>16 DEF Exit, Child
<1>17. CASE NativeExit(c)
  <2>1. children[c] \in Child
    BY <1>17 DEF NativeExit, Alive, EpisodeType
  <2> QED
    BY <1>15, <1>17, <2>1 DEF NativeExit
<1> QED
  BY <1>6, <1>8, <1>9, <1>10, <1>12, <1>14, <1>16, <1>17 DEF ChildProgress

Runners == [pc : {"off", "created", "next", "spawn", "wait", "summarized"},
            index : 1 .. NumEpisodes + 1, attempt : 0 .. StartupRetries,
            child : 0 .. MaxChildren, run : 0 .. MaxRuns]

\* There is a number for the next child.
LEMMA BornCount ==
    /\ IsFiniteSet(Born) /\ Cardinality(Born) \in 0 .. MaxChildren
    /\ Born # Children => Cardinality(Born) + 1 \in Children
<1>1. MaxChildren \in Nat \ {0} /\ 1 \in Int /\ MaxChildren \in Int
  BY PolicyAssumption
<1>2. IsFiniteSet(Children) /\ Cardinality(Children) = MaxChildren
  BY <1>1, FS_Interval DEF Children
<1>3. Born \subseteq Children
  BY DEF Born
<1>4. /\ IsFiniteSet(Born) /\ Cardinality(Born) <= MaxChildren
      /\ Born # Children => Cardinality(Born) # MaxChildren
  BY <1>2, <1>3, FS_Subset
<1>5. Cardinality(Born) \in Nat
  BY <1>4, FS_CardinalityType
<1> QED
  BY <1>1, <1>4, <1>5 DEF Children

\* The runner's own record, with its bounds.
LEMMA RunnerTypes ==
    ASSUME batch \in Runners
    PROVE  /\ \A pc \in {"off", "created", "next", "spawn", "wait", "summarized"} :
                  Goto(pc) => batch' \in Runners /\ batch'.pc = pc /\ batch'.index = batch.index
                                  /\ batch'.run = batch.run
           /\ Stop => batch' \in Runners /\ batch'.pc = "off" /\ batch'.run = batch.run
           /\ \A pc \in {"created", "next"} : batch.run < MaxRuns /\ Launch(pc) =>
                  /\ batch' \in Runners /\ batch'.pc = pc /\ batch'.run = batch.run + 1
                  /\ batch'.index = batch.index
           /\ batch.index <= NumEpisodes /\ MoveOn =>
                  /\ batch' \in Runners /\ batch'.pc = "next" /\ batch'.run = batch.run
                  /\ batch'.index = batch.index + 1
<1>1. /\ NumEpisodes \in Nat /\ StartupRetries \in Nat /\ MaxChildren \in Nat /\ MaxRuns \in Nat
      /\ batch.run \in 0 .. MaxRuns /\ batch.index \in 1 .. NumEpisodes + 1
      /\ 1 \in 1 .. NumEpisodes + 1 /\ 0 \in 0 .. StartupRetries /\ 0 \in 0 .. MaxChildren
  BY PolicyAssumption, BatchAssumption DEF Runners
<1>2. ASSUME NEW pc \in {"off", "created", "next", "spawn", "wait", "summarized"}, Goto(pc)
      PROVE  batch' \in Runners /\ batch'.pc = pc /\ batch'.index = batch.index
             /\ batch'.run = batch.run
  BY <1>2 DEF Goto, Runners
<1>3. ASSUME Stop PROVE batch' \in Runners /\ batch'.pc = "off" /\ batch'.run = batch.run
  <2>1. batch' = [batch EXCEPT !.pc = "off", !.index = 1, !.attempt = 0, !.child = 0]
    BY <1>3 DEF Stop
  <2> QED
    BY <1>1, <2>1 DEF Runners
<1>4. ASSUME NEW pc \in {"created", "next"}, batch.run < MaxRuns, Launch(pc)
      PROVE  /\ batch' \in Runners /\ batch'.pc = pc /\ batch'.run = batch.run + 1
             /\ batch'.index = batch.index
  <2>1. batch.run + 1 \in 0 .. MaxRuns
    BY <1>1, <1>4
  <2>2. batch' = [batch EXCEPT !.pc = pc, !.run = batch.run + 1]
    BY <1>4 DEF Launch
  <2> QED
    BY <2>1, <2>2 DEF Runners
<1>5. ASSUME batch.index <= NumEpisodes, MoveOn
      PROVE  /\ batch' \in Runners /\ batch'.pc = "next" /\ batch'.run = batch.run
             /\ batch'.index = batch.index + 1
  <2>1. batch.index + 1 \in 1 .. NumEpisodes + 1
    BY <1>1, <1>5
  <2>2. batch' = [batch EXCEPT !.pc = "next", !.index = batch.index + 1, !.attempt = 0, !.child = 0]
    BY <1>5 DEF MoveOn
  <2> QED
    BY <1>1, <2>1, <2>2 DEF Runners
<1> QED
  BY <1>2, <1>3, <1>4, <1>5

\* What the runner notes in its manifest.
LEMMA NoteTypes ==
    ASSUME manifest \in Manifests,
           NEW status \in {"unwritten", "running", "error", "completed"},
           NEW completed \in 0 .. NumEpisodes
    PROVE  /\ LET m == [manifest EXCEPT !.status = status]
              IN  /\ m \in Manifests /\ m.plan = manifest.plan /\ m.status = status
                  /\ m.completed = manifest.completed
           /\ LET m == [manifest EXCEPT !.status = status, !.completed = completed]
              IN  /\ m \in Manifests /\ m.plan = manifest.plan /\ m.status = status
                  /\ m.completed = completed
  BY DEF Manifests

\* What each step of the runner that leaves every process alone does to its record
\* and its manifest.
LEMMA BookkeepingTypes ==
    ASSUME TypesInv, Bookkeeping
    PROVE  /\ UNCHANGED <<episodeVars, mishaps>>
           /\ batch' \in Runners
           /\ batch'.pc = "spawn" => batch.pc = "wait" /\ batch'.index = batch.index
           /\ batch'.pc # "wait"
           /\ batch'.pc # "off" => manifest' \in Manifests
           /\ manifest' \in {None} \cup Manifests
           /\ summary' \in {None} \cup Splits
<1>1. /\ batch \in Runners /\ manifest \in {None} \cup Manifests /\ split \in Splits
      /\ summary \in {None} \cup Splits
      /\ batch.pc \in {"spawn", "wait"} => batch.index \in Episodes
      /\ batch.pc # "off" => manifest \in Manifests
      /\ NumEpisodes \in Nat \ {0} /\ 0 \in 0 .. NumEpisodes /\ NumEpisodes \in 0 .. NumEpisodes
  BY PolicyAssumption DEF TypesInv, BatchType, EpisodeType, RunnerTyped, Runners
<1>2. UNCHANGED <<episodeVars, mishaps>>
  BY DEF Bookkeeping, Create, WritePlan, Resume, Skip, Retry, Accept, Reject, Abort, Summarize,
     AuditFails, CloseManifest, batchVars
<1>3. CASE Create
  <2>1. manifest' \in Manifests
    BY <1>1, <1>3 DEF Create, Manifests
  <2> QED
    BY <1>1, <1>2, <1>3, <2>1, RunnerTypes DEF Create
<1>4. CASE WritePlan
  BY <1>1, <1>2, <1>4, RunnerTypes, NoteTypes DEF WritePlan
<1>5. CASE Resume
  BY <1>1, <1>2, <1>5, RunnerTypes DEF Resume, batchVars
<1>6. CASE Skip
  BY <1>1, <1>2, <1>6, RunnerTypes DEF Skip, batchVars
<1>7. CASE Retry
  <2>1. batch.attempt + 1 \in 0 .. StartupRetries /\ 0 \in 0 .. MaxChildren
    BY <1>1, <1>7, PolicyAssumption, BatchAssumption DEF Retry, Runners
  <2>2. batch' = [batch EXCEPT !.pc = "spawn", !.attempt = batch.attempt + 1, !.child = 0]
        /\ batch.pc = "wait" /\ summary' = summary /\ manifest' = manifest
    BY <1>7 DEF Retry, ChildEnded, batchVars
  <2>3. batch' \in Runners /\ batch'.pc = "spawn" /\ batch'.index = batch.index
    BY <1>1, <2>1, <2>2 DEF Runners
  <2> QED
    BY <1>1, <1>2, <2>2, <2>3
<1>8. CASE Accept
  <2>1. batch.pc = "wait" /\ batch.index \in Episodes /\ summary' = summary
    BY <1>1, <1>8 DEF Accept, Judged, ChildEnded
  <2>2. batch.index \in 0 .. NumEpisodes /\ batch.index <= NumEpisodes
    BY <1>1, <2>1 DEF Episodes
  <2>3. batch' \in Runners /\ batch'.pc = "next"
    BY <1>1, <1>8, <2>2, RunnerTypes DEF Accept
  <2>4. manifest' \in Manifests
    BY <1>1, <1>8, <2>1, <2>2, NoteTypes DEF Accept
  <2> QED
    BY <1>1, <1>2, <2>1, <2>3, <2>4
<1>9. CASE Reject
  BY <1>1, <1>2, <1>9, RunnerTypes, NoteTypes DEF Reject, Abort, Judged, ChildEnded
<1>10. CASE Summarize
  BY <1>1, <1>2, <1>10, RunnerTypes DEF Summarize, Finished
<1>11. CASE AuditFails
  BY <1>1, <1>2, <1>11, RunnerTypes DEF AuditFails, batchVars
<1>12. CASE CloseManifest
  BY <1>1, <1>2, <1>12, RunnerTypes, NoteTypes DEF CloseManifest
<1> QED
  BY <1>3, <1>4, <1>5, <1>6, <1>7, <1>8, <1>9, <1>10, <1>11, <1>12 DEF Bookkeeping

\* The runner ends its child, or has none.
Ending == TimeOut \/ Interrupt

LEMMA EndingTypes ==
    ASSUME TypesInv, Ending
    PROVE  /\ TypesInv'
           /\ batch'.pc = "off" /\ batch'.run = batch.run
           /\ UNCHANGED <<session, requests, rows, split, summary, mishaps>>
           /\ IF batch.pc = "wait" /\ Alive(batch.child) THEN Leave(batch.child, TRUE)
              ELSE UNCHANGED <<children, inbox, disturbed>>
           /\ manifest # None => /\ manifest'.plan = manifest.plan
                                 /\ manifest'.completed = manifest.completed
                                 /\ manifest'.status \in {"error", manifest.status}
<1>1. /\ batch \in Runners /\ manifest \in Manifests /\ EpisodeType /\ FramesBounded
      /\ summary \in {None} \cup Splits /\ mishaps \subseteq {"orphan", "edit", "restart"}
      /\ NumEpisodes \in Nat
  <2>1. batch.pc # "off"
    BY DEF Ending, TimeOut, Interrupt
  <2> QED
    BY <2>1, PolicyAssumption DEF TypesInv, BatchType, RunnerTyped, Runners
<1>2. Stop /\ UNCHANGED <<session, requests, rows, split, summary, mishaps>>
  BY DEF Ending, TimeOut, Interrupt, Abort, batchVars
<1>3. batch' \in Runners /\ batch'.pc = "off" /\ batch'.run = batch.run
  BY <1>1, <1>2, RunnerTypes
<1>4. /\ manifest' \in Manifests /\ manifest'.plan = manifest.plan
      /\ manifest'.completed = manifest.completed
      /\ manifest'.status \in {"error", manifest.status}
  <2>1. CASE TimeOut
    <3>1. 0 \in 0 .. NumEpisodes
      BY <1>1
    <3>2. manifest' = [manifest EXCEPT !.status = "error"]
      BY <2>1 DEF TimeOut, Abort
    <3> QED
      BY <1>1, <3>1, <3>2, NoteTypes
  <2>2. CASE Interrupt
    BY <1>1, <2>2 DEF Interrupt, batchVars
  <2> QED
    BY <2>1, <2>2 DEF Ending
<1>5. IF batch.pc = "wait" /\ Alive(batch.child) THEN Leave(batch.child, TRUE)
      ELSE UNCHANGED <<children, inbox, disturbed>>
  BY DEF Ending, TimeOut, Interrupt
<1>6. EpisodeType' /\ FramesBounded'
  <2>1. CASE Leave(batch.child, TRUE) /\ batch.child \in Children /\ Alive(batch.child)
    <3> DEFINE c == batch.child
               p == [children[c] EXCEPT !.pc = "gone", !.failed = TRUE, !.frame = 0, !.split = 0]
    <3>1. 0 \in 0 .. MaxSteps /\ children[c] \in Child
      BY <1>1, <2>1, PolicyAssumption DEF EpisodeType, Alive
    <3>2. p \in Child /\ p.pc = "gone"
      BY <3>1 DEF Child, Splits
    <3>3. children' = [children EXCEPT ![c] = p]
          /\ inbox' = [inbox EXCEPT ![c] = None] /\ disturbed' = [disturbed EXCEPT ![c] = None]
      BY <1>1, <2>1 DEF Leave, EpisodeType
    <3> HIDE DEF p
    <3>4. PolicyType'
      BY <1>1, <1>2, <2>1, <3>3 DEF EpisodeType, PolicyType
    <3>5. children' \in [Children -> {None} \cup Child]
      BY <1>1, <2>1, <3>2, <3>3 DEF EpisodeType
    <3>6. \A d \in Children : At(d, "acting")' => At(d, "acting") /\ children'[d] = children[d]
      BY <1>1, <2>1, <3>2, <3>3 DEF At, EpisodeType
    <3> QED
      BY <1>1, <1>2, <3>4, <3>5, <3>6 DEF EpisodeType, FramesBounded
  <2>2. CASE UNCHANGED <<children, inbox, disturbed>> \/ batch.child \notin Children
    <3>1. UNCHANGED <<children, inbox, disturbed>>
      BY <1>1, <1>5, <2>2 DEF Leave, EpisodeType, PolicyType
    <3> QED
      BY <1>1, <1>2, <3>1 DEF EpisodeType, PolicyType, FramesBounded, At
  <2> QED
    BY <1>5, <2>1, <2>2
<1> QED
  BY <1>1, <1>2, <1>3, <1>4, <1>5, <1>6 DEF TypesInv, BatchType, RunnerTyped, Runners

\* A child is started.
LEMMA SpawnTypes ==
    ASSUME TypesInv, Spawn
    PROVE  LET c == Cardinality(Born) + 1 IN
           /\ TypesInv'
           /\ c \in Children /\ batch.index \in Episodes
           /\ batch'.pc = "wait" /\ batch'.child = c
           /\ batch'.index = batch.index /\ batch'.run = batch.run
           /\ children'[c] # None /\ children'[c].episode = batch.index
           /\ children'[c].run = batch.run /\ children'[c].pc = "preflight"
           /\ children'[c].wrote = "nothing"
           /\ \A d \in Children : d # c => children'[d] = children[d]
           /\ UNCHANGED <<policyVars, rows, split, manifest, summary, mishaps>>
<1> DEFINE c == Cardinality(Born) + 1
           p == [episode |-> batch.index, run |-> batch.run, frame |-> 0, pc |-> "preflight",
                 wrote |-> "nothing", failed |-> FALSE, split |-> 0]
<1>1. /\ batch \in Runners /\ batch.pc \in {"next", "spawn"} /\ EpisodeType /\ FramesBounded
      /\ manifest \in Manifests /\ batch.index \in 1 .. NumEpisodes + 1 /\ batch.run \in Nat
      /\ summary \in {None} \cup Splits /\ mishaps \subseteq {"orphan", "edit", "restart"}
      /\ 0 \in 0 .. MaxSteps /\ NumEpisodes \in Nat /\ MaxChildren \in Nat
  BY PolicyAssumption DEF TypesInv, BatchType, RunnerTyped, Runners, Spawn
<1>2. /\ UNCHANGED <<policyVars, rows, split, manifest, summary, mishaps>>
      /\ children' = [children EXCEPT ![c] = p]
      /\ batch' = [batch EXCEPT !.pc = "wait", !.child = c]
      /\ Born # Children
  BY DEF Spawn, batchVars
<1>3. c \in Children
  BY <1>2, BornCount
<1>4. batch.index \in Episodes
  BY <1>1 DEF Spawn, TypesInv, RunnerTyped, Episodes
<1>5. /\ p \in Child /\ p.episode = batch.index /\ p.run = batch.run /\ p.pc = "preflight"
      /\ p.wrote = "nothing"
  BY <1>1, <1>4 DEF Child, Splits
<1> HIDE DEF c, p
<1>6. /\ batch' \in Runners /\ batch'.pc = "wait" /\ batch'.child = c
      /\ batch'.index = batch.index /\ batch'.run = batch.run
  <2>1. c \in 0 .. MaxChildren
    BY <1>1, <1>3 DEF Children
  <2> QED
    BY <1>1, <1>2, <2>1 DEF Runners
<1>7. /\ children' \in [Children -> {None} \cup Child] /\ children'[c] = p
      /\ \A d \in Children : d # c => children'[d] = children[d]
  BY <1>1, <1>2, <1>3, <1>5 DEF EpisodeType
<1>8. p # None
  BY <1>5, EpisodeAssumption
<1>9. \A d \in Children : At(d, "acting")' => At(d, "acting") /\ children'[d] = children[d]
  BY <1>5, <1>7 DEF At
<1>10. EpisodeType' /\ FramesBounded'
  BY <1>1, <1>2, <1>7, <1>9 DEF EpisodeType, PolicyType, policyVars, FramesBounded
<1>11. TypesInv'
  BY <1>1, <1>2, <1>4, <1>6, <1>10 DEF TypesInv, BatchType, RunnerTyped, Runners
<1> QED
  BY <1>2, <1>3, <1>4, <1>5, <1>6, <1>7, <1>8, <1>11 DEF c

\* The steps that leave the runner alone.
LEMMA OutsideTypes ==
    ASSUME TypesInv,
           \/ Serve \/ EditSplit \/ Restart \/ Terminate
           \/ \E c \in Children : Work(c) \/ Die(c)
    PROVE  /\ TypesInv'
           /\ UNCHANGED <<manifest, summary>>
           /\ ~Terminate => batch' = batch
<1>1. /\ batch \in Runners /\ EpisodeType /\ FramesBounded
      /\ manifest \in {None} \cup Manifests
      /\ summary \in {None} \cup Splits /\ mishaps \subseteq {"orphan", "edit", "restart"}
  BY DEF TypesInv, BatchType, Runners
<1>2. ASSUME batch' = batch \/ batch'.pc = "off", batch' \in Runners,
             UNCHANGED <<manifest, summary>>,
             mishaps' \subseteq {"orphan", "edit", "restart"}, EpisodeType', FramesBounded'
      PROVE  TypesInv'
  BY <1>1, <1>2 DEF TypesInv, BatchType, RunnerTyped, Runners
<1>3. CASE Serve
  <2>1. PolicyType' /\ requests' \subseteq requests
    BY <1>1, <1>3, ServerTypes DEF Serve, EpisodeType, FramesBounded
  <2>2. UNCHANGED <<children, rows, split, batch, manifest, summary, mishaps>>
    BY <1>3 DEF Serve, batchVars
  <2>3. EpisodeType' /\ FramesBounded'
    BY <1>1, <2>1, <2>2 DEF EpisodeType, FramesBounded, At
  <2> QED
    BY <1>1, <1>2, <1>3, <2>2, <2>3
<1>4. CASE EditSplit
  <2>1. EpisodeType' /\ FramesBounded'
    BY <1>1, <1>4 DEF EditSplit, EpisodeType, PolicyType, policyVars, FramesBounded, At, Splits
  <2> QED
    BY <1>1, <1>2, <1>4, <2>1 DEF EditSplit, Mishap
<1>5. CASE Restart
  <2>1. PICK p \in Policies : RestartServer(p)
    BY <1>5 DEF Restart
  <2>2. UNCHANGED <<children, rows, split, batch, manifest, summary>>
    BY <1>5 DEF Restart
  <2>3. PolicyType' /\ requests' = {}
    <3>1. [kind |-> "refused"] \in Answers
      BY DEF Answers
    <3>2. FreshSession(p) \in [episode : Episodes \cup {None}, frame : 0 .. MaxSteps,
                               stopped : BOOLEAN, authors : SUBSET Children, policy : Policies]
      BY PolicyAssumption DEF FreshSession
    <3> QED
      BY <1>1, <2>1, <3>1, <3>2 DEF RestartServer, EpisodeType, PolicyType
  <2>4. EpisodeType' /\ FramesBounded'
    BY <1>1, <2>2, <2>3 DEF EpisodeType, FramesBounded, At
  <2> QED
    BY <1>1, <1>2, <1>5, <2>2, <2>4 DEF Restart, Mishap
<1>6. CASE Terminate
  <2>1. UNCHANGED <<episodeVars, manifest, summary>> /\ Stop
    BY <1>6 DEF Terminate
  <2>2. EpisodeType' /\ FramesBounded'
    BY <1>1, <2>1 DEF episodeVars, EpisodeType, PolicyType, policyVars, FramesBounded, At
  <2>3. batch' \in Runners /\ batch'.pc = "off"
    BY <1>1, <2>1, RunnerTypes
  <2> QED
    BY <1>1, <1>2, <1>6, <2>1, <2>2, <2>3 DEF Terminate, Mishap
<1>7. ASSUME NEW c \in Children, Work(c) \/ Die(c)
      PROVE  TypesInv' /\ UNCHANGED <<batch, manifest, summary>>
  <2>1. ChildProgress(c) \/ NativeExit(c)
    BY <1>7 DEF Work, Die
  <2>2. UNCHANGED <<batch, manifest, summary, mishaps>>
    BY <1>7 DEF Work, Die, batchVars
  <2>3. EpisodeType' /\ FramesBounded'
    BY <1>1, <2>1, ChildTypes
  <2> QED
    BY <1>1, <1>2, <2>2, <2>3
<1> QED
  BY <1>3, <1>4, <1>5, <1>6, <1>7 DEF Serve, EditSplit, Restart, Terminate, batchVars

LEMMA TypesStep ==
    ASSUME TypesInv, [Next]_vars
    PROVE  TypesInv'
<1>1. CASE Bookkeeping
  <2>1. EpisodeType' /\ FramesBounded'
    BY <1>1, BookkeepingTypes
       DEF episodeVars, EpisodeType, PolicyType, policyVars, FramesBounded, At, TypesInv, BatchType
  <2>2. batch'.pc \in {"spawn", "wait"} => batch'.index \in Episodes
    BY <1>1, BookkeepingTypes DEF TypesInv, RunnerTyped
  <2> QED
    BY <1>1, <2>1, <2>2, BookkeepingTypes DEF TypesInv, BatchType, RunnerTyped, Runners
<1>2. CASE UNCHANGED vars
  BY <1>2 DEF vars, episodeVars, policyVars, batchVars, TypesInv, BatchType, EpisodeType,
     PolicyType, FramesBounded, RunnerTyped, At
<1> QED
  BY <1>1, <1>2, EndingTypes, SpawnTypes, OutsideTypes DEF Next, BatchStep, Bookkeeping, Ending

LEMMA TypesInit == Init => TypesInv
<1> SUFFICES ASSUME Init PROVE TypesInv
  OBVIOUS
<1>1. /\ NumEpisodes \in Nat \ {0} /\ StartupRetries \in Nat /\ MaxChildren \in Nat
      /\ MaxRuns \in Nat /\ MaxSteps \in Nat /\ PlannedPolicy \in Policies
      /\ 1 \in 1 .. NumEpisodes + 1
  BY PolicyAssumption, BatchAssumption
<1>2. /\ batch = [pc |-> "off", index |-> 1, attempt |-> 0, child |-> 0, run |-> 0]
      /\ manifest = None /\ summary = None /\ mishaps = {}
      /\ children = [c \in Children |-> None] /\ rows = [e \in Episodes |-> None] /\ split = 0
      /\ session = FreshSession(PlannedPolicy) /\ requests = {}
      /\ inbox = [c \in Children |-> None] /\ disturbed = [c \in Children |-> None]
  BY DEF Init, EpisodeInit, PolicyInit
<1>3. PolicyType
  BY <1>1, <1>2 DEF PolicyType, FreshSession
<1>4. EpisodeType /\ FramesBounded
  BY <1>2, <1>3 DEF EpisodeType, FramesBounded, At, Splits
<1>5. BatchType
  BY <1>1, <1>2, <1>4 DEF BatchType
<1> QED
  BY <1>2, <1>4, <1>5 DEF TypesInv, RunnerTyped
------------------------------------------------------------------------------
(* What survives of a child, and who is alive.                               *)

\* What the runner has asked of a child and what the child has written.
KeepsRecord(c) ==
    /\ (children'[c] = None) <=> (children[c] = None)
    /\ children[c] # None => /\ children'[c].episode = children[c].episode
                             /\ children'[c].run = children[c].run
                             /\ children'[c].wrote = children[c].wrote

\* The steps of everybody but the children, without the one that starts a child.
Aside == Bookkeeping \/ Ending \/ Serve \/ EditSplit \/ Restart \/ Terminate \/ UNCHANGED vars

LEMMA AsideUnfolds ==
    ASSUME Aside
    PROVE  /\ UNCHANGED rows /\ mishaps \subseteq mishaps'
           /\ Ending \/ UNCHANGED children
<1>1. CASE Bookkeeping
  BY <1>1 DEF Bookkeeping, Create, WritePlan, Resume, Skip, Retry, Accept, Reject, Abort,
     Summarize, AuditFails, CloseManifest, episodeVars, batchVars
<1>2. CASE Ending
  BY <1>2 DEF Ending, TimeOut, Interrupt, Abort, batchVars
<1>3. CASE Serve \/ EditSplit \/ Restart \/ Terminate \/ UNCHANGED vars
  BY <1>3 DEF Serve, EditSplit, Restart, Terminate, Mishap, vars, episodeVars, batchVars
<1> QED
  BY <1>1, <1>2, <1>3 DEF Aside

\* A child that leaves keeps its record.
LEMMA LeaveRecord ==
    ASSUME TypesInv, NEW c, Alive(c), NEW failed \in BOOLEAN, Leave(c, failed)
    PROVE  \A d \in Children : /\ KeepsRecord(d)
                               /\ d = c => ~Alive(d)'
                               /\ d # c => children'[d] = children[d]
<1>1. children \in [Children -> {None} \cup Child] /\ 0 \in 0 .. MaxSteps
  BY PolicyAssumption DEF TypesInv, BatchType, EpisodeType
<1>2. CASE c \in Children
  <2> DEFINE p == [children[c] EXCEPT !.pc = "gone", !.failed = failed, !.frame = 0, !.split = 0]
  <2>1. children[c] \in Child
    BY <1>1, <1>2 DEF Alive
  <2>2. /\ p \in Child /\ p.pc = "gone" /\ p.episode = children[c].episode
        /\ p.run = children[c].run /\ p.wrote = children[c].wrote
    BY <1>1, <2>1 DEF Child, Splits
  <2>3. children' = [children EXCEPT ![c] = p]
    BY <1>1 DEF Leave
  <2>4. p # None /\ children[c] # None
    BY <2>1, <2>2, EpisodeAssumption
  <2> HIDE DEF p
  <2> QED
    BY <1>1, <1>2, <2>2, <2>3, <2>4 DEF KeepsRecord, Alive
<1>3. CASE c \notin Children
  BY <1>1, <1>3 DEF Leave, KeepsRecord
<1> QED
  BY <1>2, <1>3

LEMMA AsideRecord ==
    ASSUME TypesInv, Aside
    PROVE  \A d \in Children : /\ KeepsRecord(d)
                               /\ Alive(d)' => Alive(d) /\ children'[d] = children[d]
                               /\ Alive(d)' /\ Ending => batch.pc # "wait" \/ d # batch.child
<1>1. CASE UNCHANGED children /\ ~Ending
  BY <1>1 DEF KeepsRecord, Alive
<1>2. CASE Ending
  <2>1. CASE batch.pc = "wait" /\ Alive(batch.child)
    <3>1. Leave(batch.child, TRUE)
      BY <1>2, <2>1, EndingTypes
    <3> QED
      BY <2>1, <3>1, LeaveRecord DEF Alive
  <2>2. CASE ~(batch.pc = "wait" /\ Alive(batch.child))
    <3>1. UNCHANGED children
      BY <1>2, <2>2, EndingTypes
    <3> QED
      BY <2>2, <3>1 DEF KeepsRecord, Alive
  <2> QED
    BY <2>1, <2>2
<1> QED
  BY <1>1, <1>2, AsideUnfolds

\* A child that acts: it writes a result exactly when it says so.
LEMMA ChildRecord ==
    ASSUME TypesInv, NEW c \in Children, ChildProgress(c) \/ NativeExit(c)
    PROVE  /\ Alive(c) /\ children'[c] # None
           /\ children'[c].episode = children[c].episode
           /\ children'[c].run = children[c].run
           /\ \A d \in Children : d # c => children'[d] = children[d]
           /\ \A e \in Episodes : e # children[c].episode => rows'[e] = rows[e]
           /\ \/ rows' = rows /\ children'[c].wrote = children[c].wrote
              \/ StatusOf(rows'[children[c].episode]) = children'[c].wrote
<1>1. children \in [Children -> {None} \cup Child] /\ rows \in [Episodes -> {None} \cup Row]
  BY DEF TypesInv, BatchType, EpisodeType
<1>2. Alive(c) /\ children[c] \in Child /\ children[c].episode \in Episodes
  BY <1>1 DEF ChildProgress, NativeExit, MarkStarted, AskReset, FirstFrame, NextFrame, Complete,
     BootFails, RenderFails, AskFails, Exit, At, Alive, Child
<1>3. \A e \in Episodes : rows'[e] \in {None} \cup Row
  <2>1. EpisodeType /\ FramesBounded
    BY DEF TypesInv, BatchType
  <2> QED
    BY <2>1, ChildTypes DEF EpisodeType
<1>4. ASSUME NEW p \in Child, p.episode = children[c].episode, p.run = children[c].run,
             children' = [children EXCEPT ![c] = p]
      PROVE  /\ children'[c] = p /\ children'[c] # None
             /\ children'[c].episode = children[c].episode
             /\ children'[c].run = children[c].run
             /\ \A d \in Children : d # c => children'[d] = children[d]
  BY <1>1, <1>4, EpisodeAssumption
<1>5. ASSUME NEW row, WriteRow(c, row), row \in Row
      PROVE  /\ \A e \in Episodes : e # children[c].episode => rows'[e] = rows[e]
             /\ StatusOf(rows'[children[c].episode]) = row.status
  BY <1>1, <1>2, <1>5, EpisodeAssumption DEF WriteRow, StatusOf
<1>6. CASE MarkStarted(c)
  <2> DEFINE p == [children[c] EXCEPT !.pc = "kit", !.wrote = "started", !.split = split]
             row == [status |-> "started"]
  <2>1. split \in Splits
    BY DEF TypesInv, BatchType, EpisodeType
  <2>2. p \in Child /\ p.episode = children[c].episode /\ p.run = children[c].run
        /\ p.wrote = "started"
    BY <1>2, <2>1 DEF Child
  <2>3. children' = [children EXCEPT ![c] = p] /\ WriteRow(c, row)
    BY <1>1, <1>6 DEF MarkStarted
  <2>4. row \in Row /\ row.status = "started"
    BY DEF Row
  <2> HIDE DEF p, row
  <2> QED
    BY <1>2, <1>4, <1>5, <2>2, <2>3, <2>4
<1>7. ASSUME NEW frame \in 0 .. MaxSteps, NEW pc \in {"resetting", "acting"}, rows' = rows,
             children' = [children EXCEPT ![c].pc = pc, ![c].frame = frame]
      PROVE  /\ children'[c] # None
             /\ children'[c].episode = children[c].episode
             /\ children'[c].run = children[c].run
             /\ children'[c].wrote = children[c].wrote
             /\ \A d \in Children : d # c => children'[d] = children[d]
  <2> DEFINE p == [children[c] EXCEPT !.pc = pc, !.frame = frame]
  <2>1. p \in Child /\ p.episode = children[c].episode /\ p.run = children[c].run
        /\ p.wrote = children[c].wrote
    BY <1>2, <1>7 DEF Child
  <2>2. children' = [children EXCEPT ![c] = p]
    BY <1>1, <1>7
  <2> HIDE DEF p
  <2> QED
    BY <1>4, <2>1, <2>2
<1>8. CASE AskReset(c) \/ FirstFrame(c)
  <2>1. 0 \in 0 .. MaxSteps
    BY PolicyAssumption
  <2>2. PICK pc \in {"resetting", "acting"} :
           children' = [children EXCEPT ![c].pc = pc, ![c].frame = 0]
    BY <1>8 DEF AskReset, FirstFrame, Ask
  <2>3. rows' = rows
    BY <1>8 DEF AskReset, FirstFrame, Ask
  <2> QED
    BY <1>2, <1>7, <2>1, <2>2, <2>3
<1>9. CASE NextFrame(c)
  <2>1. children[c].frame + 1 \in 0 .. MaxSteps
    <3>1. children[c].frame \in 0 .. MaxSteps /\ children[c].frame < MaxSteps /\ MaxSteps \in Nat
      BY <1>2, <1>9, PolicyAssumption DEF NextFrame, Child, TypesInv, FramesBounded
    <3> QED
      BY <3>1
  <2>2. /\ children' = [children EXCEPT ![c].pc = "acting", ![c].frame = children[c].frame + 1]
        /\ rows' = rows
    BY <1>9 DEF NextFrame, Ask
  <2> QED
    BY <1>2, <1>7, <2>1, <2>2
<1>10. CASE Complete(c)
  <2> DEFINE p == [children[c] EXCEPT !.pc = "closing", !.wrote = "completed"]
             row == [status |-> "completed", split |-> children[c].split,
                     policy |-> inbox[c].policy, own |-> inbox[c].authors = {c},
                     intruders |-> disturbed[c]]
  <2>1. p \in Child /\ p.episode = children[c].episode /\ p.run = children[c].run
        /\ p.wrote = "completed"
    BY <1>2 DEF Child
  <2>2. children' = [children EXCEPT ![c] = p] /\ WriteRow(c, row)
    BY <1>1, <1>10 DEF Complete
  <2>3. inbox[c].policy \in Policies /\ disturbed[c] \in {None} \cup 0 .. 2
    <3>1. inbox[c] \in {None, Waiting} \cup Answers /\ disturbed[c] \in {None} \cup 0 .. 2
      BY DEF TypesInv, BatchType, EpisodeType, PolicyType
    <3>2. inbox[c] # None /\ inbox[c].kind = "action"
      BY <1>10 DEF Complete, Answered
    <3>3. inbox[c] \in Answers
      BY <3>1, <3>2 DEF Waiting
    <3> QED
      BY <3>1, <3>2, <3>3 DEF Answers
  <2>4. row \in Row /\ row.status = "completed"
    BY <1>2, <2>3 DEF Row, Child
  <2> HIDE DEF p, row
  <2> QED
    BY <1>2, <1>4, <1>5, <2>1, <2>2, <2>4
<1>11. CASE BootFails(c) \/ RenderFails(c) \/ AskFails(c)
  <2> DEFINE p == [children[c] EXCEPT !.pc = "closing", !.wrote = "error", !.failed = TRUE]
             row == [status |-> "error"]
  <2>1. p \in Child /\ p.episode = children[c].episode /\ p.run = children[c].run
        /\ p.wrote = "error"
    BY <1>2 DEF Child
  <2>2. children' = [children EXCEPT ![c] = p] /\ WriteRow(c, row)
    BY <1>1, <1>11 DEF BootFails, RenderFails, AskFails, Raise
  <2>3. row \in Row /\ row.status = "error"
    BY DEF Row
  <2> HIDE DEF p, row
  <2> QED
    BY <1>2, <1>4, <1>5, <2>1, <2>2, <2>3
<1>12. CASE Exit(c) \/ NativeExit(c)
  <2>1. PICK failed \in BOOLEAN : Leave(c, failed)
    BY <1>2, <1>12 DEF Exit, NativeExit, Child
  <2>2. rows' = rows
    BY <1>12 DEF Exit, NativeExit
  <2>3. \A d \in Children : KeepsRecord(d) /\ (d # c => children'[d] = children[d])
    BY <1>2, <2>1, LeaveRecord
  <2> QED
    BY <1>2, <2>2, <2>3 DEF KeepsRecord, Alive
<1> QED
  BY <1>6, <1>8, <1>9, <1>10, <1>11, <1>12 DEF ChildProgress

\* Every step is one of these.
LEMMA Steps ==
    ASSUME [Next]_vars
    PROVE  \/ Aside \/ Spawn
           \/ \E c \in Children : /\ ChildProgress(c) \/ NativeExit(c)
                                  /\ UNCHANGED <<batch, manifest, summary, mishaps>>
  BY DEF Next, BatchStep, Work, Die, batchVars, Aside, Bookkeeping, Ending

\* Unless a child was left running, the only process is the one the runner waits for.
Sole == ~Orphaned => \A c \in Children : Alive(c) => batch.pc = "wait" /\ c = batch.child

LEMMA SoleStep ==
    ASSUME TypesInv, Sole, [Next]_vars
    PROVE  Sole'
<1>1. CASE Aside
  <2>1. mishaps \subseteq mishaps'
    BY <1>1, AsideUnfolds
  <2>2. \A c \in Children : Alive(c)' => Alive(c)
    BY <1>1, AsideRecord
  <2>3. CASE Bookkeeping
    <3>1. batch.pc = "wait" => ~Alive(batch.child)
      BY <2>3 DEF Bookkeeping, Create, WritePlan, Resume, Skip, Retry, Accept, Reject, Judged,
         ChildEnded, Summarize, AuditFails, Finished, CloseManifest
    <3> QED
      BY <2>1, <2>2, <3>1 DEF Sole, Orphaned
  <2>4. CASE Ending
    <3>1. \A c \in Children : Alive(c)' => batch.pc # "wait" \/ c # batch.child
      BY <1>1, <2>4, AsideRecord
    <3> QED
      BY <2>1, <2>2, <3>1 DEF Sole, Orphaned
  <2>5. CASE Terminate
    BY <2>5 DEF Terminate, Mishap, Sole, Orphaned
  <2>6. CASE Serve \/ EditSplit \/ Restart \/ UNCHANGED vars
    <3>1. batch' = batch
      BY <2>6 DEF Serve, EditSplit, Restart, vars
    <3> QED
      BY <2>1, <2>2, <3>1 DEF Sole, Orphaned
  <2> QED
    BY <1>1, <2>3, <2>4, <2>5, <2>6 DEF Aside
<1>2. CASE Spawn
  <2> DEFINE c == Cardinality(Born) + 1
  <2>1. /\ batch'.pc = "wait" /\ batch'.child = c /\ mishaps' = mishaps /\ batch.pc # "wait"
        /\ \A d \in Children : d # c => children'[d] = children[d]
    BY <1>2, SpawnTypes DEF Spawn
  <2> HIDE DEF c
  <2> QED
    BY <2>1 DEF Sole, Orphaned, Alive
<1>3. ASSUME NEW c \in Children, ChildProgress(c) \/ NativeExit(c),
             UNCHANGED <<batch, manifest, summary, mishaps>>
      PROVE  Sole'
  <2>1. Alive(c) /\ \A d \in Children : d # c => children'[d] = children[d]
    BY <1>3, ChildRecord
  <2> QED
    BY <1>3, <2>1 DEF Sole, Orphaned, Alive
<1> QED
  BY <1>1, <1>2, <1>3, Steps
------------------------------------------------------------------------------
(* The retries.                                                              *)

\* How a step that starts no child moves the runner.
RunnerMoves ==
    \/ batch' = batch
    \/ batch'.pc = "off" /\ batch'.run = batch.run
    \/ batch'.pc \in {"created", "next"} /\ batch'.run = batch.run + 1
    \/ /\ batch.pc \in {"created", "next"} /\ batch'.pc \in {"next", "summarized"}
       /\ batch'.index = batch.index /\ batch'.run = batch.run
    \/ /\ batch.pc # "off" /\ batch'.pc = "next"
       /\ batch'.index = batch.index + 1 /\ batch'.run = batch.run
    \/ /\ batch.pc = "wait" /\ batch'.pc = "spawn"
       /\ batch'.index = batch.index /\ batch'.run = batch.run
       /\ StatusOf(rows[batch.index]) \notin {"completed", "error"}

LEMMA AsideMoves ==
    ASSUME TypesInv, Aside
    PROVE  RunnerMoves
<1>1. /\ batch \in Runners /\ NumEpisodes \in Nat
      /\ batch.pc \in {"spawn", "wait"} => batch.index \in Episodes
  BY PolicyAssumption DEF TypesInv, BatchType, RunnerTyped, Runners
<1>2. CASE Create \/ Resume
  BY <1>1, <1>2, RunnerTypes DEF Create, Resume, RunnerMoves
<1>3. CASE WritePlan
  BY <1>1, <1>3, RunnerTypes DEF WritePlan, RunnerMoves
<1>4. CASE Summarize
  BY <1>1, <1>4, RunnerTypes DEF Summarize, Finished, RunnerMoves
<1>5. CASE Skip
  BY <1>1, <1>5, RunnerTypes DEF Skip, RunnerMoves
<1>6. CASE Accept
  <2>1. batch.pc = "wait" /\ MoveOn
    BY <1>6 DEF Accept, Judged, ChildEnded
  <2>2. batch.index <= NumEpisodes
    BY <1>1, <2>1 DEF Episodes
  <2> QED
    BY <1>1, <2>1, <2>2, RunnerTypes DEF RunnerMoves
<1>7. CASE Retry
  <2>1. batch.pc = "wait" /\ Unfinished(rows[batch.index])
        /\ batch' = [batch EXCEPT !.pc = "spawn", !.attempt = @ + 1, !.child = 0]
    BY <1>7 DEF Retry, ChildEnded
  <2>2. batch'.pc = "spawn" /\ batch'.index = batch.index /\ batch'.run = batch.run
    BY <1>1, <2>1 DEF Runners
  <2> QED
    BY <2>1, <2>2 DEF RunnerMoves, Unfinished
<1>8. CASE Reject \/ AuditFails \/ CloseManifest \/ Ending \/ Terminate
  <2>1. Stop
    BY <1>8 DEF Reject, AuditFails, CloseManifest, Ending, TimeOut, Interrupt, Terminate, Abort
  <2> QED
    BY <1>1, <2>1, RunnerTypes DEF RunnerMoves
<1>9. CASE Serve \/ EditSplit \/ Restart \/ UNCHANGED vars
  BY <1>9 DEF Serve, EditSplit, Restart, vars, RunnerMoves
<1> QED
  BY <1>2, <1>3, <1>4, <1>5, <1>6, <1>7, <1>8, <1>9 DEF Aside, Bookkeeping

\* The children are numbered in the order in which they are started.
Numbered == Born = 1 .. Cardinality(Born)

\* The children of this run are for the episodes up to the current one; those for the
\* current one before the last left it unfinished.
Recent ==
    /\ \A c \in Born : children[c].run <= batch.run
    /\ batch.pc # "off" => \A c \in Born : children[c].run = batch.run =>
           /\ children[c].episode <= batch.index
           /\ children[c].episode = batch.index =>
                  \/ batch.pc = "wait" /\ c = batch.child
                  \/ /\ batch.pc \in {"spawn", "wait"}
                     /\ children[c].wrote \notin {"completed", "error"}

\* The runner waits for the last child, and reads what it wrote.
AwaitsLast ==
    batch.pc = "wait" =>
        LET c == batch.child
        IN  /\ c \in Born /\ c = Cardinality(Born)
            /\ children[c].episode = batch.index /\ children[c].run = batch.run
            /\ children[c].wrote \in {"completed", "error"} =>
                   StatusOf(rows[batch.index]) = children[c].wrote

Retried == Numbered /\ RetriesOnlyUnfinished /\ (~Orphaned => Recent /\ AwaitsLast)

LEMMA BornTypes ==
    ASSUME TypesInv
    PROVE  /\ \A c \in Born : /\ c \in Nat /\ c \in Children /\ children[c] \in Child
                              /\ children[c].run \in Nat /\ children[c].episode \in Nat
           /\ batch.run \in Nat /\ batch.index \in Nat
  BY PolicyAssumption
     DEF TypesInv, BatchType, EpisodeType, Born, Children, Child, Episodes

LEMMA RetriedAside ==
    ASSUME TypesInv, TypesInv', Retried, Aside
    PROVE  Retried'
<1>1. /\ Born' = Born
      /\ \A c \in Born : /\ children'[c].episode = children[c].episode
                         /\ children'[c].run = children[c].run
                         /\ children'[c].wrote = children[c].wrote
  BY AsideRecord DEF Born, KeepsRecord
<1>2. rows' = rows /\ (~Orphaned' => ~Orphaned)
  BY AsideUnfolds DEF Orphaned
<1>3. Numbered' /\ RetriesOnlyUnfinished'
  BY <1>1, <1>2 DEF Retried, Numbered, RetriesOnlyUnfinished
<1>4. ASSUME ~Orphaned' PROVE Recent' /\ AwaitsLast'
  <2>1. Recent /\ AwaitsLast
    BY <1>2, <1>4 DEF Retried
  <2>2. /\ \A c \in Born : /\ children[c].run \in Nat /\ children[c].episode \in Nat
                           /\ children[c].run <= batch.run
        /\ batch.run \in Nat /\ batch.index \in Nat
    BY <2>1, BornTypes DEF Recent
  <2>3. CASE batch' = batch
    BY <1>1, <1>2, <2>1, <2>3 DEF Recent, AwaitsLast
  <2>4. CASE batch'.pc = "off" /\ batch'.run = batch.run
    BY <1>1, <2>2, <2>4 DEF Recent, AwaitsLast
  <2>5. CASE batch'.pc \in {"created", "next"} /\ batch'.run = batch.run + 1
    <3>1. \A c \in Born : children[c].run <= batch.run + 1 /\ children[c].run # batch.run + 1
      BY <2>2
    <3> QED
      BY <1>1, <2>5, <3>1 DEF Recent, AwaitsLast
  <2>6. CASE /\ batch.pc \in {"created", "next"} /\ batch'.pc \in {"next", "summarized"}
             /\ batch'.index = batch.index /\ batch'.run = batch.run
    BY <1>1, <2>1, <2>6 DEF Recent, AwaitsLast
  <2>7. CASE /\ batch.pc # "off" /\ batch'.pc = "next"
             /\ batch'.index = batch.index + 1 /\ batch'.run = batch.run
    <3>1. \A c \in Born : children[c].run = batch.run =>
              children[c].episode <= batch.index + 1 /\ children[c].episode # batch.index + 1
      BY <2>1, <2>2, <2>7 DEF Recent
    <3> QED
      BY <1>1, <2>2, <2>7, <3>1 DEF Recent, AwaitsLast
  <2>8. CASE /\ batch.pc = "wait" /\ batch'.pc = "spawn"
             /\ batch'.index = batch.index /\ batch'.run = batch.run
             /\ StatusOf(rows[batch.index]) \notin {"completed", "error"}
    <3>1. \A c \in Born : children[c].run = batch.run /\ children[c].episode = batch.index =>
              children[c].wrote \notin {"completed", "error"}
      BY <2>1, <2>8 DEF Recent, AwaitsLast
    <3> QED
      BY <1>1, <2>1, <2>8, <3>1 DEF Recent, AwaitsLast
  <2> QED
    BY <2>3, <2>4, <2>5, <2>6, <2>7, <2>8, AsideMoves DEF RunnerMoves
<1> QED
  BY <1>3, <1>4 DEF Retried

LEMMA RetriedSpawn ==
    ASSUME TypesInv, Retried, Spawn
    PROVE  Retried'
<1> DEFINE n == Cardinality(Born)
           c == Cardinality(Born) + 1
<1>1. /\ c \in Children /\ batch'.pc = "wait" /\ batch'.child = c
      /\ batch'.index = batch.index /\ batch'.run = batch.run
      /\ children'[c] # None /\ children'[c].episode = batch.index
      /\ children'[c].run = batch.run /\ children'[c].wrote = "nothing"
      /\ \A d \in Children : d # c => children'[d] = children[d]
      /\ rows' = rows /\ mishaps' = mishaps
      /\ batch.pc \in {"next", "spawn"}
  BY SpawnTypes DEF Spawn
<1>2. n \in Nat /\ Born = 1 .. n
  BY BornCount DEF Retried, Numbered
<1>3. Born' = 1 .. c
  <2>1. Born' = Born \cup {c}
    BY <1>1 DEF Born
  <2> QED
    BY <1>2, <2>1
<1>4. Cardinality(Born') = c
  BY <1>2, <1>3, FS_Interval
<1>5. \A d \in Born : /\ d \in Born' /\ d # c /\ d < c /\ children'[d] = children[d]
                      /\ d \in Children
  <2>1. \A d \in 1 .. n : d \in 1 .. c /\ d # c /\ d < c
    BY <1>2
  <2>2. Born \subseteq Children
    BY DEF Born
  <2> QED
    BY <1>1, <1>2, <1>3, <2>1, <2>2
<1>6. \A d \in Born' : d = c \/ d \in Born
  BY <1>2, <1>3
<1>7. /\ \A d \in Born : children[d].run \in Nat /\ children[d].episode \in Nat
      /\ batch.run \in Nat /\ batch.index \in Nat
  BY BornTypes
<1>8. Numbered'
  BY <1>3, <1>4 DEF Numbered
<1>9. ASSUME ~Orphaned'
      PROVE  Recent' /\ AwaitsLast' /\ RetriesOnlyUnfinished'
  <2>1. ~Orphaned /\ Recent
    BY <1>1, <1>9 DEF Retried, Orphaned
  <2>2. \A d \in Born : children[d].run = batch.run /\ children[d].episode = batch.index =>
            children[d].wrote \notin {"completed", "error"}
    BY <1>1, <2>1 DEF Recent
  <2>3. \A d \in Born : /\ children[d].run <= batch.run
                        /\ children[d].run = batch.run => children[d].episode <= batch.index
    BY <1>1, <2>1 DEF Recent
  <2> HIDE DEF c, n
  <2>4. Recent'
    BY <1>1, <1>5, <1>6, <1>7, <2>2, <2>3 DEF Recent
  <2>5. c \in Born'
    BY <1>2, <1>3 DEF c, n
  <2>6. AwaitsLast'
    BY <1>1, <1>4, <2>5 DEF AwaitsLast
  <2>7. ASSUME NEW d \in Born', NEW f \in Born', d < f,
               children'[d].run = children'[f].run, children'[d].episode = children'[f].episode
        PROVE  children'[d].wrote \notin {"completed", "error"}
    <3>1. CASE d = c
      BY <1>1, <3>1
    <3>2. CASE d \in Born /\ f = c
      BY <1>1, <1>5, <2>2, <2>7, <3>2
    <3>3. CASE d \in Born /\ f \in Born
      <4>1. children'[d] = children[d] /\ children'[f] = children[f]
        BY <1>5, <3>3
      <4> QED
        BY <2>1, <2>7, <3>3, <4>1 DEF Retried, RetriesOnlyUnfinished
    <3> QED
      BY <1>6, <3>1, <3>2, <3>3
  <2>8. RetriesOnlyUnfinished'
    BY <2>7 DEF RetriesOnlyUnfinished
  <2> QED
    BY <2>4, <2>6, <2>8
<1>10. Orphaned' => RetriesOnlyUnfinished'
  BY DEF RetriesOnlyUnfinished
<1> QED
  BY <1>8, <1>9, <1>10 DEF Retried

LEMMA RetriedChild ==
    ASSUME TypesInv, Sole, Retried, NEW c \in Children, ChildProgress(c) \/ NativeExit(c),
           UNCHANGED <<batch, mishaps>>
    PROVE  Retried'
<1>1. /\ Alive(c) /\ children'[c] # None
      /\ children'[c].episode = children[c].episode
      /\ children'[c].run = children[c].run
      /\ \A d \in Children : d # c => children'[d] = children[d]
      /\ \A e \in Episodes : e # children[c].episode => rows'[e] = rows[e]
      /\ \/ rows' = rows /\ children'[c].wrote = children[c].wrote
         \/ StatusOf(rows'[children[c].episode]) = children'[c].wrote
  BY ChildRecord
<1>2. Born' = Born /\ c \in Born
  BY <1>1 DEF Born, Alive
<1>3. Numbered'
  BY <1>2 DEF Retried, Numbered
<1>4. ASSUME ~Orphaned'
      PROVE  Recent' /\ AwaitsLast' /\ RetriesOnlyUnfinished'
  <2>1. ~Orphaned /\ Recent /\ AwaitsLast
    BY <1>4 DEF Retried, Orphaned
  <2>2. batch.pc = "wait" /\ c = batch.child
    BY <1>1, <2>1 DEF Sole
  <2>3. \A d \in Born : /\ d \in Children /\ children'[d].episode = children[d].episode
                        /\ children'[d].run = children[d].run
                        /\ d # c => children'[d].wrote = children[d].wrote
    BY <1>1 DEF Born
  <2>4. Recent'
    BY <1>2, <2>1, <2>2, <2>3 DEF Recent
  <2>5. AwaitsLast'
    BY <1>1, <1>2, <2>1, <2>2 DEF AwaitsLast
  <2>6. \A d \in Born : ~(c < d)
    <3>1. c = Cardinality(Born) /\ Cardinality(Born) \in Nat
      BY <2>1, <2>2, BornCount DEF AwaitsLast
    <3> QED
      BY <3>1 DEF Retried, Numbered
  <2>7. RetriesOnlyUnfinished'
    BY <1>2, <2>1, <2>3, <2>6 DEF Retried, RetriesOnlyUnfinished
  <2> QED
    BY <2>4, <2>5, <2>7
<1>5. Orphaned' => RetriesOnlyUnfinished'
  BY DEF RetriesOnlyUnfinished
<1> QED
  BY <1>3, <1>4, <1>5 DEF Retried

LEMMA RetriedStep ==
    ASSUME TypesInv, TypesInv', Sole, Retried, [Next]_vars
    PROVE  Retried'
  BY Steps, RetriedAside, RetriedSpawn, RetriedChild
------------------------------------------------------------------------------
(* The manifest and the summary.                                             *)

\* What a step writes to the manifest: nothing, or a status that does not change the
\* plan and perhaps a count.
LEMMA Notes ==
    ASSUME TypesInv, [Next]_vars
    PROVE  \/ manifest' = manifest
           \/ Create
           \/ /\ manifest # None /\ manifest' # None /\ manifest'.plan = manifest.plan
              /\ \/ /\ ~CloseManifest /\ manifest'.status \in {"running", "error"}
                    /\ manifest'.completed = manifest.completed \/ Accept
                 \/ CloseManifest
<1>1. /\ batch.pc # "off" => manifest \in Manifests
      /\ NumEpisodes \in Nat /\ 0 \in 0 .. NumEpisodes /\ NumEpisodes \in 0 .. NumEpisodes
      /\ batch.pc = "wait" => batch.index \in 0 .. NumEpisodes
      /\ None \notin Manifests
  BY PolicyAssumption, BatchAssumption DEF TypesInv, RunnerTyped, Episodes
<1>2. CASE WritePlan
  <2>1. manifest \in Manifests /\ manifest' = [manifest EXCEPT !.status = "running"]
        /\ ~CloseManifest
    BY <1>1, <1>2 DEF WritePlan, CloseManifest
  <2>2. /\ manifest' \in Manifests /\ manifest'.plan = manifest.plan
        /\ manifest'.status = "running" /\ manifest'.completed = manifest.completed
    BY <1>1, <2>1, NoteTypes
  <2> QED
    BY <1>1, <2>1, <2>2
<1>3. CASE Accept
  <2>1. manifest \in Manifests /\ batch.index \in 0 .. NumEpisodes /\ ~CloseManifest
        /\ manifest' = [manifest EXCEPT !.status = "running", !.completed = batch.index]
    BY <1>1, <1>3 DEF Accept, Judged, ChildEnded, CloseManifest
  <2>2. manifest' \in Manifests /\ manifest'.plan = manifest.plan /\ manifest'.status = "running"
    BY <2>1 DEF Manifests
  <2> QED
    BY <1>1, <1>3, <2>1, <2>2
<1>4. CASE Reject \/ TimeOut
  <2>1. manifest \in Manifests /\ manifest' = [manifest EXCEPT !.status = "error"]
        /\ ~CloseManifest
    BY <1>1, <1>4 DEF Reject, TimeOut, Abort, Judged, ChildEnded, CloseManifest
  <2>2. /\ manifest' \in Manifests /\ manifest'.plan = manifest.plan
        /\ manifest'.status = "error" /\ manifest'.completed = manifest.completed
    BY <1>1, <2>1, NoteTypes
  <2> QED
    BY <1>1, <2>1, <2>2
<1>5. CASE CloseManifest
  <2>1. manifest \in Manifests
        /\ manifest' = [manifest EXCEPT !.status = "completed", !.completed = NumEpisodes]
    BY <1>1, <1>5 DEF CloseManifest
  <2>2. manifest' \in Manifests /\ manifest'.plan = manifest.plan
    BY <1>1, <2>1, NoteTypes
  <2> QED
    BY <1>1, <1>5, <2>1, <2>2
<1>6. CASE ~(Create \/ WritePlan \/ Accept \/ Reject \/ TimeOut \/ CloseManifest)
  BY <1>6 DEF Next, BatchStep, Resume, Skip, Retry, Spawn, Summarize, AuditFails, Interrupt,
     Terminate, EditSplit, Restart, Serve, Work, Die, vars, batchVars
<1> QED
  BY <1>2, <1>3, <1>4, <1>5, <1>6

\* As long as nothing but the batch acts, the runner has a result for every episode
\* it has passed, and counts no others.
Counted ==
    /\ batch.pc # "off" => \A e \in Episodes : e < batch.index => Completed(e)
    /\ batch.pc = "summarized" => summary = 0 /\ \A e \in Episodes : Completed(e)
    /\ summary \in {None, 0}
    /\ manifest # None => /\ \A e \in 1 .. manifest.completed : Completed(e)
                          /\ manifest.status = "completed" => summary = 0

Noted == /\ batch.pc = "off" => batch.index = 1
         /\ mishaps = {} => Counted

LEMMA NoneLost ==
    ASSUME ProofInv, [Next]_vars, mishaps = {}
    PROVE  \A e \in Episodes : Completed(e) => Completed(e)'
<1>1. CampaignStep
  BY StepKeeps
<1>2. Done \subseteq Done'
  BY <1>1 DEF CampaignStep, Campaign!CampaignNext, Campaign!Finish, Campaign!Report,
     Campaign!Disrupt, Campaign!Lose, Campaign!campaignVars, Done
<1> QED
  BY <1>2 DEF Done, Completed

\* How far the runner is after a step.
LEMMA Passes ==
    ASSUME TypesInv, [Next]_vars
    PROVE  \/ batch'.pc = "off" /\ batch'.index = 1
           \/ batch.pc = "off" /\ batch'.pc # "summarized" /\ batch'.index = batch.index
           \/ /\ batch.pc # "off" /\ batch'.pc # "off" /\ batch'.index = batch.index
              /\ batch'.pc = "summarized" => batch.pc = "summarized" \/ Summarize
           \/ /\ batch.pc # "off" /\ batch'.pc = "next" /\ batch'.index = batch.index + 1
              /\ Completed(batch.index) /\ batch.index \in Episodes
           \/ UNCHANGED batch
<1>1. /\ batch \in Runners /\ NumEpisodes \in Nat /\ batch.index \in 1 .. NumEpisodes + 1
      /\ batch.pc \in {"spawn", "wait"} => batch.index \in Episodes
  BY PolicyAssumption DEF TypesInv, BatchType, RunnerTyped, Runners
<1>2. CASE Create \/ Resume
  BY <1>1, <1>2, RunnerTypes DEF Create, Resume
<1>3. CASE WritePlan
  BY <1>1, <1>3, RunnerTypes DEF WritePlan
<1>4. CASE Summarize
  BY <1>1, <1>4, RunnerTypes DEF Summarize, Finished
<1>5. CASE Skip
  <2>1. batch.pc = "next" /\ batch.index <= NumEpisodes /\ Completed(batch.index) /\ MoveOn
    BY <1>5 DEF Skip, Kept, Completed, StatusOf
  <2>2. batch.index \in Episodes
    BY <1>1, <2>1 DEF Episodes
  <2> QED
    BY <1>1, <2>1, <2>2, RunnerTypes
<1>6. CASE Accept
  <2>1. batch.pc = "wait" /\ MoveOn /\ Completed(batch.index)
    BY <1>6 DEF Accept, Judged, ChildEnded, Completed
  <2>2. batch.index <= NumEpisodes
    BY <1>1, <2>1 DEF Episodes
  <2> QED
    BY <1>1, <2>1, <2>2, RunnerTypes
<1>7. CASE Retry
  <2>1. batch.pc = "wait" /\ batch' = [batch EXCEPT !.pc = "spawn", !.attempt = @ + 1, !.child = 0]
    BY <1>7 DEF Retry, ChildEnded
  <2> QED
    BY <1>1, <2>1 DEF Runners
<1>8. CASE Spawn
  BY <1>8, SpawnTypes DEF Spawn
<1>9. CASE Reject \/ AuditFails \/ CloseManifest \/ Ending \/ Terminate
  <2>1. batch' = [batch EXCEPT !.pc = "off", !.index = 1, !.attempt = 0, !.child = 0]
    BY <1>9 DEF Reject, AuditFails, CloseManifest, Ending, TimeOut, Interrupt, Terminate, Abort,
       Stop
  <2> QED
    BY <1>1, <2>1 DEF Runners
<1>10. CASE Serve \/ EditSplit \/ Restart \/ UNCHANGED vars \/ \E c \in Children : Work(c) \/ Die(c)
  BY <1>10 DEF Serve, EditSplit, Restart, vars, Work, Die
<1> QED
  BY <1>2, <1>3, <1>4, <1>5, <1>6, <1>7, <1>8, <1>9, <1>10 DEF Next, BatchStep, Ending

LEMMA MishapsGrow ==
    ASSUME [Next]_vars
    PROVE  mishaps \subseteq mishaps'
<1>1. CASE Aside
  BY <1>1, AsideUnfolds
<1>2. CASE ~Aside
  BY <1>2, Steps DEF Spawn, batchVars
<1> QED
  BY <1>1, <1>2

LEMMA NotedStep ==
    ASSUME ProofInv, TypesInv, TypesInv', Noted, [Next]_vars
    PROVE  Noted'
<1>1. /\ batch.index \in Nat /\ NumEpisodes \in Nat /\ Episodes = 1 .. NumEpisodes
      /\ manifest \in {None} \cup Manifests /\ manifest' \in {None} \cup Manifests
  BY PolicyAssumption DEF TypesInv, BatchType, Episodes
<1>2. batch'.pc = "off" => batch'.index = 1
  BY Passes DEF Noted
<1>3. ASSUME mishaps' = {} PROVE Counted'
  <2>1. mishaps = {} /\ Counted /\ OneEdition
    BY <1>3, MishapsGrow DEF Noted, ProofInv, Undisturbed
  <2>2. \A e \in Episodes : Completed(e) => Completed(e)'
    BY <2>1, NoneLost
  <2>3. batch'.pc # "off" => \A e \in Episodes : e < batch'.index => Completed(e)'
    <3>1. batch.pc = "off" => \A e \in Episodes : ~(e < batch.index)
      BY <1>1 DEF Noted
    <3>2. Completed(batch.index) /\ batch.pc # "off" =>
              \A e \in Episodes : e < batch.index + 1 => Completed(e)
      BY <1>1, <2>1 DEF Counted
    <3> QED
      BY <2>1, <2>2, <3>1, <3>2, Passes DEF Counted
  <2>4. summary' = summary \/ (Summarize /\ summary' = 0)
    <3>1. CASE Summarize
      BY <2>1, <3>1 DEF Summarize, OneEdition
    <3>2. CASE ~Summarize
      BY <3>2 DEF Next, BatchStep, Create, WritePlan, Resume, Skip, Spawn, TimeOut, Retry, Accept,
         Reject, Abort, AuditFails, CloseManifest, Interrupt, Terminate, EditSplit, Restart, Serve,
         Work, Die, vars, batchVars
    <3> QED
      BY <3>1, <3>2
  <2>5. batch'.pc = "summarized" => summary' = 0 /\ \A e \in Episodes : Completed(e)'
    <3>1. CASE Summarize
      <4>1. \A e \in Episodes : Completed(e)
        BY <3>1 DEF Summarize, Summarizable, Completed
      <4> QED
        BY <2>1, <2>2, <3>1, <4>1 DEF Summarize, OneEdition
    <3>2. CASE ~Summarize
      <4>1. batch'.pc = "summarized" => batch.pc = "summarized"
        BY <3>2, Passes
      <4> QED
        BY <2>1, <2>2, <2>4, <3>2, <4>1 DEF Counted
    <3> QED
      BY <3>1, <3>2
  <2>6. manifest' # None => \A e \in 1 .. manifest'.completed : Completed(e)'
    <3>1. CASE manifest' = manifest
      <4>1. manifest # None => 1 .. manifest.completed \subseteq Episodes
        BY <1>1 DEF Manifests
      <4> QED
        BY <2>1, <2>2, <3>1, <4>1 DEF Counted
    <3>2. CASE Create
      BY <3>2 DEF Create
    <3>3. CASE CloseManifest
      <4>1. batch.pc = "summarized" /\ manifest'.completed = NumEpisodes
        <5>1. manifest \in Manifests /\ batch.pc = "summarized"
              /\ manifest' = [manifest EXCEPT !.status = "completed", !.completed = NumEpisodes]
          BY <3>3 DEF CloseManifest, TypesInv, RunnerTyped
        <5> QED
          BY <5>1 DEF Manifests
      <4> QED
        BY <1>1, <2>1, <2>2, <4>1 DEF Counted
    <3>4. CASE Accept
      <4>1. batch.pc = "wait" /\ manifest'.completed = batch.index /\ Completed(batch.index)
        <5>1. manifest \in Manifests /\ batch.pc = "wait" /\ Completed(batch.index)
              /\ manifest' = [manifest EXCEPT !.status = "running", !.completed = batch.index]
          BY <3>4 DEF Accept, Judged, ChildEnded, TypesInv, RunnerTyped, Completed
        <5> QED
          BY <5>1 DEF Manifests
      <4>2. \A e \in 1 .. batch.index : e \in Episodes /\ (e < batch.index \/ e = batch.index)
        BY <1>1, <4>1 DEF TypesInv, RunnerTyped
      <4> QED
        BY <2>1, <2>2, <4>1, <4>2 DEF Counted
    <3>5. CASE manifest # None /\ manifest'.completed = manifest.completed
      <4>1. 1 .. manifest.completed \subseteq Episodes
        BY <1>1, <3>5 DEF Manifests
      <4> QED
        BY <2>1, <2>2, <3>5, <4>1 DEF Counted
    <3> QED
      BY <3>1, <3>2, <3>3, <3>4, <3>5, Notes
  <2>7. manifest' # None /\ manifest'.status = "completed" => summary' = 0
    <3>1. CASE Create
      BY <3>1 DEF Create
    <3>2. CASE CloseManifest
      BY <2>1, <3>2 DEF CloseManifest, Counted
    <3>3. CASE manifest' = manifest
      BY <2>1, <2>4, <3>3 DEF Counted
    <3> QED
      BY <3>1, <3>2, <3>3, Notes
  <2> QED
    BY <2>1, <2>3, <2>4, <2>5, <2>6, <2>7 DEF Counted
<1> QED
  BY <1>2, <1>3 DEF Noted

\* Unless a child was left running, a summary is of complete results of one edition,
\* which nobody touches any more: either it is the plan's, and a resumed run keeps
\* all of them, or the plan is not today's and no run is resumed.
Published ==
    /\ manifest # None /\ manifest.plan = 1 => split = 1
    /\ summary # None /\ ~Orphaned =>
           /\ manifest # None
           /\ \A e \in Episodes : Completed(e) /\ rows[e].split = summary
           /\ batch.pc \notin {"created", "spawn", "wait"}
           /\ \/ summary = manifest.plan
              \/ batch.pc \in {"off", "summarized"} /\ manifest.plan # split

\* Once a summary is published, a run goes on to skip or ends.
LEMMA RunnerStays ==
    ASSUME TypesInv, Aside, ~Create, ~Resume, ~Summarize,
           batch.pc \notin {"created", "spawn", "wait"}
    PROVE  \/ batch' = batch \/ batch'.pc = "off"
           \/ batch.pc = "next" /\ batch'.pc = "next"
<1>1. batch \in Runners
  BY DEF TypesInv, BatchType, Runners
<1>2. CASE Skip
  BY <1>1, <1>2, RunnerTypes DEF Skip
<1>3. CASE AuditFails \/ CloseManifest \/ Ending \/ Terminate
  <2>1. Stop
    BY <1>3 DEF AuditFails, CloseManifest, Ending, TimeOut, Interrupt, Abort, Terminate
  <2> QED
    BY <1>1, <2>1, RunnerTypes
<1>4. CASE Serve \/ EditSplit \/ Restart \/ UNCHANGED vars
  BY <1>4 DEF Serve, EditSplit, Restart, vars
<1> QED
  BY <1>2, <1>3, <1>4
     DEF Aside, Bookkeeping, WritePlan, Retry, Accept, Reject, Judged, ChildEnded

LEMMA PublishedStep ==
    ASSUME TypesInv, TypesInv', Sole, Published, [Next]_vars
    PROVE  Published'
<1>1. /\ batch \in Runners /\ batch' \in Runners /\ split \in {0, 1}
      /\ manifest \in {None} \cup Manifests /\ manifest' \in {None} \cup Manifests
      /\ batch.pc # "off" => manifest \in Manifests
      /\ None \notin Manifests /\ NumEpisodes \in Nat
  BY PolicyAssumption, BatchAssumption
     DEF TypesInv, BatchType, EpisodeType, RunnerTyped, Runners, Splits
<1>2. split' = split \/ (EditSplit /\ split' = 1)
  <2>1. CASE EditSplit
    BY <2>1 DEF EditSplit
  <2>2. CASE Aside /\ ~EditSplit
    BY <2>2 DEF Aside, Bookkeeping, Create, WritePlan, Resume, Skip, Retry, Accept, Reject, Abort,
       Summarize, AuditFails, CloseManifest, episodeVars, batchVars, Ending, TimeOut, Interrupt,
       Serve, Restart, Terminate, vars
  <2>3. CASE Spawn
    BY <2>3 DEF Spawn
  <2>4. ASSUME NEW c \in Children, ChildProgress(c) \/ NativeExit(c) PROVE split' = split
    BY <2>4 DEF ChildProgress, NativeExit, MarkStarted, AskReset, FirstFrame, NextFrame, Ask,
       Complete, BootFails, RenderFails, AskFails, Raise, Exit
  <2> QED
    BY <2>1, <2>2, <2>3, <2>4, Steps
<1>3. manifest' # None /\ manifest'.plan = 1 => split' = 1
  <2>1. CASE Create
    BY <1>2, <2>1 DEF Create, EditSplit, Mishap, episodeVars
  <2>2. CASE ~Create
    BY <1>2, <2>2, Notes DEF Published
  <2> QED
    BY <2>1, <2>2
<1>4. ASSUME summary' # None, ~Orphaned'
      PROVE  /\ manifest' # None
             /\ \A e \in Episodes : Completed(e)' /\ rows'[e].split = summary'
             /\ batch'.pc \notin {"created", "spawn", "wait"}
             /\ \/ summary' = manifest'.plan
                \/ batch'.pc \in {"off", "summarized"} /\ manifest'.plan # split'
  <2>1. ~Orphaned
    BY <1>4, MishapsGrow DEF Orphaned
  <2>2. CASE Summarize
    <3>1. /\ rows' = rows /\ manifest' = manifest /\ manifest # None /\ summary' = split
          /\ split' = split /\ batch'.pc = "summarized"
      BY <1>1, <2>2, RunnerTypes DEF Summarize, Finished, episodeVars
    <3>2. \A e \in Episodes : Completed(e) /\ rows[e].split = split
      BY <2>2 DEF Summarize, Summarizable, Completed
    <3> QED
      BY <3>1, <3>2 DEF Completed
  <2>3. CASE ~Summarize
    <3>1. summary' = summary
      BY <2>3 DEF Next, BatchStep, Create, WritePlan, Resume, Skip, Spawn, TimeOut, Retry, Accept,
         Reject, Abort, AuditFails, CloseManifest, Interrupt, Terminate, EditSplit, Restart, Serve,
         Work, Die, vars, batchVars
    <3>2. /\ manifest # None
          /\ \A e \in Episodes : Completed(e) /\ rows[e].split = summary
          /\ batch.pc \notin {"created", "spawn", "wait"}
          /\ \/ summary = manifest.plan
             \/ batch.pc \in {"off", "summarized"} /\ manifest.plan # split
      BY <1>4, <2>1, <3>1 DEF Published
    <3>3. ~Create /\ ~Spawn
      <4>1. ~Create
        BY <3>2 DEF Create
      <4>2. ASSUME Spawn PROVE FALSE
        <5>1. batch.pc = "next" /\ batch.index \in Episodes /\ ~Kept(batch.index)
          BY <3>2, <4>2, SpawnTypes DEF Spawn
        <5>2. Completed(batch.index) /\ rows[batch.index].split = manifest.plan
          BY <3>2, <5>1
        <5> QED
          BY <5>1, <5>2 DEF Kept, Completed, StatusOf
      <4> QED
        BY <4>1, <4>2
    <3>4. \A c \in Children : ~ChildProgress(c) /\ ~NativeExit(c)
      BY <2>1, <3>2, ChildRecord DEF Sole
    <3>5. Aside
      BY <3>3, <3>4, Steps
    <3>6. rows' = rows /\ manifest' # None /\ manifest'.plan = manifest.plan
      BY <3>2, <3>3, <3>5, AsideUnfolds, Notes
    <3>7. CASE Resume
      <4>1. batch'.pc = "next" /\ manifest.plan = split
        BY <1>1, <3>7, RunnerTypes DEF Resume
      <4> QED
        BY <3>1, <3>2, <3>6, <3>7, <4>1 DEF Completed, Resume
    <3>8. CASE EditSplit
      <4>1. batch' = batch /\ split' = 1
        BY <3>8 DEF EditSplit
      <4>2. manifest.plan \in {0, 1}
        BY <1>1, <3>2 DEF Manifests, Splits
      <4> QED
        BY <3>1, <3>2, <3>6, <4>1, <4>2 DEF Completed, Published
    <3>9. CASE ~Resume /\ ~EditSplit
      <4>1. \/ batch' = batch \/ batch'.pc = "off"
            \/ batch.pc = "next" /\ batch'.pc = "next"
        BY <2>3, <3>2, <3>3, <3>5, <3>9, RunnerStays
      <4> QED
        BY <1>2, <3>1, <3>2, <3>6, <3>9, <4>1 DEF Completed
    <3> QED
      BY <3>7, <3>8, <3>9
  <2> QED
    BY <2>2, <2>3
<1> QED
  BY <1>3, <1>4 DEF Published
------------------------------------------------------------------------------
(* The checkpoint the actions come from.                                     *)

\* The server runs the planned checkpoint, or nobody can act on it before a reset
\* that nobody has asked for.
Trusted == \/ session.policy = PlannedPolicy
           \/ session.episode = None /\ \A r \in requests : r.kind # "reset"

\* A child that has had the planned identity attested acts on a trusted server: the
\* only process that could ask for another reset is itself.
Attesting ==
    /\ \A c \in Children : At(c, "acting") \/ (At(c, "resetting") /\ Attested(c)) => Trusted
    /\ \A c \in Children : At(c, "acting") /\ Answered(c) => inbox[c].policy = PlannedPolicy
    /\ \A e \in Episodes : Completed(e) => rows[e].policy = PlannedPolicy

FromPlanned == ~Orphaned => Attesting

\* Whoever does not receive an answer has the one it had.
LEMMA DeliverTo ==
    ASSUME TypesInv, NEW c \in Children, NEW answer, Deliver(c, answer)
    PROVE  \A d \in Children : inbox'[d] = inbox[d] \/ inbox'[d] = answer
  BY DEF Deliver, TypesInv, BatchType, EpisodeType, PolicyType

\* When the server stays as trusted as it was, or was trusted for a better reason, only
\* the answers matter.
LEMMA AttestingServer ==
    ASSUME Attesting, UNCHANGED <<children, rows>>,
           \A d \in Children :
               \/ inbox'[d] = inbox[d] /\ (Trusted => Trusted')
               \/ /\ inbox'[d].kind \notin {"ack", "action"} /\ (Trusted => Trusted')
               \/ /\ inbox'[d].kind = "ack" /\ (Trusted => Trusted')
                  /\ inbox'[d].policy = PlannedPolicy => Trusted'
               \/ /\ inbox'[d].kind = "action" /\ (Trusted => Trusted')
                  /\ Trusted => inbox'[d].policy = PlannedPolicy
    PROVE  Attesting'
<1>1. \A d \in Children : Attested(d)' => inbox'[d].kind = "ack" /\ inbox'[d].policy = PlannedPolicy
  BY DEF Attested
<1>2. \A d \in Children : Answered(d)' => inbox'[d].kind = "action"
  BY DEF Answered
<1>3. \A d \in Children : inbox'[d] = inbox[d] =>
          (Attested(d)' <=> Attested(d)) /\ (Answered(d)' <=> Answered(d))
  BY DEF Attested, Answered
<1>4. \A d \in Children : \A pc : At(d, pc)' <=> At(d, pc)
  BY DEF At
<1>5. ASSUME NEW d \in Children, At(d, "acting") \/ (At(d, "resetting") /\ Attested(d)')
      PROVE  Trusted'
  BY <1>1, <1>3, <1>5 DEF Attesting
<1>6. ASSUME NEW d \in Children, At(d, "acting"), Answered(d)'
      PROVE  inbox'[d].policy = PlannedPolicy
  BY <1>2, <1>3, <1>6 DEF Attesting
<1>7. \A e \in Episodes : Completed(e)' => rows'[e].policy = PlannedPolicy
  BY DEF Attesting, Completed
<1> QED
  BY <1>4, <1>5, <1>6, <1>7 DEF Attesting

LEMMA ServeAttests ==
    ASSUME TypesInv, Attesting, Serve
    PROVE  Attesting'
<1>1. PICK r \in requests : \/ ExecuteReset(r)
                            \/ \E action \in Actions : ExecuteAct(r, action)
                            \/ Refuse(r)
  BY DEF Serve, ServerStep
<1>2. /\ r.by \in Children /\ r.episode # None
      /\ session \in [episode : Episodes \cup {None}, frame : 0 .. MaxSteps,
                      stopped : BOOLEAN, authors : SUBSET Children, policy : Policies]
  BY PolicyAssumption DEF TypesInv, BatchType, EpisodeType, PolicyType, Requests, Episodes
<1>3. UNCHANGED <<children, rows>>
  BY DEF Serve
<1>4. CASE ExecuteReset(r)
  <2> DEFINE answer == [kind |-> "ack", policy |-> session.policy]
  <2>1. Deliver(r.by, answer) /\ session' = Reset(session, r) /\ r.kind = "reset"
    BY <1>4 DEF ExecuteReset
  <2>2. session'.policy = session.policy
    BY <2>1 DEF Reset, FreshSession
  <2>3. Trusted => Trusted'
    BY <2>1, <2>2 DEF Trusted
  <2>4. answer.kind = "ack" /\ (answer.policy = PlannedPolicy => Trusted')
    BY <2>2 DEF Trusted
  <2> HIDE DEF answer
  <2> QED
    BY <1>2, <1>3, <2>1, <2>3, <2>4, DeliverTo, AttestingServer
<1>5. ASSUME NEW action \in Actions, ExecuteAct(r, action)
      PROVE  Attesting'
  <2> DEFINE answer == [kind |-> "action", action |-> action, policy |-> session.policy,
                        authors |-> session'.authors]
  <2>1. Deliver(r.by, answer) /\ session' = Act(session, r, action) /\ session.episode = r.episode
    BY <1>5 DEF ExecuteAct, Acceptable
  <2>2. session'.policy = session.policy
    BY <1>2, <2>1 DEF Act
  <2>3. Trusted => session.policy = PlannedPolicy /\ Trusted'
    BY <1>2, <2>1, <2>2 DEF Trusted
  <2>4. answer.kind = "action" /\ answer.policy = session.policy
    OBVIOUS
  <2> HIDE DEF answer
  <2> QED
    BY <1>2, <1>3, <2>1, <2>3, <2>4, DeliverTo, AttestingServer
<1>6. CASE Refuse(r)
  <2> DEFINE answer == [kind |-> "refused"]
  <2>1. Deliver(r.by, answer) /\ session' = session /\ requests' \subseteq requests
    BY <1>6 DEF Refuse
  <2>2. Trusted => Trusted'
    BY <2>1 DEF Trusted
  <2>3. answer.kind \notin {"ack", "action"}
    OBVIOUS
  <2> HIDE DEF answer
  <2> QED
    BY <1>2, <1>3, <2>1, <2>2, <2>3, DeliverTo, AttestingServer
<1> QED
  BY <1>1, <1>4, <1>5, <1>6

\* A server that has been started again refuses whoever was waiting.
LEMMA RestartAttests ==
    ASSUME TypesInv, Attesting, Restart
    PROVE  Attesting'
<1>1. PICK p \in Policies : RestartServer(p)
  BY DEF Restart
<1>2. Trusted'
  BY <1>1 DEF RestartServer, FreshSession, Trusted
<1> DEFINE answer == [kind |-> "refused"]
<1>3. \A d \in Children : inbox'[d] = inbox[d] \/ inbox'[d] = answer
  BY <1>1 DEF RestartServer
<1>4. answer.kind \notin {"ack", "action"}
  OBVIOUS
<1>5. UNCHANGED <<children, rows>>
  BY DEF Restart
<1> HIDE DEF answer
<1> QED
  BY <1>2, <1>3, <1>4, <1>5, AttestingServer

\* A step that leaves the server and the results alone, and the answers of those who
\* go on.
LEMMA OthersAttest ==
    ASSUME Attesting, UNCHANGED <<session, requests, rows>>,
           \A d \in Children : At(d, "acting")' \/ At(d, "resetting")' =>
               children'[d] = children[d] /\ inbox'[d] = inbox[d]
    PROVE  Attesting'
<1>1. Trusted' <=> Trusted
  BY DEF Trusted
<1>2. \A d \in Children : At(d, "acting")' =>
          At(d, "acting") /\ (Answered(d)' => Answered(d)) /\ inbox'[d] = inbox[d]
  BY DEF At, Answered
<1>3. \A d \in Children : At(d, "resetting")' /\ Attested(d)' => At(d, "resetting") /\ Attested(d)
  BY DEF At, Attested
<1>4. \A e \in Episodes : Completed(e)' => rows'[e].policy = PlannedPolicy
  BY DEF Attesting, Completed
<1> QED
  BY <1>1, <1>2, <1>3, <1>4 DEF Attesting

LEMMA EndingAttests ==
    ASSUME TypesInv, Attesting, Ending
    PROVE  Attesting'
<1>1. \A d \in Children : At(d, "acting")' \/ At(d, "resetting")' =>
          /\ children'[d] = children[d]
          /\ batch.pc # "wait" \/ d # batch.child
  BY AsideRecord DEF Aside, At, Alive
<1>2. /\ UNCHANGED <<session, requests, rows>>
      /\ IF batch.pc = "wait" /\ Alive(batch.child) THEN Leave(batch.child, TRUE)
         ELSE UNCHANGED <<children, inbox, disturbed>>
  BY EndingTypes
<1>3. \A d \in Children : batch.pc # "wait" \/ d # batch.child => inbox'[d] = inbox[d]
  BY <1>2 DEF Leave, TypesInv, BatchType, EpisodeType, PolicyType
<1> QED
  BY <1>1, <1>2, <1>3, OthersAttest

LEMMA ChildAttests ==
    ASSUME TypesInv, Sole, Attesting, ~Orphaned,
           NEW c \in Children, ChildProgress(c) \/ NativeExit(c)
    PROVE  Attesting'
<1>1. /\ Alive(c) /\ children'[c] # None
      /\ \A d \in Children : d # c => children'[d] = children[d]
      /\ \A e \in Episodes : e # children[c].episode => rows'[e] = rows[e]
  BY ChildRecord
<1>2. \A d \in Children : d # c => ~At(d, "acting")' /\ ~At(d, "resetting")'
  BY <1>1 DEF Sole, At, Alive
<1>3. /\ inbox \in [Children -> {None, Waiting} \cup Answers]
      /\ rows \in [Episodes -> {None} \cup Row]
      /\ children \in [Children -> {None} \cup Child] /\ children[c] \in Child
      /\ children[c].episode \in Episodes
  BY <1>1 DEF TypesInv, BatchType, EpisodeType, PolicyType, Alive, Child
<1>4. ASSUME rows' = rows \/ StatusOf(rows'[children[c].episode]) # "completed"
             \/ rows'[children[c].episode].policy = PlannedPolicy
      PROVE  \A e \in Episodes : Completed(e)' => rows'[e].policy = PlannedPolicy
  <2>1. CASE rows' = rows
    BY <2>1 DEF Attesting, Completed
  <2>2. CASE \/ StatusOf(rows'[children[c].episode]) # "completed"
             \/ rows'[children[c].episode].policy = PlannedPolicy
    <3>1. ASSUME NEW e \in Episodes, Completed(e)' PROVE rows'[e].policy = PlannedPolicy
      <4>1. CASE e = children[c].episode
        BY <2>2, <3>1, <4>1 DEF Completed
      <4>2. CASE e # children[c].episode
        BY <1>1, <3>1, <4>2 DEF Attesting, Completed
      <4> QED
        BY <4>1, <4>2
    <3> QED
      BY <3>1
  <2> QED
    BY <1>4, <2>1, <2>2
<1>5. CASE MarkStarted(c)
  <2>1. children'[c].pc = "kit"
    BY <1>3, <1>5 DEF MarkStarted, Child
  <2>2. rows'[children[c].episode] = [status |-> "started"]
    BY <1>3, <1>5 DEF MarkStarted, WriteRow
  <2>3. StatusOf(rows'[children[c].episode]) # "completed"
    <3>1. StatusOf([status |-> "started"]) # "completed"
      BY DEF StatusOf
    <3> QED
      BY <2>2, <3>1
  <2> QED
    BY <1>2, <1>4, <2>1, <2>3 DEF Attesting, At
<1>6. ASSUME NEW kind \in {"reset", "act"}, NEW frame, NEW pc, Ask(c, kind, frame, pc)
      PROVE  /\ children'[c].pc = pc /\ inbox'[c] = Waiting /\ rows' = rows
             /\ ~Attested(c)' /\ ~Answered(c)'
             /\ kind = "act" /\ Trusted => Trusted'
  <2>1. rows' = rows /\ inbox'[c] = Waiting /\ session' = session
    BY <1>3, <1>6 DEF Ask
  <2>2. children'[c].pc = pc
    BY <1>3, <1>6 DEF Ask, Child
  <2>3. Waiting.kind = "waiting"
    BY DEF Waiting
  <2>4. ~Attested(c)' /\ ~Answered(c)'
    BY <2>1, <2>3 DEF Attested, Answered
  <2>5. ASSUME kind = "act", Trusted PROVE Trusted'
    <3>1. \A r \in requests' : r \in requests \/ r.kind = "act"
      BY <1>6, <2>5 DEF Ask
    <3> QED
      BY <2>1, <2>5, <3>1 DEF Trusted
  <2> QED
    BY <2>1, <2>2, <2>4, <2>5
<1>7. CASE AskReset(c)
  <2>1. Ask(c, "reset", 0, "resetting")
    BY <1>7 DEF AskReset
  <2>2. children'[c].pc = "resetting" /\ ~Attested(c)' /\ rows' = rows
    BY <1>6, <2>1
  <2> QED
    BY <1>2, <1>4, <2>2 DEF Attesting, At
<1>8. CASE FirstFrame(c) \/ NextFrame(c)
  <2>1. PICK frame : Ask(c, "act", frame, "acting")
    BY <1>8 DEF FirstFrame, NextFrame
  <2>2. Trusted
    BY <1>8 DEF FirstFrame, NextFrame, Attesting
  <2>3. children'[c].pc = "acting" /\ ~Answered(c)' /\ rows' = rows /\ Trusted'
    BY <1>6, <2>1, <2>2
  <2> QED
    BY <1>2, <1>4, <2>3 DEF Attesting
<1>9. CASE Complete(c)
  <2>1. children'[c].pc = "closing"
    BY <1>3, <1>9 DEF Complete, Child
  <2>2. inbox[c].policy = PlannedPolicy
    BY <1>9 DEF Complete, Attesting
  <2>3. rows'[children[c].episode].policy = PlannedPolicy
    BY <1>3, <1>9, <2>2 DEF Complete, WriteRow
  <2> QED
    BY <1>2, <1>4, <2>1, <2>3 DEF Attesting, At
<1>10. CASE BootFails(c) \/ RenderFails(c) \/ AskFails(c)
  <2>1. Raise(c)
    BY <1>10 DEF BootFails, RenderFails, AskFails
  <2>2. children'[c].pc = "closing"
    BY <1>3, <2>1 DEF Raise, Child
  <2>3. rows'[children[c].episode] = [status |-> "error"]
    BY <1>3, <2>1 DEF Raise, WriteRow
  <2>4. StatusOf(rows'[children[c].episode]) # "completed"
    <3>1. StatusOf([status |-> "error"]) # "completed"
      BY DEF StatusOf
    <3> QED
      BY <2>3, <3>1
  <2> QED
    BY <1>2, <1>4, <2>2, <2>4 DEF Attesting, At
<1>11. CASE Exit(c) \/ NativeExit(c)
  <2>1. PICK failed \in BOOLEAN : Leave(c, failed)
    BY <1>3, <1>11 DEF Exit, NativeExit, Child
  <2>2. rows' = rows
    BY <1>11 DEF Exit, NativeExit
  <2>3. ~Alive(c)'
    BY <1>1, <2>1, LeaveRecord
  <2> QED
    BY <1>2, <1>4, <2>2, <2>3 DEF Attesting, At, Alive
<1> QED
  BY <1>5, <1>7, <1>8, <1>9, <1>10, <1>11 DEF ChildProgress

LEMMA FromPlannedStep ==
    ASSUME TypesInv, Sole, FromPlanned, [Next]_vars
    PROVE  FromPlanned'
<1> SUFFICES ASSUME ~Orphaned' PROVE Attesting'
  BY DEF FromPlanned
<1>1. ~Orphaned /\ Attesting
  BY MishapsGrow DEF FromPlanned, Orphaned
<1>2. CASE Bookkeeping \/ EditSplit \/ UNCHANGED vars
  <2>1. UNCHANGED <<policyVars, children, rows>>
    BY <1>2, BookkeepingTypes DEF EditSplit, vars, episodeVars
  <2> QED
    BY <1>1, <2>1, OthersAttest DEF policyVars
<1>3. CASE Terminate
  BY <1>3 DEF Terminate, Mishap, Orphaned
<1>4. CASE Spawn
  <2> DEFINE c == Cardinality(Born) + 1
  <2>1. /\ children'[c].pc = "preflight" /\ UNCHANGED <<policyVars, rows>>
        /\ \A d \in Children : d # c => children'[d] = children[d]
    BY <1>4, SpawnTypes
  <2> HIDE DEF c
  <2> QED
    BY <1>1, <2>1, OthersAttest DEF policyVars, At
<1>5. CASE Ending
  BY <1>1, <1>5, EndingAttests
<1>6. CASE Serve \/ Restart
  BY <1>1, <1>6, ServeAttests, RestartAttests
<1>7. ASSUME NEW c \in Children, ChildProgress(c) \/ NativeExit(c)
      PROVE  Attesting'
  BY <1>1, <1>7, ChildAttests
<1> QED
  BY <1>2, <1>3, <1>4, <1>5, <1>6, <1>7, Steps DEF Aside
------------------------------------------------------------------------------
(* The second theorem: the files are consistent.                             *)

BatchIInv == ProofInv /\ TypesInv /\ Sole /\ Retried /\ Noted /\ Published /\ FromPlanned

LEMMA BatchInit == Init => BatchIInv
<1> SUFFICES ASSUME Init PROVE BatchIInv
  OBVIOUS
<1>1. ProofInv /\ TypesInv
  BY InitKeeps, TypesInit
<1>2. /\ batch = [pc |-> "off", index |-> 1, attempt |-> 0, child |-> 0, run |-> 0]
      /\ manifest = None /\ summary = None /\ mishaps = {}
      /\ children = [c \in Children |-> None] /\ rows = [e \in Episodes |-> None]
  BY DEF Init, EpisodeInit
<1>3. Born = {} /\ \A c \in Children : ~Alive(c) /\ \A pc : ~At(c, pc)
  BY <1>2 DEF Born, Alive, At
<1>4. \A e \in Episodes : ~Completed(e)
  BY <1>2 DEF Completed, StatusOf
<1>5. Sole /\ Noted /\ Published /\ FromPlanned
  BY <1>2, <1>3, <1>4 DEF Sole, Noted, Counted, Published, FromPlanned, Attesting
<1>6. Numbered
  <2>1. Cardinality(Born) = 0
    BY <1>3, FS_EmptySet
  <2> QED
    BY <1>3, <2>1 DEF Numbered
<1>7. Retried
  BY <1>2, <1>3, <1>6 DEF Retried, RetriesOnlyUnfinished, Recent, AwaitsLast
<1> QED
  BY <1>1, <1>5, <1>7 DEF BatchIInv

LEMMA BatchStepKeeps == BatchIInv /\ [Next]_vars => BatchIInv'
<1> SUFFICES ASSUME BatchIInv, [Next]_vars PROVE BatchIInv'
  OBVIOUS
<1>1. ProofInv' /\ TypesInv'
  BY StepKeeps, TypesStep DEF BatchIInv
<1>2. Sole' /\ Retried' /\ FromPlanned'
  BY <1>1, SoleStep, RetriedStep, FromPlannedStep DEF BatchIInv
<1>3. Noted' /\ Published'
  BY <1>1, NotedStep, PublishedStep DEF BatchIInv
<1> QED
  BY <1>1, <1>2, <1>3 DEF BatchIInv

LEMMA BatchIInvImplies == BatchIInv => BatchInv
<1> SUFFICES ASSUME BatchIInv PROVE BatchInv
  OBVIOUS
<1>1. BatchType /\ RetriesOnlyUnfinished
  BY DEF BatchIInv, TypesInv, Retried
<1>2. RowPolicy
  BY DEF BatchIInv, FromPlanned, Attesting, RowPolicy, Completed
<1>3. ManifestIsTrue
  <2>1. ASSUME mishaps = {}, manifest # None
        PROVE  /\ \A e \in 1 .. manifest.completed : StatusOf(rows[e]) = "completed"
               /\ manifest.status = "completed" => summary = manifest.plan
    BY <2>1 DEF BatchIInv, Noted, Counted, ProofInv, Undisturbed, OneEdition, Completed
  <2>2. summary # None /\ ~Orphaned => \A e \in Episodes : rows[e].split = summary
    BY DEF BatchIInv, Published
  <2> QED
    BY <2>1, <2>2 DEF ManifestIsTrue
<1> QED
  BY <1>1, <1>2, <1>3 DEF BatchInv

\* The files say what the children did: a completed result holds actions of the planned
\* checkpoint, in one run no episode is tried again after a result or an error, the
\* manifest counts and closes only what is there, and a summary is of one edition of
\* the split and stays true (batch.py:126-188, policy.py:25-29); each unless what
\* the invariant names has disturbed the batch.
THEOREM BatchIsConsistent == Spec => []BatchInv
<1>1. Init => BatchIInv
  BY BatchInit
<1>2. BatchIInv /\ [Next]_vars => BatchIInv'
  BY BatchStepKeeps
<1>3. BatchIInv => BatchInv
  BY BatchIInvImplies
<1> QED
  BY <1>1, <1>2, <1>3, PTL DEF Spec
------------------------------------------------------------------------------
(* The third theorem: whose observations the actions rest on.                *)

\* What a child has asked and not been answered: nothing it will not give up, or the
\* question it waits for.
Fits(r) ==
    LET c == r.by
    IN  \/ At(c, "closing") \/ At(c, "gone")
        \/ /\ At(c, "resetting") /\ inbox[c] = Waiting
           /\ r = [kind |-> "reset", episode |-> children[c].episode, frame |-> 0, by |-> c]
        \/ /\ At(c, "acting") /\ inbox[c] = Waiting
           /\ r = [kind |-> "act", episode |-> children[c].episode,
                   frame |-> children[c].frame, by |-> c]

\* The frame the server has to be at for the next action of a child.
Expected(c) == IF ~At(c, "acting") THEN 0
               ELSE IF Answered(c) THEN children[c].frame + 1 ELSE children[c].frame

\* A child that has the session, as far as it can know.
Active(c) == \/ At(c, "resetting") /\ inbox[c].kind = "ack"
             \/ At(c, "acting") /\ (inbox[c] = Waiting \/ Answered(c))

OwnMemory(c) == session.authors = IF Expected(c) = 0 THEN {} ELSE {c}

\* Undisturbed, the server is where the child expects it and remembers nobody else, or
\* has been started again; disturbed once, it may be, and is then at another frame, until
\* it is disturbed once more.
Following(c) ==
    /\ disturbed[c] = 0 => \/ session.frame = Expected(c) /\ OwnMemory(c)
                           \/ session.episode = None /\ session.frame = 0 /\ session.authors = {}
    /\ disturbed[c] = 1 => session.frame # Expected(c) \/ OwnMemory(c)

Recalls(c) ==
    /\ Active(c) => Following(c)
    /\ At(c, "acting") /\ Answered(c) /\ disturbed[c] \in {0, 1} => inbox[c].authors = {c}

Recall == /\ \A r \in requests : Fits(r)
          /\ \A c \in Children : Recalls(c)
          /\ RowIsOwn

\* A step that concerns one child, or none, and leaves the server alone.
LEMMA RecallFrame ==
    ASSUME Recall, NEW c, session' = session,
           \A d \in Children : d # c => /\ children'[d] = children[d]
                                        /\ inbox'[d] = inbox[d]
                                        /\ disturbed'[d] = disturbed[d],
           \A r \in requests' : r.by \in Children /\ (r \in requests \/ r.by = c),
           \A r \in requests' : r.by = c => Fits(r)',
           c \in Children => Recalls(c)',
           RowIsOwn'
    PROVE  Recall'
<1>1. ASSUME NEW r \in requests' PROVE Fits(r)'
  <2>1. CASE r.by = c
    BY <2>1
  <2>2. CASE r.by # c
    BY <2>2 DEF Recall, Fits, At
  <2> QED
    BY <2>1, <2>2
<1>2. ASSUME NEW d \in Children PROVE Recalls(d)'
  <2>1. CASE d = c
    BY <2>1
  <2>2. CASE d # c
    <3>1. Recalls(d)
      BY DEF Recall
    <3> QED
      BY <2>2, <3>1 DEF Recalls, Active, Following, Expected, OwnMemory, At, Answered
  <2> QED
    BY <2>1, <2>2
<1> QED
  BY <1>1, <1>2 DEF Recall

LEMMA RecallChild ==
    ASSUME TypesInv, Recall, NEW c \in Children, ChildProgress(c) \/ NativeExit(c)
    PROVE  Recall'
<1>1. /\ Alive(c) /\ children'[c] # None /\ children'[c].episode = children[c].episode
      /\ \A d \in Children : d # c => children'[d] = children[d]
      /\ \A e \in Episodes : e # children[c].episode => rows'[e] = rows[e]
  BY ChildRecord
<1>2. /\ inbox \in [Children -> {None, Waiting} \cup Answers] /\ requests \subseteq Requests
      /\ rows \in [Episodes -> {None} \cup Row] /\ children[c] \in Child
      /\ children \in [Children -> {None} \cup Child] /\ children[c].episode \in Episodes
      /\ disturbed \in [Children -> {None} \cup 0 .. 2]
  BY <1>1 DEF TypesInv, BatchType, EpisodeType, PolicyType, Alive, Child
<1>3. \A r \in requests : r.by \in Children
  BY <1>2 DEF Requests
<1>4. ASSUME rows' = rows \/ StatusOf(rows'[children[c].episode]) # "completed"
             \/ rows'[children[c].episode].intruders \notin {0, 1}
             \/ rows'[children[c].episode].own
      PROVE  RowIsOwn'
  <2>1. CASE rows' = rows
    BY <2>1 DEF Recall, RowIsOwn
  <2>2. CASE rows' # rows
    <3>1. ASSUME NEW e \in Episodes, StatusOf(rows'[e]) = "completed",
                 rows'[e].intruders \in {0, 1}
          PROVE  rows'[e].own
      <4>1. CASE e = children[c].episode
        BY <1>4, <2>2, <3>1, <4>1
      <4>2. CASE e # children[c].episode
        BY <1>1, <3>1, <4>2 DEF Recall, RowIsOwn
      <4> QED
        BY <4>1, <4>2
    <3> QED
      BY <3>1 DEF RowIsOwn
  <2> QED
    BY <2>1, <2>2
<1>5. ASSUME children'[c].pc \in {"closing", "gone"},
             requests' = requests, session' = session,
             \A d \in Children : d # c => inbox'[d] = inbox[d] /\ disturbed'[d] = disturbed[d],
             RowIsOwn'
      PROVE  Recall'
  <2>1. \A r \in requests' : r.by = c => Fits(r)'
    BY <1>1, <1>5 DEF Fits, At
  <2>2. Recalls(c)'
    BY <1>5 DEF Recalls, Active, At
  <2> QED
    BY <1>1, <1>3, <1>5, <2>1, <2>2, RecallFrame
<1>6. CASE MarkStarted(c)
  <2>1. /\ At(c, "preflight") /\ UNCHANGED <<session, requests, inbox, disturbed>>
        /\ children'[c].pc = "kit"
    BY <1>2, <1>6 DEF MarkStarted, policyVars, Child
  <2>2. \A r \in requests : r.by # c
    BY <2>1 DEF Recall, Fits, At
  <2>3. Recalls(c)'
    BY <2>1 DEF Recalls, Active, At
  <2>4. RowIsOwn'
    <3>1. rows'[children[c].episode] = [status |-> "started"]
      BY <1>2, <1>6 DEF MarkStarted, WriteRow
    <3>2. StatusOf([status |-> "started"]) # "completed"
      BY DEF StatusOf
    <3> QED
      BY <1>4, <3>1, <3>2
  <2> QED
    BY <1>1, <1>3, <2>1, <2>2, <2>3, <2>4, RecallFrame
<1>7. ASSUME NEW kind, NEW frame, NEW pc, Ask(c, kind, frame, pc),
             \A r \in requests : r.by # c,
             \/ kind = "reset" /\ frame = 0 /\ pc = "resetting"
             \/ /\ kind = "act" /\ pc = "acting" /\ Active(c) /\ frame = Expected(c)
      PROVE  Recall'
  <2>0. PICK q : q = [kind |-> kind, episode |-> children[c].episode, frame |-> frame, by |-> c]
    OBVIOUS
  <2>1. /\ UNCHANGED <<session, disturbed, rows>>
        /\ requests' = requests \cup {q} /\ inbox' = [inbox EXCEPT ![c] = Waiting]
        /\ children' = [children EXCEPT ![c].pc = pc, ![c].frame = frame]
    BY <1>7, <2>0 DEF Ask
  <2>2. children'[c].pc = pc /\ children'[c].frame = frame
    BY <1>2, <2>1 DEF Child
  <2>3. /\ inbox'[c] = Waiting /\ ~Answered(c)' /\ inbox'[c].kind # "ack"
        /\ \A d \in Children : d # c => inbox'[d] = inbox[d]
    BY <1>2, <2>1 DEF Answered, Waiting
  <2>4. Fits(q)'
    BY <1>1, <1>7, <2>0, <2>2, <2>3 DEF Fits, At
  <2>5. Recalls(c)'
    <3>1. CASE pc = "resetting"
      BY <2>2, <2>3, <3>1 DEF Recalls, Active, At
    <3>2. CASE pc = "acting"
      <4>1. Following(c) /\ Expected(c)' = Expected(c)
        BY <1>1, <1>7, <2>2, <2>3, <3>2 DEF Recall, Recalls, Expected, At
      <4>2. Following(c)'
        BY <2>1, <4>1 DEF Following, OwnMemory
      <4> QED
        BY <2>3, <4>2 DEF Recalls
    <3> QED
      BY <1>7, <3>1, <3>2
  <2>6. RowIsOwn'
    BY <1>4, <2>1
  <2>7. /\ \A r \in requests' : r.by \in Children /\ (r \in requests \/ r.by = c)
        /\ \A r \in requests' : r.by = c => Fits(r)'
    BY <1>3, <1>7, <2>0, <2>1, <2>4
  <2>8. /\ session' = session
        /\ \A d \in Children : d # c => /\ children'[d] = children[d]
                                        /\ inbox'[d] = inbox[d]
                                        /\ disturbed'[d] = disturbed[d]
    BY <1>1, <2>1, <2>3
  <2> QED
    BY <2>5, <2>6, <2>7, <2>8, RecallFrame
<1>8. CASE AskReset(c)
  <2>1. At(c, "kit") /\ Ask(c, "reset", 0, "resetting")
    BY <1>8 DEF AskReset
  <2>2. \A r \in requests : r.by # c
    BY <2>1 DEF Recall, Fits, At
  <2> QED
    BY <1>7, <2>1, <2>2
<1>9. CASE FirstFrame(c)
  <2>1. At(c, "resetting") /\ Attested(c) /\ Ask(c, "act", 0, "acting")
    BY <1>9 DEF FirstFrame
  <2>2. inbox[c].kind = "ack" /\ inbox[c] # Waiting
    BY <2>1 DEF Attested, Waiting
  <2>3. \A r \in requests : r.by # c
    BY <2>1, <2>2 DEF Recall, Fits, At
  <2>4. Active(c) /\ Expected(c) = 0
    BY <2>1, <2>2 DEF Active, Expected, At
  <2> QED
    BY <1>7, <2>1, <2>3, <2>4
<1>10. CASE NextFrame(c)
  <2>1. At(c, "acting") /\ Answered(c) /\ Ask(c, "act", children[c].frame + 1, "acting")
    BY <1>10 DEF NextFrame
  <2>2. inbox[c] # Waiting
    BY <2>1 DEF Answered, Waiting
  <2>3. \A r \in requests : r.by # c
    BY <2>1, <2>2 DEF Recall, Fits, At
  <2>4. Active(c) /\ Expected(c) = children[c].frame + 1
    BY <2>1 DEF Active, Expected
  <2> QED
    BY <1>7, <2>1, <2>3, <2>4
<1>11. CASE Complete(c)
  <2>1. /\ At(c, "acting") /\ Answered(c) /\ UNCHANGED <<session, requests>>
        /\ inbox' = [inbox EXCEPT ![c] = None] /\ disturbed' = [disturbed EXCEPT ![c] = None]
    BY <1>11 DEF Complete
  <2>2. children'[c].pc = "closing"
    BY <1>2, <1>11 DEF Complete, Child
  <2>3. /\ rows'[children[c].episode].own = (inbox[c].authors = {c})
        /\ rows'[children[c].episode].intruders = disturbed[c]
    BY <1>2, <1>11 DEF Complete, WriteRow
  <2>4. disturbed[c] \in {0, 1} => inbox[c].authors = {c}
    BY <2>1 DEF Recall, Recalls
  <2>5. RowIsOwn'
    BY <1>4, <2>3, <2>4
  <2> QED
    BY <1>2, <1>5, <2>1, <2>2, <2>5
<1>12. CASE BootFails(c) \/ RenderFails(c) \/ AskFails(c)
  <2>1. Raise(c)
    BY <1>12 DEF BootFails, RenderFails, AskFails
  <2>2. /\ UNCHANGED <<session, requests>>
        /\ inbox' = [inbox EXCEPT ![c] = None] /\ disturbed' = [disturbed EXCEPT ![c] = None]
    BY <2>1 DEF Raise
  <2>3. children'[c].pc = "closing"
    BY <1>2, <2>1 DEF Raise, Child
  <2>4. RowIsOwn'
    <3>1. rows'[children[c].episode] = [status |-> "error"]
      BY <1>2, <2>1 DEF Raise, WriteRow
    <3>2. StatusOf([status |-> "error"]) # "completed"
      BY DEF StatusOf
    <3> QED
      BY <1>4, <3>1, <3>2
  <2> QED
    BY <1>2, <1>5, <2>2, <2>3, <2>4
<1>13. CASE Exit(c) \/ NativeExit(c)
  <2>1. PICK failed \in BOOLEAN : Leave(c, failed)
    BY <1>2, <1>13 DEF Exit, NativeExit, Child
  <2>2. /\ UNCHANGED <<session, requests, rows>>
        /\ inbox' = [inbox EXCEPT ![c] = None] /\ disturbed' = [disturbed EXCEPT ![c] = None]
    BY <1>13, <2>1 DEF Exit, NativeExit, Leave
  <2>3. children'[c].pc = "gone"
    BY <1>1, <2>1, LeaveRecord DEF Alive
  <2>4. RowIsOwn'
    BY <1>4, <2>2
  <2> QED
    BY <1>2, <1>5, <2>2, <2>3, <2>4
<1> QED
  BY <1>6, <1>8, <1>9, <1>10, <1>11, <1>12, <1>13 DEF ChildProgress

\* The server's answers: to the child that asked, if it still waits.
LEMMA RecallServe ==
    ASSUME TypesInv, Recall, Serve
    PROVE  Recall'
<1>1. PICK r \in requests : \/ ExecuteReset(r)
                            \/ \E action \in Actions : ExecuteAct(r, action)
                            \/ Refuse(r)
  BY DEF Serve, ServerStep
<1> DEFINE c == r.by
<1>2. /\ c \in Children /\ r.episode # None /\ requests \subseteq Requests
      /\ session \in [episode : Episodes \cup {None}, frame : 0 .. MaxSteps,
                      stopped : BOOLEAN, authors : SUBSET Children, policy : Policies]
      /\ inbox \in [Children -> {None, Waiting} \cup Answers]
      /\ MaxSteps \in Nat /\ session.frame \in Nat
  BY PolicyAssumption DEF TypesInv, BatchType, EpisodeType, PolicyType, Requests, Episodes
<1>3. UNCHANGED <<children, rows>> /\ RowIsOwn' /\ requests' = requests \ {r}
  BY <1>1 DEF Serve, Recall, RowIsOwn, ExecuteReset, ExecuteAct, Refuse
<1>4. Fits(r)
  BY DEF Recall
<1>5. \A d \in Children : \A pc : At(d, pc)' <=> At(d, pc)
  BY <1>3 DEF At
<1>6. ASSUME NEW answer, Deliver(c, answer)
      PROVE  /\ \A d \in Children : d # c => inbox'[d] = inbox[d]
             /\ inbox[c] = Waiting => inbox'[c] = answer
             /\ \A q \in requests' : Fits(q)'
  <2>1. /\ \A d \in Children : d # c => inbox'[d] = inbox[d]
        /\ inbox[c] = Waiting => inbox'[c] = answer
    BY <1>2, <1>6 DEF Deliver
  <2>2. ASSUME NEW q \in requests' PROVE Fits(q)'
    <3>1. Fits(q) /\ q # r /\ q.by \in Children
      BY <1>2, <1>3 DEF Recall, Requests
    <3>2. CASE q.by # c
      BY <1>3, <1>5, <2>1, <3>1, <3>2 DEF Fits
    <3>3. CASE q.by = c
      <4>1. At(c, "closing") \/ At(c, "gone")
        BY <1>4, <3>1, <3>3 DEF Fits, At
      <4> QED
        BY <1>2, <1>5, <3>3, <4>1 DEF Fits
    <3> QED
      BY <3>2, <3>3
  <2> QED
    BY <2>1, <2>2
\* Somebody else: disturbed, or refused without notice.
<1>7. ASSUME NEW d \in Children, inbox'[d] = inbox[d]
      PROVE  /\ Active(d)' <=> Active(d)
             /\ Expected(d)' = Expected(d)
             /\ Answered(d)' <=> Answered(d)
  BY <1>3, <1>5, <1>7 DEF Active, Expected, Answered
<1>8. ASSUME NEW d \in Children, Intrude(r), d # c
      PROVE  /\ disturbed'[d] # 0
             /\ disturbed'[d] = 1 => disturbed[d] = 0
             /\ disturbed'[d] \in {0, 1} => disturbed[d] \in {0, 1}
  <2>1. disturbed'[d] = IF disturbed[d] \in {0, 1} THEN disturbed[d] + 1 ELSE disturbed[d]
    BY <1>8 DEF Intrude
  <2> QED
    BY <2>1
<1>9. At(c, "closing") \/ At(c, "gone") => Recalls(c)'
  BY <1>2, <1>5 DEF Recalls, Active, At
<1>10. CASE ExecuteReset(r)
  <2> DEFINE answer == [kind |-> "ack", policy |-> session.policy]
  <2>1. /\ Deliver(c, answer) /\ Intrude(r) /\ r.kind = "reset"
        /\ session' = Reset(session, r)
    BY <1>10 DEF ExecuteReset
  <2>2. session'.frame = 0 /\ session'.authors = {}
    BY <2>1 DEF Reset, FreshSession
  <2>3. Recalls(c)'
    <3>1. CASE At(c, "resetting") /\ inbox[c] = Waiting
      <4>1. disturbed'[c] = 0
        BY <1>2, <2>1, <3>1 DEF Intrude
      <4>2. ~At(c, "acting")'
        BY <1>2, <1>5, <3>1 DEF At
      <4>3. Expected(c)' = 0
        BY <4>2 DEF Expected
      <4> QED
        BY <2>2, <4>1, <4>2, <4>3 DEF Recalls, Following, OwnMemory
    <3> QED
      BY <1>4, <1>9, <2>1, <3>1 DEF Fits
  <2>4. ASSUME NEW d \in Children, d # c PROVE Recalls(d)'
    <3>1. inbox'[d] = inbox[d]
      BY <1>6, <2>1, <2>4
    <3>2. Following(d)'
      BY <1>8, <2>1, <2>2, <2>4 DEF Following, OwnMemory
    <3> QED
      BY <1>5, <1>7, <1>8, <2>1, <2>4, <3>1, <3>2 DEF Recalls, Recall
  <2> QED
    BY <1>3, <1>6, <2>1, <2>3, <2>4 DEF Recall
<1>11. ASSUME NEW action \in Actions, ExecuteAct(r, action)
       PROVE  Recall'
  <2> DEFINE answer == [kind |-> "action", action |-> action, policy |-> session.policy,
                        authors |-> session'.authors]
  <2>1. /\ Deliver(c, answer) /\ Intrude(r) /\ r.kind = "act"
        /\ session.episode = r.episode /\ session.frame = r.frame
        /\ session' = Act(session, r, action)
    BY <1>11 DEF ExecuteAct, Acceptable
  <2>2. session'.frame = session.frame + 1 /\ session'.authors = session.authors \cup {c}
    BY <1>2, <2>1 DEF Act, Remember
  <2>3. Recalls(c)'
    <3>1. CASE At(c, "acting") /\ inbox[c] = Waiting
      <4>1. r.frame = children[c].frame /\ ~Answered(c) /\ Active(c)
        BY <1>4, <3>1 DEF Fits, At, Answered, Waiting, Active
      <4>2. Following(c) /\ Expected(c) = session.frame
        BY <1>2, <2>1, <3>1, <4>1 DEF Recall, Recalls, Expected
      <4>3. disturbed'[c] = disturbed[c]
        BY <1>2, <2>1 DEF Intrude
      <4>4. disturbed[c] \in {0, 1} => session'.authors = {c}
        BY <1>2, <2>1, <2>2, <4>2 DEF Following, OwnMemory
      <4>5. inbox'[c] = answer
        BY <1>6, <2>1, <3>1
      <4>6. At(c, "acting")' /\ (Answered(c)' => Expected(c)' = session'.frame)
        BY <1>2, <1>3, <1>5, <2>1, <2>2, <3>1, <4>1 DEF Expected
      <4>7. inbox'[c].kind = "action" /\ inbox'[c].authors = session'.authors
            /\ inbox'[c] # Waiting
        BY <4>5 DEF Waiting
      <4>8. Active(c)' => Following(c)'
        <5>1. Active(c)' => Answered(c)'
          BY <1>2, <3>1, <4>6, <4>7 DEF Active, At
        <5>2. session'.frame # 0
          BY <1>2, <2>2
        <5> QED
          BY <4>3, <4>4, <4>6, <5>1, <5>2 DEF Following, OwnMemory
      <4> QED
        BY <4>3, <4>4, <4>7, <4>8 DEF Recalls
    <3> QED
      BY <1>4, <1>9, <2>1, <3>1 DEF Fits
  <2>4. ASSUME NEW d \in Children, d # c PROVE Recalls(d)'
    <3>1. inbox'[d] = inbox[d]
      BY <1>6, <2>1, <2>4
    <3>2. Active(d) => Following(d)'
      <4>1. Active(d) /\ disturbed[d] = 0 => session.frame = Expected(d)
        BY <1>2, <2>1 DEF Recall, Recalls, Following
      <4>2. session.frame # session.frame + 1
        BY <1>2
      <4> QED
        BY <1>7, <1>8, <2>1, <2>2, <2>4, <3>1, <4>1, <4>2 DEF Following
    <3> QED
      BY <1>5, <1>7, <1>8, <2>1, <2>4, <3>1, <3>2 DEF Recalls, Recall
  <2> QED
    BY <1>3, <1>6, <2>1, <2>3, <2>4 DEF Recall
<1>12. CASE Refuse(r)
  <2> DEFINE answer == [kind |-> "refused"]
  <2>1. Deliver(c, answer) /\ r.kind = "act" /\ UNCHANGED <<session, disturbed>>
    BY <1>12 DEF Refuse
  <2>2. Recalls(c)'
    <3>1. CASE At(c, "acting") /\ inbox[c] = Waiting
      <4>1. inbox'[c] = answer
        BY <1>6, <2>1, <3>1
      <4>2. inbox'[c].kind = "refused" /\ inbox'[c] # Waiting
        BY <4>1 DEF Waiting
      <4> QED
        BY <4>2 DEF Recalls, Active, Answered
    <3> QED
      BY <1>4, <1>9, <2>1, <3>1 DEF Fits
  <2>3. ASSUME NEW d \in Children, d # c PROVE Recalls(d)'
    <3>1. inbox'[d] = inbox[d]
      BY <1>6, <2>1, <2>3
    <3>2. Following(d)' <=> Following(d)
      BY <1>7, <2>1, <3>1 DEF Following, OwnMemory
    <3> QED
      BY <1>5, <1>7, <2>1, <3>1, <3>2 DEF Recalls, Recall
  <2> QED
    BY <1>3, <1>6, <2>1, <2>2, <2>3 DEF Recall
<1> QED
  BY <1>1, <1>10, <1>11, <1>12

\* A server that has been started again remembers nobody.
LEMMA RecallRestart ==
    ASSUME TypesInv, Recall, Restart
    PROVE  Recall'
<1>1. PICK p \in Policies : RestartServer(p)
  BY DEF Restart
<1>2. /\ session'.episode = None /\ session'.frame = 0 /\ session'.authors = {}
      /\ requests' = {} /\ disturbed' = disturbed /\ UNCHANGED <<children, rows>>
  BY <1>1 DEF RestartServer, FreshSession, Restart
<1>3. ASSUME NEW d \in Children PROVE Recalls(d)'
  <2>1. CASE inbox[d] = Waiting
    <3>1. inbox'[d] = [kind |-> "refused"]
      BY <1>1, <2>1 DEF RestartServer
    <3>2. inbox'[d].kind = "refused" /\ inbox'[d] # Waiting
      BY <3>1 DEF Waiting
    <3> QED
      BY <3>2 DEF Recalls, Active, Answered
  <2>2. CASE inbox[d] # Waiting
    <3>1. inbox'[d] = inbox[d]
      BY <1>1, <2>2 DEF RestartServer
    <3>2. Following(d)'
      BY <1>2 DEF Following, OwnMemory
    <3> QED
      BY <1>2, <3>1, <3>2 DEF Recall, Recalls, Answered, At
  <2> QED
    BY <2>1, <2>2
<1>4. RowIsOwn'
  BY <1>2 DEF Recall, RowIsOwn
<1> QED
  BY <1>2, <1>3, <1>4 DEF Recall

\* The runner starts and ends its children, and does nothing else to them.
LEMMA RecallRunner ==
    ASSUME TypesInv, Numbered, Recall,
           Bookkeeping \/ Ending \/ Spawn \/ EditSplit \/ Terminate \/ UNCHANGED vars
    PROVE  Recall'
<1>1. \A r \in requests : r.by \in Children
  BY DEF TypesInv, BatchType, EpisodeType, PolicyType, Requests
<1>2. CASE Bookkeeping \/ EditSplit \/ Terminate \/ UNCHANGED vars
  <2>1. UNCHANGED <<session, requests, inbox, disturbed, children, rows>>
    BY <1>2, BookkeepingTypes DEF EditSplit, Terminate, vars, episodeVars, policyVars
  <2>2. RowIsOwn'
    BY <2>1 DEF Recall, RowIsOwn
  <2>3. ASSUME NEW d \in Children PROVE Recalls(d)'
    BY <2>1 DEF Recall, Recalls, Active, Following, Expected, OwnMemory, At, Answered
  <2>4. \A r \in requests' : Fits(r)'
    BY <2>1 DEF Recall, Fits, At
  <2> QED
    BY <2>2, <2>3, <2>4 DEF Recall
<1>3. CASE Ending
  <2>0. PICK c : c = batch.child
    OBVIOUS
  <2>1. /\ UNCHANGED <<session, requests, rows>>
        /\ IF batch.pc = "wait" /\ Alive(c) THEN Leave(c, TRUE)
           ELSE UNCHANGED <<children, inbox, disturbed>>
    BY <1>3, <2>0, EndingTypes
  <2>2. RowIsOwn'
    BY <2>1 DEF Recall, RowIsOwn
  <2>3. CASE batch.pc = "wait" /\ Alive(c)
    <3>1. Leave(c, TRUE)
      BY <2>1, <2>3
    <3>2. \A d \in Children : KeepsRecord(d) /\ (d = c => ~Alive(d)')
                              /\ (d # c => children'[d] = children[d])
      BY <2>3, <3>1, LeaveRecord DEF Alive
    <3>3. \A d \in Children : d # c => inbox'[d] = inbox[d] /\ disturbed'[d] = disturbed[d]
      BY <3>1 DEF Leave, TypesInv, BatchType, EpisodeType, PolicyType
    <3>4. c \in Children => At(c, "gone")'
      BY <2>3, <3>2 DEF KeepsRecord, Alive, At
    <3>5. \A r \in requests' : r.by = c => Fits(r)'
      BY <1>1, <2>1, <3>4 DEF Fits
    <3>6. c \in Children => Recalls(c)'
      BY <3>4 DEF Recalls, Active, At
    <3> QED
      BY <1>1, <2>1, <2>2, <3>2, <3>3, <3>5, <3>6, RecallFrame
  <2>4. CASE ~(batch.pc = "wait" /\ Alive(c))
    <3>1. UNCHANGED <<children, inbox, disturbed>>
      BY <2>1, <2>4
    <3>2. ASSUME NEW d \in Children PROVE Recalls(d)'
      BY <2>1, <3>1 DEF Recall, Recalls, Active, Following, Expected, OwnMemory, At, Answered
    <3>3. \A r \in requests' : Fits(r)'
      BY <2>1, <3>1 DEF Recall, Fits, At
    <3> QED
      BY <2>2, <3>2, <3>3 DEF Recall
  <2> QED
    BY <2>3, <2>4
<1>4. CASE Spawn
  <2>0. PICK c : c = Cardinality(Born) + 1
    OBVIOUS
  <2>1. /\ c \in Children /\ children'[c] # None /\ children'[c].pc = "preflight"
        /\ \A d \in Children : d # c => children'[d] = children[d]
        /\ UNCHANGED <<policyVars, rows>>
    BY <1>4, <2>0, SpawnTypes
  <2>2. children[c] = None
    <3>1. Cardinality(Born) \in Nat /\ Born = 1 .. Cardinality(Born)
      BY BornCount DEF Numbered
    <3>2. c \notin Born
      BY <2>0, <3>1
    <3> QED
      BY <2>1, <3>2 DEF Born
  <2>3. RowIsOwn'
    BY <2>1 DEF Recall, RowIsOwn
  <2>4. \A r \in requests : r.by # c
    BY <2>2 DEF Recall, Fits, At
  <2>5. Recalls(c)'
    BY <2>1 DEF Recalls, Active, At
  <2> QED
    BY <1>1, <2>1, <2>3, <2>4, <2>5, RecallFrame DEF policyVars
<1> QED
  BY <1>2, <1>3, <1>4

LEMMA RecallStep ==
    ASSUME TypesInv, Numbered, Recall, [Next]_vars
    PROVE  Recall'
  BY Steps, RecallChild, RecallServe, RecallRestart, RecallRunner DEF Aside

LEMMA RecallInit == Init => Recall
<1> SUFFICES ASSUME Init PROVE Recall
  OBVIOUS
<1>1. /\ children = [c \in Children |-> None] /\ rows = [e \in Episodes |-> None]
      /\ requests = {}
  BY DEF Init, EpisodeInit, PolicyInit
<1>2. \A c \in Children : \A pc : ~At(c, pc)
  BY <1>1 DEF At
<1>3. RowIsOwn
  BY <1>1 DEF RowIsOwn, StatusOf
<1> QED
  BY <1>1, <1>2, <1>3 DEF Recall, Recalls, Active

\* A completed result rests on its own observations, however late the requests of the
\* children before arrive and whoever else asks, as long as no more than one of them
\* was accepted meanwhile: one moves the session off the frame the child asks about next
\* (policy_server.py:61-64).
THEOREM RowsAreOwn == Spec => []RowIsOwn
<1>1. Init => BatchIInv /\ Recall
  BY BatchInit, RecallInit
<1>2. BatchIInv /\ Recall /\ [Next]_vars => BatchIInv' /\ Recall'
  <2>1. BatchIInv => TypesInv /\ Numbered
    BY DEF BatchIInv, Retried
  <2> QED
    BY <2>1, BatchStepKeeps, RecallStep
<1>3. Recall => RowIsOwn
  BY DEF Recall
<1> QED
  BY <1>1, <1>2, <1>3, PTL DEF Spec
================================================================================
