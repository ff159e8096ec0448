------------------------------- MODULE R2RBatch --------------------------------
(***************************************************************************)
(* The batch runner of the R2R benchmark: one child process per episode in *)
(* the order of the split, retries for a child that left its result        *)
(* unfinished, a manifest, a summary over all results, and a later run     *)
(* that resumes.  The runner can be killed at any point, with its child or *)
(* without it; the split can be edited and the server restarted meanwhile. *)
(***************************************************************************)
EXTENDS R2REpisode

CONSTANTS StartupRetries,
          MaxRuns,       \* bound: runs of the batch command
          MaxMishaps     \* bound: what else the operator does meanwhile

Manifests == [status : {"unwritten", "running", "error", "completed"},
              completed : 0 .. NumEpisodes, plan : Splits]

ASSUME BatchAssumption ==
    /\ StartupRetries \in Nat /\ MaxRuns \in Nat \ {0} /\ MaxMishaps \in Nat
    /\ None \notin Manifests

VARIABLES batch,      \* the running command, see BatchType
          manifest,   \* manifest.json: None when there is no directory
          summary,    \* the edition of the split in summary.json, or None
          mishaps     \* what happened outside the batch

vars == <<episodeVars, batch, manifest, summary, mishaps>>
batchVars == <<manifest, summary, mishaps>>

BatchType ==
    /\ EpisodeType
    /\ batch \in [pc : {"off", "created", "next", "spawn", "wait", "summarized"},
                  index : 1 .. NumEpisodes + 1, attempt : 0 .. StartupRetries,
                  child : 0 .. MaxChildren, run : 0 .. MaxRuns]
    /\ manifest \in {None} \cup Manifests
    /\ summary \in {None} \cup Splits
    /\ mishaps \subseteq {"orphan", "edit", "restart"}

Init == /\ EpisodeInit
        /\ batch = [pc |-> "off", index |-> 1, attempt |-> 0, child |-> 0, run |-> 0]
        /\ manifest = None /\ summary = None /\ mishaps = {}

Mishap(what) == /\ what \notin mishaps /\ Cardinality(mishaps) < MaxMishaps
                /\ mishaps' = mishaps \cup {what}
Orphaned == "orphan" \in mishaps   \* a runner was killed and its child went on

Goto(pc) == batch' = [batch EXCEPT !.pc = pc]
Stop == batch' = [batch EXCEPT !.pc = "off", !.index = 1, !.attempt = 0, !.child = 0]
Launch(pc) == batch' = [batch EXCEPT !.pc = pc, !.run = @ + 1]
MoveOn == batch' = [batch EXCEPT !.pc = "next", !.index = @ + 1, !.attempt = 0, !.child = 0]
Born == {c \in Children : children[c] # None}

\* run_batch without --resume: the directory must be new.
Create ==
    /\ batch.pc = "off" /\ batch.run < MaxRuns /\ manifest = None
    /\ Launch("created")
    /\ manifest' = [status |-> "unwritten", completed |-> 0, plan |-> split]
    /\ UNCHANGED <<episodeVars, summary, mishaps>>

WritePlan ==
    /\ batch.pc = "created"
    /\ Goto("next")
    /\ manifest' = [manifest EXCEPT !.status = "running"]
    /\ UNCHANGED <<episodeVars, summary, mishaps>>

\* run_batch with --resume: the recorded plan must be today's.
Resume ==
    /\ batch.pc = "off" /\ batch.run < MaxRuns
    /\ manifest # None /\ manifest.status # "unwritten" /\ manifest.plan = split
    /\ Launch("next")
    /\ UNCHANGED <<episodeVars, batchVars>>

\* A completed result of this plan is kept.
Kept(e) == rows[e] # None /\ rows[e].status = "completed" /\ rows[e].split = manifest.plan

Skip ==
    /\ batch.pc = "next" /\ batch.index <= NumEpisodes /\ Kept(batch.index)
    /\ MoveOn
    /\ UNCHANGED <<episodeVars, batchVars>>

\* A fresh log is reserved and a child started, the first time or again.
Spawn ==
    /\ \/ batch.pc = "next" /\ batch.index <= NumEpisodes /\ ~Kept(batch.index)
       \/ batch.pc = "spawn"
    /\ Born # Children
    /\ LET c == Cardinality(Born) + 1
       IN /\ children' = [children EXCEPT ![c] =
                 [episode |-> batch.index, run |-> batch.run, frame |-> 0, pc |-> "preflight",
                  wrote |-> "nothing", failed |-> FALSE, split |-> 0]]
          /\ batch' = [batch EXCEPT !.pc = "wait", !.child = c]
    /\ UNCHANGED <<policyVars, rows, split, batchVars>>

\* The runner writes the error to the manifest and raises.
Abort == /\ Stop
         /\ manifest' = [manifest EXCEPT !.status = "error"]
         /\ UNCHANGED <<summary, mishaps>>

\* subprocess.run kills the child when the episode takes too long.
NoTimeOut == FALSE
TimeOut ==
    /\ batch.pc = "wait" /\ Alive(batch.child)
    /\ Leave(batch.child, TRUE)
    /\ Abort
    /\ UNCHANGED <<session, requests, rows, split>>

ChildEnded == batch.pc = "wait" /\ ~Alive(batch.child)

StatusOf(row) == IF row = None THEN "none" ELSE row.status

\* Only a child that left its result unfinished is tried again.
UnfinishedOrFailed(row) == StatusOf(row) # "completed"
Unfinished(row) == StatusOf(row) \notin {"completed", "error"}

RetryForever ==
    /\ ChildEnded /\ Unfinished(rows[batch.index])
    /\ batch' = [batch EXCEPT !.pc = "spawn", !.attempt = @ + 1, !.child = 0]
    /\ UNCHANGED <<episodeVars, batchVars>>
Retry ==
    /\ ChildEnded /\ Unfinished(rows[batch.index]) /\ batch.attempt < StartupRetries
    /\ batch' = [batch EXCEPT !.pc = "spawn", !.attempt = @ + 1, !.child = 0]
    /\ UNCHANGED <<episodeVars, batchVars>>

Judged == /\ ChildEnded
          /\ Unfinished(rows[batch.index]) => batch.attempt = StartupRetries

Accept ==
    /\ Judged
    /\ StatusOf(rows[batch.index]) = "completed" /\ ~children[batch.child].failed
    /\ MoveOn
    /\ manifest' = [manifest EXCEPT !.status = "running", !.completed = batch.index]
    /\ UNCHANGED <<episodeVars, summary, mishaps>>

Reject ==
    /\ Judged
    /\ StatusOf(rows[batch.index]) = "completed" => children[batch.child].failed
    /\ Abort
    /\ UNCHANGED episodeVars

Finished == batch.pc = "next" /\ batch.index > NumEpisodes

\* summarize: complete results of one edition, which is the one on disk.
AnyEdition == \A e \in Episodes : StatusOf(rows[e]) = "completed"
AnyStatus == \A e \in Episodes : StatusOf(rows[e]) # "none"
Summarizable == \A e \in Episodes : StatusOf(rows[e]) = "completed" /\ rows[e].split = split

Summarize ==
    /\ Finished /\ Summarizable
    /\ summary' = split
    /\ Goto("summarized")
    /\ UNCHANGED <<episodeVars, manifest, mishaps>>

\* The audit raises: the manifest goes on saying "running".
AuditFails ==
    /\ Finished /\ ~Summarizable
    /\ Stop
    /\ UNCHANGED <<episodeVars, batchVars>>

CloseManifest ==
    /\ batch.pc = "summarized"
    /\ Stop
    /\ manifest' = [manifest EXCEPT !.status = "completed", !.completed = NumEpisodes]
    /\ UNCHANGED <<episodeVars, summary, mishaps>>

BatchStep == \/ WritePlan \/ Skip \/ Spawn \/ TimeOut \/ Retry
             \/ Accept \/ Reject \/ Summarize \/ AuditFails \/ CloseManifest

\* Interrupted from the keyboard the runner takes its child with it; a signal to the
\* runner alone leaves the child running.
Interrupt ==
    /\ batch.pc # "off"
    /\ Stop
    /\ IF batch.pc = "wait" /\ Alive(batch.child)
       THEN Leave(batch.child, TRUE)
       ELSE UNCHANGED <<children, inbox, disturbed>>
    /\ UNCHANGED <<session, requests, rows, split, batchVars>>

Terminate ==
    /\ batch.pc = "wait" /\ Alive(batch.child)
    /\ Stop
    /\ Mishap("orphan")
    /\ UNCHANGED <<episodeVars, manifest, summary>>

EditSplit ==
    /\ Mishap("edit")
    /\ split' = 1
    /\ UNCHANGED <<policyVars, children, rows, batch, manifest, summary>>

Serve == ServerStep /\ UNCHANGED <<children, rows, split, batch, batchVars>>

Restart ==
    /\ Mishap("restart")
    /\ \E p \in Policies : RestartServer(p)
    /\ UNCHANGED <<children, rows, split, batch, manifest, summary>>

Work(c) == ChildProgress(c) /\ UNCHANGED <<batch, batchVars>>
Die(c) == NativeExit(c) /\ UNCHANGED <<batch, batchVars>>

Next == \/ Create \/ Resume \/ BatchStep \/ Interrupt \/ Terminate
        \/ EditSplit \/ Restart \/ Serve
        \/ \E c \in Children : Work(c) \/ Die(c)

\* The runner goes on, and its timeout ends a child that does not.
Spec == Init /\ [][Next]_vars /\ WF_vars(BatchStep)

---------------------------------------------------------------------------
\* A completed result rests on its own observations as long as no more than one
\* request of somebody else was accepted meanwhile: the frame counter makes a single
\* intruder fail the episode instead (policy_server.py:61-64).
RowIsOwn ==
    \A e \in Episodes : StatusOf(rows[e]) = "completed" /\ rows[e].intruders \in {0, 1}
                           => rows[e].own

\* The actions of a completed result came from the checkpoint the batch names, also
\* when the server was started again from another one during the episode; unless a
\* child was left running (policy.py:25-29).
RowPolicy ==
    \A e \in Episodes : StatusOf(rows[e]) = "completed" /\ ~Orphaned
                           => rows[e].policy = PlannedPolicy

\* In one run of the batch no child is started for an episode after another has
\* written a result or an error (batch.py:160-166); unless a child was left running.
RetriesOnlyUnfinished ==
    ~Orphaned => \A c, d \in Born :
        /\ c < d
        /\ children[c].run = children[d].run
        /\ children[c].episode = children[d].episode
        => children[c].wrote \notin {"completed", "error"}

\* What the manifest counts is on disk, and it says "completed" only with a summary
\* of complete results of one edition of the split; as long as nothing but the batch
\* touched the files.
ManifestIsTrue ==
    /\ mishaps = {} /\ manifest # None =>
           /\ \A e \in 1 .. manifest.completed : StatusOf(rows[e]) = "completed"
           /\ manifest.status = "completed" => summary = manifest.plan
    /\ summary # None /\ ~Orphaned => \A e \in Episodes : rows[e].split = summary

\* Together: the rows and the manifest say what the children did.
BatchInv ==
    /\ BatchType
    /\ RowPolicy
    /\ RetriesOnlyUnfinished
    /\ ManifestIsTrue

\* Every run of the batch comes to an end, whatever the simulator and the policy do.
BatchEnds == batch.pc # "off" ~> batch.pc = "off" \/ Born = Children

\* The batch implements the campaign.
Campaign == INSTANCE R2RCampaign WITH
    done <- {e \in Episodes : StatusOf(rows[e]) = "completed"},
    reported <- summary # None,
    disrupted <- mishaps # {}
CampaignSpec == Campaign!CampaignSpec
================================================================================
