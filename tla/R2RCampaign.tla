----------------------------- MODULE R2RCampaign -------------------------------
(***************************************************************************)
(* What a batch promises: results are added one at a time and kept, and    *)
(* the report is published once every episode has one.  Results are lost   *)
(* only after something outside the batch touched the files or left a      *)
(* child running.                                                          *)
(***************************************************************************)
EXTENDS Naturals

CONSTANT NumEpisodes

VARIABLES done, reported, disrupted

campaignVars == <<done, reported, disrupted>>

CampaignInit == done = {} /\ reported = FALSE /\ disrupted = FALSE

Finish(e) == e \notin done /\ done' = done \cup {e} /\ UNCHANGED <<reported, disrupted>>

Report == /\ done = 1 .. NumEpisodes
          /\ reported' = TRUE
          /\ UNCHANGED <<done, disrupted>>

Disrupt == disrupted' = TRUE /\ UNCHANGED <<done, reported>>

Lose(e) == disrupted /\ e \in done /\ done' = done \ {e} /\ UNCHANGED <<reported, disrupted>>

CampaignNext == Report \/ Disrupt \/ \E e \in 1 .. NumEpisodes : Finish(e) \/ Lose(e)

CampaignSpec == CampaignInit /\ [][CampaignNext]_campaignVars
================================================================================
