----------------------------- MODULE MCLiveMatrix -----------------------------
(* The plans of the small instance: episodes in one job, with as many frames *)
(* as it takes to leave one out; jobs that follow each other.                *)
EXTENDS LiveMatrix

SmallPlans ==
    [models : {<<"navida">>, <<"navila">>}, episodes : {2}, runs : {1}, frames : {4}]
    \cup [models : {<<"omnivla_edge">>, <<"movla">>}, episodes : {2}, runs : {1}, frames : {2}]
    \cup [models : {<<"movla", "omnivla">>}, episodes : {1}, runs : {2}, frames : {1}]
================================================================================
