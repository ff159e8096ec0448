------------------------------ MODULE MCCloudLoop ------------------------------
(* CloudLoop for TLC.  Images are only compared for equality, so they are       *)
(* interchangeable in the runs that check safety properties.                    *)
EXTENDS CloudLoop, TLC

ImageSymmetry == Permutations(Images)
================================================================================
