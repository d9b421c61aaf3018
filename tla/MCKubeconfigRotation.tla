------------------------ MODULE MCKubeconfigRotation ------------------------
(***************************************************************************)
(* Instances of KubeconfigRotation for TLC; the .cfg files choose the      *)
(* durations, the bounds and what goes wrong.                              *)
(***************************************************************************)
EXTENDS KubeconfigRotation
=============================================================================
