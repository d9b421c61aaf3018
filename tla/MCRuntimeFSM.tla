---------------------------- MODULE MCRuntimeFSM ----------------------------
(***************************************************************************)
(* Instances of RuntimeFSM for TLC; the .cfg files choose the bounds and   *)
(* which parts of the environment take part.                               *)
(***************************************************************************)
EXTENDS RuntimeFSM
=============================================================================
