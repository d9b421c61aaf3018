----------------------- MODULE MCRegistryCacheSecrets -----------------------
(***************************************************************************)
(* Instances of RegistryCacheSecrets for TLC; the .cfg files choose the    *)
(* bounds and what else happens.                                           *)
(***************************************************************************)
EXTENDS RegistryCacheSecrets
=============================================================================
