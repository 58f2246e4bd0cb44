------------------------------ MODULE MCNpmJob ------------------------------
(***************************************************************************)
(* The instances of NpmJob that TLC checks.                                *)
(***************************************************************************)
EXTENDS NpmJob, TLC
=============================================================================
