--------------------------- MODULE MCMemoryLimits ---------------------------
(***************************************************************************)
(* The instances of MemoryLimits that TLC checks.                          *)
(***************************************************************************)
EXTENDS MemoryLimits, TLC
=============================================================================
