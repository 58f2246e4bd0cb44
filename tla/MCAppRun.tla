------------------------------ MODULE MCAppRun ------------------------------
(***************************************************************************)
(* The instances of AppRun that TLC checks.  Process numbers are model     *)
(* values and interchangeable; births are numbers and are not.             *)
(***************************************************************************)
EXTENDS AppRun, TLC

Numbers == Permutations(Pids)

NumbersAndSlots == Permutations(Pids) \cup Permutations(Invs)
=============================================================================
