---------------------------- MODULE AppInstance ----------------------------
(***************************************************************************)
(* What the scope unit promises about an application, whoever starts it    *)
(* and however often: at most one copy runs at a time, each copy is one of *)
(* the processes launched, and one copy never takes over from another      *)
(* without the app having been down in between.                            *)
(***************************************************************************)
EXTENDS Integers

VARIABLES
    running,   \* the starttime of the copy that runs: a set of at most one
    launched   \* processes ever launched; each gets the next number

vars == <<running, launched>>

TypeOK == running \subseteq Nat /\ launched \in Nat

Init == running = {} /\ launched = 0

\* Something is launched: systemd-run, a helper, an unrelated process.
Launch ==
    /\ launched' = launched + 1
    /\ UNCHANGED running

\* systemd accepts the unit: what was launched becomes the app.
Up ==
    /\ running = {}
    /\ \E b \in 1..launched : running' = {b}
    /\ UNCHANGED launched

Down ==
    /\ running # {}
    /\ running' = {}
    /\ UNCHANGED launched

Next == Launch \/ Up \/ Down

Spec == Init /\ [][Next]_vars
=============================================================================
