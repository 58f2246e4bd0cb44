---------------------------- MODULE MCProxySync ----------------------------
(***************************************************************************)
(* The instances of ProxySync that TLC checks.  Account A has two apps on  *)
(* one host, so one marker file, and account B an app on the same host and *)
(* another on a host of its own.                                           *)
(***************************************************************************)
EXTENDS ProxySync, TLC

CONSTANTS a1, a2, b1, b2

FourApps == {a1, a2, b1, b2}
FourInOrder == <<a1, a2, b1, b2>>

ThreeApps == {a1, b1, b2}
ThreeInOrder == <<a1, b1, b2>>

HostOf(a) == IF a = b2 THEN "h2" ELSE "h1"

RouteOf(a) == <<IF a \in {a1, a2} THEN "A" ELSE "B", HostOf(a)>>

SweepSlots == Permutations(Sweeps)
=============================================================================
