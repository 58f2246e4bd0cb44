-------------------------- MODULE ProxySync_proofs --------------------------
(***************************************************************************)
(* Proofs about ProxySync for any apps, hosts, order and number of sweeps. *)
(* Everything rests on the lock: a sweep that is under way holds it, so    *)
(* nobody else moves the file between its comparison and its reload.       *)
(***************************************************************************)
EXTENDS ProxySync, TLAPS

Locked == \A s \in Sweeps : pc[s] # "idle" => lock = s

Unique(S) == \A a, b \in S : Host(a) = Host(b) => a = b

\* One handler per host, from the collection to the server.
UniqueAll ==
    /\ \A s \in Sweeps : Unique(seen[s])
    /\ file # NoFile => Unique(file)
    /\ Unique(loaded)

\* Until something has failed, a sweep that will not reload has nothing to.
Current(s) ==
    /\ pc[s] \in {"collect", "write"} => file \in {loaded, NoFile}
    /\ pc[s] \in {"retire", "reload"} => why[s] # {} \/ file = loaded
    /\ pc[s] = "clear" => file = loaded

Serving == failures = 0 => /\ lock = NoSweep => file \in {loaded, NoFile}
                           /\ \A s \in Sweeps : Current(s)

IInv == TypeOK /\ Locked /\ ReloadsWhatItCollected /\ UniqueAll /\ Serving

LEMMA InitInv == Init => IInv
<1> SUFFICES ASSUME Init PROVE IInv
  OBVIOUS
<1>1. TypeOK
  <2>1. Len(Order) \in Nat
    BY OrderAssumption DEF OrderAssumption
  <2>2. pc \in [Sweeps -> Steps] /\ at \in [Sweeps -> 1..(Len(Order) + 1)]
    BY <2>1 DEF Init, Steps
  <2>3. /\ seen \in [Sweeps -> SUBSET Apps]
        /\ why \in [Sweeps -> SUBSET {"written", "retired"}]
    BY DEF Init
  <2>4. file \in (SUBSET Apps) \cup {NoFile}
    <3>1. file = {} \/ file = NoFile
      BY Zenon DEF Init
    <3> QED  BY <3>1
  <2>5. legacy \in BOOLEAN /\ needed \in BOOLEAN
    BY Zenon DEF Init
  <2> QED  BY <2>2, <2>3, <2>4, <2>5 DEF Init, TypeOK
<1>2. Locked /\ ReloadsWhatItCollected /\ UniqueAll /\ Serving
  BY DEF Init, Locked, ReloadsWhatItCollected, UniqueAll, Unique, Serving, Current
<1> QED
  BY <1>1, <1>2 DEF IInv

\* Apps and commands move neither the file, nor the server, nor the lock.
LEMMA WorldInv ==
  ASSUME IInv,
         \/ \E a \in Apps : Serve(a) \/ Withhold(a) \/ Publish(a) \/ Withdraw(a)
         \/ Signal
         \/ UNCHANGED vars
  PROVE  IInv'
<1>1. UNCHANGED <<conf, sweep, failures>>
  BY DEF Serve, Withhold, Publish, Withdraw, Signal, vars
<1>2. TypeOK'
  <2>1. marker' \subseteq Routes /\ owed' \subseteq Routes
    BY DEF IInv, TypeOK, Routes, Serve, Withhold, Publish, Withdraw, Signal, vars, apps
  <2>2. sock' \subseteq Apps /\ needed' \in BOOLEAN
    BY DEF IInv, TypeOK, Serve, Withhold, Publish, Withdraw, Signal, vars, apps
  <2>3. changes' \in Nat
    BY DEF IInv, TypeOK, Serve, Withhold, Publish, Withdraw, Signal, vars, Change
  <2> QED  BY <1>1, <2>1, <2>2, <2>3 DEF IInv, TypeOK, conf, sweep
<1> QED
  BY <1>1, <1>2
  DEF IInv, Locked, ReloadsWhatItCollected, UniqueAll, Unique, Serving, Current, conf, sweep

\* A sweep that returns gives the lock up; what it leaves serving is for the
\* caller to say.
LEMMA ReturnInv ==
  ASSUME IInv, NEW s \in Sweeps, pc[s] # "idle", Return(s), UNCHANGED <<conf, apps, changes>>,
         needed' \in BOOLEAN, failures' \in Nat,
         failures' = 0 => failures = 0 /\ file = loaded
  PROVE  IInv'
<1>1. lock = s /\ \A t \in Sweeps : pc'[t] = "idle"
  BY NullsAssumption DEF IInv, TypeOK, Locked, Return, Goto, NullsAssumption
<1>2. TypeOK'
  <2>1. Len(Order) \in Nat
    BY OrderAssumption DEF OrderAssumption
  <2> QED  BY <2>1 DEF IInv, TypeOK, Return, Goto, Steps, conf, apps
<1>3. Locked' /\ ReloadsWhatItCollected'
  BY <1>1 DEF Locked, ReloadsWhatItCollected
<1>4. UniqueAll'
  BY DEF IInv, TypeOK, UniqueAll, Unique, Return, conf
<1>5. Serving'
  BY <1>1 DEF Serving, Current, conf
<1> QED
  BY <1>2, <1>3, <1>4, <1>5 DEF IInv

LEMMA SweepInv ==
  ASSUME IInv, NEW s \in Sweeps, SweepStep(s) \/ Killed(s)
  PROVE  IInv'
<1> USE OrderAssumption, NullsAssumption, BoundsAssumption
    DEF OrderAssumption, NullsAssumption, BoundsAssumption
<1>0. \A t \in Sweeps : pc[t] # "idle" /\ pc[s] # "idle" => t = s
  BY DEF IInv, Locked
<1>1. CASE Acquire(s)
  <2>1. \A t \in Sweeps : pc[t] = "idle"
    BY <1>1 DEF Acquire, IInv, Locked
  <2>2. TypeOK'
    BY <1>1 DEF Acquire, Goto, IInv, TypeOK, Steps, apps, conf
  <2>3. Locked' /\ ReloadsWhatItCollected' /\ UniqueAll' /\ Serving'
    BY <1>1, <2>1 DEF Acquire, Goto, IInv, TypeOK, Locked, ReloadsWhatItCollected, UniqueAll,
                      Unique, Serving, Current, conf
  <2> QED  BY <2>2, <2>3 DEF IInv
<1>2. CASE Collect(s)
  <2>1. Order[at[s]] \in Apps /\ at[s] + 1 \in 1..(Len(Order) + 1)
    BY <1>2 DEF Collect, IInv, TypeOK
  <2>2. TypeOK'
    BY <1>2, <2>1 DEF Collect, IInv, TypeOK, apps, conf
  <2>3. Unique(seen'[s])
    BY <1>2, <2>1 DEF Collect, Claims, IInv, TypeOK, UniqueAll, Unique
  <2>4. UniqueAll'
    BY <1>2, <2>3 DEF Collect, IInv, TypeOK, UniqueAll, Unique, conf
  <2>5. Locked' /\ ReloadsWhatItCollected' /\ Serving'
    BY <1>0, <1>2 DEF Collect, IInv, TypeOK, Locked, ReloadsWhatItCollected, Serving, Current, conf
  <2> QED  BY <2>2, <2>4, <2>5 DEF IInv
<1>3. CASE Collected(s)
  BY <1>0, <1>3 DEF Collected, Goto, IInv, TypeOK, Steps, Locked, ReloadsWhatItCollected,
                    UniqueAll, Unique, Serving, Current, apps, conf
<1>4. CASE WriteConfig(s)
  <2>1. CASE ~Differs(s) /\ Goto(s, "retire") /\ UNCHANGED <<file, lock, at, seen, why, failures>>
    <3>1. TypeOK'
      BY <1>4, <2>1 DEF WriteConfig, Goto, IInv, TypeOK, Steps, apps
    <3>2. Locked' /\ ReloadsWhatItCollected' /\ UniqueAll' /\ Serving'
      BY <1>0, <1>4, <2>1
      DEF WriteConfig, Differs, Goto, IInv, TypeOK, Locked, ReloadsWhatItCollected, UniqueAll,
          Unique, Serving, Current
    <3> QED  BY <3>1, <3>2 DEF IInv
  <2>2. CASE /\ file' = seen[s]
             /\ why' = [why EXCEPT ![s] = @ \cup {"written"}]
             /\ Goto(s, "retire") /\ UNCHANGED <<lock, at, seen, failures>>
    <3>1. TypeOK'
      BY <1>4, <2>2 DEF WriteConfig, Goto, IInv, TypeOK, Steps, apps
    <3>2. Locked' /\ ReloadsWhatItCollected' /\ UniqueAll' /\ Serving'
      BY <1>0, <1>4, <2>2
      DEF WriteConfig, Goto, IInv, TypeOK, Locked, ReloadsWhatItCollected, UniqueAll, Unique,
          Serving, Current
    <3> QED  BY <3>1, <3>2 DEF IInv
  <2>3. CASE Fail /\ Return(s) /\ UNCHANGED file
    BY <1>4, <2>3, ReturnInv DEF WriteConfig, Fail, IInv, TypeOK, conf
  <2> QED  BY <1>4, <2>1, <2>2, <2>3 DEF WriteConfig
<1>5. CASE Retire(s)
  <2>1. CASE /\ legacy' = FALSE
             /\ why' = [why EXCEPT ![s] = IF legacy THEN @ \cup {"retired"} ELSE @]
             /\ Goto(s, "reload") /\ UNCHANGED <<lock, at, seen, failures>>
    <3>1. TypeOK'
      BY <1>5, <2>1 DEF Retire, Goto, IInv, TypeOK, Steps, apps
    <3>2. Locked' /\ ReloadsWhatItCollected' /\ UniqueAll' /\ Serving'
      BY <1>0, <1>5, <2>1
      DEF Retire, Goto, IInv, TypeOK, Locked, ReloadsWhatItCollected, UniqueAll, Unique,
          Serving, Current
    <3> QED  BY <3>1, <3>2 DEF IInv
  <2>2. CASE Fail /\ Return(s) /\ UNCHANGED legacy
    <3>1. pc[s] = "retire" /\ UNCHANGED <<apps, needed, file, loaded, changes>>
      BY <1>5 DEF Retire
    <3>2. failures' = failures + 1 /\ failures \in Nat /\ needed \in BOOLEAN
      BY <2>2 DEF Fail, IInv, TypeOK
    <3>3. UNCHANGED <<conf, apps, changes>> /\ failures' \in Nat /\ failures' # 0
      BY <2>2, <3>1, <3>2 DEF conf
    <3> QED  BY <2>2, <3>1, <3>2, <3>3, ReturnInv
  <2> QED  BY <1>5, <2>1, <2>2 DEF Retire
<1>6. CASE Reload(s)
  <2>1. CASE ~NeedsReload(s) /\ Goto(s, "clear")
             /\ UNCHANGED <<loaded, lock, at, seen, why, failures>>
    BY <1>0, <1>6, <2>1
    DEF Reload, NeedsReload, Goto, IInv, TypeOK, Steps, Locked, ReloadsWhatItCollected,
        UniqueAll, Unique, Serving, Current, apps
  <2>2. CASE loaded' = file /\ Goto(s, "clear") /\ UNCHANGED <<lock, at, seen, why, failures>>
    <3>1. file = seen[s] /\ file # NoFile
      BY <1>6 DEF Reload, IInv, TypeOK, ReloadsWhatItCollected
    <3> QED
      BY <1>0, <1>6, <2>2, <3>1
      DEF Reload, Goto, IInv, TypeOK, Steps, Locked, ReloadsWhatItCollected, UniqueAll,
          Unique, Serving, Current, apps
  <2>3. CASE Fail /\ Return(s) /\ UNCHANGED loaded
    BY <1>6, <2>3, ReturnInv DEF Reload, Fail, IInv, TypeOK, conf
  <2> QED  BY <1>6, <2>1, <2>2, <2>3 DEF Reload
<1>7. CASE ClearMarker(s)
  <2>1. failures' = 0 => failures = 0 /\ file = loaded
    BY <1>7 DEF ClearMarker, IInv, Serving, Current
  <2> QED
    BY <1>7, <2>1, ReturnInv DEF ClearMarker, IInv, TypeOK
<1>8. CASE Killed(s)
  BY <1>8, ReturnInv DEF Killed, Fail, IInv, TypeOK
<1> QED
  BY <1>1, <1>2, <1>3, <1>4, <1>5, <1>6, <1>7, <1>8 DEF SweepStep

LEMMA Inductive == Spec => []IInv
<1>1. IInv /\ [Next]_vars => IInv'
  BY WorldInv, SweepInv DEF Next
<1> QED
  BY <1>1, InitInv, PTL DEF Spec

\* However many sweeps overlap, each reloads and clears the marker for the very
\* set it collected (sync, under Lock).
THEOREM SweepsDoNotMix == Spec => []ReloadsWhatItCollected
<1>1. IInv => ReloadsWhatItCollected
  BY DEF IInv
<1> QED
  BY <1>1, Inductive, PTL

\* Whatever hosts the accounts claim, the web server never reads two handlers
\* of one name (collect_live_apps).
THEOREM HandlersAreUnique == Spec => []OneHandlerPerHost
<1>1. IInv => OneHandlerPerHost
  BY DEF IInv, UniqueAll, Unique, OneHandlerPerHost
<1> QED
  BY <1>1, Inductive, PTL

\* Until something fails, comparing the handlers before writing never leaves
\* the server with an older set than the file's (sync).
THEOREM ServerFollowsFile == Spec => []ServesTheFile
<1>1. IInv => ServesTheFile
  BY DEF IInv, Serving, ServesTheFile
<1> QED
  BY <1>1, Inductive, PTL
=============================================================================
