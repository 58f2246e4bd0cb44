--------------------------- MODULE AppRun_proofs ---------------------------
(***************************************************************************)
(* Proofs about AppRun that hold for any number of invocations, processes, *)
(* births and faults: type correctness, what keeps concurrent starts of    *)
(* one app apart, and what the run files say of the app where its commands *)
(* run one at a time and none is cut short, but for what a start lets go.  *)
(***************************************************************************)
EXTENDS AppRun, TLAPS

\* Once the run files are being written the invocation has a child.
AfterSpawn == {"c_pid", "c_meta", "c_abort", "c_wait", "c_accept", "c_port",
               "c_giveup", "c_giveup_s", "c_clean", "c_clean_s", "c_pub", "c_en"}

HasChild == \A i \in Invs : pc[i] \in AfterSpawn => child[i] # NoPid

TypeInv == TypeOK /\ HasChild

-----------------------------------------------------------------------------
(* Types *)

LEMMA InitType == Init => TypeInv
<1> SUFFICES ASSUME Init PROVE TypeInv
  OBVIOUS
<1> USE DEF Init
<1>1. st \in [Pids -> ProcState] /\ born \in [Pids -> Nat] /\ cg \in [Pids -> BOOLEAN]
  BY DEF ProcState
<1>2. par \in [Pids -> Invs \cup Pids \cup {Pid1}]
  OBVIOUS
<1>3. pc \in [Invs -> Steps] /\ cmd \in [Invs -> CommandNames \cup {"none"}]
  BY DEF Steps
<1>4. child \in [Invs -> Pids \cup {NoPid}] /\ tgt \in [Invs -> SUBSET Pids]
  OBVIOUS
<1>5. HasChild
  BY DEF HasChild, AfterSpawn
<1>6. scopes \in BOOLEAN
  BY BoundsAssumption DEF BoundsAssumption
<1> QED
  BY <1>1, <1>2, <1>3, <1>4, <1>5, <1>6 DEF TypeInv, TypeOK

\* The process table stays well typed whatever the kernel does to it.
ProcType ==
    /\ births \in Nat
    /\ st \in [Pids -> ProcState] /\ born \in [Pids -> Nat]
    /\ par \in [Pids -> Invs \cup Pids \cup {Pid1}] /\ cg \in [Pids -> BOOLEAN]

LEMMA FreshType ==
  ASSUME ProcType, NEW p \in Pids, NEW state \in ProcState,
         NEW parent \in Invs \cup Pids \cup {Pid1}, NEW inscope \in BOOLEAN,
         Fresh(p, state, parent, inscope)
  PROVE  ProcType'
<1>1. births' \in Nat /\ born' \in [Pids -> Nat]
  BY DEF ProcType, Fresh
<1>2. st' \in [Pids -> ProcState]
  BY DEF ProcType, Fresh
<1>3. par' \in [Pids -> Invs \cup Pids \cup {Pid1}] /\ cg' \in [Pids -> BOOLEAN]
  BY DEF ProcType, Fresh
<1> QED
  BY <1>1, <1>2, <1>3 DEF ProcType

LEMMA KillType ==
  ASSUME ProcType, NEW S, Kill(S)
  PROVE  /\ st' \in [Pids -> ProcState] /\ born' \in [Pids -> Nat]
         /\ par' \in [Pids -> Invs \cup Pids \cup {Pid1}] /\ cg' \in [Pids -> BOOLEAN]
  BY DEF ProcType, Kill, ProcState

LEMMA LetGoType ==
  ASSUME TypeOK, NEW S \in SUBSET Pids, LetGo(S)
  PROVE  strays' \subseteq Nat
  BY DEF TypeOK, LetGo

\* What an invocation lets go of is its child.
LEMMA LetGoOfChild ==
  ASSUME TypeInv, NEW i \in Invs
  PROVE  /\ {child[i]} \ {NoPid} \in SUBSET Pids
         /\ pc[i] \in AfterSpawn => NotYetTheApp(i) \in SUBSET Pids
  BY DEF TypeInv, TypeOK, HasChild, NotYetTheApp

LEMMA StartType ==
  ASSUME TypeInv, NEW i \in Invs, StartStep(i)
  PROVE  TypeInv'
<1> USE PidsAssumption, BoundsAssumption
    DEF PidsAssumption, BoundsAssumption, TypeInv, TypeOK, HasChild, AfterSpawn, ProcState,
        Steps, StartSteps, At, Goto, files, procs, invs, world
<1>1. CASE StartLoad(i)       BY <1>1 DEF StartLoad
<1>2. CASE ScopeSpawn(i)
  <2>1. CASE \E p \in Pids : /\ Fresh(p, "exec", i, FALSE)
                            /\ child' = [child EXCEPT ![i] = p]
                            /\ Goto(i, "c_load")
    <3>1. PICK p \in Pids : Fresh(p, "exec", i, FALSE) /\ child' = [child EXCEPT ![i] = p]
      BY <2>1
    <3>2. ProcType  BY DEF ProcType
    <3>3. ProcType'  BY <3>1, <3>2, FreshType
    <3>4. child' \in [Invs -> Pids \cup {NoPid}]  BY <3>1
    <3>5. pc' \in [Invs -> Steps] /\ HasChild'  BY <2>1, <3>1
    <3> QED  BY <1>2, <3>3, <3>4, <3>5 DEF ScopeSpawn, ProcType
  <2>2. CASE Goto(i, "fail") /\ UNCHANGED <<procs, births, child>>
    BY <1>2, <2>2 DEF ScopeSpawn
  <2> QED  BY <1>2, <2>1, <2>2 DEF ScopeSpawn
<1>3. CASE CheckRunning(i)
  <2>1. strays' \subseteq Nat
    BY <1>3, LetGoType, LetGoOfChild DEF CheckRunning
  <2> QED  BY <1>3, <2>1 DEF CheckRunning
<1>4. CASE ClearRoute(i)      BY <1>4 DEF ClearRoute
<1>5. CASE BareSpawn(i)
  <2>1. CASE \E p \in Pids : /\ Fresh(p, "boot", i, FALSE)
                            /\ child' = [child EXCEPT ![i] = p]
                            /\ Goto(i, "c_pid")
    <3>1. PICK p \in Pids : Fresh(p, "boot", i, FALSE) /\ child' = [child EXCEPT ![i] = p]
      BY <2>1
    <3>2. ProcType  BY DEF ProcType
    <3>3. ProcType'  BY <3>1, <3>2, FreshType
    <3>4. child' \in [Invs -> Pids \cup {NoPid}]  BY <3>1
    <3>5. pc' \in [Invs -> Steps] /\ HasChild'  BY <2>1, <3>1
    <3> QED  BY <1>5, <3>3, <3>4, <3>5 DEF BareSpawn, ProcType
  <2>2. CASE Goto(i, "fail") /\ UNCHANGED <<procs, births, child>>
    BY <1>5, <2>2 DEF BareSpawn
  <2> QED  BY <1>5, <2>1, <2>2 DEF BareSpawn
<1>6. CASE WritePid(i)        BY <1>6 DEF WritePid
<1>7. CASE WriteMeta(i)       BY <1>7 DEF WriteMeta
<1>8. CASE AbortStart(i) \/ GiveUp(i)
  <2>1. ProcType  BY DEF ProcType
  <2>2. Kill(AsAccount({child[i]})) /\ LetGo(NotYetTheApp(i)) /\ pc[i] \in AfterSpawn
    BY <1>8 DEF AbortStart, GiveUp
  <2>3. strays' \subseteq Nat
    BY <2>2, LetGoType, LetGoOfChild
  <2>4. pc' \in [Invs -> Steps] /\ HasChild'
    BY <1>8 DEF AbortStart, GiveUp
  <2> QED  BY <1>8, <2>1, <2>2, <2>3, <2>4, KillType DEF AbortStart, GiveUp
<1>9. CASE WaitSocket(i)      BY <1>9 DEF WaitSocket
<1>10. CASE WaitAccept(i)
  <2>1. strays' \subseteq Nat
    BY <1>10, LetGoType, LetGoOfChild DEF WaitAccept
  <2> QED  BY <1>10, <2>1 DEF WaitAccept
<1>11. CASE RefusePort(i)     BY <1>11 DEF RefusePort
<1>13. CASE CleanupFailed(i)  BY <1>13 DEF CleanupFailed
<1>14. CASE PublishMarker(i)  BY <1>14 DEF PublishMarker
<1>15. CASE PublishEnabled(i) BY <1>15 DEF PublishEnabled
<1> QED
  BY <1>1, <1>2, <1>3, <1>4, <1>5, <1>6, <1>7, <1>8, <1>9, <1>10, <1>11,
     <1>13, <1>14, <1>15 DEF StartStep

LEMMA StopType ==
  ASSUME TypeInv, NEW i \in Invs, StopStep(i)
  PROVE  TypeInv'
<1> USE PidsAssumption, BoundsAssumption
    DEF PidsAssumption, BoundsAssumption, TypeInv, TypeOK, HasChild, AfterSpawn, ProcState,
        Steps, StartSteps, KillSteps, OtherSteps, At, Goto, files, procs, invs, world
<1>1. CASE StopCheck(i)           BY <1>1 DEF StopCheck
<1>2. CASE StopResolve(i)         BY <1>2 DEF StopResolve, AfterKill, Family, Running
<1>3. CASE RestartRead(i)         BY <1>3 DEF RestartRead, Family
<1>4. CASE SweepScan(i)           BY <1>4 DEF SweepScan, Scope
<1>5. CASE DropRoute(i)           BY <1>5 DEF DropRoute
<1>6. CASE Terminate(i)           BY <1>6 DEF Terminate, Kill, Reached, AsAccount, Live
<1>7. CASE AwaitExit(i)
  <2>1. ProcType  BY DEF ProcType
  <2>2. pc' \in [Invs -> Steps] /\ HasChild'  BY <1>7 DEF AwaitExit
  <2>3. CASE Kill(Reached(i))
    BY <1>7, <2>1, <2>2, <2>3, KillType DEF AwaitExit
  <2>4. CASE UNCHANGED procs
    BY <1>7, <2>2, <2>4 DEF AwaitExit
  <2> QED  BY <1>7, <2>3, <2>4 DEF AwaitExit
<1>8. CASE DropSocket(i)          BY <1>8 DEF DropSocket
<1>9. CASE DropPid(i)             BY <1>9 DEF DropPid
<1>10. CASE DropMeta(i)           BY <1>10 DEF DropMeta, AfterKill
<1>11. CASE DropIntent(i)         BY <1>11 DEF DropIntent
<1> QED
  BY <1>1, <1>2, <1>3, <1>4, <1>5, <1>6, <1>7, <1>8, <1>9, <1>10, <1>11 DEF StopStep

LEMMA RegistryType ==
  ASSUME TypeInv, NEW i \in Invs, RegistryStep(i)
  PROVE  TypeInv'
<1> USE PidsAssumption, BoundsAssumption
    DEF PidsAssumption, BoundsAssumption, TypeInv, TypeOK, HasChild, AfterSpawn, ProcState,
        Steps, StartSteps, KillSteps, OtherSteps, At, Goto, files, procs, invs, world
<1>1. CASE RemoveRegistration(i)
  <2>1. app' \in BOOLEAN  BY <1>1 DEF RemoveRegistration
  <2>2. pc' \in [Invs -> Steps] /\ HasChild'  BY <1>1 DEF RemoveRegistration
  <2>3. UNCHANGED <<pidf, metaf, enabled, marker, sock, procs, unit, births, cmd, child, tgt, world>>
    BY <1>1 DEF RemoveRegistration
  <2> QED  BY <2>1, <2>2, <2>3
<1>2. CASE RemoveRunState(i)      BY <1>2 DEF RemoveRunState
<1>3. CASE RemoveRoute(i)         BY <1>3 DEF RemoveRoute
<1>4. CASE AddCheck(i)            BY <1>4 DEF AddCheck
<1>5. CASE AddWrite(i)            BY <1>5 DEF AddWrite
<1>6. CASE BootScan(i)            BY <1>6 DEF BootScan
<1> QED
  BY <1>1, <1>2, <1>3, <1>4, <1>5, <1>6 DEF RegistryStep

LEMMA LeaveType ==
  ASSUME TypeInv, NEW i \in Invs, Leave(i)
  PROVE  /\ st' \in [Pids -> ProcState] /\ born' \in [Pids -> Nat]
         /\ par' \in [Pids -> Invs \cup Pids \cup {Pid1}] /\ cg' \in [Pids -> BOOLEAN]
         /\ pc' \in [Invs -> Steps] /\ cmd' \in [Invs -> CommandNames \cup {"none"}]
         /\ child' \in [Invs -> Pids \cup {NoPid}] /\ tgt' \in [Invs -> SUBSET Pids]
         /\ HasChild'
<1> USE DEF TypeInv, TypeOK, Leave
<1>1. st' \in [Pids -> ProcState] /\ born' \in [Pids -> Nat]
  BY DEF ProcState
<1>2. par' \in [Pids -> Invs \cup Pids \cup {Pid1}] /\ cg' \in [Pids -> BOOLEAN]
  OBVIOUS
<1>3. pc' \in [Invs -> Steps] /\ cmd' \in [Invs -> CommandNames \cup {"none"}]
  BY DEF Steps
<1>4. child' \in [Invs -> Pids \cup {NoPid}] /\ tgt' \in [Invs -> SUBSET Pids]
  OBVIOUS
<1>5. HasChild'
  BY DEF HasChild, AfterSpawn
<1> QED
  BY <1>1, <1>2, <1>3, <1>4, <1>5

\* Beginning, ending and cutting short an invocation.
LEMMA InvocationType ==
  ASSUME TypeInv,
         \/ \E i \in Invs, c \in Commands : Begin(i, c)
         \/ \E i \in Invs : End(i) \/ CutShort(i)
  PROVE  TypeInv'
<1>1. ASSUME NEW i \in Invs, NEW c \in Commands, Begin(i, c)
      PROVE  TypeInv'
  <2>1. c \in CommandNames
    BY BoundsAssumption DEF BoundsAssumption
  <2>2. FirstStep[c] \in Steps /\ FirstStep[c] \notin AfterSpawn
    BY <2>1 DEF CommandNames, FirstStep, Steps, StartSteps, KillSteps, OtherSteps, AfterSpawn
  <2>3. pc' \in [Invs -> Steps] /\ cmd' \in [Invs -> CommandNames \cup {"none"}] /\ HasChild'
    BY <1>1, <2>1, <2>2 DEF Begin, Goto, TypeInv, TypeOK, HasChild
  <2> QED
    BY <1>1, <2>3 DEF Begin, TypeInv, TypeOK, files, procs
<1>2. ASSUME NEW i \in Invs, End(i)
      PROVE  TypeInv'
  BY <1>2, LeaveType DEF End, TypeInv, TypeOK, files, world
<1>3. ASSUME NEW i \in Invs, CutShort(i)
      PROVE  TypeInv'
  BY <1>3, LeaveType DEF CutShort, TypeInv, TypeOK, files
<1> QED
  BY <1>1, <1>2, <1>3

LEMMA EnvironmentType ==
  ASSUME TypeInv, Environment
  PROVE  TypeInv'
<1>0. ProcType
  BY DEF TypeInv, TypeOK, ProcType
<1>1. ASSUME NEW p \in Pids, Register(p)
      PROVE  TypeInv'
  <2>1. CASE Kill({p}) /\ UNCHANGED unit
    BY <1>0, <1>1, <2>1, KillType DEF Register, TypeInv, TypeOK, HasChild, files, invs, world
  <2>2. CASE /\ unit' = TRUE
             /\ st' = [st EXCEPT ![p] = "boot"] /\ cg' = [cg EXCEPT ![p] = TRUE]
             /\ UNCHANGED <<born, par>>
    BY <1>1, <2>2 DEF Register, TypeInv, TypeOK, HasChild, ProcState, files, invs, world
  <2> QED
    BY <1>1, <2>1, <2>2 DEF Register
<1>2. ASSUME NEW p \in Pids, Listen(p)
      PROVE  TypeInv'
  BY <1>2 DEF Listen, TypeInv, TypeOK, HasChild, ProcState, invs, world
<1>3. ASSUME NEW p \in Pids, Exit(p)
      PROVE  TypeInv'
  BY <1>0, <1>3, KillType DEF Exit, TypeInv, TypeOK, HasChild, invs, world
<1>4. ASSUME NEW p \in Pids, Stranger(p)
      PROVE  TypeInv'
  <2>1. ProcType'
    BY <1>0, <1>4, FreshType DEF Stranger, ProcState
  <2> QED
    BY <1>4, <2>1 DEF Stranger, ProcType, TypeInv, TypeOK, HasChild, files, invs, world
<1>5. ASSUME NEW p \in Pids, NEW q \in Pids, Fork(p, q)
      PROVE  TypeInv'
  <2>1. ProcType'
    BY <1>0, <1>5, FreshType DEF Fork, ProcState, ProcType
  <2> QED
    BY <1>5, <2>1 DEF Fork, ProcType, TypeInv, TypeOK, HasChild, files, invs, world
<1>6. CASE CollectUnit
  BY <1>6 DEF CollectUnit, TypeInv, TypeOK, HasChild, files, procs, invs, world
<1>7. CASE Reboot
  <2>1. st' \in [Pids -> ProcState] /\ born' \in [Pids -> Nat]
    BY <1>7 DEF Reboot, ProcState
  <2>2. par' \in [Pids -> Invs \cup Pids \cup {Pid1}] /\ cg' \in [Pids -> BOOLEAN]
    BY <1>7 DEF Reboot
  <2>3. pc' \in [Invs -> Steps] /\ cmd' \in [Invs -> CommandNames \cup {"none"}]
    BY <1>7 DEF Reboot, Steps
  <2>4. child' \in [Invs -> Pids \cup {NoPid}] /\ tgt' \in [Invs -> SUBSET Pids]
    BY <1>7 DEF Reboot
  <2>5. HasChild'
    BY <1>7 DEF Reboot, HasChild, AfterSpawn
  <2>6. torn' = (torn \/ InFlight # {}) /\ due' = TRUE /\ unit' = FALSE
    BY <1>7 DEF Reboot
  <2>7. torn' \in BOOLEAN /\ due' \in BOOLEAN /\ unit' \in BOOLEAN
    BY <2>6, Zenon
  <2>8. faults' \in Nat
    BY <1>7 DEF Reboot, TypeInv, TypeOK
  <2>9. UNCHANGED <<app, pidf, metaf, enabled, marker, sock, births, strays, scopes>>
    BY <1>7 DEF Reboot, files
  <2> QED
    BY <2>1, <2>2, <2>3, <2>4, <2>5, <2>7, <2>8, <2>9 DEF TypeInv, TypeOK
<1> QED
  BY <1>1, <1>2, <1>3, <1>4, <1>5, <1>6, <1>7 DEF Environment

LEMMA NextType ==
  ASSUME TypeInv, [Next]_vars
  PROVE  TypeInv'
<1>1. CASE Next
  BY <1>1, StartType, StopType, RegistryType, InvocationType, EnvironmentType DEF Next, Step
<1>2. CASE UNCHANGED vars
  BY <1>2 DEF vars, files, procs, invs, world, TypeInv, TypeOK, HasChild
<1> QED
  BY <1>1, <1>2

\* Every file, process and step of an invocation is one the code can have, and
\* an invocation that writes the run files has the process they are about.
THEOREM TypeCorrect == Spec => []TypeOK
<1>1. Spec => []TypeInv
  BY InitType, NextType, PTL DEF Spec
<1>2. TypeInv => TypeOK
  BY DEF TypeInv
<1> QED
  BY <1>1, <1>2, PTL

-----------------------------------------------------------------------------
(* What a step may do to the processes *)

Spawned(i, p) ==
    /\ Fresh(p, "exec", i, FALSE) \/ Fresh(p, "boot", i, FALSE)
    /\ child' = [child EXCEPT ![i] = p]
    /\ UNCHANGED unit

Registered(p) ==
    /\ st[p] = "exec" /\ ~unit /\ unit' = TRUE
    /\ st' = [st EXCEPT ![p] = "boot"] /\ cg' = [cg EXCEPT ![p] = TRUE]
    /\ UNCHANGED <<born, par, births, child>>

Listened(p) ==
    /\ st[p] = "boot"
    /\ st' = [st EXCEPT ![p] = "up"]
    /\ UNCHANGED <<born, par, cg, unit, births, child>>

Forked(p, q) == IsApp(p) /\ Fresh(q, "helper", p, cg[p]) /\ UNCHANGED <<unit, child>>

Appeared(p) == Fresh(p, "kin", Pid1, FALSE) /\ UNCHANGED <<unit, child>>

Killed == (\E S \in SUBSET Pids : Kill(S)) /\ UNCHANGED <<unit, births, child>>

Left(i) == Leave(i) /\ UNCHANGED <<unit, births>>

ProcessStep ==
    \/ UNCHANGED <<procs, unit, births, child>>
    \/ Killed
    \/ \E i \in Invs : Left(i)
    \/ \E i \in Invs, p \in Pids : Spawned(i, p)
    \/ \E p \in Pids : Registered(p) \/ Listened(p) \/ Appeared(p)
    \/ \E p, q \in Pids : Forked(p, q)
    \/ CollectUnit
    \/ Reboot

LEMMA StartProcesses ==
  ASSUME TypeInv, NEW i \in Invs, StartStep(i)
  PROVE  ProcessStep
<1> USE DEF procs, ProcessStep
<1>1. CASE StartLoad(i)       BY <1>1 DEF StartLoad
<1>2. CASE ScopeSpawn(i)      BY <1>2 DEF ScopeSpawn, Spawned
<1>3. CASE CheckRunning(i)    BY <1>3 DEF CheckRunning
<1>4. CASE ClearRoute(i)      BY <1>4 DEF ClearRoute
<1>5. CASE BareSpawn(i)       BY <1>5 DEF BareSpawn, Spawned
<1>6. CASE WritePid(i)        BY <1>6 DEF WritePid
<1>7. CASE WriteMeta(i)       BY <1>7 DEF WriteMeta
<1>8. CASE AbortStart(i)
  <2>1. child[i] \in Pids
    BY <1>8 DEF AbortStart, At, TypeInv, TypeOK, HasChild, AfterSpawn
  <2> QED  BY <1>8, <2>1 DEF AbortStart, AsAccount, Killed
<1>9. CASE WaitSocket(i)      BY <1>9 DEF WaitSocket
<1>10. CASE WaitAccept(i)     BY <1>10 DEF WaitAccept
<1>11. CASE RefusePort(i)     BY <1>11 DEF RefusePort
<1>12. CASE GiveUp(i)
  <2>1. child[i] \in Pids
    BY <1>12 DEF GiveUp, TypeInv, TypeOK, HasChild, AfterSpawn
  <2> QED  BY <1>12, <2>1 DEF GiveUp, AsAccount, Killed
<1>13. CASE CleanupFailed(i)  BY <1>13 DEF CleanupFailed
<1>14. CASE PublishMarker(i)  BY <1>14 DEF PublishMarker
<1>15. CASE PublishEnabled(i) BY <1>15 DEF PublishEnabled
<1> QED
  BY <1>1, <1>2, <1>3, <1>4, <1>5, <1>6, <1>7, <1>8, <1>9, <1>10, <1>11, <1>12,
     <1>13, <1>14, <1>15 DEF StartStep

LEMMA StopProcesses ==
  ASSUME TypeInv, NEW i \in Invs, StopStep(i)
  PROVE  ProcessStep
<1> USE DEF procs, ProcessStep
<1>1. CASE StopCheck(i)       BY <1>1 DEF StopCheck
<1>2. CASE StopResolve(i)     BY <1>2 DEF StopResolve
<1>3. CASE RestartRead(i)     BY <1>3 DEF RestartRead
<1>4. CASE SweepScan(i)       BY <1>4 DEF SweepScan
<1>5. CASE DropRoute(i)       BY <1>5 DEF DropRoute
<1>6. CASE Terminate(i)
  <2>1. Reached(i) \subseteq Pids  BY DEF Reached, AsAccount, TypeInv, TypeOK
  <2> QED  BY <1>6, <2>1 DEF Terminate, Killed
<1>7. CASE AwaitExit(i)
  <2>1. Reached(i) \subseteq Pids  BY DEF Reached, AsAccount, TypeInv, TypeOK
  <2> QED  BY <1>7, <2>1 DEF AwaitExit, Killed
<1>8. CASE DropSocket(i)      BY <1>8 DEF DropSocket
<1>9. CASE DropPid(i)         BY <1>9 DEF DropPid
<1>10. CASE DropMeta(i)       BY <1>10 DEF DropMeta
<1>11. CASE DropIntent(i)     BY <1>11 DEF DropIntent
<1> QED
  BY <1>1, <1>2, <1>3, <1>4, <1>5, <1>6, <1>7, <1>8, <1>9, <1>10, <1>11 DEF StopStep

LEMMA RegistryProcesses ==
  ASSUME NEW i \in Invs, RegistryStep(i)
  PROVE  ProcessStep
  BY DEF RegistryStep, RemoveRegistration, RemoveRunState, RemoveRoute, AddCheck, AddWrite,
         BootScan, procs, ProcessStep

LEMMA EnvironmentProcesses ==
  ASSUME Environment
  PROVE  ProcessStep
<1> USE DEF ProcessStep
<1>1. ASSUME NEW p \in Pids, Register(p)  PROVE ProcessStep
  <2>1. CASE unit
    BY <1>1, <2>1 DEF Register, Killed, invs
  <2>2. CASE ~unit
    BY <1>1, <2>2 DEF Register, Registered, invs
  <2> QED  BY <2>1, <2>2
<1>2. ASSUME NEW p \in Pids, Listen(p)    PROVE ProcessStep
  BY <1>2 DEF Listen, Listened, invs
<1>3. ASSUME NEW p \in Pids, Exit(p)      PROVE ProcessStep
  BY <1>3 DEF Exit, Killed, invs
<1>4. ASSUME NEW p \in Pids, Stranger(p)  PROVE ProcessStep
  BY <1>4 DEF Stranger, Appeared, invs
<1>5. ASSUME NEW p \in Pids, NEW q \in Pids, Fork(p, q)  PROVE ProcessStep
  BY <1>5 DEF Fork, Forked, invs
<1> QED
  BY <1>1, <1>2, <1>3, <1>4, <1>5 DEF Environment

LEMMA NextProcesses ==
  ASSUME TypeInv, [Next]_vars
  PROVE  ProcessStep
<1>1. CASE \E i \in Invs, c \in Commands : Begin(i, c)
  BY <1>1 DEF Begin, ProcessStep
<1>2. CASE \E i \in Invs : End(i) \/ CutShort(i)
  BY <1>2 DEF End, CutShort, Left, ProcessStep
<1>3. CASE UNCHANGED vars
  BY <1>3 DEF vars, invs, ProcessStep
<1> QED
  BY <1>1, <1>2, <1>3, StartProcesses, StopProcesses, RegistryProcesses,
     EnvironmentProcesses DEF Next, Step

-----------------------------------------------------------------------------
(* The invariant of the process table *)

\* Only what systemd registered under the unit is in its cgroup, and while it
\* is there the unit is loaded.
ScopeLoaded ==
    \A p \in Pids : cg[p] => unit /\ st[p] \in {"boot", "up", "helper"}

Numbered == \A p \in Pids : st[p] # "free" => born[p] \in 1..births

ProcInv == ChildIsHeld /\ ScopeLoaded /\ OneAppPerScope /\ Numbered

IInv == TypeInv /\ ProcInv

LEMMA InitProc == Init => ProcInv
  BY DEF Init, ProcInv, ChildIsHeld, ScopeLoaded, OneAppPerScope, Numbered

LEMMA KillKeeps ==
  ASSUME IInv, Killed
  PROVE  ProcInv'
<1>1. PICK S \in SUBSET Pids : Kill(S)
  BY DEF Killed
<1> USE <1>1 DEF IInv, TypeInv, TypeOK, ProcInv, Killed, Kill, Live
<1>2. ChildIsHeld'
  BY PidsAssumption DEF ChildIsHeld, PidsAssumption
<1>3. ScopeLoaded'
  BY DEF ScopeLoaded
<1>4. OneAppPerScope'
  BY DEF OneAppPerScope, IsApp, ScopeLoaded
<1>5. Numbered'
  BY DEF Numbered
<1> QED
  BY <1>2, <1>3, <1>4, <1>5

LEMMA LeaveKeeps ==
  ASSUME IInv, NEW i \in Invs, Left(i)
  PROVE  ProcInv'
<1> USE DEF IInv, TypeInv, TypeOK, ProcInv, Left, Leave
<1>1. ChildIsHeld'
  BY DEF ChildIsHeld
<1>2. ScopeLoaded'
  BY DEF ScopeLoaded
<1>3. OneAppPerScope'
  BY DEF OneAppPerScope, IsApp
<1>4. Numbered'
  BY DEF Numbered
<1> QED
  BY <1>1, <1>2, <1>3, <1>4

\* A new process that is not a copy of the app in the scope disturbs nothing.
LEMMA FreshKeeps ==
  ASSUME IInv, NEW p \in Pids, NEW state \in ProcState \ {"free"},
         NEW parent, NEW inscope \in BOOLEAN,
         Fresh(p, state, parent, inscope), UNCHANGED unit,
         inscope => unit /\ state = "helper"
  PROVE  ScopeLoaded' /\ OneAppPerScope' /\ Numbered'
<1> USE DEF IInv, TypeInv, TypeOK, ProcInv, Fresh
<1>1. ScopeLoaded'
  BY DEF ScopeLoaded
<1>2. OneAppPerScope'
  BY DEF OneAppPerScope, IsApp
<1>3. Numbered'
  BY DEF Numbered
<1> QED
  BY <1>1, <1>2, <1>3

LEMMA ProcessesKept ==
  ASSUME IInv, ProcessStep
  PROVE  ProcInv'
<1>1. CASE UNCHANGED <<procs, unit, births, child>>
  BY <1>1 DEF procs, IInv, ProcInv, ChildIsHeld, ScopeLoaded, OneAppPerScope, Numbered, IsApp
<1>2. ASSUME NEW i \in Invs, NEW p \in Pids, Spawned(i, p)
      PROVE  ProcInv'
  <2>1. PICK state \in {"exec", "boot"} : Fresh(p, state, i, FALSE)
    BY <1>2 DEF Spawned
  <2>2. ScopeLoaded' /\ OneAppPerScope' /\ Numbered'
    BY <1>2, <2>1, FreshKeeps DEF Spawned, ProcState
  <2>3. ChildIsHeld'
    BY <1>2, <2>1 DEF Spawned, Fresh, ChildIsHeld, IInv, TypeInv, TypeOK, ProcInv
  <2> QED  BY <2>2, <2>3 DEF ProcInv
<1>3. ASSUME NEW p \in Pids, Registered(p)
      PROVE  ProcInv'
  <2> USE <1>3 DEF Registered, IInv, TypeInv, TypeOK, ProcInv, ScopeLoaded
  <2>1. ChildIsHeld'
    BY DEF ChildIsHeld
  <2>2. ScopeLoaded' /\ OneAppPerScope'
    BY DEF OneAppPerScope
  <2>3. Numbered'
    BY DEF Numbered
  <2> QED  BY <2>1, <2>2, <2>3
<1>4. ASSUME NEW p \in Pids, Listened(p)
      PROVE  ProcInv'
  BY <1>4 DEF Listened, IInv, TypeInv, TypeOK, ProcInv, ScopeLoaded, ChildIsHeld,
              OneAppPerScope, IsApp, Numbered
<1>5. ASSUME NEW p \in Pids, Appeared(p)
      PROVE  ProcInv'
  <2>1. ScopeLoaded' /\ OneAppPerScope' /\ Numbered'
    BY <1>5, FreshKeeps DEF Appeared, ProcState
  <2>2. ChildIsHeld'
    BY <1>5 DEF Appeared, Fresh, ChildIsHeld, IInv, TypeInv, TypeOK, ProcInv
  <2> QED  BY <2>1, <2>2 DEF ProcInv
<1>6. ASSUME NEW p \in Pids, NEW q \in Pids, Forked(p, q)
      PROVE  ProcInv'
  <2>1. cg[p] \in BOOLEAN /\ (cg[p] => unit)
    BY DEF IInv, TypeInv, TypeOK, ProcInv, ScopeLoaded
  <2>2. ScopeLoaded' /\ OneAppPerScope' /\ Numbered'
    BY <1>6, <2>1, FreshKeeps DEF Forked, ProcState
  <2>3. ChildIsHeld'
    BY <1>6 DEF Forked, Fresh, ChildIsHeld, IInv, TypeInv, TypeOK, ProcInv
  <2> QED  BY <2>2, <2>3 DEF ProcInv
<1>7. CASE CollectUnit
  BY <1>7 DEF CollectUnit, Scope, procs, invs, IInv, ProcInv, ChildIsHeld, ScopeLoaded,
              OneAppPerScope, Numbered, IsApp
<1>8. CASE Reboot
  BY <1>8 DEF Reboot, ProcInv, ChildIsHeld, ScopeLoaded, OneAppPerScope, Numbered
<1> QED
  BY <1>1, <1>2, <1>3, <1>4, <1>5, <1>6, <1>7, <1>8, KillKeeps, LeaveKeeps DEF ProcessStep

LEMMA Inductive == Spec => []IInv
<1>1. Init => IInv
  BY InitType, InitProc DEF IInv
<1>2. IInv /\ [Next]_vars => IInv'
  BY NextType, NextProcesses, ProcessesKept DEF IInv
<1> QED
  BY <1>1, <1>2, PTL DEF Spec

\* However many starts, stops and sweeps overlap, the number a start signals
\* when it gives up still belongs to the process it spawned (start.rs, which
\* never waits on it, nor checks it before kill).
THEOREM ChildHeld == Spec => []ChildIsHeld
<1>1. IInv => ChildIsHeld
  BY DEF IInv, ProcInv
<1> QED
  BY <1>1, Inductive, PTL

\* However many starts overlap, with no lock between them, the unit name
\* wrap_in_scope gives systemd keeps the app to one copy in its scope.
THEOREM OneAppInScope == Spec => []OneAppPerScope
<1>1. IInv => OneAppPerScope
  BY DEF IInv, ProcInv
<1> QED
  BY <1>1, Inductive, PTL

-----------------------------------------------------------------------------
(* AppRun implements AppInstance *)

Copies == {q \in Pids : IsApp(q) /\ cg[q]}

Launched == {born[p] : p \in Copies}

\* At most one copy: what is left of the copies is all of them or none.
LEMMA CopiesShrink ==
  ASSUME IInv, Copies' \subseteq Copies, \A p \in Copies' : born'[p] = born[p]
  PROVE  Launched' = Launched \/ (Launched # {} /\ Launched' = {})
<1>1. \A p, q \in Copies : p = q
  BY DEF Copies, IInv, ProcInv, OneAppPerScope
<1>2. CASE Copies' = {}
  BY <1>2 DEF Launched
<1>3. CASE Copies' # {}
  <2>1. Copies' = Copies
    BY <1>1, <1>3
  <2> QED  BY <2>1 DEF Launched
<1> QED
  BY <1>2, <1>3

\* A process that does not enter the scope as the app adds no copy.
LEMMA FreshIsNoCopy ==
  ASSUME IInv, NEW p \in Pids, NEW state \in ProcState, NEW parent, NEW inscope \in BOOLEAN,
         Fresh(p, state, parent, inscope), inscope => state = "helper"
  PROVE  Launched' = Launched
<1> USE DEF Fresh, IInv, TypeInv, TypeOK
<1>1. p \notin Copies /\ p \notin Copies'
  BY DEF Copies, IsApp
<1>2. Copies' = Copies
  BY <1>1 DEF Copies, IsApp
<1>3. \A q \in Copies : born'[q] = born[q]
  BY <1>1 DEF Copies
<1> QED
  BY <1>2, <1>3 DEF Launched

LEMMA InstanceStep ==
  ASSUME IInv, ProcessStep
  PROVE  \/ UNCHANGED <<Launched, births>>
         \/ UNCHANGED Launched /\ births' = births + 1
         \/ Launched = {} /\ (\E b \in 1..births : Launched' = {b}) /\ UNCHANGED births
         \/ Launched # {} /\ Launched' = {} /\ UNCHANGED births
<1>1. CASE UNCHANGED <<procs, unit, births, child>>
  BY <1>1 DEF procs, Launched, Copies, IsApp
<1>2. CASE Killed
  <2>1. Copies' \subseteq Copies /\ \A p \in Copies' : born'[p] = born[p]
    BY <1>2 DEF Killed, Kill, Live, Copies, IsApp, IInv, TypeInv, TypeOK
  <2> QED  BY <1>2, <2>1, CopiesShrink DEF Killed
<1>3. ASSUME NEW i \in Invs, Left(i)
      PROVE  UNCHANGED <<Launched, births>>
  <2>1. Copies' = Copies /\ \A p \in Copies : born'[p] = born[p]
    BY <1>3 DEF Left, Leave, Copies, IsApp, IInv, TypeInv, TypeOK
  <2> QED  BY <1>3, <2>1 DEF Left, Launched
<1>4. ASSUME NEW i \in Invs, NEW p \in Pids, Spawned(i, p)
      PROVE  UNCHANGED Launched /\ births' = births + 1
  BY <1>4, FreshIsNoCopy DEF Spawned, Fresh, ProcState
<1>5. ASSUME NEW p \in Pids, Registered(p)
      PROVE  Launched = {} /\ (\E b \in 1..births : Launched' = {b}) /\ UNCHANGED births
  <2>1. Copies = {}
    BY <1>5 DEF Registered, Copies, IInv, ProcInv, ScopeLoaded
  <2>2. Copies' = {p}
    BY <1>5, <2>1 DEF Registered, Copies, IsApp, IInv, TypeInv, TypeOK
  <2>3. born' = born /\ born[p] \in 1..births
    BY <1>5 DEF Registered, IInv, ProcInv, Numbered
  <2>4. Launched = {} /\ Launched' = {born[p]}
    BY <2>1, <2>2, <2>3 DEF Launched
  <2> QED  BY <1>5, <2>3, <2>4 DEF Registered
<1>6. ASSUME NEW p \in Pids, Listened(p)
      PROVE  UNCHANGED <<Launched, births>>
  <2>1. Copies' = Copies /\ born' = born
    BY <1>6 DEF Listened, Copies, IsApp, IInv, TypeInv, TypeOK
  <2> QED  BY <1>6, <2>1 DEF Listened, Launched
<1>7. ASSUME NEW p \in Pids, Appeared(p)
      PROVE  UNCHANGED Launched /\ births' = births + 1
  BY <1>7, FreshIsNoCopy DEF Appeared, Fresh, ProcState
<1>8. ASSUME NEW p \in Pids, NEW q \in Pids, Forked(p, q)
      PROVE  UNCHANGED Launched /\ births' = births + 1
  <2>1. cg[p] \in BOOLEAN
    BY DEF IInv, TypeInv, TypeOK
  <2> QED  BY <1>8, <2>1, FreshIsNoCopy DEF Forked, Fresh, ProcState
<1>9. CASE CollectUnit
  BY <1>9 DEF CollectUnit, procs, Launched, Copies, IsApp
<1>10. CASE Reboot
  <2>1. Copies' = {}
    BY <1>10 DEF Reboot, Copies
  <2> QED  BY <1>10, <2>1, CopiesShrink DEF Reboot
<1> QED
  BY <1>1, <1>2, <1>3, <1>4, <1>5, <1>6, <1>7, <1>8, <1>9, <1>10 DEF ProcessStep

\* The life of the app in its scope is AppInstance's: one copy at a time, each
\* a new process, and never handed from one to another without a stop.
THEOREM ImplementsInstance == Spec => OneInstance
<1>1. Init => Instance!Init
  <2> SUFFICES ASSUME Init PROVE Instance!Init
    OBVIOUS
  <2>1. Copies = {} /\ births = 0
    BY DEF Init, Copies
  <2> QED  BY <2>1 DEF Instance!Init, Copies
<1>2. IInv /\ [Next]_vars => [Instance!Next]_(Instance!vars)
  <2> SUFFICES ASSUME IInv, [Next]_vars
               PROVE  [Instance!Next]_(Instance!vars)
    OBVIOUS
  <2>1. ProcessStep
    BY NextProcesses DEF IInv
  <2> QED
    BY <2>1, InstanceStep
    DEF Launched, Copies, Instance!Next, Instance!Launch, Instance!Up, Instance!Down,
        Instance!vars
<1> QED
  BY <1>1, <1>2, Inductive, PTL DEF Spec, OneInstance, Instance!Spec

-----------------------------------------------------------------------------
(* Commands that ran one at a time: the properties under Settled, and that  *)
(* stop leaves nothing running.  They hold for any number of invocations,   *)
(* until two overlap or one is cut short, of every process but those a      *)
(* start has let go of (strays).                                            *)

-----------------------------------------------------------------------------
(* The shape of the process table, whatever runs at the same time *)

\* A start time is a process's own.
Distinct == \A p, q \in Pids : Exists(p) /\ Exists(q) /\ born[p] = born[q] => p = q

\* `.meta` never has the start time of a process that is not the app's.
NotOthers ==
    metaf <= births /\ \A p \in Pids : st[p] \in {"helper", "kin"} => born[p] # metaf

\* An invocation is the parent of its child and of nothing else, and what is dead
\* and not waited for is such a child.
Parents == \A p \in Pids : par[p] \in Invs => child[par[p]] = p
Unwaited == \A p \in Pids : st[p] \in {"zombie", "defunct"} => par[p] \in Invs

\* Where systemd-run is of no use nothing is ever in the scope.
Bare == ~scopes => \A p \in Pids : ~cg[p] /\ st[p] # "exec"

\* The steps at which an invocation may have a child.
MayHaveChild == AfterSpawn \cup {"c_load", "c_clear", "ok", "fail"}
Childless ==
    \A i \in Invs : /\ child[i] # NoPid => pc[i] \in MayHaveChild
                    /\ pc[i] = "s_spawn" => scopes

\* What a start has let go of is a process that has been.
Counted == strays \subseteq 1..births

Structure ==
    Distinct /\ NotOthers /\ Parents /\ Unwaited /\ Bare /\ Childless /\ Counted

LEMMA InitStructure == Init => Structure
  BY PidsAssumption, BoundsAssumption
  DEF Init, Structure, Distinct, Exists, NotOthers, Parents, Unwaited, Bare, Childless, Counted

\* What a step of an invocation does to the invocations.
LEMMA StepIsLocal ==
  ASSUME TypeInv, Childless, NEW i \in Invs, StartStep(i) \/ StopStep(i) \/ RegistryStep(i)
  PROVE  /\ pc[i] \notin {"idle", "ok", "fail"} /\ pc'[i] # "idle"
         /\ \A j \in Invs \ {i} : pc'[j] = pc[j] /\ child'[j] = child[j] /\ tgt'[j] = tgt[j]
         /\ cmd' = cmd /\ torn' = torn /\ scopes' = scopes
         /\ child' = child \/ child[i] = NoPid
         /\ child'[i] # NoPid => pc'[i] \in MayHaveChild
         /\ pc'[i] = "s_spawn" => scopes
<1> USE DEF TypeInv, TypeOK, Childless, MayHaveChild, AfterSpawn, HasChild, At, Goto, world
<1>1. CASE StartStep(i)
  <2>1. CASE StartLoad(i) \/ CheckRunning(i) \/ ClearRoute(i) \/ WritePid(i) \/ WriteMeta(i)
    BY <2>1 DEF StartLoad, CheckRunning, ClearRoute, WritePid, WriteMeta
  <2>2. CASE ScopeSpawn(i) \/ BareSpawn(i)
    BY <2>2 DEF ScopeSpawn, BareSpawn
  <2>3. CASE AbortStart(i) \/ WaitSocket(i) \/ WaitAccept(i) \/ RefusePort(i) \/ GiveUp(i)
    BY <2>3 DEF AbortStart, WaitSocket, WaitAccept, RefusePort, GiveUp
  <2>4. CASE CleanupFailed(i) \/ PublishMarker(i) \/ PublishEnabled(i)
    BY <2>4 DEF CleanupFailed, PublishMarker, PublishEnabled
  <2> QED  BY <1>1, <2>1, <2>2, <2>3, <2>4 DEF StartStep
<1>2. CASE StopStep(i)
  <2>1. CASE StopCheck(i) \/ StopResolve(i) \/ RestartRead(i) \/ SweepScan(i)
    BY <2>1 DEF StopCheck, StopResolve, RestartRead, SweepScan, AfterKill
  <2>2. CASE DropRoute(i) \/ Terminate(i) \/ AwaitExit(i) \/ DropSocket(i)
    BY <2>2 DEF DropRoute, Terminate, AwaitExit, DropSocket
  <2>3. CASE DropPid(i) \/ DropMeta(i) \/ DropIntent(i)
    BY <2>3 DEF DropPid, DropMeta, DropIntent, AfterKill
  <2> QED  BY <1>2, <2>1, <2>2, <2>3 DEF StopStep
<1>3. CASE RegistryStep(i)
  BY <1>3 DEF RegistryStep, RemoveRegistration, RemoveRunState, RemoveRoute, AddCheck,
              AddWrite, BootScan
<1> QED
  BY <1>1, <1>2, <1>3

\* The environment moves no invocation, unless the machine restarts.
LEMMA EnvironmentIsApart ==
  ASSUME Environment, ~Reboot
  PROVE  UNCHANGED <<invs, world, app, pidf, metaf, enabled, marker>>
  BY DEF Environment, Register, Listen, Exit, Stranger, Fork, CollectUnit, files

LEMMA NextChildless ==
  ASSUME TypeInv, Childless, [Next]_vars
  PROVE  /\ Childless'
         /\ \A i \in Invs : child'[i] \in {child[i], NoPid} \/ child[i] = NoPid
<1> USE DEF Childless
<1>1. ASSUME NEW i \in Invs, StartStep(i) \/ StopStep(i) \/ RegistryStep(i)
      PROVE  Childless' /\ \A j \in Invs : child'[j] \in {child[j], NoPid} \/ child[j] = NoPid
  BY <1>1, StepIsLocal
<1>2. ASSUME NEW i \in Invs, NEW c \in Commands, Begin(i, c)
      PROVE  Childless' /\ \A j \in Invs : child'[j] \in {child[j], NoPid} \/ child[j] = NoPid
  <2>1. c \in CommandNames
    BY BoundsAssumption DEF BoundsAssumption
  <2>2. child[i] = NoPid
    BY <1>2 DEF Begin, At, MayHaveChild, AfterSpawn
  <2>3. FirstStep[c] # "s_spawn"
    BY <2>1 DEF CommandNames, FirstStep
  <2> QED
    BY <1>2, <2>2, <2>3 DEF Begin, Goto, TypeInv, TypeOK
<1>3. ASSUME NEW i \in Invs, End(i) \/ CutShort(i)
      PROVE  Childless' /\ \A j \in Invs : child'[j] \in {child[j], NoPid} \/ child[j] = NoPid
  BY <1>3 DEF End, CutShort, Leave, world, TypeInv, TypeOK
<1>4. CASE Reboot
  BY <1>4 DEF Reboot
<1>5. CASE Environment /\ ~Reboot
  BY <1>5, EnvironmentIsApart DEF invs, world
<1>6. CASE UNCHANGED vars
  BY <1>6 DEF vars, invs, world
<1> QED
  BY <1>1, <1>2, <1>3, <1>4, <1>5, <1>6 DEF Next, Step, Environment

\* `.meta` is written by a start about its own child, or removed.
LEMMA NextMeta ==
  ASSUME TypeInv, [Next]_vars
  PROVE  \/ metaf' \in {metaf, 0}
         \/ /\ UNCHANGED <<procs, unit, births, child>>
            /\ \E i \in Invs : child[i] # NoPid /\ metaf' = born[child[i]]
<1>1. ASSUME NEW i \in Invs, StartStep(i), ~WriteMeta(i)
      PROVE  metaf' \in {metaf, 0}
  BY <1>1 DEF StartStep, StartLoad, ScopeSpawn, CheckRunning, ClearRoute, BareSpawn, WritePid,
              AbortStart, WaitSocket, WaitAccept, RefusePort, GiveUp, CleanupFailed,
              PublishMarker, PublishEnabled, files
<1>2. ASSUME NEW i \in Invs, WriteMeta(i)
      PROVE  \/ metaf' \in {metaf, 0}
             \/ /\ UNCHANGED <<procs, unit, births, child>>
                /\ child[i] # NoPid /\ metaf' = born[child[i]]
  <2>1. child[i] # NoPid
    BY <1>2 DEF WriteMeta, At, TypeInv, HasChild, AfterSpawn
  <2> QED  BY <1>2, <2>1 DEF WriteMeta
<1>3. ASSUME NEW i \in Invs, StopStep(i)
      PROVE  metaf' \in {metaf, 0}
  BY <1>3 DEF StopStep, StopCheck, StopResolve, RestartRead, SweepScan, DropRoute, Terminate,
              AwaitExit, DropSocket, DropPid, DropMeta, DropIntent, files
<1>4. ASSUME NEW i \in Invs, RegistryStep(i)
      PROVE  metaf' \in {metaf, 0}
  BY <1>4 DEF RegistryStep, RemoveRegistration, RemoveRunState, RemoveRoute, AddCheck,
              AddWrite, BootScan, files
<1>5. ASSUME NEW i \in Invs, NEW c \in Commands, Begin(i, c) \/ End(i) \/ CutShort(i)
      PROVE  metaf' = metaf
  BY <1>5 DEF Begin, End, CutShort, files
<1>6. ASSUME NEW i \in Invs, End(i) \/ CutShort(i)
      PROVE  metaf' = metaf
  BY <1>6 DEF End, CutShort, files
<1>7. ASSUME Environment
      PROVE  metaf' = metaf
  BY <1>7, EnvironmentIsApart DEF Reboot, files
<1>8. CASE UNCHANGED vars
  BY <1>8 DEF vars, files
<1> QED
  BY <1>1, <1>2, <1>3, <1>4, <1>5, <1>6, <1>7, <1>8 DEF Next, Step

\* What systemd-run launches, it launches where it is of use.
LEMMA NextExec ==
  ASSUME TypeInv, Childless, [Next]_vars, NEW p \in Pids, st[p] = "free", st'[p] = "exec"
  PROVE  scopes
<1>1. ASSUME NEW i \in Invs, StartStep(i)
      PROVE  scopes
  <2>1. CASE ScopeSpawn(i)
    BY <2>1 DEF ScopeSpawn, At, Childless
  <2>2. CASE BareSpawn(i)
    BY <2>2 DEF BareSpawn, Fresh, procs, TypeInv, TypeOK
  <2>3. CASE AbortStart(i) \/ GiveUp(i)
    BY <2>3 DEF AbortStart, GiveUp, Kill, Live
  <2> QED
    BY <1>1, <2>1, <2>2, <2>3
    DEF StartStep, StartLoad, CheckRunning, ClearRoute, WritePid, WriteMeta, WaitSocket,
        WaitAccept, RefusePort, CleanupFailed, PublishMarker, PublishEnabled, procs
<1>2. ASSUME NEW i \in Invs, StopStep(i)
      PROVE  FALSE
  <2>1. CASE Terminate(i) \/ AwaitExit(i)
    BY <2>1 DEF Terminate, AwaitExit, Kill, Live, procs
  <2> QED
    BY <1>2, <2>1 DEF StopStep, StopCheck, StopResolve, RestartRead, SweepScan, DropRoute,
                      DropSocket, DropPid, DropMeta, DropIntent, procs
<1>3. ASSUME NEW i \in Invs, RegistryStep(i)
      PROVE  FALSE
  BY <1>3 DEF RegistryStep, RemoveRegistration, RemoveRunState, RemoveRoute, AddCheck,
              AddWrite, BootScan, procs
<1>4. ASSUME NEW i \in Invs, NEW c \in Commands, Begin(i, c)
      PROVE  FALSE
  BY <1>4 DEF Begin, procs
<1>5. ASSUME NEW i \in Invs, End(i) \/ CutShort(i)
      PROVE  FALSE
  BY <1>5 DEF End, CutShort, Leave, TypeInv, TypeOK
<1>6. ASSUME Environment
      PROVE  FALSE
  BY <1>6 DEF Environment, Register, Listen, Exit, Stranger, Fork, Fresh, CollectUnit, Reboot,
              Kill, Live, procs, TypeInv, TypeOK
<1>7. CASE UNCHANGED vars
  BY <1>7 DEF vars, procs
<1> QED
  BY <1>1, <1>2, <1>3, <1>4, <1>5, <1>6, <1>7 DEF Next, Step

\* What a kill leaves: fewer copies of the app, none of them in S.
LEMMA KillLeaves ==
  ASSUME TypeInv, NEW S \in SUBSET Pids, Kill(S)
  PROVE  /\ \A p \in Pids : st'[p] # "free" => st[p] # "free" /\ born'[p] = born[p]
         /\ \A p \in Pids : IsApp(p)' => IsApp(p) /\ p \notin S
         /\ \A p \in Pids : st'[p] \in {"helper", "kin", "exec"} => st'[p] = st[p] /\ p \notin S
         /\ \A p \in Pids : par'[p] \in Invs => par'[p] = par[p]
         /\ \A p \in Pids : st'[p] \in {"zombie", "defunct"} /\ st[p] # st'[p] =>
                               par[p] \in Invs /\ par'[p] = par[p]
         /\ \A p \in Pids : par[p] \in Invs => born'[p] = born[p] /\ par'[p] = par[p]
         /\ \A p \in Pids : cg'[p] => cg[p]
         /\ \A p \in Pids : cg[p] /\ IsApp(p)' => cg'[p]
<1> USE PidsAssumption DEF Kill, Live, IsApp, TypeInv, TypeOK, PidsAssumption
<1>1. \A p \in Pids : par[p] \in Invs => par[p] \notin {q \in S : Live(q)}
  OBVIOUS
<1> QED  BY <1>1

\* What a host can do it can do throughout, and what was cut short remains so.
LEMMA WorldIsKept ==
  ASSUME TypeInv, Childless, [Next]_vars
  PROVE  scopes' = scopes /\ (torn => torn')
<1>1. ASSUME NEW i \in Invs, StartStep(i) \/ StopStep(i) \/ RegistryStep(i)
      PROVE  scopes' = scopes /\ (torn => torn')
  BY <1>1, StepIsLocal
<1>2. ASSUME NEW i \in Invs, NEW c \in Commands, Begin(i, c)
      PROVE  scopes' = scopes /\ (torn => torn')
  BY <1>2 DEF Begin
<1>3. ASSUME NEW i \in Invs, End(i) \/ CutShort(i)
      PROVE  scopes' = scopes /\ (torn => torn')
  BY <1>3 DEF End, CutShort, world
<1>4. CASE Reboot
  BY <1>4 DEF Reboot
<1>5. CASE Environment /\ ~Reboot
  BY <1>5, EnvironmentIsApart DEF world
<1>6. CASE UNCHANGED vars
  BY <1>6 DEF vars, world
<1> QED
  BY <1>1, <1>2, <1>3, <1>4, <1>5, <1>6 DEF Next, Step, Environment

\* A start lets go of processes there are, and nothing is taken back.
LEMMA NextStrays ==
  ASSUME TypeInv, Childless, [Next]_vars
  PROVE  /\ strays \subseteq strays'
         /\ \A b \in strays' \ strays : \E p \in Pids : Exists(p) /\ b = born[p]
<1>1. ASSUME NEW S \in SUBSET Pids, LetGo(S)
      PROVE  /\ strays \subseteq strays'
             /\ \A b \in strays' \ strays : \E p \in Pids : Exists(p) /\ b = born[p]
  BY <1>1 DEF LetGo, Live, Exists
<1>2. ASSUME NEW i \in Invs, CheckRunning(i) \/ AbortStart(i) \/ WaitAccept(i) \/ GiveUp(i)
      PROVE  strays' = strays \/ \E S \in SUBSET Pids : LetGo(S)
  BY <1>2, LetGoOfChild DEF CheckRunning, AbortStart, WaitAccept, GiveUp, At, AfterSpawn
<1>3. ASSUME NEW i \in Invs, StartStep(i),
             ~(CheckRunning(i) \/ AbortStart(i) \/ WaitAccept(i) \/ GiveUp(i))
      PROVE  strays' = strays
  BY <1>3 DEF StartStep, StartLoad, ScopeSpawn, ClearRoute, BareSpawn, WritePid, WriteMeta,
              WaitSocket, RefusePort, CleanupFailed, PublishMarker, PublishEnabled, world
<1>4. ASSUME NEW i \in Invs, StopStep(i) \/ RegistryStep(i)
      PROVE  strays' = strays
  BY <1>4 DEF StopStep, StopCheck, StopResolve, RestartRead, SweepScan, DropRoute, Terminate,
              AwaitExit, DropSocket, DropPid, DropMeta, DropIntent, RegistryStep,
              RemoveRegistration, RemoveRunState, RemoveRoute, AddCheck, AddWrite, BootScan, world
<1>5. ASSUME NEW i \in Invs, NEW c \in Commands, Begin(i, c)
      PROVE  strays' = strays
  BY <1>5 DEF Begin
<1>6. ASSUME NEW i \in Invs, End(i) \/ CutShort(i)
      PROVE  strays' = strays
  BY <1>6 DEF End, CutShort, world
<1>7. CASE Reboot
  BY <1>7 DEF Reboot
<1>8. CASE Environment /\ ~Reboot
  BY <1>8, EnvironmentIsApart DEF world
<1>9. CASE UNCHANGED vars
  BY <1>9 DEF vars, world
<1> QED
  BY <1>1, <1>2, <1>3, <1>4, <1>5, <1>6, <1>7, <1>8, <1>9 DEF Next, Step, Environment

\* A new process has a number and a start time nobody has.
LEMMA FreshIsNew ==
  ASSUME IInv, Structure, NEW p \in Pids, NEW state \in ProcState, NEW parent,
         NEW inscope \in BOOLEAN, Fresh(p, state, parent, inscope), metaf' \in {metaf, 0},
         state \notin {"zombie", "defunct"}
  PROVE  /\ Distinct' /\ NotOthers'
         /\ parent \notin Invs => Unwaited' /\ \A q \in Pids : par'[q] \in Invs => q # p /\ par'[q] = par[q]
<1> USE DEF IInv, TypeInv, TypeOK, ProcInv, Numbered, Structure, Fresh
<1>1. Distinct'
  BY DEF Distinct, Exists
<1>2. metaf' <= births' /\ metaf' # births + 1
  BY DEF NotOthers
<1>3. NotOthers'
  BY <1>2 DEF NotOthers
<1>4. parent \notin Invs => Unwaited' /\ \A q \in Pids : par'[q] \in Invs => q # p /\ par'[q] = par[q]
  BY DEF Unwaited
<1> QED
  BY <1>1, <1>3, <1>4

LEMMA StructureKept ==
  ASSUME IInv, Structure, [Next]_vars
  PROVE  Structure'
<1> USE DEF IInv, TypeInv, TypeOK, ProcInv, Structure
<1>1. ProcessStep /\ Childless' /\ scopes' = scopes
  BY NextProcesses, NextChildless, WorldIsKept
<1>2. \A i \in Invs : child'[i] \in {child[i], NoPid} \/ child[i] = NoPid
  BY NextChildless
<1>5. Counted'
  <2>1. births' \in Nat /\ births' >= births
    BY <1>1 DEF ProcessStep, Killed, Left, Spawned, Registered, Listened, Appeared, Forked,
                Fresh, CollectUnit, Reboot
  <2>2. \A b \in strays' \ strays : \E p \in Pids : Exists(p) /\ b = born[p]
    BY NextStrays
  <2>3. \A p \in Pids : Exists(p) => born[p] \in 1..births
    BY DEF Numbered, Exists
  <2>4. ASSUME NEW b \in strays'
        PROVE  b \in 1..births
    <3>1. CASE b \in strays
      BY <3>1 DEF Counted
    <3>2. CASE b \notin strays
      <4>1. PICK p \in Pids : Exists(p) /\ b = born[p]
        BY <2>2, <2>4, <3>2
      <4> QED
        BY <2>3, <4>1
    <3> QED
      BY <3>1, <3>2
  <2> QED
    BY <2>1, <2>4 DEF Counted
<1>3. CASE UNCHANGED <<procs, unit, births, child>>
  <2>1. NotOthers'
    <3>1. CASE metaf' \in {metaf, 0}
      BY <1>3, <3>1 DEF NotOthers, procs, Numbered
    <3>2. CASE \E i \in Invs : child[i] # NoPid /\ metaf' = born[child[i]]
      <4>1. PICK i \in Invs : child[i] # NoPid /\ metaf' = born[child[i]]
        BY <3>2
      <4>2. child[i] \in Pids /\ st[child[i]] \in {"exec", "boot", "up", "zombie", "defunct"}
        BY <4>1 DEF ChildIsHeld
      <4> QED
        BY <1>3, <4>1, <4>2 DEF NotOthers, procs, Numbered, Distinct, Exists
    <3> QED
      BY <3>1, <3>2, NextMeta
  <2> QED
    BY <1>1, <1>3, <1>5, <2>1 DEF procs, Distinct, Exists, Parents, Unwaited, Bare
<1>4. CASE metaf' \in {metaf, 0}
  <2>1. metaf' \in {metaf, 0}
    BY <1>4
  <2>2. CASE Killed
    <3>1. PICK S \in SUBSET Pids : Kill(S)
      BY <2>2 DEF Killed
    <3>2. Distinct' /\ NotOthers'
      BY <2>1, <2>2, <3>1, KillLeaves DEF Killed, Distinct, Exists, NotOthers, Numbered
    <3>3. Parents' /\ Unwaited' /\ Bare'
      BY <1>1, <2>2, <3>1, KillLeaves DEF Killed, Parents, Unwaited, Bare
    <3> QED
      BY <1>1, <1>5, <3>2, <3>3
  <2>3. ASSUME NEW i \in Invs, Left(i)
        PROVE  Structure'
    <3> USE <2>3 DEF Left, Leave
    <3>1. Distinct' /\ NotOthers'
      BY <2>1 DEF Distinct, Exists, NotOthers, Numbered
    <3>2. Parents' /\ Unwaited' /\ Bare'
      BY <1>1, PidsAssumption DEF Parents, Unwaited, Bare, PidsAssumption
    <3> QED
      BY <1>1, <1>5, <3>1, <3>2
  <2>4. ASSUME NEW i \in Invs, NEW p \in Pids, Spawned(i, p)
        PROVE  Structure'
    <3>1. PICK state \in {"exec", "boot"} : Fresh(p, state, i, FALSE)
      BY <2>4 DEF Spawned
    <3>2. Distinct' /\ NotOthers'
      BY <2>1, <3>1, FreshIsNew DEF ProcState
    <3>3. child[i] = NoPid
      BY <1>2, <2>4, <3>1, PidsAssumption DEF Spawned, Fresh, ChildIsHeld, PidsAssumption
    <3>4. Parents' /\ Unwaited'
      BY <2>4, <3>1, <3>3, PidsAssumption DEF Spawned, Fresh, Parents, Unwaited, PidsAssumption
    <3>5. Bare'
      <4>1. state = "exec" => scopes
        BY <3>1, NextExec DEF Fresh
      <4> QED
        BY <1>1, <1>5, <3>1, <4>1 DEF Fresh, Bare
    <3> QED
      BY <1>1, <1>5, <3>2, <3>4, <3>5
  <2>5. ASSUME NEW p \in Pids, Registered(p) \/ Listened(p)
        PROVE  Structure'
    <3> USE <2>5 DEF Registered, Listened
    <3>1. Distinct' /\ NotOthers'
      BY <2>1 DEF Distinct, Exists, NotOthers, Numbered
    <3>2. Parents' /\ Unwaited' /\ Bare'
      BY <1>1 DEF Parents, Unwaited, Bare
    <3> QED
      BY <1>1, <1>5, <3>1, <3>2
  <2>6. ASSUME NEW p \in Pids, Appeared(p)
        PROVE  Structure'
    <3>1. Pid1 \notin Invs
      BY PidsAssumption DEF PidsAssumption
    <3>2. Distinct' /\ NotOthers' /\ Unwaited' /\ \A q \in Pids : par'[q] \in Invs => par'[q] = par[q]
      BY <2>1, <2>6, <3>1, FreshIsNew DEF Appeared, ProcState
    <3>3. Parents' /\ Bare'
      BY <1>1, <2>6, <3>2 DEF Appeared, Fresh, Parents, Bare
    <3> QED
      BY <1>1, <1>5, <3>2, <3>3
  <2>7. ASSUME NEW p \in Pids, NEW q \in Pids, Forked(p, q)
        PROVE  Structure'
    <3>1. p \notin Invs /\ cg[p] \in BOOLEAN
      BY PidsAssumption DEF PidsAssumption
    <3>2. Distinct' /\ NotOthers' /\ Unwaited' /\ \A r \in Pids : par'[r] \in Invs => par'[r] = par[r]
      BY <2>1, <2>7, <3>1, FreshIsNew DEF Forked, ProcState
    <3>3. Parents' /\ Bare'
      BY <1>1, <2>7, <3>2 DEF Forked, Fresh, Parents, Bare
    <3> QED
      BY <1>1, <1>5, <3>2, <3>3
  <2>8. CASE CollectUnit
    BY <1>1, <1>5, <2>1, <2>8
    DEF CollectUnit, procs, invs, Distinct, Exists, NotOthers, Parents, Unwaited, Bare, Numbered
  <2>9. CASE Reboot
    BY <1>1, <1>5, <2>1, <2>9, PidsAssumption
    DEF Reboot, Distinct, Exists, NotOthers, Parents, Unwaited, Bare, PidsAssumption
  <2> QED
    BY <1>1, <1>3, <2>2, <2>3, <2>4, <2>5, <2>6, <2>7, <2>8, <2>9 DEF ProcessStep
<1> QED
  BY <1>1, <1>3, <1>4, NextMeta

-----------------------------------------------------------------------------
(* The story of a command that is alone *)

\* A copy of the app, or systemd-run on its way to be one, that no start has let
\* go of.
Mine(p) == st[p] \in {"exec", "boot", "up"} /\ born[p] \notin strays

NoneMine == \A p \in Pids : ~Mine(p)

\* What is so is the process the run files name.
Tracked == \A p \in Pids : Mine(p) => pidf = p /\ metaf = born[p]

\* A number is never without its start time, which would make anybody match.
Paired == pidf # NoPid => metaf # 0

\* What there is of an app that is not registered.
Clean ==
    /\ pidf = NoPid /\ metaf = 0 /\ sock \in {0} \cup strays
    /\ ~enabled /\ ~marker /\ NoneMine

Routed == marker => NoneMine \/ (enabled /\ app)

\* What every command finds and leaves.
Quiet == Tracked /\ Paired /\ Routed /\ (~app => Clean)

\* No copy of the app but the child of the start.
OnlyChild(i) == \A p \in Pids : Mine(p) => p = child[i]

StartStory(i) ==
    /\ pc[i] = "s_spawn" => app /\ scopes /\ Quiet
    /\ pc[i] = "c_load" =>
          /\ Paired /\ (~app => Clean)
          /\ \A p \in Pids : Mine(p) /\ p # child[i] =>
                pidf = p /\ metaf = born[p] /\ (marker => enabled)
          /\ IF child[i] = NoPid THEN ~app \/ ~scopes ELSE app /\ scopes
    /\ pc[i] \in {"c_clear", "c_spawn"} /\ child[i] = NoPid => ~scopes
    /\ pc[i] = "c_spawn" => child[i] = NoPid
    /\ pc[i] \in AfterSpawn \cup {"c_clear", "c_spawn"} => app /\ OnlyChild(i)
    /\ pc[i] \in {"c_clear", "c_spawn", "c_pid", "c_abort", "c_clean", "c_clean_s"} => Paired
    /\ pc[i] \in {"c_clean", "c_clean_s"} => NoneMine
    /\ pc[i] \in (AfterSpawn \cup {"c_spawn"}) \ {"c_en"} => ~marker
    /\ pc[i] \in {"c_meta", "c_wait", "c_accept", "c_port", "c_giveup", "c_giveup_s",
                  "c_pub", "c_en"} => pidf = child[i]
    /\ pc[i] \in {"c_wait", "c_accept", "c_port", "c_giveup", "c_giveup_s", "c_pub", "c_en"} =>
          metaf = born[child[i]]

Killing == {"k_mark", "k_term", "k_wait"}
Sweeping == {"k_sock", "k_pid", "k_meta"}

StopStory(i) ==
    /\ pc[i] = "t_int" =>
          /\ Tracked /\ Paired
          /\ (cmd[i] = "stop" /\ app) \/ (cmd[i] = "remove" /\ ~app)
    /\ pc[i] \in Killing => Tracked /\ Paired /\ \A p \in Pids : Mine(p) => p \in tgt[i]
    /\ pc[i] \in Sweeping \cup {"k_en", "x_run", "x_sock"} => NoneMine
    /\ pc[i] \in {"k_sock", "k_pid", "k_en"} => Paired
    /\ pc[i] = "k_meta" => pidf = NoPid
    /\ pc[i] \in Killing \cup Sweeping =>
          /\ cmd[i] \in {"stop", "remove", "restart", "netguard"}
          /\ app <=> cmd[i] # "remove"
    /\ pc[i] = "k_en" => app

RegistryStory(i) ==
    /\ pc[i] = "x_run" => ~app
    /\ pc[i] = "x_sock" => ~app /\ pidf = NoPid /\ metaf = 0 /\ ~enabled
    /\ pc[i] = "a_write" => ~app /\ Clean

\* Where a command has done nothing yet, or all it will do.
AtRest == {"ok", "fail", "s_load", "t_load", "r_load", "n_scan", "x_load", "a_check", "b_scan"}

\* The steps are those of the command.
OnCourse(i) ==
    /\ pc[i] \in StartSteps => cmd[i] \in Spawning
    /\ pc[i] = "t_load" => cmd[i] = "stop"
    /\ pc[i] = "r_load" => cmd[i] = "restart"
    /\ pc[i] = "n_scan" => cmd[i] = "netguard"
    /\ pc[i] = "b_scan" => cmd[i] = "boot"
    /\ pc[i] \in {"x_load", "x_run", "x_sock"} => cmd[i] = "remove"
    /\ pc[i] \in {"a_check", "a_write"} => cmd[i] = "add"

Story(i) ==
    /\ pc[i] \in AtRest => Quiet
    /\ OnCourse(i)
    /\ pc[i] = "ok" /\ cmd[i] = "stop" => NoneMine
    /\ StartStory(i) /\ StopStory(i) /\ RegistryStory(i)

\* systemd-run is let go of before its start publishes a route or ends, and where
\* it is of use every copy of the app came to be through it.
Waiting == {"c_load", "c_clear", "c_pid", "c_meta", "c_abort", "c_wait", "c_accept",
            "c_giveup", "c_giveup_s"}
Launching ==
    \A p \in Pids : Mine(p) /\ st[p] = "exec" => par[p] \in Invs /\ pc[par[p]] \in Waiting
Scoped == scopes => \A p \in Pids : IsApp(p) => cg[p]

One == \A i, j \in Invs : pc[i] # "idle" /\ pc[j] # "idle" => i = j

Stories ==
    /\ Launching /\ Scoped
    /\ (\A i \in Invs : pc[i] = "idle") => Quiet
    /\ \A i \in Invs : pc[i] # "idle" => Story(i)

AloneInv == ~torn => One /\ Stories

LEMMA InitAlone == Init => AloneInv
  BY DEF Init, AloneInv, One, Stories, Launching, Scoped, Quiet, Tracked, Paired, Routed, Clean,
         NoneMine, Mine, IsApp

-----------------------------------------------------------------------------
(* Each step of the story leads to the next *)

\* What is given where a command that is alone takes a step.
Context(i) ==
    /\ IInv /\ Structure /\ One /\ Stories /\ i \in Invs /\ pc[i] # "idle"

LEMMA StartGoesOn ==
  ASSUME NEW i, Context(i), StartStep(i)
  PROVE  Story(i)'
<1> USE PidsAssumption
    DEF Context, IInv, TypeInv, TypeOK, At, Goto, Stories, Story, AtRest, OnCourse, files,
        procs, world, StartStory, StopStory, RegistryStory, Quiet, Tracked, Paired, Routed,
        Clean, NoneMine, Mine, OnlyChild, Killing, Sweeping, AfterSpawn, StartSteps, Spawning,
        PidsAssumption
<1>1. child[i] # NoPid => pc[i] \in MayHaveChild
  BY DEF Structure, Childless
<1>2. child[i] # NoPid =>
        /\ child[i] \in Pids /\ par[child[i]] = i /\ born[child[i]] # 0
        /\ Mine(child[i]) /\ st[child[i]] = "exec" => pc[i] \in Waiting
  BY DEF ProcInv, ChildIsHeld, Numbered, Launching
<1>3. CASE StartLoad(i)
  BY <1>1, <1>3 DEF StartLoad, MayHaveChild
<1>4. CASE ScopeSpawn(i)
  <2>1. ASSUME NEW p \in Pids, Fresh(p, "exec", i, FALSE),
               child' = [child EXCEPT ![i] = p], Goto(i, "c_load")
        PROVE  Story(i)'
    <3>1. \A q \in Pids : Mine(q)' /\ q # p => Mine(q) /\ born'[q] = born[q]
      BY <1>4, <2>1 DEF ScopeSpawn, Fresh
    <3>2. child[i] = NoPid /\ child'[i] = p /\ pc'[i] = "c_load" /\ cmd'[i] = cmd[i]
      BY <1>1, <1>4, <2>1 DEF ScopeSpawn, MayHaveChild
    <3>3. app /\ scopes /\ Quiet /\ UNCHANGED <<app, pidf, metaf, enabled, marker, scopes>>
      BY <1>4 DEF ScopeSpawn
    <3> QED
      BY <1>4, <3>1, <3>2, <3>3 DEF ScopeSpawn
  <2>2. CASE Goto(i, "fail") /\ UNCHANGED <<procs, births, child>>
    BY <1>4, <2>2 DEF ScopeSpawn
  <2> QED
    BY <1>4, <2>1, <2>2 DEF ScopeSpawn
<1>5. CASE CheckRunning(i)
  <2>1. CASE LetGo({child[i]} \ {NoPid}) /\ (Goto(i, "ok") \/ Goto(i, "fail"))
    <3>1. \A p \in Pids : Mine(p)' => Mine(p) /\ p # child[i]
      BY <1>2, <1>5, <2>1 DEF CheckRunning, LetGo, Live
    <3>2. /\ pc'[i] \in {"ok", "fail"} /\ pc[i] = "c_load" /\ strays \subseteq strays'
          /\ UNCHANGED <<app, pidf, metaf, enabled, marker, sock, born, cmd>>
      BY <1>5, <2>1 DEF CheckRunning, LetGo
    <3>3. Quiet'
      <4>1. Tracked' /\ Paired'
        BY <3>1, <3>2
      <4>2. Routed' /\ (~app' => Clean')
        BY <3>1, <3>2
      <4> QED
        BY <4>1, <4>2
    <3> QED
      BY <3>2, <3>3
  <2>2. CASE app /\ ~Running /\ Goto(i, "c_clear") /\ UNCHANGED strays
    <3>1. OnlyChild(i)
      <4> SUFFICES ASSUME NEW p \in Pids, Mine(p), p # child[i]
                   PROVE  FALSE
        OBVIOUS
      <4>1. pidf = p /\ metaf = born[p]
        BY <1>5 DEF CheckRunning
      <4>2. st[p] = "exec"
        BY <2>2, <4>1 DEF Running, Owned
      <4>3. par[p] = i /\ child[i] = p
        BY <4>2 DEF Launching, Structure, Parents, One, Waiting
      <4> QED
        BY <4>3
    <3> QED
      BY <1>5, <2>2, <3>1 DEF CheckRunning
  <2> QED
    BY <1>5, <2>1, <2>2 DEF CheckRunning
<1>6. CASE ClearRoute(i)
  BY <1>1, <1>6 DEF ClearRoute
<1>7. CASE BareSpawn(i)
  <2>1. ASSUME NEW p \in Pids, Fresh(p, "boot", i, FALSE),
               child' = [child EXCEPT ![i] = p], Goto(i, "c_pid")
        PROVE  Story(i)'
    <3>1. NoneMine
      BY <1>7 DEF BareSpawn
    <3>2. \A q \in Pids : Mine(q)' => q = p
      BY <1>7, <2>1, <3>1 DEF BareSpawn, Fresh
    <3>3. child'[i] = p /\ pc'[i] = "c_pid" /\ cmd'[i] = cmd[i]
      BY <1>7, <2>1 DEF BareSpawn
    <3> QED
      BY <1>7, <3>2, <3>3 DEF BareSpawn
  <2>2. CASE Goto(i, "fail") /\ UNCHANGED <<procs, births, child>>
    BY <1>7, <2>2 DEF BareSpawn
  <2> QED
    BY <1>7, <2>1, <2>2 DEF BareSpawn
<1>8. CASE WritePid(i)
  BY <1>1, <1>8 DEF WritePid
<1>9. CASE WriteMeta(i)
  BY <1>1, <1>2, <1>9 DEF WriteMeta
<1>10. ASSUME AbortStart(i) \/ GiveUp(i)
       PROVE  /\ NoneMine' /\ born'[child[i]] = born[child[i]]
              /\ strays \subseteq strays'
  <2>1. /\ child[i] \in Pids /\ OnlyChild(i) /\ par[child[i]] = i
        /\ Kill(AsAccount({child[i]})) /\ LetGo(NotYetTheApp(i))
    BY <1>2, <1>10 DEF AbortStart, GiveUp, HasChild
  <2>2. /\ \A p \in Pids : st'[p] # "free" => born'[p] = born[p]
        /\ \A p \in Pids : Mine(p)' => Mine(p) /\ p \notin AsAccount({child[i]})
        /\ born'[child[i]] = born[child[i]]
    <3>1. AsAccount({child[i]}) \in SUBSET Pids /\ strays \subseteq strays'
      BY <2>1 DEF AsAccount, LetGo
    <3>2. /\ \A p \in Pids : st'[p] # "free" => born'[p] = born[p]
          /\ \A p \in Pids : par[p] \in Invs => born'[p] = born[p]
      BY <2>1, <3>1, KillLeaves
    <3>4. born'[child[i]] = born[child[i]]
      BY <2>1, <3>2
    <3>3. \A p \in Pids : st'[p] \in {"exec", "boot", "up"} =>
              st[p] \in {"exec", "boot", "up"} /\ p \notin AsAccount({child[i]})
      BY <2>1, <3>1, KillLeaves DEF IsApp
    <3> QED
      BY <3>1, <3>2, <3>3, <3>4
  <2>3. st[child[i]] = "exec" => born[child[i]] \in strays'
    BY <2>1 DEF NotYetTheApp, AsAccount, LetGo, Live
  <2> QED
    BY <2>1, <2>2, <2>3 DEF AsAccount, LetGo
<1>11. CASE AbortStart(i)
  BY <1>10, <1>11 DEF AbortStart
<1>12. CASE WaitSocket(i) \/ WaitAccept(i) \/ RefusePort(i)
  <2>1. \A p \in Pids : Mine(p)' => Mine(p)
    BY <1>12 DEF WaitSocket, WaitAccept, RefusePort, LetGo
  <2> QED
    BY <1>1, <1>12, <2>1 DEF WaitSocket, WaitAccept, RefusePort
<1>13. CASE GiveUp(i)
  BY <1>2, <1>10, <1>13 DEF GiveUp, HasChild
<1>14. CASE CleanupFailed(i)
  BY <1>14 DEF CleanupFailed
<1>15. CASE PublishMarker(i)
  BY <1>2, <1>15 DEF PublishMarker, HasChild
<1>16. CASE PublishEnabled(i)
  BY <1>2, <1>16 DEF PublishEnabled, HasChild
<1> QED
  BY <1>3, <1>4, <1>5, <1>6, <1>7, <1>8, <1>9, <1>11, <1>12, <1>13, <1>14, <1>15, <1>16
  DEF StartStep

LEMMA StopGoesOn ==
  ASSUME NEW i, Context(i), StopStep(i)
  PROVE  Story(i)'
<1> USE PidsAssumption
    DEF Context, IInv, TypeInv, TypeOK, At, Goto, Stories, Story, AtRest, OnCourse, files,
        procs, world, StartStory, StopStory, RegistryStory, Quiet, Tracked, Paired, Routed,
        Clean, NoneMine, Mine, OnlyChild, Killing, Sweeping, AfterSpawn, StartSteps, Spawning,
        PidsAssumption
<1>0. pc[i] \notin Waiting => \A p \in Pids : Mine(p) => IsApp(p)
  BY DEF Launching, Waiting, One, IsApp
<1>1. Tracked /\ ~Running /\ pc[i] \notin Waiting => NoneMine
  BY <1>0 DEF Running, Owned, IsApp
<1>2. CASE StopCheck(i)
  BY <1>1, <1>2 DEF StopCheck, Waiting
<1>3. CASE StopResolve(i)
  <2>1. CASE ~Running
    BY <1>1, <1>3, <2>1 DEF StopResolve, AfterKill, Waiting
  <2>2. CASE Running
    BY <1>3, <2>2 DEF StopResolve, Family
  <2> QED
    BY <2>1, <2>2
<1>4. CASE RestartRead(i)
  BY <1>4 DEF RestartRead, Family
<1>5. CASE SweepScan(i)
  <2>1. Scope # {} => \A p \in Pids : Mine(p) => p \in Scope
    BY <1>0, <1>5 DEF SweepScan, Scope, Structure, Bare, Scoped, Waiting
  <2> QED
    BY <1>5, <2>1 DEF SweepScan
<1>6. CASE DropRoute(i)
  BY <1>6 DEF DropRoute
<1>7. CASE Terminate(i)
  <2>1. PICK dying \in SUBSET Pids : Kill(dying)
    BY <1>7 DEF Terminate, Reached, AsAccount
  <2>2. \A p \in Pids : Mine(p)' => Mine(p) /\ born'[p] = born[p]
    <3>1. \A p \in Pids : st'[p] \in {"exec", "boot", "up"} =>
              st[p] \in {"exec", "boot", "up"} /\ born'[p] = born[p]
      BY <2>1, KillLeaves DEF IsApp
    <3>2. strays' = strays
      BY <1>7 DEF Terminate
    <3> QED
      BY <3>1, <3>2
  <2> QED
    BY <1>7, <2>2 DEF Terminate
<1>8. CASE AwaitExit(i)
  <2>1. pc[i] \in Killing
    BY <1>8 DEF AwaitExit
  <2>2. \A p \in Pids : Mine(p) => p \in Reached(i) /\ p \in tgt[i]
    <3>1. \A p \in Pids : Mine(p) => p \in tgt[i] /\ st[p] # "exec"
      BY <1>0, <2>1 DEF Waiting, IsApp
    <3> QED
      BY <3>1 DEF Reached, AsAccount
  <2>3. Reached(i) \in SUBSET Pids
    BY DEF Reached, AsAccount
  <2>4. CASE Kill(Reached(i))
    <3>1. NoneMine'
      <4>1. \A p \in Pids : Mine(p)' => Mine(p) /\ p \notin Reached(i)
        BY <1>8, <2>3, <2>4, KillLeaves DEF AwaitExit, IsApp
      <4> QED
        BY <2>2, <4>1
    <3> QED
      BY <1>8, <3>1 DEF AwaitExit
  <2>5. CASE (\A p \in tgt[i] : ~Exists(p)) /\ UNCHANGED procs
    BY <1>8, <2>2, <2>5 DEF AwaitExit, Exists
  <2> QED
    BY <1>8, <2>4, <2>5 DEF AwaitExit
<1>9. CASE DropSocket(i)
  BY <1>9 DEF DropSocket
<1>10. CASE DropPid(i)
  BY <1>10 DEF DropPid
<1>11. CASE DropMeta(i)
  BY <1>11 DEF DropMeta, AfterKill
<1>12. CASE DropIntent(i)
  BY <1>12 DEF DropIntent
<1> QED
  BY <1>2, <1>3, <1>4, <1>5, <1>6, <1>7, <1>8, <1>9, <1>10, <1>11, <1>12 DEF StopStep

LEMMA RegistryGoesOn ==
  ASSUME NEW i, Context(i), RegistryStep(i)
  PROVE  Story(i)'
<1> USE PidsAssumption
    DEF Context, IInv, TypeInv, TypeOK, At, Goto, Stories, Story, AtRest, OnCourse, files,
        procs, world, StartStory, StopStory, RegistryStory, Quiet, Tracked, Paired, Routed,
        Clean, NoneMine, Mine, OnlyChild, Killing, Sweeping, AfterSpawn, StartSteps, Spawning,
        PidsAssumption
<1>1. CASE RemoveRegistration(i)
  BY <1>1 DEF RemoveRegistration
<1>2. CASE RemoveRunState(i) \/ RemoveRoute(i)
  BY <1>2 DEF RemoveRunState, RemoveRoute
<1>3. CASE AddCheck(i) \/ AddWrite(i)
  BY <1>3 DEF AddCheck, AddWrite
<1>4. CASE BootScan(i)
  BY <1>4 DEF BootScan, AlreadyRunning, Exists
<1> QED
  BY <1>1, <1>2, <1>3, <1>4 DEF RegistryStep

\* What a step that spawns nothing leaves of the processes.
LEMMA StepSpares ==
  ASSUME TypeInv, NEW i \in Invs,
         \/ StartStep(i) /\ ~ScopeSpawn(i) /\ ~BareSpawn(i)
         \/ StopStep(i) \/ RegistryStep(i)
  PROVE  Killed \/ UNCHANGED procs
<1> USE DEF TypeInv, TypeOK
<1>1. CASE AbortStart(i) \/ GiveUp(i)
  <2>1. child[i] \in Pids
    BY <1>1 DEF AbortStart, GiveUp, At, HasChild, AfterSpawn
  <2> QED
    BY <1>1, <2>1 DEF AbortStart, GiveUp, At, AsAccount, Killed
<1>2. CASE Terminate(i) \/ AwaitExit(i)
  <2>1. Reached(i) \subseteq Pids
    BY DEF Reached, AsAccount
  <2> QED
    BY <1>2, <2>1 DEF Terminate, AwaitExit, At, Killed
<1>3. CASE RegistryStep(i)
  BY <1>3 DEF RegistryStep, RemoveRegistration, RemoveRunState, RemoveRoute, AddCheck, AddWrite,
              BootScan
<1>4. CASE StopStep(i)
  BY <1>2, <1>4 DEF StopStep, StopCheck, StopResolve, RestartRead, SweepScan, DropRoute,
                    DropSocket, DropPid, DropMeta, DropIntent
<1>5. CASE StartStep(i) /\ ~ScopeSpawn(i) /\ ~BareSpawn(i)
  BY <1>1, <1>5 DEF StartStep, StartLoad, CheckRunning, ClearRoute, WritePid, WriteMeta, WaitSocket,
                    WaitAccept, RefusePort, CleanupFailed, PublishMarker, PublishEnabled
<1> QED
  BY <1>3, <1>4, <1>5

\* A start that stops waiting for its systemd-run has let go of it.
LEMMA StartLetsGo ==
  ASSUME NEW i, Context(i), StartStep(i), pc[i] \in Waiting, pc'[i] \notin Waiting,
         NEW p \in Pids, p = child[i], st[p] = "exec"
  PROVE  born[p] \in strays'
<1> USE DEF Context, IInv, TypeInv, TypeOK, Waiting, At, Goto
<1>1. p # NoPid
  BY PidsAssumption DEF PidsAssumption
<1>2. CASE CheckRunning(i)
  BY <1>1, <1>2 DEF CheckRunning, LetGo, Live
<1>3. CASE AbortStart(i) \/ WaitAccept(i) \/ GiveUp(i)
  BY <1>1, <1>3 DEF AbortStart, WaitAccept, GiveUp, NotYetTheApp, AsAccount, LetGo, Live
<1>4. CASE ClearRoute(i)
  BY <1>1, <1>4 DEF ClearRoute
<1>5. CASE WritePid(i) \/ WriteMeta(i) \/ WaitSocket(i)
  BY <1>5 DEF WritePid, WriteMeta, WaitSocket
<1>6. CASE StartLoad(i) \/ ScopeSpawn(i) \/ BareSpawn(i) \/ RefusePort(i) \/ CleanupFailed(i)
           \/ PublishMarker(i) \/ PublishEnabled(i)
  BY <1>6 DEF StartLoad, ScopeSpawn, BareSpawn, RefusePort, CleanupFailed, PublishMarker,
              PublishEnabled
<1> QED
  BY <1>2, <1>3, <1>4, <1>5, <1>6 DEF StartStep

\* A step of a command leaves systemd-run to the wait for it, and the copies of
\* the app in their scope.
LEMMA StepLaunches ==
  ASSUME NEW i, Context(i), StartStep(i) \/ StopStep(i) \/ RegistryStep(i)
  PROVE  Launching' /\ Scoped'
<1> USE DEF Context, IInv, TypeInv, TypeOK
<1>1. \A p \in Pids : Mine(p) /\ st[p] = "exec" => par[p] = i /\ pc[i] \in Waiting /\ child[i] = p
  BY DEF Structure, Parents, Stories, Launching, One, Waiting
<1>2. scopes' = scopes /\ strays \subseteq strays'
  BY StepIsLocal, NextStrays DEF Structure, Next, Step
<1>3. CASE ScopeSpawn(i)
  <2>1. pc[i] = "s_spawn" /\ strays' = strays
    BY <1>3 DEF ScopeSpawn, At, world
  <2>2. ASSUME NEW p \in Pids, Fresh(p, "exec", i, FALSE), Goto(i, "c_load")
        PROVE  Launching' /\ Scoped'
    BY <1>1, <1>2, <2>1, <2>2 DEF Fresh, Goto, Launching, Waiting, Mine, Stories, Scoped, IsApp
  <2>3. CASE UNCHANGED procs
    BY <1>1, <1>2, <2>1, <2>3 DEF procs, Launching, Waiting, Mine, Stories, Scoped, IsApp
  <2> QED
    BY <1>3, <2>2, <2>3 DEF ScopeSpawn, procs
<1>4. CASE BareSpawn(i)
  <2>1. pc[i] = "c_spawn" /\ ~scopes /\ strays' = strays
    BY <1>4 DEF BareSpawn, At, Stories, Story, StartStory, world
  <2> QED
    BY <1>1, <1>2, <1>4, <2>1 DEF BareSpawn, Fresh, procs, Launching, Waiting, Mine, Scoped
<1>5. CASE ~ScopeSpawn(i) /\ ~BareSpawn(i)
  <2>1. /\ \A p \in Pids : Mine(p)' /\ st'[p] = "exec" => Mine(p) /\ st[p] = "exec"
        /\ \A p \in Pids : Mine(p)' /\ st'[p] = "exec" => par'[p] = i /\ born'[p] = born[p]
        /\ \A p \in Pids : IsApp(p)' => IsApp(p) /\ (cg[p] => cg'[p])
    <3>1. CASE UNCHANGED procs
      BY <1>1, <1>2, <3>1 DEF procs, Mine, IsApp
    <3>2. CASE Killed
      <4>1. PICK S \in SUBSET Pids : Kill(S)
        BY <3>2 DEF Killed
      <4> QED
        BY <1>1, <1>2, <4>1, KillLeaves DEF Mine
    <3> QED
      BY <1>5, <3>1, <3>2, StepSpares
  <2>2. Scoped'
    BY <1>2, <2>1 DEF Stories, Scoped
  <2>3. ASSUME NEW p \in Pids, Mine(p)', st'[p] = "exec"
        PROVE  par'[p] \in Invs /\ pc'[par'[p]] \in Waiting
    <3>1. Mine(p) /\ st[p] = "exec" /\ par'[p] = i /\ born'[p] = born[p]
      BY <2>1, <2>3
    <3>2. pc[i] \in Waiting /\ child[i] = p /\ born[p] \notin strays'
      BY <1>1, <2>3, <3>1 DEF Mine
    <3>3. StartStep(i)
      BY <3>2 DEF Waiting, At, StopStep, StopCheck, StopResolve, RestartRead, SweepScan, DropRoute,
                  Terminate, AwaitExit, DropSocket, DropPid, DropMeta, DropIntent, RegistryStep,
                  RemoveRegistration, RemoveRunState, RemoveRoute, AddCheck, AddWrite, BootScan
    <3> QED
      BY <3>1, <3>2, <3>3, StartLetsGo
  <2> QED
    BY <2>2, <2>3 DEF Launching
<1> QED
  BY <1>3, <1>4, <1>5

LEMMA OneKept ==
  ASSUME TypeInv, Childless, One, ~torn', [Next]_vars
  PROVE  One'
<1>1. ASSUME NEW i \in Invs, StartStep(i) \/ StopStep(i) \/ RegistryStep(i)
      PROVE  One'
  BY <1>1, StepIsLocal DEF One
<1>2. ASSUME NEW i \in Invs, NEW c \in Commands, Begin(i, c)
      PROVE  One'
  <2>1. InFlight = {}
    BY <1>2 DEF Begin
  <2> QED
    BY <1>2, <2>1 DEF Begin, Goto, InFlight, One, TypeInv, TypeOK
<1>3. ASSUME NEW i \in Invs, End(i) \/ CutShort(i)
      PROVE  One'
  BY <1>3 DEF End, CutShort, Leave, One, TypeInv, TypeOK
<1>4. CASE Reboot
  BY <1>4 DEF Reboot, One
<1>5. CASE Environment /\ ~Reboot
  BY <1>5, EnvironmentIsApart DEF invs, One
<1>6. CASE UNCHANGED vars
  BY <1>6 DEF vars, invs, One
<1> QED
  BY <1>1, <1>2, <1>3, <1>4, <1>5, <1>6 DEF Next, Step, Environment

-----------------------------------------------------------------------------
(* What happens around the command does not turn the story *)

\* What the processes, systemd and the rest of the account do: the files stay but
\* for the socket, and no copy of the app appears.
Calm ==
    /\ UNCHANGED <<app, pidf, metaf, enabled, marker, invs, scopes, strays>>
    /\ sock' \in {sock, 0} \cup strays \/ ~NoneMine
    /\ \A p \in Pids : Mine(p)' => Mine(p) /\ born'[p] = born[p]
    /\ \A i \in Invs : child[i] # NoPid => born'[child[i]] = born[child[i]]

LEMMA CalmKeeps ==
  ASSUME TypeInv, Calm
  PROVE  /\ Quiet => Quiet'
         /\ \A i \in Invs : Story(i) => Story(i)'
<1>1. (Tracked => Tracked') /\ (NoneMine => NoneMine') /\ (Paired => Paired')
  BY DEF Calm, Tracked, NoneMine, Paired
<1>2. (Clean => Clean') /\ (Routed => Routed')
  BY <1>1 DEF Calm, Clean, Routed
<1>3. Quiet => Quiet'
  BY <1>1, <1>2 DEF Calm, Quiet
<1>4. ASSUME NEW i \in Invs, Story(i)
      PROVE  Story(i)'
  <2>1. OnlyChild(i) => OnlyChild(i)'
    BY DEF Calm, OnlyChild, invs
  <2>2. pc'[i] = pc[i] /\ cmd'[i] = cmd[i] /\ child'[i] = child[i] /\ tgt'[i] = tgt[i]
    BY DEF Calm, invs
  <2>3. OnCourse(i)'
    BY <1>4, <2>2 DEF Story, OnCourse
  <2>4. StartStory(i)'
    <3>1. StartStory(i)
      BY <1>4 DEF Story
    <3>2. pc[i] = "c_load" => \A p \in Pids : Mine(p)' /\ p # child'[i] =>
            pidf' = p /\ metaf' = born'[p] /\ (marker' => enabled')
      BY <2>2, <3>1 DEF Calm, StartStory
    <3>4. pc[i] \in {"c_wait", "c_accept", "c_port", "c_giveup", "c_giveup_s", "c_pub",
                     "c_en"} => metaf' = born'[child'[i]]
      BY <2>2, <3>1 DEF Calm, StartStory, TypeInv, HasChild, AfterSpawn
    <3> QED
      BY <1>1, <1>2, <1>3, <2>1, <2>2, <3>1, <3>2, <3>4 DEF Calm, StartStory
  <2>5. StopStory(i)' /\ RegistryStory(i)'
    BY <1>1, <1>2, <1>4, <2>2 DEF Calm, Story, StopStory, RegistryStory
  <2> QED
    BY <1>1, <1>3, <1>4, <2>2, <2>3, <2>4, <2>5 DEF Story
<1> QED
  BY <1>3, <1>4

LEMMA EnvironmentGoesOn ==
  ASSUME IInv, Structure, One, Stories, Environment, ~Reboot
  PROVE  Stories'
<1> USE DEF IInv, TypeInv, TypeOK
<1>1. /\ UNCHANGED <<invs, world, app, pidf, metaf, enabled, marker>>
      /\ UNCHANGED <<pc, scopes, strays>>
  BY EnvironmentIsApart DEF invs, world
<1>2. \A i \in Invs : child[i] # NoPid => child[i] \in Pids /\ par[child[i]] = i /\ Exists(child[i])
  BY DEF ProcInv, ChildIsHeld, Exists
<1>3. ASSUME Calm, Launching', Scoped'
      PROVE  Stories'
  BY <1>1, <1>3, CalmKeeps DEF Stories
<1>4. ASSUME NEW p \in Pids, Kill({p}), sock' \in {sock, 0}
      PROVE  Stories'
  <2>1. Calm
    BY <1>1, <1>2, <1>4, KillLeaves DEF Calm, Mine, IsApp
  <2>2. Launching' /\ Scoped'
    BY <1>1, <1>4, KillLeaves DEF Stories, Launching, Mine, Scoped
  <2> QED
    BY <1>3, <2>1, <2>2
<1>5. ASSUME NEW p \in Pids, Register(p)
      PROVE  Stories'
  <2>1. CASE unit
    <3>1. Kill({p}) /\ sock' = sock
      BY <1>5, <2>1 DEF Register, files
    <3> QED
      BY <1>4, <3>1
  <2>2. CASE ~unit
    <3>1. Calm
      BY <1>1, <1>5, <2>2 DEF Register, files, Calm, Mine
    <3>2. Launching' /\ Scoped'
      BY <1>1, <1>5, <2>2 DEF Register, Stories, Launching, Mine, Scoped, IsApp
    <3> QED
      BY <1>3, <3>1, <3>2
  <2> QED
    BY <2>1, <2>2
<1>6. ASSUME NEW p \in Pids, Exit(p)
      PROVE  Stories'
  BY <1>4, <1>6 DEF Exit
<1>7. ASSUME NEW p \in Pids, Listen(p)
      PROVE  Stories'
  <2>1. Calm
    BY <1>1, <1>7 DEF Calm, Listen, Mine, NoneMine
  <2>2. Launching' /\ Scoped'
    BY <1>1, <1>7 DEF Listen, Stories, Launching, Mine, Scoped, IsApp
  <2> QED
    BY <1>3, <2>1, <2>2
<1>8. ASSUME NEW p \in Pids, NEW state \in {"helper", "kin"}, NEW parent, NEW inscope,
             Fresh(p, state, parent, inscope), sock' = sock
      PROVE  Stories'
  <2>1. Calm
    BY <1>1, <1>2, <1>8 DEF Calm, Fresh, Mine, Exists
  <2>2. Launching' /\ Scoped'
    BY <1>1, <1>8 DEF Fresh, Stories, Launching, Mine, Scoped, IsApp
  <2> QED
    BY <1>3, <2>1, <2>2
<1>9. ASSUME NEW p \in Pids, NEW q \in Pids, Stranger(p) \/ Fork(p, q)
      PROVE  Stories'
  BY <1>8, <1>9 DEF Stranger, Fork, files
<1>10. CASE CollectUnit
  <2>1. Calm
    BY <1>1, <1>10 DEF Calm, CollectUnit, files, procs, Mine
  <2>2. Launching' /\ Scoped'
    BY <1>1, <1>10 DEF CollectUnit, procs, Stories, Launching, Mine, Scoped, IsApp
  <2> QED
    BY <1>3, <2>1, <2>2
<1> QED
  BY <1>5, <1>6, <1>7, <1>9, <1>10 DEF Environment

LEMMA AloneKept ==
  ASSUME IInv, Structure, AloneInv, [Next]_vars
  PROVE  AloneInv'
<1> USE DEF IInv, TypeInv, TypeOK, AloneInv
<1>1. scopes' = scopes /\ (torn => torn')
  BY WorldIsKept DEF Structure
<1>2. SUFFICES ASSUME ~torn, ~torn', One, Stories, One'
               PROVE  Stories'
  BY <1>1, OneKept DEF Structure
<1>3. ASSUME NEW i \in Invs, StartStep(i) \/ StopStep(i) \/ RegistryStep(i)
      PROVE  Stories'
  <2>1. pc[i] # "idle" /\ pc'[i] # "idle" /\ \A j \in Invs \ {i} : pc'[j] = pc[j]
    BY <1>3, StepIsLocal DEF Structure
  <2>2. Context(i)
    BY <1>2, <2>1 DEF Context
  <2>3. Story(i)' /\ Launching' /\ Scoped'
    BY <1>3, <2>2, StartGoesOn, StopGoesOn, RegistryGoesOn, StepLaunches
  <2>4. \A j \in Invs : pc'[j] # "idle" => j = i
    BY <1>2, <2>1 DEF One
  <2> QED
    BY <2>1, <2>3, <2>4 DEF Stories
<1>4. ASSUME NEW i \in Invs, NEW c \in Commands, Begin(i, c)
      PROVE  Stories'
  <2>1. c \in CommandNames /\ pc' = [pc EXCEPT ![i] = FirstStep[c]] /\ cmd' = [cmd EXCEPT ![i] = c]
    BY <1>4, BoundsAssumption DEF Begin, Goto, BoundsAssumption
  <2>2. FirstStep[c] # "idle"
    BY <2>1 DEF CommandNames, FirstStep
  <2>3. \A j \in Invs : pc'[j] # "idle" => j = i
    BY <1>2, <2>1, <2>2 DEF One
  <2>4. \A j \in Invs : pc[j] = "idle"
    BY <1>4, <2>1, <2>3 DEF Begin, At
  <2>5. Quiet
    BY <1>2, <2>4 DEF Stories
  <2>6. UNCHANGED <<files, procs, child, tgt, scopes, strays>>
    BY <1>4 DEF Begin
  <2>7. Quiet' /\ Scoped'
    BY <1>2, <2>5, <2>6
    DEF files, procs, Quiet, Tracked, Paired, Routed, Clean, NoneMine, Mine, IsApp, Stories, Scoped
  <2>8. Launching'
    BY <1>2, <2>4, <2>6 DEF procs, Stories, Launching, Waiting, Mine
  <2>9. Story(i)'
    BY <2>1, <2>7
    DEF CommandNames, FirstStep, Story, StartStory, StopStory, RegistryStory, OnCourse, AtRest,
        StartSteps, Spawning, AfterSpawn, Killing, Sweeping, Quiet
  <2> QED
    BY <2>1, <2>2, <2>3, <2>7, <2>8, <2>9 DEF Stories
<1>5. ASSUME NEW i \in Invs, End(i)
      PROVE  Stories'
  <2>1. Quiet /\ pc[i] \in {"ok", "fail"}
    BY <1>2, <1>5 DEF End, Stories, Story, AtRest
  <2>2. \A j \in Invs : pc'[j] = "idle"
    BY <1>2, <1>5, <2>1 DEF End, Leave, One
  <2>3. /\ \A p \in Pids : Mine(p)' => Mine(p) /\ st'[p] = st[p] /\ born'[p] = born[p]
        /\ \A p \in Pids : IsApp(p)' => IsApp(p) /\ cg'[p] = cg[p]
        /\ strays' = strays
    BY <1>5 DEF End, Leave, IsApp, Mine, world
  <2>4. Quiet'
    BY <1>5, <2>1, <2>3 DEF End, files, Quiet, Tracked, Paired, Routed, Clean, NoneMine
  <2>5. \A p \in Pids : ~(Mine(p) /\ st[p] = "exec")
    BY <1>2, <1>5, <2>1 DEF End, Stories, Launching, Waiting, One
  <2>6. Launching' /\ Scoped'
    BY <1>1, <1>2, <2>3, <2>5 DEF Stories, Launching, Scoped
  <2> QED
    BY <2>2, <2>4, <2>6 DEF Stories
<1>6. ASSUME NEW i \in Invs, CutShort(i)
      PROVE  FALSE
  BY <1>2, <1>6 DEF CutShort
<1>7. CASE Environment /\ ~Reboot
  BY <1>2, <1>7, EnvironmentGoesOn
<1>8. CASE Reboot
  <2>1. Quiet
    BY <1>2, <1>8 DEF Reboot, InFlight, Stories
  <2>2. NoneMine' /\ \A i \in Invs : pc'[i] = "idle"
    BY <1>8 DEF Reboot, NoneMine, Mine
  <2>3. Quiet'
    BY <1>8, <2>1, <2>2 DEF Reboot, files, Quiet, Tracked, Paired, Routed, Clean, NoneMine
  <2>4. Launching' /\ Scoped'
    BY <1>8 DEF Reboot, Launching, Mine, Scoped, IsApp
  <2> QED
    BY <2>2, <2>3, <2>4 DEF Stories
<1>9. CASE UNCHANGED vars
  <2>1. Calm /\ UNCHANGED procs
    BY <1>9 DEF vars, files, procs, world, Calm, Mine
  <2>2. Launching' /\ Scoped'
    BY <1>2, <1>9, <2>1 DEF Calm, vars, invs, procs, world, Stories, Launching, Mine, Scoped, IsApp
  <2> QED
    BY <1>2, <2>1, <2>2, CalmKeeps DEF Stories, Calm, invs
<1> QED
  BY <1>3, <1>4, <1>5, <1>6, <1>7, <1>8, <1>9 DEF Next, Step, Environment

-----------------------------------------------------------------------------
(* What the properties say *)

LEMMA InductiveAlone ==
  Spec => [](IInv /\ Structure /\ AloneInv)
<1>1. Init => IInv /\ Structure /\ AloneInv
  BY InitType, InitProc, InitStructure, InitAlone DEF IInv
<1>2. IInv /\ Structure /\ AloneInv /\ [Next]_vars => (Structure /\ AloneInv)'
  BY StructureKept, AloneKept
<1>3. Spec => []IInv
  BY Inductive
<1> QED
  BY <1>1, <1>2, <1>3, PTL DEF Spec

\* At rest the run files are those of the app, or of nothing.
LEMMA AtRestQuiet ==
  ASSUME AloneInv, Settled
  PROVE  Quiet
  BY DEF AloneInv, Settled, InFlight, Stories

\* A live app is the one the run files name, whichever step of start.rs fails,
\* unless it is what a start let go of.
THEOREM LiveIsTracked == Spec => []RunningIsTracked
<1>1. AloneInv => RunningIsTracked
  BY AtRestQuiet DEF RunningIsTracked, Quiet, Tracked, Mine, IsApp, Stray
<1> QED
  BY <1>1, InductiveAlone, PTL

\* get_status says RUNNING of the app only: whatever process inherits the number
\* in .pid, its start time is not the one in .meta.
THEOREM StatusTells == Spec => []StatusIsTruthful
<1>1. ASSUME IInv, Structure, AloneInv, Settled, Running
      PROVE  IsApp(pidf)
  <2>1. pidf \in Pids /\ metaf = born[pidf] /\ Owned(pidf)
    BY <1>1, AtRestQuiet DEF IInv, TypeInv, TypeOK, Running, Quiet, Paired
  <2>2. st[pidf] \notin {"helper", "kin"}
    BY <1>1, <2>1 DEF Structure, NotOthers
  <2>3. st[pidf] # "zombie"
    <3> SUFFICES ASSUME st[pidf] = "zombie"
                 PROVE  FALSE
      OBVIOUS
    <3>1. par[pidf] \in Invs /\ child[par[pidf]] # NoPid
      BY <1>1, <2>1, PidsAssumption DEF Structure, Unwaited, Parents, PidsAssumption
    <3>2. pc[par[pidf]] # "idle"
      BY <1>1, <3>1 DEF Structure, Childless, MayHaveChild, AfterSpawn
    <3> QED
      BY <1>1, <3>1, <3>2 DEF Settled, InFlight
  <2> QED
    BY <1>1, <2>1, <2>2, <2>3 DEF IInv, TypeInv, TypeOK, Owned, IsApp, ProcState
<1>2. IInv /\ Structure /\ AloneInv => StatusIsTruthful
  BY <1>1 DEF StatusIsTruthful
<1> QED
  BY <1>2, InductiveAlone, PTL

\* cmd_remove leaves nothing of the app but what a start had let go of, and a
\* start of an app that is not registered leaves nothing either.
THEOREM RemovedIsGone == Spec => []RemovedLeavesNothing
<1>1. AloneInv => RemovedLeavesNothing
  BY AtRestQuiet DEF RemovedLeavesNothing, Quiet, Clean, NoneMine, Mine, IsApp, Stray
<1> QED
  BY <1>1, InductiveAlone, PTL

\* A live app the proxy routes to is one boot recovery would bring back.
THEOREM RouteIsIntended == Spec => []RoutedIsIntended
<1>1. AloneInv => RoutedIsIntended
  BY AtRestQuiet DEF RoutedIsIntended, Quiet, Routed, NoneMine, Mine, IsApp, Stray
<1> QED
  BY <1>1, InductiveAlone, PTL

\* When cmd_stop reports success no copy of the app is left running but one a
\* start had let go of, be it that stop_internal killed the app or that it was
\* STOPPED to begin with.
THEOREM StopTakesDown == Spec => []StopIsDown
<1>1. AloneInv => StopIsDown
  BY DEF AloneInv, StopIsDown, At, Stories, Story, NoneMine, Mine, IsApp, Stray
<1> QED
  BY <1>1, InductiveAlone, PTL
=============================================================================
