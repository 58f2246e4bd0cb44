------------------------- MODULE Invocation_proofs -------------------------
(***************************************************************************)
(* Nobody gets further than they may, for any accounts and any number of   *)
(* invocations.                                                            *)
(*                                                                         *)
(* What makes the properties inductive is what an invocation has earned by *)
(* the step it is at: each gate leaves behind the fact it asked for, in a  *)
(* form that a later change of the caller's usertype cannot take back.     *)
(***************************************************************************)
EXTENDS Invocation, TLAPS

AfterDir == {"mkdir", "chown", "run_group", "run_sticky", "root_half", "drop",
             "account_half", "init_failed", "privilege_drop_failed", "ok"}
AfterAdmin == AfterDir \cup {"statedir"}
AfterResolve == AfterAdmin \cup {"admin"}

\* Who may set the policy of the server, now or at some time before.
EverServerAdmin(c) == c \in {Root} \cup Services \/ "admin" \in were[c]

\* What invocation i has earned by its step.
Earned(i) ==
    /\ pc[i] \in {"serving", "served"} =>
          /\ cmd[i] \in Installing => who[i] = Root
          /\ cmd[i] \in Sweeping => EverPrivileged(who[i])
    /\ pc[i] \in AfterResolve \cup {"resolve"} => cmd[i] \notin ServerWide
    /\ pc[i] \in AfterResolve => target[i] \in Targets
    /\ pc[i] \in AfterResolve /\ target[i] # who[i] => EverPrivileged(who[i])
    /\ pc[i] \in AfterAdmin /\ cmd[i] \in Admin => EverPrivileged(who[i])
    /\ pc[i] \in AfterAdmin /\ cmd[i] = "policy" => EverServerAdmin(who[i])
    /\ pc[i] \in AfterDir => dir[i] \in Targets
    /\ pc[i] \in AfterDir /\ dir[i] # target[i] => EverPrivileged(who[i])
    /\ pc[i] \in {"root_half", "drop", "account_half"} => runs[dir[i]] = "sticky"
    /\ pc[i] = "account_half" => euid[i] = target[i] /\ target[i] # Root

\* The history is true, and no `.run` has been given away.
History ==
    /\ \A c \in Callers : kind[c] \in were[c]
    /\ \A t \in Targets : runs[t] # "account's"

IInv == TypeOK /\ History /\ \A i \in Invs : Earned(i)

-----------------------------------------------------------------------------
(* Types *)

USE DEF Targets, Callers

LEMMA InitType == Init => TypeOK
BY CallersAssumption
   DEF Init, TypeOK, Steps, Codes, Commands, ServerWide, Installing, Sweeping, Admin,
       Usertypes, RunStates

\* Every step keeps the types.
LEMMA NextType == TypeOK /\ [Next]_vars => TypeOK'
<1> SUFFICES ASSUME TypeOK, [Next]_vars PROVE TypeOK'
  OBVIOUS
<1> USE DEF TypeOK, Steps, Codes, At, Goto, env, trees, asked
<1>1. ASSUME NEW i \in Invs, NEW c \in Callers, NEW what \in Issued, Begin(i, c, what)
      PROVE  TypeOK'
  BY <1>1, IssuedAssumption, BoundsAssumption DEF Begin
<1>2. ASSUME NEW i \in Invs, ServerGate(i) \/ Serve(i) \/ AdminGate(i) \/ RootHalf(i)
                             \/ AccountHalf(i)
      PROVE  TypeOK'
  BY <1>2 DEF ServerGate, Serve, AdminGate, RootHalf, AccountHalf
<1>3. ASSUME NEW i \in Invs, NEW name \in Targets \cup {Unset}, Resolve(i, name) PROVE TypeOK'
  BY <1>3 DEF Resolve
<1>4. ASSUME NEW i \in Invs, NEW given \in Given(who[i]), StateDir(i, given) PROVE TypeOK'
  <2>1. given # Unset => given \in Targets
    BY DEF Given
  <2> QED
    BY <1>4, <2>1 DEF StateDir
<1>5. ASSUME NEW i \in Invs, MakeDirs(i) PROVE TypeOK'
  BY <1>5 DEF MakeDirs, RunStates
<1>6. ASSUME NEW i \in Invs, ChownTree(i) PROVE TypeOK'
  BY <1>6 DEF ChownTree
<1>7. ASSUME NEW i \in Invs, GroupRun(i) \/ StickyRun(i) PROVE TypeOK'
  BY <1>7 DEF GroupRun, StickyRun, RunStates
<1>8. ASSUME NEW i \in Invs, Drop(i) PROVE TypeOK'
  BY <1>8 DEF Drop
<1>9. ASSUME NEW i \in Invs, End(i) PROVE TypeOK'
  BY <1>9 DEF End, Commands
<1>10. ASSUME NEW c \in Accounts, ChangeKind(c) PROVE TypeOK'
  BY <1>10, BoundsAssumption DEF ChangeKind, Usertypes
<1>11. CASE UNCHANGED vars
  BY <1>11 DEF vars
<1> QED
  BY <1>1, <1>2, <1>3, <1>4, <1>5, <1>6, <1>7, <1>8, <1>9, <1>10, <1>11 DEF Next, Step

\* Every variable holds what it should, whatever the constants are.
THEOREM TypeTheorem == Spec => []TypeOK
BY InitType, NextType, PTL DEF Spec

-----------------------------------------------------------------------------
(* What is earned stays earned *)

LEMMA PrivilegeIsRemembered ==
    ASSUME TypeOK, History, NEW c \in Callers
    PROVE  /\ CallerIsPrivileged(c) => EverPrivileged(c)
           /\ CallerIsServerAdmin(c) => EverServerAdmin(c)
           /\ EverServerAdmin(c) => EverPrivileged(c)
BY DEF History, CallerIsPrivileged, CallerIsServerAdmin, EverPrivileged, EverServerAdmin,
       UsertypeIsPrivileged, TypeOK

\* An invocation that does not move keeps what it has earned, whatever the others
\* and the administrator do.
LEMMA OthersKeep ==
    ASSUME TypeOK, NEW j \in Invs, Earned(j),
           pc'[j] = pc[j], who'[j] = who[j], cmd'[j] = cmd[j],
           target'[j] = target[j], dir'[j] = dir[j], euid'[j] = euid[j],
           \A c \in Callers : were[c] \subseteq were'[c],
           \A t \in Targets : runs[t] = "sticky" => runs'[t] = "sticky"
    PROVE  Earned(j)'
<1>1. who[j] \in Callers
  BY DEF TypeOK
<1>2. /\ EverPrivileged(who[j]) => EverPrivileged(who[j])'
      /\ EverServerAdmin(who[j]) => EverServerAdmin(who[j])'
  BY <1>1 DEF EverPrivileged, EverServerAdmin
<1> QED
  BY <1>1, <1>2 DEF Earned, AfterDir, AfterAdmin, AfterResolve

\* A step of invocation i moves nothing of another's.
LEMMA StepIsLocal ==
    ASSUME TypeOK, NEW i \in Invs, Step(i), NEW j \in Invs, j # i
    PROVE  /\ pc'[j] = pc[j] /\ who'[j] = who[j] /\ cmd'[j] = cmd[j]
           /\ target'[j] = target[j] /\ dir'[j] = dir[j] /\ euid'[j] = euid[j]
<1> USE DEF TypeOK, Goto, asked, env, trees
<1>1. CASE \/ ServerGate(i) \/ Serve(i) \/ AdminGate(i)
           \/ \E name \in Targets \cup {Unset} : Resolve(i, name)
           \/ \E given \in Given(who[i]) : StateDir(i, given)
  BY <1>1 DEF ServerGate, Serve, Resolve, AdminGate, StateDir
<1>2. CASE MakeDirs(i) \/ ChownTree(i) \/ GroupRun(i) \/ StickyRun(i)
  BY <1>2 DEF MakeDirs, ChownTree, GroupRun, StickyRun
<1>3. CASE RootHalf(i) \/ Drop(i) \/ AccountHalf(i) \/ End(i)
  BY <1>3 DEF RootHalf, Drop, AccountHalf, End
<1> QED
  BY <1>1, <1>2, <1>3 DEF Step

\* A step leaves the usertypes alone, and no `.run` loses its sticky bit.
LEMMA StepIsMonotone ==
    ASSUME TypeOK, NEW i \in Invs, Step(i)
    PROVE  /\ kind' = kind /\ were' = were
           /\ \A t \in Targets : runs[t] = "sticky" => runs'[t] = "sticky"
           /\ \A t \in Targets : runs[t] # "account's" => runs'[t] # "account's"
<1> USE DEF TypeOK, Goto, asked, env, trees
<1>1. CASE \/ ServerGate(i) \/ Serve(i) \/ AdminGate(i)
           \/ \E name \in Targets \cup {Unset} : Resolve(i, name)
           \/ \E given \in Given(who[i]) : StateDir(i, given)
  BY <1>1 DEF ServerGate, Serve, Resolve, AdminGate, StateDir
<1>2. CASE MakeDirs(i) \/ ChownTree(i) \/ GroupRun(i) \/ StickyRun(i)
  BY <1>2 DEF MakeDirs, ChownTree, GroupRun, StickyRun
<1>3. CASE RootHalf(i) \/ Drop(i) \/ AccountHalf(i) \/ End(i)
  BY <1>3 DEF RootHalf, Drop, AccountHalf, End
<1> QED
  BY <1>1, <1>2, <1>3 DEF Step

\* Each gate leaves behind what it has asked for.
LEMMA StepEarns ==
    ASSUME TypeOK, History, NEW i \in Invs, Earned(i), Step(i)
    PROVE  Earned(i)'
<1>1. /\ who[i] \in Callers /\ were' = were
      /\ \A c \in Callers : /\ EverPrivileged(c)' = EverPrivileged(c)
                             /\ EverServerAdmin(c)' = EverServerAdmin(c)
  BY StepIsMonotone DEF EverPrivileged, EverServerAdmin, TypeOK
<1>2. /\ CallerIsPrivileged(who[i]) => EverPrivileged(who[i])
      /\ CallerIsServerAdmin(who[i]) => EverServerAdmin(who[i])
      /\ EverServerAdmin(who[i]) => EverPrivileged(who[i])
  BY <1>1, PrivilegeIsRemembered
<1> USE DEF TypeOK, Goto, At, asked, env, trees, Earned, AfterDir, AfterAdmin, AfterResolve
<1>3. CASE ServerGate(i)
  BY <1>1, <1>2, <1>3 DEF ServerGate, MayServe, CallerIsRoot, Installing, Sweeping
<1>4. CASE Serve(i)
  BY <1>1, <1>4 DEF Serve
<1>5. CASE \E name \in Targets \cup {Unset} : Resolve(i, name)
  BY <1>1, <1>2, <1>5 DEF Resolve
<1>6. CASE AdminGate(i)
  BY <1>1, <1>2, <1>6 DEF AdminGate
<1>7. CASE \E given \in Given(who[i]) : StateDir(i, given)
  <2>1. PICK given \in Given(who[i]) : StateDir(i, given)
    BY <1>7
  <2>2. given # Unset => given \in Targets
    BY DEF Given
  <2> QED
    BY <1>1, <1>2, <2>1, <2>2 DEF StateDir
<1>8. CASE MakeDirs(i)
  BY <1>1, <1>8 DEF MakeDirs
<1>9. CASE ChownTree(i)
  BY <1>1, <1>9 DEF ChownTree
<1>10. CASE GroupRun(i)
  BY <1>1, <1>10 DEF GroupRun
<1>11. CASE StickyRun(i)
  BY <1>1, <1>11 DEF StickyRun
<1>12. CASE RootHalf(i)
  BY <1>1, <1>12 DEF RootHalf
<1>13. CASE Drop(i)
  BY <1>1, <1>13 DEF Drop
<1>14. CASE AccountHalf(i)
  BY <1>1, <1>14 DEF AccountHalf
<1>15. CASE End(i)
  BY <1>1, <1>15 DEF End
<1> QED
  BY <1>3, <1>4, <1>5, <1>6, <1>7, <1>8, <1>9, <1>10, <1>11, <1>12, <1>13, <1>14, <1>15 DEF Step

LEMMA InitIInv == Init => IInv
<1> SUFFICES ASSUME Init PROVE IInv
  OBVIOUS
<1>1. History
  BY DEF Init, History
<1>2. \A i \in Invs : Earned(i)
  BY DEF Init, Earned, AfterDir, AfterAdmin, AfterResolve
<1> QED
  BY InitType, <1>1, <1>2 DEF IInv

LEMMA NextIInv == IInv /\ [Next]_vars => IInv'
<1> SUFFICES ASSUME IInv, [Next]_vars PROVE IInv'
  OBVIOUS
<1>1. TypeOK /\ History /\ TypeOK'
  BY NextType DEF IInv
<1>2. ASSUME NEW i \in Invs, Step(i) PROVE History' /\ \A j \in Invs : Earned(j)'
  <2>1. History'
    BY <1>1, <1>2, StepIsMonotone DEF History
  <2>2. ASSUME NEW j \in Invs PROVE Earned(j)'
    <3>1. CASE j = i
      BY <1>1, <1>2, <3>1, StepEarns DEF IInv
    <3>2. CASE j # i
      BY <1>1, <1>2, <3>2, StepIsLocal, StepIsMonotone, OthersKeep DEF IInv
    <3> QED
      BY <3>1, <3>2
  <2> QED
    BY <2>1, <2>2
<1>3. ASSUME NEW i \in Invs, NEW c \in Callers, NEW what \in Issued, Begin(i, c, what)
      PROVE  History' /\ \A j \in Invs : Earned(j)'
  <2> USE <1>1, <1>3 DEF Begin, Goto, env, trees, TypeOK
  <2>1. History'
    BY DEF History
  <2>2. ASSUME NEW j \in Invs PROVE Earned(j)'
    <3>1. CASE j = i
      BY <3>1 DEF Earned, AfterDir, AfterAdmin, AfterResolve
    <3>2. CASE j # i
      BY <3>2, OthersKeep DEF IInv
    <3> QED
      BY <3>1, <3>2
  <2> QED
    BY <2>1, <2>2
<1>4. ASSUME NEW c \in Accounts, ChangeKind(c)
      PROVE  History' /\ \A j \in Invs : Earned(j)'
  <2> USE <1>1, <1>4 DEF ChangeKind, asked, trees, TypeOK
  <2>1. History'
    BY DEF History
  <2>2. ASSUME NEW j \in Invs PROVE Earned(j)'
    BY OthersKeep DEF IInv
  <2> QED
    BY <2>1, <2>2
<1>5. CASE UNCHANGED vars
  <2>1. History'
    BY <1>1, <1>5 DEF vars, env, trees, asked, History
  <2>2. ASSUME NEW j \in Invs PROVE Earned(j)'
    BY <1>1, <1>5, OthersKeep DEF vars, env, trees, asked, IInv
  <2> QED
    BY <1>1, <2>1, <2>2 DEF IInv
<1> QED
  BY <1>1, <1>2, <1>3, <1>4, <1>5 DEF Next, IInv

LEMMA SpecIInv == Spec => []IInv
BY InitIInv, NextIInv, PTL DEF Spec

-----------------------------------------------------------------------------
(* The theorems *)

\* However authority changes between its gates, an invocation does as root only
\* what its caller has at some time been entitled to.
THEOREM AuthorityTheorem == Spec => []ActsWithinAuthority
<1>1. IInv => ActsWithinAuthority
  <2> SUFFICES ASSUME IInv, NEW i \in Invs
               PROVE  /\ Served(i) /\ cmd[i] \in Installing => who[i] = Root
                      /\ Served(i) /\ cmd[i] \in Sweeping => EverPrivileged(who[i])
                      /\ RanAsRoot(i) /\ cmd[i] = "policy" =>
                            who[i] \in {Root} \cup Services \/ "admin" \in were[who[i]]
                      /\ RanAsRoot(i) /\ cmd[i] # "account" => EverPrivileged(who[i])
                      /\ RanAsRoot(i) /\ {dir[i], target[i]} # {who[i]} => EverPrivileged(who[i])
    BY DEF ActsWithinAuthority
  <2>1. Earned(i) /\ cmd[i] \in Commands
    BY DEF IInv, TypeOK
  <2>2. RanAsRoot(i) => pc[i] \in AfterDir /\ pc[i] \in AfterAdmin /\ pc[i] \in AfterResolve
    BY DEF RanAsRoot, AfterDir, AfterAdmin, AfterResolve
  <2>3. RanAsRoot(i) /\ cmd[i] # "account" => cmd[i] \in Admin
    BY <2>1, <2>2 DEF Earned, Commands
  <2> QED
    BY <2>1, <2>2, <2>3 DEF Earned, Served, EverServerAdmin
<1> QED
  BY <1>1, SpecIInv, PTL

\* What runs after the drop is the account, never root, in a tree that is ready.
THEOREM DropTheorem == Spec => []DropIsComplete
<1>1. IInv => DropIsComplete
  BY DEF IInv, Earned, DropIsComplete
<1> QED
  BY <1>1, SpecIInv, PTL

\* A tree stays with its account, and what the panel executes with root.
THEOREM TreesTheorem == Spec => TreesStayWithOwners
<1>1. IInv /\ [Next]_vars =>
         [\A t \in Targets :
            /\ own'[t] \in {own[t], Root, t}
               \/ \E i \in Invs : dir[i] = t /\ EverPrivileged(who[i])
            /\ runs'[t] # "account's"
            /\ runs[t] = "sticky" => runs'[t] = "sticky"]_vars
  <2> SUFFICES ASSUME IInv, Next, NEW t \in Targets
               PROVE  /\ own'[t] \in {own[t], Root, t}
                         \/ \E i \in Invs : dir[i] = t /\ EverPrivileged(who[i])
                      /\ runs'[t] # "account's"
                      /\ runs[t] = "sticky" => runs'[t] = "sticky"
    OBVIOUS
  <2> USE DEF IInv, TypeOK, env, trees, asked
  <2>1. CASE UNCHANGED trees
    BY <2>1 DEF History
  <2>2. ASSUME NEW i \in Invs, Step(i)
        PROVE  /\ runs'[t] # "account's"
               /\ runs[t] = "sticky" => runs'[t] = "sticky"
    BY <2>2, StepIsMonotone DEF History
  <2>3. ASSUME NEW i \in Invs, MakeDirs(i) PROVE own'[t] \in {own[t], Root, t}
    BY <2>3 DEF MakeDirs
  <2>4. ASSUME NEW i \in Invs, ChownTree(i)
        PROVE  own'[t] \in {own[t], Root, t} \/ (dir[i] = t /\ EverPrivileged(who[i]))
    BY <2>4 DEF ChownTree, At, Earned, AfterDir, AfterAdmin, AfterResolve
  <2>5. ASSUME NEW i \in Invs, GroupRun(i) \/ StickyRun(i) PROVE own'[t] = own[t]
    BY <2>5 DEF GroupRun, StickyRun
  <2>6. ASSUME NEW i \in Invs,
                  \/ ServerGate(i) \/ Serve(i) \/ AdminGate(i)
                  \/ \E name \in Targets \cup {Unset} : Resolve(i, name)
                  \/ \E given \in Given(who[i]) : StateDir(i, given)
                  \/ RootHalf(i) \/ Drop(i) \/ AccountHalf(i) \/ End(i)
        PROVE  UNCHANGED trees
    BY <2>6 DEF ServerGate, Serve, Resolve, AdminGate, StateDir, RootHalf, Drop, AccountHalf, End
  <2>7. ASSUME NEW i \in Invs, NEW c \in Callers, NEW what \in Issued, Begin(i, c, what)
        PROVE  UNCHANGED trees
    BY <2>7 DEF Begin
  <2>8. ASSUME NEW c \in Accounts, ChangeKind(c) PROVE UNCHANGED trees
    BY <2>8 DEF ChangeKind
  <2> QED
    BY <2>1, <2>2, <2>3, <2>4, <2>5, <2>6, <2>7, <2>8 DEF Next, Step
<1> QED
  BY <1>1, SpecIInv, PTL DEF Spec, TreesStayWithOwners
=============================================================================
