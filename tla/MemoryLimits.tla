---------------------------- MODULE MemoryLimits ----------------------------
(***************************************************************************)
(* How ONE account's memory allowance is divided between its running apps. *)
(* Nobody owns the division: each command that changes who runs re-resolves*)
(* the limits of every live scope, one `systemctl set-property` at a time  *)
(* and with no lock; the proxy sweep does it again every few seconds.      *)
(*                                                                         *)
(* AppRun has the life cycle in full: here an app's scope is there or not, *)
(* and a command is the calls it makes to limits/usage.rs, in their order. *)
(* The host runs systemd scopes (can_run_scopes); set-property succeeds on *)
(* a unit that exists.                                                     *)
(***************************************************************************)
EXTENDS Integers, FiniteSets, FiniteSetsExt, Functions

CONSTANTS
    Apps,         \* the names of the account's apps
    Invs,         \* invocation slots
    Allowances,   \* what DirectAdmin may allow the account
    Pins,         \* ceilings a user may choose for an app
    NoLimit,      \* no allowance, no pin, no cap
    NoLimits,     \* a scope with no limits
    NoSlice,      \* the account's slice does not exist
    NoApp,        \* no application
    FLOOR, HEADROOM,  \* of policy.rs
    Commands,     \* the commands the run issues, a subset of CommandNames
    MaxActive,    \* bound: invocations in flight at once
    MaxChanges    \* bound: commands other than the sweep, exits, cuts and
                  \* changes of the allowance

CommandNames == {"start", "restart", "stop", "remove", "add", "set-memory-max", "stats", "sync"}

ASSUME AppsAssumption == IsFiniteSet(Apps)

ASSUME NumbersAssumption ==
    /\ Allowances \subseteq Nat /\ Pins \subseteq Nat \ {0}
    /\ FLOOR \in Nat /\ HEADROOM \in Nat

ASSUME NullsAssumption ==
    /\ NoLimit \notin Nat /\ NoSlice \notin Nat \cup {NoLimit} /\ NoApp \notin Apps
    /\ NoLimits \notin [min : Nat, high : Nat, max : Nat]

ASSUME BoundsAssumption ==
    Commands \subseteq CommandNames /\ MaxActive \in Nat /\ MaxChanges \in Nat

-----------------------------------------------------------------------------
(* policy.rs *)

Least(x, y) == IF x < y THEN x ELSE y
Greatest(x, y) == IF x > y THEN x ELSE y

AppLimits == [min : Nat, high : Nat, max : Nat]

\* u64::clamp
Clamp(x, lo, hi) == IF x < lo THEN lo ELSE IF x > hi THEN hi ELSE x

Elastic(pool) == (pool * 80) \div 100

\* The smallest share of a pool (FLOOR, of a pool that has it).
Smallest(pool) == Least(FLOOR, pool)

\* What the account's pool gives an app that shares it with running - 1 others.
Guarantee(pool, running) ==
    Clamp(pool \div Greatest(running, 1), Smallest(pool), Greatest(Elastic(pool), Smallest(pool)))

Ceiling(pool, running) == Greatest(Elastic(pool), Guarantee(pool, running))

\* (A slip the runs must notice: the guarantee is forgotten.)
HighBelow(min, max) == Greatest(max - HEADROOM, 0)

\* The throttle point lies HEADROOM below the ceiling, never below the guarantee.
HighOf(min, max) == Greatest(Greatest(max - HEADROOM, 0), min)

\* app_limits.  A pin only narrows what the app may take.
Limits(pool, running, pinned) ==
    LET top == Ceiling(pool, running)
        max == IF pinned = NoLimit THEN top ELSE Least(top, pinned)
        min == Least(Guarantee(pool, running), max)
    IN  [min |-> min, high |-> HighOf(min, max), max |-> max]

\* Without an allowance there is no pool to divide, but a pin still holds.
PinAlone(cap) == [min |-> 0, high |-> Greatest(Greatest(cap - HEADROOM, 0), 1), max |-> cap]

-----------------------------------------------------------------------------

VARIABLES
    account,  \* the allowance in user.conf, or NoLimit
    reg,      \* the apps that are registered
    pin,      \* [Apps -> the memory_max of its registration, or NoLimit]
    scope,    \* [Apps -> "none"; "live": processes; "empty": not yet collected]
    lim,      \* [Apps -> the limits in force on its scope, or NoLimits]
    slice,    \* the cap in force on the slice, or NoLimit, or NoSlice
    launches, \* systemd-run calls that systemd has not answered: [app, lim]
    pc,       \* [Invs -> the next step of the invocation]
    cmd,      \* [Invs -> its command]
    app,      \* [Invs -> the app it is about]
    da,       \* [Invs -> the allowance it read at its beginning]
    own,      \* [Invs -> the pin it read with the registration it starts]
    todo,     \* [Invs -> the apps reapply_app_limits has still to look at]
    aim,      \* [Invs -> the app whose limits it has resolved and not yet set]
    val,      \* [Invs -> those limits]
    changes,  \* how much of MaxChanges is used
    alone,    \* nothing has disturbed the invocation in flight (history variable)
    mixed     \* something has happened that only a sweep puts right (history)

host == <<scope, lim, slice, launches>>
conf == <<account, reg, pin>>
loop == <<todo, aim, val>>
args == <<cmd, app, da, own>>
past == <<changes, alone, mixed>>
vars == <<host, conf, loop, args, pc, past>>

LimitsOrNone == AppLimits \cup {NoLimits}

Steps == {"idle", "pin", "cap", "kill", "load", "reapply", "spawn", "recap", "wait",
          "unregister", "down", "register"}

TypeOK ==
    /\ account \in Allowances \cup {NoLimit}
    /\ reg \subseteq Apps
    /\ pin \in [Apps -> Pins \cup {NoLimit}]
    /\ scope \in [Apps -> {"none", "live", "empty"}]
    /\ lim \in [Apps -> LimitsOrNone]
    /\ \A a \in Apps : scope[a] = "none" => lim[a] = NoLimits
    /\ slice \in Allowances \cup {NoLimit, NoSlice}
    /\ launches \subseteq [app : Apps, lim : LimitsOrNone]
    /\ pc \in [Invs -> Steps]
    /\ cmd \in [Invs -> CommandNames]
    /\ app \in [Invs -> Apps \cup {NoApp}]
    /\ da \in [Invs -> Allowances \cup {NoLimit}]
    /\ own \in [Invs -> Pins \cup {NoLimit}]
    /\ todo \in [Invs -> SUBSET Apps]
    /\ aim \in [Invs -> Apps \cup {NoApp}]
    /\ val \in [Invs -> LimitsOrNone]
    /\ changes \in 0..MaxChanges
    /\ alone \in BOOLEAN /\ mixed \in BOOLEAN

\* scope_is_live: the directory is there, with processes or without.
ScopeIsLive(a) == scope[a] # "none"

-----------------------------------------------------------------------------
(* usage.rs *)

\* (A slip: get_status, which as root calls every other app stopped.)
SharingAlone(a, pending, leaving) == {a}

\* The apps app_limits_for_with counts: the app itself, the registered ones
\* whose scope is there or that are pending, and none that is leaving.
Sharing(a, pending, leaving) ==
    {a} \cup {b \in reg \ leaving : ScopeIsLive(b) \/ b \in pending}

AppLimitsFor(a, pinned, pending, leaving) ==
    IF account = NoLimit
    THEN IF pinned = NoLimit THEN NoLimits ELSE PinAlone(pinned)
    ELSE Limits(account, Cardinality(Sharing(a, pending, leaving)), pinned)

Resolved(a) == AppLimitsFor(a, pin[a], {}, {})

InFlight == {i \in Invs : pc[i] # "idle"}
At(i, step) == pc[i] = step
Goto(i, step) == pc' = [pc EXCEPT ![i] = step]

\* (A slip: the cap of an account that has lost its allowance is not cleared.)
SetCapIfLimited(cap) == slice' = IF slice = NoSlice \/ cap = NoLimit THEN slice ELSE cap

\* ensure_slice_cap: set-property on a slice that does not exist fails.
SetCap(cap) == slice' = IF slice = NoSlice THEN NoSlice ELSE cap

\* list_app_names, at the head of reapply_app_limits.
EnterLoop(i) == Goto(i, "reapply") /\ todo' = [todo EXCEPT ![i] = reg]

\* Start and restart resolve as if their app were running already, stop and
\* remove as if theirs had gone.
Pending(i) == IF cmd[i] \in {"start", "restart"} THEN {app[i]} ELSE {}
Leaving(i) == IF cmd[i] \in {"stop", "remove"} THEN {app[i]} ELSE {}

-----------------------------------------------------------------------------
(* The initial states: a sweep has just divided the allowance between the apps *)
(* that run.                                                                   *)

Init ==
    /\ account \in Allowances \cup {NoLimit}
    /\ reg = Apps
    /\ pin = [a \in Apps |-> NoLimit]
    /\ \E up \in SUBSET Apps :
          /\ scope = [a \in Apps |-> IF a \in up THEN "live" ELSE "none"]
          /\ lim = [a \in Apps |-> IF a \in up THEN Resolved(a) ELSE NoLimits]
          /\ slice = IF up = {} THEN NoSlice ELSE account
    /\ launches = {}
    /\ pc = [i \in Invs |-> "idle"] /\ cmd = [i \in Invs |-> "stats"]
    /\ app = [i \in Invs |-> NoApp]
    /\ da = [i \in Invs |-> NoLimit] /\ own = [i \in Invs |-> NoLimit]
    /\ todo = [i \in Invs |-> {}]
    /\ aim = [i \in Invs |-> NoApp] /\ val = [i \in Invs |-> NoLimits]
    /\ changes = 0 /\ alone = FALSE /\ mixed = FALSE

-----------------------------------------------------------------------------
(* Invocations begin and end *)

FirstStep(c) == CASE c = "add" -> "register" [] c = "set-memory-max" -> "pin" [] OTHER -> "cap"

\* Something changes, other than what the code itself does about it.
Change == changes < MaxChanges /\ changes' = changes + 1

\* read_da_limits comes first.  One sweep at a time holds its lock.
Begin(i, c, a) ==
    /\ At(i, "idle")
    /\ Cardinality(InFlight) < MaxActive
    /\ IF c = "sync"
       THEN (\A k \in InFlight : cmd[k] # "sync") /\ UNCHANGED changes
       ELSE Change
    /\ cmd' = [cmd EXCEPT ![i] = c]
    /\ app' = [app EXCEPT ![i] = IF c \in {"sync", "stats"} THEN NoApp ELSE a]
    /\ da' = [da EXCEPT ![i] = account]
    /\ Goto(i, FirstStep(c))
    /\ alone' = (InFlight = {} /\ launches = {})
    /\ mixed' = (mixed \/ InFlight # {})
    /\ UNCHANGED <<host, conf, loop, own>>

\* The invocation ends.
Leave(i) ==
    /\ Goto(i, "idle")
    /\ cmd' = [cmd EXCEPT ![i] = "stats"] /\ app' = [app EXCEPT ![i] = NoApp]
    /\ da' = [da EXCEPT ![i] = NoLimit] /\ own' = [own EXCEPT ![i] = NoLimit]

\* A sweep that nothing disturbed puts everything right.
Finish(i) ==
    /\ Leave(i)
    /\ mixed' = (mixed /\ ~(cmd[i] = "sync" /\ alone
                            /\ \A a \in Apps : scope[a] = "live" => a \in reg))
    /\ UNCHANGED <<changes, alone>>

-----------------------------------------------------------------------------
(* The calls to limits/usage.rs, in the order of plan.rs and proxysync.rs *)

\* apply_memory_max: the pin is in the registration before anything is resolved.
WritePin(i) ==
    /\ At(i, "pin")
    /\ \E p \in Pins \cup {NoLimit} :
          pin' = IF app[i] \in reg THEN [pin EXCEPT ![app[i]] = p] ELSE pin
    /\ Goto(i, "cap")
    /\ UNCHANGED <<host, account, reg, loop, args, past>>

\* ensure_slice_cap, with the allowance read at the beginning.
CapSlice(i) ==
    /\ At(i, "cap")
    /\ SetCap(da[i])
    /\ CASE cmd[i] = "stats" -> Finish(i) /\ UNCHANGED todo
         [] cmd[i] = "start" -> Goto(i, "load") /\ UNCHANGED <<todo, args, past>>
         [] cmd[i] = "restart" -> Goto(i, "kill") /\ UNCHANGED <<todo, args, past>>
         [] OTHER -> EnterLoop(i) /\ UNCHANGED <<args, past>>
    /\ UNCHANGED <<scope, lim, launches, conf, aim, val>>

\* spawn_for reads the registration of the app it starts, once.
Load(i) ==
    /\ At(i, "load")
    /\ IF app[i] \in reg
       THEN /\ own' = [own EXCEPT ![i] = pin[app[i]]]
            /\ EnterLoop(i)
            /\ UNCHANGED <<cmd, app, da, past>>
       ELSE Finish(i) /\ UNCHANGED todo
    /\ UNCHANGED <<host, conf, aim, val>>

\* (A slip: the app that is about to start is not counted.)
ResolveLive(i) ==
    /\ At(i, "reapply") /\ aim[i] = NoApp
    /\ \E a \in todo[i] :
          /\ todo' = [todo EXCEPT ![i] = @ \ {a}]
          /\ IF a \in reg \ Leaving(i) /\ ScopeIsLive(a)
             THEN /\ aim' = [aim EXCEPT ![i] = a]
                  /\ val' = [val EXCEPT ![i] = AppLimitsFor(a, pin[a], {}, Leaving(i))]
             ELSE UNCHANGED <<aim, val>>
    /\ UNCHANGED <<host, conf, args, pc, past>>

\* reapply_app_limits_with looks at the next app.
Resolve(i) ==
    /\ At(i, "reapply") /\ aim[i] = NoApp
    /\ \E a \in todo[i] :
          /\ todo' = [todo EXCEPT ![i] = @ \ {a}]
          /\ IF a \in reg \ Leaving(i) /\ ScopeIsLive(a)
             THEN /\ aim' = [aim EXCEPT ![i] = a]
                  /\ val' = [val EXCEPT ![i] = AppLimitsFor(a, pin[a], Pending(i), Leaving(i))]
             ELSE UNCHANGED <<aim, val>>
    /\ UNCHANGED <<host, conf, args, pc, past>>

\* (A slip: an account without an allowance is passed over, not cleared.)
ApplyIfLimited(i) ==
    /\ At(i, "reapply") /\ aim[i] # NoApp
    /\ lim' = IF ScopeIsLive(aim[i]) /\ val[i] # NoLimits
              THEN [lim EXCEPT ![aim[i]] = val[i]] ELSE lim
    /\ aim' = [aim EXCEPT ![i] = NoApp] /\ val' = [val EXCEPT ![i] = NoLimits]
    /\ UNCHANGED <<scope, slice, launches, conf, todo, args, pc, past>>

\* (A slip: the limits are kept for a scope that is not there.)
ApplyBlindly(i) ==
    /\ At(i, "reapply") /\ aim[i] # NoApp
    /\ lim' = [lim EXCEPT ![aim[i]] = val[i]]
    /\ aim' = [aim EXCEPT ![i] = NoApp] /\ val' = [val EXCEPT ![i] = NoLimits]
    /\ UNCHANGED <<scope, slice, launches, conf, todo, args, pc, past>>

\* systemctl set-property, which a scope that has gone meanwhile does not take.
Apply(i) ==
    /\ At(i, "reapply") /\ aim[i] # NoApp
    /\ lim' = IF ScopeIsLive(aim[i]) THEN [lim EXCEPT ![aim[i]] = val[i]] ELSE lim
    /\ aim' = [aim EXCEPT ![i] = NoApp] /\ val' = [val EXCEPT ![i] = NoLimits]
    /\ UNCHANGED <<scope, slice, launches, conf, todo, args, pc, past>>

AfterLoop(i) ==
    /\ At(i, "reapply") /\ todo[i] = {} /\ aim[i] = NoApp
    /\ CASE cmd[i] \in {"start", "restart"} -> Goto(i, "spawn") /\ UNCHANGED <<args, past>>
         [] cmd[i] = "stop" -> Goto(i, "down") /\ UNCHANGED <<args, past>>
         [] cmd[i] = "remove" -> Goto(i, "unregister") /\ UNCHANGED <<args, past>>
         [] OTHER -> Finish(i)
    /\ UNCHANGED <<host, conf, loop>>

\* spawn_into_scope resolves the app's own limits and runs systemd-run, which
\* answers in its own time; the spawn itself may fail.
Spawn(i) ==
    /\ At(i, "spawn")
    /\ \/ Finish(i) /\ UNCHANGED launches
       \/ /\ launches' = launches \cup
                 {[app |-> app[i], lim |-> AppLimitsFor(app[i], own[i], {}, {})]}
          /\ Goto(i, "recap") /\ UNCHANGED <<args, past>>
    /\ UNCHANGED <<scope, lim, slice, conf, loop>>

\* ensure_slice_cap again, whether or not the slice exists by now.
Recap(i) ==
    /\ At(i, "recap")
    /\ SetCap(da[i])
    /\ Goto(i, "wait")
    /\ UNCHANGED <<scope, lim, launches, conf, loop, args, past>>

-----------------------------------------------------------------------------
(* What the commands do besides: the whole of it is AppRun *)

\* The app is killed.  A helper that outlives it keeps its scope alive.
Kill(a) ==
    \/ scope[a] # "live" /\ UNCHANGED <<scope, mixed>>
    \/ scope[a] = "live" /\ scope' = [scope EXCEPT ![a] = "empty"] /\ UNCHANGED mixed
    \/ scope[a] = "live" /\ mixed' = TRUE /\ UNCHANGED scope

\* restart stops the app, as root, before it resolves anything.
StopTree(i) ==
    /\ At(i, "kill")
    /\ IF app[i] \in reg THEN Kill(app[i]) ELSE UNCHANGED <<scope, mixed>>
    /\ Goto(i, "load")
    /\ UNCHANGED <<lim, slice, launches, conf, loop, args, changes, alone>>

\* start waits for its app, and answers ...
Started(i) ==
    /\ At(i, "wait")
    /\ \A l \in launches : l.app # app[i]
    /\ Finish(i)
    /\ UNCHANGED <<host, conf, loop>>

\* ... or gives up and takes along what it has launched.
GiveUp(i) ==
    /\ At(i, "wait")
    /\ launches' = {l \in launches : l.app # app[i]}
    /\ Kill(app[i])
    /\ Leave(i)
    /\ UNCHANGED <<lim, slice, conf, loop, changes, alone>>

Unregister(i) ==
    /\ At(i, "unregister")
    /\ IF app[i] \in reg
       THEN reg' = reg \ {app[i]} /\ Goto(i, "down") /\ UNCHANGED <<args, past>>
       ELSE Finish(i) /\ UNCHANGED reg
    /\ UNCHANGED <<host, account, pin, loop>>

\* The account's half of stop and remove.
Down(i) ==
    /\ At(i, "down")
    /\ IF app[i] \in reg \/ cmd[i] = "remove" THEN Kill(app[i]) ELSE UNCHANGED <<scope, mixed>>
    /\ Leave(i)
    /\ UNCHANGED <<lim, slice, launches, conf, loop, changes, alone>>

Add(i) ==
    /\ At(i, "register")
    /\ \/ app[i] \in reg /\ UNCHANGED <<reg, pin>>
       \/ /\ app[i] \notin reg /\ reg' = reg \cup {app[i]}
          /\ pin' = [pin EXCEPT ![app[i]] = NoLimit]
    /\ Finish(i)
    /\ UNCHANGED <<host, account, loop>>

-----------------------------------------------------------------------------
(* systemd, the apps, the administrator *)

\* The first app of an account brings the slice; a name that is taken is refused.
Register ==
    \E l \in launches :
       /\ launches' = launches \ {l}
       /\ IF scope[l.app] = "none"
          THEN /\ scope' = [scope EXCEPT ![l.app] = "live"]
               /\ lim' = [lim EXCEPT ![l.app] = l.lim]
               /\ slice' = IF slice = NoSlice THEN NoLimit ELSE slice
          ELSE UNCHANGED <<scope, lim, slice>>
       /\ UNCHANGED <<conf, loop, args, pc, past>>

Exit(a) ==
    /\ scope[a] = "live" /\ scope' = [scope EXCEPT ![a] = "empty"]
    /\ Change
    /\ UNCHANGED <<lim, slice, launches, conf, loop, args, pc, alone, mixed>>

\* --collect unloads an empty scope.
CollectUnit(a) ==
    /\ scope[a] = "empty"
    /\ scope' = [scope EXCEPT ![a] = "none"] /\ lim' = [lim EXCEPT ![a] = NoLimits]
    /\ UNCHANGED <<slice, launches, conf, loop, args, pc, past>>

\* A slice nothing runs in may be unloaded, and its cap with it.
CollectSlice ==
    /\ slice # NoSlice /\ \A a \in Apps : ~ScopeIsLive(a)
    /\ slice' = NoSlice
    /\ UNCHANGED <<scope, lim, launches, conf, loop, args, pc, past>>

ChangeAllowance ==
    /\ account' \in (Allowances \cup {NoLimit}) \ {account}
    /\ Change /\ alone' = FALSE /\ mixed' = TRUE
    /\ UNCHANGED <<host, reg, pin, loop, args, pc>>

\* core-selynt is killed between two of its steps.
CutShort(i) ==
    /\ ~At(i, "idle")
    /\ Leave(i)
    /\ todo' = [todo EXCEPT ![i] = {}]
    /\ aim' = [aim EXCEPT ![i] = NoApp] /\ val' = [val EXCEPT ![i] = NoLimits]
    /\ Change /\ alone' = FALSE /\ mixed' = TRUE
    /\ UNCHANGED <<host, conf>>

-----------------------------------------------------------------------------
(* The specification *)

Step(i) ==
    \/ WritePin(i) \/ CapSlice(i) \/ Load(i) \/ Resolve(i) \/ Apply(i) \/ AfterLoop(i)
    \/ Spawn(i) \/ Recap(i) \/ StopTree(i) \/ Started(i) \/ GiveUp(i)
    \/ Unregister(i) \/ Down(i) \/ Add(i)

Next ==
    \/ \E i \in Invs, c \in Commands, a \in Apps : Begin(i, c, a)
    \/ \E i \in Invs : Step(i) \/ CutShort(i)
    \/ \E a \in Apps : Exit(a) \/ CollectUnit(a)
    \/ Register \/ CollectSlice \/ ChangeAllowance

\* The kernel schedules commands, systemd answers, and the timer's sweep comes
\* round again whenever none is running.
Fairness ==
    /\ \A i \in Invs : WF_vars(Step(i))
    /\ WF_vars(Register)
    /\ \A a \in Apps : WF_vars(CollectUnit(a))
    /\ WF_vars(\E i \in Invs, a \in Apps : Begin(i, "sync", a))

Spec == Init /\ [][Next]_vars
FairSpec == Spec /\ Fairness

-----------------------------------------------------------------------------
(* Properties *)

LiveApps == {a \in Apps : scope[a] = "live"}

\* Throttling begins between the guarantee and the hard stop (app_limits,
\* app_limits_for_with), whatever the pool, the siblings and the pin.
LimitsAreOrdered ==
    \A a \in Apps : lim[a] # NoLimits =>
        lim[a].min <= lim[a].high /\ lim[a].high <= lim[a].max

\* What the live apps are guaranteed together is there to be guaranteed, unless
\* the account is too small for that many apps to start at all.
GuaranteesFit ==
    account # NoLimit /\ Cardinality(LiveApps) * FLOOR <= account =>
        MapThenSumSet(LAMBDA a : IF lim[a] = NoLimits THEN 0 ELSE lim[a].min, LiveApps) <= account

Settled == InFlight = {} /\ ~mixed

\* Between commands that did not overlap, apps that crash, fail to start or are
\* stopped never leave the others guaranteed more than there is.
SettledGuaranteesFit == Settled => GuaranteesFit

\* "Resolve the siblings before this app appears, so they shrink first"
\* (spawn_for): the newcomer's scope is never one too many.
SiblingsShrinkFirst ==
    [][\A a \in Apps : scope[a] = "none" /\ scope'[a] = "live" /\ ~mixed' => GuaranteesFit']_vars

CeilingOf(l) == IF l = NoLimits THEN NoLimit ELSE l.max

\* A pin and an allowance are in force on the live scopes as soon as the command
\* that sets them, or the sweep that finds them, has answered: "waiting for a
\* restart would leave the app on its old, larger ceiling" (plan.rs).
CeilingIsCurrent ==
    Settled => \A a \in LiveApps \cap reg : CeilingOf(lim[a]) = CeilingOf(Resolved(a))

\* Whatever overlapped, was killed or failed: when nothing changes any more, the
\* sweep brings every live app, and the slice, to what the code says they get.
LimitsConverge ==
    <>[](/\ \A a \in reg : ScopeIsLive(a) => lim[a] = Resolved(a)
         /\ slice \in {NoSlice, account})
=============================================================================
