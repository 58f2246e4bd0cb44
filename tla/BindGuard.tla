----------------------------- MODULE BindGuard -----------------------------
(***************************************************************************)
(* No application may serve from a port reachable from off the host.  Two  *)
(* things see to it: the bind guard, the BPF programs of BindProgram       *)
(* attached to selynt.slice before an application is born in it, and the   *)
(* netguard, a sweep every 15 s that stops whoever is exposed.  The sweep  *)
(* counts UDP sockets only while the guard is not in place, for it cannot  *)
(* tell a UDP client from a UDP service.                                   *)
(*                                                                         *)
(* systemd may drop the slice, and the programs with it, once nothing runs *)
(* in it, also between a start's being told that the guard is in place and *)
(* the app's birth; an attachment may fail half way.  The sweep goes by    *)
(* the registrations, and nobody's leftovers have one.  A bind() runs its  *)
(* program to the end within the kernel: nothing else happens meanwhile.   *)
(***************************************************************************)
EXTENDS BindProgram, FiniteSets

CONSTANTS
    Apps,        \* what runs in the slice: applications and their npm jobs
    Invs,        \* invocation slots
    NoApp,       \* nobody
    MaxBegins,   \* bound: invocations ever begun
    MaxSockets   \* bound: sockets a process holds

ASSUME GuardAssumption == NoApp \notin Apps /\ MaxBegins \in Nat /\ MaxSockets \in Nat

VARIABLES
    slice,    \* selynt.slice exists
    hooks,    \* the families whose program is attached to it
    reg,      \* who has a registration that loads
    up,       \* [Apps -> something of it runs, in the slice]
    asjob,    \* [Apps -> what runs is its npm job]
    socks,    \* [Apps -> its sockets, listening if they are TCP]
    binder,   \* whose bind() the kernel is in
    pc, op, app, \* [Invs -> step, command, application]
    sure,     \* [Invs -> ensure has answered Ok]
    cg,       \* [Invs -> the cgroup it has opened, or found guarded, is still the
              \*          slice's, with the programs it had]
    udp,      \* [Invs -> what it has read: UDP counts]
    timer,    \* the panel's units are installed
    sw, swudp, swtodo, \* the sweep: its step, whether UDP counts, the apps left
    begins,
    owed,     \* [Apps -> its start was told the guard was in place]
    lost      \* [Apps -> since then the slice was dropped, or a program detached]

inv   == <<pc, op, app, sure, cg, udp>>
life  == <<up, asjob, socks, owed, lost>>     \* owed and lost are history
sweep == <<sw, swudp, swtodo>>
vars  == <<cpu, slice, hooks, reg, life, binder, inv, timer, sweep, begins>>

\* external: reachable from off the host, as /proc shows it.  allowed: by the rule.
Socket == [proto : {"tcp", "udp"}, external : BOOLEAN, allowed : BOOLEAN]

Ops == {"start", "job", "refresh", "teardown"}
Steps == {"idle", "e_slice", "e_query", "attach4", "attach6", "spawn", "w_query", "w_scan",
          "t_stop", "t_detach4", "t_detach6"}

TypeOK ==
    /\ busy \in BOOLEAN /\ ctx \in Context \cup {NoContext} /\ at \in 0..18 /\ r2 \in Word
    /\ r0 \in {NoVerdict, 0, 1}
    /\ slice \in BOOLEAN /\ hooks \subseteq {4, 6} /\ reg \subseteq Apps
    /\ up \in [Apps -> BOOLEAN] /\ asjob \in [Apps -> BOOLEAN] /\ socks \in [Apps -> SUBSET Socket]
    /\ binder \in Apps \cup {NoApp}
    /\ pc \in [Invs -> Steps] /\ op \in [Invs -> Ops] /\ app \in [Invs -> Apps \cup {NoApp}]
    /\ sure \in [Invs -> BOOLEAN] /\ cg \in [Invs -> BOOLEAN] /\ udp \in [Invs -> BOOLEAN]
    /\ timer \in BOOLEAN
    /\ sw \in {"idle", "scan"} /\ swudp \in BOOLEAN /\ swtodo \subseteq Apps
    /\ begins \in Nat /\ owed \in [Apps -> BOOLEAN] /\ lost \in [Apps -> BOOLEAN]

-----------------------------------------------------------------------------
(* What is read *)

\* (A slip: one program answers for both.)
ActiveByV4 == slice /\ 4 \in hooks

\* active: both programs are attached to the slice, by their names.
Active == slice /\ hooks = {4, 6}

\* is_externally_bound, of an address in /proc/net.
IsExternallyBound(c) ==
    IF c.family = 4 THEN c.ip[1][1] # LOOPBACK_OCTET
    ELSE ~ \/ c.ip = <<Zero, Zero, Zero, IP6_LAST_WORD_ONE>>
           \/ c.ip[3] = IP6_V4_MAPPED /\ c.ip[4][1] = LOOPBACK_OCTET

SocketOf(proto, c) ==
    [proto |-> proto, external |-> IsExternallyBound(c), allowed |-> Allowed(c)]

\* (A slip: only the UDP tables are looked at.)
HasUdpOnly(a, counts) == \E s \in socks[a] : s.external /\ s.proto = "udp" /\ counts

\* has_external_listen: a UDP socket has no LISTEN state, any bound one counts.
HasExternalListen(a, counts) ==
    \E s \in socks[a] : s.external /\ (s.proto = "tcp" \/ counts)

-----------------------------------------------------------------------------

At(i, step) == pc[i] = step

\* The invocation's next step; one that has answered, whatever it says, is gone.
Goto(i, step) ==
    /\ pc' = [pc EXCEPT ![i] = step]
    /\ op' = [op EXCEPT ![i] = IF step = "idle" THEN "start" ELSE @]
    /\ app' = [app EXCEPT ![i] = IF step = "idle" THEN NoApp ELSE @]

Init ==
    /\ CpuInit
    /\ slice = FALSE /\ hooks = {} /\ reg \in SUBSET Apps
    /\ up = [a \in Apps |-> FALSE] /\ asjob = [a \in Apps |-> FALSE]
    /\ socks = [a \in Apps |-> {}] /\ binder = NoApp
    /\ pc = [i \in Invs |-> "idle"] /\ op = [i \in Invs |-> "start"]
    /\ app = [i \in Invs |-> NoApp] /\ sure = [i \in Invs |-> FALSE]
    /\ cg = [i \in Invs |-> FALSE] /\ udp = [i \in Invs |-> FALSE]
    /\ timer = TRUE /\ sw = "idle" /\ swudp = FALSE /\ swtodo = {}
    /\ begins = 0
    /\ owed = [a \in Apps |-> FALSE] /\ lost = [a \in Apps |-> FALSE]

\* A start or a job of an app that is not registered spawns nothing.
Begin(i, o, a) ==
    /\ At(i, "idle") /\ begins < MaxBegins /\ begins' = begins + 1
    /\ (a = NoApp) = (o \in {"refresh", "teardown"}) /\ (a # NoApp => a \in reg)
    /\ op' = [op EXCEPT ![i] = o] /\ app' = [app EXCEPT ![i] = a]
    /\ pc' = [pc EXCEPT ![i] = IF o = "teardown" THEN "t_stop" ELSE "e_slice"]
    /\ timer' = (timer /\ o # "teardown")    \* units::remove comes first
    /\ UNCHANGED <<cpu, slice, hooks, reg, life, binder, sure, cg, udp, sweep>>

-----------------------------------------------------------------------------
(* bindguard::ensure *)

\* Whether the guard could be put in place.  An app starts all the same, a job
\* does not (plan.rs spawn_for, job.rs launch); setup and boot-recover go on.
Ensured(i, ok, held) ==
    LET spawns == op[i] = "start" \/ (op[i] = "job" /\ ok)
    IN  /\ sure' = [sure EXCEPT ![i] = spawns /\ ok]
        /\ cg' = [cg EXCEPT ![i] = spawns /\ held]
        /\ Goto(i, IF spawns THEN "spawn" ELSE "idle")

\* The slice is there, or systemd makes it, or it cannot.
EnsureSlice(i) ==
    /\ At(i, "e_slice")
    /\ \/ slice' = TRUE /\ Goto(i, "e_query") /\ UNCHANGED <<sure, cg>>
       \/ ~slice /\ Ensured(i, FALSE, FALSE) /\ UNCHANGED slice
    /\ UNCHANGED <<cpu, hooks, reg, life, binder, udp, timer, sweep, begins>>

\* refresh attaches again what is attached: the binary may have brought another
\* program.
EnsureQuery(i) ==
    /\ At(i, "e_query")
    /\ IF op[i] # "refresh" /\ Active
       THEN Ensured(i, TRUE, TRUE)
       ELSE Goto(i, "attach4") /\ UNCHANGED <<sure, cg>>
    /\ UNCHANGED <<cpu, slice, hooks, reg, life, binder, udp, timer, sweep, begins>>

\* attach_to opens the cgroup, then loads and attaches one program at a time.
\* Each may fail, and nothing takes back what is attached.
Attach4(i) ==
    /\ At(i, "attach4")
    /\ \/ /\ slice /\ hooks' = hooks \cup {4}
          /\ cg' = [cg EXCEPT ![i] = TRUE] /\ Goto(i, "attach6") /\ UNCHANGED sure
       \/ Ensured(i, FALSE, FALSE) /\ UNCHANGED hooks
    /\ UNCHANGED <<cpu, slice, reg, life, binder, udp, timer, sweep, begins>>

\* (A slip: the second program's failure is passed over.)
Attach6Ignored(i) ==
    /\ At(i, "attach6")
    /\ \/ hooks' = IF cg[i] THEN hooks \cup {6} ELSE hooks
       \/ UNCHANGED hooks
    /\ Ensured(i, TRUE, cg[i])
    /\ UNCHANGED <<cpu, slice, reg, life, binder, udp, timer, sweep, begins>>

\* The cgroup that was opened may be gone by now, and another in its place.
Attach6(i) ==
    /\ At(i, "attach6")
    /\ \/ /\ hooks' = IF cg[i] THEN hooks \cup {6} ELSE hooks
          /\ Ensured(i, TRUE, cg[i])
       \/ Ensured(i, FALSE, FALSE) /\ UNCHANGED hooks
    /\ UNCHANGED <<cpu, slice, reg, life, binder, udp, timer, sweep, begins>>

-----------------------------------------------------------------------------
(* Births and deaths *)

Die(S) ==
    /\ up' = [a \in Apps |-> up[a] /\ a \notin S]
    /\ socks' = [a \in Apps |-> IF a \in S THEN {} ELSE socks[a]]
    /\ asjob' = [a \in Apps |-> asjob[a] /\ a \notin S]
    /\ owed' = [a \in Apps |-> owed[a] /\ a \notin S]
    /\ lost' = [a \in Apps |-> lost[a] /\ a \notin S]

\* systemd-run makes what is missing of the slice, and no program comes with it:
\* what ensure has said is not asked again.
Spawn(i) ==
    /\ At(i, "spawn")
    /\ IF up[app[i]]
       THEN Goto(i, "idle") /\ UNCHANGED <<slice, life>>
       ELSE /\ slice' = TRUE /\ up' = [up EXCEPT ![app[i]] = TRUE]
            /\ asjob' = [asjob EXCEPT ![app[i]] = op[i] = "job"]
            /\ owed' = [owed EXCEPT ![app[i]] = sure[i]]
            /\ lost' = [lost EXCEPT ![app[i]] = sure[i] /\ ~cg[i]]
            /\ Goto(i, IF op[i] = "job" THEN "idle" ELSE "w_query") /\ UNCHANGED socks
    /\ sure' = [sure EXCEPT ![i] = FALSE] /\ cg' = [cg EXCEPT ![i] = FALSE]
    /\ UNCHANGED <<cpu, hooks, reg, binder, udp, timer, sweep, begins>>

\* app_has_external_port, once the app is up.
WaitQuery(i) ==
    /\ At(i, "w_query")
    /\ udp' = [udp EXCEPT ![i] = ~Active] /\ Goto(i, "w_scan")
    /\ UNCHANGED <<cpu, slice, hooks, reg, life, binder, sure, cg, timer, sweep, begins>>

WaitScan(i) ==
    /\ At(i, "w_scan")
    /\ IF HasExternalListen(app[i], udp[i])
       THEN Die({app[i]}) /\ Goto(i, "idle")
       ELSE Goto(i, "idle") /\ UNCHANGED life
    /\ udp' = [udp EXCEPT ![i] = FALSE]
    /\ UNCHANGED <<cpu, slice, hooks, reg, binder, sure, cg, timer, sweep, begins>>

\* teardown: the registered apps that a run file names are stopped, and not what
\* they or others have left; then each program is detached, if the slice is there.
TearStop(i) ==
    /\ At(i, "t_stop")
    /\ \E S \in SUBSET {a \in reg : ~asjob[a]} : Die(S)
    /\ Goto(i, "t_detach4")
    /\ UNCHANGED <<cpu, slice, hooks, reg, binder, sure, cg, udp, timer, sweep, begins>>

\* The guard is taken from whoever lives, and from whoever has seen to it.
Taken ==
    /\ lost' = [a \in Apps |-> up[a] /\ owed[a]]
    /\ cg' = [i \in Invs |-> FALSE]

Detach(i, step, family, next) ==
    /\ At(i, step)
    /\ hooks' = hooks \ {family} /\ Taken
    /\ Goto(i, next)
    /\ UNCHANGED <<cpu, slice, reg, up, asjob, socks, owed, binder, sure, udp, timer,
                   sweep, begins>>

-----------------------------------------------------------------------------
(* The registrations *)

\* add, or a registration that had been spoilt.
Register(a) ==
    /\ a \notin reg /\ reg' = reg \cup {a}
    /\ UNCHANGED <<cpu, slice, hooks, life, binder, inv, timer, sweep, begins>>

\* remove stops what it sees of the app; what it does not see goes on without one.
Unregister(a) ==
    /\ a \in reg /\ reg' = reg \ {a}
    /\ \E S \in SUBSET {a} : Die(S)
    /\ UNCHANGED <<cpu, slice, hooks, binder, inv, timer, sweep, begins>>

-----------------------------------------------------------------------------
(* The netguard *)

\* sweep_account asks once whether UDP counts, and lists the names.
SweepBegin ==
    /\ sw = "idle" /\ timer
    /\ swudp' = ~Active /\ swtodo' = reg /\ sw' = "scan"
    /\ UNCHANGED <<cpu, slice, hooks, reg, life, binder, inv, timer, begins>>

\* stop_offending_app, which takes as long as it has to, or job::stop, where
\* systemd may not do as it is told.  A name whose registration does not load any
\* more is passed over.
SweepScan ==
    /\ sw = "scan"
    /\ IF swtodo = {}
       THEN sw' = "idle" /\ swudp' = FALSE /\ UNCHANGED <<swtodo, life>>
       ELSE \E a \in swtodo :
               /\ swtodo' = swtodo \ {a} /\ UNCHANGED <<sw, swudp>>
               /\ \/ a \in reg /\ HasExternalListen(a, swudp) /\ Die({a})
                  \/ /\ a \notin reg \/ asjob[a] \/ ~HasExternalListen(a, swudp)
                     /\ UNCHANGED life
    /\ UNCHANGED <<cpu, slice, hooks, reg, binder, inv, timer, begins>>

\* sweep_all_accounts, at the timer's call.
Sweep == SweepBegin \/ SweepScan

-----------------------------------------------------------------------------
(* The applications and systemd *)

\* bind() where the hook has a program.
AskBind(a, c) ==
    /\ up[a] /\ Cardinality(socks[a]) < MaxSockets /\ c.family \in hooks
    /\ Bind(c) /\ binder' = a
    /\ UNCHANGED <<slice, hooks, reg, life, inv, timer, sweep, begins>>

\* It is let through, or EPERM.
BindReturns ==
    /\ Exit /\ binder' = NoApp
    /\ \/ /\ r0 = 1
          /\ \E p \in {"tcp", "udp"} :
                socks' = [socks EXCEPT ![binder] = @ \cup {SocketOf(p, ctx)}]
       \/ r0 # 1 /\ UNCHANGED socks
    /\ UNCHANGED <<slice, hooks, reg, up, asjob, owed, lost, inv, timer, sweep, begins>>

Run ==
    /\ Execute
    /\ UNCHANGED <<slice, hooks, reg, life, binder, inv, timer, sweep, begins>>

\* bind() where it has none, or no bind() at all: listen() and sendto() have the
\* kernel choose a port.
FreeBind(a, p, c) ==
    /\ up[a] /\ Cardinality(socks[a]) < MaxSockets
    /\ c.family \notin hooks \/ c.port = Zero
    /\ socks' = [socks EXCEPT ![a] = @ \cup {SocketOf(p, c)}]
    /\ UNCHANGED <<cpu, slice, hooks, reg, up, asjob, owed, lost, binder, inv, timer, sweep,
                   begins>>

AppExits(a) ==
    /\ up[a] /\ Die({a})
    /\ UNCHANGED <<cpu, slice, hooks, reg, binder, inv, timer, sweep, begins>>

\* systemd drops a slice nothing runs in, and the programs with it.
Collect ==
    /\ slice /\ \A a \in Apps : ~up[a]
    /\ slice' = FALSE /\ hooks' = {} /\ Taken
    /\ UNCHANGED <<cpu, reg, up, asjob, socks, owed, binder, pc, op, app, sure, udp, timer, sweep,
                   begins>>

Invoke(i) ==
    \/ EnsureSlice(i) \/ EnsureQuery(i) \/ Attach4(i) \/ Attach6(i) \/ Spawn(i)
    \/ WaitQuery(i) \/ WaitScan(i) \/ TearStop(i)
    \/ Detach(i, "t_detach4", 4, "t_detach6") \/ Detach(i, "t_detach6", 6, "idle")

Next ==
    \/ Run \/ BindReturns
    \/ /\ ~busy
       /\ \/ \E i \in Invs : Invoke(i) \/ \E o \in Ops, a \in Apps \cup {NoApp} : Begin(i, o, a)
          \/ Sweep \/ Collect
          \/ \E a \in Apps : \/ AppExits(a) \/ Register(a) \/ Unregister(a)
                             \/ \E c \in Context : AskBind(a, c) \/ \E p \in {"tcp", "udp"} : FreeBind(a, p, c)

\* The kernel finishes what it is in, and the timer keeps the sweep going.  That
\* everything waits for a bind() to return is how its atomicity is written here:
\* binds, however many, do not keep the sweep from running (SF).
Spec ==
    /\ Init /\ [][Next]_vars
    /\ WF_vars(Run \/ BindReturns)
    /\ SF_vars(~busy /\ Sweep)

-----------------------------------------------------------------------------
(* Properties *)

\* What a start was told holds until the slice is dropped or the guard detached:
\* both programs are attached, even where an earlier attachment had failed half
\* way, and all the app has bound is loopback or a port the kernel chose
\* (bindguard.rs ensure).
OwedAreGuarded ==
    \A a \in Apps : up[a] /\ owed[a] /\ ~lost[a] =>
        /\ slice /\ hooks = {4, 6}
        /\ \A s \in socks[a] : s.allowed

\* A TCP port an app has open to the outside does not last: the sweep finds it,
\* whichever of its processes opened it and however, guard or no guard, as long as
\* the app is registered and the panel installed (netguard.rs sweep_account).
ListenersAreStopped ==
    \A a \in Apps :
        LET Exposed == \E s \in socks[a] : s.external /\ s.proto = "tcp"
        IN  Exposed /\ a \in reg /\ ~asjob[a] ~> ~Exposed \/ a \notin reg \/ ~timer

\* "Por isso isto roda antes de cada spawn": until it is detached, an app whose
\* start was told of the guard is under it (limits/bindguard.rs:391-395).
ToldIsGuarded ==
    \A a \in Apps : up[a] /\ owed[a] /\ timer => slice /\ hooks = {4, 6}
=============================================================================
