------------------------------- MODULE AppRun -------------------------------
(***************************************************************************)
(* The life cycle of ONE application of one account: the files the panel   *)
(* keeps about it under the account's state directory, the processes the   *)
(* kernel knows, the systemd scope they run in, and the invocations of     *)
(* core-selynt that read and write all of it.                              *)
(*                                                                         *)
(* core-selynt is not a daemon.  Every panel click, timer tick and boot    *)
(* unit is a process of its own, and no lock is held per application: two  *)
(* invocations interleave between any two system calls.  A step of this    *)
(* module is one system call, or a run of reads with nothing written in    *)
(* between, of one invocation.                                             *)
(*                                                                         *)
(* Deadlines (the 120 s socket ceiling, the 10 s stuck detector, the stop  *)
(* timeout) are not counted: a wait may give up whenever its condition is  *)
(* still false.  Whether a process holds an external port is not tracked:  *)
(* any live process may be found to.                                       *)
(***************************************************************************)
EXTENDS Integers, FiniteSets

CONSTANTS
    Invs,        \* invocation slots: commands that may be in flight
    Pids,        \* process numbers; the kernel reuses a freed one
    NoPid,       \* "no pid": an absent .pid file, no child
    Pid1,        \* init, the parent of orphans
    Commands,    \* the commands the run issues, a subset of CommandNames
    Others,      \* the other processes that may appear: "helper", "kin"
    CanRunScopes, \* the answers of can_run_scopes() on the hosts considered
    MaxActive,   \* bound: invocations in flight at once
    MaxBirths,   \* bound: processes ever created
    MaxFaults    \* bound: reboots and killed invocations

CommandNames == {"start", "stop", "restart", "remove", "add", "netguard", "boot"}

\* The commands that launch a process.
Spawning == {"start", "restart", "boot"}

ASSUME PidsAssumption ==
    /\ NoPid \notin Pids /\ Pid1 \notin Pids
    /\ Invs \cap Pids = {} /\ Pid1 \notin Invs

ASSUME BoundsAssumption ==
    /\ Commands \subseteq CommandNames
    /\ Others \subseteq {"helper", "kin"}
    /\ CanRunScopes \subseteq BOOLEAN
    /\ MaxActive \in Nat /\ MaxBirths \in Nat /\ MaxFaults \in Nat

VARIABLES
    app,      \* the root-owned registration `.run/<name>.app` exists
    pidf,     \* the pid in `.run/<name>.pid`, or NoPid
    metaf,    \* the starttime in `.run/<name>.meta`; 0 when absent, as read
    enabled,  \* `.run/<name>.enabled`, the intent boot recovery reads
    marker,   \* `.proxy/<host>`, the routing marker
    sock,     \* birth of the process that bound the socket file; 0: no file
    st,       \* [Pids -> what the process of that number is]
    born,     \* [Pids -> its starttime], unique over the run
    par,      \* [Pids -> its parent: an invocation, a process or init]
    cg,       \* [Pids -> whether it is in the app's scope cgroup]
    unit,     \* systemd still has the scope unit loaded
    births,   \* processes created so far
    pc,       \* [Invs -> the next step of the invocation]
    cmd,      \* [Invs -> the command it runs]
    child,    \* [Invs -> the process it spawned, or NoPid]
    tgt,      \* [Invs -> the processes it is stopping]
    due,      \* the boot unit has not run yet since the machine came up
    faults,   \* reboots and killed invocations so far
    torn,     \* some command was cut short or overlapped another (history)
    strays,   \* births of what a start let go of alive (history)
    scopes    \* systemd-run is usable on this host, which does not change

files == <<app, pidf, metaf, enabled, marker, sock>>
procs == <<st, born, par, cg>>
invs  == <<pc, cmd, child, tgt>>
world == <<due, faults, torn, strays, scopes>>
vars  == <<files, procs, unit, births, invs, world>>

-----------------------------------------------------------------------------
(* Types *)

\* "exec": systemd-run, root's, not yet the app; "boot": the app, not listening
\* yet; "up": it has bound its socket; "zombie", or "defunct" for systemd-run:
\* dead, its parent has not waited;
\* "helper": a process the app forked; "kin": a process of the account the
\* panel knows nothing about.
ProcState == {"free", "exec", "boot", "up", "zombie", "defunct", "helper", "kin"}

StartSteps == {"s_load", "s_spawn", "c_load", "c_clear", "c_spawn", "c_pid", "c_meta",
               "c_abort", "c_wait", "c_accept", "c_port", "c_giveup", "c_giveup_s",
               "c_clean", "c_clean_s", "c_pub", "c_en"}
KillSteps  == {"k_mark", "k_term", "k_wait", "k_sock", "k_pid", "k_meta", "k_en"}
OtherSteps == {"t_load", "t_int", "r_load", "n_scan", "x_load", "x_run", "x_sock",
               "a_check", "a_write", "b_scan"}
Steps == {"idle", "ok", "fail"} \cup StartSteps \cup KillSteps \cup OtherSteps

TypeOK ==
    /\ app \in BOOLEAN /\ enabled \in BOOLEAN /\ marker \in BOOLEAN
    /\ pidf \in Pids \cup {NoPid}
    /\ metaf \in Nat /\ sock \in Nat /\ births \in Nat /\ faults \in Nat
    /\ st \in [Pids -> ProcState]
    /\ born \in [Pids -> Nat]
    /\ par \in [Pids -> Invs \cup Pids \cup {Pid1}]
    /\ cg \in [Pids -> BOOLEAN]
    /\ unit \in BOOLEAN /\ due \in BOOLEAN /\ torn \in BOOLEAN /\ scopes \in BOOLEAN
    /\ strays \subseteq Nat
    /\ pc \in [Invs -> Steps]
    /\ cmd \in [Invs -> CommandNames \cup {"none"}]
    /\ child \in [Invs -> Pids \cup {NoPid}]
    /\ tgt \in [Invs -> SUBSET Pids]

-----------------------------------------------------------------------------
(* What the code reads from /proc and from systemd *)

\* is_process_alive: /proc/<pid> is there, as it is for a zombie too.
Exists(p) == st[p] # "free"

Live(p) == st[p] \notin {"free", "zombie", "defunct"}

\* read_proc_uid: the process is the account's, as systemd-run is not.
Owned(p) == st[p] \notin {"free", "exec", "defunct"}

\* The application itself, as opposed to a process it forked.
IsApp(p) == st[p] \in {"boot", "up"}

\* usage::scope_pids: the processes of the scope's cgroup.
Scope == {p \in Pids : cg[p]}

\* A process and its descendants (one generation of them here).
Family(p) == {p} \cup {q \in Pids : par[q] = p}

\* (A slip the runs must notice: the number is enough.)
RunningByNumber == pidf # NoPid /\ Owned(pidf)

\* get_status: the recorded pid belongs to the account and has the recorded
\* starttime; an absent one matches anything.
Running ==
    /\ pidf # NoPid
    /\ Owned(pidf)
    /\ metaf = 0 \/ metaf = born[pidf]

InFlight == {i \in Invs : pc[i] # "idle"}

\* The invocations that have yet to launch a process.
Spawners == {i \in InFlight : cmd[i] \in Spawning /\ child[i] = NoPid}

\* Bound: a process may appear, or a spawning command begin, only while every
\* command that has yet to launch one is still left a pid and a birth.
Room ==
    /\ births + Cardinality(Spawners) < MaxBirths
    /\ Cardinality({p \in Pids : st[p] = "free"}) > Cardinality(Spawners)

-----------------------------------------------------------------------------
(* What the kernel does to the process table *)

Fresh(p, state, parent, inscope) ==
    /\ st[p] = "free"
    /\ births' = births + 1
    /\ st' = [st EXCEPT ![p] = state]
    /\ born' = [born EXCEPT ![p] = births + 1]
    /\ par' = [par EXCEPT ![p] = parent]
    /\ cg' = [cg EXCEPT ![p] = inscope]

\* The processes of S that are alive die.  The child of an invocation stays a
\* zombie, because core-selynt never waits on what it spawned; the number of
\* any other becomes free, and the children of the dead go to init.
Kill(S) ==
    LET dead  == {q \in S : Live(q)}
        freed == {q \in dead : par[q] \notin Invs}
    IN /\ st' = [q \in Pids |-> IF q \notin dead THEN st[q]
                                ELSE IF q \in freed THEN "free"
                                ELSE IF st[q] = "exec" THEN "defunct" ELSE "zombie"]
       /\ born' = [q \in Pids |-> IF q \in freed THEN 0 ELSE born[q]]
       /\ par' = [q \in Pids |-> IF q \in freed \/ par[q] \in dead THEN Pid1 ELSE par[q]]
       /\ cg' = [q \in Pids |-> cg[q] /\ q \notin dead]

\* kill(2) from the account does not reach systemd-run, which is root's.
AsAccount(S) == {p \in S : st[p] # "exec"}

\* A start ends its care of those of S that live: whatever they become, nothing
\* it has written or will write stands for them.
LetGo(S) == strays' = strays \cup {born[p] : p \in {q \in S : Live(q)}}

\* The child of i while it is still systemd-run.
NotYetTheApp(i) == {child[i]} \ AsAccount({child[i]})

\* The process of invocation i ends: init adopts its children and reaps those
\* that are already dead.
Leave(i) ==
    LET reaped == {q \in Pids : par[q] = i /\ st[q] \in {"zombie", "defunct"}}
    IN /\ st' = [q \in Pids |-> IF q \in reaped THEN "free" ELSE st[q]]
       /\ born' = [q \in Pids |-> IF q \in reaped THEN 0 ELSE born[q]]
       /\ par' = [q \in Pids |-> IF par[q] = i THEN Pid1 ELSE par[q]]
       /\ cg' = cg
       /\ pc' = [pc EXCEPT ![i] = "idle"]
       /\ cmd' = [cmd EXCEPT ![i] = "none"]
       /\ child' = [child EXCEPT ![i] = NoPid]
       /\ tgt' = [tgt EXCEPT ![i] = {}]

-----------------------------------------------------------------------------
(* Invocations begin, end and are cut short *)

Init ==
    /\ app = TRUE /\ pidf = NoPid /\ metaf = 0
    /\ enabled = FALSE /\ marker = FALSE /\ sock = 0
    /\ st = [p \in Pids |-> "free"] /\ born = [p \in Pids |-> 0]
    /\ par = [p \in Pids |-> Pid1] /\ cg = [p \in Pids |-> FALSE]
    /\ unit = FALSE /\ births = 0
    /\ pc = [i \in Invs |-> "idle"] /\ cmd = [i \in Invs |-> "none"]
    /\ child = [i \in Invs |-> NoPid] /\ tgt = [i \in Invs |-> {}]
    /\ due = FALSE /\ faults = 0 /\ torn = FALSE /\ strays = {}
    /\ scopes \in CanRunScopes

At(i, step) == pc[i] = step

Goto(i, step) == pc' = [pc EXCEPT ![i] = step]

FirstStep == [start |-> "s_load", stop |-> "t_load", restart |-> "r_load",
              remove |-> "x_load", add |-> "a_check", netguard |-> "n_scan",
              boot |-> "b_scan"]

\* The panel, a timer or the boot unit runs a command.
Begin(i, c) ==
    /\ At(i, "idle")
    /\ Cardinality(InFlight) < MaxActive
    /\ c \in Spawning \ {"boot"} => Room
    /\ c = "boot" => due              \* once per reboot, so MaxFaults bounds it
    /\ due' = (due /\ c # "boot")
    /\ cmd' = [cmd EXCEPT ![i] = c]
    /\ Goto(i, FirstStep[c])
    /\ torn' = (torn \/ InFlight # {})
    /\ UNCHANGED <<files, procs, unit, births, child, tgt, faults, strays,
                   scopes>>

\* The invocation has printed its result and exits.
End(i) ==
    /\ pc[i] \in {"ok", "fail"}
    /\ Leave(i)
    /\ UNCHANGED <<files, unit, births, world>>

\* The invocation is killed between two of its steps.
CutShort(i) ==
    /\ pc[i] # "idle"
    /\ faults < MaxFaults
    /\ faults' = faults + 1
    /\ torn' = TRUE
    /\ Leave(i)
    /\ UNCHANGED <<files, unit, births, due, strays, scopes>>

-----------------------------------------------------------------------------
(* start: plan::spawn_for as root, then cmd_start as the account *)

\* spawn_for / spawn_into_scope: the socket is removed before anything has
\* looked at whether the app is running.
StartLoad(i) ==
    /\ At(i, "s_load")
    /\ \/ ~app /\ Goto(i, "c_load") /\ UNCHANGED sock
       \/ app /\ Goto(i, "fail") /\ UNCHANGED sock    \* TypeScript entry refused
       \/ app /\ ~scopes /\ Goto(i, "c_load") /\ UNCHANGED sock
       \/ app /\ scopes /\ sock' = 0 /\ Goto(i, "s_spawn")
    /\ UNCHANGED <<app, pidf, metaf, enabled, marker, procs, unit, births,
                   cmd, child, tgt, world>>

\* (A slip: the app is double-forked.)
ScopeSpawnDetached(i) ==
    /\ At(i, "s_spawn")
    /\ \E p \in Pids :
          /\ Fresh(p, "exec", Pid1, FALSE)
          /\ child' = [child EXCEPT ![i] = p]
    /\ Goto(i, "c_load")
    /\ UNCHANGED <<files, unit, cmd, tgt, world>>

\* spawn_app under systemd-run; logs, sandbox, runtime or spawn may refuse.
ScopeSpawn(i) ==
    /\ At(i, "s_spawn")
    /\ \/ \E p \in Pids :
              /\ Fresh(p, "exec", i, FALSE)
              /\ child' = [child EXCEPT ![i] = p]
              /\ Goto(i, "c_load")
       \/ Goto(i, "fail") /\ UNCHANGED <<procs, births, child>>
    /\ UNCHANGED <<files, unit, cmd, tgt, world>>

\* cmd_start after the drop: it answers that the app is RUNNING, or refuses (no
\* registration the account can read, an entry or a host that is not a safe
\* component, TypeScript) and leaves what the prelude has launched.
CheckRunning(i) ==
    /\ At(i, "c_load")
    /\ \/ Goto(i, "fail") /\ LetGo({child[i]} \ {NoPid})
       \/ app /\ Running /\ Goto(i, "ok") /\ LetGo({child[i]} \ {NoPid})
       \/ app /\ ~Running /\ Goto(i, "c_clear") /\ UNCHANGED strays
    /\ UNCHANGED <<files, procs, unit, births, cmd, child, tgt, due, faults, torn, scopes>>

\* (A slip: the old marker is left to be overwritten.)
ClearSocketOnly(i) ==
    /\ At(i, "c_clear")
    /\ sock' = 0
    /\ Goto(i, IF child[i] = NoPid THEN "c_spawn" ELSE "c_pid")
    /\ UNCHANGED <<app, pidf, metaf, enabled, marker, procs, unit, births,
                   cmd, child, tgt, world>>

\* Removes the socket, again, and the routing marker.
ClearRoute(i) ==
    /\ At(i, "c_clear")
    /\ sock' = 0 /\ marker' = FALSE
    /\ Goto(i, IF child[i] = NoPid THEN "c_spawn" ELSE "c_pid")
    /\ UNCHANGED <<app, pidf, metaf, enabled, procs, unit, births, cmd, child, tgt, world>>

\* The fallback: an ordinary child, in no scope.
BareSpawn(i) ==
    /\ At(i, "c_spawn")
    /\ \/ \E p \in Pids :
              /\ Fresh(p, "boot", i, FALSE)
              /\ child' = [child EXCEPT ![i] = p]
              /\ Goto(i, "c_pid")
       \/ Goto(i, "fail") /\ UNCHANGED <<procs, births, child>>
    /\ UNCHANGED <<files, unit, cmd, tgt, world>>

\* persist_state, the .pid half (the chmod after the rename is taken to work).
WritePid(i) ==
    /\ At(i, "c_pid")
    /\ \/ pidf' = child[i] /\ Goto(i, "c_meta")
       \/ UNCHANGED pidf /\ Goto(i, "c_abort")
    /\ UNCHANGED <<app, metaf, enabled, marker, sock, procs, unit, births,
                   cmd, child, tgt, world>>

\* persist_state, the .meta half, 50 ms later; a failed write removes .pid.
WriteMeta(i) ==
    /\ At(i, "c_meta")
    /\ \/ metaf' = born[child[i]] /\ UNCHANGED pidf /\ Goto(i, "c_wait")
       \/ pidf' = NoPid /\ UNCHANGED metaf /\ Goto(i, "c_abort")
    /\ UNCHANGED <<app, enabled, marker, sock, procs, unit, births,
                   cmd, child, tgt, world>>

\* (A slip: the error is returned with the child left alone.)
AbortOnly(i) ==
    /\ At(i, "c_abort")
    /\ Goto(i, "fail")
    /\ UNCHANGED <<files, procs, unit, births, cmd, child, tgt, world>>

\* state_write_failed: the child is killed, unless systemd-run has yet to become
\* the app; nothing else is undone.
AbortStart(i) ==
    /\ At(i, "c_abort")
    /\ Kill(AsAccount({child[i]})) /\ LetGo(NotYetTheApp(i))
    /\ Goto(i, "fail")
    /\ UNCHANGED <<files, unit, births, cmd, child, tgt, due, faults, torn, scopes>>

\* (A slip: no ceiling and no stuck detector.)
WaitSocketForever(i) ==
    /\ At(i, "c_wait")
    /\ sock # 0 /\ Goto(i, "c_accept")
    /\ UNCHANGED <<files, procs, unit, births, cmd, child, tgt, world>>

\* wait_for_socket_file: any file at the path will do.  The give-ups are the
\* ceiling, the stuck detector and an external port, all after the look.
WaitSocket(i) ==
    /\ At(i, "c_wait")
    /\ \/ sock # 0 /\ Goto(i, "c_accept")
       \/ sock = 0 /\ Goto(i, "c_giveup")
    /\ UNCHANGED <<files, procs, unit, births, cmd, child, tgt, world>>

\* Somebody alive is listening on the socket file.
Answering == \E p \in Pids : Live(p) /\ sock # 0 /\ sock = born[p]

\* wait_for_socket_accept, whoever it is that answers.
WaitAccept(i) ==
    /\ At(i, "c_accept")
    /\ \/ Answering /\ Goto(i, "c_port") /\ LetGo(NotYetTheApp(i))
       \/ ~Answering /\ Goto(i, "c_giveup_s") /\ UNCHANGED strays
    /\ UNCHANGED <<files, procs, unit, births, cmd, child, tgt, due, faults, torn, scopes>>

\* refuse_external_port.
RefusePort(i) ==
    /\ At(i, "c_port")
    /\ \/ Goto(i, "c_pub")
       \/ (Scope # {} \/ Live(child[i])) /\ Goto(i, "c_giveup_s")
    /\ UNCHANGED <<files, procs, unit, births, cmd, child, tgt, world>>

\* (A slip: the files are cleaned up and the process forgotten.)
GiveUpOnly(i) ==
    /\ pc[i] \in {"c_giveup", "c_giveup_s"}
    /\ Goto(i, IF At(i, "c_giveup") THEN "c_clean" ELSE "c_clean_s")
    /\ UNCHANGED <<files, procs, unit, births, cmd, child, tgt, world>>

\* The child, and only the child, is killed: not what it forked, nor systemd-run.
GiveUp(i) ==
    /\ pc[i] \in {"c_giveup", "c_giveup_s"}
    /\ Kill(AsAccount({child[i]})) /\ LetGo(NotYetTheApp(i))
    /\ Goto(i, IF At(i, "c_giveup") THEN "c_clean" ELSE "c_clean_s")
    /\ UNCHANGED <<files, unit, births, cmd, child, tgt, due, faults, torn, scopes>>

\* cleanup_failed, with the socket once it had been seen.
CleanupFailed(i) ==
    /\ pc[i] \in {"c_clean", "c_clean_s"}
    /\ pidf' = NoPid /\ metaf' = 0
    /\ sock' = IF At(i, "c_clean_s") THEN 0 ELSE sock
    /\ Goto(i, "fail")
    /\ UNCHANGED <<app, enabled, marker, procs, unit, births, cmd, child, tgt, world>>

\* publish_route: the marker, whose failure ends the start with the app up...
PublishMarker(i) ==
    /\ At(i, "c_pub")
    /\ \/ marker' = TRUE /\ Goto(i, "c_en")
       \/ UNCHANGED marker /\ Goto(i, "fail")
    /\ UNCHANGED <<app, pidf, metaf, enabled, sock, procs, unit, births,
                   cmd, child, tgt, world>>

\* ... then the boot intent.
PublishEnabled(i) ==
    /\ At(i, "c_en")
    /\ enabled' = TRUE
    /\ Goto(i, "ok")
    /\ UNCHANGED <<app, pidf, metaf, marker, sock, procs, unit, births,
                   cmd, child, tgt, world>>

StartStep(i) ==
    \/ StartLoad(i) \/ ScopeSpawn(i) \/ CheckRunning(i) \/ ClearRoute(i)
    \/ BareSpawn(i) \/ WritePid(i) \/ WriteMeta(i) \/ AbortStart(i)
    \/ WaitSocket(i) \/ WaitAccept(i) \/ RefusePort(i) \/ GiveUp(i)
    \/ CleanupFailed(i) \/ PublishMarker(i) \/ PublishEnabled(i)

-----------------------------------------------------------------------------
(* Taking an app down: stop_internal as the account, and, as root,         *)
(* netguard's stop_offending_app.  They differ in how the processes are    *)
(* found; the sequence that follows is the same.                           *)

\* What follows the sequence, by command.
AfterKill(c) == IF c = "remove" THEN "x_run" ELSE IF c = "restart" THEN "s_load" ELSE "k_en"

\* cmd_stop: a STOPPED app is answered with success and nothing is touched.
StopCheck(i) ==
    /\ At(i, "t_load")
    /\ \/ ~app /\ Goto(i, "fail")
       \/ app /\ ~Running /\ Goto(i, "ok")
       \/ app /\ Running /\ Goto(i, "t_int")
    /\ UNCHANGED <<files, procs, unit, births, cmd, child, tgt, world>>

\* stop_internal looks again, and takes the descendants while they have links.
StopResolve(i) ==
    /\ At(i, "t_int")
    /\ \/ /\ ~Running
          /\ Goto(i, AfterKill(cmd[i])) /\ UNCHANGED tgt
       \/ /\ Running
          /\ tgt' = [tgt EXCEPT ![i] = Family(pidf)] /\ Goto(i, "k_mark")
    /\ UNCHANGED <<files, procs, unit, births, cmd, child, world>>

\* restart's stop_app_tree: the pid as the file has it, with no check on it.
RestartRead(i) ==
    /\ At(i, "r_load")
    /\ \/ /\ ~app \/ pidf = NoPid
          /\ Goto(i, "s_load") /\ UNCHANGED tgt
       \/ /\ app /\ pidf # NoPid
          /\ tgt' = [tgt EXCEPT ![i] = Family(pidf)] /\ Goto(i, "k_mark")
    /\ UNCHANGED <<files, procs, unit, births, cmd, child, world>>

\* The netguard sweep finds the app's cgroup empty, within the rules, or not.
SweepScan(i) ==
    /\ At(i, "n_scan")
    /\ \/ Goto(i, "ok") /\ UNCHANGED tgt
       \/ /\ app /\ Scope # {}
          /\ tgt' = [tgt EXCEPT ![i] = Scope] /\ Goto(i, "k_mark")
    /\ UNCHANGED <<files, procs, unit, births, cmd, child, world>>

\* The proxy stops routing before anything is killed.
DropRoute(i) ==
    /\ At(i, "k_mark")
    /\ marker' = FALSE
    /\ Goto(i, "k_term")
    /\ UNCHANGED <<app, pidf, metaf, enabled, sock, procs, unit, births,
                   cmd, child, tgt, world>>

\* restart and netguard signal as root, stop and remove after the drop.
Reached(i) == IF cmd[i] \in {"restart", "netguard"} THEN tgt[i] ELSE AsAccount(tgt[i])

\* SIGTERM: some die of it; a server that shuts down unlinks its socket.
Terminate(i) ==
    /\ At(i, "k_term")
    /\ \E dying \in SUBSET {p \in Reached(i) : Live(p)} :
          /\ Kill(dying)
          /\ sock' \in {sock} \cup {0 : p \in {q \in dying : sock = born[q]}}
    /\ Goto(i, "k_wait")
    /\ UNCHANGED <<app, pidf, metaf, enabled, marker, unit, births, cmd, child, tgt, world>>

\* (A slip: the deadline passes and nobody is killed.)
AwaitExitOnly(i) ==
    /\ At(i, "k_wait")
    /\ Goto(i, "k_sock")
    /\ UNCHANGED <<files, procs, unit, births, cmd, child, tgt, world>>

\* Until every one of them is gone, or SIGKILL at the deadline.
AwaitExit(i) ==
    /\ At(i, "k_wait")
    /\ \/ (\A p \in tgt[i] : ~Exists(p)) /\ UNCHANGED procs
       \/ (\E p \in tgt[i] : Exists(p)) /\ Kill(Reached(i))
    /\ Goto(i, "k_sock")
    /\ UNCHANGED <<files, unit, births, cmd, child, tgt, world>>

DropSocket(i) ==
    /\ At(i, "k_sock")
    /\ sock' = 0
    /\ Goto(i, "k_pid")
    /\ UNCHANGED <<app, pidf, metaf, enabled, marker, procs, unit, births,
                   cmd, child, tgt, world>>

\* (A slip: the number is zeroed and the file kept.)
ZeroPid(i) ==
    /\ At(i, "k_pid")
    /\ pidf' = 0
    /\ Goto(i, "k_meta")
    /\ UNCHANGED <<app, metaf, enabled, marker, sock, procs, unit, births,
                   cmd, child, tgt, world>>

DropPid(i) ==
    /\ At(i, "k_pid")
    /\ pidf' = NoPid
    /\ Goto(i, "k_meta")
    /\ UNCHANGED <<app, metaf, enabled, marker, sock, procs, unit, births,
                   cmd, child, tgt, world>>

DropMeta(i) ==
    /\ At(i, "k_meta")
    /\ metaf' = 0
    /\ tgt' = [tgt EXCEPT ![i] = {}]
    /\ Goto(i, AfterKill(cmd[i]))
    /\ UNCHANGED <<app, pidf, enabled, marker, sock, procs, unit, births, cmd, child, world>>

\* cmd_stop, and netguard with drop_enabled: the app is down for good.
DropIntent(i) ==
    /\ At(i, "k_en")
    /\ enabled' = FALSE
    /\ Goto(i, "ok")
    /\ UNCHANGED <<app, pidf, metaf, marker, sock, procs, unit, births,
                   cmd, child, tgt, world>>

StopStep(i) ==
    \/ StopCheck(i) \/ StopResolve(i) \/ RestartRead(i) \/ SweepScan(i)
    \/ DropRoute(i) \/ Terminate(i) \/ AwaitExit(i) \/ DropSocket(i)
    \/ DropPid(i) \/ DropMeta(i) \/ DropIntent(i)

-----------------------------------------------------------------------------
(* remove, add and boot-recover *)

\* The prelude deletes the registration before the app is stopped.
RemoveRegistration(i) ==
    /\ At(i, "x_load")
    /\ \/ ~app /\ UNCHANGED app /\ Goto(i, "fail")
       \/ app /\ app' = FALSE /\ Goto(i, "t_int")
    /\ UNCHANGED <<pidf, metaf, enabled, marker, sock, procs, unit, births,
                   cmd, child, tgt, world>>

\* (A slip: the boot intent is not among the run files.)
RemovePidAndMeta(i) ==
    /\ At(i, "x_run")
    /\ pidf' = NoPid /\ metaf' = 0
    /\ Goto(i, "x_sock")
    /\ UNCHANGED <<app, enabled, marker, sock, procs, unit, births, cmd, child, tgt, world>>

\* remove_run_state: the run files ...
RemoveRunState(i) ==
    /\ At(i, "x_run")
    /\ pidf' = NoPid /\ metaf' = 0 /\ enabled' = FALSE
    /\ Goto(i, "x_sock")
    /\ UNCHANGED <<app, marker, sock, procs, unit, births, cmd, child, tgt, world>>

\* (A slip: the socket of an app that is down is taken to be gone.)
RemoveMarkerOnly(i) ==
    /\ At(i, "x_sock")
    /\ marker' = FALSE
    /\ Goto(i, "ok")
    /\ UNCHANGED <<app, pidf, metaf, enabled, sock, procs, unit, births, cmd, child, tgt, world>>

\* ... then the socket and the marker.
RemoveRoute(i) ==
    /\ At(i, "x_sock")
    /\ sock' = 0 /\ marker' = FALSE
    /\ Goto(i, "ok")
    /\ UNCHANGED <<app, pidf, metaf, enabled, procs, unit, births, cmd, child, tgt, world>>

\* create_for_add looks whether the file is there ...
AddCheck(i) ==
    /\ At(i, "a_check")
    /\ Goto(i, IF app THEN "fail" ELSE "a_write")
    /\ UNCHANGED <<files, procs, unit, births, cmd, child, tgt, world>>

\* ... and renames a new one into place; cmd_add may still refuse afterwards.
AddWrite(i) ==
    /\ At(i, "a_write")
    /\ app' = TRUE
    /\ Goto(i, "ok") \/ Goto(i, "fail")
    /\ UNCHANGED <<pidf, metaf, enabled, marker, sock, procs, unit, births,
                   cmd, child, tgt, world>>

\* (A slip: a .pid file left from before the reboot means running.)
HasPidFile == pidf # NoPid

\* boot.rs: any process with the recorded number counts as the app.
AlreadyRunning == pidf # NoPid /\ Exists(pidf)

\* recover_all for this app: a number nobody has is removed, the app started.
BootScan(i) ==
    /\ At(i, "b_scan")
    /\ \/ /\ ~(app /\ enabled)
          /\ Goto(i, "ok") /\ UNCHANGED pidf
       \/ /\ app /\ enabled /\ AlreadyRunning
          /\ Goto(i, "ok") /\ UNCHANGED pidf
       \/ /\ app /\ enabled /\ ~AlreadyRunning
          /\ pidf' = NoPid /\ Goto(i, "s_load")
    /\ UNCHANGED <<app, metaf, enabled, marker, sock, procs, unit, births,
                   cmd, child, tgt, world>>

RegistryStep(i) ==
    \/ RemoveRegistration(i) \/ RemoveRunState(i) \/ RemoveRoute(i)
    \/ AddCheck(i) \/ AddWrite(i) \/ BootScan(i)

-----------------------------------------------------------------------------
(* The processes themselves, systemd and the machine *)

\* (A slip: a unit name of its own for every start.)
RegisterAnyway(p) ==
    /\ st[p] = "exec"
    /\ unit' = TRUE
    /\ st' = [st EXCEPT ![p] = "boot"] /\ cg' = [cg EXCEPT ![p] = TRUE]
    /\ UNCHANGED <<files, born, par, births, invs, world>>

\* systemd registers the scope under the app's unit name, or refuses because
\* that unit is still loaded; only then does the app replace systemd-run.
Register(p) ==
    /\ st[p] = "exec"
    /\ \/ /\ unit
          /\ Kill({p}) /\ UNCHANGED unit
       \/ /\ ~unit
          /\ unit' = TRUE
          /\ st' = [st EXCEPT ![p] = "boot"] /\ cg' = [cg EXCEPT ![p] = TRUE]
          /\ UNCHANGED <<born, par>>
    /\ UNCHANGED <<files, births, invs, world>>

\* The app binds its socket: bind(2) refuses a path that exists.
Listen(p) ==
    /\ st[p] = "boot" /\ sock = 0
    /\ sock' = born[p]
    /\ st' = [st EXCEPT ![p] = "up"]
    /\ UNCHANGED <<app, pidf, metaf, enabled, marker, born, par, cg, unit, births, invs, world>>

\* A process ends; a server that closes cleanly unlinks its socket.
Exit(p) ==
    /\ Live(p)
    /\ Kill({p})
    /\ sock' = sock \/ (sock = born[p] /\ sock' = 0)
    /\ UNCHANGED <<app, pidf, metaf, enabled, marker, unit, births, invs, world>>

\* The app forks a process that stays in its cgroup.
Fork(p, q) ==
    /\ "helper" \in Others /\ Room
    /\ IsApp(p)
    /\ Fresh(q, "helper", p, cg[p])
    /\ UNCHANGED <<files, unit, invs, world>>

\* Another process of the account appears, perhaps with a number in a file.
Stranger(p) ==
    /\ "kin" \in Others /\ Room
    /\ Fresh(p, "kin", Pid1, FALSE)
    /\ UNCHANGED <<files, unit, invs, world>>

\* --collect: the unit goes once its cgroup is empty.
CollectUnit ==
    /\ unit /\ Scope = {}
    /\ unit' = FALSE
    /\ UNCHANGED <<files, procs, births, invs, world>>

\* The machine restarts: only the files survive.
Reboot ==
    /\ faults < MaxFaults
    /\ faults' = faults + 1
    /\ torn' = (torn \/ InFlight # {})
    /\ due' = TRUE
    /\ st' = [p \in Pids |-> "free"] /\ born' = [p \in Pids |-> 0]
    /\ par' = [p \in Pids |-> Pid1] /\ cg' = [p \in Pids |-> FALSE]
    /\ unit' = FALSE
    /\ pc' = [i \in Invs |-> "idle"] /\ cmd' = [i \in Invs |-> "none"]
    /\ child' = [i \in Invs |-> NoPid] /\ tgt' = [i \in Invs |-> {}]
    /\ UNCHANGED <<files, births, strays, scopes>>

Environment ==
    \/ \E p \in Pids : Register(p) \/ Listen(p) \/ Exit(p) \/ Stranger(p)
    \/ \E p, q \in Pids : Fork(p, q)
    \/ CollectUnit
    \/ Reboot

\* A step of an invocation that has begun.
Step(i) == StartStep(i) \/ StopStep(i) \/ RegistryStep(i) \/ End(i)

Next ==
    \/ \E i \in Invs, c \in Commands : Begin(i, c)
    \/ \E i \in Invs : Step(i) \/ CutShort(i)
    \/ Environment

\* An invocation that can take a step is scheduled, systemd answers every
\* systemd-run, and collects an empty unit; nothing is assumed of the app.
Fairness ==
    /\ \A i \in Invs : WF_vars(Step(i))
    /\ \A p \in Pids : WF_vars(Register(p))
    /\ WF_vars(CollectUnit)

Spec == Init /\ [][Next]_vars
FairSpec == Spec /\ Fairness

\* systemd also runs selynt-panel.service once after every boot.  It does not
\* queue behind the panel's commands as it does here for a free slot of Invs:
\* strong fairness takes that artefact of MaxActive away.
BootSpec == FairSpec /\ SF_vars(\E i \in Invs : Begin(i, "boot"))

\* What systemd's unit name makes of the app (AppInstance): one copy at a time.
Instance == INSTANCE AppInstance WITH
    running <- {born[p] : p \in {q \in Pids : IsApp(q) /\ cg[q]}},
    launched <- births
OneInstance == Instance!Spec

-----------------------------------------------------------------------------
(* Properties that hold whatever runs at the same time *)

\* The process a start spawned stays its own until the start ends, alive or as
\* a zombie: the number start.rs signals when it gives up, minutes after the
\* spawn and with no check, cannot have gone to anybody else.
ChildIsHeld ==
    \A i \in Invs : child[i] # NoPid =>
        /\ par[child[i]] = i
        /\ st[child[i]] \in {"exec", "boot", "up", "zombie", "defunct"}

\* Two starts that both saw the app stopped do not put two copies of it in the
\* scope: the unit name wrap_in_scope derives from the app is what excludes
\* the second, there being no lock.
OneAppPerScope ==
    \A p, q \in Pids : IsApp(p) /\ IsApp(q) /\ cg[p] /\ cg[q] => p = q

\* Every command ends: each wait of start.rs, mod.rs and netguard.rs has a
\* deadline of its own, whatever the app does.
EveryCommandEnds == \A i \in Invs : pc[i] # "idle" ~> pc[i] = "idle"

\* After a reboot an app that was enabled is running again, unless the start the
\* boot unit made for it reported a failure, a process that a start had let go of
\* answered in its place, or the unit took another process with the recorded
\* number for it (boot.rs recover_all).
EnabledComesBack ==
    (due /\ app /\ enabled) ~>
        \/ Running \/ ~app \/ ~enabled
        \/ \E i \in Invs :
              /\ cmd[i] = "boot"
              /\ \/ At(i, "fail")
                 \/ At(i, "c_port") /\ sock \in strays
                 \/ At(i, "ok") /\ pidf # NoPid /\ Exists(pidf) /\ ~Running

-----------------------------------------------------------------------------
(* Properties of commands that ran one at a time, none of them cut short *)

Settled == InFlight = {} /\ ~torn

Stray(p) == born[p] \in strays

\* A live app is the one the run files name, so that status shows it and stop
\* reaches it.  What start.rs leaves behind unrecorded it leaves at two places
\* only: cmd_start answers or refuses before it records what the prelude has
\* launched, or it gives up on a systemd-run its signal does not reach.
RunningIsTracked ==
    Settled => \A p \in Pids : IsApp(p) => Stray(p) \/ (pidf = p /\ metaf = born[p])

\* RUNNING is only ever said of the app: not of a stranger that inherited its
\* number, nor of a process left from before a reboot (get_status).
StatusIsTruthful == Settled /\ Running => IsApp(pidf)

\* What cmd_remove leaves of an app: no file, no route, and no process or
\* socket but those of what a start had let go of.
RemovedLeavesNothing ==
    Settled /\ ~app =>
        /\ pidf = NoPid /\ metaf = 0 /\ sock \in {0} \cup strays
        /\ ~enabled /\ ~marker
        /\ \A p \in Pids : IsApp(p) => Stray(p)

\* A live app the proxy routes to is registered, and one boot recovery would
\* bring back: a path that drops the intent has dropped the route before it
\* (publish_route, stop_internal, stop_offending_app).
RoutedIsIntended ==
    Settled /\ marker /\ (\E p \in Pids : IsApp(p) /\ ~Stray(p)) => enabled /\ app

\* When stop reports success no copy of the app is left running that a start
\* had not let go of.
StopIsDown ==
    \A i \in Invs : At(i, "ok") /\ cmd[i] = "stop" /\ ~torn =>
        \A p \in Pids : IsApp(p) => Stray(p)

-----------------------------------------------------------------------------
(* What the documentation says and the code does not do *)

\* stop is "Stop the app" (docs/usage/commands.md): when it has answered with
\* success nothing of the app is in its scope, alone as the command may be.
StopEmptiesScope ==
    \A i \in Invs : At(i, "ok") /\ cmd[i] = "stop" /\ ~torn =>
        \A p \in Scope : ~IsApp(p)

\* "Apps the user stopped carry no marker and stay stopped" (main.rs): after a
\* stop that reported success there is no boot intent.
StoppedCarryNoMarker ==
    \A i \in Invs : At(i, "ok") /\ cmd[i] = "stop" => ~enabled

\* Boot recovery takes an app for running only when it is: a stale pid "is
\* exactly what this has to detect" (boot.rs).
BootSkipsOnlyRunning ==
    \A i \in Invs : At(i, "ok") /\ cmd[i] = "boot" /\ app /\ enabled =>
        pidf # NoPid /\ st[pidf] # "kin"

\* start waits on an app whose socket it can see: one that has bound its socket
\* is not given up as "stopped making progress before creating the Unix
\* socket" (start.rs).
BoundSocketIsSeen ==
    \A i \in Invs : At(i, "c_giveup") /\ sock = 0 => st[child[i]] # "up"

\* start "waits for creation and accepts a connection before returning
\* success" (CHANGELOG.md): on success the app that runs has its socket.
StartedIsReachable ==
    \A i \in Invs : At(i, "ok") /\ cmd[i] = "start" =>
        \A p \in Pids : st[p] = "up" => sock = born[p]
=============================================================================
