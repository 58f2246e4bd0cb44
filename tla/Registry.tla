------------------------------ MODULE Registry ------------------------------
(***************************************************************************)
(* The registrations of ONE account: the root-owned `.run/<name>.app` files*)
(* that say what to execute, the account's `isolated` flag, and the        *)
(* commands that read, rewrite and delete them.                            *)
(*                                                                         *)
(* Each command is an invocation of its own and nothing is locked.  Its    *)
(* first half runs as root (plan.rs), its second half as the account,      *)
(* which can read a registration only once root has shared it: write_as_   *)
(* root renames a root-only file into place, then hands it to the group.   *)
(*                                                                         *)
(* AppRun has the processes in full: here an app runs or not, and what     *)
(* matters is what it was launched from.                                   *)
(***************************************************************************)
EXTENDS Integers, FiniteSets

CONSTANTS
    Apps,       \* the names the account may use
    Invs,       \* invocation slots
    Entries, Nodes, Caps, \* values the keys may take
    BadValue,   \* a value its command refuses: `..`, a carriage return, 8 MB
    NoValue,    \* an absent or cleared key
    NoReg,      \* no registration
    NoApp,      \* no application
    NoRun,      \* no process
    Sandbox,    \* whether the host can isolate (sandbox::available)
    Commands,   \* the commands the run issues, a subset of CommandNames
    MaxActive,  \* bound: invocations in flight at once
    MaxBegins,  \* bound: commands ever begun
    MaxFaults   \* bound: killed invocations and failed writes

CommandNames == {"add", "set-entry", "set-node-version", "set-memory-max", "remove",
                 "start", "set-isolated"}

\* The account's isolation, as chosen.
Modes == {"on", "off"}

Values == Entries \cup Nodes \cup Caps

ASSUME NullsAssumption ==
    /\ BadValue \notin Values /\ NoValue \notin Values \cup {BadValue}
    /\ NoApp \notin Apps
    /\ (Values \cup {BadValue, NoValue}) \cap Modes = {}

Keys == {"entry", "node_version", "memory_max"}

\* What the file says: the keys the commands rewrite.  It always has an entry:
\* nobody reads it half written.
Registration == {r \in [Keys -> Values \cup {BadValue, NoValue}] : r["entry"] # NoValue}

\* What a process is launched from.
Origin == {r \in [{"entry", "node_version"} -> Values \cup {BadValue, NoValue}] :
              r["entry"] # NoValue}
Launched(r) == [k \in {"entry", "node_version"} |-> r[k]]

ASSUME RecordsAssumption ==
    /\ NoReg \notin Registration /\ NoReg \notin [reg : Registration, shared : BOOLEAN]
    /\ NoRun \notin [from : Origin, iso : Modes, known : BOOLEAN]

ASSUME BoundsAssumption ==
    /\ Commands \subseteq CommandNames /\ Sandbox \in BOOLEAN
    /\ MaxActive \in Nat /\ MaxBegins \in Nat /\ MaxFaults \in Nat

VARIABLES
    dotapp,  \* [Apps -> the `.app` file: what it says, and whether the account can read it]
    flag,    \* the account's `isolated` file: "absent", "on" or "off"
    run,     \* [Apps -> what the running process was launched from, in which mode, and
             \*          whether `.pid` names it]
    twins,   \* the account's names have one socket id (a hash may collide)
    pc, cmd, app, val, \* [Invs -> step, command, application, argument]
    snap,    \* [Invs -> the contents it has read, or will write]
    mode,    \* [Invs -> the isolation mode it has read]
    mine,    \* [Invs -> it launched the process]
    todo,    \* [Invs -> the apps a switch has still to restart]
    begins, faults,
    seen,    \* [Invs -> the registration when it began] (history)
    clean,   \* [Apps -> nothing has overlapped, been killed or failed about it] (history)
    told     \* [Apps -> what the account was told since the launch] (history)

files == <<dotapp, flag>>
args  == <<cmd, app, val>>
local == <<snap, mode, mine, todo>>
past  == <<begins, faults, seen, clean, told>>
vars  == <<files, run, twins, pc, args, local, past>>

File == [reg : Registration, shared : BOOLEAN]
Process == [from : Origin, iso : Modes, known : BOOLEAN]

\* What a command answers: ok, or the code of its refusal.
Codes == {"ok", "app_exists", "socket_id_collision", "invalid_cwd", "app_not_found",
          "invalid_argument", "add_failed", "write_failed", "sandbox_unavailable",
          "cwd_is_symlink", "invalid_entry", "entry_not_found", "start_failed"}
Steps == Codes \cup
         {"idle", "a_check", "e_check", "read", "write", "share", "answer", "r_load",
          "unlink", "clean", "s_load", "s_mode", "s_run", "c_start", "c_wait",
          "i_flag", "i_list", "i_next"}

TypeOK ==
    /\ dotapp \in [Apps -> File \cup {NoReg}]
    /\ flag \in Modes \cup {"absent"}
    /\ run \in [Apps -> Process \cup {NoRun}]
    /\ twins \in BOOLEAN
    /\ pc \in [Invs -> Steps] /\ cmd \in [Invs -> CommandNames]
    /\ app \in [Invs -> Apps \cup {NoApp}]
    /\ val \in [Invs -> Values \cup {BadValue, NoValue} \cup Modes]
    /\ snap \in [Invs -> Registration \cup {NoReg}]
    /\ mode \in [Invs -> Modes] /\ mine \in [Invs -> BOOLEAN]
    /\ todo \in [Invs -> SUBSET Apps]
    /\ begins \in Nat /\ faults \in Nat
    /\ seen \in [Invs -> File \cup {NoReg}]
    /\ clean \in [Apps -> BOOLEAN]
    /\ told \in [Apps -> {"nothing", "restart", "refused"}]

-----------------------------------------------------------------------------
(* What is read *)

Registered(a) == dotapp[a] # NoReg

\* load_app_meta as the account, which reads only a shared file.
Loadable(a) == Registered(a) /\ dotapp[a].shared

\* get_status: `.pid` and `.meta` name the process.
Running(a) == run[a] # NoRun /\ run[a].known

\* account_is_isolated.  Without a choice of its own, the account follows the
\* server's default, which is on.
Isolated == IF flag = "absent" THEN "on" ELSE flag

\* socket_id, a hash of the name.
SameSocket(a, b) == a = b \/ twins

InFlight == {i \in Invs : pc[i] # "idle"}
At(i, step) == pc[i] = step
Goto(i, step) == pc' = [pc EXCEPT ![i] = step]

\* The registrations an invocation reads or writes.
Concern(c, a) == IF c = "set-isolated" THEN Apps ELSE {b \in Apps : SameSocket(a, b)}

\* The line the file is created with; a cap is no argument of add.
Fresh(v) == [k \in Keys |-> IF k = "entry" THEN v ELSE NoValue]

\* The account has registered some apps, with or without a cap, some of them run,
\* and it may have chosen a mode.
Init ==
    /\ twins \in BOOLEAN
    /\ flag \in Modes \cup {"absent"}
    /\ \E there \in SUBSET Apps : \E up \in SUBSET there :
       \E e \in Entries, cap \in Caps \cup {NoValue} :
          LET reg == [Fresh(e) EXCEPT !["memory_max"] = cap]
          IN  /\ twins => Cardinality(there) <= 1
              /\ dotapp = [a \in Apps |-> IF a \in there
                              THEN [reg |-> reg, shared |-> TRUE] ELSE NoReg]
              /\ run = [a \in Apps |-> IF a \in up
                              THEN [from |-> Launched(reg), iso |-> Isolated, known |-> TRUE]
                              ELSE NoRun]
    /\ pc = [i \in Invs |-> "idle"] /\ cmd = [i \in Invs |-> "start"]
    /\ app = [i \in Invs |-> NoApp] /\ val = [i \in Invs |-> NoValue]
    /\ snap = [i \in Invs |-> NoReg] /\ seen = [i \in Invs |-> NoReg]
    /\ mode = [i \in Invs |-> "off"] /\ mine = [i \in Invs |-> FALSE]
    /\ todo = [i \in Invs |-> {}]
    /\ begins = 0 /\ faults = 0
    /\ clean = [a \in Apps |-> TRUE] /\ told = [a \in Apps |-> "nothing"]

-----------------------------------------------------------------------------
(* Invocations begin and end *)

FirstStep(c) ==
    CASE c = "add" -> "a_check" [] c = "set-entry" -> "e_check"
      [] c \in {"set-node-version", "set-memory-max"} -> "read"
      [] c = "remove" -> "r_load" [] c = "start" -> "s_load" [] OTHER -> "i_flag"

\* What the panel may pass.  Only a cap can be cleared (0).
ArgumentsOf(c) ==
    CASE c \in {"add", "set-entry"} -> Entries \cup {BadValue}
      [] c = "set-node-version" -> Nodes \cup {BadValue}
      [] c = "set-memory-max" -> Caps \cup {BadValue, NoValue}
      [] c = "set-isolated" -> Modes
      [] OTHER -> {NoValue}

Begin(i, c, a, v) ==
    /\ At(i, "idle") /\ v \in ArgumentsOf(c)
    /\ Cardinality(InFlight) < MaxActive /\ begins < MaxBegins
    /\ begins' = begins + 1
    /\ Goto(i, FirstStep(c))
    /\ cmd' = [cmd EXCEPT ![i] = c] /\ val' = [val EXCEPT ![i] = v]
    /\ app' = [app EXCEPT ![i] = a]
    /\ seen' = [seen EXCEPT ![i] = dotapp[a]]
    /\ clean' = [b \in Apps |-> clean[b]
                    /\ ~(b \in Concern(c, a)
                         /\ \E j \in InFlight : b \in Concern(cmd[j], app[j]))]
    /\ UNCHANGED <<files, run, twins, local, faults, told>>

\* The answer is out, the process is gone.
End(i) ==
    /\ pc[i] \in Codes
    /\ Goto(i, "idle")
    /\ cmd' = [cmd EXCEPT ![i] = "start"] /\ app' = [app EXCEPT ![i] = NoApp]
    /\ val' = [val EXCEPT ![i] = NoValue]
    /\ snap' = [snap EXCEPT ![i] = NoReg] /\ seen' = [seen EXCEPT ![i] = NoReg]
    /\ mode' = [mode EXCEPT ![i] = "off"] /\ mine' = [mine EXCEPT ![i] = FALSE]
    /\ todo' = [todo EXCEPT ![i] = {}]
    /\ UNCHANGED <<files, run, twins, begins, faults, clean, told>>

\* Something goes wrong that is not the command's doing.
Fault(i) ==
    /\ faults < MaxFaults /\ faults' = faults + 1
    /\ clean' = [b \in Apps |-> clean[b] /\ b \notin Concern(cmd[i], app[i])]

\* core-selynt is killed between two of its steps.
CutShort(i) ==
    /\ pc[i] \notin Codes \cup {"idle"}
    /\ Fault(i)
    /\ Goto(i, "idle")
    /\ cmd' = [cmd EXCEPT ![i] = "start"] /\ app' = [app EXCEPT ![i] = NoApp]
    /\ val' = [val EXCEPT ![i] = NoValue]
    /\ snap' = [snap EXCEPT ![i] = NoReg] /\ seen' = [seen EXCEPT ![i] = NoReg]
    /\ mode' = [mode EXCEPT ![i] = "off"] /\ mine' = [mine EXCEPT ![i] = FALSE]
    /\ todo' = [todo EXCEPT ![i] = {}]
    /\ UNCHANGED <<files, run, twins, begins, told>>

-----------------------------------------------------------------------------
(* appfile.rs, as root *)

KeyOf(c) ==
    CASE c = "set-entry" -> "entry" [] c = "set-node-version" -> "node_version"
      [] OTHER -> "memory_max"

\* (A slip: the caller's line replaces the whole file.)
RewriteAlone(r, k, v) == [j \in Keys |-> IF j = k THEN v ELSE IF j = "entry" THEN r[j] ELSE NoValue]

\* rewrite_key: one key, every other line as it was.
Rewrite(r, k, v) == [r EXCEPT ![k] = v]

\* create_for_add up to its write: nothing is created that is refused here.
AddCheck(i) ==
    /\ At(i, "a_check")
    /\ \/ Registered(app[i]) /\ Goto(i, "app_exists") /\ UNCHANGED snap
       \/ /\ \E b \in Apps \ {app[i]} : Registered(b) /\ SameSocket(app[i], b)
          /\ ~Registered(app[i])
          /\ Goto(i, "socket_id_collision") /\ UNCHANGED snap
       \/ /\ ~\E b \in Apps : Registered(b) /\ SameSocket(app[i], b)
          /\ \/ Goto(i, "invalid_cwd") /\ UNCHANGED snap
             \/ Goto(i, "write") /\ snap' = [snap EXCEPT ![i] = Fresh(val[i])]
    /\ UNCHANGED <<files, run, twins, args, mode, mine, todo, past>>

\* (A slip: the prelude writes, and only the command refuses.)
EntryUnchecked(i) ==
    /\ At(i, "e_check")
    /\ IF Registered(app[i]) THEN Goto(i, "read") ELSE Goto(i, "app_not_found")
    /\ UNCHANGED <<files, run, twins, args, local, past>>

\* entry_refusal, before anything is written; the file may not be there.
EntryCheck(i) ==
    /\ At(i, "e_check")
    /\ IF ~Registered(app[i]) THEN Goto(i, "app_not_found")
       ELSE IF val[i] = BadValue THEN Goto(i, "invalid_argument")
       ELSE \E code \in {"read", "entry_not_found"} : Goto(i, code)
    /\ UNCHANGED <<files, run, twins, args, local, past>>

\* rewrite_key of update_key and of apply_memory_max, which passes in silence
\* over a cap it does not accept and over an app it does not find.
ReadKey(i) ==
    /\ At(i, "read")
    /\ IF Registered(app[i]) /\ ~(cmd[i] = "set-memory-max" /\ val[i] = BadValue)
       THEN /\ snap' = [snap EXCEPT ![i] = Rewrite(dotapp[app[i]].reg, KeyOf(cmd[i]), val[i])]
            /\ Goto(i, "write")
       ELSE /\ Goto(i, IF cmd[i] = "set-memory-max" THEN "answer" ELSE "app_not_found")
            /\ UNCHANGED snap
    /\ UNCHANGED <<files, run, twins, args, mode, mine, todo, past>>

\* A write that fails is reported, but not by set-memory-max.
WriteFails(i) ==
    /\ Fault(i)
    /\ Goto(i, IF cmd[i] = "set-memory-max" THEN "answer" ELSE "write_failed")
    /\ UNCHANGED <<dotapp, begins, seen, told>>

\* (A slip: the file is opened, emptied, and then written.)
RenameInPlace(i) ==
    /\ At(i, "write")
    /\ \/ /\ dotapp' = [dotapp EXCEPT ![app[i]] = [reg |-> Fresh(NoValue), shared |-> FALSE]]
          /\ UNCHANGED <<pc, past>>
       \/ /\ dotapp' = [dotapp EXCEPT ![app[i]] = [reg |-> snap[i], shared |-> FALSE]]
          /\ Goto(i, "share") /\ UNCHANGED past
       \/ WriteFails(i)
    /\ UNCHANGED <<flag, run, twins, args, local>>

\* atomic_write: the file is there at once, whole, and readable by root alone.
Rename(i) ==
    /\ At(i, "write")
    /\ \/ /\ dotapp' = [dotapp EXCEPT ![app[i]] = [reg |-> snap[i], shared |-> FALSE]]
          /\ Goto(i, "share") /\ UNCHANGED past
       \/ WriteFails(i)
    /\ UNCHANGED <<flag, run, twins, args, local>>

\* chown_path and set_perm, on whatever is there by then.
Share(i) ==
    /\ At(i, "share")
    /\ \/ /\ Registered(app[i])
          /\ dotapp' = [dotapp EXCEPT ![app[i]].shared = TRUE]
          /\ Goto(i, "answer") /\ UNCHANGED past
       \/ WriteFails(i)
       \/ /\ ~Registered(app[i])
          /\ Goto(i, IF cmd[i] = "set-memory-max" THEN "answer" ELSE "write_failed")
          /\ UNCHANGED <<dotapp, past>>
    /\ UNCHANGED <<flag, run, twins, args, local>>

-----------------------------------------------------------------------------
(* commands.rs, as the account *)

Tell(a, what) == told' = [told EXCEPT ![a] = what]

\* (A slip: the status is asked of an app that is not recorded.)
SilentOutcome(a, c) == UNCHANGED told

\* What the account learns about the running process: set-entry and
\* set-node-version say when it has to be restarted.
Outcome(a, c) ==
    IF c \in {"set-entry", "set-node-version"} /\ Running(a)
    THEN Tell(a, "restart") ELSE UNCHANGED told

\* cmd_add, cmd_set_entry, cmd_set_node_version and cmd_set_memory_max.  All
\* but set-entry find out here whether the value can be accepted; set-entry looks
\* for the file again, as the account, and may not find it any more.
Answer(i) ==
    /\ At(i, "answer")
    /\ \/ /\ cmd[i] # "add" /\ ~Loadable(app[i])
          /\ Goto(i, "app_not_found") /\ UNCHANGED told
       \/ /\ cmd[i] = "add" \/ Loadable(app[i])
          /\ val[i] = BadValue
          /\ Goto(i, "invalid_argument")
          /\ IF cmd[i] = "set-node-version" THEN Tell(app[i], "refused") ELSE UNCHANGED told
       \/ /\ cmd[i] = "set-entry" /\ Loadable(app[i]) /\ val[i] # BadValue
          /\ Goto(i, "entry_not_found") /\ Tell(app[i], "refused")
       \/ /\ cmd[i] = "add" /\ val[i] # BadValue
          /\ Goto(i, "add_failed") /\ UNCHANGED told  \* the directory, the binary
       \/ /\ cmd[i] = "add" \/ Loadable(app[i])
          /\ val[i] # BadValue
          /\ Goto(i, "ok") /\ Outcome(app[i], cmd[i])
    /\ UNCHANGED <<files, run, twins, args, local, begins, faults, seen, clean>>

\* remove: the metadata is loaded, as root, before the file goes.
RemoveLoad(i) ==
    /\ At(i, "r_load")
    /\ Goto(i, IF Registered(app[i]) THEN "unlink" ELSE "app_not_found")
    /\ UNCHANGED <<files, run, twins, args, local, past>>

Unlink(i) ==
    /\ At(i, "unlink")
    /\ dotapp' = [dotapp EXCEPT ![app[i]] = NoReg]
    /\ Goto(i, "clean")
    /\ UNCHANGED <<flag, run, twins, args, local, past>>

\* The process and its files go.  Only then is the directory looked at, which
\* --delete-dir may refuse to delete.
Clean(i) ==
    /\ At(i, "clean")
    /\ run' = IF Running(app[i]) THEN [run EXCEPT ![app[i]] = NoRun] ELSE run
    /\ \E code \in {"ok", "cwd_is_symlink"} : Goto(i, code)
    /\ UNCHANGED <<files, twins, args, local, past>>

-----------------------------------------------------------------------------
(* start, also as the child of a switch *)

StartLoad(i) ==
    /\ At(i, "s_load")
    /\ IF Registered(app[i])
       THEN snap' = [snap EXCEPT ![i] = dotapp[app[i]].reg] /\ Goto(i, "s_mode")
       ELSE snap' = [snap EXCEPT ![i] = NoReg] /\ Goto(i, "c_start")
    /\ mine' = [mine EXCEPT ![i] = FALSE]
    /\ UNCHANGED <<files, run, twins, args, mode, todo, past>>

StartMode(i) ==
    /\ At(i, "s_mode")
    /\ mode' = [mode EXCEPT ![i] = Isolated]
    /\ Goto(i, "s_run")
    /\ UNCHANGED <<files, run, twins, args, snap, mine, todo, past>>

\* systemd-run, which an app that is up already holds off: the unit's name is taken.
Launch(i) ==
    /\ At(i, "s_run")
    /\ IF run[app[i]] = NoRun
       THEN /\ run' = [run EXCEPT ![app[i]] =
                          [from |-> Launched(snap[i]), iso |-> mode[i], known |-> FALSE]]
            /\ mine' = [mine EXCEPT ![i] = TRUE]
            /\ Tell(app[i], "nothing")
       ELSE UNCHANGED <<run, mine, told>>
    /\ Goto(i, "c_start")
    /\ UNCHANGED <<files, twins, args, snap, mode, todo, begins, faults, seen, clean>>

\* A start of its own answers; the child of a switch lets it go on.
Reply(i, code) == Goto(i, IF cmd[i] = "set-isolated" THEN "i_next" ELSE code)

\* cmd_start up to persist_state.  What refuses here leaves the process behind.
\* Without one from the prelude it launches on its own.
StartCheck(i) ==
    /\ At(i, "c_start")
    /\ IF ~Loadable(app[i]) THEN Reply(i, "app_not_found") /\ UNCHANGED <<run, snap>>
       ELSE IF dotapp[app[i]].reg["entry"] = BadValue
       THEN Reply(i, "invalid_entry") /\ UNCHANGED <<run, snap>>
       ELSE IF Running(app[i]) THEN Reply(i, "ok") /\ UNCHANGED <<run, snap>>
       ELSE IF snap[i] = NoReg
       THEN /\ snap' = [snap EXCEPT ![i] = dotapp[app[i]].reg]
            /\ Goto(i, "s_mode") /\ UNCHANGED run
       ELSE IF mine[i] /\ run[app[i]] # NoRun
       THEN run' = [run EXCEPT ![app[i]].known = TRUE] /\ Goto(i, "c_wait") /\ UNCHANGED snap
       ELSE Reply(i, "start_failed") /\ UNCHANGED <<run, snap>>
    /\ UNCHANGED <<files, twins, args, mode, mine, todo, past>>

\* The app answers, or it is given up and killed.
StartWait(i) ==
    /\ At(i, "c_wait")
    /\ \/ Running(app[i]) /\ Reply(i, "ok") /\ UNCHANGED run
       \/ run' = [run EXCEPT ![app[i]] = NoRun] /\ Reply(i, "start_failed")
    /\ UNCHANGED <<files, twins, args, local, past>>

-----------------------------------------------------------------------------
(* switch_isolation, as root *)

\* The flag's write fails: in the rename, or in the set_perm that follows it.
SwitchFlagFails(i) ==
    /\ Fault(i)
    /\ flag' \in {flag, val[i]}
    /\ Goto(i, "write_failed")
    /\ UNCHANGED <<begins, seen, told>>

SwitchFlag(i) ==
    /\ At(i, "i_flag")
    /\ IF val[i] = "on" /\ ~Sandbox
       THEN Goto(i, "sandbox_unavailable") /\ UNCHANGED <<flag, past>>
       ELSE \/ flag' = val[i] /\ Goto(i, "i_list") /\ UNCHANGED past
            \/ SwitchFlagFails(i)
    /\ UNCHANGED <<dotapp, run, twins, args, local>>

\* (A slip: the list is taken as get_status gives it to root, empty.)
SwitchListAsRoot(i) ==
    /\ At(i, "i_list")
    /\ todo' = [todo EXCEPT ![i] = {}]
    /\ Goto(i, "i_next")
    /\ UNCHANGED <<files, run, twins, args, snap, mode, mine, past>>

\* admin_get_status of every listed app, once.
SwitchList(i) ==
    /\ At(i, "i_list")
    /\ todo' = [todo EXCEPT ![i] = {a \in Apps : Registered(a) /\ Running(a)}]
    /\ Goto(i, "i_next")
    /\ UNCHANGED <<files, run, twins, args, snap, mode, mine, past>>

\* stop_app_tree, then start_app_detached; an app that is gone is passed over.
SwitchNext(i) ==
    /\ At(i, "i_next")
    /\ \/ /\ todo[i] = {}
          /\ Goto(i, "ok") /\ UNCHANGED <<run, app, todo>>
       \/ \E a \in todo[i] :
             /\ todo' = [todo EXCEPT ![i] = @ \ {a}]
             /\ IF Registered(a)
                THEN /\ run' = IF Running(a) THEN [run EXCEPT ![a] = NoRun] ELSE run
                     /\ app' = [app EXCEPT ![i] = a]
                     /\ Goto(i, "s_load")
                ELSE UNCHANGED <<run, app, pc>>
    /\ UNCHANGED <<files, twins, cmd, val, snap, mode, mine, past>>

-----------------------------------------------------------------------------

\* An app exits, crashes, or is stopped by a command or a sweep.
Exit(a) ==
    /\ run[a] # NoRun
    /\ run' = [run EXCEPT ![a] = NoRun]
    /\ UNCHANGED <<files, twins, pc, args, local, past>>

Step(i) ==
    \/ AddCheck(i) \/ EntryCheck(i) \/ ReadKey(i) \/ Rename(i) \/ Share(i) \/ Answer(i)
    \/ RemoveLoad(i) \/ Unlink(i) \/ Clean(i)
    \/ StartLoad(i) \/ StartMode(i) \/ Launch(i) \/ StartCheck(i) \/ StartWait(i)
    \/ SwitchFlag(i) \/ SwitchList(i) \/ SwitchNext(i)
    \/ End(i) \/ CutShort(i)

Next ==
    \/ \E i \in Invs, c \in Commands, a \in Apps :
          \E v \in ArgumentsOf(c) : Begin(i, c, a, v)
    \/ \E i \in Invs : Step(i)
    \/ \E a \in Apps : Exit(a)

Spec == Init /\ [][Next]_vars

-----------------------------------------------------------------------------
(* Properties *)

\* Nothing that concerns app a is under way, nor has anything about it ever
\* overlapped, been killed or failed; other apps' commands may do what they like.
Settled(a) == clean[a] /\ \A i \in InFlight : a \notin Concern(cmd[i], app[i])

\* The refusals by which a command says that it has done nothing.
Harmless(c) ==
    {"app_exists", "socket_id_collision", "invalid_cwd", "app_not_found",
     "sandbox_unavailable"}
    \cup (IF c \in {"set-entry", "set-memory-max"} THEN {"invalid_argument"} ELSE {})

\* What the registration is after a command that says ok.
Effect(c, before, v) ==
    CASE c = "add" -> [reg |-> Fresh(v), shared |-> TRUE]
      [] c = "remove" -> NoReg
      [] c \in {"set-entry", "set-node-version", "set-memory-max"} ->
            [reg |-> [before.reg EXCEPT ![KeyOf(c)] = v], shared |-> TRUE]
      [] OTHER -> before

\* A refused command leaves the registration as it found it (plan.rs: "Valida
\* antes de gravar"), however the commands of other apps interleave.  One refusal
\* of set-entry may come after the write: then the new entry is there, whole.
RefusalsChangeNothing ==
    \A i \in Invs : pc[i] \in Codes /\ cmd[i] # "set-isolated" /\ clean[app[i]] =>
        /\ pc[i] \in Harmless(cmd[i]) => dotapp[app[i]] = seen[i]
        /\ pc[i] = "entry_not_found" =>
              dotapp[app[i]] \in {seen[i], Effect(cmd[i], seen[i], val[i])}

\* A command that answers ok has done what it says to its registration and
\* nothing else: no other key is lost, the account can read the file again, and
\* what is added shares its socket with no other app.
AnswersAreEffects ==
    \A i \in Invs :
        pc[i] = "ok" /\ cmd[i] # "set-isolated" /\ clean[app[i]] =>
            /\ dotapp[app[i]] = Effect(cmd[i], seen[i], val[i])
            /\ cmd[i] = "add" =>
                  \A b \in Apps \ {app[i]} : Registered(b) => ~SameSocket(app[i], b)

\* An app that runs from something else than its registration says was announced
\* to need a restart, or its change was refused ("restart_required", commands.rs).
RestartIsAsked ==
    \A a \in Apps :
        Settled(a) /\ Registered(a) /\ Running(a)
        /\ run[a].from # Launched(dotapp[a].reg)
        => told[a] # "nothing"

\* Once the account has chosen, and nothing overlapped the switch or failed in it,
\* all of its running apps are in the chosen mode: a sibling left in the other one
\* undoes the isolation of all (switch_isolation).
SwitchCoversAccount ==
    flag # "absent" /\ (\A a \in Apps : Settled(a)) =>
        \A a \in Apps : Running(a) => run[a].iso = flag

-----------------------------------------------------------------------------
(* What the documentation says and the code does not do *)

\* "A recusa acontece antes da gravacao: o preludio escreve o .app como root, e
\* validar so depois deixaria a aplicacao apontando para um arquivo inexistente"
\* (CHANGELOG.md): set-entry looks for the file a second time, after the write.
EntryRefusedBeforeWrite ==
    \A i \in Invs :
        pc[i] = "entry_not_found" /\ clean[app[i]] => dotapp[app[i]] = seen[i]
=============================================================================
