------------------------------- MODULE NpmJob -------------------------------
(***************************************************************************)
(* The npm commands of ONE application.  `run-job` starts a systemd        *)
(* service named after the app and returns; the service runs `job-exec` as *)
(* the account, which runs npm and writes the outcome to `.run/<app>.job`; *)
(* `stop-job` and the netguard sweep stop the service; `remove` erases the *)
(* file.  No command waits for another, and three of them and the job      *)
(* itself write the same file.                                             *)
(*                                                                         *)
(* Writes of that file are taken to succeed (write_state ignores failures).*)
(* The 60 s after which job-status gives up on a job without a pid are not *)
(* counted, and of the file's fields only the status and the pid are kept. *)
(***************************************************************************)
EXTENDS Integers, FiniteSets

CONSTANTS
    Invs,        \* invocation slots: commands that may be in flight
    Jobs,        \* job numbers, one per launch that gets to write its start
    NoJob,       \* no job; a state file with no pid
    NoFile,      \* no state file
    Commands,    \* the commands the run issues, a subset of CommandNames
    MaxActive    \* bound: invocations in flight at once

CommandNames == {"run-job", "stop-job", "netguard", "remove", "add"}

\* Whether the command rewrites node_modules or runs one of the app's scripts.
Kinds == {"tree", "script"}

Ends == {"ok", "failed", "timeout"}

\* What the state file holds; pid is that of a job's job-exec, when given.
States == [status : {"running", "stopped"} \cup Ends, pid : Jobs \cup {NoJob}]

ASSUME NullsAssumption == NoJob \notin Jobs /\ NoFile \notin States

ASSUME BoundsAssumption == Commands \subseteq CommandNames /\ MaxActive \in Nat

VARIABLES
    reg,      \* the registration `.run/<app>.app` exists
    up,       \* the app is running, as get_status tells its account
    file,     \* `.run/<app>.job`: one of States, or NoFile
    phase,    \* [Jobs -> how far the job's service has got]
    kind,     \* [Jobs -> what it runs]
    result,   \* [Jobs -> how npm ended, as job-exec knows it, or "none"]
    last,     \* the job launched last (history variable)
    pc,       \* [Invs -> the next step of the invocation]
    job,      \* [Invs -> the job it launches or stops]
    mixed,    \* two commands have overlapped, or the app was removed under its
              \* job (history variable)
    missed,   \* the jobs a stop found that are not down yet, because systemctl
              \* failed to stop them or to wait for them (history variable)
    reused    \* the jobs whose number is another process's: their job-exec is gone

app  == <<reg, up>>
unit == <<phase, kind, result, reused>>
invs == <<pc, job>>
vars == <<app, file, unit, invs, last, mixed, missed>>

-----------------------------------------------------------------------------
(* Types *)

\* "asked": run-job has written the start; "begin": the service is up;
\* "ready": its request is valid; "npm": npm runs; "done": npm has ended;
\* "dying": job-exec is gone and systemd ends the rest of the cgroup; "gone":
\* the unit is collected, or was refused.
Phases == {"none", "asked", "begin", "ready", "npm", "done", "dying", "gone"}

Steps == {"idle", "l_check", "l_write", "l_spawn", "l_fail",
          "n_scan", "s_read", "s_stop", "s_wait", "s_write",
          "x_reg", "x_run", "a_reg"}

TypeOK ==
    /\ reg \in BOOLEAN /\ up \in BOOLEAN /\ mixed \in BOOLEAN
    /\ file \in States \cup {NoFile}
    /\ phase \in [Jobs -> Phases] /\ kind \in [Jobs -> Kinds]
    /\ result \in [Jobs -> Ends \cup {"none"}]
    /\ last \in Jobs \cup {NoJob} /\ missed \subseteq Jobs /\ reused \subseteq Jobs
    /\ pc \in [Invs -> Steps]
    /\ job \in [Invs -> Jobs \cup {NoJob}]

Init ==
    /\ reg = TRUE /\ up = FALSE /\ file = NoFile
    /\ phase = [j \in Jobs |-> "none"] /\ kind = [j \in Jobs |-> "script"]
    /\ result = [j \in Jobs |-> "none"]
    /\ last = NoJob
    /\ pc = [i \in Invs |-> "idle"] /\ job = [i \in Invs |-> NoJob]
    /\ mixed = FALSE /\ missed = {} /\ reused = {}

-----------------------------------------------------------------------------
(* What the code asks systemd *)

\* The unit's main process, job-exec, is alive.
Alive(j) == phase[j] \in {"begin", "ready", "npm", "done"}

\* The unit name is taken.
Loaded(j) == Alive(j) \/ phase[j] = "dying"

\* unit_active: systemctl is-active, which a unit being stopped is not.
UnitActive == \E j \in Jobs : Alive(j)

SaysRunning(f) == f # NoFile /\ f.status = "running"

State(status, pid) == [status |-> status, pid |-> pid]

InFlight == {i \in Invs : pc[i] # "idle"}

At(i, step) == pc[i] = step

Goto(i, step) == pc' = [pc EXCEPT ![i] = step]

-----------------------------------------------------------------------------
(* Invocations begin and end *)

FirstStep(c) ==
    CASE c = "run-job" -> "l_check" [] c = "stop-job" -> "s_read"
      [] c = "netguard" -> "n_scan" [] c = "remove" -> "x_reg" [] c = "add" -> "a_reg"

\* A launch is given a number that no other has had (bound: |Jobs| launches).
Begin(i, c, j) ==
    /\ At(i, "idle")
    /\ Cardinality(InFlight) < MaxActive
    /\ IF c = "run-job"
       THEN j \in {n \in Jobs : phase[n] = "none" /\ \A k \in Invs : job[k] # n}
       ELSE j = NoJob
    /\ job' = [job EXCEPT ![i] = j]
    /\ Goto(i, FirstStep(c))
    /\ mixed' = (mixed \/ InFlight # {})
    /\ UNCHANGED <<app, file, unit, last, missed>>

\* The command answers, and its process ends.
Finish(i) == Goto(i, "idle") /\ job' = [job EXCEPT ![i] = NoJob]

-----------------------------------------------------------------------------
(* run-job: launch, as root *)

\* validate, unit_active and bindguard::ensure.  validate asks whether the app
\* runs, but as root: get_status compares the process's uid with root's, so a
\* running app is no reason to refuse here.
LaunchCheck(i) ==
    /\ At(i, "l_check")
    /\ \/ Finish(i)
       \/ reg /\ ~UnitActive /\ Goto(i, "l_write") /\ UNCHANGED job
    /\ UNCHANGED <<app, file, unit, last, mixed, missed>>

\* The start is written before there is a service.
LaunchWrite(i) ==
    /\ At(i, "l_write")
    /\ file' = State("running", NoJob)
    /\ phase' = [phase EXCEPT ![job[i]] = "asked"]
    /\ \E k \in Kinds : kind' = [kind EXCEPT ![job[i]] = k]
    /\ last' = job[i]
    /\ Goto(i, "l_spawn")
    /\ UNCHANGED <<app, result, reused, job, mixed, missed>>

\* (A slip the runs must notice: a unit name of its own for every launch.)
LaunchSpawnAnyway(i) ==
    /\ At(i, "l_spawn")
    /\ phase' = [phase EXCEPT ![job[i]] = "begin"]
    /\ Finish(i)
    /\ UNCHANGED <<app, file, kind, result, reused, last, mixed, missed>>

\* systemd-run refuses a name that is taken, and may fail for its own reasons.
LaunchSpawn(i) ==
    /\ At(i, "l_spawn")
    /\ \/ /\ \A j \in Jobs : ~Loaded(j)
          /\ phase' = [phase EXCEPT ![job[i]] = "begin"] /\ Finish(i)
          /\ UNCHANGED kind
       \/ /\ phase' = [phase EXCEPT ![job[i]] = "gone"]
          /\ kind' = [kind EXCEPT ![job[i]] = "script"]
          /\ Goto(i, "l_fail") /\ UNCHANGED job
    /\ UNCHANGED <<app, file, result, reused, last, mixed, missed>>

LaunchFailed(i) ==
    /\ At(i, "l_fail")
    /\ file' = State("failed", NoJob)
    /\ Finish(i)
    /\ UNCHANGED <<app, unit, last, mixed, missed>>

-----------------------------------------------------------------------------
(* The service: cmd_job_exec, as the account *)

SetPhase(j, p) == phase' = [phase EXCEPT ![j] = p]

\* job-exec is killed, and an outcome it has not written is lost.
Die(j) ==
    /\ SetPhase(j, "dying")
    /\ result' = [result EXCEPT ![j] = IF phase[j] = "done" THEN "none" ELSE @]

\* validate again, this time with the account's view of whether the app runs; a
\* refusal leaves the state file as the launch wrote it.
ExecValidate(j) ==
    /\ phase[j] = "begin"
    /\ \/ SetPhase(j, "dying")
       \/ reg /\ ~(kind[j] = "tree" /\ up) /\ SetPhase(j, "ready")
    /\ UNCHANGED <<app, file, kind, result, reused, invs, last, mixed, missed>>

\* (A slip: the pid is left out.)
ExecStartNoPid(j) ==
    /\ phase[j] = "ready"
    /\ file' = State("running", NoJob)
    /\ SetPhase(j, "npm") \/ SetPhase(j, "dying")
    /\ UNCHANGED <<app, kind, result, reused, invs, last, mixed, missed>>

\* job-exec records its pid and runs npm; without bwrap it exits.
ExecStart(j) ==
    /\ phase[j] = "ready"
    /\ file' = State("running", j)
    /\ SetPhase(j, "npm") \/ SetPhase(j, "dying")
    /\ UNCHANGED <<app, kind, result, reused, invs, last, mixed, missed>>

\* npm ends, or could not be started.
NpmEnds(j) ==
    /\ phase[j] = "npm"
    /\ \E r \in {"ok", "failed"} : result' = [result EXCEPT ![j] = r]
    /\ SetPhase(j, "done")
    /\ UNCHANGED <<app, file, kind, reused, invs, last, mixed, missed>>

\* (A slip: nothing watches the clock.)
NoTimeout(j) == FALSE /\ UNCHANGED vars

\* run_to_completion gives up after TIMEOUT_SECS, and kills npm.
Timeout(j) ==
    /\ phase[j] = "npm"
    /\ result' = [result EXCEPT ![j] = "timeout"]
    /\ SetPhase(j, "done")
    /\ UNCHANGED <<app, file, kind, reused, invs, last, mixed, missed>>

\* (A slip: the outcome is written without waiting for one.)
RecordEarly(j) ==
    /\ phase[j] = "npm"
    /\ file' = State(result[j], NoJob)
    /\ SetPhase(j, "dying")
    /\ UNCHANGED <<app, kind, result, reused, invs, last, mixed, missed>>

\* (A slip: running out of time is no outcome of its own.)
RecordOkOrFailed(j) ==
    /\ phase[j] = "done"
    /\ file' = State(IF result[j] = "ok" THEN "ok" ELSE "failed", NoJob)
    /\ SetPhase(j, "dying")
    /\ UNCHANGED <<app, kind, result, reused, invs, last, mixed, missed>>

\* record_outcome, and job-exec returns: systemd ends the rest of the cgroup.
RecordOutcome(j) ==
    /\ phase[j] = "done"
    /\ file' = State(result[j], NoJob)
    /\ SetPhase(j, "dying")
    /\ UNCHANGED <<app, kind, result, reused, invs, last, mixed, missed>>

\* systemd ends the unit: memory exhausted, RuntimeMaxSec.
UnitKilled(j) ==
    /\ Alive(j) /\ Die(j)
    /\ UNCHANGED <<app, file, kind, reused, invs, last, mixed, missed>>

\* SIGKILL after TimeoutStopSec: the cgroup is empty, --collect unloads it.
Collect(j) ==
    /\ phase[j] = "dying"
    /\ SetPhase(j, "gone")
    /\ kind' = [kind EXCEPT ![j] = "script"]     \* what it was no longer matters
    /\ missed' = missed \ {j}
    /\ UNCHANGED <<app, file, result, reused, invs, last, mixed>>

ExecStep(j) ==
    ExecValidate(j) \/ ExecStart(j) \/ Timeout(j) \/ RecordOutcome(j) \/ Collect(j)

-----------------------------------------------------------------------------
(* stop-job and the netguard sweep: stop, as root *)

\* The sweep looks whether the job's cgroup has processes, and at their ports.
SweepScan(i) ==
    /\ At(i, "n_scan")
    /\ \/ Finish(i)
       \/ reg /\ (\E j \in Jobs : Loaded(j)) /\ Goto(i, "s_read") /\ UNCHANGED job
    /\ UNCHANGED <<app, file, unit, last, mixed, missed>>

\* Whether there is anything to stop is decided here, and not asked again.
StopRead(i) ==
    /\ At(i, "s_read")
    /\ IF reg /\ (SaysRunning(file) \/ UnitActive)
       THEN Goto(i, "s_stop") /\ UNCHANGED job
       ELSE Finish(i)
    /\ UNCHANGED <<app, file, unit, last, mixed, missed>>

\* systemctl stop: SIGINT to the whole cgroup.  Its status is not looked at, so
\* one that fails is no reason to write anything else.
StopSignal(i) ==
    /\ At(i, "s_stop")
    /\ \/ /\ \A j \in Jobs : ~Loaded(j)
          /\ Goto(i, "s_write") /\ UNCHANGED <<unit, job, missed>>
       \/ \E j \in Jobs :
             /\ Loaded(j)
             /\ job' = [job EXCEPT ![i] = j]
             /\ \/ Die(j) /\ Goto(i, "s_wait") /\ UNCHANGED <<kind, reused, missed>>
                \/ Goto(i, "s_write") /\ missed' = missed \cup {j} /\ UNCHANGED unit
    /\ UNCHANGED <<app, file, last, mixed>>

\* (A slip: systemctl is told not to block.)
StopNoWait(i) ==
    /\ At(i, "s_wait")
    /\ Goto(i, "s_write")
    /\ UNCHANGED <<app, file, unit, job, last, mixed, missed>>

\* systemctl waits until the unit is down, unless it loses systemd meanwhile.
StopWait(i) ==
    /\ At(i, "s_wait")
    /\ \/ phase[job[i]] = "gone" /\ UNCHANGED missed
       \/ phase[job[i]] # "gone" /\ missed' = missed \cup {job[i]}
    /\ Goto(i, "s_write")
    /\ UNCHANGED <<app, file, unit, job, last, mixed>>

\* "stopped", whatever was written to the file since it was read.
StopWrite(i) ==
    /\ At(i, "s_write")
    /\ file' = State("stopped", NoJob)
    /\ Finish(i)
    /\ UNCHANGED <<app, unit, last, mixed, missed>>

-----------------------------------------------------------------------------
(* What remove and add do to a job, and the app itself (AppRun has the rest) *)

\* The registration goes first; nothing looks at the job's service.
RemoveRegistration(i) ==
    /\ At(i, "x_reg")
    /\ \/ ~reg /\ Finish(i) /\ UNCHANGED <<reg, mixed>>
       \/ /\ reg /\ reg' = FALSE
          /\ Goto(i, "x_run") /\ UNCHANGED job
          /\ mixed' = (mixed \/ \E j \in Jobs : Loaded(j))
    /\ UNCHANGED <<up, file, unit, last, missed>>

\* The app is stopped and its run files, `.job` among them, are deleted.
RemoveRunState(i) ==
    /\ At(i, "x_run")
    /\ up' = FALSE /\ file' = NoFile
    /\ Finish(i)
    /\ UNCHANGED <<reg, unit, last, mixed, missed>>

Add(i) ==
    /\ At(i, "a_reg")
    /\ reg' = TRUE
    /\ Finish(i)
    /\ UNCHANGED <<up, file, unit, last, mixed, missed>>

\* start does not ask whether a job is running; a crash or a stop needs no leave.
AppStarts == reg /\ ~up /\ up' = TRUE /\ UNCHANGED <<reg, file, unit, invs, last, mixed, missed>>

AppStops == up /\ up' = FALSE /\ UNCHANGED <<reg, file, unit, invs, last, mixed, missed>>

\* The machine restarts: only the files survive.
Reboot ==
    /\ up' = FALSE
    /\ phase' = [j \in Jobs |-> IF phase[j] = "none" THEN "none" ELSE "gone"]
    /\ result' = [j \in Jobs |-> IF phase[j] = "done" THEN "none" ELSE result[j]]
    /\ pc' = [i \in Invs |-> "idle"] /\ job' = [i \in Invs |-> NoJob]
    /\ kind' = [j \in Jobs |-> "script"]
    /\ reused' = {} /\ missed' = {}
    /\ UNCHANGED <<reg, file, last, mixed>>

\* The number of a job-exec that is gone is given to another process.  It matters
\* when the state file names it, and a process that ends again leaves what there
\* was before.
NumberReused(j) ==
    /\ phase[j] \in {"dying", "gone"} /\ SaysRunning(file) /\ file.pid = j
    /\ reused' = reused \cup {j}
    /\ UNCHANGED <<app, file, phase, kind, result, invs, last, mixed, missed>>

-----------------------------------------------------------------------------
(* The specification *)

Step(i) ==
    \/ LaunchCheck(i) \/ LaunchWrite(i) \/ LaunchSpawn(i) \/ LaunchFailed(i)
    \/ SweepScan(i) \/ StopRead(i) \/ StopSignal(i) \/ StopWait(i) \/ StopWrite(i)
    \/ RemoveRegistration(i) \/ RemoveRunState(i) \/ Add(i)

Next ==
    \/ \E i \in Invs, c \in Commands, j \in Jobs \cup {NoJob} : Begin(i, c, j)
    \/ \E i \in Invs : Step(i)
    \/ \E j \in Jobs : ExecStep(j) \/ NpmEnds(j) \/ UnitKilled(j) \/ NumberReused(j)
    \/ AppStarts \/ AppStops \/ Reboot

\* job-exec is scheduled and watches its clock, and systemd empties a cgroup it is
\* stopping.  npm may hang, and RuntimeMaxSec, which is in UnitKilled, is not
\* counted on; nor is it that any command goes on.
Fairness == \A j \in Jobs : WF_vars(ExecStep(j))

Spec == Init /\ [][Next]_vars
FairSpec == Spec /\ Fairness

-----------------------------------------------------------------------------
(* Properties that hold whatever runs at the same time *)

\* "Two npm installs over one tree corrupt node_modules" (launch): one job at a
\* time has processes at the app's files, however many were launched while the
\* others looked.  The look (unit_active) does not ensure it: the name does.
OneJobAtATime == \A j, k \in Jobs : Loaded(j) /\ Loaded(k) => j = k

\* A stop that answers found its job down, or systemctl failed to stop it or to
\* wait for it (stop).
StoppedIsDown ==
    \A i \in Invs :
        At(i, "s_write") /\ job[i] # NoJob => phase[job[i]] = "gone" \/ job[i] \in missed

\* npm that hangs is given up: no job holds the unit, and the app stopped, for
\* ever (run_to_completion).
JobsEnd == \A j \in Jobs : phase[j] = "npm" ~> phase[j] = "gone"

-----------------------------------------------------------------------------
(* Properties of commands that do not overlap *)

Settled == InFlight = {} /\ ~mixed

\* is_process_alive: there is a process of that number.
NumberAlive(j) == Alive(j) \/ j \in reused

\* What cmd_job_status answers, its minute of grace over.
Shown ==
    IF file = NoFile THEN "none"
    ELSE IF SaysRunning(file) /\ (file.pid = NoJob \/ ~NumberAlive(file.pid)) THEN "interrupted"
    ELSE file.status

\* job-status agrees with the job.  A page that asks while npm runs is told so (the
\* file is written before the service exists, and by it once npm is about to run),
\* unless a stop that failed has said otherwise; and what is shown of the job
\* launched last agrees with how it ended: an outcome it recorded is not taken
\* back, except by a stop or a removal, and one it never had is not claimed, though
\* it looks at work while its number is another's (launch, record_outcome, stop).
JobIsShown ==
    Settled =>
        /\ \A j \in Jobs : phase[j] = "npm" => Shown = "running" \/ j \in missed
        /\ last # NoJob /\ phase[last] = "gone" =>
              \/ Shown \in {"none", "stopped"}
              \/ IF result[last] # "none" THEN Shown = result[last]
                 ELSE \/ Shown \in {"interrupted", "failed"}
                      \/ Shown = "running" /\ last \in reused

-----------------------------------------------------------------------------
(* What the documentation says and the code does not do *)

\* "Interrompe o job em execucao, encerrando o servico inteiro" (stop).
StopEndsTheJob ==
    \A i \in Invs : At(i, "s_write") /\ job[i] # NoJob => phase[job[i]] = "gone"

\* "Dizer isso, em vez de mostrar para sempre algo que ja nao roda"
\* (cmd_job_status).
DeadIsNotShownRunning ==
    Settled /\ (\A j \in Jobs : phase[j] \in {"none", "gone"}) => Shown # "running"

\* "`install`/`update`/`ci` exigem a aplicação parada - reescrever node_modules
\* sob um processo que lê dela a quebra" (CHANGELOG.md).
TreeIsRewrittenStopped ==
    \A j \in Jobs : phase[j] = "npm" /\ kind[j] = "tree" => ~up
=============================================================================
