--------------------------- MODULE NpmJob_proofs ---------------------------
(***************************************************************************)
(* What holds of the npm commands for any number of jobs and of commands   *)
(* in flight.  The first facts are about the service's name, which systemd *)
(* gives to one unit at a time; the inductive invariant says, for every    *)
(* step at which a command relies on a job, how far that job has got.  The *)
(* last is about the state file, while commands do not overlap: what it    *)
(* says of the job launched last, by how far that has got.                 *)
(***************************************************************************)
EXTENDS NpmJob, TLAPS

Launching(i) == pc[i] \in {"l_check", "l_write", "l_spawn"}

\* No two launches have one number.
OwnNumbers ==
    \A i, k \in Invs : Launching(i) /\ Launching(k) /\ job[i] = job[k] => i = k

\* What a command relies on at each of its steps.
Reliance(i) ==
    /\ pc[i] \in {"l_check", "l_write"} => job[i] \in Jobs /\ phase[job[i]] = "none"
    /\ pc[i] = "l_spawn" => job[i] \in Jobs /\ phase[job[i]] = "asked"
    /\ pc[i] \in {"n_scan", "s_read", "s_stop"} => job[i] = NoJob
    /\ pc[i] = "s_wait" => job[i] \in Jobs /\ phase[job[i]] \in {"dying", "gone"}
    /\ pc[i] = "s_write" /\ job[i] # NoJob => phase[job[i]] = "gone" \/ job[i] \in missed

\* An outcome is written only once there is one.
Ended == \A j \in Jobs : phase[j] = "done" => result[j] # "none"

Relied == \A i \in Invs : Reliance(i)

IInv == TypeOK /\ OneJobAtATime /\ OwnNumbers /\ Relied /\ Ended

LEMMA InitIInv == Init => IInv
  <1> SUFFICES ASSUME Init PROVE IInv
    OBVIOUS
  <1>1. reg \in BOOLEAN /\ up \in BOOLEAN /\ mixed \in BOOLEAN
    BY Zenon DEF Init
  <1>2. file \in States \cup {NoFile}
    BY Zenon DEF Init
  <1>3. TypeOK
    BY <1>1, <1>2 DEF Init, TypeOK, Kinds, Ends, Phases, Steps
  <1>4. OneJobAtATime /\ OwnNumbers /\ Relied /\ Ended
    BY DEF Init, OneJobAtATime, Loaded, Alive, OwnNumbers, Launching, Relied, Reliance, Ended
  <1> QED BY <1>3, <1>4 DEF IInv

\* A command of any kind begins: a launch takes a number nobody has.
LEMMA BeginIInv ==
  ASSUME IInv, NEW i \in Invs, NEW c \in Commands, NEW j \in Jobs \cup {NoJob},
         Begin(i, c, j)
  PROVE  IInv'
  <1>1. c \in CommandNames
    BY BoundsAssumption
  <1>2. FirstStep(c) \in {"l_check", "s_read", "n_scan", "x_reg", "a_reg"}
        /\ (FirstStep(c) = "l_check" <=> c = "run-job")
    BY <1>1 DEF FirstStep, CommandNames
  <1>3. TypeOK'
    BY <1>2 DEF IInv, TypeOK, Begin, Goto, app, unit, Steps
  <1>4. OneJobAtATime'
    BY DEF IInv, OneJobAtATime, Begin, unit, Loaded, Alive
  <1>5. OwnNumbers'
    BY <1>2, NullsAssumption
    DEF IInv, TypeOK, OwnNumbers, Launching, Begin, Goto, At, InFlight
  <1>6. Relied'
    BY <1>2, NullsAssumption DEF IInv, TypeOK, Relied, Reliance, Begin, Goto, At, unit
  <1>7. Ended'
    BY DEF IInv, Ended, Begin, unit
  <1> QED BY <1>3, <1>4, <1>5, <1>6, <1>7 DEF IInv

LEMMA TypeStates ==
  ASSUME NEW p \in Jobs \cup {NoJob}, NEW t \in {"running", "stopped"} \cup Ends
  PROVE  State(t, p) \in States
  BY DEF State, States

\* A launch looks, writes its start, spawns the service or gives up.
LEMMA LaunchIInv ==
  ASSUME IInv, NEW i \in Invs,
         LaunchCheck(i) \/ LaunchWrite(i) \/ LaunchSpawn(i) \/ LaunchFailed(i)
  PROVE  IInv'
  <1>1. CASE LaunchCheck(i)
    <2>1. TypeOK'
      BY <1>1 DEF IInv, TypeOK, LaunchCheck, Finish, Goto, app, unit, Steps
    <2>2. OneJobAtATime' /\ OwnNumbers' /\ Relied' /\ Ended'
      BY <1>1, NullsAssumption
      DEF IInv, TypeOK, OneJobAtATime, Loaded, Alive, OwnNumbers, Launching, Relied,
          Reliance, Ended, LaunchCheck, Finish, Goto, At, unit
    <2> QED BY <2>1, <2>2 DEF IInv
  <1>2. CASE LaunchWrite(i)
    <2>1. State("running", NoJob) \in States
      BY TypeStates
    <2>2. job[i] \in Jobs /\ phase[job[i]] = "none"
      BY <1>2 DEF IInv, Relied, Reliance, LaunchWrite, At
    <2>3. TypeOK'
      BY <1>2, <2>1, <2>2 DEF IInv, TypeOK, LaunchWrite, Goto, app, Steps, Phases
    <2>4. OneJobAtATime'
      BY <1>2, <2>2 DEF IInv, TypeOK, OneJobAtATime, Loaded, Alive, LaunchWrite
    <2>5. OwnNumbers'
      BY <1>2 DEF IInv, TypeOK, OwnNumbers, Launching, LaunchWrite, Goto, At
    <2>6. Relied'
      BY <1>2, <2>2 DEF IInv, TypeOK, OwnNumbers, Launching, Relied, Reliance,
                        LaunchWrite, Goto, At
    <2>7. Ended'
      BY <1>2, <2>2 DEF IInv, TypeOK, Ended, LaunchWrite
    <2> QED BY <2>3, <2>4, <2>5, <2>6, <2>7 DEF IInv
  <1>3. CASE LaunchSpawn(i)
    <2>1. job[i] \in Jobs /\ phase[job[i]] = "asked"
      BY <1>3 DEF IInv, Relied, Reliance, LaunchSpawn, At
    <2>2. TypeOK'
      BY <1>3, <2>1 DEF IInv, TypeOK, LaunchSpawn, Finish, Goto, app, Steps, Phases, Kinds
    <2>3. OneJobAtATime'
      BY <1>3, <2>1 DEF IInv, TypeOK, OneJobAtATime, Loaded, Alive, LaunchSpawn
    <2>4. OwnNumbers'
      BY <1>3 DEF IInv, TypeOK, OwnNumbers, Launching, LaunchSpawn, Finish, Goto, At
    <2>5. Relied'
      BY <1>3, <2>1, NullsAssumption
      DEF IInv, TypeOK, OwnNumbers, Launching, Relied, Reliance, LaunchSpawn, Finish,
          Goto, At
    <2>6. Ended'
      BY <1>3, <2>1 DEF IInv, TypeOK, Ended, LaunchSpawn
    <2> QED BY <2>2, <2>3, <2>4, <2>5, <2>6 DEF IInv
  <1>4. CASE LaunchFailed(i)
    <2>1. State("failed", NoJob) \in States
      BY TypeStates DEF Ends
    <2>2. TypeOK'
      BY <1>4, <2>1 DEF IInv, TypeOK, LaunchFailed, Finish, Goto, app, unit, Steps
    <2>3. OneJobAtATime' /\ OwnNumbers' /\ Relied' /\ Ended'
      BY <1>4, NullsAssumption
      DEF IInv, TypeOK, OneJobAtATime, Loaded, Alive, OwnNumbers, Launching, Relied,
          Reliance, Ended, LaunchFailed, Finish, Goto, At, unit
    <2> QED BY <2>2, <2>3 DEF IInv
  <1> QED BY <1>1, <1>2, <1>3, <1>4

\* A service that is there goes on towards its end: no command is misled.
LEMMA Onward ==
  ASSUME IInv, NEW j \in Jobs, NEW p, UNCHANGED invs, TypeOK', Ended', SetPhase(j, p),
         \/ Alive(j) /\ p \in {"ready", "npm", "done", "dying"} /\ missed' = missed
         \/ phase[j] = "dying" /\ p = "gone" /\ missed' = missed \ {j}
  PROVE  IInv'
  <1>1. OneJobAtATime'
    BY DEF IInv, TypeOK, OneJobAtATime, Loaded, Alive, SetPhase
  <1>2. OwnNumbers'
    BY DEF IInv, OwnNumbers, Launching, invs
  <1>3. Relied'
    BY DEF IInv, TypeOK, Relied, Reliance, SetPhase, Alive, invs
  <1> QED BY <1>1, <1>2, <1>3 DEF IInv

\* job-exec, npm and systemd.
LEMMA ServiceIInv ==
  ASSUME IInv, NEW j \in Jobs, ExecStep(j) \/ NpmEnds(j) \/ UnitKilled(j)
  PROVE  IInv'
  <1> USE DEF Alive
  <1>1. CASE ExecValidate(j)
    <2>1. TypeOK'
      BY <1>1 DEF IInv, TypeOK, ExecValidate, SetPhase, app, invs, Phases
    <2>2. Ended'
      BY <1>1 DEF IInv, TypeOK, Ended, ExecValidate, SetPhase
    <2> QED BY <1>1, <2>1, <2>2, Onward DEF ExecValidate
  <1>2. CASE ExecStart(j)
    <2>1. State("running", j) \in States
      BY TypeStates
    <2>2. TypeOK'
      BY <1>2, <2>1 DEF IInv, TypeOK, ExecStart, SetPhase, app, invs, Phases
    <2>3. Ended'
      BY <1>2 DEF IInv, TypeOK, Ended, ExecStart, SetPhase
    <2> QED BY <1>2, <2>2, <2>3, Onward DEF ExecStart
  <1>3. CASE NpmEnds(j) \/ Timeout(j)
    <2>1. TypeOK'
      BY <1>3 DEF IInv, TypeOK, NpmEnds, Timeout, SetPhase, app, invs, Phases, Ends
    <2>2. Ended'
      BY <1>3 DEF IInv, TypeOK, Ended, NpmEnds, Timeout, SetPhase
    <2> QED BY <1>3, <2>1, <2>2, Onward DEF NpmEnds, Timeout
  <1>4. CASE RecordOutcome(j)
    <2>1. State(result[j], NoJob) \in States \/ result[j] = "none"
      BY TypeStates DEF IInv, TypeOK
    <2>2. result[j] # "none"
      BY <1>4 DEF IInv, Ended, RecordOutcome
    <2>3. TypeOK'
      BY <1>4, <2>1, <2>2 DEF IInv, TypeOK, RecordOutcome, SetPhase, app, invs, Phases
    <2>4. Ended'
      BY <1>4 DEF IInv, TypeOK, Ended, RecordOutcome, SetPhase
    <2> QED BY <1>4, <2>3, <2>4, Onward DEF RecordOutcome
  <1>5. CASE UnitKilled(j)
    <2>1. TypeOK'
      BY <1>5 DEF IInv, TypeOK, UnitKilled, Die, SetPhase, app, invs, Phases
    <2>2. Ended'
      BY <1>5 DEF IInv, TypeOK, Ended, UnitKilled, Die, SetPhase
    <2> QED BY <1>5, <2>1, <2>2, Onward DEF UnitKilled, Die
  <1>6. CASE Collect(j)
    <2>1. TypeOK'
      BY <1>6 DEF IInv, TypeOK, Collect, SetPhase, app, invs, Phases, Kinds
    <2>2. Ended'
      BY <1>6 DEF IInv, TypeOK, Ended, Collect, SetPhase
    <2> QED BY <1>6, <2>1, <2>2, Onward DEF Collect
  <1> QED BY <1>1, <1>2, <1>3, <1>4, <1>5, <1>6 DEF ExecStep

\* A stop waits for the job it found.
LEMMA StopIInv ==
  ASSUME IInv, NEW i \in Invs,
         SweepScan(i) \/ StopRead(i) \/ StopSignal(i) \/ StopWait(i) \/ StopWrite(i)
  PROVE  IInv'
  <1>1. CASE SweepScan(i) \/ StopRead(i) \/ StopWait(i)
    <2>1. pc[i] = "s_wait" => job[i] \in Jobs
      BY DEF IInv, Relied, Reliance
    <2>2. TypeOK'
      BY <1>1, <2>1
      DEF IInv, TypeOK, SweepScan, StopRead, StopWait, Finish, Goto, At, app, unit, Steps
    <2>3. OneJobAtATime' /\ OwnNumbers' /\ Ended'
      BY <1>1 DEF IInv, TypeOK, OneJobAtATime, Loaded, Alive, OwnNumbers, Launching, Ended,
                  SweepScan, StopRead, StopWait, Finish, Goto, At, unit
    <2>4. Relied'
      BY <1>1 DEF IInv, TypeOK, Relied, Reliance,
                  SweepScan, StopRead, StopWait, Finish, Goto, At, unit
    <2> QED BY <2>2, <2>3, <2>4 DEF IInv
  <1>2. CASE StopSignal(i)
    <2>1. CASE UNCHANGED <<unit, job, missed>> /\ Goto(i, "s_write")
      <3>1. TypeOK'
        BY <1>2, <2>1 DEF IInv, TypeOK, StopSignal, Goto, app, unit, Steps
      <3>2. OneJobAtATime' /\ OwnNumbers' /\ Relied' /\ Ended'
        BY <1>2, <2>1 DEF IInv, TypeOK, OneJobAtATime, Loaded, Alive, OwnNumbers, Launching,
                          Relied, Reliance, Ended, StopSignal, Goto, At, unit
      <3> QED BY <3>1, <3>2 DEF IInv
    <2>2. ASSUME NEW j \in Jobs, Loaded(j), Die(j), job' = [job EXCEPT ![i] = j],
                 Goto(i, "s_wait"), UNCHANGED <<kind, reused, missed>>
          PROVE  IInv'
      <3>1. TypeOK'
        BY <1>2, <2>2
        DEF IInv, TypeOK, StopSignal, Die, SetPhase, Goto, app, Steps, Phases
      <3>2. OneJobAtATime' /\ Ended'
        BY <2>2 DEF IInv, TypeOK, OneJobAtATime, Loaded, Alive, Ended, Die, SetPhase
      <3>3. OwnNumbers'
        BY <1>2, <2>2 DEF IInv, TypeOK, OwnNumbers, Launching, StopSignal, Goto, At
      <3>4. Relied'
        BY <1>2, <2>2 DEF IInv, TypeOK, Relied, Reliance, Loaded, Alive, StopSignal, Die,
                          SetPhase, Goto, At
      <3> QED BY <3>1, <3>2, <3>3, <3>4 DEF IInv
    <2>3. ASSUME NEW j \in Jobs, job' = [job EXCEPT ![i] = j], Goto(i, "s_write"),
                 missed' = missed \cup {j}, UNCHANGED unit
          PROVE  IInv'
      <3>1. TypeOK'
        BY <1>2, <2>3 DEF IInv, TypeOK, StopSignal, Goto, app, unit, Steps
      <3>2. OneJobAtATime' /\ Ended'
        BY <2>3 DEF IInv, OneJobAtATime, Loaded, Alive, Ended, unit
      <3>3. OwnNumbers' /\ Relied'
        BY <1>2, <2>3 DEF IInv, TypeOK, OwnNumbers, Launching, Relied, Reliance, StopSignal,
                          Goto, At, unit
      <3> QED BY <3>1, <3>2, <3>3 DEF IInv
    <2> QED BY <1>2, <2>1, <2>2, <2>3 DEF StopSignal
  <1>3. CASE StopWrite(i)
    <2>1. State("stopped", NoJob) \in States
      BY TypeStates
    <2>2. TypeOK'
      BY <1>3, <2>1 DEF IInv, TypeOK, StopWrite, Finish, Goto, app, unit, Steps
    <2>3. OneJobAtATime' /\ OwnNumbers' /\ Relied' /\ Ended'
      BY <1>3 DEF IInv, TypeOK, OneJobAtATime, Loaded, Alive, OwnNumbers, Launching, Relied,
                  Reliance, Ended, StopWrite, Finish, Goto, At, unit
    <2> QED BY <2>2, <2>3 DEF IInv
  <1> QED BY <1>1, <1>2, <1>3

\* remove, add and the app do not touch the service.
LEMMA AppIInv ==
  ASSUME IInv,
         \/ \E i \in Invs : RemoveRegistration(i) \/ RemoveRunState(i) \/ Add(i)
         \/ AppStarts \/ AppStops
  PROVE  IInv'
  <1>1. CASE AppStarts \/ AppStops
    <2>1. TypeOK'
      BY <1>1 DEF IInv, TypeOK, AppStarts, AppStops, unit, invs
    <2> QED BY <1>1, <2>1 DEF IInv, TypeOK, OneJobAtATime, Loaded, Alive, OwnNumbers, Launching,
                  Relied, Reliance, Ended, AppStarts, AppStops, unit, invs
  <1>2. ASSUME NEW i \in Invs, RemoveRegistration(i) \/ RemoveRunState(i) \/ Add(i)
        PROVE  IInv'
    <2>1. mixed' \in BOOLEAN /\ reg' \in BOOLEAN /\ up' \in BOOLEAN
      BY <1>2 DEF IInv, TypeOK, RemoveRegistration, RemoveRunState, Add
    <2>2. TypeOK'
      BY <1>2, <2>1 DEF IInv, TypeOK, RemoveRegistration, RemoveRunState, Add, Finish, Goto,
                        unit, Steps
    <2>3. OneJobAtATime' /\ Ended'
      BY <1>2 DEF IInv, OneJobAtATime, Loaded, Alive, Ended, RemoveRegistration,
                  RemoveRunState, Add, unit
    <2>4. OwnNumbers' /\ Relied'
      BY <1>2 DEF IInv, TypeOK, OwnNumbers, Launching, Relied, Reliance, RemoveRegistration,
                  RemoveRunState, Add, Finish, Goto, At, unit
    <2> QED BY <2>2, <2>3, <2>4 DEF IInv
  <1> QED BY <1>1, <1>2

LEMMA RebootIInv ==
  ASSUME IInv, Reboot
  PROVE  IInv'
  <1>1. TypeOK'
    BY DEF IInv, TypeOK, Reboot, Phases, Kinds, Steps
  <1>2. OneJobAtATime' /\ Ended'
    BY DEF IInv, TypeOK, OneJobAtATime, Loaded, Alive, Ended, Reboot
  <1>3. OwnNumbers' /\ Relied'
    BY DEF IInv, OwnNumbers, Launching, Relied, Reliance, Reboot
  <1> QED BY <1>1, <1>2, <1>3 DEF IInv

LEMMA ReuseIInv ==
  ASSUME IInv, NEW j \in Jobs, NumberReused(j)
  PROVE  IInv'
  <1>1. TypeOK'
    BY DEF IInv, TypeOK, NumberReused, app, invs
  <1>2. OneJobAtATime' /\ OwnNumbers' /\ Relied' /\ Ended'
    BY DEF IInv, OneJobAtATime, Loaded, Alive, OwnNumbers, Launching, Relied, Reliance, Ended,
           NumberReused, invs
  <1> QED BY <1>1, <1>2 DEF IInv

LEMMA StepIInv == IInv /\ [Next]_vars => IInv'
  <1> SUFFICES ASSUME IInv, [Next]_vars PROVE IInv'
    OBVIOUS
  <1>1. CASE UNCHANGED vars
    BY <1>1 DEF IInv, TypeOK, OneJobAtATime, Loaded, Alive, OwnNumbers, Launching, Relied,
                Reliance, Ended, vars, app, unit, invs
  <1>2. CASE Next
    <2>1. ASSUME NEW i \in Invs, Step(i) PROVE IInv'
      BY <2>1, LaunchIInv, StopIInv, AppIInv DEF Step
    <2> QED BY <1>2, <2>1, BeginIInv, ServiceIInv, AppIInv, RebootIInv, ReuseIInv DEF Next
  <1> QED BY <1>1, <1>2

LEMMA InductiveInvariant == Spec => []IInv
  BY InitIInv, StepIInv, PTL DEF Spec

\* However many launches look for a running job at once, one job at a time has
\* processes at the application's files (launch).
THEOREM JobsDoNotOverlap == Spec => []OneJobAtATime
  <1>1. IInv => OneJobAtATime
    BY DEF IInv
  <1> QED BY <1>1, InductiveInvariant, PTL

\* Whoever else stops, launches or removes meanwhile, a stop that answers found
\* its job down, or systemctl failed to stop it or to wait for it (stop).
THEOREM StopsWait == Spec => []StoppedIsDown
  <1>1. IInv => StoppedIsDown
    BY DEF IInv, Relied, Reliance, StoppedIsDown, At
  <1> QED BY <1>1, InductiveInvariant, PTL

\* Every reachable state is well typed; in particular job-exec records an
\* outcome only when npm has had one (record_outcome).
THEOREM TypeCorrect == Spec => []TypeOK
  <1>1. IInv => TypeOK
    BY DEF IInv
  <1> QED BY <1>1, InductiveInvariant, PTL

-----------------------------------------------------------------------------
(* Commands that do not overlap: what job-status says of the job *)

OneCommand == \A i, k \in Invs : pc[i] # "idle" /\ pc[k] # "idle" => i = k

\* Every job but the last launched is past writing to the file, and the last is
\* waiting for its service only while its launch is.
OldJobs ==
    /\ \A j \in Jobs : j # last => phase[j] \in {"none", "dying", "gone"}
    /\ \A j \in Jobs : phase[j] = "asked" => \E i \in Invs : pc[i] = "l_spawn"

\* npm has no outcome until it ends.
NoOutcome ==
    \A j \in Jobs : phase[j] \in {"none", "asked", "begin", "ready", "npm"} => result[j] = "none"

\* What the file says of the job launched last, by how far that has got.
Outcome(j) ==
    IF result[j] = "none" THEN {State("running", NoJob), State("running", j)}
                          ELSE {State(result[j], NoJob)}

\* A stop that failed writes what it writes.
FailedStop(j) == j \in missed /\ file = State("stopped", NoJob)

Filed ==
    \A j \in Jobs : j = last =>
        /\ phase[j] # "none"
        /\ phase[j] \in {"asked", "begin", "ready"} =>
              file = State("running", NoJob) \/ FailedStop(j)
        /\ phase[j] \in {"npm", "done"} => file = State("running", j) \/ FailedStop(j)
        /\ phase[j] = "dying" => file \in Outcome(j) \/ FailedStop(j)
        /\ phase[j] = "gone" =>
              \/ file \in Outcome(j) \cup {NoFile, State("stopped", NoJob)}
              \/ result[j] = "none" /\ file = State("failed", NoJob)

\* What a command has seen is so until its next step.
Seen(i) ==
    /\ pc[i] = "l_write" => \A j \in Jobs : ~Alive(j)
    /\ pc[i] = "l_spawn" => job[i] = last
    /\ pc[i] = "l_fail" => last \in Jobs /\ phase[last] = "gone" /\ result[last] = "none"
    /\ pc[i] = "s_wait" => \A j \in Jobs : Loaded(j) => j = job[i]
    /\ pc[i] = "s_write" => \A j \in Jobs : Loaded(j) => j \in missed
    /\ pc[i] = "x_run" => \A j \in Jobs : ~Loaded(j)

Apart ==
    OneCommand /\ OldJobs /\ NoOutcome /\ Filed /\ \A i \in Invs : Seen(i)

ApartInv == ~mixed => Apart

\* A service that is there goes on, whatever the file is told meanwhile.
LEMMA OnwardApart ==
  ASSUME IInv, Apart, NEW j \in Jobs, NEW p, UNCHANGED <<invs, last>>,
         phase' = [phase EXCEPT ![j] = p], NoOutcome', Filed',
         \/ Alive(j) /\ p \in {"ready", "npm", "done", "dying"} /\ missed' = missed
         \/ phase[j] = "dying" /\ p = "gone" /\ missed' = missed \ {j},
         \A k \in Jobs : k # j => result'[k] = result[k]
  PROVE  Apart'
<1> USE DEF IInv, TypeOK, Apart, invs
<1>1. OneCommand'
  BY DEF OneCommand
<1>2. OldJobs'
  BY DEF OldJobs, Alive
<1>3. ASSUME NEW i \in Invs
      PROVE  Seen(i)'
  BY DEF Seen, Alive, Loaded
<1> QED
  BY <1>1, <1>2, <1>3

LEMMA ServiceApart ==
  ASSUME IInv, Apart, NEW j \in Jobs, ExecStep(j) \/ NpmEnds(j) \/ UnitKilled(j)
  PROVE  Apart'
<1> USE DEF IInv, TypeOK, SetPhase, Alive, Outcome, Die, FailedStop
<1>1. phase[j] \in {"begin", "ready", "npm", "done"} => j = last
  BY DEF Apart, OldJobs
<1>2. NoOutcome' /\ Filed' /\ last' = last /\ invs' = invs
  <2>1. CASE ExecValidate(j)
    BY <1>1, <2>1 DEF Apart, NoOutcome, Filed, ExecValidate
  <2>2. CASE ExecStart(j)
    BY <1>1, <2>2 DEF Apart, NoOutcome, Filed, ExecStart
  <2>3. CASE NpmEnds(j) \/ Timeout(j)
    BY <1>1, <2>3 DEF Apart, NoOutcome, Filed, NpmEnds, Timeout
  <2>4. CASE RecordOutcome(j)
    BY <1>1, <2>4 DEF Apart, NoOutcome, Filed, RecordOutcome, Ended
  <2>5. CASE UnitKilled(j)
    BY <1>1, <2>5 DEF Apart, NoOutcome, Filed, UnitKilled
  <2>6. CASE Collect(j)
    BY <1>1, <2>6 DEF Apart, NoOutcome, Filed, Collect
  <2> QED
    BY <2>1, <2>2, <2>3, <2>4, <2>5, <2>6 DEF ExecStep
<1> QED
  BY <1>2, OnwardApart
  DEF ExecStep, ExecValidate, ExecStart, NpmEnds, Timeout, RecordOutcome, UnitKilled, Collect

LEMMA LaunchApart ==
  ASSUME IInv, Apart, NEW i \in Invs,
         LaunchCheck(i) \/ LaunchWrite(i) \/ LaunchSpawn(i) \/ LaunchFailed(i)
  PROVE  Apart'
<1> USE DEF IInv, TypeOK, At, Goto, Finish, unit, FailedStop
<1>1. \A k \in Invs : pc[k] # "idle" => k = i
  BY DEF Apart, OneCommand, LaunchCheck, LaunchWrite, LaunchSpawn, LaunchFailed
<1>2. /\ \A k \in Invs : k # i => pc'[k] = pc[k] /\ job'[k] = job[k]
      /\ pc[i] # "idle"
  BY DEF LaunchCheck, LaunchWrite, LaunchSpawn, LaunchFailed
<1>3. OneCommand'
  BY <1>1, <1>2 DEF OneCommand
<1>4. \A k \in Invs : k # i => Seen(k)'
  BY <1>1, <1>2 DEF Seen
<1>5. CASE LaunchCheck(i)
  <2>1. OldJobs' /\ NoOutcome' /\ Filed'
    BY <1>1, <1>5 DEF LaunchCheck, Apart, OldJobs, NoOutcome, Filed, Outcome
  <2>2. Seen(i)'
    BY <1>5 DEF LaunchCheck, UnitActive, Seen, Alive
  <2> QED
    BY <1>3, <1>4, <2>1, <2>2 DEF Apart
<1>6. CASE LaunchWrite(i)
  <2>1. job[i] \in Jobs /\ phase[job[i]] = "none" /\ \A j \in Jobs : ~Alive(j) /\ phase[j] # "asked"
    BY <1>1, <1>6 DEF LaunchWrite, Relied, Reliance, Apart, Seen, OldJobs
  <2>2. OldJobs'
    BY <1>6, <2>1 DEF LaunchWrite, OldJobs, Alive, Phases
  <2>3. NoOutcome' /\ Filed'
    BY <1>6, <2>1 DEF LaunchWrite, Apart, NoOutcome, Filed
  <2>4. Seen(i)'
    BY <1>6 DEF LaunchWrite, Seen
  <2> QED
    BY <1>3, <1>4, <2>2, <2>3, <2>4 DEF Apart
<1>7. CASE LaunchSpawn(i)
  <2>1. job[i] \in Jobs /\ phase[last] = "asked" /\ job[i] = last
    BY <1>7 DEF LaunchSpawn, Relied, Reliance, Apart, Seen
  <2>2. OldJobs'
    BY <1>1, <1>7, <2>1 DEF LaunchSpawn, Apart, OldJobs
  <2>3. NoOutcome' /\ Filed'
    BY <1>7, <2>1 DEF LaunchSpawn, Apart, NoOutcome, Filed, Outcome
  <2>4. Seen(i)'
    BY <1>7, <2>1 DEF LaunchSpawn, Seen, Apart, NoOutcome
  <2> QED
    BY <1>3, <1>4, <2>2, <2>3, <2>4 DEF Apart
<1>8. CASE LaunchFailed(i)
  <2>1. last \in Jobs /\ phase[last] = "gone" /\ result[last] = "none"
    BY <1>8 DEF LaunchFailed, Apart, Seen
  <2>2. OldJobs' /\ NoOutcome' /\ Filed'
    BY <1>1, <1>8, <2>1 DEF LaunchFailed, Apart, OldJobs, NoOutcome, Filed
  <2>3. Seen(i)'
    BY <1>8 DEF LaunchFailed, Seen
  <2> QED
    BY <1>3, <1>4, <2>2, <2>3 DEF Apart
<1> QED
  BY <1>5, <1>6, <1>7, <1>8

\* What a stop and a removal do: they end the one job there is, and write once
\* there is none.
LEMMA StopApart ==
  ASSUME IInv, Apart, NEW i \in Invs,
         \/ SweepScan(i) \/ StopRead(i) \/ StopSignal(i) \/ StopWait(i) \/ StopWrite(i)
         \/ RemoveRegistration(i) \/ RemoveRunState(i) \/ Add(i),
         ~mixed'
  PROVE  Apart'
<1> USE DEF IInv, TypeOK, At, Goto, Finish, unit, FailedStop
<1>1. \A k \in Invs : pc[k] # "idle" => k = i
  BY DEF Apart, OneCommand, SweepScan, StopRead, StopSignal, StopWait, StopWrite,
         RemoveRegistration, RemoveRunState, Add
<1>2. /\ \A k \in Invs : k # i => pc'[k] = pc[k] /\ job'[k] = job[k]
      /\ pc[i] \notin {"idle", "l_spawn"} /\ last' = last
  BY DEF SweepScan, StopRead, StopSignal, StopWait, StopWrite, RemoveRegistration,
         RemoveRunState, Add
<1>3. OneCommand'
  BY <1>1, <1>2 DEF OneCommand
<1>4. \A k \in Invs : k # i => Seen(k)'
  BY <1>1, <1>2 DEF Seen
<1>5. \A j \in Jobs : phase[j] # "asked"
  BY <1>1, <1>2 DEF Apart, OldJobs
<1>6. CASE SweepScan(i) \/ StopRead(i) \/ StopWait(i) \/ RemoveRegistration(i) \/ Add(i)
  <2>1. OldJobs' /\ NoOutcome' /\ Filed'
    BY <1>5, <1>6 DEF SweepScan, StopRead, StopWait, RemoveRegistration, Add, Apart, OldJobs,
                      NoOutcome, Filed, Outcome
  <2>2. Seen(i)'
    <3>1. CASE StopWait(i)
      BY <3>1 DEF StopWait, Apart, Seen, Loaded, Alive
    <3>2. CASE RemoveRegistration(i)
      BY <3>2 DEF RemoveRegistration, Seen, Loaded, Alive
    <3>3. CASE SweepScan(i) \/ StopRead(i) \/ Add(i)
      BY <3>3 DEF SweepScan, StopRead, Add, Seen
    <3> QED
      BY <1>6, <3>1, <3>2, <3>3
  <2> QED
    BY <1>3, <1>4, <2>1, <2>2 DEF Apart
<1>7. CASE StopSignal(i)
  <2>1. CASE (\A j \in Jobs : ~Loaded(j)) /\ Goto(i, "s_write") /\ UNCHANGED <<unit, job, missed>>
    <3>1. OldJobs' /\ NoOutcome' /\ Filed'
      BY <1>5, <1>7, <2>1 DEF StopSignal, Apart, OldJobs, NoOutcome, Filed, Outcome
    <3>2. Seen(i)'
      BY <2>1 DEF Seen, Loaded, Alive
    <3> QED
      BY <1>3, <1>4, <3>1, <3>2 DEF Apart
  <2>2. ASSUME NEW j \in Jobs, Loaded(j), Die(j), job' = [job EXCEPT ![i] = j],
               Goto(i, "s_wait"), missed' = missed
        PROVE  Apart'
    <3>1. OldJobs'
      BY <1>5, <2>2, <1>2 DEF Die, SetPhase, Apart, OldJobs
    <3>2. NoOutcome'
      BY <2>2 DEF Die, SetPhase, Apart, NoOutcome
    <3>3. Filed'
      BY <1>7, <2>2 DEF StopSignal, Die, SetPhase, Loaded, Alive, Apart, NoOutcome, Filed, Outcome
    <3>4. Seen(i)'
      BY <2>2 DEF Die, SetPhase, Seen, Loaded, Alive, OneJobAtATime
    <3> QED
      BY <1>3, <1>4, <3>1, <3>2, <3>3, <3>4 DEF Apart
  <2>3. ASSUME NEW j \in Jobs, Loaded(j), Goto(i, "s_write"), missed' = missed \cup {j},
               UNCHANGED unit
        PROVE  Apart'
    <3>1. OldJobs' /\ NoOutcome' /\ Filed'
      BY <1>5, <1>7, <2>3 DEF StopSignal, Apart, OldJobs, NoOutcome, Filed, Outcome
    <3>2. Seen(i)'
      BY <2>3 DEF Seen, Loaded, Alive, OneJobAtATime
    <3> QED
      BY <1>3, <1>4, <3>1, <3>2 DEF Apart
  <2> QED
    BY <1>7, <2>1, <2>2, <2>3 DEF StopSignal
<1>8. CASE StopWrite(i) \/ RemoveRunState(i)
  <2>1. /\ StopWrite(i) => \A j \in Jobs : Loaded(j) => j \in missed
        /\ RemoveRunState(i) => \A j \in Jobs : ~Loaded(j)
    BY <1>8 DEF StopWrite, RemoveRunState, Apart, Seen
  <2>2. \A j \in Jobs : j = last => Loaded(j) \/ phase[j] = "gone"
    BY <1>5 DEF Apart, Filed, Loaded, Alive, Phases
  <2>3. OldJobs' /\ NoOutcome' /\ Filed'
    BY <1>5, <1>8, <2>1, <2>2 DEF StopWrite, RemoveRunState, Apart, OldJobs, NoOutcome, Filed,
                                  Loaded, Alive
  <2>4. Seen(i)'
    BY <1>8 DEF StopWrite, RemoveRunState, Seen
  <2> QED
    BY <1>3, <1>4, <2>3, <2>4 DEF Apart
<1> QED
  BY <1>6, <1>7, <1>8

LEMMA RebootApart ==
  ASSUME IInv, Apart, Reboot
  PROVE  Apart'
<1> USE DEF IInv, TypeOK, Reboot, Apart, FailedStop
<1>1. OneCommand' /\ OldJobs' /\ NoOutcome'
  BY DEF OneCommand, OldJobs, NoOutcome
<1>2. Filed'
  BY DEF Filed, NoOutcome, Outcome, Phases
<1>3. \A i \in Invs : Seen(i)'
  BY DEF Seen
<1> QED
  BY <1>1, <1>2, <1>3

LEMMA BeginApart ==
  ASSUME IInv, Apart, NEW i \in Invs, NEW c \in Commands, NEW j \in Jobs \cup {NoJob},
         Begin(i, c, j), ~mixed'
  PROVE  Apart'
<1> USE DEF IInv, TypeOK, Goto, unit, FailedStop
<1>1. c \in CommandNames
  BY BoundsAssumption
<1>2. FirstStep(c) \in {"l_check", "s_read", "n_scan", "x_reg", "a_reg"}
  BY <1>1 DEF FirstStep, CommandNames
<1>3. \A k \in Invs : pc[k] = "idle"
  BY DEF Begin, InFlight
<1>4. OneCommand' /\ \A k \in Invs : Seen(k)'
  BY <1>2, <1>3 DEF Begin, OneCommand, Seen
<1>5. OldJobs' /\ NoOutcome' /\ Filed'
  BY <1>3 DEF Begin, Apart, OldJobs, NoOutcome, Filed, Outcome
<1> QED
  BY <1>4, <1>5 DEF Apart

LEMMA InitApart == Init => ApartInv
  BY NullsAssumption
  DEF Init, ApartInv, Apart, OneCommand, OldJobs, NoOutcome, Filed, Seen

LEMMA ApartKept ==
  ASSUME IInv, ApartInv, [Next]_vars
  PROVE  ApartInv'
<1> SUFFICES ASSUME ~mixed'
             PROVE  Apart'
  BY DEF ApartInv
<1>1. ASSUME NEW i \in Invs, Step(i)
      PROVE  Apart'
  <2>1. ~mixed
    BY <1>1 DEF Step, LaunchCheck, LaunchWrite, LaunchSpawn, LaunchFailed, SweepScan, StopRead,
                StopSignal, StopWait, StopWrite, RemoveRegistration, RemoveRunState, Add
  <2> QED
    BY <1>1, <2>1, LaunchApart, StopApart DEF ApartInv, Step
<1>2. ASSUME NEW i \in Invs, NEW c \in Commands, NEW j \in Jobs \cup {NoJob}, Begin(i, c, j)
      PROVE  Apart'
  BY <1>2, BeginApart DEF ApartInv, Begin
<1>3. ASSUME NEW j \in Jobs, ExecStep(j) \/ NpmEnds(j) \/ UnitKilled(j)
      PROVE  Apart'
  <2>1. ~mixed
    BY <1>3 DEF ExecStep, ExecValidate, ExecStart, Timeout, RecordOutcome, Collect, NpmEnds,
                UnitKilled
  <2> QED
    BY <1>3, <2>1, ServiceApart DEF ApartInv
<1>4. CASE Reboot
  BY <1>4, RebootApart DEF ApartInv, Reboot
<1>5. CASE AppStarts \/ AppStops \/ UNCHANGED vars \/ \E j \in Jobs : NumberReused(j)
  BY <1>5 DEF AppStarts, AppStops, NumberReused, vars, unit, invs, ApartInv, Apart, OneCommand,
              OldJobs, NoOutcome, Filed, Outcome, FailedStop, Seen, Alive, Loaded
<1> QED
  BY <1>1, <1>2, <1>3, <1>4, <1>5 DEF Next

\* job-status agrees with the job, where commands do not overlap and no app is
\* removed under its job: it says "running" while npm runs, unless a stop that
\* failed wrote otherwise, keeps the outcome that was recorded, and claims none that
\* was not (launch, record_outcome, stop).
THEOREM StatusIsTheJobs == Spec => []JobIsShown
<1>1. ASSUME IInv, ApartInv, Settled
      PROVE  JobIsShown
  <2> USE <1>1, NullsAssumption DEF IInv, TypeOK, ApartInv, Apart, Settled
  <2>1. \A p \in Jobs \cup {NoJob}, t \in {"running", "stopped"} \cup Ends :
          State(t, p) # NoFile
    BY TypeStates
  <2>2. ASSUME NEW j \in Jobs, phase[j] = "npm"
        PROVE  Shown = "running" \/ j \in missed
    <3>1. (file = State("running", j) /\ Alive(j)) \/ j \in missed
      BY <2>2 DEF OldJobs, Filed, FailedStop, Alive
    <3> QED
      BY <2>1, <3>1 DEF Shown, SaysRunning, NumberAlive, State
  <2>3. ASSUME last # NoJob, phase[last] = "gone"
        PROVE  \/ Shown \in {"none", "stopped"}
               \/ IF result[last] # "none" THEN Shown = result[last]
                  ELSE \/ Shown \in {"interrupted", "failed"}
                       \/ Shown = "running" /\ last \in reused
    <3>1. last \in Jobs /\ ~Alive(last) /\ result[last] \in Ends \cup {"none"}
      BY <2>3 DEF Alive
    <3>2. \/ file \in {NoFile, State("stopped", NoJob)}
          \/ result[last] = "none" /\ file \in {State("running", NoJob), State("running", last),
                                                State("failed", NoJob)}
          \/ result[last] # "none" /\ file = State(result[last], NoJob)
      BY <2>3, <3>1 DEF Filed, Outcome
    <3> QED
      BY <2>1, <3>1, <3>2 DEF Shown, SaysRunning, NumberAlive, State, Ends
  <2> QED
    BY <2>2, <2>3 DEF JobIsShown
<1>2. IInv /\ ApartInv => JobIsShown
  BY <1>1 DEF JobIsShown
<1>3. Init => ApartInv
  BY InitApart
<1>4. IInv /\ ApartInv /\ [Next]_vars => ApartInv'
  BY ApartKept
<1> QED
  BY <1>2, <1>3, <1>4, InductiveInvariant, PTL DEF Spec
=============================================================================
