# core-selynt in TLA+

core-selynt is the privileged binary behind a DirectAdmin plugin that runs
Node.js and Bun applications for hosting accounts. This directory models the
parts of it that keep state, checks them with TLC on small instances and proves
the most important facts about them with TLAPS for every size.

## The system

core-selynt is not a daemon. Every panel click, every timer tick and the boot
unit is one short process: it starts as root, does what only root can do (the
"prelude", `plan.rs`), drops to the account's uid, does the rest and exits.
Everything it knows it keeps in files; everything it starts it leaves to systemd
and the kernel. There is no lock per application, so two invocations interleave
between any two system calls.

| Component | State | Operations | Interacts with |
|---|---|---|---|
| application life cycle (`app/start.rs`, `app/mod.rs`, `app/boot.rs`, `limits/netguard.rs`) | `.run/<app>.pid`, `.meta`, `.enabled`; `.proxy/<host>`; the socket; the processes; the scope unit | start, stop, restart, netguard sweep, boot recovery | registry (reads `.app`), proxy sync (marker and socket), memory limits and bind guard (before a spawn), systemd |
| app registry (`app/appfile.rs`, `app/commands.rs`) | `.run/<app>.app`, root's | add, remove, set-entry, set-node-version, set-memory-max, set-isolated | life cycle (remove stops first, set-isolated restarts) |
| proxy sync (`webserver/proxysync.rs`) | the generated handler file, the sync marker, the flock | one sweep, from a timer or by hand | reads markers and sockets of every account; reloads the web server; refreshes memory limits |
| npm jobs (`app/job.rs`) | `.run/<app>.job`, the job's systemd service | launch, exec, stop, status | reads `.app` and the app's status; stopped by the netguard sweep |
| memory limits (`limits/policy.rs`, `limits/usage.rs`) | properties of the live scopes and of the account's slice | resolve, reapply, cap the slice | called by start, stop, remove, set-memory-max, and by every proxy sweep |
| bind guard (`limits/bindguard.rs`, the port half of `limits/netguard.rs`) | the two BPF programs attached to `selynt.slice`; the sockets of what runs in it | ensure, attach, detach, the sweep that stops who is exposed | before every spawn; refreshed by setup and boot recovery; the sweep reads whether it is in place |
| web server templates (`webserver/ols.rs`, `acl.rs`) | blocks in DirectAdmin's templates, the include in the main configuration, the handler file of one of two layouts | upsert, strip, include, retire the old include, rebuild | setup, teardown, proxy sync; DirectAdmin regenerates the same files |
| install and teardown (`install/`) | the plugin's tree, its recorded identities, the units | setup, teardown, diagnose | administrator's one-off commands |
| authority (`main.rs`, `plan.rs`, `sys/auth.rs`, `sys/state.rs`, `sys/fs.rs`) | who owns an account's state directory and its `.run`; the uid it runs with | decides who may run what, and what runs as root | all |
| sandbox, validation, runtimes, administration, logs | single files or none | | |

What is hard: the interleaving of invocations with no lock; the recorded pid,
which the kernel may give to somebody else; systemd-run, which answers late and
refuses a unit name that is still loaded; reboots and kills between two steps;
failed writes half way through a start; the application itself, which may hang,
crash, fork or close its socket at any time; files that DirectAdmin and the
administrator rewrite as well; authority that is asked for anew at each gate. Each is listed under `hazards` in
`PROJECT.json`, at its line, with the properties that would catch it going wrong.

## What makes each component correct

- **Life cycle.** A live app is the one its run files name, but for what a start
  has let go of; RUNNING is said of nothing else; at most one copy is in the scope
  however many starts race; a number start signals still belongs to the process it
  was taken from; a stop that succeeds leaves nothing running, with the same
  exception; an app that was enabled is back after a reboot; every command ends.
- **Registry.** An app that is removed leaves no file, process or route for the
  next one of its name; a refused change leaves the registration as it was
  (set-entry's late refusal may leave it with all of the new entry); one
  that is answered ok has done what it says and nothing else; an app that no
  longer fits its registration was announced to need a restart; after the
  isolation is switched, no running app is in the other mode.
- **Proxy sync.** The server never reads two handlers of one name; what it runs
  is what the file says; once apps rest, exactly those that are up are routed; a
  failed reload is tried again.
- **npm jobs.** One job at a time; a stop that answers found the job down, unless
  systemctl failed; a job that hangs is given up; what job-status says agrees with
  how the job ended. That dependencies are not rewritten under a running app is
  wanted, and not kept (Deviations).
- **Memory limits.** min ≤ high ≤ max within the allowance and the pin;
  guarantees fit; siblings shrink before a newcomer appears; a pin holds at once;
  whatever overlapped, the sweep repairs it.
- **Bind guard.** The programs decide the rule of `bindguard.rs:13-24` on every
  address; an app whose start was told it is guarded is so until the slice is
  dropped or a program detached; a TCP port that a registered app opens to the
  outside does not last, guard or no guard.
- **Templates, install and teardown.** A setup in which nothing failed serves, a
  teardown in which nothing failed leaves nothing; whatever others had outside the
  marked blocks when a file was read outlives both, in every order; a server that learns to read `conf.d` gets
  its handlers from there, and from there only.
- **Authority.** Nobody passes a gate they could never have passed; what runs
  after the drop is the account and not root; `.run` is never the account's.

## The modules

| Module | Models | State and steps |
|---|---|---|
| `AppRun` | `app/start.rs`, `app/mod.rs`, `app/boot.rs`, `limits/netguard.rs`, the parts of `plan.rs`, `commands.rs` and `appfile.rs` they run with | One app. The run files are `app`, `pidf`, `metaf`, `enabled`, `marker`, `sock`; the process table is `st`, `born`, `par`, `cg`; the scope unit is `unit`. An invocation is a program counter `pc[i]` over one system call per step: the `s_`/`c_` steps are start's prelude and account half (with its refusals after the spawn), `t_`, `k_` stop and sweep, `r_` restart, `x_` remove, `a_` add, `b_` boot. |
| `AppInstance` | what the scope unit promises | At most one copy runs, each a process that was launched, none handed over without the app having been down. `AppRun` implements it (`OneInstance`). |
| `AppRun_proofs` | | theorems about `AppRun` |
| `ProxySync` | `webserver/proxysync.rs`, `retire_legacy_include` in `ols.rs` | Many apps of several accounts, reduced to a marker and a socket; several sweeps, one lock. |
| `ProxySync_proofs` | | theorems about `ProxySync` |
| `NpmJob` | `app/job.rs`, the job half of the netguard sweep, what remove does to a job | One app. `phase[j]` is how far the service of the j-th launch has got, `file` is `.run/<app>.job`, `reused` that another process has the number in it, `missed` that a `systemctl stop` failed; the `l_` steps are `launch`, `s_` `stop`, `n_` the sweep, `x_` remove. |
| `NpmJob_proofs` | | theorems about `NpmJob` |
| `MemoryLimits` | `limits/policy.rs`, the resolving half of `limits/usage.rs`, its callers in `plan.rs` and `proxysync.rs` | One account, several apps. `app_limits` is the operator `Limits`; a command is the calls it makes to `usage.rs`, in their order, one `systemctl` per step. |
| `MemoryLimits_proofs` | | theorems about `MemoryLimits` |
| `Registry` | `app/appfile.rs`, the commands of `app/commands.rs` on it, their root half in `plan.rs`, what start does with a registration | The apps of one account. `dotapp[a]` is what the `.app` file says and whether the account can read it, `flag` the account's `isolated` file, `run[a]` what the running process was launched from. `pc[i]` goes through check, read, rename, share (`write_as_root`), answer; `s_` is a start, `i_` the switch. |
| `Registry_proofs` | | theorems about `Registry` |
| `Invocation` | `main.rs`, `sys/auth.rs`, `init_state_dir` and `chown_recursive` | What every invocation goes through: gates, target account, state directory, root half, drop, account half. `own`, `runs` are the trees, `kind` is DirectAdmin's usertype, `euid[i]` the uid. |
| `Invocation_proofs` | | theorems about `Invocation` |
| `BindProgram` | the instructions of `PROG_V4` and `PROG_V6` | A machine with the registers the programs use; a word is four bytes in memory order. `Allowed` is the rule. |
| `BindGuard` | `ensure`, `attach`, `detach`, `active`; `sys/proc.rs`; the port half of the netguard sweep | Extends `BindProgram`: binds run through the programs while invocations attach and detach them, systemd drops the slice and the sweep looks for listeners among the registered apps (`reg`). `owed` is who was told of the guard at its spawn, `lost` those of them the guard has been taken from since. |
| `BindGuard_proofs` | | theorems about `BindProgram`, and about `BindGuard` over them |
| `WebConfig` | `webserver/ols.rs`, `install/setup.rs`, `teardown.rs`, the checks of `diagnose.rs`, and where `proxysync.rs` writes | One server. The shared files are sequences of lines of which only the owner matters, and a file is read in one step (`read`, `syncread`) and renamed over in another; `s_` are setup's steps in their order, `t_` teardown's. |
| `WebConfig_proofs` | | theorems about `WebConfig` |
| `MC*` | | the instances TLC checks |

The modules overlap where the code does. `AppRun` treats one app in full and
knows nothing of its siblings; `ProxySync`, `NpmJob` and `MemoryLimits` see an app
only through what their code reads of it (marker and socket; `get_status`; the
scope's directory) and let it change whenever any command could change it, so
each admits every behaviour the composition would. `Registry` does the same with
processes (an app runs or not, from a registration), `Invocation` with commands (a
class that has to pass certain gates), and `WebConfig` with the handlers (a file
that is there or not). `BindGuard` is a composition proper: it extends
`BindProgram`, and its steps and the programs' share one state.

Operators called slips (`...Anyway`, `...Forever`, `...ByNumber` and the like)
are plausible mistakes in the definition they stand next to. No specification
uses them; replacing the definition by the slip is how one sees that a property
notices.

## What is checked

All bounds are constants of the configurations.

| Run | Shows | Bounds |
|---|---|---|
| `AppRunSerial` | With every command, one at a time, and an app that crashes, forks and is outlived by strangers, a reboot included: run files, status, route and processes agree after each command (`RunningIsTracked`, `StatusIsTruthful`, `RemovedLeavesNothing`, `RoutedIsIntended`), and a stop that succeeds leaves nothing running (`StopIsDown`); each with the exception of what a start has let go of (`strays`). | `MaxActive` 1, three processes ever born over three numbers (so numbers are reused), helpers and strangers (`Others`), one reboot or kill, hosts with and without systemd scopes (`CanRunScopes`); 1.5 million states |
| `AppRunConcurrent` | Two commands interleave at every step, systemd answering late: the number a start signals is its own (`ChildIsHeld`), one copy is in the scope (`OneAppPerScope`), and `AppRun` implements `AppInstance`. | two slots, two processes; two suffice for a race between two starts, the theorems cover the rest; 2.3 million states |
| `AppRunLive` | Every command ends (`EveryCommandEnds`) and an enabled app comes back after a reboot at any point (`EnabledComesBack`), unless the boot unit reports failure, a process that a start had let go of answers in its place, or the unit takes a stranger with the recorded number for the app. | one slot, two births, helpers and strangers, one fault; 0.36 million states |
| `ProxySync` | Two sweeps, four apps of two accounts, two of them sharing a marker file and three a host: `ReloadsWhatItCollected`, `OneHandlerPerHost`, `ServesTheFile`; once apps rest, the server routes exactly those that are up (`Converges`). | five comings and goings, two failures or kills |
| `NpmJob` | Launches, stops that systemctl may fail, sweeps, removals, additions, reboots and reused numbers interleave with two jobs: `OneJobAtATime`, `StoppedIsDown`; when commands do not overlap, job-status agrees with the job (`JobIsShown`); every job ends, whatever npm does (`JobsEnd`). | two slots, two launches; 1.05 million states |
| `MemoryLimits` | Two invocations of every command that moves limits overlap, fail and are killed: `LimitsAreOrdered`, `SiblingsShrinkFirst`; after commands that did not overlap, `SettledGuaranteesFit` and `CeilingIsCurrent`; when nothing changes any more, the sweep restores everything (`LimitsConverge`). | two apps, an allowance or none, a pin or none, two changes besides any number of sweeps, from any set of running apps |
| `Registry` | Two commands on two apps, every interleaving of their reads, renames and shares, with a kill or a failed write: refusals change nothing, and set-entry's late one nothing by halves (`RefusalsChangeNothing`), an ok is true and loses no other key (`AnswersAreEffects`), both of an app nothing else was about meanwhile; a running app that differs from its registration was announced (`RestartIsAsked`); the switch misses nobody (`SwitchCoversAccount`). | two slots, two commands, from any set of registered and of running apps, with or without a cap, a chosen mode or a collision of socket ids; one fault; 1.24 million states |
| `Invocation` | Two invocations by any caller with any environment, with one change of usertype between any two of their steps: `ActsWithinAuthority`, `DropIsComplete`, `TreesStayWithOwners`. | two accounts, one service, root; 1.6 million states |
| `BindGuard` | The programs, instruction by instruction, against the rule (`DecidesTheRule`); starts, refreshes and teardowns, attaching half way (`OwedAreGuarded`); whatever a registered app binds, the sweep stops it (`ListenersAreStopped`). | one address for each way through the programs and one that differs from `::1` in each word, two ports; one app, two invocations, one socket; 0.45 million states |
| `WebConfig` | Setup and teardown failing at any step, beside the timer's sync, edits by others and a regeneration that may bring `conf.d`: `SetupServes`, `TeardownLeavesNothing`, `TheirsSurvive`; whoever first notices that `conf.d` is read moves the handlers there (`DropInTakesOver`). | two setups or teardowns in any order, one edit or one regeneration (`MaxOthers`), from any of the servers setup may find; 1.6 million states |

The bounds are small because each hazard is a matter of two: two starts of one
app, two sweeps, a job and a stop, an app and a sibling. A third actor adds
interleavings, not new kinds of conflict, and for the facts that rest on a lock
or on a unit name the theorems cover any number.

Two more runs, `AppRunStartRunning` and `ProxySyncRetry`, end in a counterexample
on purpose, each to something the repository says of itself. See Deviations.

Many properties of `AppRun`, `NpmJob`, `MemoryLimits` and `Registry` are stated for commands
that did not overlap and were not cut short (`Settled`, with the history
variables `torn`, `mixed` and `clean`). That is what the code promises: it has no lock per
app, and an invocation that is killed between writing `.pid` and `.meta` leaves
exactly what it has written. What holds under every interleaving is stated
without that condition. In `MemoryLimits` an undisturbed sweep clears `mixed`
again, because a sweep re-resolves everything. In `Registry` the condition is per
app: commands about other apps may overlap as they like. `WebConfig`'s `alone`
says that no regeneration and no late sync came between.

### Fairness

Liveness is checked under the fairness the scheduling gives and no more.

- `AppRun`: an invocation that can take a step takes it (the kernel schedules
  it), systemd answers each `systemd-run` and collects an empty unit. Nothing is
  assumed of the app, which may hang or ignore SIGTERM. `BootSpec` adds that the
  boot unit runs after a reboot; its strong fairness only undoes `MaxActive`,
  which makes the boot unit queue for a slot as it does not on a host.
- `ProxySync`: a command that changed a route signals it, and sweeps, started by
  a timer, go on.
- `NpmJob`: `job-exec` is scheduled and watches its clock, and systemd empties a
  cgroup it is stopping (SIGKILL after 5 s). npm may hang, commands may stop
  anywhere, and `RuntimeMaxSec`, the second line of defence, is not counted on.
- `MemoryLimits`: commands are scheduled, systemd answers and collects, and the
  timer's sweep comes round again when none is running. Clients may stay away.

- `BindGuard`: the kernel finishes a `bind()`, and the timer keeps the sweep going.
  While a bind is in the kernel nothing else happens in the model, which is how its
  atomicity is written; the sweep's fairness is therefore strong, or binds without
  end would keep it waiting as they cannot on a host. `timer` is FALSE once the
  panel is uninstalled, and the promise ends there.
- `WebConfig`: the sync goes on, as its timer does. Setup and teardown may stop
  anywhere.

`Registry` and `Invocation` state safety only.

Deadlines are not counted in ticks: where the code waits with a limit, the model
may give up as long as the condition is false.

## What is proved

Every safety property the passing runs check is a theorem, and every action property.
TLAPS proves them for any number of invocations, processes, jobs, apps and sweeps,
files of any length, and without the bounds:

- **`AppRun_proofs`**: `TypeCorrect`, `ChildHeld`, `OneAppInScope`,
  `ImplementsInstance`. Neither `ChildIsHeld` nor `OneAppPerScope` is inductive.
  The invariant adds that a process in the scope keeps the unit loaded
  (`ScopeLoaded`), that birth numbers never run ahead of the counter
  (`Numbered`), and that an invocation past its spawn has a child (`HasChild`).
  Instead of visiting every action, the proof classifies what a step may do to
  the process table (nothing, a kill, a leave, a birth, a registration) and
  shows once per class that the invariant survives: `ProcessesKept`.

  `LiveIsTracked`, `StatusTells`, `RemovedIsGone`, `RouteIsIntended` and
  `StopTakesDown` are about the run files, which no lock protects. They are
  properties of commands that have not overlapped, and `torn` remembers when two
  did: the theorems hold for any `MaxActive` and any number of processes, forks,
  crashes, kills and reboots, and however late systemd answers. A start may end its
  care of a process without recording it: `cmd_start` refuses, or answers for an app
  that is running already, after the prelude has launched one (`CheckRunning`), or
  it gives up on a systemd-run that is still root's and that its signal does not
  reach (`NotYetTheApp`). `LetGo` notes such a process in `strays` at that moment
  and nowhere else, and the theorems leave out the strays and nothing more. The
  invariant is in two parts. `Structure`
  holds whatever overlaps: start times are the processes' own, `.meta` never has a
  stranger's, a child is waited for by who spawned it. `AloneInv` adds, for a history
  that is not `torn`, the `Story` of a command: what the files and the process
  table say before each of its steps (`StartStory`, `StopStory`, `RegistryStory`),
  beginning and ending in `Quiet`, which is what the properties say. What happens
  around the command meanwhile (the app crashes or forks, a stranger takes a number,
  systemd collects the unit) does not turn the story.
- **`ProxySync_proofs`**: `SweepsDoNotMix`, `HandlersAreUnique`,
  `ServerFollowsFile`. Everything rests on `Locked`: a sweep under way holds the
  lock, so the file does not move between its comparison and its reload.
- **`NpmJob_proofs`**: `TypeCorrect`, `JobsDoNotOverlap`, `StopsWait`. The look
  at `is-active` excludes nothing, as two launches may look together; the
  invariant says what each step of a command relies on (`Reliance`): a launch has
  a number nobody else has and whose service does not exist, and a stop holds a
  job that can only be on its way down, unless its systemctl has `missed`. `StatusIsTheJobs` is about commands that did
  not overlap (`ApartInv`): at each step of the one in flight, what the file says
  and what the last job has come to, and that no older job can still write
  (`OldJobs`); a number that is `reused`, or a stop that `missed`, is excepted.
- **`MemoryLimits_proofs`**: `LimitsInOrder` and `GuaranteesFitThePool` are facts
  about `app_limits` for every pool, number of apps and pin;
  `TypeCorrect` and `OrderedLimits` carry them to every scope in every reachable
  state, through limits that have been resolved and not yet applied and those on
  their way to systemd.

  `CurrentCeilings`, `SettledFit` and `SiblingsFirst` hold of commands that do not
  overlap, after any that did once a sweep has passed undisturbed: `Calm` says no
  command is in the way of another, `Sweeps` and `Divides` what such a sweep has put
  right behind it. For the ceiling the key is that it does not depend on how many
  share the account (`CeilingIsAlike`), so an app has its ceiling (`Fits`) unless the
  command in flight is about to give it one (`Due`). Guarantees do depend on it, and
  the invariant is that limits are `Roomy`: they leave room for as many apps as there
  are, or will be when the start in flight is done (`Shrinks`), or, when an app is
  about to go, without it (`WithoutIt`). That each is roomy makes the sum fit
  (`SumFits`).

- **`Registry_proofs`**: `TypeTheorem`, `RefusalsTheorem`, `AnswersTheorem`.
  Neither property is inductive, as both speak of the moment of the answer. The
  invariant has two parts more. `Alone`: of two invocations that concern one app,
  neither finds it `clean`. `Story`: for each step of each command on a clean app,
  what the file says and what the invocation holds in `snap`, as a function of
  what was `seen` at the beginning. A step of another app's command leaves all of
  that alone; a step of the command itself goes from one sentence of the story to
  the next. The late refusal of set-entry is one of those sentences: the file is as
  it was seen, when the write had failed, or has the whole new entry. `RefusalsTheorem` and `AnswersTheorem` are its last sentences.
  `RestartTheorem` needs the story of what runs (`Asked`, `Owned`, `Current`: who
  runs something else was told so, or a command that has it in hand is about to
  tell). `SwitchTheorem` needs, on an account where no commands on one app overlapped,
  that an app in the other mode is one some switch has yet to restart (`Covered`), and
  that a start on its way has the mode of the flag (`Moded`), which is what lets a
  start pass a switch.
- **`Invocation_proofs`**: `TypeTheorem`, `AuthorityTheorem`, `DropTheorem`,
  `TreesTheorem`. The invariant says at each step which gates are behind it, in
  terms of the usertypes the caller has ever had (`were`), since the present ones
  may be others by then. A tree that has been ready once is ready for ever, which is
  what `DropIsComplete` needs of the other invocations in the same tree.
- **`BindGuard_proofs`**: `RuleTheorem`, by symbolic execution: the invariant
  says for each instruction what the registers hold and which comparisons have
  been made, for any word. `GuardDecidesTheorem` carries it into the system, and
  there is `OwedTheorem`: an app that was told of the guard, and from which no dropped
  slice and no detach has taken it (`lost`),
  is in a slice both programs are attached to, whoever is between opening the
  cgroup and attaching holds the present one (`Held`), a bind in the kernel runs
  under the program of its family (`Bound`).
- **`WebConfig_proofs`**: `ServesOnceSetUp`, `NothingOnceTornDown`,
  `OthersLinesStay`. The templates always read as other people's lines with the
  panel's block between them or not (`Shaped`), on which the scan of `strip_block`
  gives exactly those lines (`KeptOfBlock`). `SetUp` and `TornDown` say for each step
  of an installation what went before has done, whatever the sync, an edit or a
  rewrite does meanwhile; `Reads` says that what has been read and is yet to be
  written is shaped like the file it came from, however the file has changed since. The main configuration is any file: picking lines keeps what
  is picked of it (`OnlyTwice`), in its order.

The assumptions are the named `ASSUME`s of the modules: null values differ from
what they stand beside, bounds are numbers, an account has finitely many apps.
TLC evaluates them in every run.

The edits of `WebConfig` and the sum in `GuaranteesFit` are recursive functions over
data of any size. No induction theorem that takes a formula as a parameter can be
used here, so these inductions are by least counterexample (`LeastNat`), or by
showing that the set of the files that have a property is closed under adding a
line (`InAllFiles`).

Only model-checked are the liveness properties, which rest on fairness and on
ENABLED: `EveryCommandEnds`, `EnabledComesBack`, `Converges`, `JobsEnd`,
`LimitsConverge`, `ListenersAreStopped`, `DropInTakesOver`. What `AppRun` promises
under `Settled` is proved for commands that take turns, and not for those that
overlapped and left the files as commands in turn would have: the code does not
promise that they do. In the models with a history variable (`mixed`, `clean`) the
theorems need no such assumption.

## Deviations

The code differs from what the repository says of it in these places. The first
two have a run that ends in the counterexample. The ten after them are stated in
their modules, at the end of the properties; TLC refutes each when it is added to
the configuration named with it.

1. `StartedIsReachable` (run `AppRunStartRunning`): start of a running app removes
   its socket (`start.rs:238`) and reports success.
2. `ClearedOnlyWhenLive` (run `ProxySyncRetry`): a reload that failed is not tried
   again (`proxysync.rs:214-217`): the file is already written, so the next sweep
   finds it unchanged and clears the marker.
3. `StopEmptiesScope` (`AppRunSerial.cfg`): a start that refuses the entry or the
   host (`start.rs:150-165`) has launched the process in the prelude, and no `.pid`
   names it. stop finds STOPPED (`commands.rs:81`) and answers ok while it runs; so
   does remove, and a switch of isolation passes it over.
4. `BootSkipsOnlyRunning` (`AppRunSerial.cfg`): boot recovery takes a stranger with
   the recorded number for the app (`boot.rs:46`), and leaves an enabled app down.
5. `StoppedCarryNoMarker` (`AppRunSerial.cfg`): stop of an app that has crashed
   succeeds without removing `.enabled` (`commands.rs:82`), so the next boot starts
   an app the user has stopped (`main.rs:164`: they "carry no marker and stay
   stopped"). The route marker and the stale socket stay, too.
6. `BoundSocketIsSeen` (`AppRunConcurrent.cfg`): an app that binds before
   `cmd_start` clears the socket path (`start.rs:175`) loses its socket file, is
   never seen and is given up.
7. `StopEndsTheJob` (`NpmJob.cfg`): stop throws away the status of `systemctl stop`
   (`job.rs:511-515`), and answers `stopped` for a job that runs on. The sweep,
   which stops an exposed job this way, reports it stopped as well.
8. `DeadIsNotShownRunning` (`NpmJob.cfg`): job-status judges a job by its bare
   number (`job.rs:832`), so one that died without an outcome is shown running while
   any process has that number.
9. `TreeIsRewrittenStopped` (`NpmJob.cfg`): an app can be started while npm rewrites
   its tree (`CHANGELOG.md:180` asks for a stopped app); start does not look at jobs.
10. `EntryRefusedBeforeWrite` (`Registry.cfg`): set-entry asks `entry_refusal` again
    after the write (`commands.rs:315`), as the account, and may refuse an entry that
    is in the registration by then.
11. `ToldIsGuarded` (`BindGuard.cfg`): nothing keeps the slice between `ensure` and
    the spawn; once systemd has dropped it, the app is born outside the programs
    although its start was told of them (`bindguard.rs:392-395`). What remains is the
    sweep.
12. `AddedLinesSurvive` (`WebConfig.cfg`): a shared file is read and renamed over
    without a lock, and a line added in between is lost (`ols.rs:216-246`).

The others are visible in the models as behaviours no property forbids.

- restart signals, as root, whatever process has the number in `.pid`
  (`netguard.rs:84`; `docs/security.md:5` says the number is checked against the
  start time before signalling).
- A helper that survives the app keeps the scope unit loaded, and the next start
  is refused by systemd (`start.rs:437-438` says "a crash leaves nothing blocking
  the next start").
- The sweep rewrites whenever the set differs; no code reads the sync marker
  (`proxysync.rs:3-5` says "only when the panel left a marker").
- remove leaves a running job alone, and its outcome then creates `.job` again
  for the next app of the name (`commands.rs:433` deletes it so that it is not
  inherited).
- `run-job` validates as root, for whom every app looks stopped
  (`usage.rs:298-300` says why): the refusal "stop the application first"
  comes only from `job-exec`, after run-job has answered success, and is shown as
  "interrupted".
- The slice is capped right after a spawn that does not wait for systemd to
  create it (`plan.rs:395-398` says it exists by then): an account's first app
  runs uncapped until the next sweep. `LimitsConverge` allows it.
- `reapply_account_limits` sets every property on every sweep
  (`proxysync.rs:231` says "only when the value changed").
- Two adds of one name can both succeed (`appfile.rs:61-62` says "the exclusive
  create is what makes two concurrent `add` calls for the same name safe"): the
  test is `exists()` and the write a rename (`Registry`, AddCheck and Rename).
- set-node-version writes as root before the account half validates
  (`plan.rs:247` "Valida antes de gravar" is of set-entry): its refusal leaves the
  refused value in place, which is why `Harmless` has no `invalid_argument` for it.
- set-memory-max swallows a failed write and answers ok (`WriteFails`).
- `remove --delete-dir` refuses a `cwd` after everything has been removed; an add
  that is refused by the account half leaves its registration.
- The sweep looks at apps whose registration loads (`netguard.rs:35`): what a stop or
  a remove leaves in a scope, or an app whose registration cannot be read, keeps a
  port it has open to the outside (`Unregister` of `BindGuard`;
  `ListenersAreStopped` is about registered apps).
- set-isolated that answers `write_failed` may have switched the flag: the
  `set_perm` after the rename is part of the same answer (`commands.rs:204-206`,
  `SwitchFlagFails`).
- teardown looks for `selynt_panel extProcessors include` in lower case
  (`teardown.rs:56`) where the marks are written with a capital (`ols.rs:54`): the
  two comment lines stay in `httpd_config.conf`, against "leaving the server as it
  was" (`teardown.rs:90`), and gather with each round. `TeardownLeavesNothing` asks
  for the include only.
- A template that cannot be read as UTF-8 is taken for an empty one by
  `upsert_block`, and what others had in it is lost; a BEGIN without its END takes
  all that follows. `TheirsSurvive` is about templates that can be read, and no
  edit unbalances the marks.
- A setup that is killed, or fails, between the chown of the tree and
  the chmod of the binary leaves a panel without setuid, every action of which
  answers `root_required` until setup is run again.
- A setup that retires the legacy include leaves no handlers at all until the next
  sync, and does not reload the server after adding one (`SetupServes` allows
  `extproc_missing`).
- The diagnosis passes while both layouts are read, and every handler is defined
  twice; `SetupServes` and `DropInTakesOver` ask for one.
- A sync begun before the units are removed writes the handler file after
  teardown's cleanup.
- `active()` recognises the programs by their names and not by content; setup and
  boot recovery attach them anew.

## What is not modelled, and why

- What an app does inside its sandbox, and the bwrap command line: no state of
  this program.
- Writes fail where the code reacts to the failure; where it ignores one
  (`chmod` after a rename, the state file of a job) they are taken to succeed.
- An app that dies between the two `get_status` calls of `cmd_stop`, or right
  before the `systemd-run` of a start that found it running.
- The minute of grace of job-status, log contents, rotation, statistics.
- u64 overflow of `pool * 80`, for allowances of petabytes.
- `Registry` sees start as one launch and one look; the rest is in `AppRun`. Keys
  no command rewrites (`cwd`, `host`, `type`, `env`) are left out, as is the hash
  of the socket id: whether two names collide is a choice (`twins`).
- `Invocation` takes an account's tree to have one owner, that of its directory: the
  walk is one step. What the account writes into its own tree is not followed. The
  environment (`USERNAME`, `SELYNT_STATE_DIR`) is chosen where the code reads it; only
  a DirectAdmin account names another's directory in it.
- `BindGuard` has one slice, as the host has. TCP and UDP only; a job is refused
  when ensure fails and an app starts anyway, as in the code.
  The sweep's stop takes all of an app's scope at once: a process forked while it
  waits is found by the next sweep.
- `WebConfig` takes OpenLiteSpeed and DirectAdmin's template directory to be
  installed, the service accounts to be found and the main configuration to be
  readable. A sync's own writes succeed there; those that fail are in `ProxySync`.
- `webserver/acl.rs` (one call to `setfacl`), `limits/sandbox.rs` (a command line),
  `app/validate.rs` and `runtime/` (predicates and searches without state),
  `admin/` (one file each), logs and output, and the release tooling in `xtask/`.

## Where to go on

- The abstract service of `ProxySync` (the server routes a set that was up) as a
  refinement.
- `Registry` and `AppRun` in one module, to follow a switch of isolation through the
  sockets it moves.
