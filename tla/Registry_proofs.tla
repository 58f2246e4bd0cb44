--------------------------- MODULE Registry_proofs ---------------------------
(***************************************************************************)
(* What a command answers is what it has done to its registration, for any *)
(* number of apps, invocations, values and faults: a refusal has changed   *)
(* nothing, an `ok` has changed what it says.  And what runs agrees with   *)
(* what is registered and with the mode that is chosen, or the account was *)
(* told, wherever nothing overlapped, was killed or failed.                *)
(*                                                                         *)
(* The strengthening says whose file a step can touch (Alone: where        *)
(* nothing overlapped, one command at a time is concerned with an app) and *)
(* how far each command has got with its own (Story); beside it, for each  *)
(* app that runs, which command has yet to announce a change (Asked), to   *)
(* end what it has unregistered (Owned), or to restart it in the chosen    *)
(* mode (Covered).                                                         *)
(***************************************************************************)
EXTENDS Registry, TLAPS

Editors == {"set-entry", "set-node-version", "set-memory-max"}

\* Which command comes to which step, with which argument and contents.
Placed(i) ==
    /\ pc[i] # "idle" => app[i] \in Apps /\ val[i] \in ArgumentsOf(cmd[i])
    /\ pc[i] = "a_check" => cmd[i] = "add"
    /\ pc[i] = "e_check" => cmd[i] = "set-entry"
    /\ pc[i] = "read" => cmd[i] \in Editors
    /\ pc[i] \in {"write", "share", "answer"} => cmd[i] \in Editors \cup {"add"}
    /\ pc[i] \in {"r_load", "unlink", "clean"} => cmd[i] = "remove"
    /\ pc[i] \in {"s_load", "s_mode", "s_run", "c_start", "c_wait"} =>
          cmd[i] \in {"start", "set-isolated"}
    /\ pc[i] \in {"i_flag", "i_list", "i_next"} => cmd[i] = "set-isolated"
    /\ pc[i] \in {"write", "share", "s_mode", "s_run"} => snap[i] # NoReg

TInv == TypeOK /\ \A i \in Invs : Placed(i)

\* What a command that writes is out to write.
Meant(i) ==
    IF cmd[i] = "add" THEN Fresh(val[i]) ELSE Rewrite(seen[i].reg, KeyOf(cmd[i]), val[i])

\* No other name has the socket an add is about to take.
Sole(i) ==
    cmd[i] = "add" =>
        \A b \in Apps \ {app[i]} : Registered(b) => ~SameSocket(app[i], b)

\* How far a command has got with its registration.
Told(i) ==
    /\ pc[i] \in {"a_check", "e_check", "read", "write", "r_load", "unlink", "s_load", "s_mode",
                  "s_run", "c_start", "c_wait"} \cup Harmless(cmd[i])
          => dotapp[app[i]] = seen[i]
    /\ pc[i] \in {"write", "share"} => snap[i] = Meant(i) /\ Sole(i)
                                       /\ (cmd[i] \in Editors => seen[i] # NoReg)
    /\ pc[i] = "share" => dotapp[app[i]] = [reg |-> Meant(i), shared |-> FALSE]
    /\ pc[i] \in {"read", "write", "share"} /\ cmd[i] = "set-entry" => val[i] # BadValue
    /\ pc[i] \in {"write", "share"} /\ cmd[i] = "set-memory-max" => val[i] # BadValue
    /\ pc[i] = "answer" =>
          \/ /\ dotapp[app[i]] = [reg |-> Meant(i), shared |-> TRUE] /\ Sole(i)
             /\ dotapp[app[i]] # NoReg
             /\ cmd[i] \in {"set-entry", "set-memory-max"} => val[i] # BadValue
          \/ /\ cmd[i] = "set-memory-max" /\ dotapp[app[i]] = seen[i]
             /\ val[i] = BadValue \/ seen[i] = NoReg
    /\ pc[i] = "clean" => dotapp[app[i]] = NoReg
    /\ pc[i] = "ok" => dotapp[app[i]] = Effect(cmd[i], seen[i], val[i]) /\ Sole(i)
    /\ pc[i] = "entry_not_found" =>
          dotapp[app[i]] \in {seen[i], Effect(cmd[i], seen[i], val[i])}

Story(i) == pc[i] # "idle" /\ cmd[i] # "set-isolated" /\ clean[app[i]] => Told(i)

\* Where nothing has overlapped, one command at a time is concerned with an app.
Alone ==
    \A b \in Apps : clean[b] =>
        \A i \in InFlight : \A j \in InFlight \ {i} :
            b \in Concern(cmd[i], app[i]) => b \notin Concern(cmd[j], app[j])

RInv == TInv /\ Alone /\ \A i \in Invs : Story(i)

-----------------------------------------------------------------------------
(* What is written *)

\* A key rewritten gives a registration.
LEMMA RewriteType ==
    ASSUME NEW r \in Registration, NEW k \in Keys, NEW v \in Values \cup {BadValue, NoValue},
           k = "entry" => v # NoValue
    PROVE  Rewrite(r, k, v) \in Registration
BY DEF Rewrite, Registration, Keys

\* So does the line an app is added with.
LEMMA FreshType ==
    ASSUME NEW v \in Values \cup {BadValue}
    PROVE  Fresh(v) \in Registration
BY NullsAssumption DEF Fresh, Registration, Keys

\* A file is not the absence of one.
LEMMA FileIsThere ==
    ASSUME NEW r \in Registration, NEW s \in BOOLEAN
    PROVE  [reg |-> r, shared |-> s] \in File /\ [reg |-> r, shared |-> s] # NoReg
BY RecordsAssumption DEF File

\* What is launched from a registration is known by it.
LEMMA LaunchedType ==
    ASSUME NEW r \in Registration, NEW m \in Modes, NEW k \in BOOLEAN
    PROVE  [from |-> Launched(r), iso |-> m, known |-> k] \in Process
BY DEF Launched, Registration, Origin, Process, Keys

\* The arguments of a command are values, and only a cap can be cleared.
LEMMA ArgumentTypes ==
    ASSUME NEW c \in CommandNames, NEW v \in ArgumentsOf(c)
    PROVE  /\ v \in Values \cup {BadValue, NoValue} \cup Modes
           /\ c \in Editors \cup {"add"} => v \in Values \cup {BadValue, NoValue}
           /\ c \in {"add", "set-entry", "set-node-version"} => v \in Values \cup {BadValue}
BY DEF ArgumentsOf, CommandNames, Editors, Values

-----------------------------------------------------------------------------
(* Types *)

\* The initial states satisfy the types.
LEMMA InitTInv == Init => TInv
<1> SUFFICES ASSUME Init PROVE TInv
  OBVIOUS
<1> USE DEF Init
<1>1. PICK there \in SUBSET Apps : \E up \in SUBSET there, e \in Entries, cap \in Caps \cup {NoValue} :
         LET reg == [Fresh(e) EXCEPT !["memory_max"] = cap]
         IN  /\ twins => Cardinality(there) <= 1
             /\ dotapp = [a \in Apps |-> IF a \in there
                             THEN [reg |-> reg, shared |-> TRUE] ELSE NoReg]
             /\ run = [a \in Apps |-> IF a \in up
                             THEN [from |-> Launched(reg), iso |-> Isolated, known |-> TRUE]
                             ELSE NoRun]
  OBVIOUS
<1>11. PICK up \in SUBSET there, e \in Entries, cap \in Caps \cup {NoValue} :
         LET reg == [Fresh(e) EXCEPT !["memory_max"] = cap]
         IN  /\ twins => Cardinality(there) <= 1
             /\ dotapp = [a \in Apps |-> IF a \in there
                             THEN [reg |-> reg, shared |-> TRUE] ELSE NoReg]
             /\ run = [a \in Apps |-> IF a \in up
                             THEN [from |-> Launched(reg), iso |-> Isolated, known |-> TRUE]
                             ELSE NoRun]
  BY <1>1
<1>2. [Fresh(e) EXCEPT !["memory_max"] = cap] \in Registration
  <2>1. Fresh(e) \in Registration
    BY FreshType DEF Values
  <2> QED
    BY <2>1, RewriteType DEF Rewrite, Keys, Values
<1>3. Isolated \in Modes
  BY DEF Isolated, Modes
<1>4. dotapp \in [Apps -> File \cup {NoReg}]
  BY <1>11, <1>2, FileIsThere
<1>5. run \in [Apps -> Process \cup {NoRun}]
  BY <1>11, <1>2, <1>3, LaunchedType
<1>6. /\ twins \in BOOLEAN /\ flag \in Modes \cup {"absent"}
      /\ pc \in [Invs -> Steps] /\ cmd \in [Invs -> CommandNames]
      /\ app \in [Invs -> Apps \cup {NoApp}]
      /\ val \in [Invs -> Values \cup {BadValue, NoValue} \cup Modes]
  BY DEF Steps, CommandNames
<1>7. /\ snap \in [Invs -> Registration \cup {NoReg}]
      /\ mode \in [Invs -> Modes] /\ mine \in [Invs -> BOOLEAN]
      /\ todo \in [Invs -> SUBSET Apps]
      /\ begins \in Nat /\ faults \in Nat
      /\ seen \in [Invs -> File \cup {NoReg}]
      /\ clean \in [Apps -> BOOLEAN]
      /\ told \in [Apps -> {"nothing", "restart", "refused"}]
  BY DEF Modes
<1> QED
  BY <1>4, <1>5, <1>6, <1>7 DEF TInv, TypeOK, Placed

\* The local state a command leaves behind.
LEMMA GoneTypes ==
    ASSUME TInv, NEW i \in Invs, End(i) \/ CutShort(i) PROVE TInv'
<1>1. /\ pc' = [pc EXCEPT ![i] = "idle"] /\ cmd' = [cmd EXCEPT ![i] = "start"]
      /\ app' = [app EXCEPT ![i] = NoApp] /\ val' = [val EXCEPT ![i] = NoValue]
      /\ snap' = [snap EXCEPT ![i] = NoReg] /\ seen' = [seen EXCEPT ![i] = NoReg]
      /\ mode' = [mode EXCEPT ![i] = "off"] /\ mine' = [mine EXCEPT ![i] = FALSE]
      /\ todo' = [todo EXCEPT ![i] = {}]
      /\ UNCHANGED <<files, run, twins, begins, told>>
      /\ faults' \in Nat /\ clean' \in [Apps -> BOOLEAN]
  <2>1. CASE End(i)
    BY <2>1 DEF End, Goto, TInv, TypeOK
  <2>2. CASE CutShort(i)
    <3>1. faults' \in Nat /\ clean' \in [Apps -> BOOLEAN]
      BY <2>2 DEF CutShort, Fault, TInv, TypeOK
    <3> QED
      BY <2>2, <3>1 DEF CutShort, Goto
  <2> QED
    BY <2>1, <2>2
<1>2. TypeOK'
  <2>1. /\ pc' \in [Invs -> Steps] /\ cmd' \in [Invs -> CommandNames]
        /\ app' \in [Invs -> Apps \cup {NoApp}]
        /\ val' \in [Invs -> Values \cup {BadValue, NoValue} \cup Modes]
    BY <1>1 DEF TInv, TypeOK, Steps, CommandNames
  <2>2. /\ snap' \in [Invs -> Registration \cup {NoReg}]
        /\ seen' \in [Invs -> File \cup {NoReg}]
    BY <1>1 DEF TInv, TypeOK
  <2>3. /\ mode' \in [Invs -> Modes] /\ mine' \in [Invs -> BOOLEAN]
        /\ todo' \in [Invs -> SUBSET Apps]
    BY <1>1 DEF TInv, TypeOK, Modes
  <2> QED
    BY <1>1, <2>1, <2>2, <2>3 DEF TInv, TypeOK, files
<1>3. \A j \in Invs : Placed(j)'
  BY <1>1 DEF TInv, TypeOK, Placed, Steps
<1> QED
  BY <1>2, <1>3 DEF TInv

\* A command begins with an argument it may be given.
LEMMA BeginTypes ==
    ASSUME TInv, NEW i \in Invs, NEW c \in Commands, NEW a \in Apps, NEW v \in ArgumentsOf(c),
           Begin(i, c, a, v)
    PROVE  TInv'
<1>1. c \in CommandNames /\ FirstStep(c) \in Steps
      /\ v \in Values \cup {BadValue, NoValue} \cup Modes
  BY BoundsAssumption, ArgumentTypes DEF FirstStep, CommandNames, Steps
<1>2. TypeOK'
  BY <1>1 DEF TInv, TypeOK, Begin, Goto, files, local
<1>3. \A j \in Invs : Placed(j)'
  <2>1. ASSUME NEW j \in Invs \ {i} PROVE Placed(j)'
    BY <2>1 DEF TInv, TypeOK, Begin, Goto, local, Placed
  <2>2. Placed(i)'
    BY <1>1 DEF TInv, TypeOK, Begin, Goto, Placed, FirstStep, CommandNames, Editors
  <2> QED
    BY <2>1, <2>2
<1> QED
  BY <1>2, <1>3 DEF TInv

\* A step that leaves the commands and their arguments alone keeps the types, when
\* what it changes has them.
LEMMA StepTypes ==
    ASSUME TInv, NEW i \in Invs, NEW step \in Steps,
           pc' = [pc EXCEPT ![i] = step],
           UNCHANGED <<twins, cmd, app, val, begins, seen>>,
           faults' \in Nat, clean' \in [Apps -> BOOLEAN],
           flag' \in Modes \cup {"absent"},
           dotapp' \in [Apps -> File \cup {NoReg}],
           run' \in [Apps -> Process \cup {NoRun}],
           \E r \in Registration \cup {NoReg} : snap' = [snap EXCEPT ![i] = r],
           mode' \in [Invs -> Modes], mine' \in [Invs -> BOOLEAN],
           todo' \in [Invs -> SUBSET Apps],
           told' \in [Apps -> {"nothing", "restart", "refused"}],
           Placed(i)'
    PROVE  TInv'
<1>1. TypeOK'
  BY DEF TInv, TypeOK
<1>2. ASSUME NEW j \in Invs \ {i} PROVE Placed(j)'
  <2>1. pc'[j] = pc[j] /\ snap'[j] = snap[j]
    BY <1>2 DEF TInv, TypeOK
  <2> QED
    BY <1>2, <2>1 DEF TInv, Placed
<1> QED
  BY <1>1, <1>2 DEF TInv

LEMMA FaultTypes ==
    ASSUME TInv, NEW i \in Invs, UNCHANGED past \/ Fault(i)
    PROVE  faults' \in Nat /\ clean' \in [Apps -> BOOLEAN]
<1> USE DEF TInv, TypeOK
<1>1. CASE UNCHANGED past
  BY <1>1 DEF past
<1>2. CASE Fault(i)
  <2>1. faults' = faults + 1 /\ clean' = [b \in Apps |-> clean[b] /\ b \notin Concern(cmd[i], app[i])]
    BY <1>2 DEF Fault
  <2>2. faults' \in Nat
    BY <2>1
  <2>3. clean' \in [Apps -> BOOLEAN]
    BY <2>1
  <2> QED
    BY <2>2, <2>3
<1> QED
  BY <1>1, <1>2

\* The checks and the readings.
LEMMA ReadTypes ==
    ASSUME TInv, NEW i \in Invs,
           \/ AddCheck(i) \/ EntryCheck(i) \/ ReadKey(i) \/ RemoveLoad(i)
           \/ StartLoad(i) \/ StartMode(i) \/ SwitchFlag(i) \/ SwitchList(i)
    PROVE  TInv'
<1> USE DEF TInv, TypeOK, files, args, local, past
<1>1. CASE AddCheck(i)
  <2>1. cmd[i] = "add" /\ Fresh(val[i]) \in Registration /\ Fresh(val[i]) # NoReg
    BY <1>1, FreshType, ArgumentTypes, RecordsAssumption DEF AddCheck, At, Placed
  <2>2. PICK step \in {"app_exists", "socket_id_collision", "invalid_cwd", "write"},
             r \in Registration \cup {NoReg} :
           /\ pc' = [pc EXCEPT ![i] = step] /\ snap' = [snap EXCEPT ![i] = r]
           /\ step = "write" => r # NoReg
    BY <1>1, <2>1 DEF AddCheck, Goto
  <2>3. Placed(i)'
    BY <1>1, <2>1, <2>2 DEF AddCheck, At, Placed, Editors
  <2> QED
    BY <1>1, <2>2, <2>3, StepTypes DEF AddCheck, Steps, Codes
<1>2. CASE EntryCheck(i)
  <2>1. PICK step \in {"app_not_found", "invalid_argument", "entry_not_found", "read"} :
           pc' = [pc EXCEPT ![i] = step]
    BY <1>2 DEF EntryCheck, Goto
  <2>2. Placed(i)'
    BY <1>2, <2>1 DEF EntryCheck, At, Placed, Editors
  <2>3. snap' = [snap EXCEPT ![i] = snap[i]]
    BY <1>2 DEF EntryCheck
  <2> QED
    BY <1>2, <2>1, <2>2, <2>3, StepTypes DEF EntryCheck, Steps, Codes
<1>3. CASE ReadKey(i)
  <2>1. cmd[i] \in Editors
    BY <1>3 DEF ReadKey, At, Placed
  <2>2. ASSUME Registered(app[i])
        PROVE  /\ Rewrite(dotapp[app[i]].reg, KeyOf(cmd[i]), val[i]) \in Registration
               /\ Rewrite(dotapp[app[i]].reg, KeyOf(cmd[i]), val[i]) # NoReg
    <3>1. app[i] \in Apps /\ val[i] \in ArgumentsOf(cmd[i])
      BY <1>3 DEF ReadKey, At, Placed
    <3>2. dotapp[app[i]].reg \in Registration
      BY <2>2, <3>1 DEF Registered, File
    <3>3. KeyOf(cmd[i]) \in Keys /\ (KeyOf(cmd[i]) = "entry" => val[i] # NoValue)
      BY <2>1, <3>1, NullsAssumption DEF KeyOf, Keys, Editors, ArgumentsOf, Values
    <3>4. Rewrite(dotapp[app[i]].reg, KeyOf(cmd[i]), val[i]) \in Registration
      BY <2>1, <3>1, <3>2, <3>3, RewriteType, ArgumentTypes
    <3> QED
      BY <3>4, RecordsAssumption
  <2>3. PICK step \in {"write", "answer", "app_not_found"}, r \in Registration \cup {NoReg} :
           /\ pc' = [pc EXCEPT ![i] = step] /\ snap' = [snap EXCEPT ![i] = r]
           /\ step = "write" => r # NoReg
    BY <1>3, <2>2 DEF ReadKey, Goto
  <2>4. Placed(i)'
    BY <1>3, <2>1, <2>3 DEF ReadKey, At, Placed
  <2> QED
    BY <1>3, <2>3, <2>4, StepTypes DEF ReadKey, Steps, Codes
<1>4. CASE RemoveLoad(i)
  <2>1. PICK step \in {"unlink", "app_not_found"} : pc' = [pc EXCEPT ![i] = step]
    BY <1>4 DEF RemoveLoad, Goto
  <2>2. Placed(i)'
    BY <1>4, <2>1 DEF RemoveLoad, At, Placed
  <2>3. snap' = [snap EXCEPT ![i] = snap[i]]
    BY <1>4 DEF RemoveLoad
  <2> QED
    BY <1>4, <2>1, <2>2, <2>3, StepTypes DEF RemoveLoad, Steps, Codes
<1>5. CASE StartLoad(i)
  <2>1. app[i] \in Apps /\ cmd[i] \in {"start", "set-isolated"}
    BY <1>5 DEF StartLoad, At, Placed
  <2>2. Registered(app[i]) => dotapp[app[i]].reg \in Registration
    BY <2>1 DEF Registered, File
  <2>3. PICK step \in {"s_mode", "c_start"}, r \in Registration \cup {NoReg} :
           /\ pc' = [pc EXCEPT ![i] = step] /\ snap' = [snap EXCEPT ![i] = r]
           /\ step = "s_mode" => r # NoReg
    BY <1>5, <2>2, RecordsAssumption DEF StartLoad, Goto
  <2>4. Placed(i)'
    BY <1>5, <2>1, <2>3 DEF StartLoad, At, Placed
  <2> QED
    BY <1>5, <2>3, <2>4, StepTypes DEF StartLoad, Steps
<1>6. CASE StartMode(i)
  <2>1. Isolated \in Modes
    BY DEF Isolated, Modes
  <2>2. Placed(i)'
    BY <1>6 DEF StartMode, At, Goto, Placed
  <2>3. snap' = [snap EXCEPT ![i] = snap[i]]
    BY <1>6 DEF StartMode
  <2> QED
    BY <1>6, <2>1, <2>2, <2>3, StepTypes DEF StartMode, Goto, Steps
<1>7. CASE SwitchFlag(i)
  <2>1. PICK step \in {"sandbox_unavailable", "i_list", "write_failed"} :
           pc' = [pc EXCEPT ![i] = step]
    BY <1>7 DEF SwitchFlag, SwitchFlagFails, Goto
  <2>2. Placed(i)'
    BY <1>7, <2>1 DEF SwitchFlag, At, Placed
  <2>3. flag' \in Modes \cup {"absent"}
    <3>1. val[i] \in ArgumentsOf(cmd[i]) /\ cmd[i] = "set-isolated"
      BY <1>7 DEF SwitchFlag, At, Placed
    <3>2. val[i] \in Modes
      BY <3>1 DEF ArgumentsOf
    <3> QED
      BY <1>7, <3>2 DEF SwitchFlag, SwitchFlagFails
  <2>4. snap' = [snap EXCEPT ![i] = snap[i]]
    BY <1>7 DEF SwitchFlag
  <2>5. faults' \in Nat /\ clean' \in [Apps -> BOOLEAN]
    BY <1>7, FaultTypes DEF SwitchFlag, SwitchFlagFails
  <2>6. UNCHANGED <<begins, seen, told>>
    BY <1>7 DEF SwitchFlag, SwitchFlagFails
  <2> QED
    BY <1>7, <2>1, <2>2, <2>3, <2>4, <2>5, <2>6, StepTypes DEF SwitchFlag, Steps, Codes
<1>8. CASE SwitchList(i)
  <2>1. Placed(i)'
    BY <1>8 DEF SwitchList, At, Goto, Placed
  <2>2. snap' = [snap EXCEPT ![i] = snap[i]]
    BY <1>8 DEF SwitchList
  <2> QED
    BY <1>8, <2>1, <2>2, StepTypes DEF SwitchList, Goto, Steps
<1> QED
  BY <1>1, <1>2, <1>3, <1>4, <1>5, <1>6, <1>7, <1>8

\* The writings: what is renamed into place is a file.
LEMMA WriteTypes ==
    ASSUME TInv, NEW i \in Invs, Rename(i) \/ Share(i) \/ Unlink(i)
    PROVE  TInv'
<1> USE DEF TInv, TypeOK, files, args, local
<1>1. app[i] \in Apps
  BY DEF Rename, Share, Unlink, At, Placed
<1>2. snap' = [snap EXCEPT ![i] = snap[i]]
  BY DEF Rename, Share, Unlink
<1>3. faults' \in Nat /\ clean' \in [Apps -> BOOLEAN]
  <2>1. UNCHANGED past \/ Fault(i)
    <3>1. CASE Rename(i)
      BY <3>1 DEF Rename, WriteFails
    <3>2. CASE Share(i)
      BY <3>2 DEF Share, WriteFails
    <3>3. CASE Unlink(i)
      BY <3>3 DEF Unlink
    <3> QED
      BY <3>1, <3>2, <3>3
  <2> QED
    BY <2>1, FaultTypes
<1>4. CASE Rename(i)
  <2>1. PICK step \in {"share", "answer", "write_failed"} : pc' = [pc EXCEPT ![i] = step]
    BY <1>4 DEF Rename, WriteFails, Goto
  <2>2. snap[i] \in Registration
    BY <1>4 DEF Rename, At, Placed
  <2>3. dotapp' \in [Apps -> File \cup {NoReg}]
    <3>1. [reg |-> snap[i], shared |-> FALSE] \in File
      BY <2>2, FileIsThere
    <3> QED
      BY <1>1, <1>4, <3>1 DEF Rename, WriteFails
  <2>4. Placed(i)'
    BY <1>4, <2>1 DEF Rename, At, Placed, Editors
  <2>5. UNCHANGED <<twins, cmd, app, val, begins, seen, flag, run, mode, mine, todo, told>>
    BY <1>4 DEF Rename, WriteFails, past
  <2> QED
    BY <1>2, <1>3, <2>1, <2>3, <2>4, <2>5, StepTypes DEF Steps, Codes
<1>5. CASE Share(i)
  <2>1. PICK step \in {"answer", "write_failed"} : pc' = [pc EXCEPT ![i] = step]
    BY <1>5 DEF Share, WriteFails, Goto
  <2>2. dotapp' \in [Apps -> File \cup {NoReg}]
    <3>1. ASSUME Registered(app[i]) PROVE [dotapp[app[i]] EXCEPT !.shared = TRUE] \in File
      <4>1. dotapp[app[i]] \in File
        BY <1>1, <3>1 DEF Registered
      <4> QED
        BY <4>1 DEF File
    <3>2. \/ UNCHANGED dotapp
          \/ Registered(app[i])
             /\ dotapp' = [dotapp EXCEPT ![app[i]] = [dotapp[app[i]] EXCEPT !.shared = TRUE]]
      BY <1>5 DEF Share, WriteFails
    <3> QED
      BY <1>1, <3>1, <3>2
  <2>3. Placed(i)'
    BY <1>5, <2>1 DEF Share, At, Placed, Editors
  <2>4. UNCHANGED <<twins, cmd, app, val, begins, seen, flag, run, mode, mine, todo, told>>
    BY <1>5 DEF Share, WriteFails, past
  <2> QED
    BY <1>2, <1>3, <2>1, <2>2, <2>3, <2>4, StepTypes DEF Steps, Codes
<1>6. CASE Unlink(i)
  <2>1. Placed(i)'
    BY <1>6 DEF Unlink, At, Goto, Placed
  <2> QED
    BY <1>1, <1>2, <1>3, <1>6, <2>1, StepTypes DEF Unlink, Goto, Steps, past
<1> QED
  BY <1>4, <1>5, <1>6

\* The answers and the processes.
LEMMA RunTypes ==
    ASSUME TInv, NEW i \in Invs,
           Answer(i) \/ Clean(i) \/ Launch(i) \/ StartCheck(i) \/ StartWait(i)
    PROVE  TInv'
<1> USE DEF TInv, TypeOK, files, args, local, past
<1>1. CASE Answer(i)
  <2>1. app[i] \in Apps /\ cmd[i] \in Editors \cup {"add"}
    BY <1>1 DEF Answer, At, Placed
  <2>2. PICK step \in Codes : pc' = [pc EXCEPT ![i] = step]
    BY <1>1 DEF Answer, Goto, Codes
  <2>3. told' \in [Apps -> {"nothing", "restart", "refused"}]
    BY <1>1, <2>1 DEF Answer, Tell, Outcome
  <2>4. Placed(i)'
    BY <1>1, <2>1, <2>2 DEF Answer, At, Placed, Codes
  <2>5. snap' = [snap EXCEPT ![i] = snap[i]]
    BY <1>1 DEF Answer
  <2> QED
    BY <1>1, <2>2, <2>3, <2>4, <2>5, StepTypes DEF Answer, Steps
<1>2. CASE Clean(i)
  <2>1. app[i] \in Apps
    BY <1>2 DEF Clean, At, Placed
  <2>2. PICK step \in {"ok", "cwd_is_symlink"} : pc' = [pc EXCEPT ![i] = step]
    BY <1>2 DEF Clean, Goto
  <2>3. run' \in [Apps -> Process \cup {NoRun}]
    BY <1>2, <2>1 DEF Clean
  <2>4. Placed(i)'
    BY <1>2, <2>2 DEF Clean, At, Placed
  <2>5. snap' = [snap EXCEPT ![i] = snap[i]]
    BY <1>2 DEF Clean
  <2> QED
    BY <1>2, <2>2, <2>3, <2>4, <2>5, StepTypes DEF Clean, Steps, Codes
<1>3. CASE Launch(i)
  <2>1. app[i] \in Apps /\ snap[i] \in Registration
    BY <1>3 DEF Launch, At, Placed
  <2>2. [from |-> Launched(snap[i]), iso |-> mode[i], known |-> FALSE] \in Process
    BY <2>1, LaunchedType
  <2>3. run' \in [Apps -> Process \cup {NoRun}] /\ mine' \in [Invs -> BOOLEAN]
    BY <1>3, <2>1, <2>2 DEF Launch
  <2>4. told' \in [Apps -> {"nothing", "restart", "refused"}]
    BY <1>3, <2>1 DEF Launch, Tell
  <2>5. Placed(i)'
    BY <1>3 DEF Launch, At, Goto, Placed
  <2>6. snap' = [snap EXCEPT ![i] = snap[i]]
    BY <1>3 DEF Launch
  <2> QED
    BY <1>3, <2>3, <2>4, <2>5, <2>6, StepTypes DEF Launch, Goto, Steps
<1>4. CASE StartCheck(i)
  <2>1. app[i] \in Apps /\ cmd[i] \in {"start", "set-isolated"}
    BY <1>4 DEF StartCheck, At, Placed
  <2>2. Loadable(app[i]) => dotapp[app[i]].reg \in Registration
    BY <2>1 DEF Loadable, Registered, File
  <2>3. PICK step \in {"app_not_found", "invalid_entry", "ok", "s_mode", "c_wait", "start_failed",
                       "i_next"}, r \in Registration \cup {NoReg} :
           /\ pc' = [pc EXCEPT ![i] = step] /\ snap' = [snap EXCEPT ![i] = r]
           /\ step = "s_mode" => r # NoReg
           /\ step = "i_next" => cmd[i] = "set-isolated"
    <3>1. \E step \in {"app_not_found", "invalid_entry", "ok", "s_mode", "c_wait", "start_failed",
                       "i_next"} :
             /\ pc' = [pc EXCEPT ![i] = step]
             /\ step = "s_mode" => Loadable(app[i])
                                   /\ snap' = [snap EXCEPT ![i] = dotapp[app[i]].reg]
             /\ step # "s_mode" => snap' = snap
             /\ step = "i_next" => cmd[i] = "set-isolated"
      BY <1>4 DEF StartCheck, Reply, Goto
    <3>2. PICK step \in {"app_not_found", "invalid_entry", "ok", "s_mode", "c_wait", "start_failed",
                       "i_next"} :
             /\ pc' = [pc EXCEPT ![i] = step]
             /\ step = "s_mode" => Loadable(app[i])
                                   /\ snap' = [snap EXCEPT ![i] = dotapp[app[i]].reg]
             /\ step # "s_mode" => snap' = snap
             /\ step = "i_next" => cmd[i] = "set-isolated"
      BY <3>1
    <3>3. CASE step = "s_mode"
      BY <2>2, <3>2, <3>3, RecordsAssumption
    <3>4. CASE step # "s_mode"
      <4>1. snap' = [snap EXCEPT ![i] = snap[i]]
        BY <3>2, <3>4
      <4> QED
        BY <3>2, <3>4, <4>1
    <3> QED
      BY <3>3, <3>4
  <2>4. run' \in [Apps -> Process \cup {NoRun}]
    <3>1. ASSUME run[app[i]] # NoRun PROVE [run[app[i]] EXCEPT !.known = TRUE] \in Process
      <4>1. run[app[i]] \in Process
        BY <2>1, <3>1
      <4> QED
        BY <4>1 DEF Process
    <3>2. \/ UNCHANGED run
          \/ run[app[i]] # NoRun
             /\ run' = [run EXCEPT ![app[i]] = [run[app[i]] EXCEPT !.known = TRUE]]
      BY <1>4 DEF StartCheck
    <3> QED
      BY <2>1, <3>1, <3>2
  <2>5. Placed(i)'
    BY <1>4, <2>1, <2>3 DEF StartCheck, At, Placed
  <2> QED
    BY <1>4, <2>3, <2>4, <2>5, StepTypes DEF StartCheck, Steps, Codes
<1>5. CASE StartWait(i)
  <2>1. app[i] \in Apps /\ cmd[i] \in {"start", "set-isolated"}
    BY <1>5 DEF StartWait, At, Placed
  <2>2. PICK step \in {"ok", "start_failed", "i_next"} :
           /\ pc' = [pc EXCEPT ![i] = step]
           /\ step = "i_next" => cmd[i] = "set-isolated"
    BY <1>5 DEF StartWait, Reply, Goto
  <2>3. run' \in [Apps -> Process \cup {NoRun}]
    BY <1>5, <2>1 DEF StartWait
  <2>4. Placed(i)'
    BY <1>5, <2>1, <2>2 DEF StartWait, At, Placed
  <2>5. snap' = [snap EXCEPT ![i] = snap[i]]
    BY <1>5 DEF StartWait
  <2> QED
    BY <1>5, <2>2, <2>3, <2>4, <2>5, StepTypes DEF StartWait, Steps, Codes
<1> QED
  BY <1>1, <1>2, <1>3, <1>4, <1>5

\* A switch goes from one app to the next.
LEMMA SwitchTypes ==
    ASSUME TInv, NEW i \in Invs, SwitchNext(i)
    PROVE  TInv'
<1> USE DEF TInv, TypeOK, files, past
<1>1. PICK step \in {"ok", "s_load", "i_next"}, a \in Apps :
         /\ pc' = [pc EXCEPT ![i] = step]
         /\ app' = [app EXCEPT ![i] = a]
         /\ \/ UNCHANGED run
            \/ run' = [run EXCEPT ![a] = NoRun]
         /\ todo' \in [Invs -> SUBSET Apps]
  <2>1. app[i] \in Apps /\ pc[i] = "i_next" /\ todo[i] \subseteq Apps
    BY DEF SwitchNext, At, Placed
  <2>2. CASE todo[i] = {} /\ Goto(i, "ok") /\ UNCHANGED <<run, app, todo>>
    <3>1. app' = [app EXCEPT ![i] = app[i]]
      BY <2>2
    <3> QED
      BY <2>1, <2>2, <3>1 DEF Goto
  <2>3. ASSUME NEW a \in todo[i],
               todo' = [todo EXCEPT ![i] = @ \ {a}],
               IF Registered(a)
                  THEN /\ run' = IF Running(a) THEN [run EXCEPT ![a] = NoRun] ELSE run
                       /\ app' = [app EXCEPT ![i] = a]
                       /\ Goto(i, "s_load")
                  ELSE UNCHANGED <<run, app, pc>>
        PROVE  \E step \in {"ok", "s_load", "i_next"}, b \in Apps :
                  /\ pc' = [pc EXCEPT ![i] = step]
                  /\ app' = [app EXCEPT ![i] = b]
                  /\ \/ UNCHANGED run
                     \/ run' = [run EXCEPT ![b] = NoRun]
                  /\ todo' \in [Invs -> SUBSET Apps]
    <3>1. todo' \in [Invs -> SUBSET Apps]
      BY <2>3
    <3>2. CASE Registered(a)
      BY <2>1, <2>3, <3>1, <3>2 DEF Goto
    <3>3. CASE ~Registered(a)
      <4>1. pc' = [pc EXCEPT ![i] = "i_next"] /\ app' = [app EXCEPT ![i] = app[i]]
        BY <2>1, <2>3, <3>3
      <4> QED
        BY <2>1, <2>3, <3>1, <3>3, <4>1
    <3> QED
      BY <3>2, <3>3
  <2> QED
    BY <2>2, <2>3 DEF SwitchNext
<1>2. UNCHANGED <<files, twins, cmd, val, snap, mode, mine, past>> /\ cmd[i] = "set-isolated"
  BY DEF SwitchNext, At, Placed
<1>3. TypeOK'
  BY <1>1, <1>2 DEF Steps, Codes
<1>4. ASSUME NEW j \in Invs \ {i} PROVE Placed(j)'
  BY <1>1, <1>2, <1>4 DEF Placed
<1>5. Placed(i)'
  <2>1. /\ pc'[i] \in {"ok", "s_load", "i_next"} /\ app'[i] \in Apps
        /\ cmd'[i] = "set-isolated" /\ val'[i] = val[i] /\ cmd'[i] = cmd[i]
    BY <1>1, <1>2
  <2>2. val[i] \in ArgumentsOf(cmd[i])
    BY DEF SwitchNext, At, Placed
  <2>3. ArgumentsOf(cmd[i])' = ArgumentsOf(cmd[i])
    BY <2>1 DEF ArgumentsOf
  <2> QED
    BY <2>1, <2>2, <2>3 DEF Placed
<1> QED
  BY <1>3, <1>4, <1>5

\* Every step keeps the types.
LEMMA NextTInv == TInv /\ [Next]_vars => TInv'
<1> SUFFICES ASSUME TInv, [Next]_vars PROVE TInv'
  OBVIOUS
<1>1. ASSUME NEW a \in Apps, Exit(a) PROVE TInv'
  <2>1. TypeOK'
    BY <1>1 DEF Exit, TInv, TypeOK, files, args, local, past
  <2>2. UNCHANGED <<pc, cmd, app, val, snap>>
    BY <1>1 DEF Exit, args, local
  <2> QED
    BY <2>1, <2>2 DEF TInv, Placed
<1>2. CASE UNCHANGED vars
  BY <1>2 DEF vars, files, args, local, past, TInv, TypeOK, Placed
<1> QED
  BY <1>1, <1>2, BeginTypes, GoneTypes, ReadTypes, WriteTypes, RunTypes, SwitchTypes
     DEF Next, Step

\* The state is what it is declared to be: what lies in a registration is always a
\* whole registration (appfile.rs).
THEOREM TypeTheorem == Spec => []TypeOK
<1>1. TInv => TypeOK
  BY DEF TInv
<1> QED
  BY <1>1, InitTInv, NextTInv, PTL DEF Spec

-----------------------------------------------------------------------------
(* Who may touch what *)

\* A command is concerned with its own app.
LEMMA OwnConcern ==
    ASSUME NEW c, NEW a \in Apps PROVE a \in Concern(c, a)
BY DEF Concern, SameSocket

\* No command begins or changes its app: where one was alone it still is.
LEMMA AloneKept ==
    ASSUME RInv, UNCHANGED twins,
           \A b \in Apps : clean'[b] => clean[b],
           \A j \in Invs : pc'[j] # "idle" =>
              /\ pc[j] # "idle" /\ cmd'[j] = cmd[j]
              /\ app'[j] = app[j] \/ cmd[j] = "set-isolated"
    PROVE  Alone'
<1>1. ASSUME NEW j \in Invs, pc'[j] # "idle"
      PROVE  Concern(cmd[j], app[j])' = Concern(cmd[j], app[j]) /\ pc[j] # "idle"
  <2>1. \A a, b : SameSocket(a, b)' = SameSocket(a, b)
    BY DEF SameSocket
  <2>2. CASE cmd[j] = "set-isolated"
    BY <1>1, <2>2 DEF Concern
  <2>3. CASE cmd[j] # "set-isolated"
    BY <1>1, <2>1, <2>3 DEF Concern
  <2> QED
    BY <1>1, <2>2, <2>3
<1>2. SUFFICES ASSUME NEW b \in Apps, clean'[b],
                      NEW i \in Invs, pc'[i] # "idle", NEW j \in Invs \ {i}, pc'[j] # "idle",
                      b \in Concern(cmd[i], app[i]), b \in Concern(cmd[j], app[j])
               PROVE  FALSE
  <2>1. InFlight' = {j \in Invs : pc'[j] # "idle"}
    BY DEF InFlight
  <2> QED
    BY <1>1, <2>1 DEF Alone
<1> QED
  BY <1>1, <1>2 DEF RInv, Alone, InFlight

\* A command that keeps its local state keeps its story, if no step of another
\* touches what concerns it.
LEMMA ToldKept ==
    ASSUME RInv, NEW j \in Invs, pc[j] # "idle", Told(j), cmd[j] # "set-isolated",
           pc'[j] = pc[j], cmd'[j] = cmd[j], app'[j] = app[j], val'[j] = val[j],
           snap'[j] = snap[j], seen'[j] = seen[j], UNCHANGED twins,
           \A b \in Apps : SameSocket(app[j], b) => dotapp'[b] = dotapp[b]
    PROVE  Told(j)'
<1>1. app[j] \in Apps /\ dotapp'[app[j]] = dotapp[app[j]]
  BY DEF RInv, TInv, Placed, SameSocket
<1>2. Meant(j)' = Meant(j)
  BY DEF Meant, Fresh, Rewrite, KeyOf
<1>3. Harmless(cmd[j])' = Harmless(cmd[j])
  BY DEF Harmless
<1>4. Effect(cmd[j], seen[j], val[j])' = Effect(cmd[j], seen[j], val[j])
  BY DEF Effect, Fresh, KeyOf
<1>5. Sole(j) => Sole(j)'
  BY DEF Sole, Registered, SameSocket
<1> QED
  BY <1>1, <1>2, <1>3, <1>4, <1>5 DEF Told

\* Where no file changes, the others' stories stand.
LEMMA StoryKept ==
    ASSUME RInv, NEW j \in Invs, UNCHANGED <<dotapp, twins>>,
           pc'[j] = pc[j], cmd'[j] = cmd[j], app'[j] = app[j], val'[j] = val[j],
           snap'[j] = snap[j], seen'[j] = seen[j],
           \A b \in Apps : clean'[b] => clean[b]
    PROVE  Story(j)'
<1> SUFFICES ASSUME pc[j] # "idle", cmd[j] # "set-isolated", clean'[app[j]] PROVE Told(j)'
  BY DEF Story
<1>1. app[j] \in Apps
  BY DEF RInv, TInv, Placed
<1>2. Told(j)
  BY <1>1 DEF RInv, Story
<1> QED
  BY <1>2, ToldKept

\* Where a command changes a file that concerns it, so do those of the others.
LEMMA StoryOfOthers ==
    ASSUME RInv, NEW i \in Invs, pc[i] # "idle", NEW j \in Invs \ {i}, UNCHANGED twins,
           pc'[j] = pc[j], cmd'[j] = cmd[j], app'[j] = app[j], val'[j] = val[j],
           snap'[j] = snap[j], seen'[j] = seen[j],
           \A b \in Apps : clean'[b] => clean[b],
           cmd[i] # "set-isolated",
           \A b \in Apps \ {app[i]} : dotapp'[b] = dotapp[b]
    PROVE  Story(j)'
<1> SUFFICES ASSUME pc[j] # "idle", cmd[j] # "set-isolated", clean'[app[j]] PROVE Told(j)'
  BY DEF Story
<1>1. app[j] \in Apps /\ app[i] \in Apps
  BY DEF RInv, TInv, Placed
<1>2. Told(j)
  BY <1>1 DEF RInv, Story
<1>3. app[j] \notin Concern(cmd[i], app[i])
  BY <1>1, OwnConcern DEF RInv, Alone, InFlight
<1>4. ~SameSocket(app[i], app[j])
  BY <1>1, <1>3 DEF Concern
<1>5. ASSUME NEW b \in Apps, SameSocket(app[j], b) PROVE dotapp'[b] = dotapp[b]
  BY <1>4, <1>5 DEF SameSocket
<1> QED
  BY <1>2, <1>5, ToldKept

-----------------------------------------------------------------------------
(* The story of a command *)

\* Nobody has begun.
LEMMA InitRInv == Init => RInv
<1>1. Init => TInv
  BY InitTInv
<1>2. Init => Alone
  BY DEF Init, Alone, InFlight
<1>3. Init => \A i \in Invs : Story(i)
  BY DEF Init, Story
<1> QED
  BY <1>1, <1>2, <1>3 DEF RInv

\* A command begins with the registration it has seen.
LEMMA BeginStory ==
    ASSUME RInv, NEW i \in Invs, NEW c \in Commands, NEW a \in Apps, NEW v \in ArgumentsOf(c),
           Begin(i, c, a, v)
    PROVE  Alone' /\ \A j \in Invs : Story(j)'
<1> USE DEF RInv, TInv, TypeOK
<1>1. /\ pc[i] = "idle" /\ pc'[i] = FirstStep(c) /\ cmd'[i] = c /\ app'[i] = a
      /\ seen'[i] = dotapp[a] /\ val'[i] = v
      /\ UNCHANGED <<dotapp, twins, snap>>
      /\ \A j \in Invs \ {i} : pc'[j] = pc[j] /\ cmd'[j] = cmd[j] /\ app'[j] = app[j]
                               /\ val'[j] = val[j] /\ seen'[j] = seen[j]
  BY DEF Begin, At, Goto, files, local
<1>2. \A b \in Apps : clean'[b] => /\ clean[b]
                                   /\ b \in Concern(c, a) =>
                                        \A j \in InFlight : b \notin Concern(cmd[j], app[j])
  BY DEF Begin
<1>3. Alone'
  <2>1. InFlight' \subseteq InFlight \cup {i} /\ i \notin InFlight /\ InFlight \subseteq Invs
    BY <1>1 DEF InFlight
  <2>2. \A k, x : Concern(k, x)' = Concern(k, x)
    BY <1>1 DEF Concern, SameSocket
  <2>3. SUFFICES ASSUME NEW b \in Apps, clean'[b],
                        NEW j \in InFlight', NEW k \in InFlight' \ {j},
                        b \in Concern(cmd'[j], app'[j]), b \in Concern(cmd'[k], app'[k])
                 PROVE  FALSE
    BY <2>2 DEF Alone
  <2>4. CASE j = i
    BY <1>1, <1>2, <2>1, <2>3, <2>4
  <2>5. CASE k = i
    BY <1>1, <1>2, <2>1, <2>3, <2>5
  <2>6. CASE j # i /\ k # i
    BY <1>1, <1>2, <2>1, <2>3, <2>6 DEF Alone
  <2> QED
    BY <2>4, <2>5, <2>6
<1>4. Story(i)'
  <2>1. FirstStep(c) \in {"a_check", "e_check", "read", "r_load", "s_load", "i_flag"}
        /\ (FirstStep(c) = "read" => c # "set-entry")
        /\ (FirstStep(c) = "i_flag" => c = "set-isolated")
    BY BoundsAssumption DEF FirstStep, CommandNames
  <2>2. FirstStep(c) \notin Harmless(c)
    BY <2>1 DEF Harmless
  <2> QED
    BY <1>1, <2>1, <2>2 DEF Story, Told
<1>5. ASSUME NEW j \in Invs \ {i} PROVE Story(j)'
  BY <1>1, <1>2, <1>5, StoryKept
<1> QED
  BY <1>3, <1>4, <1>5

\* What every step of a command leaves of the others.
Apart(i) ==
    /\ UNCHANGED twins
    /\ \A b \in Apps : clean'[b] => clean[b]
    /\ \A j \in Invs \ {i} :
          /\ pc'[j] = pc[j] /\ cmd'[j] = cmd[j] /\ app'[j] = app[j] /\ val'[j] = val[j]
          /\ snap'[j] = snap[j] /\ seen'[j] = seen[j]

\* A step that writes no file is its own command's affair.
LEMMA QuietStory ==
    ASSUME RInv, NEW i \in Invs, Apart(i), UNCHANGED dotapp, pc[i] # "idle",
           pc'[i] # "idle" => cmd'[i] = cmd[i] /\ (app'[i] = app[i] \/ cmd[i] = "set-isolated"),
           Story(i)'
    PROVE  Alone' /\ \A j \in Invs : Story(j)'
<1>1. Alone'
  BY AloneKept DEF Apart
<1>2. ASSUME NEW j \in Invs \ {i} PROVE Story(j)'
  BY <1>2, StoryKept DEF Apart
<1> QED
  BY <1>1, <1>2

\* A step that writes its app's file.
LEMMA WriteStory ==
    ASSUME RInv, NEW i \in Invs, Apart(i), pc[i] # "idle", cmd[i] # "set-isolated",
           UNCHANGED <<cmd, app>>,
           \A b \in Apps \ {app[i]} : dotapp'[b] = dotapp[b],
           Story(i)'
    PROVE  Alone' /\ \A j \in Invs : Story(j)'
<1>1. Alone'
  BY AloneKept DEF Apart
<1>2. ASSUME NEW j \in Invs \ {i} PROVE Story(j)'
  BY <1>2, StoryOfOthers DEF Apart
<1> QED
  BY <1>1, <1>2

\* A step of its own: the types say what is read, and where nothing has gone
\* wrong the command's story so far.
LEMMA Background ==
    ASSUME RInv, NEW i \in Invs, pc[i] # "idle"
    PROVE  /\ app[i] \in Apps /\ val[i] \in ArgumentsOf(cmd[i])
           /\ cmd[i] # "set-isolated" /\ clean[app[i]] => Told(i)
BY DEF RInv, TInv, Placed, Story

\* Who only moves on leaves the others apart.
LEMMA MovesApart ==
    ASSUME RInv, NEW i \in Invs, NEW step, pc' = [pc EXCEPT ![i] = step],
           \A j \in Invs \ {i} : snap'[j] = snap[j],
           UNCHANGED <<twins, cmd, app, val, seen>>,
           \A b \in Apps : clean'[b] => clean[b]
    PROVE  Apart(i) /\ pc'[i] = step
BY DEF Apart, RInv, TInv, TypeOK

\* The checks of add and set-entry, before anything is written.
LEMMA CheckStory ==
    ASSUME RInv, NEW i \in Invs, AddCheck(i) \/ EntryCheck(i) \/ RemoveLoad(i)
    PROVE  Alone' /\ \A j \in Invs : Story(j)'
<1> USE DEF args, files, local, past
<1>1. /\ UNCHANGED <<dotapp, twins, cmd, app, val, seen, clean>> /\ pc[i] # "idle"
      /\ \E step : pc' = [pc EXCEPT ![i] = step]
      /\ \A j \in Invs \ {i} : snap'[j] = snap[j]
  <2>1. CASE AddCheck(i)
    BY <2>1 DEF AddCheck, At, Goto, RInv, TInv, TypeOK
  <2>2. CASE EntryCheck(i)
    BY <2>2 DEF EntryCheck, At, Goto
  <2>3. CASE RemoveLoad(i)
    BY <2>3 DEF RemoveLoad, At, Goto
  <2> QED
    BY <2>1, <2>2, <2>3
<1>2. PICK step : pc' = [pc EXCEPT ![i] = step]
  BY <1>1
<1>3. Apart(i) /\ pc'[i] = step
  BY <1>1, <1>2, MovesApart
<1>4. Story(i)'
  <2>1. SUFFICES ASSUME cmd[i] # "set-isolated", clean[app[i]], Told(i) PROVE Told(i)'
    BY <1>1, Background DEF Story
  <2>2. dotapp[app[i]] = seen[i] /\ app[i] \in Apps
    BY <1>1, Background, <2>1 DEF Told, AddCheck, EntryCheck, RemoveLoad, At
  <2>3. UNCHANGED <<dotapp[app[i]], seen[i], cmd[i], app[i], val[i]>>
    BY <1>1
  <2>4. CASE AddCheck(i)
    <3>1. /\ pc'[i] \in {"app_exists", "socket_id_collision", "invalid_cwd", "write"}
          /\ pc'[i] = "write" =>
                /\ ~\E b \in Apps : Registered(b) /\ SameSocket(app[i], b)
                /\ snap'[i] = Fresh(val[i])
      BY <2>4 DEF AddCheck, Goto, RInv, TInv, TypeOK
    <3>2. cmd[i] = "add"
      BY <2>4 DEF AddCheck, At, RInv, TInv, Placed
    <3>3. pc'[i] = "write" => Sole(i)'
      BY <1>1, <3>1 DEF Sole, Registered, SameSocket
    <3>4. Fresh(val[i])' = Fresh(val[i])
      BY <2>3 DEF Fresh
    <3> QED
      BY <2>2, <2>3, <3>1, <3>2, <3>3, <3>4 DEF Told, Meant, Editors
  <2>5. CASE EntryCheck(i)
    <3>1. /\ pc'[i] \in {"app_not_found", "invalid_argument", "entry_not_found", "read"}
          /\ pc'[i] = "read" => val[i] # BadValue
      BY <2>5 DEF EntryCheck, Goto, RInv, TInv, TypeOK
    <3> QED
      BY <2>2, <2>3, <3>1 DEF Told
  <2>6. CASE RemoveLoad(i)
    <3>1. pc'[i] \in {"app_not_found", "unlink"}
      BY <2>6 DEF RemoveLoad, Goto, RInv, TInv, TypeOK
    <3> QED
      BY <2>2, <2>3, <3>1 DEF Told
  <2> QED
    BY <2>4, <2>5, <2>6
<1> QED
  BY <1>1, <1>3, <1>4, QuietStory

\* What is read is what has been seen; what is to be written follows from it.
LEMMA ReadKeyStory ==
    ASSUME RInv, NEW i \in Invs, ReadKey(i)
    PROVE  Alone' /\ \A j \in Invs : Story(j)'
<1> USE DEF args, files, past
<1>1. /\ UNCHANGED <<dotapp, twins, cmd, app, val, seen, clean>>
      /\ pc[i] = "read" /\ cmd[i] \in Editors
      /\ \A j \in Invs \ {i} : snap'[j] = snap[j]
  BY DEF ReadKey, At, RInv, TInv, TypeOK, Placed
<1>2. PICK step \in {"write", "answer", "app_not_found"} :
         /\ pc' = [pc EXCEPT ![i] = step]
         /\ step = "write" =>
               /\ Registered(app[i]) /\ ~(cmd[i] = "set-memory-max" /\ val[i] = BadValue)
               /\ snap'[i] = Rewrite(dotapp[app[i]].reg, KeyOf(cmd[i]), val[i])
         /\ step # "write" =>
               /\ ~Registered(app[i]) \/ (cmd[i] = "set-memory-max" /\ val[i] = BadValue)
               /\ step = "answer" <=> cmd[i] = "set-memory-max"
  BY DEF ReadKey, Goto, RInv, TInv, TypeOK
<1>3. Apart(i) /\ pc'[i] = step
  BY <1>1, <1>2, MovesApart
<1>4. Story(i)'
  <2>1. SUFFICES ASSUME cmd[i] # "set-isolated", clean[app[i]], Told(i) PROVE Told(i)'
    BY <1>1, Background DEF Story
  <2>2. dotapp[app[i]] = seen[i] /\ app[i] \in Apps /\ (cmd[i] = "set-entry" => val[i] # BadValue)
    BY <1>1, Background, <2>1 DEF Told
  <2>3. UNCHANGED <<dotapp[app[i]], seen[i], cmd[i], app[i], val[i]>>
    BY <1>1
  <2>4. Rewrite(seen[i].reg, KeyOf(cmd[i]), val[i])' = Rewrite(seen[i].reg, KeyOf(cmd[i]), val[i])
    BY <2>3 DEF Rewrite, KeyOf
  <2>5. CASE step = "write"
    <3>1. snap'[i] = Meant(i)' /\ seen[i] # NoReg /\ Sole(i)'
      BY <1>1, <1>2, <2>2, <2>3, <2>4, <2>5 DEF Meant, Sole, Registered, Editors
    <3> QED
      BY <1>2, <1>3, <2>2, <2>3, <2>5, <3>1 DEF Told, Harmless
  <2>6. CASE step = "answer"
    BY <1>2, <1>3, <2>2, <2>3, <2>6 DEF Told, Harmless, Registered
  <2>7. CASE step = "app_not_found"
    BY <1>3, <2>2, <2>3, <2>7 DEF Told
  <2> QED
    BY <2>5, <2>6, <2>7
<1> QED
  BY <1>1, <1>3, <1>4, QuietStory

\* A write that fails is a fault: nothing is claimed of it.
LEMMA WriteFailsStory ==
    ASSUME RInv, NEW i \in Invs, pc[i] \in {"write", "share"}, WriteFails(i),
           UNCHANGED <<twins, cmd, app, val, snap>>
    PROVE  Alone' /\ \A j \in Invs : Story(j)'
<1>1. UNCHANGED <<dotapp, seen>> /\ \E step : pc' = [pc EXCEPT ![i] = step]
  BY DEF WriteFails, Goto
<1>2. \A b \in Apps : /\ clean'[b] => clean[b]
                      /\ b \in Concern(cmd[i], app[i]) => ~clean'[b]
  BY DEF WriteFails, Fault
<1>3. Apart(i)
  BY <1>1, <1>2, MovesApart
<1>4. Story(i)'
  BY <1>2, Background, OwnConcern DEF Story
<1> QED
  BY <1>1, <1>3, <1>4, QuietStory

\* The file is renamed into place, and then shared.
LEMMA RenameStory ==
    ASSUME RInv, NEW i \in Invs, Rename(i)
    PROVE  Alone' /\ \A j \in Invs : Story(j)'
<1>1. /\ pc[i] = "write" /\ cmd[i] \in Editors \cup {"add"}
      /\ UNCHANGED <<twins, cmd, app, val, snap>> /\ app[i] \in Apps
  BY DEF Rename, At, args, local, RInv, TInv, Placed
<1>2. CASE WriteFails(i)
  BY <1>1, <1>2, WriteFailsStory
<1>3. CASE /\ dotapp' = [dotapp EXCEPT ![app[i]] = [reg |-> snap[i], shared |-> FALSE]]
           /\ Goto(i, "share") /\ UNCHANGED past
  <2>1. /\ UNCHANGED <<seen, clean>> /\ pc' = [pc EXCEPT ![i] = "share"]
        /\ dotapp'[app[i]] = [reg |-> snap[i], shared |-> FALSE]
        /\ \A b \in Apps \ {app[i]} : dotapp'[b] = dotapp[b]
    BY <1>1, <1>3 DEF Goto, past, RInv, TInv, TypeOK
  <2>2. Apart(i) /\ pc'[i] = "share"
    BY <1>1, <2>1, MovesApart
  <2>3. Story(i)'
    <3>1. SUFFICES ASSUME cmd[i] # "set-isolated", clean[app[i]], Told(i) PROVE Told(i)'
      BY <1>1, <2>1, Background DEF Story
    <3>2. /\ snap[i] = Meant(i) /\ Sole(i) /\ (cmd[i] \in Editors => seen[i] # NoReg)
          /\ (cmd[i] \in {"set-entry", "set-memory-max"} => val[i] # BadValue)
      BY <1>1, <3>1 DEF Told
    <3>3. UNCHANGED <<seen[i], cmd[i], app[i], val[i], snap[i]>>
      BY <1>1, <2>1
    <3>4. Meant(i)' = Meant(i)
      BY <3>3 DEF Meant, Fresh, Rewrite, KeyOf
    <3>5. Sole(i)'
      BY <1>1, <2>1, <3>2, <3>3 DEF Sole, Registered, SameSocket
    <3> QED
      BY <2>1, <2>2, <3>2, <3>3, <3>4, <3>5 DEF Told, Harmless
  <2> QED
    BY <1>1, <2>1, <2>2, <2>3, WriteStory DEF Editors
<1> QED
  BY <1>2, <1>3 DEF Rename

\* What is shared is what was renamed into place.
LEMMA ShareStory ==
    ASSUME RInv, NEW i \in Invs, Share(i)
    PROVE  Alone' /\ \A j \in Invs : Story(j)'
<1>1. /\ pc[i] = "share" /\ cmd[i] \in Editors \cup {"add"}
      /\ UNCHANGED <<twins, cmd, app, val, snap>> /\ app[i] \in Apps
      /\ snap[i] \in Registration
  BY DEF Share, At, args, local, RInv, TInv, TypeOK, Placed
<1>2. CASE WriteFails(i)
  BY <1>1, <1>2, WriteFailsStory
<1>3. CASE /\ Registered(app[i])
           /\ dotapp' = [dotapp EXCEPT ![app[i]].shared = TRUE]
           /\ Goto(i, "answer") /\ UNCHANGED past
  <2>1. /\ UNCHANGED <<seen, clean>> /\ pc' = [pc EXCEPT ![i] = "answer"]
        /\ dotapp'[app[i]] = [dotapp[app[i]] EXCEPT !.shared = TRUE]
        /\ \A b \in Apps \ {app[i]} : dotapp'[b] = dotapp[b]
    BY <1>1, <1>3 DEF Goto, past, RInv, TInv, TypeOK
  <2>2. Apart(i) /\ pc'[i] = "answer"
    BY <1>1, <2>1, MovesApart
  <2>3. Story(i)'
    <3>1. SUFFICES ASSUME cmd[i] # "set-isolated", clean[app[i]], Told(i) PROVE Told(i)'
      BY <1>1, <2>1, Background DEF Story
    <3>2. /\ snap[i] = Meant(i) /\ Sole(i)
          /\ dotapp[app[i]] = [reg |-> Meant(i), shared |-> FALSE]
          /\ (cmd[i] \in {"set-entry", "set-memory-max"} => val[i] # BadValue)
      BY <1>1, <3>1 DEF Told
    <3>3. UNCHANGED <<seen[i], cmd[i], app[i], val[i], snap[i]>>
      BY <1>1, <2>1
    <3>4. Meant(i)' = Meant(i)
      BY <3>3 DEF Meant, Fresh, Rewrite, KeyOf
    <3>5. Sole(i)'
      BY <1>1, <2>1, <3>2, <3>3 DEF Sole, Registered, SameSocket
    <3>6. dotapp'[app[i]] = [reg |-> Meant(i), shared |-> TRUE] /\ dotapp'[app[i]] # NoReg
      <4>1. dotapp'[app[i]] = [[reg |-> Meant(i), shared |-> FALSE] EXCEPT !.shared = TRUE]
        BY <2>1, <3>2
      <4>2. dotapp'[app[i]] = [reg |-> Meant(i), shared |-> TRUE]
        BY <4>1
      <4>3. Meant(i) \in Registration
        BY <1>1, <3>2
      <4> QED
        BY <4>2, <4>3, FileIsThere
    <3>7. "answer" \notin Harmless(cmd[i])
      BY DEF Harmless
    <3> QED
      BY <2>2, <3>2, <3>3, <3>4, <3>5, <3>6, <3>7 DEF Told, Harmless
  <2> QED
    BY <1>1, <2>1, <2>2, <2>3, WriteStory DEF Editors
<1>4. CASE /\ ~Registered(app[i])
           /\ Goto(i, IF cmd[i] = "set-memory-max" THEN "answer" ELSE "write_failed")
           /\ UNCHANGED <<dotapp, past>>
  <2>1. /\ UNCHANGED <<dotapp, seen, clean>> /\ \E step : pc' = [pc EXCEPT ![i] = step]
    BY <1>4 DEF Goto, past
  <2>2. Apart(i)
    BY <1>1, <2>1, MovesApart
  <2>3. ASSUME cmd[i] # "set-isolated", clean[app[i]] PROVE FALSE
    <3>1. Told(i)
      BY <1>1, <2>3, Background
    <3>2. dotapp[app[i]] = [reg |-> snap[i], shared |-> FALSE]
      BY <1>1, <3>1 DEF Told
    <3> QED
      BY <1>1, <1>4, <3>2, FileIsThere DEF Registered
  <2>4. Story(i)'
    BY <1>1, <2>1, <2>3 DEF Story
  <2> QED
    BY <1>1, <2>1, <2>2, <2>4, QuietStory
<1> QED
  BY <1>2, <1>3, <1>4 DEF Share

\* remove: the file goes, and then the rest.
LEMMA RemoveStory ==
    ASSUME RInv, NEW i \in Invs, Unlink(i) \/ Clean(i)
    PROVE  Alone' /\ \A j \in Invs : Story(j)'
<1>1. /\ pc[i] \in {"unlink", "clean"} /\ cmd[i] = "remove" /\ app[i] \in Apps
      /\ UNCHANGED <<twins, cmd, app, val, snap, seen, clean>>
  BY DEF Unlink, Clean, At, args, local, past, RInv, TInv, Placed
<1>2. CASE Unlink(i)
  <2>1. /\ pc' = [pc EXCEPT ![i] = "clean"] /\ dotapp'[app[i]] = NoReg
        /\ \A b \in Apps \ {app[i]} : dotapp'[b] = dotapp[b]
    BY <1>1, <1>2 DEF Unlink, Goto, RInv, TInv, TypeOK
  <2>2. Apart(i) /\ pc'[i] = "clean"
    BY <1>1, <2>1, MovesApart
  <2>3. Story(i)'
    BY <1>1, <2>1, <2>2 DEF Story, Told, Harmless
  <2> QED
    BY <1>1, <2>1, <2>2, <2>3, WriteStory
<1>3. CASE Clean(i)
  <2>1. PICK step \in {"ok", "cwd_is_symlink"} : pc' = [pc EXCEPT ![i] = step]
    BY <1>3 DEF Clean, Goto
  <2>2. Apart(i) /\ pc'[i] = step /\ UNCHANGED dotapp /\ pc[i] = "clean"
    BY <1>1, <1>3, <2>1, MovesApart DEF Clean, files, At
  <2>3. Story(i)'
    <3>1. SUFFICES ASSUME clean[app[i]], Told(i) PROVE Told(i)'
      BY <1>1, Background DEF Story
    <3>2. dotapp[app[i]] = NoReg
      BY <2>2, <3>1 DEF Told
    <3>3. cmd'[i] = "remove" /\ app'[i] = app[i] /\ dotapp'[app[i]] = NoReg
      BY <1>1, <2>2, <3>2
    <3>4. Effect(cmd[i], seen[i], val[i])' = NoReg /\ Sole(i)'
      BY <3>3 DEF Effect, Sole
    <3>5. pc'[i] \in {"ok", "cwd_is_symlink"} /\ pc'[i] \notin Harmless(cmd[i])'
      BY <2>2, <3>3 DEF Harmless
    <3>6. dotapp'[app'[i]] = Effect(cmd[i], seen[i], val[i])'
      BY <3>3, <3>4
    <3> QED
      BY <3>4, <3>5, <3>6 DEF Told
  <2> QED
    BY <1>1, <2>2, <2>3, QuietStory
<1> QED
  BY <1>2, <1>3

\* What is answered agrees with what has been written.
LEMMA AnswerStory ==
    ASSUME RInv, NEW i \in Invs, Answer(i)
    PROVE  Alone' /\ \A j \in Invs : Story(j)'
<1>1. /\ pc[i] = "answer" /\ cmd[i] \in Editors \cup {"add"} /\ app[i] \in Apps
      /\ UNCHANGED <<dotapp, twins, cmd, app, val, snap, seen, clean>>
  BY DEF Answer, At, args, files, local, RInv, TInv, Placed
<1>2. PICK step \in {"app_not_found", "invalid_argument", "entry_not_found", "add_failed", "ok"} :
         /\ pc' = [pc EXCEPT ![i] = step]
         /\ step = "entry_not_found" => cmd[i] = "set-entry" /\ val[i] # BadValue
         /\ step = "app_not_found" => cmd[i] # "add" /\ ~Loadable(app[i])
         /\ step = "invalid_argument" => val[i] = BadValue
         /\ step = "add_failed" => cmd[i] = "add"
         /\ step = "ok" => val[i] # BadValue /\ (cmd[i] = "add" \/ Loadable(app[i]))
  BY DEF Answer, Goto
<1>3. Apart(i) /\ pc'[i] = step
  BY <1>1, <1>2, MovesApart
<1>4. Story(i)'
  <2>1. SUFFICES ASSUME cmd[i] # "set-isolated", clean[app[i]], Told(i) PROVE Told(i)'
    BY <1>1, Background DEF Story
  <2>2. UNCHANGED <<dotapp[app[i]], seen[i], cmd[i], app[i], val[i]>>
    BY <1>1
  <2>3. CASE /\ cmd[i] = "set-memory-max" /\ dotapp[app[i]] = seen[i]
             /\ val[i] = BadValue \/ seen[i] = NoReg
    <3>1. step # "ok" /\ step # "add_failed" /\ step # "entry_not_found"
      BY <1>2, <2>3 DEF Loadable, Registered
    <3> QED
      BY <1>2, <1>3, <2>2, <2>3, <3>1 DEF Told
  <2>4. CASE /\ dotapp[app[i]] = [reg |-> Meant(i), shared |-> TRUE] /\ Sole(i)
             /\ dotapp[app[i]] # NoReg
             /\ cmd[i] \in {"set-entry", "set-memory-max"} => val[i] # BadValue
    <3>1. step # "app_not_found"
      BY <1>2, <2>4 DEF Loadable, Registered
    <3>2. step # "ok" => step \notin Harmless(cmd[i])'
      BY <1>1, <1>2, <2>2, <2>4, <3>1 DEF Harmless, Editors
    <3>3. Effect(cmd[i], seen[i], val[i]) = [reg |-> Meant(i), shared |-> TRUE]
      BY <1>1 DEF Effect, Meant, Rewrite, Editors
    <3>4. Effect(cmd[i], seen[i], val[i])' = Effect(cmd[i], seen[i], val[i])
      BY <2>2 DEF Effect, Fresh, KeyOf
    <3>5. Sole(i)'
      BY <1>1, <2>4 DEF Sole, Registered, SameSocket
    <3>6. "ok" \notin Harmless(cmd[i])'
      BY DEF Harmless
    <3>7. /\ pc'[i] \in {"invalid_argument", "entry_not_found", "add_failed", "ok"}
          /\ pc'[i] \notin Harmless(cmd[i])'
      BY <1>2, <1>3, <3>1, <3>2, <3>6
    <3>8. dotapp'[app'[i]] = Effect(cmd[i], seen[i], val[i])'
      BY <2>2, <2>4, <3>3, <3>4
    <3> QED
      BY <3>5, <3>7, <3>8 DEF Told
  <2> QED
    BY <1>1, <2>1, <2>3, <2>4 DEF Told
<1> QED
  BY <1>1, <1>3, <1>4, QuietStory

\* A start reads the registration and leaves it.
LEMMA StartStory ==
    ASSUME RInv, NEW i \in Invs,
           StartLoad(i) \/ StartMode(i) \/ Launch(i) \/ StartCheck(i) \/ StartWait(i)
    PROVE  Alone' /\ \A j \in Invs : Story(j)'
<1> USE DEF args, files, local, past
<1>1. /\ pc[i] \in {"s_load", "s_mode", "s_run", "c_start", "c_wait"}
      /\ cmd[i] \in {"start", "set-isolated"} /\ app[i] \in Apps
      /\ UNCHANGED <<dotapp, twins, cmd, app, val, seen, clean>>
  <2>1. CASE StartLoad(i)
    BY <2>1 DEF StartLoad, At, RInv, TInv, Placed
  <2>2. CASE StartMode(i)
    BY <2>2 DEF StartMode, At, RInv, TInv, Placed
  <2>3. CASE Launch(i)
    BY <2>3 DEF Launch, At, RInv, TInv, Placed
  <2>4. CASE StartCheck(i)
    BY <2>4 DEF StartCheck, At, RInv, TInv, Placed
  <2>5. CASE StartWait(i)
    BY <2>5 DEF StartWait, At, RInv, TInv, Placed
  <2> QED
    BY <2>1, <2>2, <2>3, <2>4, <2>5
<1>2. /\ \E step \in {"s_mode", "s_run", "c_start", "c_wait", "app_not_found", "invalid_entry", "ok",
                     "start_failed", "i_next"} :
            /\ pc' = [pc EXCEPT ![i] = step]
            /\ step = "i_next" => cmd[i] = "set-isolated"
      /\ \A j \in Invs \ {i} : snap'[j] = snap[j]
  <2>1. CASE StartLoad(i)
    BY <2>1 DEF StartLoad, Goto, RInv, TInv, TypeOK
  <2>2. CASE StartMode(i)
    BY <2>2 DEF StartMode, Goto
  <2>3. CASE Launch(i)
    BY <2>3 DEF Launch, Goto
  <2>4. CASE StartCheck(i)
    <3>1. \A j \in Invs \ {i} : snap'[j] = snap[j]
      BY <2>4 DEF StartCheck, RInv, TInv, TypeOK
    <3> QED
      BY <2>4, <3>1 DEF StartCheck, Reply, Goto
  <2>5. CASE StartWait(i)
    BY <2>5 DEF StartWait, Reply, Goto
  <2> QED
    BY <2>1, <2>2, <2>3, <2>4, <2>5
<1>3. PICK step \in {"s_mode", "s_run", "c_start", "c_wait", "app_not_found", "invalid_entry", "ok",
                     "start_failed", "i_next"} :
         /\ pc' = [pc EXCEPT ![i] = step]
         /\ step = "i_next" => cmd[i] = "set-isolated"
  BY <1>2
<1>4. Apart(i) /\ pc'[i] = step
  BY <1>1, <1>2, <1>3, MovesApart
<1>5. Story(i)'
  <2>1. SUFFICES ASSUME cmd[i] = "start", clean[app[i]], Told(i) PROVE Told(i)'
    BY <1>1, Background DEF Story
  <2>2. dotapp[app[i]] = seen[i]
    BY <1>1, <2>1 DEF Told
  <2>3. dotapp'[app'[i]] = seen'[i] /\ cmd'[i] = "start"
    BY <1>1, <2>1, <2>2
  <2>4. Effect(cmd[i], seen[i], val[i])' = seen'[i] /\ Sole(i)'
    BY <2>3 DEF Effect, Sole
  <2>5. pc'[i] \in {"s_mode", "s_run", "c_start", "c_wait", "app_not_found", "invalid_entry", "ok",
                    "start_failed"}
    BY <1>3, <1>4, <2>1
  <2> QED
    BY <2>3, <2>4, <2>5 DEF Told
<1> QED
  BY <1>1, <1>4, <1>5, QuietStory

\* A switch writes no registration.
LEMMA SwitchStory ==
    ASSUME RInv, NEW i \in Invs, SwitchFlag(i) \/ SwitchList(i) \/ SwitchNext(i)
    PROVE  Alone' /\ \A j \in Invs : Story(j)'
<1> USE DEF args, files, local, past
<1>1. /\ cmd[i] = "set-isolated" /\ pc[i] # "idle"
      /\ UNCHANGED <<dotapp, twins, cmd, val, snap, seen>>
      /\ \A b \in Apps : clean'[b] => clean[b]
  BY DEF SwitchFlag, SwitchFlagFails, Fault, SwitchList, SwitchNext, At, RInv, TInv, Placed
<1>2. \A j \in Invs \ {i} : pc'[j] = pc[j] /\ app'[j] = app[j]
  BY DEF SwitchFlag, SwitchFlagFails, SwitchList, SwitchNext, Goto, RInv, TInv, TypeOK
<1>3. Apart(i)
  BY <1>1, <1>2 DEF Apart
<1>4. Story(i)'
  BY <1>1 DEF Story
<1> QED
  BY <1>1, <1>3, <1>4, QuietStory

\* Who is gone has no story, and the others keep theirs.
LEMMA GoneStory ==
    ASSUME RInv, NEW i \in Invs, End(i) \/ CutShort(i)
    PROVE  Alone' /\ \A j \in Invs : Story(j)'
<1>1. /\ pc' = [pc EXCEPT ![i] = "idle"] /\ cmd' = [cmd EXCEPT ![i] = "start"]
      /\ app' = [app EXCEPT ![i] = NoApp] /\ val' = [val EXCEPT ![i] = NoValue]
      /\ snap' = [snap EXCEPT ![i] = NoReg] /\ seen' = [seen EXCEPT ![i] = NoReg]
      /\ UNCHANGED <<dotapp, twins>> /\ pc[i] # "idle"
  BY DEF End, CutShort, Goto, files, Codes
<1>2. \A b \in Apps : clean'[b] => clean[b]
  BY DEF End, CutShort, Fault
<1>3. Apart(i) /\ pc'[i] = "idle"
  BY <1>1, <1>2 DEF Apart, RInv, TInv, TypeOK
<1>4. Story(i)'
  BY <1>3 DEF Story
<1> QED
  BY <1>1, <1>3, <1>4, QuietStory

\* Every step keeps the invariant.
LEMMA NextRInv == RInv /\ [Next]_vars => RInv'
<1> SUFFICES ASSUME RInv, [Next]_vars PROVE RInv'
  OBVIOUS
<1>1. TInv'
  BY NextTInv DEF RInv
<1>2. Alone' /\ \A j \in Invs : Story(j)'
  <2>1. CASE UNCHANGED <<dotapp, twins, pc, cmd, app, val, snap, seen, clean>>
    <3>1. Alone'
      BY <2>1, AloneKept
    <3>2. \A j \in Invs : Story(j)'
      BY <2>1, StoryKept
    <3> QED
      BY <3>1, <3>2
  <2>2. CASE UNCHANGED vars
    BY <2>1, <2>2 DEF vars, files, args, local, past
  <2>3. ASSUME NEW a \in Apps, Exit(a)
        PROVE  UNCHANGED <<dotapp, twins, pc, cmd, app, val, snap, seen, clean>>
    BY <2>3 DEF Exit, files, args, local, past
  <2>4. ASSUME NEW i \in Invs, Step(i) PROVE Alone' /\ \A j \in Invs : Story(j)'
    BY <2>4, CheckStory, ReadKeyStory, RenameStory, ShareStory, AnswerStory, RemoveStory,
       StartStory, SwitchStory, GoneStory DEF Step
  <2> QED
    BY <2>1, <2>2, <2>3, <2>4, BeginStory DEF Next
<1> QED
  BY <1>1, <1>2 DEF RInv

-----------------------------------------------------------------------------

\* A command that refuses has left its registration as it found it, whatever the
\* commands of other apps do meanwhile (appfile.rs, plan.rs: "Valida antes de
\* gravar"); set-entry, where it did not find the file the second time, has left it
\* as it found it or with the new entry and nothing else changed.
THEOREM RefusalsTheorem == Spec => []RefusalsChangeNothing
<1>1. RInv => RefusalsChangeNothing
  <2> SUFFICES ASSUME RInv, NEW i \in Invs, pc[i] \in Codes,
                      cmd[i] # "set-isolated", clean[app[i]]
               PROVE  /\ pc[i] \in Harmless(cmd[i]) => dotapp[app[i]] = seen[i]
                      /\ pc[i] = "entry_not_found" =>
                            dotapp[app[i]] \in {seen[i], Effect(cmd[i], seen[i], val[i])}
    BY DEF RefusalsChangeNothing
  <2>1. pc[i] # "idle"
    BY DEF Codes
  <2> QED
    BY <2>1 DEF RInv, Story, Told
<1> QED
  BY <1>1, InitRInv, NextRInv, PTL DEF Spec

\* A command that answers ok has changed its registration as it says, lost no
\* other key and left it readable (appfile.rs, commands.rs).
THEOREM AnswersTheorem == Spec => []AnswersAreEffects
<1>1. RInv => AnswersAreEffects
  BY DEF RInv, Story, Told, AnswersAreEffects, Sole
<1> QED
  BY <1>1, InitRInv, NextRInv, PTL DEF Spec

-----------------------------------------------------------------------------
(* What runs, beside what is registered *)

\* An app that runs from something else than its registration says was announced,
\* or the command that changed it is about to announce it.
Asked(a) ==
    Registered(a) /\ Running(a) /\ run[a].from # Launched(dotapp[a].reg) /\ told[a] = "nothing"
    => \E i \in Invs : /\ app[i] = a /\ pc[i] \in {"share", "answer"}
                       /\ cmd[i] \in {"set-entry", "set-node-version"}

\* Only an app being removed runs with no registration.
Owned(a) ==
    Running(a) /\ ~Registered(a) => \E i \in Invs : app[i] = a /\ pc[i] = "clean"

\* What a start launches is what is registered, and what is added does not run.
Current(i) ==
    /\ pc[i] \in {"s_mode", "s_run"} =>
          Registered(app[i]) /\ snap[i] = dotapp[app[i]].reg /\ ~mine[i]
    /\ pc[i] = "c_start" /\ mine[i] =>
          /\ Registered(app[i]) /\ snap[i] # NoReg
          /\ run[app[i]] = NoRun \/ run[app[i]].from = Launched(dotapp[app[i]].reg)
    /\ cmd[i] = "add" /\ pc[i] \in {"write", "share", "answer"} => ~Running(app[i])

RunInv ==
    /\ \A a \in Apps : clean[a] => Asked(a) /\ Owned(a)
    /\ \A i \in Invs : pc[i] # "idle" /\ clean[app[i]] => Current(i)

\* Nothing has gone wrong for any app of the account.
AllClean == \A a \in Apps : clean[a]

\* What a start launches is in the mode that is chosen.
Moded(i) ==
    /\ pc[i] = "s_run" => mode[i] = Isolated
    /\ pc[i] = "c_start" /\ mine[i] => run[app[i]] = NoRun \/ run[app[i]].iso = Isolated

\* The steps of a switch that has its list.
Restarting == {"i_next", "s_load", "s_mode", "s_run", "c_start", "c_wait"}

\* A switch has yet to restart app a.
Restarts(i, a) ==
    /\ cmd[i] = "set-isolated"
    /\ pc[i] = "i_list" \/ (pc[i] \in Restarting /\ a \in todo[i])

\* An app that runs in the other mode is one a switch has yet to restart.
Covered(a) == Running(a) /\ run[a].iso # flag => \E i \in Invs : Restarts(i, a)

ModeInv ==
    AllClean =>
        /\ \A i \in Invs : pc[i] # "idle" => Moded(i)
        /\ flag # "absent" => \A a \in Apps : Covered(a)

\* What every step of a command leaves of the others, and of the other apps.
Aside(i) ==
    /\ pc[i] # "idle"
    /\ \A b \in Apps : clean'[b] => clean[b]
    /\ \A j \in Invs \ {i} :
          /\ pc'[j] = pc[j] /\ cmd'[j] = cmd[j] /\ app'[j] = app[j]
          /\ snap'[j] = snap[j] /\ mine'[j] = mine[j] /\ mode'[j] = mode[j] /\ todo'[j] = todo[j]
    /\ \A b \in Apps \ {app[i]} : dotapp'[b] = dotapp[b] /\ run'[b] = run[b] /\ told'[b] = told[b]

OwnStep(i) ==
    \/ AddCheck(i) \/ EntryCheck(i) \/ ReadKey(i) \/ Rename(i) \/ Share(i) \/ Answer(i)
    \/ RemoveLoad(i) \/ Unlink(i) \/ Clean(i)
    \/ StartLoad(i) \/ StartMode(i) \/ Launch(i) \/ StartCheck(i) \/ StartWait(i)
    \/ SwitchFlag(i) \/ SwitchList(i)

LEMMA StepAside ==
  ASSUME TInv, NEW i \in Invs, OwnStep(i)
  PROVE  Aside(i) /\ UNCHANGED <<cmd, app, val, twins>>
<1> USE DEF TInv, TypeOK, Aside, At, Goto, files, args, local, past
<1>1. CASE AddCheck(i) \/ EntryCheck(i) \/ ReadKey(i) \/ RemoveLoad(i)
  BY <1>1 DEF AddCheck, EntryCheck, ReadKey, RemoveLoad
<1>2. CASE Rename(i)
  BY <1>2 DEF Rename, WriteFails, Fault
<1>3. CASE Share(i)
  BY <1>3 DEF Share, WriteFails, Fault
<1>4. CASE Answer(i)
  BY <1>4 DEF Answer, Outcome, Tell
<1>5. CASE Unlink(i) \/ Clean(i)
  BY <1>5 DEF Unlink, Clean
<1>6. CASE StartLoad(i) \/ StartMode(i)
  BY <1>6 DEF StartLoad, StartMode
<1>7. CASE Launch(i)
  BY <1>7 DEF Launch, Tell
<1>8. CASE StartCheck(i) \/ StartWait(i)
  BY <1>8 DEF StartCheck, StartWait, Reply
<1>9. CASE SwitchFlag(i) \/ SwitchList(i)
  BY <1>9 DEF SwitchFlag, SwitchFlagFails, Fault, SwitchList
<1> QED
  BY <1>1, <1>2, <1>3, <1>4, <1>5, <1>6, <1>7, <1>8, <1>9 DEF OwnStep

\* Where nothing has gone wrong for its app, no other command has that app.
LEMMA OnlyOne ==
  ASSUME RInv, NEW i \in Invs, pc[i] # "idle", clean[app[i]],
         NEW j \in Invs \ {i}, pc[j] # "idle"
  PROVE  app[j] # app[i]
<1>1. app[i] \in Apps /\ app[j] \in Apps
  BY DEF RInv, TInv, Placed
<1> QED
  BY <1>1, OwnConcern DEF RInv, Alone, InFlight

\* So a step answers for its own app only.
LEMMA OwnAffair ==
  ASSUME RInv, RunInv, NEW i \in Invs, Aside(i), app'[i] = app[i],
         clean[app[i]] /\ clean'[app[i]] =>
            Asked(app[i])' /\ Owned(app[i])' /\ (pc'[i] # "idle" => Current(i)')
  PROVE  RunInv'
<1> USE DEF Aside
<1>1. app[i] \in Apps
  BY DEF RInv, TInv, Placed
<1>2. ASSUME NEW a \in Apps \ {app[i]}, clean'[a]
      PROVE  Asked(a)' /\ Owned(a)'
  <2>1. Asked(a) /\ Owned(a)
    BY <1>2 DEF RunInv
  <2>2. \A j \in Invs : app[j] = a => j # i /\ app'[j] = a /\ pc'[j] = pc[j] /\ cmd'[j] = cmd[j]
    BY <1>2
  <2> QED
    BY <1>2, <2>1, <2>2 DEF Asked, Owned, Registered, Running
<1>3. ASSUME NEW j \in Invs \ {i}, pc'[j] # "idle", clean'[app'[j]]
      PROVE  Current(j)'
  <2>1. app[j] \in Apps /\ pc[j] # "idle"
    BY <1>3 DEF RInv, TInv, Placed
  <2>2. app[j] # app[i]
    BY <1>1, <1>3, <2>1, OnlyOne
  <2>3. Current(j)
    BY <1>3, <2>1 DEF RunInv
  <2> QED
    BY <1>3, <2>1, <2>2, <2>3 DEF Current, Registered, Running
<1>4. clean'[app[i]] => Asked(app[i])' /\ Owned(app[i])' /\ (pc'[i] # "idle" => Current(i)')
  BY <1>1
<1> QED
  BY <1>1, <1>2, <1>3, <1>4 DEF RunInv

\* What is known of the app of a command where nothing has gone wrong: whatever it
\* has that its command does not account for, it has not.
LEMMA Known ==
  ASSUME RInv, RunInv, NEW i \in Invs, pc[i] # "idle", clean[app[i]]
  PROVE  /\ app[i] \in Apps /\ Current(i)
         /\ cmd[i] # "set-isolated" => Told(i)
         /\ \/ ~Registered(app[i]) \/ ~Running(app[i])
            \/ run[app[i]].from = Launched(dotapp[app[i]].reg)
            \/ told[app[i]] # "nothing"
            \/ pc[i] \in {"share", "answer"} /\ cmd[i] \in {"set-entry", "set-node-version"}
         /\ Running(app[i]) => Registered(app[i]) \/ pc[i] = "clean"
<1>1. app[i] \in Apps
  BY DEF RInv, TInv, Placed
<1>2. \A j \in Invs : app[j] = app[i] /\ pc[j] # "idle" => j = i
  BY OnlyOne
<1>3. Asked(app[i]) /\ Owned(app[i]) /\ Current(i)
  BY <1>1 DEF RunInv
<1> QED
  BY <1>1, <1>2, <1>3, Background DEF Asked, Owned

\* The steps that only look.
LEMMA LookRun ==
  ASSUME RInv, RunInv, NEW i \in Invs,
         \/ AddCheck(i) \/ EntryCheck(i) \/ ReadKey(i) \/ RemoveLoad(i)
         \/ StartLoad(i) \/ StartMode(i) \/ SwitchFlag(i) \/ SwitchList(i)
  PROVE  RunInv'
<1> USE DEF files, args, local, past, At, Goto
<1>1. Aside(i) /\ UNCHANGED <<cmd, app>>
  BY StepAside DEF RInv, OwnStep
<1>2. UNCHANGED <<dotapp, run, told>> /\ pc[i] \notin {"idle", "share", "answer", "clean"}
  BY DEF AddCheck, EntryCheck, ReadKey, RemoveLoad, StartLoad, StartMode, SwitchFlag,
         SwitchFlagFails, SwitchList
<1>3. ASSUME clean[app[i]]
      PROVE  Asked(app[i])' /\ Owned(app[i])' /\ Current(i)'
  <2>1. Asked(app[i])' /\ Owned(app[i])'
    BY <1>1, <1>2, <1>3, Known DEF Asked, Owned, Registered, Running
  <2>2. Current(i)'
    <3> USE DEF RInv, TInv, TypeOK, Current, Registered, Running
    <3>1. app[i] \in Apps /\ (Running(app[i]) => Registered(app[i])) /\ Current(i)
      BY <1>2, <1>3, Known
    <3>2. CASE AddCheck(i)
      BY <1>1, <1>2, <3>1, <3>2 DEF AddCheck, SameSocket
    <3>3. CASE EntryCheck(i) \/ ReadKey(i) \/ RemoveLoad(i)
      BY <1>1, <1>2, <3>1, <3>3 DEF EntryCheck, ReadKey, RemoveLoad, Placed, Editors
    <3>4. CASE StartLoad(i)
      BY <1>1, <1>2, <3>1, <3>4 DEF StartLoad, Placed
    <3>5. CASE StartMode(i)
      BY <1>1, <1>2, <3>1, <3>5 DEF StartMode, Placed
    <3>6. CASE SwitchFlag(i) \/ SwitchList(i)
      BY <1>1, <1>2, <3>1, <3>6 DEF SwitchFlag, SwitchFlagFails, SwitchList, Placed
    <3> QED
      BY <3>2, <3>3, <3>4, <3>5, <3>6
  <2> QED
    BY <2>1, <2>2
<1> QED
  BY <1>1, <1>3, OwnAffair

\* A key other than memory_max is what a process is launched from.
LEMMA CapIsNoOrigin ==
  ASSUME NEW r \in Registration, NEW v
  PROVE  Launched(Rewrite(r, "memory_max", v)) = Launched(r)
BY DEF Launched, Rewrite, Registration, Keys

\* A write: what it changes about the launch it is about to announce.
LEMMA WriteRun ==
  ASSUME RInv, RunInv, NEW i \in Invs, Rename(i) \/ Share(i)
  PROVE  RunInv'
<1> USE DEF files, args, local, past, At, Goto
<1>1. Aside(i) /\ UNCHANGED <<cmd, app>>
  BY StepAside DEF RInv, OwnStep
<1>2. pc[i] \in {"write", "share"} /\ cmd[i] \in Editors \cup {"add"} /\ app[i] \in Apps
  BY DEF Rename, Share, RInv, TInv, Placed
<1>3. ASSUME clean[app[i]], clean'[app[i]]
      PROVE  Asked(app[i])' /\ Owned(app[i])' /\ Current(i)'
  <2> USE <1>1, <1>2, <1>3, Known DEF RInv, TInv, TypeOK, Registered, Running
  <2>1. ~WriteFails(i)
    BY OwnConcern DEF WriteFails, Fault
  <2>2. CASE Rename(i)
    <3>1. /\ dotapp' = [dotapp EXCEPT ![app[i]] = [reg |-> snap[i], shared |-> FALSE]]
          /\ pc'[i] = "share" /\ UNCHANGED <<run, told>>
      BY <2>1, <2>2 DEF Rename
    <3>2. snap[i] \in Registration
      BY <2>2 DEF Rename, Placed
    <3>3. dotapp'[app[i]].reg = snap[i] /\ Registered(app[i])'
      BY <3>1, <3>2, FileIsThere
    <3>4. cmd[i] = "add" => ~Running(app[i])
      BY <2>2 DEF Rename, Current
    <3>5. cmd[i] = "set-memory-max" =>
            Registered(app[i]) /\ Launched(snap[i]) = Launched(dotapp[app[i]].reg)
      <4> SUFFICES ASSUME cmd[i] = "set-memory-max"
                   PROVE  Registered(app[i]) /\ Launched(snap[i]) = Launched(dotapp[app[i]].reg)
        OBVIOUS
      <4>1. dotapp[app[i]] = seen[i] /\ seen[i] # NoReg /\ snap[i] = Meant(i)
        BY <2>2 DEF Rename, Told, Editors
      <4>2. snap[i] = Rewrite(dotapp[app[i]].reg, "memory_max", val[i])
        BY <4>1 DEF Meant, KeyOf
      <4>3. dotapp[app[i]].reg \in Registration
        BY <4>1 DEF File
      <4> QED
        BY <4>1, <4>2, <4>3, CapIsNoOrigin
    <3>6. Asked(app[i])'
      BY <2>2, <3>1, <3>3, <3>4, <3>5 DEF Asked, Rename, Editors
    <3> QED
      BY <3>1, <3>3, <3>4, <3>6 DEF Owned, Current
  <2>3. CASE Share(i)
    <3>1. Registered(app[i]) /\ dotapp[app[i]] \in File
      <4>1. pc[i] = "share" /\ Told(i)
        BY <2>3 DEF Share, Editors
      <4>2. dotapp[app[i]] = [reg |-> snap[i], shared |-> FALSE] /\ snap[i] \in Registration
        BY <4>1 DEF Told, Placed
      <4> QED
        BY <4>2, FileIsThere
    <3>2. /\ dotapp' = [dotapp EXCEPT ![app[i]].shared = TRUE]
          /\ pc'[i] = "answer" /\ UNCHANGED <<run, told>>
      BY <2>1, <2>3, <3>1 DEF Share
    <3>3. dotapp'[app[i]].reg = dotapp[app[i]].reg /\ Registered(app[i])'
      <4>1. dotapp'[app[i]] = [dotapp[app[i]] EXCEPT !.shared = TRUE]
        BY <3>1, <3>2
      <4>2. dotapp[app[i]].reg \in Registration
        BY <3>1 DEF File
      <4>3. dotapp'[app[i]] = [reg |-> dotapp[app[i]].reg, shared |-> TRUE]
        BY <3>1, <4>1 DEF File
      <4>4. dotapp'[app[i]].reg = dotapp[app[i]].reg
        BY <4>3
      <4>5. dotapp'[app[i]] # NoReg
        BY <4>2, <4>3, FileIsThere
      <4>6. app'[i] = app[i]
        OBVIOUS
      <4> QED
        BY <4>4, <4>5
    <3> QED
      BY <2>3, <3>1, <3>2, <3>3 DEF Share, Asked, Owned, Current
  <2> QED
    BY <2>2, <2>3
<1> QED
  BY <1>1, <1>3, OwnAffair

\* The answer: what changed is announced, or was refused.
LEMMA AnswerRun ==
  ASSUME RInv, RunInv, NEW i \in Invs, Answer(i)
  PROVE  RunInv'
<1> USE DEF files, args, local, past, At, Goto
<1>1. Aside(i) /\ UNCHANGED <<cmd, app>>
  BY StepAside DEF RInv, OwnStep
<1>2. ASSUME clean[app[i]]
      PROVE  Asked(app[i])' /\ Owned(app[i])' /\ Current(i)'
  <2> USE <1>1, <1>2, Known DEF RInv, TInv, TypeOK
  <2>1. /\ UNCHANGED <<dotapp, run>> /\ pc[i] = "answer" /\ cmd[i] \in Editors \cup {"add"}
        /\ pc'[i] \in {"app_not_found", "invalid_argument", "entry_not_found", "add_failed", "ok"}
    BY DEF Answer, Placed
  <2>2. Owned(app[i])' /\ Current(i)'
    BY <2>1 DEF Owned, Current, Registered, Running
  <2>3. cmd[i] \in {"set-entry", "set-node-version"} => Loadable(app[i])
    <3> SUFFICES ASSUME cmd[i] \in {"set-entry", "set-node-version"}
                 PROVE  Loadable(app[i])
      OBVIOUS
    <3>1. Told(i)
      BY <1>2, <2>1, Known
    <3>2. dotapp[app[i]] = [reg |-> Meant(i), shared |-> TRUE] /\ dotapp[app[i]] # NoReg
      BY <2>1, <3>1 DEF Told
    <3> QED
      BY <3>2 DEF Loadable, Registered
  <2>4. cmd[i] = "set-entry" => val[i] # BadValue
    BY <2>1 DEF Told
  <2>5. Asked(app[i])'
    BY <2>1, <2>3, <2>4 DEF Answer, Outcome, Tell, Asked, Registered, Running
  <2> QED
    BY <2>2, <2>5
<1> QED
  BY <1>1, <1>2, OwnAffair

\* A removal ends what it leaves unregistered.
LEMMA RemoveRun ==
  ASSUME RInv, RunInv, NEW i \in Invs, Unlink(i) \/ Clean(i)
  PROVE  RunInv'
<1> USE DEF files, args, local, past, At, Goto
<1>1. Aside(i) /\ UNCHANGED <<cmd, app>>
  BY StepAside DEF RInv, OwnStep
<1>2. ASSUME clean[app[i]]
      PROVE  Asked(app[i])' /\ Owned(app[i])' /\ Current(i)'
  <2> USE <1>1, <1>2, Known DEF RInv, TInv, TypeOK, Registered, Running
  <2>1. CASE Unlink(i)
    BY <2>1 DEF Unlink, Asked, Owned, Current
  <2>2. CASE Clean(i)
    <3>1. ~Registered(app[i])
      BY <2>2 DEF Clean, Told, Placed
    <3>2. ~Running(app[i])' /\ dotapp' = dotapp /\ pc'[i] \in {"ok", "cwd_is_symlink"}
      BY <2>2 DEF Clean
    <3> QED
      BY <3>1, <3>2 DEF Asked, Owned, Current
  <2> QED
    BY <2>1, <2>2
<1> QED
  BY <1>1, <1>2, OwnAffair

\* A start launches what is registered, and records what it has launched.
LEMMA StartRun ==
  ASSUME RInv, RunInv, NEW i \in Invs, Launch(i) \/ StartCheck(i) \/ StartWait(i)
  PROVE  RunInv'
<1> USE DEF files, args, local, past, At, Goto
<1>1. Aside(i) /\ UNCHANGED <<cmd, app>>
  BY StepAside DEF RInv, OwnStep
<1>2. ASSUME clean[app[i]]
      PROVE  Asked(app[i])' /\ Owned(app[i])' /\ Current(i)'
  <2> USE <1>1, <1>2 DEF RInv, TInv, TypeOK, Registered, Running
  <2>1. /\ app[i] \in Apps /\ Current(i) /\ pc[i] \in {"s_run", "c_start", "c_wait"}
        /\ cmd[i] \in {"start", "set-isolated"}
        /\ run[app[i]] \in Process \cup {NoRun} /\ dotapp' = dotapp
    BY Known DEF Launch, StartCheck, StartWait, Placed
  <2>2. /\ \/ ~Registered(app[i]) \/ ~Running(app[i])
           \/ run[app[i]].from = Launched(dotapp[app[i]].reg)
           \/ told[app[i]] # "nothing"
        /\ Running(app[i]) => Registered(app[i])
    BY <2>1, Known
  <2>3. CASE Launch(i)
    <3>1. /\ Registered(app[i]) /\ snap[i] = dotapp[app[i]].reg /\ ~mine[i]
          /\ pc'[i] = "c_start" /\ snap' = snap /\ snap[i] # NoReg
      BY <2>1, <2>3 DEF Launch, Current, Placed
    <3>2. CASE run[app[i]] = NoRun
      <4>1. /\ run'[app[i]] = [from |-> Launched(snap[i]), iso |-> mode[i], known |-> FALSE]
            /\ mine'[i]
        BY <2>1, <2>3, <3>2 DEF Launch
      <4> QED
        BY <2>1, <3>1, <4>1 DEF Asked, Owned, Current
    <3>3. CASE run[app[i]] # NoRun
      <4>1. UNCHANGED <<run, mine, told>>
        BY <2>3, <3>3 DEF Launch
      <4> QED
        BY <2>1, <2>2, <3>1, <4>1 DEF Asked, Owned, Current
    <3> QED
      BY <3>2, <3>3
  <2>4. CASE StartCheck(i)
    <3>1. pc[i] = "c_start" /\ UNCHANGED <<told, mine>>
      BY <2>4 DEF StartCheck
    <3>2. CASE run' = run /\ snap' = snap /\ pc'[i] \notin {"c_start", "s_mode", "s_run"}
      BY <2>1, <2>2, <3>1, <3>2 DEF Asked, Owned, Current
    <3>3. CASE /\ run' = run /\ pc'[i] = "s_mode" /\ snap[i] = NoReg /\ Registered(app[i])
               /\ snap'[i] = dotapp[app[i]].reg
      BY <2>1, <2>2, <3>1, <3>3 DEF Asked, Owned, Current
    <3>4. CASE /\ run' = [run EXCEPT ![app[i]].known = TRUE] /\ pc'[i] = "c_wait"
               /\ mine[i] /\ run[app[i]] # NoRun
      <4>1. run[app[i]].from = Launched(dotapp[app[i]].reg) /\ Registered(app[i])
        BY <2>1, <3>1, <3>4 DEF Current
      <4>2. run'[app[i]].from = run[app[i]].from
        BY <2>1, <3>4 DEF Process
      <4> QED
        BY <2>1, <3>1, <3>4, <4>1, <4>2 DEF Asked, Owned, Current
    <3> QED
      BY <2>1, <2>4, <3>2, <3>3, <3>4 DEF StartCheck, Reply, Loadable
  <2>5. CASE StartWait(i)
    <3>1. UNCHANGED <<dotapp, told, mine>> /\ pc'[i] \in {"ok", "start_failed", "i_next"}
      BY <2>5 DEF StartWait, Reply
    <3>2. run' = run \/ run'[app[i]] = NoRun
      BY <2>1, <2>5 DEF StartWait
    <3> QED
      BY <2>1, <2>2, <3>1, <3>2 DEF Asked, Owned, Current
  <2> QED
    BY <2>3, <2>4, <2>5
<1> QED
  BY <1>1, <1>2, OwnAffair

\* A switch goes on to the next app, which no other command has.
LEMMA SwitchRun ==
  ASSUME RInv, RunInv, NEW i \in Invs, SwitchNext(i)
  PROVE  RunInv'
<1> USE DEF files, args, local, past, At, Goto, RInv, TInv, TypeOK
<1>1. /\ UNCHANGED <<dotapp, cmd, snap, mine, clean, told>> /\ pc[i] = "i_next"
      /\ cmd[i] = "set-isolated" /\ pc'[i] \in {"i_next", "s_load", "ok"}
      /\ \A j \in Invs \ {i} : pc'[j] = pc[j] /\ app'[j] = app[j]
      /\ \A a \in Apps : run'[a] = run[a] \/ run'[a] = NoRun
  BY DEF SwitchNext, Placed
<1>2. ASSUME NEW a \in Apps, clean[a]
      PROVE  Asked(a)' /\ Owned(a)'
  <2>1. Asked(a) /\ Owned(a)
    BY <1>2 DEF RunInv
  <2>2. \A j \in Invs : pc[j] \in {"share", "answer", "clean"} =>
                            j # i /\ app'[j] = app[j] /\ pc'[j] = pc[j] /\ cmd'[j] = cmd[j]
    BY <1>1
  <2> QED
    BY <1>1, <2>1, <2>2 DEF Asked, Owned, Registered, Running
<1>3. ASSUME NEW j \in Invs, pc'[j] # "idle", clean[app'[j]]
      PROVE  Current(j)'
  <2>1. CASE j = i
    BY <1>1, <2>1 DEF Current
  <2>2. CASE j # i
    <3>1. Current(j) /\ app[j] \in Apps
      BY <1>1, <1>3, <2>2 DEF RunInv, Placed
    <3> QED
      BY <1>1, <2>2, <3>1 DEF Current, Registered, Running
  <2> QED
    BY <2>1, <2>2
<1> QED
  BY <1>1, <1>2, <1>3 DEF RunInv

\* A command begins knowing nothing, and disturbs no witness.
LEMMA BeginRun ==
  ASSUME RInv, RunInv, NEW i \in Invs, NEW c \in Commands, NEW a \in Apps,
         NEW v \in ArgumentsOf(c), Begin(i, c, a, v)
  PROVE  RunInv'
<1> USE DEF files, local, At, Goto, RInv, TInv, TypeOK
<1>1. /\ UNCHANGED <<dotapp, run, snap, mine, told>> /\ pc[i] = "idle"
      /\ pc'[i] \notin {"s_mode", "s_run", "c_start", "write", "share", "answer"}
      /\ \A j \in Invs \ {i} : pc'[j] = pc[j] /\ app'[j] = app[j] /\ cmd'[j] = cmd[j]
      /\ \A b \in Apps : clean'[b] => clean[b]
  BY DEF Begin, FirstStep
<1>2. ASSUME NEW b \in Apps, clean'[b]
      PROVE  Asked(b)' /\ Owned(b)'
  <2>1. Asked(b) /\ Owned(b)
    BY <1>1, <1>2 DEF RunInv
  <2>2. \A j \in Invs : pc[j] \in {"share", "answer", "clean"} =>
                            app'[j] = app[j] /\ pc'[j] = pc[j] /\ cmd'[j] = cmd[j]
    BY <1>1
  <2> QED
    BY <1>1, <2>1, <2>2 DEF Asked, Owned, Registered, Running
<1>3. ASSUME NEW j \in Invs, pc'[j] # "idle", clean'[app'[j]]
      PROVE  Current(j)'
  <2>1. CASE j = i
    BY <1>1, <2>1 DEF Current
  <2>2. CASE j # i
    <3>1. Current(j) /\ app[j] \in Apps
      BY <1>1, <1>3, <2>2 DEF RunInv, Placed
    <3> QED
      BY <1>1, <2>2, <3>1 DEF Current, Registered, Running
  <2> QED
    BY <2>1, <2>2
<1> QED
  BY <1>1, <1>2, <1>3 DEF RunInv

\* Who is gone has announced what there was to announce, or was killed.
LEMMA GoneRun ==
  ASSUME RInv, RunInv, NEW i \in Invs, End(i) \/ CutShort(i)
  PROVE  RunInv'
<1> USE DEF files, At, Goto, RInv, TInv, TypeOK
<1>1. /\ UNCHANGED <<dotapp, run, told>> /\ pc'[i] = "idle" /\ pc[i] # "idle"
      /\ \A j \in Invs \ {i} : /\ pc'[j] = pc[j] /\ app'[j] = app[j] /\ cmd'[j] = cmd[j]
                                /\ snap'[j] = snap[j] /\ mine'[j] = mine[j]
      /\ \A b \in Apps : clean'[b] => clean[b]
  BY DEF End, CutShort, Fault, Codes
<1>2. ASSUME NEW b \in Apps, clean'[b]
      PROVE  Asked(b)' /\ Owned(b)'
  <2>1. Asked(b) /\ Owned(b)
    BY <1>1, <1>2 DEF RunInv
  <2>2. \A j \in Invs : app[j] = b /\ pc[j] \in {"share", "answer", "clean"} => j # i
    <3>1. CASE End(i)
      BY <3>1 DEF End, Codes
    <3>2. CASE CutShort(i)
      <4>1. b \notin Concern(cmd[i], app[i])
        BY <1>2, <3>2 DEF CutShort, Fault
      <4> QED
        BY <4>1, OwnConcern
    <3> QED
      BY <3>1, <3>2
  <2> QED
    BY <1>1, <2>1, <2>2 DEF Asked, Owned, Registered, Running
<1>3. ASSUME NEW j \in Invs, pc'[j] # "idle", clean'[app'[j]]
      PROVE  Current(j)'
  <2>1. j # i
    BY <1>1, <1>3
  <2>2. Current(j) /\ app[j] \in Apps
    BY <1>1, <1>3, <2>1 DEF RunInv, Placed
  <2> QED
    BY <1>1, <2>1, <2>2 DEF Current, Registered, Running
<1> QED
  BY <1>1, <1>2, <1>3 DEF RunInv

\* What exits runs no more.
LEMMA ExitRun ==
  ASSUME RInv, RunInv, NEW a \in Apps, Exit(a)
  PROVE  RunInv'
<1> USE DEF RInv, TInv, TypeOK
<1>1. /\ UNCHANGED <<dotapp, pc, cmd, app, snap, mine, clean, told>>
      /\ \A b \in Apps : run'[b] = run[b] \/ run'[b] = NoRun
  BY DEF Exit, files, args, local, past
<1>2. ASSUME NEW b \in Apps, clean[b]
      PROVE  Asked(b)' /\ Owned(b)'
  BY <1>1, <1>2 DEF RunInv, Asked, Owned, Registered, Running
<1>3. ASSUME NEW j \in Invs, pc[j] # "idle", clean[app[j]]
      PROVE  Current(j)'
  <2>1. Current(j) /\ app[j] \in Apps
    BY <1>3 DEF RunInv, Placed
  <2> QED
    BY <1>1, <2>1 DEF Current, Registered, Running
<1> QED
  BY <1>1, <1>2, <1>3 DEF RunInv

\* The initial states run what they have registered.
LEMMA InitRunInv == Init => RunInv
<1> SUFFICES ASSUME Init PROVE RunInv
  OBVIOUS
<1>0. PICK there \in SUBSET Apps : \E up \in SUBSET there, e \in Entries, cap \in Caps \cup {NoValue} :
         LET reg == [Fresh(e) EXCEPT !["memory_max"] = cap]
         IN  /\ twins => Cardinality(there) <= 1
             /\ dotapp = [a \in Apps |-> IF a \in there
                             THEN [reg |-> reg, shared |-> TRUE] ELSE NoReg]
             /\ run = [a \in Apps |-> IF a \in up
                             THEN [from |-> Launched(reg), iso |-> Isolated, known |-> TRUE]
                             ELSE NoRun]
  BY DEF Init
<1>1. PICK up \in SUBSET there, e \in Entries, cap \in Caps \cup {NoValue} :
         LET reg == [Fresh(e) EXCEPT !["memory_max"] = cap]
         IN  /\ twins => Cardinality(there) <= 1
             /\ dotapp = [a \in Apps |-> IF a \in there
                             THEN [reg |-> reg, shared |-> TRUE] ELSE NoReg]
             /\ run = [a \in Apps |-> IF a \in up
                             THEN [from |-> Launched(reg), iso |-> Isolated, known |-> TRUE]
                             ELSE NoRun]
  BY <1>0
<1> DEFINE reg == [Fresh(e) EXCEPT !["memory_max"] = cap]
<1>2. reg \in Registration
  <2>1. Fresh(e) \in Registration
    BY FreshType DEF Values
  <2> QED
    BY <2>1, RewriteType DEF Rewrite, Keys, Values
<1>3. ASSUME NEW a \in Apps
      PROVE  Asked(a) /\ Owned(a)
  <2>1. Running(a) => a \in up
    BY <1>1 DEF Running
  <2>2. a \in up => run[a].from = Launched(dotapp[a].reg)
    BY <1>1
  <2>3. a \in up => Registered(a)
    BY <1>1, <1>2, FileIsThere DEF Registered
  <2> QED
    BY <2>1, <2>2, <2>3 DEF Asked, Owned
<1> QED
  BY <1>3 DEF Init, RunInv

\* Every step keeps what is known of what runs.
LEMMA NextRunInv == RInv /\ RunInv /\ [Next]_vars => RunInv'
<1> SUFFICES ASSUME RInv, RunInv, [Next]_vars PROVE RunInv'
  OBVIOUS
<1>1. CASE UNCHANGED vars
  BY <1>1 DEF RunInv, Asked, Owned, Current, Registered, Running, vars, files, args, local, past
<1>2. ASSUME NEW i \in Invs, Step(i) PROVE RunInv'
  BY <1>2, LookRun, WriteRun, AnswerRun, RemoveRun, StartRun, SwitchRun, GoneRun DEF Step
<1> QED
  BY <1>1, <1>2, BeginRun, ExitRun DEF Next

\* An app that runs from something else than its registration was announced to need a
\* restart, or its change was refused ("restart_required", commands.rs).
THEOREM RestartTheorem == Spec => []RestartIsAsked
<1>1. RInv /\ RunInv => RestartIsAsked
  <2> SUFFICES ASSUME RInv, RunInv, NEW a \in Apps, Settled(a), Registered(a), Running(a),
                      run[a].from # Launched(dotapp[a].reg), told[a] = "nothing"
               PROVE  FALSE
    BY DEF RestartIsAsked
  <2>1. PICK i \in Invs : app[i] = a /\ pc[i] \in {"share", "answer"}
    BY DEF RunInv, Settled, Asked
  <2> QED
    BY <2>1, OwnConcern DEF Settled, InFlight
<1> QED
  BY <1>1, InitRInv, NextRInv, InitRunInv, NextRunInv, PTL DEF Spec

-----------------------------------------------------------------------------
(* The mode the account has chosen *)

\* Where nothing has gone wrong, a switch is the only command there is.
LEMMA SwitchAlone ==
  ASSUME RInv, AllClean, NEW i \in Invs, pc[i] # "idle", cmd[i] = "set-isolated",
         NEW j \in Invs \ {i}
  PROVE  pc[j] = "idle"
<1> SUFFICES ASSUME pc[j] # "idle" PROVE FALSE
  OBVIOUS
<1>1. app[j] \in Apps
  BY DEF RInv, TInv, Placed
<1>2. app[j] \in Concern(cmd[i], app[i])
  BY <1>1 DEF Concern
<1> QED
  BY <1>1, <1>2, OwnConcern DEF RInv, Alone, InFlight, AllClean

\* A step that chooses no mode, launches in the chosen one, and drops no app from the
\* list of a switch unless it has ended it.
LEMMA ModeKept ==
  ASSUME RInv, ModeInv, flag' = flag, \A b \in Apps : clean'[b] => clean[b],
         AllClean => \A b \in Apps :
            \/ run'[b] = run[b] /\ \A j \in Invs : Restarts(j, b) => Restarts(j, b)'
            \/ ~Running(b)'
            \/ run'[b].iso = Isolated,
         AllClean => \A j \in Invs : pc'[j] # "idle" => Moded(j)'
  PROVE  ModeInv'
<1> SUFFICES ASSUME AllClean' PROVE ModeInv'
  BY DEF ModeInv
<1>1. AllClean
  BY DEF AllClean
<1>2. ASSUME flag # "absent", NEW b \in Apps
      PROVE  Covered(b)'
  <2>1. Covered(b) /\ Isolated = flag
    BY <1>1, <1>2 DEF ModeInv, Isolated
  <2>2. CASE run'[b] = run[b] /\ \A j \in Invs : Restarts(j, b) => Restarts(j, b)'
    BY <2>1, <2>2 DEF Covered, Running
  <2>3. CASE ~Running(b)' \/ run'[b].iso = Isolated
    BY <2>1, <2>3 DEF Covered
  <2> QED
    BY <1>1, <2>2, <2>3
<1> QED
  BY <1>1, <1>2 DEF ModeInv

\* A step leaves the other commands with the mode they have.
LEMMA ModedOthers ==
  ASSUME RInv, ModeInv, AllClean, NEW i \in Invs, Aside(i), app' = app, flag' = flag,
         NEW j \in Invs \ {i}, pc'[j] # "idle"
  PROVE  Moded(j)'
<1>1. pc[j] # "idle" /\ app[i] \in Apps /\ app[j] \in Apps
  BY DEF Aside, RInv, TInv, Placed
<1>2. app[j] # app[i]
  BY <1>1, OnlyOne DEF AllClean, Aside
<1>3. Moded(j)
  BY <1>1 DEF ModeInv
<1> QED
  BY <1>1, <1>2, <1>3 DEF Moded, Aside, Isolated

\* The steps of the other commands, which know no mode.
LEMMA PlainMode ==
  ASSUME RInv, ModeInv, NEW i \in Invs,
         \/ AddCheck(i) \/ EntryCheck(i) \/ ReadKey(i) \/ Rename(i) \/ Share(i) \/ Answer(i)
         \/ RemoveLoad(i) \/ Unlink(i) \/ Clean(i)
  PROVE  ModeInv'
<1> USE DEF files, args, local, past, At, Goto, RInv, TInv, TypeOK
<1>1. Aside(i) /\ UNCHANGED <<cmd, app>>
  BY StepAside DEF OwnStep
<1>2. /\ flag' = flag /\ cmd[i] # "set-isolated" /\ pc'[i] \notin {"s_run", "c_start"}
      /\ \A b \in Apps : run'[b] = run[b] \/ run'[b] = NoRun
  <2>1. CASE AddCheck(i) \/ EntryCheck(i) \/ ReadKey(i) \/ RemoveLoad(i)
    BY <2>1 DEF AddCheck, EntryCheck, ReadKey, RemoveLoad, Placed, Editors
  <2>2. CASE Rename(i) \/ Share(i)
    BY <2>2 DEF Rename, Share, WriteFails, Placed, Editors
  <2>3. CASE Answer(i)
    BY <2>3 DEF Answer, Placed, Editors
  <2>4. CASE Unlink(i) \/ Clean(i)
    BY <2>4 DEF Unlink, Clean, Placed
  <2> QED
    BY <2>1, <2>2, <2>3, <2>4
<1>3. \A j \in Invs, b \in Apps : Restarts(j, b) => Restarts(j, b)'
  BY <1>1, <1>2 DEF Restarts, Aside
<1>4. \A b \in Apps : run'[b] = run[b] \/ ~Running(b)'
  BY <1>2 DEF Running
<1>5. AllClean => \A j \in Invs : pc'[j] # "idle" => Moded(j)'
  BY <1>1, <1>2, ModedOthers DEF Moded
<1> QED
  BY <1>1, <1>2, <1>3, <1>4, <1>5, ModeKept DEF Aside

\* A start, of its own or the child of a switch, launches in the mode it reads.
LEMMA StartModes ==
  ASSUME RInv, RunInv, ModeInv, NEW i \in Invs,
         StartLoad(i) \/ StartMode(i) \/ Launch(i) \/ StartCheck(i) \/ StartWait(i)
  PROVE  ModeInv'
<1> USE DEF files, args, local, past, At, Goto, RInv, TInv, TypeOK
<1>1. Aside(i) /\ UNCHANGED <<cmd, app>>
  BY StepAside DEF OwnStep
<1>2. /\ flag' = flag /\ todo' = todo /\ clean' = clean /\ app[i] \in Apps
      /\ pc[i] \in Restarting /\ cmd[i] \in {"start", "set-isolated"}
      /\ cmd[i] = "set-isolated" => pc'[i] \in Restarting
  BY DEF StartLoad, StartMode, Launch, StartCheck, StartWait, Reply, Placed, Restarting
<1>3. \A j \in Invs, b \in Apps : Restarts(j, b) => Restarts(j, b)'
  BY <1>1, <1>2 DEF Restarts, Aside, Restarting
<1>4. ASSUME AllClean
      PROVE  /\ run'[app[i]] = run[app[i]] \/ ~Running(app[i])' \/ run'[app[i]].iso = Isolated
             /\ Moded(i)'
  <2>1. Current(i) /\ Moded(i) /\ run[app[i]] \in Process \cup {NoRun}
    BY <1>2, <1>4 DEF RunInv, ModeInv, AllClean, Restarting
  <2>2. Isolated' = Isolated
    BY <1>2 DEF Isolated
  <2>3. CASE StartLoad(i)
    BY <1>2, <2>3 DEF StartLoad, Moded
  <2>4. CASE StartMode(i)
    BY <1>1, <1>2, <2>2, <2>4 DEF StartMode, Moded
  <2>5. CASE Launch(i)
    <3>1. mode[i] = Isolated /\ ~mine[i] /\ pc'[i] = "c_start"
      BY <2>1, <2>5 DEF Launch, Moded, Current
    <3>2. CASE run[app[i]] = NoRun
      <4>1. run'[app[i]] = [from |-> Launched(snap[i]), iso |-> mode[i], known |-> FALSE]
        BY <1>2, <2>5, <3>2 DEF Launch
      <4> QED
        BY <1>1, <2>2, <3>1, <4>1 DEF Moded
    <3>3. CASE run[app[i]] # NoRun
      BY <2>5, <3>1, <3>3 DEF Launch, Moded
    <3> QED
      BY <3>2, <3>3
  <2>6. CASE StartCheck(i)
    <3>1. pc[i] = "c_start" /\ pc'[i] \notin {"s_run", "c_start"}
      BY <2>6 DEF StartCheck, Reply
    <3>2. CASE run' = run
      BY <3>1, <3>2 DEF Moded
    <3>3. CASE /\ run' = [run EXCEPT ![app[i]].known = TRUE] /\ mine[i] /\ run[app[i]] # NoRun
      <4>1. run[app[i]].iso = Isolated
        BY <2>1, <3>1, <3>3 DEF Moded
      <4>2. run'[app[i]].iso = run[app[i]].iso
        BY <1>2, <2>1, <3>3 DEF Process
      <4> QED
        BY <3>1, <4>1, <4>2 DEF Moded
    <3> QED
      BY <2>6, <3>2, <3>3 DEF StartCheck
  <2>7. CASE StartWait(i)
    <3>1. pc'[i] \notin {"s_run", "c_start"}
      BY <2>7 DEF StartWait, Reply
    <3>2. run' = run \/ run'[app[i]] = NoRun
      BY <1>2, <2>7 DEF StartWait
    <3> QED
      BY <1>1, <3>1, <3>2 DEF Moded, Running
  <2> QED
    BY <2>3, <2>4, <2>5, <2>6, <2>7
<1>5. AllClean => \A b \in Apps : run'[b] = run[b] \/ ~Running(b)' \/ run'[b].iso = Isolated
  BY <1>1, <1>4 DEF Aside
<1>6. AllClean => \A j \in Invs : pc'[j] # "idle" => Moded(j)'
  BY <1>1, <1>2, <1>4, ModedOthers
<1> QED
  BY <1>2, <1>3, <1>5, <1>6, ModeKept

\* A switch chooses, and lists every app that runs: none is unregistered, for no
\* removal is under way.
LEMMA ChooseMode ==
  ASSUME RInv, RunInv, ModeInv, NEW i \in Invs, SwitchFlag(i) \/ SwitchList(i)
  PROVE  ModeInv'
<1> USE DEF files, args, local, past, At, Goto, RInv, TInv, TypeOK
<1> SUFFICES ASSUME AllClean' PROVE ModeInv'
  BY DEF ModeInv
<1>0. ~SwitchFlagFails(i)
  <2>1. SUFFICES ASSUME SwitchFlagFails(i) PROVE FALSE
    OBVIOUS
  <2>2. pc[i] \in {"i_flag", "i_list"}
    BY DEF SwitchFlag, SwitchList
  <2>3. app[i] \in Apps
    BY <2>2 DEF Placed
  <2>4. ~clean'[app[i]]
    BY <2>1, <2>3, OwnConcern DEF SwitchFlagFails, Fault
  <2> QED
    BY <2>3, <2>4 DEF AllClean
<1>1. /\ UNCHANGED <<cmd, app, run, dotapp, clean>> /\ cmd[i] = "set-isolated"
      /\ pc[i] \in {"i_flag", "i_list"} /\ pc'[i] \in {"sandbox_unavailable", "i_list", "i_next"}
      /\ \A j \in Invs \ {i} : pc'[j] = pc[j]
  BY <1>0 DEF SwitchFlag, SwitchList, Placed
<1>2. AllClean /\ \A j \in Invs \ {i} : pc[j] = "idle"
  <2>1. AllClean
    BY <1>1 DEF AllClean
  <2> QED
    BY <1>1, <2>1, SwitchAlone
<1>3. \A j \in Invs : pc'[j] # "idle" => Moded(j)'
  BY <1>1, <1>2 DEF Moded
<1>4. ASSUME flag' # "absent", NEW a \in Apps, Running(a)', run'[a].iso # flag'
      PROVE  Restarts(i, a)'
  <2>1. CASE pc'[i] = "sandbox_unavailable"
    <3>1. pc[i] = "i_flag" /\ flag' = flag
      BY <1>0, <2>1 DEF SwitchFlag, SwitchList
    <3>2. Covered(a) /\ Running(a) /\ run[a].iso # flag
      BY <1>1, <1>2, <1>4, <3>1 DEF ModeInv, Running
    <3> QED
      BY <1>2, <3>1, <3>2 DEF Covered, Restarts, Restarting
  <2>2. CASE pc'[i] = "i_list"
    BY <1>1, <2>2 DEF Restarts
  <2>3. CASE pc'[i] = "i_next"
    <3>1. SwitchList(i) /\ pc[i] = "i_list"
      BY <1>0, <2>3 DEF SwitchFlag, SwitchList
    <3>2. Running(a) /\ Owned(a)
      BY <1>1, <1>2, <1>4 DEF RunInv, AllClean, Running
    <3>3. Registered(a)
      BY <1>2, <3>1, <3>2 DEF Owned
    <3>4. a \in todo'[i]
      BY <3>1, <3>2, <3>3 DEF SwitchList
    <3> QED
      BY <1>1, <2>3, <3>4 DEF Restarts, Restarting
  <2> QED
    BY <1>1, <2>1, <2>2, <2>3
<1> QED
  BY <1>3, <1>4 DEF ModeInv, Covered

\* A switch passes to the next app when it has ended it, and ends when none is left.
LEMMA NextMode ==
  ASSUME RInv, RunInv, ModeInv, NEW i \in Invs, SwitchNext(i)
  PROVE  ModeInv'
<1> USE DEF files, args, local, past, At, Goto, RInv, TInv, TypeOK
<1>1. /\ UNCHANGED <<flag, dotapp, cmd, clean>> /\ cmd[i] = "set-isolated"
      /\ pc[i] = "i_next" /\ pc'[i] \in {"i_next", "s_load", "ok"}
      /\ \A j \in Invs \ {i} : pc'[j] = pc[j]
  BY DEF SwitchNext, Placed
<1>2. ASSUME AllClean, NEW j \in Invs \ {i}
      PROVE  pc[j] = "idle"
  BY <1>1, <1>2, SwitchAlone
<1>3. AllClean => \A j \in Invs : pc'[j] # "idle" => Moded(j)'
  BY <1>1, <1>2 DEF Moded
<1>4. ASSUME AllClean, NEW b \in Apps
      PROVE  \/ run'[b] = run[b] /\ \A j \in Invs : Restarts(j, b) => Restarts(j, b)'
             \/ ~Running(b)'
  <2>1. \A j \in Invs : Restarts(j, b) => j = i /\ b \in todo[i]
    BY <1>1, <1>2, <1>4 DEF Restarts, Restarting
  <2>2. CASE todo[i] = {} /\ run' = run
    BY <2>1, <2>2
  <2>3. ASSUME NEW a \in todo[i], todo' = [todo EXCEPT ![i] = @ \ {a}],
               pc'[i] \in {"i_next", "s_load"},
               IF Registered(a)
               THEN run' = IF Running(a) THEN [run EXCEPT ![a] = NoRun] ELSE run
               ELSE run' = run
        PROVE  \/ run'[b] = run[b] /\ \A j \in Invs : Restarts(j, b) => Restarts(j, b)'
               \/ ~Running(b)'
    <3>1. CASE b # a
      <4>1. run'[b] = run[b]
        BY <2>3, <3>1
      <4>2. Restarts(i, b) => Restarts(i, b)'
        BY <1>1, <2>3, <3>1 DEF Restarts, Restarting
      <4> QED
        BY <2>1, <4>1, <4>2
    <3>2. CASE b = a
      <4>1. Running(b) => Registered(b)
        BY <1>1, <1>2, <1>4 DEF RunInv, Owned, AllClean
      <4> QED
        BY <2>3, <3>2, <4>1 DEF Running
    <3> QED
      BY <3>1, <3>2
  <2> QED
    BY <1>1, <2>2, <2>3 DEF SwitchNext
<1> QED
  BY <1>1, <1>3, <1>4, ModeKept

\* Commands begin with no mode, and end when they have none to answer for; a killed one
\* leaves its app unsettled.
LEMMA ComeAndGoMode ==
  ASSUME RInv, ModeInv, NEW i \in Invs,
         \/ \E c \in Commands, a \in Apps : \E v \in ArgumentsOf(c) : Begin(i, c, a, v)
         \/ End(i) \/ CutShort(i)
  PROVE  ModeInv'
<1> USE DEF files, args, local, past, At, Goto, RInv, TInv, TypeOK
<1>1. /\ UNCHANGED <<flag, dotapp, run>> /\ \A b \in Apps : clean'[b] => clean[b]
      /\ pc'[i] \notin {"s_run", "c_start"}
      /\ \A j \in Invs \ {i} : /\ pc'[j] = pc[j] /\ app'[j] = app[j] /\ cmd'[j] = cmd[j]
                                /\ mode'[j] = mode[j] /\ mine'[j] = mine[j] /\ todo'[j] = todo[j]
  BY DEF Begin, FirstStep, End, CutShort, Fault
<1>2. ASSUME NEW j \in Invs, pc'[j] # "idle", AllClean
      PROVE  Moded(j)'
  <2>1. CASE j = i
    BY <1>1, <2>1 DEF Moded
  <2>2. CASE j # i
    <3>1. Moded(j)
      BY <1>1, <1>2, <2>2 DEF ModeInv
    <3> QED
      BY <1>1, <2>2, <3>1 DEF Moded, Isolated
  <2> QED
    BY <2>1, <2>2
<1>3. CASE CutShort(i)
  <2>1. app[i] \in Apps /\ ~clean'[app[i]]
    BY <1>3, OwnConcern DEF CutShort, Fault, Placed
  <2> QED
    BY <2>1 DEF ModeInv, AllClean
<1>4. CASE ~CutShort(i)
  <2>1. pc[i] = "idle" \/ pc[i] \in Codes
    BY <1>4 DEF Begin, End
  <2>2. \A j \in Invs, b \in Apps : Restarts(j, b) => Restarts(j, b)'
    BY <1>1, <2>1 DEF Restarts, Restarting, Codes
  <2> QED
    BY <1>1, <1>2, <2>2, ModeKept
<1> QED
  BY <1>3, <1>4

\* What exits is in no mode.
LEMMA ExitMode ==
  ASSUME RInv, ModeInv, NEW a \in Apps, Exit(a)
  PROVE  ModeInv'
<1> USE DEF files, args, local, past, RInv, TInv, TypeOK
<1>1. /\ UNCHANGED <<flag, pc, cmd, app, mode, mine, todo, clean>>
      /\ \A b \in Apps : run'[b] = run[b] \/ run'[b] = NoRun
  BY DEF Exit
<1>2. \A b \in Apps : run'[b] = run[b] \/ ~Running(b)'
  BY <1>1 DEF Running
<1>3. \A j \in Invs, b \in Apps : Restarts(j, b) => Restarts(j, b)'
  BY <1>1 DEF Restarts
<1>4. ASSUME AllClean, NEW j \in Invs, pc[j] # "idle"
      PROVE  Moded(j)'
  <2>1. Moded(j) /\ app[j] \in Apps
    BY <1>4 DEF ModeInv, Placed
  <2> QED
    BY <1>1, <2>1 DEF Moded, Isolated
<1> QED
  BY <1>1, <1>2, <1>3, <1>4, ModeKept

\* What runs at first is in the mode the account had chosen.
LEMMA InitModeInv == Init => ModeInv
<1> SUFFICES ASSUME Init PROVE ModeInv
  OBVIOUS
<1>1. ASSUME flag # "absent", NEW a \in Apps, Running(a)
      PROVE  run[a].iso = flag
  <2>1. PICK there \in SUBSET Apps : \E up \in SUBSET there, e \in Entries, cap \in Caps \cup {NoValue} :
         LET reg == [Fresh(e) EXCEPT !["memory_max"] = cap]
         IN  /\ twins => Cardinality(there) <= 1
             /\ dotapp = [b \in Apps |-> IF b \in there
                             THEN [reg |-> reg, shared |-> TRUE] ELSE NoReg]
             /\ run = [b \in Apps |-> IF b \in up
                             THEN [from |-> Launched(reg), iso |-> Isolated, known |-> TRUE]
                             ELSE NoRun]
    BY DEF Init
  <2>2. run[a].iso = Isolated
    BY <1>1, <2>1 DEF Running
  <2> QED
    BY <1>1, <2>2 DEF Isolated
<1> QED
  BY <1>1 DEF Init, ModeInv, Covered

\* Every step keeps to the chosen mode.
LEMMA NextModeInv == RInv /\ RunInv /\ ModeInv /\ [Next]_vars => ModeInv'
<1> SUFFICES ASSUME RInv, RunInv, ModeInv, [Next]_vars PROVE ModeInv'
  OBVIOUS
<1>1. CASE UNCHANGED vars
  BY <1>1 DEF ModeInv, AllClean, Moded, Covered, Restarts, Isolated, Running, vars, files, args,
              local, past
<1>2. ASSUME NEW i \in Invs, Step(i) PROVE ModeInv'
  BY <1>2, PlainMode, StartModes, ChooseMode, NextMode, ComeAndGoMode DEF Step
<1> QED
  BY <1>1, <1>2, ComeAndGoMode, ExitMode DEF Next

\* Once the account has chosen, and nothing overlapped, was killed or failed, every app
\* of it that runs is in the chosen mode (switch_isolation).
THEOREM SwitchTheorem == Spec => []SwitchCoversAccount
<1>1. RInv /\ ModeInv => SwitchCoversAccount
  <2> SUFFICES ASSUME RInv, ModeInv, flag # "absent", \A a \in Apps : Settled(a),
                      NEW a \in Apps, Running(a), run[a].iso # flag
               PROVE  FALSE
    BY DEF SwitchCoversAccount
  <2>1. AllClean
    BY DEF AllClean, Settled
  <2>2. PICK i \in Invs : Restarts(i, a)
    BY <2>1 DEF ModeInv, Covered
  <2>3. i \in InFlight /\ a \in Concern(cmd[i], app[i])
    BY <2>2 DEF Restarts, Restarting, InFlight, Concern
  <2> QED
    BY <2>3 DEF Settled
<1> QED
  BY <1>1, InitRInv, NextRInv, InitRunInv, NextRunInv, InitModeInv, NextModeInv, PTL DEF Spec
=============================================================================
