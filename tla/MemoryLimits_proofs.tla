------------------------ MODULE MemoryLimits_proofs ------------------------
(***************************************************************************)
(* What app_limits promises for every pool, number of apps and pin, and    *)
(* what is therefore true of every scope at every time; then, for commands *)
(* that do not overlap, that a ceiling is in force when its command has    *)
(* answered, and that the live apps are never guaranteed more than there   *)
(* is, not even when an app appears.                                       *)
(***************************************************************************)
EXTENDS MemoryLimits, FiniteSetTheorems, WellFoundedInduction, TLAPS

LEMMA ElasticFits ==
  ASSUME NEW pool \in Nat
  PROVE  Elastic(pool) \in Nat /\ Elastic(pool) <= pool
  BY DEF Elastic

LEMMA SmallestFits ==
  ASSUME NEW pool \in Nat
  PROVE  Smallest(pool) \in Nat /\ Smallest(pool) <= pool /\ Smallest(pool) <= FLOOR
  BY NumbersAssumption DEF Smallest, Least

\* An equal share, taken by everybody, is no more than there is.
LEMMA SharesFit ==
  ASSUME NEW pool \in Nat, NEW n \in Nat, n > 0
  PROVE  pool \div n \in Nat /\ n * (pool \div n) <= pool
  OBVIOUS

LEMMA LeastSharesFit ==
  ASSUME NEW pool \in Nat, NEW n \in Nat, n > 0, NEW floor \in Nat, n * floor <= pool
  PROVE  floor <= pool \div n
  OBVIOUS

LEMMA GuaranteeFits ==
  ASSUME NEW pool \in Nat, NEW n \in Nat
  PROVE  Guarantee(pool, n) \in Nat /\ Guarantee(pool, n) <= pool
  <1>1. pool \div Greatest(n, 1) \in Nat
    BY SharesFit DEF Greatest
  <1> QED BY <1>1, ElasticFits, SmallestFits DEF Guarantee, Clamp, Greatest

\* The limits of an app: its guarantee, its throttle point and its ceiling are
\* in this order, within the pool and within the pin (app_limits).
THEOREM LimitsInOrder ==
  ASSUME NEW pool \in Nat, NEW n \in Nat, NEW p \in Nat \cup {NoLimit}
  PROVE  LET l == Limits(pool, n, p)
         IN  /\ l \in AppLimits
             /\ l.min <= l.high /\ l.high <= l.max /\ l.max <= pool
             /\ p # NoLimit => l.max <= p
  <1> DEFINE top == Ceiling(pool, n)
             max == IF p = NoLimit THEN top ELSE Least(top, p)
             min == Least(Guarantee(pool, n), max)
  <1>1. Guarantee(pool, n) \in Nat /\ Guarantee(pool, n) <= pool
    BY GuaranteeFits
  <1>2. top \in Nat /\ top <= pool
    BY <1>1, ElasticFits DEF Ceiling, Greatest
  <1>3. max \in Nat /\ max <= pool /\ (p # NoLimit => max <= p)
    BY <1>2, NullsAssumption DEF Least
  <1>4. min \in Nat /\ min <= max
    BY <1>1, <1>3 DEF Least
  <1> HIDE DEF max, min
  <1>5. HighOf(min, max) \in Nat /\ min <= HighOf(min, max) /\ HighOf(min, max) <= max
    BY <1>3, <1>4, NumbersAssumption DEF HighOf, Greatest
  <1>6. Limits(pool, n, p) = [min |-> min, high |-> HighOf(min, max), max |-> max]
    BY DEF Limits, min, max
  <1> QED BY <1>3, <1>4, <1>5, <1>6 DEF AppLimits

\* "Guarantee the fair share" (app_limits): when the pool holds the smallest
\* share of n apps, what n apps are guaranteed fits the pool, whatever is pinned.
THEOREM GuaranteesFitThePool ==
  ASSUME NEW pool \in Nat, NEW n \in Nat, n > 0, n * FLOOR <= pool,
         NEW p \in Nat \cup {NoLimit}
  PROVE  n * Limits(pool, n, p).min <= pool
  <1>1. n * (pool \div n) <= pool /\ pool \div n \in Nat
    BY SharesFit
  <1>2. FLOOR <= pool \div n
    BY LeastSharesFit, NumbersAssumption
  <1>3. Guarantee(pool, n) <= pool \div n /\ Guarantee(pool, n) \in Nat
    <2>1. Greatest(n, 1) = n
      BY DEF Greatest
    <2>2. Smallest(pool) <= pool \div n /\ Smallest(pool) \in Nat
      BY <1>1, <1>2, SmallestFits, NumbersAssumption
    <2> QED BY <1>1, <2>1, <2>2, GuaranteeFits, ElasticFits DEF Guarantee, Clamp, Greatest
  <1>4. Limits(pool, n, p).min \in Nat /\ Limits(pool, n, p).min <= Guarantee(pool, n)
    <2>1. Limits(pool, n, p).min \in Nat
      BY LimitsInOrder DEF AppLimits
    <2>2. Ceiling(pool, n) \in Nat
      BY <1>3, ElasticFits DEF Ceiling, Greatest
    <2> QED BY <1>3, <2>1, <2>2, NullsAssumption DEF Limits, Least
  <1>5. Limits(pool, n, p).min <= pool \div n
    BY <1>1, <1>3, <1>4
  <1>6. n * Limits(pool, n, p).min <= n * (pool \div n)
    BY <1>1, <1>4, <1>5
  <1> HIDE DEF Limits
  <1>7. n * Limits(pool, n, p).min \in Nat /\ n * (pool \div n) \in Nat
    BY <1>1, <1>4
  <1> QED BY <1>1, <1>6, <1>7

-----------------------------------------------------------------------------
(* From the operators to the scopes *)

\* Limits that may be in force, resolved, or on their way to systemd.
Ordered == {l \in AppLimits : l.min <= l.high /\ l.high <= l.max} \cup {NoLimits}

PinOrNone == Pins \cup {NoLimit}

LEMMA PinAloneInOrder ==
  ASSUME NEW cap \in Pins
  PROVE  PinAlone(cap) \in Ordered
  <1>1. cap \in Nat /\ cap # 0
    BY NumbersAssumption
  <1> QED BY <1>1, NumbersAssumption DEF PinAlone, Greatest, Ordered, AppLimits

LEMMA ResolvedInOrder ==
  ASSUME TypeOK, NEW a \in Apps, NEW p \in PinOrNone, NEW S, NEW T
  PROVE  AppLimitsFor(a, p, S, T) \in Ordered
  <1>1. Cardinality(Sharing(a, S, T)) \in Nat
    <2>1. Sharing(a, S, T) \subseteq Apps
      BY DEF Sharing, TypeOK
    <2> QED BY <2>1, AppsAssumption, FS_Subset, FS_CardinalityType
  <1>2. CASE account = NoLimit
    BY <1>2, PinAloneInOrder DEF AppLimitsFor, Ordered, PinOrNone
  <1>3. CASE account # NoLimit
    <2>1. account \in Nat
      BY <1>3, NumbersAssumption DEF TypeOK
    <2>2. p \in Nat \cup {NoLimit}
      BY NumbersAssumption DEF PinOrNone
    <2>3. Limits(account, Cardinality(Sharing(a, S, T)), p) \in Ordered
      BY <1>1, <2>1, <2>2, LimitsInOrder DEF Ordered
    <2> QED BY <1>3, <2>3 DEF AppLimitsFor
  <1> QED BY <1>2, <1>3

\* Steps at which an invocation is about an app.
AboutAnApp == {"pin", "kill", "load", "spawn", "recap", "wait", "unregister", "down", "register"}

Aimed ==
    \A i \in Invs : /\ cmd[i] \notin {"sync", "stats"} => app[i] \in Apps
                    /\ pc[i] \in AboutAnApp => cmd[i] \notin {"sync", "stats"}

AllOrdered ==
    /\ \A a \in Apps : lim[a] \in Ordered
    /\ \A i \in Invs : val[i] \in Ordered
    /\ \A l \in launches : l.lim \in Ordered

IInv == TypeOK /\ Aimed /\ AllOrdered

LEMMA OrderedType == Ordered \subseteq LimitsOrNone
  BY DEF Ordered, LimitsOrNone

LEMMA InitIInv == Init => IInv
  <1> SUFFICES ASSUME Init PROVE IInv
    OBVIOUS
  <1>1. account \in Allowances \cup {NoLimit} /\ reg \subseteq Apps /\ pin \in [Apps -> PinOrNone]
    BY DEF Init, PinOrNone
  <1>2. PICK up \in SUBSET Apps :
             /\ scope = [a \in Apps |-> IF a \in up THEN "live" ELSE "none"]
             /\ lim = [a \in Apps |-> IF a \in up THEN Resolved(a) ELSE NoLimits]
             /\ slice = IF up = {} THEN NoSlice ELSE account
    BY Zenon DEF Init
  <1>3. \A a \in Apps : Resolved(a) \in Ordered
    <2>1. TAKE a \in Apps
    <2>2. Cardinality(Sharing(a, {}, {})) \in Nat
      <3>1. Sharing(a, {}, {}) \subseteq Apps
        BY <1>1 DEF Sharing
      <3> QED BY <3>1, AppsAssumption, FS_Subset, FS_CardinalityType
    <2>3. pin[a] = NoLimit
      BY DEF Init
    <2>4. CASE account = NoLimit
      BY <2>3, <2>4 DEF Resolved, AppLimitsFor, Ordered
    <2>5. CASE account # NoLimit
      <3>1. account \in Nat
        BY <1>1, <2>5, NumbersAssumption
      <3>2. Limits(account, Cardinality(Sharing(a, {}, {})), NoLimit) \in Ordered
        BY <2>2, <3>1, LimitsInOrder DEF Ordered
      <3> QED BY <2>3, <2>5, <3>2 DEF Resolved, AppLimitsFor
    <2> QED BY <2>4, <2>5
  <1>4. /\ lim \in [Apps -> LimitsOrNone] /\ \A a \in Apps : lim[a] \in Ordered
        /\ \A a \in Apps : scope[a] = "none" => lim[a] = NoLimits
    BY <1>2, <1>3, OrderedType DEF Ordered
  <1>5. scope \in [Apps -> {"none", "live", "empty"}]
    BY <1>2
  <1>6. slice \in Allowances \cup {NoLimit, NoSlice}
    BY <1>1, <1>2
  <1>7. alone \in BOOLEAN /\ mixed \in BOOLEAN
    BY Zenon DEF Init
  <1>8. changes \in 0..MaxChanges
    BY BoundsAssumption DEF Init
  <1>9. TypeOK
    BY <1>1, <1>4, <1>5, <1>6, <1>7, <1>8
    DEF Init, TypeOK, Steps, CommandNames, LimitsOrNone, PinOrNone
  <1>10. Aimed
    BY DEF Init, Aimed, AboutAnApp
  <1>11. AllOrdered
    BY <1>4 DEF Init, AllOrdered, Ordered
  <1> QED BY <1>9, <1>10, <1>11 DEF IInv

-----------------------------------------------------------------------------
(* Every step preserves the invariant *)

LEMMA FinishTypes ==
  ASSUME TypeOK, NEW i \in Invs, Finish(i)
  PROVE  /\ pc' \in [Invs -> Steps] /\ cmd' \in [Invs -> CommandNames]
         /\ app' \in [Invs -> Apps \cup {NoApp}]
         /\ da' \in [Invs -> Allowances \cup {NoLimit}]
         /\ own' \in [Invs -> Pins \cup {NoLimit}]
         /\ mixed' \in BOOLEAN /\ changes' \in 0..MaxChanges /\ alone' \in BOOLEAN
  BY DEF TypeOK, Finish, Leave, Goto, Steps, CommandNames

\* A pin is written; nothing is resolved yet.
LEMMA WritePinIInv ==
  ASSUME IInv, NEW i \in Invs, WritePin(i)
  PROVE  IInv'
  <1>1. TypeOK'
    BY DEF IInv, TypeOK, WritePin, Goto, Steps, host, conf, loop, args, past
  <1>2. Aimed'
    BY DEF IInv, TypeOK, Aimed, AboutAnApp, WritePin, Goto, At, host, conf, loop, args, past
  <1>3. AllOrdered'
    BY DEF IInv, TypeOK, AllOrdered, WritePin, Goto, At, host, conf, loop, args, past
  <1> QED BY <1>1, <1>2, <1>3 DEF IInv

\* The slice is capped, and the command goes on or ends.
LEMMA CapSliceIInv ==
  ASSUME IInv, NEW i \in Invs, CapSlice(i)
  PROVE  IInv'
  <1>1. TypeOK'
    BY DEF IInv, TypeOK, CapSlice, SetCap, EnterLoop, Goto, Finish, Leave, CommandNames, Steps,
           host, conf, loop, args, past
  <1>2. Aimed'
    BY DEF IInv, TypeOK, Aimed, AboutAnApp, CapSlice, SetCap, EnterLoop, Goto, Finish, Leave,
           CommandNames, At, host, conf, loop, args, past
  <1>3. AllOrdered'
    BY DEF IInv, TypeOK, AllOrdered, CapSlice, SetCap, EnterLoop, Goto, Finish, Leave,
           CommandNames, At, host, conf, loop, args, past
  <1> QED BY <1>1, <1>2, <1>3 DEF IInv

\* A start reads its registration.
LEMMA LoadIInv ==
  ASSUME IInv, NEW i \in Invs, Load(i)
  PROVE  IInv'
  <1>1. TypeOK'
    <2>1. CASE app[i] \in reg
      BY <2>1 DEF IInv, TypeOK, Load, EnterLoop, Goto, Steps, host, conf, past
    <2>2. CASE app[i] \notin reg
      BY <2>2, FinishTypes DEF IInv, TypeOK, Load, host, conf
    <2> QED BY <2>1, <2>2
  <1>2. Aimed'
    BY DEF IInv, TypeOK, Aimed, AboutAnApp, Load, EnterLoop, Goto, Finish, Leave, CommandNames, At,
           host, conf, loop, args, past
  <1>3. AllOrdered'
    BY DEF IInv, TypeOK, AllOrdered, Load, EnterLoop, Goto, Finish, Leave, CommandNames, At, host,
           conf, loop, args, past
  <1> QED BY <1>1, <1>2, <1>3 DEF IInv

\* The limits of one sibling are resolved ...
LEMMA ResolveIInv ==
  ASSUME IInv, NEW i \in Invs, Resolve(i)
  PROVE  IInv'
  <1>0. \A a \in Apps : AppLimitsFor(a, pin[a], Pending(i), Leaving(i)) \in Ordered
    BY ResolvedInOrder DEF IInv, TypeOK, PinOrNone
  <1>1. TypeOK'
    BY <1>0, OrderedType DEF IInv, TypeOK, Resolve, Steps, host, conf, loop, args, past
  <1>2. Aimed'
    BY DEF IInv, TypeOK, Aimed, AboutAnApp, Resolve, At, host, conf, loop, args, past
  <1>3. AllOrdered'
    BY <1>0 DEF IInv, TypeOK, AllOrdered, Resolve, At, host, conf, loop, args, past
  <1> QED BY <1>1, <1>2, <1>3 DEF IInv

\* ... and set.
LEMMA ApplyIInv ==
  ASSUME IInv, NEW i \in Invs, Apply(i)
  PROVE  IInv'
  <1>0. NoLimits \in Ordered
    BY DEF Ordered
  <1>1. TypeOK'
    BY <1>0, OrderedType
    DEF IInv, TypeOK, Apply, ScopeIsLive, Steps, host, conf, loop, args, past
  <1>2. Aimed'
    BY DEF IInv, TypeOK, Aimed, AboutAnApp, Apply, ScopeIsLive, At, host, conf, loop, args, past
  <1>3. AllOrdered'
    BY <1>0 DEF IInv, TypeOK, AllOrdered, Apply, ScopeIsLive, At, host, conf, loop, args, past
  <1> QED BY <1>1, <1>2, <1>3 DEF IInv

\* The loop is over.
LEMMA AfterLoopIInv ==
  ASSUME IInv, NEW i \in Invs, AfterLoop(i)
  PROVE  IInv'
  <1>1. TypeOK'
    BY DEF IInv, TypeOK, AfterLoop, Goto, Finish, Leave, CommandNames, Steps, host, conf, loop,
           args, past
  <1>2. Aimed'
    BY DEF IInv, TypeOK, Aimed, AboutAnApp, AfterLoop, Goto, Finish, Leave, CommandNames, At, host,
           conf, loop, args, past
  <1>3. AllOrdered'
    BY DEF IInv, TypeOK, AllOrdered, AfterLoop, Goto, Finish, Leave, CommandNames, At, host, conf,
           loop, args, past
  <1> QED BY <1>1, <1>2, <1>3 DEF IInv

\* systemd-run is called with limits of the app's own.
LEMMA SpawnIInv ==
  ASSUME IInv, NEW i \in Invs, Spawn(i)
  PROVE  IInv'
  <1>0. At(i, "spawn") => app[i] \in Apps /\ AppLimitsFor(app[i], own[i], {}, {}) \in Ordered
    BY ResolvedInOrder DEF IInv, TypeOK, PinOrNone, Aimed, AboutAnApp, At
  <1>1. TypeOK'
    <2>1. launches' \subseteq [app : Apps, lim : LimitsOrNone]
      BY <1>0, OrderedType DEF IInv, TypeOK, Spawn
    <2>2. CASE Finish(i)
      BY <2>1, <2>2, FinishTypes DEF IInv, TypeOK, Spawn, conf, loop
    <2>3. CASE Goto(i, "recap") /\ UNCHANGED <<args, past>>
      BY <2>1, <2>3 DEF IInv, TypeOK, Spawn, Goto, Steps, conf, loop, args, past
    <2> QED BY <2>2, <2>3 DEF Spawn
  <1>2. Aimed'
    BY DEF IInv, TypeOK, Aimed, AboutAnApp, Spawn, Goto, Finish, Leave, CommandNames, At, host,
           conf, loop, args, past
  <1>3. AllOrdered'
    BY <1>0
    DEF IInv, TypeOK, AllOrdered, Spawn, Goto, Finish, Leave, CommandNames, At, host, conf,
        loop, args, past
  <1> QED BY <1>1, <1>2, <1>3 DEF IInv

\* The slice is capped again.
LEMMA RecapIInv ==
  ASSUME IInv, NEW i \in Invs, Recap(i)
  PROVE  IInv'
  <1>1. TypeOK'
    BY DEF IInv, TypeOK, Recap, SetCap, Goto, Steps, host, conf, loop, args, past
  <1>2. Aimed'
    BY DEF IInv, TypeOK, Aimed, AboutAnApp, Recap, SetCap, Goto, At, host, conf, loop, args, past
  <1>3. AllOrdered'
    BY DEF IInv, TypeOK, AllOrdered, Recap, SetCap, Goto, At, host, conf, loop, args, past
  <1> QED BY <1>1, <1>2, <1>3 DEF IInv

\* The app is killed, by restart ...
LEMMA StopTreeIInv ==
  ASSUME IInv, NEW i \in Invs, StopTree(i)
  PROVE  IInv'
  <1>1. TypeOK'
    BY DEF IInv, TypeOK, StopTree, Kill, Goto, Steps, host, conf, loop, args, past
  <1>2. Aimed'
    BY DEF IInv, TypeOK, Aimed, AboutAnApp, StopTree, Kill, Goto, At, host, conf, loop, args, past
  <1>3. AllOrdered'
    BY DEF IInv, TypeOK, AllOrdered, StopTree, Kill, Goto, At, host, conf, loop, args, past
  <1> QED BY <1>1, <1>2, <1>3 DEF IInv

\* A start has its answer ...
LEMMA StartedIInv ==
  ASSUME IInv, NEW i \in Invs, Started(i)
  PROVE  IInv'
  <1>1. TypeOK'
    BY DEF IInv, TypeOK, Started, Goto, Finish, Leave, CommandNames, Steps, host, conf, loop, args,
           past
  <1>2. Aimed'
    BY DEF IInv, TypeOK, Aimed, AboutAnApp, Started, Goto, Finish, Leave, CommandNames, At, host,
           conf, loop, args, past
  <1>3. AllOrdered'
    BY DEF IInv, TypeOK, AllOrdered, Started, Goto, Finish, Leave, CommandNames, At, host, conf,
           loop, args, past
  <1> QED BY <1>1, <1>2, <1>3 DEF IInv

\* ... or gives up.
LEMMA GiveUpIInv ==
  ASSUME IInv, NEW i \in Invs, GiveUp(i)
  PROVE  IInv'
  <1>1. TypeOK'
    BY DEF IInv, TypeOK, GiveUp, Kill, Goto, Leave, CommandNames, Steps, host, conf, loop, args,
           past
  <1>2. Aimed'
    BY DEF IInv, TypeOK, Aimed, AboutAnApp, GiveUp, Kill, Goto, Leave, CommandNames, At, host,
           conf, loop, args, past
  <1>3. AllOrdered'
    BY DEF IInv, TypeOK, AllOrdered, GiveUp, Kill, Goto, Leave, CommandNames, At, host, conf, loop,
           args, past
  <1> QED BY <1>1, <1>2, <1>3 DEF IInv

\* A registration goes ...
LEMMA UnregisterIInv ==
  ASSUME IInv, NEW i \in Invs, Unregister(i)
  PROVE  IInv'
  <1>1. TypeOK'
    BY DEF IInv, TypeOK, Unregister, Goto, Finish, Leave, CommandNames, Steps, host, conf, loop,
           args, past
  <1>2. Aimed'
    BY DEF IInv, TypeOK, Aimed, AboutAnApp, Unregister, Goto, Finish, Leave, CommandNames, At,
           host, conf, loop, args, past
  <1>3. AllOrdered'
    BY DEF IInv, TypeOK, AllOrdered, Unregister, Goto, Finish, Leave, CommandNames, At, host, conf,
           loop, args, past
  <1> QED BY <1>1, <1>2, <1>3 DEF IInv

\* ... the app is killed, by stop or remove ...
LEMMA DownIInv ==
  ASSUME IInv, NEW i \in Invs, Down(i)
  PROVE  IInv'
  <1>1. TypeOK'
    BY DEF IInv, TypeOK, Down, Kill, Goto, Leave, CommandNames, Steps, host, conf, loop, args, past
  <1>2. Aimed'
    BY DEF IInv, TypeOK, Aimed, AboutAnApp, Down, Kill, Goto, Leave, CommandNames, At, host, conf,
           loop, args, past
  <1>3. AllOrdered'
    BY DEF IInv, TypeOK, AllOrdered, Down, Kill, Goto, Leave, CommandNames, At, host, conf, loop,
           args, past
  <1> QED BY <1>1, <1>2, <1>3 DEF IInv

\* ... and another is made.
LEMMA AddIInv ==
  ASSUME IInv, NEW i \in Invs, Add(i)
  PROVE  IInv'
  <1>1. TypeOK'
    <2>1. app[i] \in Apps
      BY DEF IInv, Aimed, AboutAnApp, Add, At
    <2>2. reg' \subseteq Apps /\ pin' \in [Apps -> Pins \cup {NoLimit}]
      BY <2>1 DEF IInv, TypeOK, Add
    <2> QED BY <2>2, FinishTypes DEF IInv, TypeOK, Add, host, loop
  <1>2. Aimed'
    BY DEF IInv, TypeOK, Aimed, AboutAnApp, Add, Goto, Finish, Leave, CommandNames, At, host, conf,
           loop, args, past
  <1>3. AllOrdered'
    BY DEF IInv, TypeOK, AllOrdered, Add, Goto, Finish, Leave, CommandNames, At, host, conf, loop,
           args, past
  <1> QED BY <1>1, <1>2, <1>3 DEF IInv

\* A command begins.
LEMMA BeginIInv ==
  ASSUME IInv, NEW i \in Invs, NEW c \in Commands, NEW a \in Apps,
         Begin(i, c, a)
  PROVE  IInv'
  <1>0. c \in CommandNames
    BY BoundsAssumption
  <1>1. TypeOK'
    BY <1>0, BoundsAssumption
    DEF IInv, TypeOK, Begin, Goto, Change, FirstStep, CommandNames, Steps, host, conf, loop,
        args, past
  <1>2. Aimed'
    BY <1>0
    DEF IInv, TypeOK, Aimed, AboutAnApp, Begin, Goto, Change, FirstStep, At, host, conf, loop,
        args, past
  <1>3. AllOrdered'
    BY DEF IInv, TypeOK, AllOrdered, Begin, Goto, Change, FirstStep, At, host, conf, loop, args,
           past
  <1> QED BY <1>1, <1>2, <1>3 DEF IInv

\* A command is killed.
LEMMA CutShortIInv ==
  ASSUME IInv, NEW i \in Invs, CutShort(i)
  PROVE  IInv'
  <1>0. NoLimits \in Ordered
    BY DEF Ordered
  <1>1. TypeOK'
    <2>1. alone' \in BOOLEAN /\ mixed' \in BOOLEAN
      BY Zenon DEF CutShort
    <2>2. changes' \in 0..MaxChanges
      BY BoundsAssumption DEF IInv, TypeOK, CutShort, Change
    <2>3. /\ pc' \in [Invs -> Steps] /\ cmd' \in [Invs -> CommandNames]
          /\ app' \in [Invs -> Apps \cup {NoApp}]
          /\ da' \in [Invs -> Allowances \cup {NoLimit}]
          /\ own' \in [Invs -> Pins \cup {NoLimit}]
      BY DEF IInv, TypeOK, CutShort, Leave, Goto, Steps, CommandNames
    <2>4. /\ todo' \in [Invs -> SUBSET Apps] /\ aim' \in [Invs -> Apps \cup {NoApp}]
          /\ val' \in [Invs -> LimitsOrNone]
      BY <1>0, OrderedType DEF IInv, TypeOK, CutShort
    <2> QED BY <2>1, <2>2, <2>3, <2>4 DEF IInv, TypeOK, CutShort, host, conf
  <1>2. Aimed'
    BY DEF IInv, TypeOK, Aimed, AboutAnApp, CutShort, Goto, Change, Leave, CommandNames, At, host,
           conf, loop, args, past
  <1>3. AllOrdered'
    BY <1>0
    DEF IInv, TypeOK, AllOrdered, CutShort, Goto, Change, Leave, CommandNames, At, host, conf,
        loop, args, past
  <1> QED BY <1>1, <1>2, <1>3 DEF IInv

\* systemd answers: the limits of the call are those of the scope.
LEMMA RegisterIInv ==
  ASSUME IInv, Register
  PROVE  IInv'
  <1>1. TypeOK'
    BY DEF IInv, TypeOK, Register, Steps, host, conf, loop, args, past
  <1>2. Aimed'
    BY DEF IInv, TypeOK, Aimed, AboutAnApp, Register, At, host, conf, loop, args, past
  <1>3. AllOrdered'
    BY DEF IInv, TypeOK, AllOrdered, Register, At, host, conf, loop, args, past
  <1> QED BY <1>1, <1>2, <1>3 DEF IInv

\* An app exits ...
LEMMA ExitIInv ==
  ASSUME IInv, NEW a \in Apps, Exit(a)
  PROVE  IInv'
  <1>1. TypeOK'
    BY BoundsAssumption DEF IInv, TypeOK, Exit, Change, Steps, host, conf, loop, args, past
  <1>2. Aimed'
    BY DEF IInv, TypeOK, Aimed, AboutAnApp, Exit, Change, At, host, conf, loop, args, past
  <1>3. AllOrdered'
    BY DEF IInv, TypeOK, AllOrdered, Exit, Change, At, host, conf, loop, args, past
  <1> QED BY <1>1, <1>2, <1>3 DEF IInv

\* ... and its scope is unloaded ...
LEMMA CollectUnitIInv ==
  ASSUME IInv, NEW a \in Apps, CollectUnit(a)
  PROVE  IInv'
  <1>0. NoLimits \in Ordered
    BY DEF Ordered
  <1>1. TypeOK'
    BY <1>0, OrderedType DEF IInv, TypeOK, CollectUnit, Steps, host, conf, loop, args, past
  <1>2. Aimed'
    BY DEF IInv, TypeOK, Aimed, AboutAnApp, CollectUnit, At, host, conf, loop, args, past
  <1>3. AllOrdered'
    BY <1>0 DEF IInv, TypeOK, AllOrdered, CollectUnit, At, host, conf, loop, args, past
  <1> QED BY <1>1, <1>2, <1>3 DEF IInv

\* ... and the slice.
LEMMA CollectSliceIInv ==
  ASSUME IInv, CollectSlice
  PROVE  IInv'
  <1>1. TypeOK'
    BY DEF IInv, TypeOK, CollectSlice, Steps, host, conf, loop, args, past
  <1>2. Aimed'
    BY DEF IInv, TypeOK, Aimed, AboutAnApp, CollectSlice, At, host, conf, loop, args, past
  <1>3. AllOrdered'
    BY DEF IInv, TypeOK, AllOrdered, CollectSlice, At, host, conf, loop, args, past
  <1> QED BY <1>1, <1>2, <1>3 DEF IInv

\* The administrator changes the allowance.
LEMMA ChangeAllowanceIInv ==
  ASSUME IInv, ChangeAllowance
  PROVE  IInv'
  <1>1. TypeOK'
    <2>1. alone' \in BOOLEAN /\ mixed' \in BOOLEAN
      BY Zenon DEF ChangeAllowance
    <2>2. changes' \in 0..MaxChanges
      BY BoundsAssumption DEF IInv, TypeOK, ChangeAllowance, Change
    <2> QED BY <2>1, <2>2 DEF IInv, TypeOK, ChangeAllowance, host, loop, args
  <1>2. Aimed'
    BY DEF IInv, TypeOK, Aimed, AboutAnApp, ChangeAllowance, Change, At, host, conf, loop, args,
           past
  <1>3. AllOrdered'
    BY DEF IInv, TypeOK, AllOrdered, ChangeAllowance, Change, At, host, conf, loop, args, past
  <1> QED BY <1>1, <1>2, <1>3 DEF IInv

LEMMA StepIInv == IInv /\ [Next]_vars => IInv'
  <1> SUFFICES ASSUME IInv, [Next]_vars PROVE IInv'
    OBVIOUS
  <1>1. CASE UNCHANGED vars
    BY <1>1 DEF IInv, TypeOK, Aimed, AllOrdered, vars, host, conf, loop, args, past
  <1>2. ASSUME NEW i \in Invs, Step(i) PROVE IInv'
    BY <1>2, WritePinIInv, CapSliceIInv, LoadIInv, ResolveIInv, ApplyIInv, AfterLoopIInv,
       SpawnIInv, RecapIInv, StopTreeIInv, StartedIInv, GiveUpIInv, UnregisterIInv, DownIInv,
       AddIInv DEF Step
  <1>3. CASE Next
    BY <1>2, <1>3, BeginIInv, CutShortIInv, ExitIInv, CollectUnitIInv, RegisterIInv,
       CollectSliceIInv, ChangeAllowanceIInv DEF Next
  <1> QED BY <1>1, <1>3

LEMMA InductiveInvariant == Spec => []IInv
  BY InitIInv, StepIInv, PTL DEF Spec

\* Every reachable state is well typed: no scope keeps limits when it is gone.
THEOREM TypeCorrect == Spec => []TypeOK
  <1>1. IInv => TypeOK
    BY DEF IInv
  <1> QED BY <1>1, InductiveInvariant, PTL

\* Whichever commands overlap and wherever they are killed, the limits in force
\* on a scope are in order: throttling begins between guarantee and ceiling.
THEOREM OrderedLimits == Spec => []LimitsAreOrdered
  <1>1. IInv => LimitsAreOrdered
    BY DEF IInv, AllOrdered, Ordered, LimitsAreOrdered
  <1> QED BY <1>1, InductiveInvariant, PTL

-----------------------------------------------------------------------------
(* Ceilings *)

\* The ceiling an account and a pin give an app, whoever shares the account.
Top(p) ==
    IF account = NoLimit THEN p
    ELSE LET top == Greatest(Elastic(account), Smallest(account))
         IN  IF p = NoLimit THEN top ELSE Least(top, p)

Fits(a) == CeilingOf(lim[a]) = Top(pin[a])

\* Which command comes to which step, and only a loop has apps to look at.
Placed(i) ==
    /\ pc[i] = "pin" => cmd[i] = "set-memory-max"
    /\ pc[i] = "cap" => cmd[i] # "add"
    /\ pc[i] = "kill" => cmd[i] = "restart"
    /\ pc[i] \in {"load", "spawn", "recap", "wait"} => cmd[i] \in {"start", "restart"}
    /\ pc[i] = "unregister" => cmd[i] = "remove"
    /\ pc[i] = "down" => cmd[i] \in {"stop", "remove"}
    /\ pc[i] = "register" => cmd[i] = "add"
    /\ pc[i] = "reapply" => cmd[i] \notin {"add", "stats"}
    /\ pc[i] # "reapply" => todo[i] = {} /\ aim[i] = NoApp

\* No command has overlapped another since all was right, or since this one began.
Calm == ~mixed \/ alone

\* The pin a start has read is the pin, and its app is registered.
Reads(i) ==
    /\ cmd[i] \in {"start", "restart"} /\ pc[i] \in {"reapply", "spawn"} =>
          own[i] = pin[app[i]] /\ app[i] \in reg
    /\ pc[i] \in {"recap", "wait"} => app[i] \in reg

\* What a loop has resolved is what its app is to have.
Resolves(i) == aim[i] # NoApp => CeilingOf(val[i]) = Top(pin[aim[i]])

\* A launch is that of the start in flight, with the ceiling of its app.
Launches(i, l) ==
    pc[i] \in {"recap", "wait"} /\ app[i] = l.app /\ CeilingOf(l.lim) = Top(pin[l.app])

CalmInv ==
    Calm =>
        /\ \A i, j \in Invs : pc[i] # "idle" /\ pc[j] # "idle" => i = j
        /\ \A l \in launches : \E i \in Invs : Launches(i, l)
        /\ \A i \in Invs : Reads(i) /\ Resolves(i)

\* A loop has still to come to app a.
Awaits(i, a) == pc[i] = "cap" \/ (pc[i] = "reapply" /\ (a \in todo[i] \/ aim[i] = a))

\* A sweep that nothing disturbs leaves every app behind it with its ceiling.
Sweeps(i) ==
    alone /\ cmd[i] = "sync" /\ pc[i] # "idle" =>
        \A a \in LiveApps \cap reg : Awaits(i, a) \/ Fits(a)

\* The command in flight is about to give app a its new pin, or to end it.
Due(i, a) ==
    /\ app[i] = a
    /\ \/ cmd[i] = "set-memory-max" /\ a \in reg /\ Awaits(i, a)
       \/ cmd[i] = "remove" /\ a \notin reg /\ pc[i] = "down"

CeilingInv ==
    ~mixed => \A a \in LiveApps : (a \in reg /\ Fits(a)) \/ \E i \in Invs : Due(i, a)

LInv == (\A i \in Invs : Placed(i) /\ Sweeps(i)) /\ CalmInv /\ CeilingInv

\* The ceiling does not depend on how many share the account.
LEMMA CeilingIsAlike ==
  ASSUME NEW pool \in Nat, NEW n \in Nat
  PROVE  Ceiling(pool, n) = Greatest(Elastic(pool), Smallest(pool))
  <1>1. pool \div Greatest(n, 1) \in Nat
    BY SharesFit DEF Greatest
  <1> QED BY <1>1, ElasticFits, SmallestFits DEF Ceiling, Guarantee, Clamp, Greatest

LEMMA ResolvedCeiling ==
  ASSUME TypeOK, NEW a \in Apps, NEW p \in PinOrNone, NEW S, NEW T
  PROVE  CeilingOf(AppLimitsFor(a, p, S, T)) = Top(p)
  <1>1. Cardinality(Sharing(a, S, T)) \in Nat
    <2>1. Sharing(a, S, T) \subseteq Apps
      BY DEF Sharing, TypeOK
    <2> QED BY <2>1, AppsAssumption, FS_Subset, FS_CardinalityType
  <1>2. CASE account = NoLimit
    <2>1. CASE p = NoLimit
      BY <1>2, <2>1 DEF AppLimitsFor, CeilingOf, Top
    <2>2. CASE p # NoLimit
      <3>1. PinAlone(p) \in AppLimits /\ PinAlone(p).max = p
        BY <2>2, NumbersAssumption DEF PinAlone, PinOrNone, Greatest, AppLimits
      <3> QED BY <1>2, <2>2, <3>1, NullsAssumption DEF AppLimitsFor, CeilingOf, Top, AppLimits
    <2> QED BY <2>1, <2>2
  <1>3. CASE account # NoLimit
    <2>1. account \in Nat /\ p \in Nat \cup {NoLimit}
      BY <1>3, NumbersAssumption DEF TypeOK, PinOrNone
    <2> DEFINE n == Cardinality(Sharing(a, S, T))
    <2>2. Limits(account, n, p) \in AppLimits
      BY <1>1, <2>1, LimitsInOrder
    <2>3. Limits(account, n, p).max = Top(p)
      BY <1>1, <1>3, <2>1, CeilingIsAlike DEF Limits, Top
    <2> QED BY <1>3, <2>2, <2>3, NullsAssumption DEF AppLimitsFor, CeilingOf, AppLimits
  <1> QED BY <1>2, <1>3

-----------------------------------------------------------------------------
(* A command that nothing disturbs *)

\* What every step of a command leaves of the others.
Frame(i) ==
    /\ pc[i] # "idle" /\ alone' = alone /\ account' = account
    /\ \A j \in Invs \ {i} :
          /\ pc'[j] = pc[j] /\ cmd'[j] = cmd[j] /\ app'[j] = app[j] /\ own'[j] = own[j]
          /\ todo'[j] = todo[j] /\ aim'[j] = aim[j] /\ val'[j] = val[j]
    /\ ~mixed' => Calm

LEMMA StepFrame ==
  ASSUME IInv, NEW i \in Invs, Step(i)
  PROVE  Frame(i)
  <1> USE DEF IInv, TypeOK, Frame, At, Goto, Leave, Finish, Calm, host, conf, loop, args, past
  <1>1. CASE WritePin(i) \/ CapSlice(i) \/ Load(i)
    BY <1>1 DEF WritePin, CapSlice, Load, EnterLoop
  <1>2. CASE Resolve(i) \/ Apply(i) \/ AfterLoop(i)
    BY <1>2 DEF Resolve, Apply, AfterLoop
  <1>3. CASE Spawn(i) \/ Recap(i) \/ StopTree(i)
    BY <1>3 DEF Spawn, Recap, StopTree, Kill
  <1>4. CASE Started(i) \/ GiveUp(i) \/ Unregister(i)
    BY <1>4 DEF Started, GiveUp, Unregister, Kill
  <1>5. CASE Down(i) \/ Add(i)
    BY <1>5 DEF Down, Add, Kill
  <1> QED BY <1>1, <1>2, <1>3, <1>4, <1>5 DEF Step

\* What is known of the command that takes a step.
Known(i) ==
    /\ Placed(i) /\ Sweeps(i)
    /\ Calm => /\ \A l \in launches : Launches(i, l)
               /\ Reads(i) /\ Resolves(i)
    /\ ~mixed => \A a \in LiveApps : (a \in reg /\ Fits(a)) \/ Due(i, a)

LEMMA KnownNow ==
  ASSUME LInv, NEW i \in Invs, pc[i] # "idle"
  PROVE  Known(i)
  <1>1. ASSUME Calm, NEW l \in launches
        PROVE  Launches(i, l)
    <2>1. PICK j \in Invs : Launches(j, l)
      BY <1>1 DEF LInv, CalmInv
    <2>2. j = i
      BY <1>1, <2>1 DEF LInv, CalmInv, Launches
    <2> QED BY <2>1, <2>2
  <1>2. ASSUME ~mixed, NEW a \in LiveApps, ~(a \in reg /\ Fits(a))
        PROVE  Due(i, a)
    <2>1. PICK j \in Invs : Due(j, a)
      BY <1>2 DEF LInv, CeilingInv
    <2>2. j = i
      BY <1>2, <2>1 DEF LInv, CalmInv, Calm, Due, Awaits
    <2> QED BY <2>1, <2>2
  <1> QED BY <1>1, <1>2 DEF Known, LInv, CalmInv

\* A step answers for its own command only.
LEMMA OwnAffair ==
  ASSUME LInv, NEW i \in Invs, Frame(i), Known(i)'
  PROVE  LInv'
  <1>1. Calm' => Calm
    BY DEF Frame, Calm
  <1>2. ASSUME NEW j \in Invs \ {i}
        PROVE  Placed(j)' /\ (Calm => pc[j] = "idle" /\ pc'[j] = "idle")
    BY DEF LInv, CalmInv, Frame, Placed
  <1>3. ASSUME NEW j \in Invs \ {i}
        PROVE  Sweeps(j)'
    BY <1>2 DEF Sweeps, Frame, Calm
  <1>4. ASSUME Calm', NEW j \in Invs \ {i}
        PROVE  Reads(j)' /\ Resolves(j)'
    BY <1>1, <1>2, <1>4 DEF Reads, Resolves, Placed
  <1>5. CalmInv'
    <2> SUFFICES ASSUME Calm' PROVE CalmInv'
      BY DEF CalmInv
    <2>1. \A j, k \in Invs : pc'[j] # "idle" /\ pc'[k] # "idle" => j = k
      BY <1>1, <1>2
    <2>2. \A l \in launches' : \E j \in Invs : Launches(j, l)'
      BY DEF Known
    <2>3. \A j \in Invs : Reads(j)' /\ Resolves(j)'
      BY <1>4 DEF Known
    <2> QED BY <2>1, <2>2, <2>3 DEF CalmInv
  <1>6. CeilingInv'
    BY DEF Known, CeilingInv
  <1> QED BY <1>2, <1>3, <1>5, <1>6 DEF LInv, Known

\* The pins of the registrations, and those that were read.
LEMMA PinTypes ==
  ASSUME IInv
  PROVE  TypeOK /\ pin \in [Apps -> PinOrNone] /\ own \in [Invs -> PinOrNone]
  BY DEF IInv, TypeOK, PinOrNone

\* A pin is written: its app is due.
LEMMA WritePinKnown ==
  ASSUME IInv, NEW i \in Invs, Frame(i), Known(i), WritePin(i)
  PROVE  Known(i)'
  <1> USE DEF host, conf, loop, args, past, At, Goto, Leave, Finish, IInv, TypeOK, Known, Launches,
              Reads, Resolves, Due, Awaits, LiveApps, Fits, Calm, Top, Placed, Sweeps
  <1>1. /\ pc[i] = "pin" /\ pc'[i] = "cap" /\ cmd[i] = "set-memory-max"
        /\ UNCHANGED <<account, reg, scope, lim, launches, cmd, app, own, todo, aim, val, alone, mixed>>
    BY DEF WritePin
  <1>2. \A a \in Apps : a # app[i] => pin'[a] = pin[a]
    BY DEF WritePin
  <1>3. Calm => launches = {}
    BY <1>1
  <1>4. ASSUME ~mixed, NEW a \in LiveApps
        PROVE  (a \in reg /\ Fits(a))' \/ Due(i, a)'
    BY <1>1, <1>2, <1>4
  <1>5. Resolves(i)' /\ Reads(i)' /\ Placed(i)' /\ Sweeps(i)'
    BY <1>1
  <1> QED BY <1>1, <1>3, <1>4, <1>5

\* The loop is entered with every registered app.
LEMMA CapSliceKnown ==
  ASSUME IInv, NEW i \in Invs, Frame(i), Known(i), CapSlice(i)
  PROVE  Known(i)'
  <1> USE DEF host, conf, loop, args, past, At, Goto, Leave, Finish, IInv, TypeOK, Known, Launches,
              Reads, Resolves, Due, Awaits, LiveApps, Fits, Calm, Top, Placed, Sweeps
  <1>1. /\ pc[i] = "cap" /\ UNCHANGED <<account, reg, pin, scope, lim, launches, aim, val, alone>>
        /\ Calm => launches = {}
    BY DEF CapSlice
  <1>2. CASE cmd[i] \in {"stats", "start", "restart"}
    <2>1. /\ pc'[i] \in {"idle", "load", "kill"} /\ todo' = todo /\ mixed' = mixed
          /\ pc'[i] = "kill" => cmd'[i] = "restart"
          /\ pc'[i] = "load" => cmd'[i] \in {"start", "restart"}
      BY <1>2 DEF CapSlice
    <2>2. cmd'[i] # "sync"
      BY <1>2 DEF CapSlice
    <2> QED BY <1>1, <1>2, <2>1, <2>2
  <1>3. CASE cmd[i] \notin {"stats", "start", "restart"}
    <2>1. pc'[i] = "reapply" /\ todo'[i] = reg /\ UNCHANGED <<cmd, app, own, mixed>>
      BY <1>3 DEF CapSlice, EnterLoop
    <2>2. Sweeps(i)' /\ Placed(i)' /\ Reads(i)' /\ Resolves(i)'
      BY <1>1, <1>3, <2>1
    <2>3. ASSUME ~mixed, NEW a \in LiveApps
          PROVE  (a \in reg /\ Fits(a))' \/ Due(i, a)'
      BY <1>1, <2>1, <2>3
    <2> QED BY <1>1, <2>1, <2>2, <2>3
  <1> QED BY <1>2, <1>3

\* A start reads the pin of its app, which is registered.
LEMMA LoadKnown ==
  ASSUME IInv, NEW i \in Invs, Frame(i), Known(i), Load(i)
  PROVE  Known(i)'
  <1> USE DEF host, conf, loop, args, past, At, Goto, Leave, Finish, IInv, TypeOK, Known, Launches,
              Reads, Resolves, Due, Awaits, LiveApps, Fits, Calm, Top, Placed, Sweeps
  <1>1. /\ pc[i] = "load" /\ UNCHANGED <<account, reg, pin, scope, lim, launches, aim, val, alone>>
        /\ cmd[i] \in {"start", "restart"} /\ (Calm => launches = {})
    BY DEF Load
  <1>2. CASE app[i] \in reg
    <2>1. /\ pc'[i] = "reapply" /\ todo'[i] = reg /\ own'[i] = pin[app[i]]
          /\ UNCHANGED <<cmd, app, mixed>>
      BY <1>2 DEF Load, EnterLoop
    <2> QED BY <1>1, <1>2, <2>1
  <1>3. CASE app[i] \notin reg
    <2>1. pc'[i] = "idle" /\ todo' = todo /\ mixed' = mixed
      BY <1>1, <1>3 DEF Load
    <2> QED BY <1>1, <2>1
  <1> QED BY <1>2, <1>3

\* What is resolved is what the app is to have.
LEMMA ResolveKnown ==
  ASSUME IInv, NEW i \in Invs, Frame(i), Known(i), Resolve(i)
  PROVE  Known(i)'
  <1>0. \A a \in Apps : CeilingOf(AppLimitsFor(a, pin[a], Pending(i), Leaving(i))) = Top(pin[a])
    BY ResolvedCeiling, PinTypes
  <1> USE DEF host, conf, loop, args, past, At, Goto, Leave, Finish, IInv, TypeOK, Known, Launches,
              Reads, Resolves, Due, Awaits, LiveApps, Fits, Calm, Top, Placed, Sweeps
  <1>1. /\ pc[i] = "reapply" /\ UNCHANGED <<account, reg, pin, scope, lim, launches, pc, cmd, app, own,
                                            alone, mixed>>
        /\ Calm => launches = {}
    BY DEF Resolve
  <1>2. PICK a \in todo[i] :
          /\ todo' = [todo EXCEPT ![i] = @ \ {a}]
          /\ IF a \in reg \ Leaving(i) /\ ScopeIsLive(a)
             THEN /\ aim' = [aim EXCEPT ![i] = a]
                  /\ val' = [val EXCEPT ![i] = AppLimitsFor(a, pin[a], Pending(i), Leaving(i))]
             ELSE UNCHANGED <<aim, val>>
    BY DEF Resolve
  <1>3. aim[i] = NoApp /\ a \in Apps
    BY DEF Resolve
  <1>4. Resolves(i)'
    <2>1. CASE aim' = aim
      BY <1>3, <2>1
    <2>2. CASE /\ aim' = [aim EXCEPT ![i] = a]
               /\ val' = [val EXCEPT ![i] = AppLimitsFor(a, pin[a], Pending(i), Leaving(i))]
      <3>1. aim'[i] = a /\ CeilingOf(val'[i]) = Top(pin[a])
        BY <1>0, <1>3, <2>2
      <3> QED BY <1>1, <3>1
    <2> QED BY <1>2, <2>1, <2>2
  <1>5. ASSUME NEW b \in LiveApps \cap reg, Awaits(i, b), cmd[i] \notin {"stop", "remove"}
        PROVE  Awaits(i, b)'
    BY <1>1, <1>2, <1>3, <1>5, NullsAssumption DEF Leaving, ScopeIsLive
  <1>6. ASSUME NEW b \in LiveApps PROVE Fits(b)' = Fits(b)
    BY <1>1
  <1>7. Placed(i)' /\ (Calm => Reads(i)')
    BY <1>1
  <1>8. Sweeps(i)'
    BY <1>1, <1>5, <1>6
  <1>9. ASSUME ~mixed, NEW b \in LiveApps
        PROVE  (b \in reg /\ Fits(b))' \/ Due(i, b)'
    BY <1>1, <1>5, <1>6, <1>9
  <1> QED BY <1>1, <1>4, <1>7, <1>8, <1>9

\* What was resolved is set, on a scope that is still there.
LEMMA ApplyKnown ==
  ASSUME IInv, NEW i \in Invs, Frame(i), Known(i), Apply(i)
  PROVE  Known(i)'
  <1> USE DEF host, conf, loop, args, past, At, Goto, Leave, Finish, IInv, TypeOK, Known, Launches,
              Reads, Resolves, Due, Awaits, LiveApps, Fits, Calm, Top, Placed, Sweeps
  <1>1. /\ pc[i] = "reapply" /\ aim[i] # NoApp /\ aim'[i] = NoApp
        /\ UNCHANGED <<account, reg, pin, scope, launches, pc, cmd, app, own, todo, alone, mixed>>
        /\ \A b \in Apps : b # aim[i] => lim'[b] = lim[b]
        /\ aim[i] \in LiveApps => lim'[aim[i]] = val[i]
        /\ Calm => launches = {}
    BY DEF Apply, ScopeIsLive
  <1>2. ASSUME Calm, NEW b \in LiveApps, aim[i] = b
        PROVE  Fits(b)'
    BY <1>1, <1>2
  <1>3. ASSUME Calm, NEW b \in LiveApps, Awaits(i, b) \/ Fits(b)
        PROVE  Awaits(i, b)' \/ Fits(b)'
    BY <1>1, <1>2, <1>3
  <1>4. ASSUME Calm, NEW b \in LiveApps, Fits(b)
        PROVE  Fits(b)'
    BY <1>1, <1>2, <1>4
  <1>5. Placed(i)' /\ Resolves(i)' /\ (Calm => Reads(i)')
    BY <1>1
  <1>6. Sweeps(i)'
    BY <1>1, <1>3
  <1>7. ASSUME ~mixed, NEW b \in LiveApps
        PROVE  (b \in reg /\ Fits(b))' \/ Due(i, b)'
    BY <1>1, <1>3, <1>4, <1>7
  <1> QED BY <1>1, <1>5, <1>6, <1>7

\* When the loop is over, whoever was awaited has its ceiling; a sweep has put all right.
LEMMA AfterLoopKnown ==
  ASSUME IInv, NEW i \in Invs, Frame(i), Known(i), AfterLoop(i)
  PROVE  Known(i)'
  <1> USE DEF host, conf, loop, args, past, At, Goto, Leave, Finish, IInv, TypeOK, Known, Launches,
              Reads, Resolves, Due, Awaits, LiveApps, Fits, Calm, Top, Placed, Sweeps
  <1>1. /\ pc[i] = "reapply" /\ aim[i] = NoApp /\ todo[i] = {} /\ todo' = todo /\ aim' = aim
        /\ UNCHANGED <<account, reg, pin, scope, lim, launches, alone>>
        /\ pc'[i] \in {"spawn", "down", "unregister", "idle"} /\ (Calm => launches = {})
    BY DEF AfterLoop
  <1>2. \A a \in LiveApps : ~Awaits(i, a)
    BY <1>1, NullsAssumption
  <1>4. Placed(i)' /\ Resolves(i)' /\ Sweeps(i)' /\ (Calm => Reads(i)')
    BY <1>1 DEF AfterLoop
  <1>5. ASSUME ~mixed', NEW a \in LiveApps
        PROVE  (a \in reg /\ Fits(a))'
    <2>1. CASE ~mixed
      BY <1>1, <1>2, <1>5, <2>1
    <2>2. CASE mixed
      <3>1. cmd[i] = "sync" /\ alone /\ a \in reg
        BY <1>5, <2>2 DEF AfterLoop
      <3> QED BY <1>1, <1>2, <1>5, <3>1
    <2> QED BY <2>1, <2>2
  <1>6. LiveApps' = LiveApps /\ reg' = reg /\ Placed(i)'
    BY <1>1, <1>4
  <1>7. Calm' => Calm /\ launches' = {}
    BY <1>1 DEF Frame
  <1> QED BY <1>4, <1>5, <1>6, <1>7

\* A launch carries the ceiling of its app.
LEMMA SpawnKnown ==
  ASSUME IInv, NEW i \in Invs, Frame(i), Known(i), Spawn(i)
  PROVE  Known(i)'
  <1>0. app[i] \in Apps => CeilingOf(AppLimitsFor(app[i], own[i], {}, {})) = Top(own[i])
    BY ResolvedCeiling, PinTypes
  <1> USE DEF host, conf, loop, args, past, At, Goto, Leave, Finish, IInv, TypeOK, Known, Launches,
              Reads, Resolves, Due, Awaits, LiveApps, Fits, Calm, Top, Placed, Sweeps
  <1>1. /\ pc[i] = "spawn" /\ cmd[i] \in {"start", "restart"}
        /\ UNCHANGED <<account, reg, pin, scope, lim, todo, aim, val, alone>>
        /\ mixed' = mixed /\ (Calm => launches = {})
    BY DEF Spawn
  <1>2. CASE pc'[i] = "idle" /\ launches' = launches
    BY <1>1, <1>2
  <1>3. CASE /\ launches' = launches \cup
                    {[app |-> app[i], lim |-> AppLimitsFor(app[i], own[i], {}, {})]}
             /\ pc'[i] = "recap" /\ UNCHANGED <<cmd, app, own>>
    <2>1. app[i] \in Apps
      BY <1>1 DEF Aimed, AboutAnApp
    <2>2. ASSUME Calm, NEW l \in launches'
          PROVE  Launches(i, l)'
      <3>1. l = [app |-> app[i], lim |-> AppLimitsFor(app[i], own[i], {}, {})]
        BY <1>1, <1>3, <2>2
      <3>2. l.app = app[i] /\ CeilingOf(l.lim) = Top(own[i])
        BY <1>0, <2>1, <3>1
      <3>3. own[i] = pin[app[i]]
        BY <1>1, <2>2
      <3> QED BY <1>1, <1>3, <3>2, <3>3
    <2>3. Placed(i)' /\ Resolves(i)' /\ Sweeps(i)' /\ (Calm => Reads(i)')
      BY <1>1, <1>3
    <2> QED BY <1>1, <1>3, <2>2, <2>3
  <1> QED BY <1>1, <1>2, <1>3 DEF Spawn

\* The slice is capped again, and the start waits.
LEMMA RecapKnown ==
  ASSUME IInv, NEW i \in Invs, Frame(i), Known(i), Recap(i)
  PROVE  Known(i)'
  <1> USE DEF host, conf, loop, args, past, At, Goto, Leave, Finish, IInv, TypeOK, Known, Launches,
              Reads, Resolves, Due, Awaits, LiveApps, Fits, Calm, Top, Placed, Sweeps
  <1>1. /\ pc[i] = "recap" /\ pc'[i] = "wait"
        /\ UNCHANGED <<account, reg, pin, scope, lim, launches, cmd, app, own, todo, aim, val, alone,
                       mixed>>
    BY DEF Recap
  <1> QED BY <1>1

\* What is killed is not live, unless a helper survives.
LEMMA KillKnown ==
  ASSUME IInv, NEW i \in Invs, Frame(i), Known(i), StopTree(i) \/ GiveUp(i) \/ Down(i)
  PROVE  Known(i)'
  <1> USE DEF host, conf, loop, args, past, At, Goto, Leave, Finish, IInv, TypeOK, Known, Launches,
              Reads, Resolves, Due, Awaits, LiveApps, Fits, Calm, Top, Placed, Sweeps
  <1>1. /\ UNCHANGED <<account, reg, pin, lim, todo, aim, val, alone>>
        /\ pc[i] \in {"kill", "wait", "down"} /\ pc'[i] \in {"load", "idle"}
        /\ pc'[i] = "load" => cmd'[i] \in {"start", "restart"}
    BY DEF StopTree, GiveUp, Down
  <1>2. ASSUME ~mixed'
        PROVE  /\ ~mixed /\ LiveApps' \subseteq LiveApps
               /\ pc[i] = "down" /\ cmd[i] = "remove" => app[i] \notin LiveApps'
    BY <1>2 DEF StopTree, GiveUp, Down, Kill, Aimed, AboutAnApp
  <1>3. Calm => launches' = {}
    BY DEF StopTree, GiveUp, Down
  <1>4. Placed(i)' /\ Reads(i)' /\ Resolves(i)' /\ Sweeps(i)'
    BY <1>1
  <1>5. ASSUME ~mixed', NEW a \in LiveApps'
        PROVE  (a \in reg /\ Fits(a))'
    BY <1>1, <1>2, <1>5
  <1>6. Calm' => Calm
    BY DEF Frame
  <1> QED BY <1>1, <1>3, <1>4, <1>5, <1>6

\* A start that is answered has no launch left.
LEMMA StartedKnown ==
  ASSUME IInv, NEW i \in Invs, Frame(i), Known(i), Started(i)
  PROVE  Known(i)'
  <1> USE DEF host, conf, loop, args, past, At, Goto, Leave, Finish, IInv, TypeOK, Known, Launches,
              Reads, Resolves, Due, Awaits, LiveApps, Fits, Calm, Top, Placed, Sweeps
  <1>1. /\ pc[i] = "wait" /\ pc'[i] = "idle" /\ cmd[i] \in {"start", "restart"}
        /\ UNCHANGED <<account, reg, pin, scope, lim, launches, todo, aim, val, alone>>
        /\ mixed' = mixed
    BY DEF Started
  <1>2. Calm => launches = {}
    BY DEF Started
  <1> QED BY <1>1, <1>2

\* What is unregistered is due to end, and what is added does not run.
LEMMA RegistryKnown ==
  ASSUME IInv, NEW i \in Invs, Frame(i), Known(i), Unregister(i) \/ Add(i)
  PROVE  Known(i)'
  <1> USE DEF host, conf, loop, args, past, At, Goto, Leave, Finish, IInv, TypeOK, Known, Launches,
              Reads, Resolves, Due, Awaits, LiveApps, Fits, Calm, Top, Placed, Sweeps
  <1>1. /\ pc[i] \in {"unregister", "register"} /\ pc'[i] \in {"down", "idle"}
        /\ UNCHANGED <<account, scope, lim, launches, todo, aim, val, alone>>
        /\ mixed' = mixed /\ (Calm => launches = {})
    BY DEF Unregister, Add
  <1>2. Placed(i)' /\ Reads(i)' /\ Resolves(i)' /\ Sweeps(i)'
    BY <1>1 DEF Unregister, Add
  <1>3. ASSUME ~mixed, NEW a \in LiveApps
        PROVE  (a \in reg /\ Fits(a))' \/ Due(i, a)'
    <2>1. a \in reg /\ Fits(a)
      BY <1>1, <1>3
    <2>2. CASE Unregister(i)
      BY <1>1, <2>1, <2>2 DEF Unregister
    <2>3. CASE Add(i)
      BY <1>1, <2>1, <2>3 DEF Add
    <2> QED BY <2>2, <2>3
  <1> QED BY <1>1, <1>2, <1>3

\* What happens outside the commands: systemd, the apps, the slice.
LEMMA OutsideKept ==
  ASSUME IInv, LInv,
         UNCHANGED <<account, reg, pin, pc, cmd, app, own, todo, aim, val, alone, mixed>>,
         launches' \subseteq launches,
         \A a \in LiveApps' : \/ a \in LiveApps /\ lim'[a] = lim[a]
                              \/ Calm => /\ a \in reg /\ Fits(a)'
                                         /\ \A i \in Invs : pc[i] # "idle" => cmd[i] # "sync"
  PROVE  LInv'
  <1>1. Calm' = Calm
    BY DEF Calm
  <1>2. ASSUME NEW i \in Invs
        PROVE  Placed(i)' /\ (Calm => Reads(i)' /\ Resolves(i)')
    BY DEF LInv, CalmInv, Placed, Reads, Resolves, Top
  <1>3. ASSUME Calm, NEW l \in launches'
        PROVE  \E i \in Invs : Launches(i, l)'
    <2>1. PICK i \in Invs : Launches(i, l)
      BY <1>3 DEF LInv, CalmInv
    <2> QED BY <2>1 DEF Launches, Top
  <1>4. CalmInv'
    BY <1>1, <1>2, <1>3 DEF LInv, CalmInv
  <1>5. ASSUME NEW a \in LiveApps, lim'[a] = lim[a]
        PROVE  Fits(a)' = Fits(a)
    BY <1>5 DEF Fits, Top
  <1>6. ASSUME NEW i \in Invs
        PROVE  Sweeps(i)'
    <2> SUFFICES ASSUME alone, cmd[i] = "sync", pc[i] # "idle", NEW a \in LiveApps', a \in reg
                 PROVE  Awaits(i, a)' \/ Fits(a)'
      BY DEF Sweeps
    <2>1. CASE a \in LiveApps /\ lim'[a] = lim[a]
      BY <1>5, <2>1 DEF LInv, Sweeps, Awaits
    <2> QED BY <2>1 DEF Calm
  <1>7. CeilingInv'
    <2> SUFFICES ASSUME ~mixed, NEW a \in LiveApps'
                 PROVE  (a \in reg /\ Fits(a)') \/ \E i \in Invs : Due(i, a)'
      BY DEF CeilingInv
    <2>1. CASE a \in LiveApps /\ lim'[a] = lim[a]
      <3>1. (a \in reg /\ Fits(a)) \/ \E i \in Invs : Due(i, a)
        BY <2>1 DEF LInv, CeilingInv
      <3>2. \A i \in Invs : Due(i, a) => Due(i, a)'
        BY DEF Due, Awaits
      <3> QED BY <1>5, <2>1, <3>1, <3>2
    <2> QED BY <2>1 DEF Calm
  <1> QED BY <1>2, <1>4, <1>6, <1>7 DEF LInv

\* A launch that is answered has the ceiling of its app.
LEMMA RegisterKept ==
  ASSUME IInv, LInv, Register
  PROVE  LInv'
  <1> USE DEF IInv, TypeOK, conf, loop, args, past
  <1>1. PICK l \in launches :
          /\ launches' = launches \ {l}
          /\ IF scope[l.app] = "none"
             THEN /\ scope' = [scope EXCEPT ![l.app] = "live"]
                  /\ lim' = [lim EXCEPT ![l.app] = l.lim]
                  /\ slice' = IF slice = NoSlice THEN NoLimit ELSE slice
             ELSE UNCHANGED <<scope, lim, slice>>
    BY DEF Register
  <1>2. /\ UNCHANGED <<account, reg, pin, pc, cmd, app, own, todo, aim, val, alone, mixed>>
        /\ l.app \in Apps
    BY DEF Register
  <1>3. ASSUME Calm
        PROVE  /\ l.app \in reg /\ CeilingOf(l.lim) = Top(pin[l.app])
               /\ \A i \in Invs : pc[i] # "idle" => cmd[i] # "sync"
    <2>1. PICK i \in Invs : Launches(i, l)
      BY <1>3 DEF LInv, CalmInv
    <2>2. \A j \in Invs : pc[j] # "idle" => j = i
      BY <1>3, <2>1 DEF LInv, CalmInv, Launches
    <2> QED BY <1>3, <2>1, <2>2 DEF LInv, CalmInv, Launches, Reads, Placed
  <1>4. ASSUME NEW a \in LiveApps', ~(a \in LiveApps /\ lim'[a] = lim[a])
        PROVE  a = l.app /\ lim'[a] = l.lim
    BY <1>1, <1>2, <1>4 DEF LiveApps
  <1>5. ASSUME Calm, NEW a \in LiveApps', a = l.app, lim'[a] = l.lim
        PROVE  a \in reg /\ Fits(a)'
    BY <1>2, <1>3, <1>5 DEF Fits, Top
  <1> HIDE DEF IInv, TypeOK
  <1> QED BY <1>1, <1>2, <1>3, <1>4, <1>5, OutsideKept

\* A command begins: beside nothing, or in a state that only a sweep puts right.
LEMMA BeginKept ==
  ASSUME IInv, LInv, NEW i \in Invs, NEW c \in Commands, NEW a \in Apps, Begin(i, c, a)
  PROVE  LInv'
  <1> USE DEF IInv, TypeOK, host, conf, loop, At, Goto
  <1>1. /\ UNCHANGED <<account, reg, pin, scope, lim, launches, own, todo, aim, val>>
        /\ pc[i] = "idle" /\ pc'[i] = FirstStep(c) /\ cmd'[i] = c
        /\ \A j \in Invs \ {i} : pc'[j] = pc[j] /\ cmd'[j] = cmd[j] /\ app'[j] = app[j]
        /\ c \in CommandNames
    BY BoundsAssumption DEF Begin
  <1>2. \A j \in Invs : Placed(j)'
    BY <1>1 DEF LInv, Placed, FirstStep, CommandNames
  <1>3. ASSUME ~mixed' \/ alone'
        PROVE  /\ \A j \in Invs : pc[j] = "idle" /\ aim[j] = NoApp
               /\ launches = {}
    <2>0. /\ alone' => InFlight = {} /\ launches = {}
          /\ ~mixed' => InFlight = {} /\ ~mixed
      <3>1. alone' = (InFlight = {} /\ launches = {}) /\ mixed' = (mixed \/ InFlight # {})
        BY Zenon DEF Begin
      <3> QED BY <3>1, Zenon
    <2>1. \A j \in Invs : pc[j] = "idle"
      BY <1>3, <2>0 DEF InFlight
    <2>2. ~mixed => launches = {}
      BY <2>1 DEF LInv, CalmInv, Calm, Launches
    <2>3. \A j \in Invs : aim[j] = NoApp
      BY <2>1 DEF LInv, Placed
    <2> QED BY <1>3, <2>0, <2>1, <2>2, <2>3
  <1>4. \A j \in Invs : Sweeps(j)'
    BY <1>1, <1>3 DEF Sweeps, Awaits, FirstStep
  <1>5. CalmInv'
    <2> SUFFICES ASSUME Calm' PROVE CalmInv'
      BY DEF CalmInv
    <2>1. /\ \A j \in Invs : pc[j] = "idle" /\ aim'[j] = NoApp
          /\ launches' = {}
      BY <1>1, <1>3 DEF Calm
    <2>2. \A j \in Invs : pc'[j] # "idle" => j = i
      BY <1>1, <2>1
    <2>3. \A j \in Invs : Reads(j)' /\ Resolves(j)'
      BY <1>1, <2>1, <2>2 DEF Reads, Resolves, FirstStep
    <2> QED BY <2>1, <2>2, <2>3 DEF CalmInv
  <1>6. CeilingInv'
    <2> SUFFICES ASSUME ~mixed', NEW b \in LiveApps'
                 PROVE  b \in reg' /\ Fits(b)'
      BY DEF CeilingInv
    <2>1. ~mixed /\ b \in LiveApps
      BY <1>1 DEF Begin, LiveApps
    <2>2. b \in reg /\ Fits(b)
      BY <1>3, <2>1 DEF LInv, CeilingInv, Due, Awaits
    <2> QED BY <1>1, <2>2 DEF Fits, Top
  <1> QED BY <1>2, <1>4, <1>5, <1>6 DEF LInv

\* What only a sweep puts right promises nothing.
LEMMA MixedKept ==
  ASSUME IInv, LInv, ChangeAllowance \/ \E i \in Invs : CutShort(i)
  PROVE  LInv'
  <1>1. mixed' /\ ~alone'
    BY DEF ChangeAllowance, CutShort
  <1>2. \A j \in Invs : Placed(j)'
    <2>1. CASE ChangeAllowance
      BY <2>1 DEF ChangeAllowance, LInv, Placed, loop, args
    <2>2. ASSUME NEW i \in Invs, CutShort(i) PROVE \A j \in Invs : Placed(j)'
      BY <2>2 DEF CutShort, Leave, Goto, LInv, Placed, IInv, TypeOK
    <2> QED BY <2>1, <2>2
  <1> QED BY <1>1, <1>2 DEF LInv, CalmInv, CeilingInv, Sweeps, Calm

\* A sweep has just given every app its ceiling.
LEMMA InitLInv == Init => LInv
  <1> SUFFICES ASSUME Init PROVE LInv
    OBVIOUS
  <1>1. IInv
    BY InitIInv
  <1>2. ASSUME NEW a \in LiveApps PROVE a \in reg /\ Fits(a)
    <2>1. lim[a] = Resolved(a) /\ a \in Apps /\ reg = Apps
      <3>1. PICK up \in SUBSET Apps :
               /\ scope = [b \in Apps |-> IF b \in up THEN "live" ELSE "none"]
               /\ lim = [b \in Apps |-> IF b \in up THEN Resolved(b) ELSE NoLimits]
               /\ slice = IF up = {} THEN NoSlice ELSE account
        BY Zenon DEF Init
      <3> QED BY <1>2, <3>1 DEF Init, LiveApps
    <2> QED BY <1>1, <2>1, PinTypes, ResolvedCeiling DEF Fits, Resolved
  <1> QED BY <1>2 DEF Init, LInv, CalmInv, CeilingInv, Sweeps, Placed, Reads, Resolves, LiveApps

\* Every step keeps the ceilings.
LEMMA StepLInv == IInv /\ LInv /\ [Next]_vars => LInv'
  <1> SUFFICES ASSUME IInv, LInv, [Next]_vars PROVE LInv'
    OBVIOUS
  <1>1. CASE UNCHANGED vars
    <2>1. LiveApps' = LiveApps
      BY <1>1 DEF vars, host, LiveApps
    <2> QED BY <1>1, <2>1, OutsideKept DEF vars, host, conf, loop, args, past
  <1>2. ASSUME NEW i \in Invs, Step(i) PROVE LInv'
    <2>1. Frame(i) /\ Known(i)
      BY <1>2, StepFrame, KnownNow DEF Frame
    <2>2. Known(i)'
      BY <1>2, <2>1, WritePinKnown, CapSliceKnown, LoadKnown, ResolveKnown, ApplyKnown,
         AfterLoopKnown, SpawnKnown, RecapKnown, KillKnown, StartedKnown, RegistryKnown DEF Step
    <2> QED BY <2>1, <2>2, OwnAffair
  <1>3. ASSUME NEW a \in Apps, Exit(a) \/ CollectUnit(a) PROVE LInv'
    <2>1. \A b \in LiveApps' : b \in LiveApps /\ lim'[b] = lim[b]
      BY <1>3 DEF Exit, CollectUnit, LiveApps, IInv, TypeOK
    <2> QED BY <1>3, <2>1, OutsideKept DEF Exit, CollectUnit, conf, loop, args, past
  <1>4. CASE CollectSlice
    <2>1. LiveApps' = LiveApps
      BY <1>4 DEF CollectSlice, LiveApps
    <2> QED BY <1>4, <2>1, OutsideKept DEF CollectSlice, conf, loop, args, past
  <1> QED BY <1>1, <1>2, <1>3, <1>4, BeginKept, RegisterKept, MixedKept DEF Next

\* A pin and an allowance are in force on every live app as soon as the command that sets
\* them, or the sweep that finds them, has answered (plan.rs, reapply_app_limits).
THEOREM CurrentCeilings == Spec => []CeilingIsCurrent
  <1>1. IInv /\ LInv => CeilingIsCurrent
    <2> SUFFICES ASSUME IInv, LInv, Settled, NEW a \in LiveApps, a \in reg
                 PROVE  CeilingOf(lim[a]) = CeilingOf(Resolved(a))
      BY DEF CeilingIsCurrent
    <2>1. Fits(a)
      BY DEF LInv, CeilingInv, Settled, InFlight, Due, Awaits
    <2>2. a \in Apps
      BY DEF LiveApps
    <2> QED BY <2>1, <2>2, PinTypes, ResolvedCeiling DEF Fits, Resolved
  <1> QED BY <1>1, InitIInv, StepIInv, InitLInv, StepLInv, PTL DEF Spec

-----------------------------------------------------------------------------
(* Room for the others *)

\* What limits guarantee.
MinOf(l) == IF l = NoLimits THEN 0 ELSE l.min

\* Limits that leave room for as many apps as S has, each with its fair share.
Roomy(l, S) == account # NoLimit => MinOf(l) <= Guarantee(account, Cardinality(S))

\* The apps that will be live when the command is done.
Expected(i) == (LiveApps \cup Pending(i)) \ Leaving(i)

\* A command that is about to end its app.
Departs(i) == pc[i] # "idle" /\ cmd[i] \in {"stop", "remove"}

\* The siblings of an app that starts have shrunk, but for those the loop has to come to.
Shrinks(i) ==
    /\ pc[i] = "reapply" /\ cmd[i] \in {"start", "restart"} =>
          \A a \in LiveApps : Awaits(i, a) \/ Roomy(lim[a], LiveApps \cup {app[i]})
    /\ pc[i] \in {"spawn", "recap", "wait"} =>
          \A a \in LiveApps : Roomy(lim[a], LiveApps \cup {app[i]})
    /\ aim[i] # NoApp => Roomy(val[i], Expected(i))

\* There will be room for app a once the app of the command in flight has gone.
WithoutIt(i, a) == Departs(i) /\ Roomy(lim[a], LiveApps \ {app[i]})

RoomInv ==
    ~mixed =>
        /\ \A a \in LiveApps : Roomy(lim[a], LiveApps) \/ \E i \in Invs : WithoutIt(i, a)
        /\ \A l \in launches : Roomy(l.lim, LiveApps \cup {l.app})
        /\ \A i \in Invs : Shrinks(i)

\* A sweep that nothing disturbs divides the allowance among the registered apps.
Divides(i) ==
    alone /\ cmd[i] = "sync" /\ pc[i] # "idle" =>
        /\ aim[i] # NoApp => Roomy(val[i], LiveApps \cap reg)
        /\ \A a \in LiveApps \cap reg : Awaits(i, a) \/ Roomy(lim[a], LiveApps \cap reg)

GInv == RoomInv /\ \A i \in Invs : Divides(i)

\* The more apps share a pool, the less each is guaranteed.
LEMMA MoreGetLess ==
  ASSUME NEW pool \in Nat, NEW n \in Nat, NEW m \in Nat, n <= m
  PROVE  Guarantee(pool, m) <= Guarantee(pool, n)
  <1> DEFINE k == Greatest(n, 1)
             j == Greatest(m, 1)
  <1>1. k \in Nat /\ j \in Nat /\ k > 0 /\ k <= j
    BY DEF Greatest
  <1>2. pool \div j \in Nat /\ j * (pool \div j) <= pool /\ pool \div k \in Nat
    BY <1>1, SharesFit
  <1> HIDE DEF k, j
  <1>3. k * (pool \div j) <= j * (pool \div j)
    BY <1>1, <1>2
  <1>4. k * (pool \div j) <= pool
    BY <1>1, <1>2, <1>3
  <1>5. pool \div j <= pool \div k
    BY <1>1, <1>2, <1>4, LeastSharesFit
  <1> QED BY <1>2, <1>5, ElasticFits, SmallestFits DEF Guarantee, Clamp, Greatest, k, j

LEMMA CountOfApps ==
  ASSUME NEW S \in SUBSET Apps, NEW T \in SUBSET S
  PROVE  Cardinality(S) \in Nat /\ Cardinality(T) \in Nat /\ Cardinality(T) <= Cardinality(S)
  BY AppsAssumption, FS_Subset, FS_CardinalityType

\* What leaves room for many leaves room for fewer.
LEMMA RoomForFewer ==
  ASSUME TypeOK, NEW S \in SUBSET Apps, NEW T \in SUBSET S, NEW l \in LimitsOrNone, Roomy(l, S)
  PROVE  Roomy(l, T)
  <1> SUFFICES ASSUME account # NoLimit PROVE MinOf(l) <= Guarantee(account, Cardinality(T))
    BY DEF Roomy
  <1>1. account \in Nat
    BY NumbersAssumption DEF TypeOK
  <1>2. Guarantee(account, Cardinality(S)) <= Guarantee(account, Cardinality(T))
    BY <1>1, CountOfApps, MoreGetLess
  <1>3. Guarantee(account, Cardinality(S)) \in Nat /\ Guarantee(account, Cardinality(T)) \in Nat
    BY <1>1, CountOfApps, GuaranteeFits
  <1>4. MinOf(l) \in Nat
    BY DEF MinOf, LimitsOrNone, AppLimits
  <1> QED BY <1>2, <1>3, <1>4 DEF Roomy

\* Limits are resolved with room for all that are counted.
LEMMA ResolvedRoom ==
  ASSUME TypeOK, NEW a \in Apps, NEW p \in PinOrNone, NEW P \in SUBSET Apps, NEW L,
         NEW S \in SUBSET Sharing(a, P, L)
  PROVE  Roomy(AppLimitsFor(a, p, P, L), S)
  <1> SUFFICES ASSUME account # NoLimit
               PROVE  MinOf(AppLimitsFor(a, p, P, L)) <= Guarantee(account, Cardinality(S))
    BY DEF Roomy
  <1> DEFINE n == Cardinality(Sharing(a, P, L))
  <1>1. account \in Nat /\ p \in Nat \cup {NoLimit}
    BY NumbersAssumption DEF TypeOK, PinOrNone
  <1>2. Sharing(a, P, L) \in SUBSET Apps
    BY DEF Sharing, TypeOK
  <1>3. n \in Nat /\ Cardinality(S) \in Nat /\ Cardinality(S) <= n
    BY <1>2, CountOfApps
  <1>4. Guarantee(account, n) <= Guarantee(account, Cardinality(S))
    BY <1>1, <1>3, MoreGetLess
  <1>5. Guarantee(account, n) \in Nat /\ Guarantee(account, Cardinality(S)) \in Nat
    BY <1>1, <1>3, GuaranteeFits
  <1>6. AppLimitsFor(a, p, P, L) = Limits(account, n, p)
    BY DEF AppLimitsFor
  <1> HIDE DEF n
  <1>7. Limits(account, n, p).min \in Nat
    BY <1>1, <1>3, LimitsInOrder DEF AppLimits
  <1>8. Ceiling(account, n) \in Nat
    BY <1>1, <1>5, ElasticFits DEF Ceiling, Greatest
  <1>9. Limits(account, n, p).min <= Guarantee(account, n)
    BY <1>1, <1>5, <1>8, NullsAssumption DEF Limits, Least
  <1>10. MinOf(Limits(account, n, p)) \in {0, Limits(account, n, p).min}
    BY DEF MinOf
  <1> QED BY <1>4, <1>5, <1>6, <1>7, <1>9, <1>10

\* What is known of the room there is from the command that takes a step.
Room(i) ==
    /\ Divides(i)
    /\ ~mixed => /\ \A a \in LiveApps : Roomy(lim[a], LiveApps) \/ WithoutIt(i, a)
                 /\ \A l \in launches : Roomy(l.lim, LiveApps \cup {l.app})
                 /\ Shrinks(i)

LEMMA RoomNow ==
  ASSUME LInv, GInv, NEW i \in Invs, pc[i] # "idle"
  PROVE  Room(i)
  <1>1. ASSUME ~mixed, NEW a \in LiveApps
        PROVE  Roomy(lim[a], LiveApps) \/ WithoutIt(i, a)
    <2> SUFFICES ASSUME ~Roomy(lim[a], LiveApps) PROVE WithoutIt(i, a)
      OBVIOUS
    <2>1. PICK j \in Invs : WithoutIt(j, a)
      BY <1>1 DEF GInv, RoomInv
    <2>2. j = i
      BY <1>1, <2>1 DEF LInv, CalmInv, Calm, WithoutIt, Departs
    <2> QED BY <2>1, <2>2
  <1> QED BY <1>1 DEF Room, GInv, RoomInv

\* A step answers for its own command only.
LEMMA OwnRoom ==
  ASSUME LInv, GInv, NEW i \in Invs, Frame(i), Room(i)'
  PROVE  GInv'
  <1>1. ASSUME NEW j \in Invs \ {i}, Calm
        PROVE  pc[j] = "idle" /\ pc'[j] = "idle" /\ aim'[j] = NoApp
    BY <1>1 DEF LInv, CalmInv, Frame, Placed
  <1>2. ASSUME NEW j \in Invs \ {i} PROVE Divides(j)'
    BY <1>1 DEF Divides, Calm, Frame
  <1>3. ASSUME NEW j \in Invs \ {i}, ~mixed' PROVE Shrinks(j)'
    BY <1>1, <1>3 DEF Shrinks, Frame
  <1>4. RoomInv'
    BY <1>3 DEF RoomInv, Room
  <1> QED BY <1>2, <1>4 DEF GInv, Room

\* Nothing happens to a scope, to what is resolved, or to what is launched.
Quiet(i) ==
    /\ UNCHANGED <<account, scope, lim, aim, val, mixed>>
    /\ launches' \subseteq launches /\ aim[i] = NoApp
    /\ \/ pc'[i] # "idle" /\ cmd'[i] = cmd[i] /\ app'[i] = app[i]
       \/ pc'[i] = "idle" /\ (~mixed /\ Departs(i) => app[i] \notin LiveApps)
    /\ pc'[i] = "reapply" => LiveApps \cap reg \subseteq todo'[i] /\ (~mixed => LiveApps \subseteq todo'[i])
    /\ pc'[i] \in {"spawn", "recap", "wait"} => pc[i] \in {"spawn", "recap", "wait"}
    /\ cmd[i] = "sync" /\ pc'[i] # "idle" => reg' = reg /\ pc'[i] = "reapply"

LEMMA QuietRoom ==
  ASSUME IInv, NEW i \in Invs, Frame(i), Room(i), Quiet(i)
  PROVE  Room(i)'
  <1> USE DEF Quiet, LiveApps, Roomy
  <1>1. Divides(i)'
    BY DEF Divides, Awaits, Frame
  <1>2. ASSUME ~mixed', NEW a \in LiveApps'
        PROVE  Roomy(lim[a], LiveApps)' \/ WithoutIt(i, a)'
    <2>1. Roomy(lim[a], LiveApps) \/ WithoutIt(i, a)
      BY <1>2 DEF Room
    <2>2. CASE pc'[i] # "idle" /\ cmd'[i] = cmd[i] /\ app'[i] = app[i]
      BY <2>1, <2>2 DEF WithoutIt, Departs
    <2>3. CASE ~mixed /\ Departs(i) => app[i] \notin LiveApps
      <3>1. WithoutIt(i, a) => LiveApps \ {app[i]} = LiveApps
        BY <1>2, <2>3 DEF WithoutIt
      <3>2. Roomy(lim[a], LiveApps)
        BY <2>1, <3>1 DEF WithoutIt
      <3> QED BY <3>2
    <2> QED BY <2>2, <2>3
  <1>3. ASSUME ~mixed' PROVE Shrinks(i)'
    BY <1>3 DEF Room, Shrinks, Awaits
  <1>4. ASSUME ~mixed' PROVE \A l \in launches' : Roomy(l.lim, LiveApps \cup {l.app})'
    BY <1>4 DEF Room
  <1> QED BY <1>1, <1>2, <1>3, <1>4 DEF Room

\* Every step but those of the loop, of a launch and of a kill is quiet.
LEMMA QuietSteps ==
  ASSUME IInv, NEW i \in Invs, Frame(i), Known(i),
         \/ WritePin(i) \/ CapSlice(i) \/ Load(i) \/ Recap(i) \/ Started(i)
         \/ Unregister(i) \/ Add(i)
  PROVE  Quiet(i)
  <1> USE DEF host, conf, loop, args, past, At, Goto, Leave, Finish, IInv, TypeOK, Known, Placed, Quiet,
              Departs, EnterLoop
  <1>1. \A a \in LiveApps : ~mixed => (a \in reg \/ (pc[i] = "down"))
    BY DEF Due
  <1>2. CASE WritePin(i)
    BY <1>2 DEF WritePin
  <1>3. CASE CapSlice(i)
    BY <1>1, <1>3 DEF CapSlice
  <1>4. CASE Load(i)
    BY <1>1, <1>4 DEF Load
  <1>5. CASE Recap(i)
    BY <1>5 DEF Recap
  <1>6. CASE Started(i)
    BY <1>6 DEF Started
  <1>7. CASE Unregister(i)
    BY <1>1, <1>7 DEF Unregister
  <1>8. CASE Add(i)
    BY <1>8 DEF Add
  <1> QED BY <1>2, <1>3, <1>4, <1>5, <1>6, <1>7, <1>8

\* Whoever is live, or will be, is counted (or is about to go).
LEMMA AllCounted ==
  ASSUME IInv, NEW i \in Invs, Known(i), pc[i] \in {"reapply", "spawn"}, NEW a \in Apps
  PROVE  /\ ~mixed => Expected(i) \subseteq Sharing(a, Pending(i), Leaving(i))
         /\ cmd[i] = "sync" => LiveApps \cap reg \subseteq Sharing(a, Pending(i), Leaving(i))
         /\ Pending(i) \in SUBSET Apps
  <1>1. ~mixed => LiveApps \subseteq reg
    BY DEF Known, Due
  <1>2. ~mixed => Pending(i) \subseteq reg
    BY DEF Known, Calm, Reads, Pending
  <1>3. Pending(i) \in SUBSET Apps
    BY DEF Pending, IInv, Aimed
  <1> QED BY <1>1, <1>2, <1>3 DEF Expected, Sharing, LiveApps, ScopeIsLive, Leaving, IInv, TypeOK

\* What is resolved leaves room for all that will be live.
LEMMA ResolveRoom ==
  ASSUME IInv, NEW i \in Invs, Frame(i), Known(i), Room(i), Resolve(i)
  PROVE  Room(i)'
  <1> USE DEF host, conf, loop, args, past, At, IInv, TypeOK
  <1>1. /\ pc[i] = "reapply" /\ aim[i] = NoApp
        /\ UNCHANGED <<account, reg, scope, lim, launches, pc, cmd, app, alone, mixed>>
    BY DEF Resolve
  <1>2. PICK a \in todo[i] :
          /\ todo' = [todo EXCEPT ![i] = @ \ {a}]
          /\ IF a \in reg \ Leaving(i) /\ ScopeIsLive(a)
             THEN /\ aim' = [aim EXCEPT ![i] = a]
                  /\ val' = [val EXCEPT ![i] = AppLimitsFor(a, pin[a], Pending(i), Leaving(i))]
             ELSE UNCHANGED <<aim, val>>
    BY DEF Resolve
  <1>3. a \in Apps
    OBVIOUS
  <1>4. ASSUME aim'[i] # NoApp
        PROVE  val'[i] = AppLimitsFor(a, pin[a], Pending(i), Leaving(i))
    BY <1>1, <1>2, <1>4
  <1>5. \A b \in LiveApps \cap reg : b \notin Leaving(i) /\ Awaits(i, b) => Awaits(i, b)'
    BY <1>1, <1>2, NullsAssumption DEF Awaits, LiveApps, ScopeIsLive
  <1>6. LiveApps' = LiveApps /\ Expected(i)' = Expected(i) /\ Pending(i) \in SUBSET Apps
    BY <1>1, <1>3, AllCounted DEF LiveApps, Expected, Pending, Leaving
  <1>7. \A S \in SUBSET Sharing(a, Pending(i), Leaving(i)) :
           Roomy(AppLimitsFor(a, pin[a], Pending(i), Leaving(i)), S)
    BY <1>3, <1>6, PinTypes, ResolvedRoom
  <1>8. Divides(i)'
    <2> SUFFICES ASSUME alone, cmd[i] = "sync", Divides(i) PROVE Divides(i)'
      BY <1>1 DEF Divides, Room
    <2>1. aim'[i] # NoApp => Roomy(val'[i], LiveApps \cap reg)
      BY <1>1, <1>3, <1>4, <1>7, AllCounted
    <2>2. \A b \in LiveApps \cap reg : Awaits(i, b)' \/ Roomy(lim[b], LiveApps \cap reg)
      BY <1>1, <1>5 DEF Divides, Leaving
    <2> QED BY <1>1, <1>6, <2>1, <2>2 DEF Divides, Roomy
  <1>9. ASSUME ~mixed PROVE Shrinks(i)'
    <2>1. aim'[i] # NoApp => Roomy(val'[i], Expected(i))
      BY <1>1, <1>3, <1>4, <1>7, <1>9, AllCounted
    <2>2. LiveApps \subseteq reg
      BY <1>1, <1>9 DEF Known, Due
    <2>3. cmd[i] \in {"start", "restart"} =>
             \A b \in LiveApps : Awaits(i, b)' \/ Roomy(lim[b], LiveApps \cup {app[i]})
      BY <1>1, <1>5, <1>9, <2>2 DEF Room, Shrinks, Leaving
    <2> QED BY <1>1, <1>6, <2>1, <2>3 DEF Shrinks, Roomy
  <1> QED BY <1>1, <1>6, <1>8, <1>9 DEF Room, Roomy, WithoutIt, Departs

\* Sets of apps, for the lemmas about room.
LEMMA AppSets ==
  ASSUME IInv, NEW i \in Invs
  PROVE  /\ LiveApps \in SUBSET Apps /\ LiveApps \cap reg \in SUBSET Apps
         /\ cmd[i] \in {"start", "restart"} => LiveApps \cup {app[i]} \in SUBSET Apps
         /\ \A a \in Apps : lim[a] \in LimitsOrNone
         /\ val[i] \in LimitsOrNone
  BY DEF IInv, TypeOK, Aimed, LiveApps

\* An app whose limits are set leaves the room it was resolved with.
LEMMA ApplyRoom ==
  ASSUME IInv, NEW i \in Invs, Frame(i), Known(i), Room(i), Apply(i)
  PROVE  Room(i)'
  <1>1. /\ pc[i] = "reapply" /\ aim[i] # NoApp /\ aim'[i] = NoApp
        /\ UNCHANGED <<account, reg, scope, launches, pc, cmd, app, todo, alone, mixed>>
        /\ \A b \in Apps : b # aim[i] => lim'[b] = lim[b]
        /\ aim[i] \in LiveApps => lim'[aim[i]] = val[i]
    BY DEF Apply, ScopeIsLive, At, conf, loop, args, past, IInv, TypeOK, LiveApps
  <1>2. LiveApps' = LiveApps /\ LiveApps \subseteq Apps
    BY <1>1 DEF LiveApps
  <1>3. \A b \in LiveApps : lim'[b] = IF b = aim[i] THEN val[i] ELSE lim[b]
    BY <1>1, <1>2
  <1>4. \A b \in LiveApps : Awaits(i, b) /\ b # aim[i] => Awaits(i, b)'
    BY <1>1 DEF Awaits
  <1>5. Divides(i)'
    <2> SUFFICES ASSUME alone, cmd[i] = "sync", Divides(i) PROVE Divides(i)'
      BY <1>1 DEF Divides, Room
    <2>1. \A b \in LiveApps \cap reg : Awaits(i, b)' \/ Roomy(lim'[b], LiveApps \cap reg)
      BY <1>1, <1>3, <1>4 DEF Divides
    <2> QED BY <1>1, <1>2, <2>1 DEF Divides, Roomy
  <1>6. ASSUME ~mixed PROVE Shrinks(i) /\ Roomy(val[i], Expected(i))
    BY <1>1, <1>6 DEF Room, Shrinks
  <1>7. ASSUME ~mixed PROVE Shrinks(i)'
    <2> SUFFICES ASSUME cmd[i] \in {"start", "restart"}, NEW b \in LiveApps
                 PROVE  Awaits(i, b)' \/ Roomy(lim'[b], LiveApps \cup {app[i]})
      BY <1>1, <1>2 DEF Shrinks, Roomy
    <2>1. Expected(i) = LiveApps \cup {app[i]}
      BY DEF Expected, Pending, Leaving
    <2>2. Awaits(i, b) \/ Roomy(lim[b], LiveApps \cup {app[i]})
      BY <1>1, <1>6, <1>7 DEF Shrinks
    <2> QED BY <1>3, <1>4, <1>6, <1>7, <2>1, <2>2
  <1>8. ASSUME ~mixed, NEW b \in LiveApps
        PROVE  Roomy(lim'[b], LiveApps) \/ (Departs(i) /\ Roomy(lim'[b], LiveApps \ {app[i]}))
    <2>1. CASE b # aim[i]
      BY <1>1, <1>3, <1>8, <2>1 DEF Room, WithoutIt
    <2>2. CASE b = aim[i] /\ Departs(i)
      <3>1. Expected(i) = LiveApps \ {app[i]}
        BY <2>2 DEF Expected, Pending, Leaving, Departs
      <3> QED BY <1>3, <1>6, <1>8, <2>2, <3>1
    <2>3. CASE b = aim[i] /\ ~Departs(i)
      <3>1. Leaving(i) = {} /\ (Pending(i) = {} \/ cmd[i] \in {"start", "restart"})
        BY <1>1, <2>3 DEF Leaving, Departs, Pending
      <3>2. LiveApps \in SUBSET Expected(i) /\ Expected(i) \in SUBSET Apps
        BY <3>1, AppSets DEF Expected, Pending
      <3>3. Roomy(val[i], LiveApps)
        BY <1>6, <1>8, <3>2, AppSets, RoomForFewer DEF IInv
      <3> QED BY <1>3, <2>3, <3>3
    <2> QED BY <2>1, <2>2, <2>3
  <1> QED BY <1>1, <1>2, <1>5, <1>7, <1>8 DEF Room, Roomy, WithoutIt, Departs

\* When the loop is over, all have shrunk, or a sweep has divided the allowance.
LEMMA AfterLoopRoom ==
  ASSUME IInv, NEW i \in Invs, Frame(i), Known(i), Room(i), AfterLoop(i)
  PROVE  Room(i)'
  <1>1. /\ pc[i] = "reapply" /\ aim[i] = NoApp /\ todo[i] = {} /\ todo' = todo /\ aim' = aim
        /\ UNCHANGED <<account, reg, scope, lim, launches, alone>>
        /\ \/ pc'[i] \in {"spawn", "down", "unregister"} /\ UNCHANGED <<cmd, app, mixed>>
           \/ pc'[i] = "idle" /\ ~Departs(i) /\ cmd[i] \notin {"start", "restart"}
        /\ cmd[i] = "sync" => pc'[i] = "idle"
        /\ pc'[i] = "spawn" => cmd[i] \in {"start", "restart"}
        /\ ~mixed' => ~mixed \/ (/\ cmd[i] = "sync" /\ alone /\ pc'[i] = "idle"
                                 /\ LiveApps \subseteq reg)
    BY DEF AfterLoop, At, Goto, Finish, Leave, host, conf, loop, args, past, IInv, TypeOK, Departs,
           LiveApps
  <1>2. LiveApps' = LiveApps /\ \A a \in LiveApps : ~Awaits(i, a)
    BY <1>1, NullsAssumption DEF LiveApps, Awaits
  <1>3. Divides(i)'
    BY <1>1 DEF Divides
  <1>4. CASE ~mixed
    <2>1. ASSUME NEW a \in LiveApps
          PROVE  Roomy(lim[a], LiveApps)' \/ WithoutIt(i, a)'
      <3>1. Roomy(lim[a], LiveApps) \/ WithoutIt(i, a)
        BY <1>4 DEF Room
      <3> QED BY <1>1, <1>2, <3>1 DEF Roomy, WithoutIt, Departs
    <2>2. \A l \in launches : Roomy(l.lim, LiveApps \cup {l.app})'
      BY <1>1, <1>2, <1>4 DEF Room, Roomy
    <2>3. Shrinks(i)'
      BY <1>1, <1>2, <1>4 DEF Room, Shrinks, Roomy
    <2> QED BY <1>1, <1>2, <1>3, <2>1, <2>2, <2>3 DEF Room
  <1>5. CASE mixed /\ ~mixed'
    <2>1. cmd[i] = "sync" /\ alone /\ pc'[i] = "idle" /\ LiveApps \cap reg = LiveApps
      BY <1>1, <1>5
    <2>2. \A a \in LiveApps : Roomy(lim[a], LiveApps)
      BY <1>1, <1>2, <2>1 DEF Room, Divides
    <2>3. launches' = {}
      BY <1>1, <2>1 DEF Known, Calm, Launches
    <2>4. Shrinks(i)'
      BY <1>1, <2>1 DEF Shrinks
    <2> QED BY <1>1, <1>2, <1>3, <2>2, <2>3, <2>4 DEF Room, Roomy
  <1> QED BY <1>3, <1>4, <1>5 DEF Room

\* A launch leaves room for all that are live, and its own app.
LEMMA SpawnRoom ==
  ASSUME IInv, NEW i \in Invs, Frame(i), Known(i), Room(i), Spawn(i)
  PROVE  Room(i)'
  <1>1. /\ pc[i] = "spawn" /\ cmd[i] \in {"start", "restart"} /\ app[i] \in Apps /\ aim[i] = NoApp
        /\ UNCHANGED <<account, reg, scope, lim, aim, val, alone>>
        /\ mixed' = mixed /\ pc'[i] \in {"idle", "recap"}
        /\ pc'[i] = "recap" => app'[i] = app[i]
        /\ cmd'[i] \in {"start", "restart", "stats"}
        /\ \A l \in launches' : l \in launches \/
              l = [app |-> app[i], lim |-> AppLimitsFor(app[i], own[i], {}, {})]
    BY DEF Spawn, At, Goto, Finish, Leave, conf, loop, args, past, IInv, TypeOK, Known, Placed,
           Aimed, AboutAnApp
  <1>2. LiveApps' = LiveApps
    BY <1>1 DEF LiveApps
  <1>3. Divides(i)'
    BY <1>1 DEF Divides
  <1>4. ASSUME ~mixed
        PROVE  Roomy(AppLimitsFor(app[i], own[i], {}, {}), LiveApps \cup {app[i]})
    <2>1. LiveApps \subseteq reg
      BY <1>1, <1>4 DEF Known, Due
    <2>2. LiveApps \cup {app[i]} \in SUBSET Sharing(app[i], {}, {})
      BY <1>1, <2>1 DEF Sharing, ScopeIsLive, LiveApps
    <2> QED BY <1>1, <2>2, PinTypes, ResolvedRoom
  <1>5. ASSUME ~mixed PROVE Shrinks(i)'
    BY <1>1, <1>2, <1>5 DEF Room, Shrinks, Roomy
  <1>6. ASSUME ~mixed, NEW l \in launches'
        PROVE  Roomy(l.lim, LiveApps \cup {l.app})
    <2>1. CASE l \in launches
      BY <1>6, <2>1 DEF Room
    <2>2. CASE l = [app |-> app[i], lim |-> AppLimitsFor(app[i], own[i], {}, {})]
      <3>1. l.app = app[i] /\ l.lim = AppLimitsFor(app[i], own[i], {}, {})
        BY <2>2
      <3> QED BY <1>4, <1>6, <3>1
    <2> QED BY <1>1, <2>1, <2>2
  <1>7. ASSUME ~mixed, NEW a \in LiveApps PROVE Roomy(lim[a], LiveApps)
    BY <1>1, <1>7 DEF Room, WithoutIt, Departs
  <1> QED BY <1>1, <1>2, <1>3, <1>5, <1>6, <1>7 DEF Room, Roomy

\* Fewer live apps need no more room.
LEMMA FewerLive ==
  ASSUME IInv, NEW i \in Invs, pc[i] # "idle", account' = account,
         LiveApps' \in SUBSET LiveApps
  PROVE  /\ \A a \in LiveApps : Roomy(lim[a], LiveApps) => Roomy(lim[a], LiveApps')
         /\ cmd[i] \in {"start", "restart"} =>
               \A a \in LiveApps : Roomy(lim[a], LiveApps \cup {app[i]}) =>
                                      Roomy(lim[a], LiveApps' \cup {app[i]})
         /\ \A a \in LiveApps : Roomy(lim[a], LiveApps \ {app[i]}) =>
                                   Roomy(lim[a], LiveApps' \ {app[i]})
         /\ \A a \in LiveApps : Roomy(lim[a], LiveApps \cap reg) =>
                                   Roomy(lim[a], LiveApps' \cap reg)
         /\ \A l \in launches : Roomy(l.lim, LiveApps \cup {l.app}) =>
                                   Roomy(l.lim, LiveApps' \cup {l.app})
  <1>1. \A a \in LiveApps : lim[a] \in LimitsOrNone
    BY AppSets DEF LiveApps
  <1>2. \A l \in launches : l.lim \in LimitsOrNone /\ l.app \in Apps
    BY DEF IInv, TypeOK
  <1>3. cmd[i] \in {"start", "restart"} => app[i] \in Apps
    BY DEF IInv, Aimed
  <1>4. LiveApps \in SUBSET Apps
    BY DEF LiveApps
  <1>5. TypeOK
    BY DEF IInv
  <1>6. ASSUME NEW l \in LimitsOrNone, NEW S \in SUBSET Apps, NEW T \in SUBSET S, Roomy(l, S)
        PROVE  Roomy(l, T)
    BY <1>5, <1>6, RoomForFewer
  <1>7. ASSUME NEW a \in LiveApps PROVE Roomy(lim[a], LiveApps) => Roomy(lim[a], LiveApps')
    BY <1>1, <1>4, <1>6
  <1>8. ASSUME cmd[i] \in {"start", "restart"}, NEW a \in LiveApps,
               Roomy(lim[a], LiveApps \cup {app[i]})
        PROVE  Roomy(lim[a], LiveApps' \cup {app[i]})
    <2>1. LiveApps' \cup {app[i]} \in SUBSET (LiveApps \cup {app[i]})
      OBVIOUS
    <2>2. LiveApps \cup {app[i]} \in SUBSET Apps
      BY <1>3, <1>4, <1>8
    <2> QED BY <1>1, <1>6, <1>8, <2>1, <2>2
  <1>9. ASSUME NEW a \in LiveApps, Roomy(lim[a], LiveApps \ {app[i]})
        PROVE  Roomy(lim[a], LiveApps' \ {app[i]})
    <2>1. LiveApps' \ {app[i]} \in SUBSET (LiveApps \ {app[i]}) /\ LiveApps \ {app[i]} \in SUBSET Apps
      BY <1>4
    <2> QED BY <1>1, <1>6, <1>9, <2>1
  <1>10. ASSUME NEW a \in LiveApps, Roomy(lim[a], LiveApps \cap reg)
         PROVE  Roomy(lim[a], LiveApps' \cap reg)
    <2>1. LiveApps' \cap reg \in SUBSET (LiveApps \cap reg) /\ LiveApps \cap reg \in SUBSET Apps
      BY <1>4
    <2> QED BY <1>1, <1>6, <1>10, <2>1
  <1>11. ASSUME NEW l \in launches, Roomy(l.lim, LiveApps \cup {l.app})
         PROVE  Roomy(l.lim, LiveApps' \cup {l.app})
    <2>1. LiveApps' \cup {l.app} \in SUBSET (LiveApps \cup {l.app})
      OBVIOUS
    <2>2. LiveApps \cup {l.app} \in SUBSET Apps
      BY <1>2, <1>4
    <2> QED BY <1>2, <1>6, <1>11, <2>1, <2>2
  <1> QED BY <1>7, <1>8, <1>9, <1>10, <1>11

\* Whoever is to go has gone, or a helper of its own is left to a sweep.
LEMMA KillRoom ==
  ASSUME IInv, NEW i \in Invs, Frame(i), Known(i), Room(i), StopTree(i) \/ GiveUp(i) \/ Down(i)
  PROVE  Room(i)'
  <1>1. /\ UNCHANGED <<account, reg, lim, todo, aim, val, alone>>
        /\ pc[i] \in {"kill", "wait", "down"} /\ pc'[i] \in {"load", "idle"}
        /\ pc[i] # "down" => cmd[i] \in {"start", "restart"}
        /\ pc[i] = "down" => cmd[i] \in {"stop", "remove"} /\ pc'[i] = "idle"
        /\ launches' \subseteq launches /\ aim[i] = NoApp
        /\ pc'[i] = "load" => cmd'[i] \in {"start", "restart"}
    BY DEF StopTree, GiveUp, Down, At, Goto, Leave, host, conf, loop, args, past, IInv, TypeOK,
           Known, Placed
  <1>2. LiveApps' \subseteq LiveApps
    BY DEF StopTree, GiveUp, Down, Kill, LiveApps, IInv, TypeOK
  <1>3. ASSUME ~mixed'
        PROVE  ~mixed /\ (pc[i] = "down" => app[i] \notin LiveApps')
    <2>1. CASE Down(i)
      <3>1. app[i] \in Apps /\ \A a \in LiveApps : ~mixed => a \in reg \/ cmd[i] = "remove"
        BY <2>1 DEF Down, At, Known, Due, IInv, Aimed, AboutAnApp
      <3> QED BY <1>3, <2>1, <3>1 DEF Down, Kill, LiveApps, IInv, TypeOK
    <2>2. CASE ~Down(i)
      BY <1>3, <2>2 DEF StopTree, GiveUp, Kill, At
    <2> QED BY <2>1, <2>2
  <1>4. Divides(i)'
    BY <1>1 DEF Divides
  <1>5. ASSUME ~mixed' PROVE Shrinks(i)'
    BY <1>1 DEF Shrinks
  <1>6. ASSUME ~mixed', NEW a \in LiveApps'
        PROVE  Roomy(lim[a], LiveApps')
    <2>1. Roomy(lim[a], LiveApps) \/ WithoutIt(i, a)
      BY <1>2, <1>3, <1>6 DEF Room
    <2>2. CASE Roomy(lim[a], LiveApps)
      BY <1>1, <1>2, <1>6, <2>2, FewerLive
    <2>3. CASE WithoutIt(i, a)
      <3>1. pc[i] = "down"
        BY <1>1, <2>3 DEF WithoutIt, Departs
      <3>2. LiveApps' \ {app[i]} = LiveApps'
        BY <1>3, <1>6, <3>1
      <3>3. Roomy(lim[a], LiveApps' \ {app[i]})
        BY <1>1, <1>2, <1>6, <2>3, FewerLive DEF WithoutIt
      <3> QED BY <3>2, <3>3
    <2> QED BY <2>1, <2>2, <2>3
  <1>7. ASSUME ~mixed', NEW l \in launches'
        PROVE  Roomy(l.lim, LiveApps' \cup {l.app})
    BY <1>1, <1>2, <1>3, <1>7, FewerLive DEF Room
  <1> QED BY <1>1, <1>4, <1>5, <1>6, <1>7 DEF Room, Roomy

\* An app that ends of itself, a scope or a slice that is collected: room is what there was.
LEMMA FewerKept ==
  ASSUME IInv, LInv, GInv, LiveApps' \subseteq LiveApps, \A a \in LiveApps' : lim'[a] = lim[a],
         UNCHANGED <<account, reg, launches, pc, cmd, app, todo, aim, val, alone, mixed>>
  PROVE  GInv'
  <1>0. TypeOK /\ LiveApps \in SUBSET Apps
    BY DEF IInv, LiveApps
  <1>1. ASSUME NEW i \in Invs PROVE Divides(i)'
    <2> SUFFICES ASSUME alone, cmd[i] = "sync", pc[i] # "idle", Divides(i) PROVE Divides(i)'
      BY DEF GInv, Divides
    <2>1. LiveApps' \cap reg \in SUBSET (LiveApps \cap reg) /\ LiveApps \cap reg \in SUBSET Apps
      BY <1>0
    <2>2. aim[i] # NoApp => Roomy(val[i], LiveApps' \cap reg)
      BY <1>0, <2>1, AppSets, RoomForFewer DEF Divides
    <2>3. \A a \in LiveApps' \cap reg : Awaits(i, a)' \/ Roomy(lim[a], LiveApps' \cap reg)
      BY FewerLive DEF Divides, Awaits
    <2> QED BY <2>2, <2>3 DEF Divides, Roomy
  <1>2. ASSUME ~mixed, NEW i \in Invs PROVE Shrinks(i)'
    <2>1. Shrinks(i) /\ Placed(i)
      BY <1>2 DEF GInv, RoomInv, LInv
    <2>2. CASE pc[i] = "idle"
      BY <2>1, <2>2 DEF Shrinks, Placed
    <2>3. CASE pc[i] # "idle"
      <3>1. aim[i] # NoApp => Roomy(val[i], Expected(i)')
        <4>1. aim[i] # NoApp => pc[i] = "reapply"
          BY <2>1 DEF Placed
        <4>2. Expected(i)' \in SUBSET Expected(i) /\ Expected(i) \in SUBSET Apps
          BY DEF Expected, Pending, Leaving, LiveApps, IInv, Aimed
        <4> QED BY <1>0, <2>1, <4>2, AppSets, RoomForFewer DEF Shrinks
      <3>2. pc[i] = "reapply" /\ cmd[i] \in {"start", "restart"} =>
               \A a \in LiveApps' : Awaits(i, a)' \/ Roomy(lim[a], LiveApps' \cup {app[i]})
        BY <2>1, <2>3, FewerLive DEF Shrinks, Awaits
      <3>3. pc[i] \in {"spawn", "recap", "wait"} =>
               \A a \in LiveApps' : Roomy(lim[a], LiveApps' \cup {app[i]})
        BY <2>1, <2>3, FewerLive DEF Shrinks, Placed
      <3> QED BY <3>1, <3>2, <3>3 DEF Shrinks, Roomy
    <2> QED BY <2>2, <2>3
  <1>3. ASSUME ~mixed, NEW a \in LiveApps'
        PROVE  Roomy(lim[a], LiveApps') \/ \E i \in Invs : WithoutIt(i, a)'
    <2>1. CASE Roomy(lim[a], LiveApps)
      BY <1>0, <1>3, <2>1, AppSets, RoomForFewer DEF IInv, TypeOK
    <2>2. ASSUME NEW i \in Invs, WithoutIt(i, a) PROVE WithoutIt(i, a)'
      BY <1>3, <2>2, FewerLive DEF WithoutIt, Departs, Roomy
    <2> QED BY <1>3, <2>1, <2>2 DEF GInv, RoomInv
  <1>4. ASSUME ~mixed, NEW l \in launches
        PROVE  Roomy(l.lim, LiveApps' \cup {l.app})
    <2>1. l.lim \in LimitsOrNone /\ l.app \in Apps
      BY DEF IInv, TypeOK
    <2>2. /\ LiveApps' \cup {l.app} \in SUBSET (LiveApps \cup {l.app})
          /\ LiveApps \cup {l.app} \in SUBSET Apps
      BY <1>0, <2>1
    <2>3. Roomy(l.lim, LiveApps \cup {l.app})
      BY <1>4 DEF GInv, RoomInv
    <2> QED BY <1>0, <2>1, <2>2, <2>3, RoomForFewer
  <1> QED BY <1>1, <1>2, <1>3, <1>4 DEF GInv, RoomInv, Roomy

\* A newcomer finds the room its siblings have left.
LEMMA RegisterRoom ==
  ASSUME IInv, LInv, GInv, Register
  PROVE  GInv'
  <1>1. PICK l \in launches :
          /\ launches' = launches \ {l}
          /\ IF scope[l.app] = "none"
             THEN /\ scope' = [scope EXCEPT ![l.app] = "live"]
                  /\ lim' = [lim EXCEPT ![l.app] = l.lim]
                  /\ slice' = IF slice = NoSlice THEN NoLimit ELSE slice
             ELSE UNCHANGED <<scope, lim, slice>>
    BY DEF Register
  <1>2. /\ UNCHANGED <<account, reg, pc, cmd, app, todo, aim, val, alone, mixed>>
        /\ l.app \in Apps
    BY DEF Register, conf, loop, args, past, IInv, TypeOK
  <1>3. CASE ~Calm
    BY <1>2, <1>3 DEF Calm, GInv, RoomInv, Divides
  <1>4. CASE Calm
    <2>1. PICK i \in Invs : Launches(i, l)
      BY <1>4 DEF LInv, CalmInv
    <2>2. /\ pc[i] \in {"recap", "wait"} /\ app[i] = l.app /\ cmd[i] \in {"start", "restart"}
          /\ \A j \in Invs : pc[j] # "idle" => j = i
          /\ \A k \in launches : k.app = l.app
          /\ \A j \in Invs : aim[j] = NoApp
      <3>1. pc[i] \in {"recap", "wait"} /\ app[i] = l.app
        BY <2>1 DEF Launches
      <3>2. \A j \in Invs : pc[j] # "idle" => j = i
        BY <1>4, <3>1 DEF LInv, CalmInv
      <3>3. \A k \in launches : k.app = l.app
        BY <1>4, <3>1, <3>2 DEF LInv, CalmInv, Launches
      <3>4. \A j \in Invs : aim[j] = NoApp
        BY <3>1, <3>2 DEF LInv, Placed
      <3> QED BY <3>1, <3>2, <3>3, <3>4 DEF LInv, Placed
    <2>3. \A j \in Invs : Divides(j)'
      BY <1>2, <2>2 DEF Divides
    <2>4. CASE mixed
      BY <1>2, <2>3, <2>4 DEF GInv, RoomInv
    <2>5. CASE ~mixed
      <3> DEFINE S == LiveApps \cup {l.app}
      <3>1. LiveApps' \in SUBSET S /\ S \in SUBSET Apps /\ LiveApps' \cup {l.app} = S
        <4>1. LiveApps' \subseteq S /\ LiveApps \subseteq LiveApps' \cup {l.app}
          BY <1>1, <1>2 DEF LiveApps, IInv, TypeOK
        <4> QED BY <1>2, <4>1 DEF LiveApps
      <3> HIDE DEF S
      <3>2. ASSUME NEW a \in LiveApps' PROVE Roomy(lim'[a], S) /\ lim'[a] \in LimitsOrNone
        <4>1. CASE a \in LiveApps /\ lim'[a] = lim[a]
          BY <2>2, <2>5, <4>1 DEF GInv, RoomInv, Shrinks, S, LiveApps, IInv, TypeOK
        <4>2. CASE a = l.app /\ lim'[a] = l.lim
          BY <2>5, <4>2 DEF GInv, RoomInv, S, IInv, TypeOK
        <4> QED BY <1>1, <1>2, <3>2, <4>1, <4>2 DEF LiveApps, IInv, TypeOK
      <3>3. ASSUME NEW a \in LiveApps' PROVE Roomy(lim'[a], LiveApps')
        BY <3>1, <3>2, <3>3, RoomForFewer DEF IInv
      <3>4. ASSUME NEW k \in launches' PROVE Roomy(k.lim, LiveApps' \cup {k.app})
        <4>1. k.app = l.app /\ Roomy(k.lim, S)
          BY <1>1, <2>2, <2>5, <3>4 DEF GInv, RoomInv, S
        <4> QED BY <3>1, <4>1
      <3>5. ASSUME NEW j \in Invs PROVE Shrinks(j)'
        BY <1>2, <2>2, <3>1, <3>2 DEF Shrinks, Roomy
      <3> QED BY <1>2, <2>3, <3>3, <3>4, <3>5 DEF GInv, RoomInv, Roomy
    <2> QED BY <2>4, <2>5
  <1> QED BY <1>3, <1>4

\* A command that begins has divided nothing yet.
LEMMA BeginRoom ==
  ASSUME IInv, LInv, GInv, NEW i \in Invs, NEW c \in Commands, NEW a \in Apps, Begin(i, c, a)
  PROVE  GInv'
  <1>1. /\ UNCHANGED <<account, reg, scope, lim, launches, aim, val, todo>>
        /\ pc[i] = "idle" /\ pc'[i] \in {"register", "pin", "cap"} /\ cmd'[i] = c
        /\ pc'[i] # "cap" => c \in {"add", "set-memory-max"}
        /\ \A j \in Invs \ {i} : pc'[j] = pc[j] /\ cmd'[j] = cmd[j] /\ app'[j] = app[j]
        /\ \A j \in Invs : pc[j] = "idle" => aim[j] = NoApp
    BY DEF Begin, At, Goto, FirstStep, host, conf, loop, IInv, TypeOK, LInv, Placed
  <1>2. LiveApps' = LiveApps
    BY <1>1 DEF LiveApps
  <1>3. /\ alone' => \A j \in Invs : pc[j] = "idle"
        /\ ~mixed' => ~mixed /\ \A j \in Invs : pc[j] = "idle"
    <2>1. alone' = (InFlight = {} /\ launches = {}) /\ mixed' = (mixed \/ InFlight # {})
      BY Zenon DEF Begin
    <2>2. InFlight = {} => \A j \in Invs : pc[j] = "idle"
      BY DEF InFlight
    <2> QED BY <2>1, <2>2, Zenon
  <1>4. ASSUME NEW j \in Invs PROVE Divides(j)'
    BY <1>1, <1>3 DEF Divides, Awaits
  <1>5. ASSUME ~mixed', NEW j \in Invs PROVE Shrinks(j)'
    BY <1>1, <1>3, <1>5 DEF Shrinks
  <1>6. ASSUME ~mixed'
        PROVE  /\ \A b \in LiveApps : Roomy(lim[b], LiveApps)
               /\ \A l \in launches : Roomy(l.lim, LiveApps \cup {l.app})
    BY <1>3, <1>6 DEF GInv, RoomInv, WithoutIt, Departs
  <1> QED BY <1>1, <1>2, <1>4, <1>5, <1>6 DEF GInv, RoomInv, Roomy

\* A sweep has just divided the allowance.
LEMMA InitGInv == Init => GInv
  <1> SUFFICES ASSUME Init PROVE GInv
    OBVIOUS
  <1>1. IInv
    BY InitIInv
  <1>2. ASSUME NEW a \in LiveApps PROVE Roomy(lim[a], LiveApps)
    <2>1. lim[a] = Resolved(a) /\ a \in Apps /\ reg = Apps
      <3>1. PICK up \in SUBSET Apps :
               /\ scope = [b \in Apps |-> IF b \in up THEN "live" ELSE "none"]
               /\ lim = [b \in Apps |-> IF b \in up THEN Resolved(b) ELSE NoLimits]
               /\ slice = IF up = {} THEN NoSlice ELSE account
        BY Zenon DEF Init
      <3> QED BY <1>2, <3>1 DEF Init, LiveApps
    <2>2. LiveApps \in SUBSET Sharing(a, {}, {})
      BY <2>1 DEF Sharing, ScopeIsLive, LiveApps
    <2> QED BY <1>1, <2>1, <2>2, PinTypes, ResolvedRoom DEF Resolved
  <1>3. launches = {} /\ \A i \in Invs : pc[i] = "idle" /\ aim[i] = NoApp
    BY DEF Init
  <1> QED BY <1>2, <1>3 DEF GInv, RoomInv, Divides, Shrinks

\* Every step leaves the room it has to.
LEMMA StepGInv == IInv /\ LInv /\ GInv /\ [Next]_vars => GInv'
  <1> SUFFICES ASSUME IInv, LInv, GInv, [Next]_vars PROVE GInv'
    OBVIOUS
  <1>1. CASE UNCHANGED vars
    <2>1. LiveApps' = LiveApps
      BY <1>1 DEF vars, host, LiveApps
    <2> QED BY <1>1, <2>1, FewerKept DEF vars, host, conf, loop, args, past
  <1>2. ASSUME NEW i \in Invs, Step(i) PROVE GInv'
    <2>1. Frame(i) /\ Known(i) /\ Room(i)
      BY <1>2, StepFrame, KnownNow, RoomNow DEF Frame
    <2>2. Room(i)'
      BY <1>2, <2>1, QuietSteps, QuietRoom, ResolveRoom, ApplyRoom, AfterLoopRoom, SpawnRoom,
         KillRoom DEF Step
    <2> QED BY <2>1, <2>2, OwnRoom
  <1>3. ASSUME NEW a \in Apps, Exit(a) \/ CollectUnit(a) PROVE GInv'
    <2>1. LiveApps' \subseteq LiveApps /\ \A b \in LiveApps' : lim'[b] = lim[b]
      BY <1>3 DEF Exit, CollectUnit, LiveApps, IInv, TypeOK
    <2> QED BY <1>3, <2>1, FewerKept DEF Exit, CollectUnit, conf, loop, args, past
  <1>4. CASE CollectSlice
    <2>1. LiveApps' = LiveApps
      BY <1>4 DEF CollectSlice, LiveApps
    <2> QED BY <1>4, <2>1, FewerKept DEF CollectSlice, conf, loop, args, past
  <1>5. CASE ChangeAllowance \/ \E i \in Invs : CutShort(i)
    <2>1. mixed' /\ ~alone'
      BY <1>5 DEF ChangeAllowance, CutShort
    <2> QED BY <2>1 DEF GInv, RoomInv, Divides
  <1> QED BY <1>1, <1>2, <1>3, <1>4, <1>5, BeginRoom, RegisterRoom DEF Next

-----------------------------------------------------------------------------
(* What the live apps are guaranteed together *)

\* A set of numbers has a least one: a least counterexample stands in for induction.
LEMMA LeastNat ==
  ASSUME NEW T \in SUBSET Nat, T # {}
  PROVE  \E n \in T : \A m \in T : n <= m
  <1> DEFINE R == {ss \in Nat \X Nat : ss[1] < ss[2]}
  <1>0. IsWellFoundedOn(R, Nat)
    BY NatLessThanWellFounded DEF OpToRel
  <1>1. \A m, n \in Nat : m < n => <<m, n>> \in R
    OBVIOUS
  <1>2. PICK n \in T : \A m \in T : ~(<<m, n>> \in R)
    <2> HIDE DEF R
    <2> QED BY <1>0, WFMin
  <1> HIDE DEF R
  <1>3. \A m \in T : ~(m < n)
    BY <1>1, <1>2
  <1> QED BY <1>3

\* What a scope is guaranteed.
Share(a) == MinOf(lim[a])

\* One of a set's members: the one a sum begins with.
OneOf(s) == CHOOSE x \in s : TRUE

\* A function that sums what the subsets of S are guaranteed.
Sums(f, S) ==
   f = [s \in SUBSET S |-> IF s = {} THEN 0 ELSE Share(OneOf(s)) + f[s \ {OneOf(s)}]]

\* What the apps of S are guaranteed together.
Total(S) == MapThenSumSet(LAMBDA a : IF lim[a] = NoLimits THEN 0 ELSE lim[a].min, S)

\* The library's fold begins with the same one.
LEMMA TotalIsASum ==
  ASSUME NEW S
  PROVE  Total(S) = (CHOOSE f : Sums(f, S))[S]
  BY Zenon DEF Total, MapThenSumSet, MapThenFoldSet, Sums, OneOf, Share, MinOf

\* The sums of the sets of up to n members.
Partial(f, S, n) ==
   f = [s \in {t \in SUBSET S : Cardinality(t) <= n} |->
          IF s = {} THEN 0 ELSE Share(OneOf(s)) + f[s \ {OneOf(s)}]]

\* Without the one, there is one less.
LEMMA Smaller ==
  ASSUME NEW S, IsFiniteSet(S), NEW s \in SUBSET S, s # {}
  PROVE  /\ OneOf(s) \in s /\ s \ {OneOf(s)} \in SUBSET S
         /\ Cardinality(s) \in Nat /\ Cardinality(s) # 0
         /\ Cardinality(s \ {OneOf(s)}) = Cardinality(s) - 1
  <1>1. OneOf(s) \in s
    BY DEF OneOf
  <1>2. IsFiniteSet(s)
    BY FS_Subset
  <1>3. Cardinality(s) \in Nat /\ Cardinality(s) # 0
    BY <1>2, FS_CardinalityType, FS_EmptySet
  <1>4. Cardinality(s \ {OneOf(s)}) = Cardinality(s) - 1
    BY <1>1, <1>2, FS_RemoveElement
  <1> QED BY <1>1, <1>3, <1>4

\* There are such functions, for a least n without one would have one.
LEMMA PartialSums ==
  ASSUME NEW S, IsFiniteSet(S), NEW n \in Nat
  PROVE  \E f : Partial(f, S, n)
  <1> DEFINE T == {m \in Nat : ~\E f : Partial(f, S, m)}
  <1>1. SUFFICES ASSUME T # {} PROVE FALSE
    OBVIOUS
  <1>2. PICK m \in T : \A k \in T : m <= k
    BY <1>1, LeastNat
  <1>3. CASE m = 0
    <2> DEFINE f == [s \in {t \in SUBSET S : Cardinality(t) <= 0} |-> 0]
    <2>1. ASSUME NEW s \in SUBSET S, Cardinality(s) <= 0 PROVE s = {}
      <3>1. s # {} => Cardinality(s) \in Nat /\ Cardinality(s) # 0
        BY Smaller
      <3> QED BY <2>1, <3>1
    <2>2. Partial(f, S, 0)
      BY <2>1 DEF Partial
    <2> QED BY <1>3, <2>2
  <1>4. CASE m # 0
    <2>1. m - 1 \in Nat /\ m - 1 \notin T
      BY <1>2, <1>4
    <2>2. PICK g : Partial(g, S, m - 1)
      BY <2>1
    <2> DEFINE f == [s \in {t \in SUBSET S : Cardinality(t) <= m} |->
                        IF s = {} THEN 0 ELSE Share(OneOf(s)) + g[s \ {OneOf(s)}]]
    <2>3. ASSUME NEW s \in SUBSET S, Cardinality(s) <= m - 1
          PROVE  f[s] = g[s]
      <3>1. Cardinality(s) <= m
        BY <2>3, FS_Subset, FS_CardinalityType
      <3>2. f[s] = IF s = {} THEN 0 ELSE Share(OneOf(s)) + g[s \ {OneOf(s)}]
        BY <3>1
      <3>3. g[s] = IF s = {} THEN 0 ELSE Share(OneOf(s)) + g[s \ {OneOf(s)}]
        BY <2>2, <2>3 DEF Partial
      <3> QED BY <3>2, <3>3
    <2>4. ASSUME NEW s \in SUBSET S, Cardinality(s) <= m, s # {}
          PROVE  g[s \ {OneOf(s)}] = f[s \ {OneOf(s)}]
      <3>1. Cardinality(s \ {OneOf(s)}) <= m - 1 /\ s \ {OneOf(s)} \in SUBSET S
        BY <2>4, Smaller
      <3> QED BY <2>3, <3>1
    <2>5. Partial(f, S, m)
      BY <2>4 DEF Partial
    <2> QED BY <1>2, <2>5
  <1> QED BY <1>3, <1>4

\* So the function the library's fold chooses is one that sums.
LEMMA SumUnfolds ==
  ASSUME NEW S, IsFiniteSet(S)
  PROVE  Sums(CHOOSE f : Sums(f, S), S)
  <1>1. Cardinality(S) \in Nat
    BY FS_CardinalityType
  <1>2. \A s \in SUBSET S : Cardinality(s) <= Cardinality(S)
    BY FS_Subset
  <1>3. PICK f : Partial(f, S, Cardinality(S))
    BY <1>1, PartialSums
  <1>4. {t \in SUBSET S : Cardinality(t) <= Cardinality(S)} = SUBSET S
    BY <1>2
  <1>5. Sums(f, S)
    BY <1>3, <1>4 DEF Sums, Partial
  <1> QED BY <1>5

\* Each guaranteed at most k, together at most so many times k.
LEMMA SumFits ==
  ASSUME NEW S, IsFiniteSet(S), NEW k \in Nat, \A a \in S : Share(a) \in Nat /\ Share(a) <= k
  PROVE  /\ Total(S) \in Nat
         /\ Total(S) <= Cardinality(S) * k
  <1> DEFINE f == CHOOSE g : Sums(g, S)
             Good(s) == f[s] \in Nat /\ f[s] <= Cardinality(s) * k
             T == {m \in Nat : \E s \in SUBSET S : Cardinality(s) = m /\ ~Good(s)}
  <1>1. Sums(f, S)
    BY SumUnfolds
  <1> HIDE DEF f
  <1>2. T = {}
    <2> SUFFICES ASSUME T # {} PROVE FALSE
      OBVIOUS
    <2>1. PICK m \in T : \A j \in T : m <= j
      BY LeastNat
    <2>2. PICK s \in SUBSET S : Cardinality(s) = m /\ ~Good(s)
      BY <2>1
    <2>3. f[s] = IF s = {} THEN 0 ELSE Share(OneOf(s)) + f[s \ {OneOf(s)}]
      BY <1>1 DEF Sums
    <2>4. s # {}
      BY <2>2, <2>3, FS_EmptySet
    <2> DEFINE r == s \ {OneOf(s)}
    <2>5. /\ r \in SUBSET S /\ Cardinality(r) = m - 1 /\ m # 0 /\ m \in Nat
          /\ OneOf(s) \in S
      BY <2>2, <2>4, Smaller
    <2>6. Good(r)
      BY <2>1, <2>5
    <2>7. Share(OneOf(s)) \in Nat /\ Share(OneOf(s)) <= k
      BY <2>5
    <2>8. f[s] = Share(OneOf(s)) + f[r]
      BY <2>3, <2>4
    <2>9. (m - 1) * k + k = m * k
      BY <2>5
    <2> HIDE DEF r
    <2> QED BY <2>2, <2>5, <2>6, <2>7, <2>8, <2>9
  <1>3. Good(S)
    BY <1>2, FS_CardinalityType
  <1> QED BY <1>3, TotalIsASum DEF f

\* Everybody live has limits that leave the others room.
AllRoomy == \A a \in LiveApps : Roomy(lim[a], LiveApps)

\* With room for everybody, what all are guaranteed is there to be guaranteed.
LEMMA RoomIsEnough == IInv /\ AllRoomy => GuaranteesFit
  <1> SUFFICES ASSUME IInv, AllRoomy, account # NoLimit, Cardinality(LiveApps) * FLOOR <= account
               PROVE  Total(LiveApps) <= account
    BY DEF GuaranteesFit, Total
  <1> DEFINE n == Cardinality(LiveApps)
  <1>1. account \in Nat /\ IsFiniteSet(LiveApps) /\ LiveApps \subseteq Apps /\ n \in Nat
    BY NumbersAssumption, AppsAssumption, FS_Subset, FS_CardinalityType DEF IInv, TypeOK, LiveApps
  <1>2. CASE n = 0
    <2>1. LiveApps = {}
      BY <1>1, <1>2, FS_EmptySet
    <2>2. Total(LiveApps) \in Nat /\ Total(LiveApps) <= n * 0
      BY <1>1, <2>1, SumFits
    <2>3. n * 0 = 0
      BY <1>2
    <2> QED BY <1>1, <2>2, <2>3
  <1>3. CASE n # 0
    <2> DEFINE k == account \div n
    <2>1. k \in Nat /\ n * k <= account /\ FLOOR <= k
      BY <1>1, <1>3, SharesFit, LeastSharesFit, NumbersAssumption
    <2>2. Guarantee(account, n) \in Nat /\ Guarantee(account, n) <= k
      <3>1. Greatest(n, 1) = n
        BY <1>1, <1>3 DEF Greatest
      <3>2. Smallest(account) \in Nat /\ Smallest(account) <= k
        BY <1>1, <2>1, SmallestFits, NumbersAssumption
      <3> HIDE DEF k
      <3>3. account \div n = k
        BY DEF k
      <3> HIDE DEF n
      <3> QED BY <1>1, <2>1, <3>1, <3>2, <3>3, ElasticFits, GuaranteeFits DEF Guarantee, Clamp, Greatest
    <2> HIDE DEF k
    <2>3. \A a \in LiveApps : Share(a) \in Nat /\ Share(a) <= k
      BY <1>1, <2>1, <2>2 DEF AllRoomy, Roomy, Share, MinOf, IInv, TypeOK, LimitsOrNone, AppLimits
    <2>4. Total(LiveApps) \in Nat /\ Total(LiveApps) <= n * k
      BY <1>1, <2>1, <2>3, SumFits
    <2>5. n * k \in Nat
      BY <1>1, <2>1
    <2> QED BY <1>1, <2>1, <2>4, <2>5
  <1> QED BY <1>2, <1>3

\* Between commands that did not overlap, the live apps are never guaranteed more than
\* there is (app_limits_for_with, reapply_app_limits).
THEOREM SettledFit == Spec => []SettledGuaranteesFit
  <1>1. GInv /\ Settled => AllRoomy
    BY DEF GInv, RoomInv, Settled, InFlight, AllRoomy, WithoutIt, Departs
  <1> QED BY <1>1, RoomIsEnough, InitIInv, StepIInv, InitLInv, StepLInv, InitGInv, StepGInv, PTL
          DEF Spec, SettledGuaranteesFit

\* An app appears.
Arrives == \E a \in Apps : scope[a] = "none" /\ scope'[a] = "live"

\* "Resolve the siblings before this app appears, so they shrink first" (spawn_for): the
\* newcomer's scope is never one too many.
THEOREM SiblingsFirst == Spec => SiblingsShrinkFirst
  <1>1. IInv /\ LInv /\ GInv' /\ Next /\ Arrives /\ ~mixed' => AllRoomy'
    <2> SUFFICES ASSUME IInv, LInv, GInv', Next, Arrives, ~mixed' PROVE AllRoomy'
      OBVIOUS
    <2>1. Register
      <3>1. ASSUME NEW i \in Invs, Step(i) PROVE FALSE
        BY <3>1 DEF Step, Arrives, WritePin, CapSlice, Load, Resolve, Apply, AfterLoop, Spawn, Recap,
             StopTree, Started, GiveUp, Unregister, Down, Add, Kill, host, IInv, TypeOK
      <3>2. ASSUME NEW i \in Invs, CutShort(i) \/ \E c \in Commands, a \in Apps : Begin(i, c, a)
            PROVE  FALSE
        BY <3>2 DEF CutShort, Begin, Arrives, host
      <3>3. ASSUME NEW a \in Apps, Exit(a) \/ CollectUnit(a) PROVE FALSE
        BY <3>3 DEF Exit, CollectUnit, Arrives, IInv, TypeOK
      <3>4. CASE CollectSlice \/ ChangeAllowance
        BY <3>4 DEF CollectSlice, ChangeAllowance, Arrives, host
      <3> QED BY <3>1, <3>2, <3>3, <3>4 DEF Next
    <2>2. UNCHANGED <<pc, cmd, mixed>> /\ launches # {}
      BY <2>1 DEF Register, args, past
    <2>3. \A i \in Invs : ~Departs(i)
      BY <2>2 DEF LInv, CalmInv, Calm, Launches, Departs, Placed
    <2> QED BY <2>2, <2>3 DEF GInv, RoomInv, WithoutIt, Departs, AllRoomy
  <1>2. IInv' /\ AllRoomy' => GuaranteesFit'
    BY RoomIsEnough, PTL
  <1>3. IInv /\ LInv /\ IInv' /\ GInv' /\ [Next]_vars =>
           [\A a \in Apps : scope[a] = "none" /\ scope'[a] = "live" /\ ~mixed' => GuaranteesFit']_vars
    BY <1>1, <1>2 DEF Arrives
  <1> QED BY <1>3, InitIInv, StepIInv, InitLInv, StepLInv, InitGInv, StepGInv, PTL
          DEF Spec, SiblingsShrinkFirst
=============================================================================
