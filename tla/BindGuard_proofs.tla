-------------------------- MODULE BindGuard_proofs --------------------------
(***************************************************************************)
(* The programs decide the rule, for every address and port there is: TLC  *)
(* runs them on a few, the constants here are any.  The invariant is what  *)
(* a program knows of its context at each of its instructions; an          *)
(* instruction takes what is known before it to what is known where it     *)
(* goes.                                                                   *)
(*                                                                         *)
(* And a start that was told the guard is in place is right until somebody *)
(* takes it away, for any number of applications, invocations and sockets  *)
(* and whatever is bound: the verdict comes from the programs.  The        *)
(* strengthening follows an invocation from the cgroup it opens to the     *)
(* spawn: what it holds is the slice's, and what it has attached is still  *)
(* there.                                                                  *)
(***************************************************************************)
EXTENDS BindGuard, TLAPS

-----------------------------------------------------------------------------
(* The programs *)

\* What the IPv4 program knows at each instruction.
Knows4 ==
    /\ at \in 0..8
    /\ at = 1 => r2 = ctx.port
    /\ at \in 2..6 => ctx.port # Zero
    /\ at = 3 => r2 = ctx.ip[1]
    /\ at = 4 => r2 = <<ctx.ip[1][1], 0, 0, 0>>
    /\ at \in 5..6 => ctx.ip[1][1] # LOOPBACK_OCTET
    /\ at \in 7..8 => ctx.port = Zero \/ ctx.ip[1][1] = LOOPBACK_OCTET
    /\ at = 6 => r0 = 0
    /\ at = 8 => r0 = 1

\* IPv6's loopback, in the words the program compares.
Local6(c) ==
    /\ c.ip[1] = Zero /\ c.ip[2] = Zero
    /\ \/ c.ip[3] = Zero /\ c.ip[4] = IP6_LAST_WORD_ONE
       \/ c.ip[3] = IP6_V4_MAPPED /\ c.ip[4][1] = LOOPBACK_OCTET

\* What the IPv6 program knows at each instruction.
Knows6 ==
    /\ at \in 0..18
    /\ at = 1 => r2 = ctx.port
    /\ at \in 2..16 => ctx.port # Zero
    /\ at = 3 => r2 = ctx.ip[1]
    /\ at \in 4..14 => ctx.ip[1] = Zero
    /\ at = 5 => r2 = ctx.ip[2]
    /\ at \in 6..14 => ctx.ip[2] = Zero
    /\ at \in {7, 8} => r2 = ctx.ip[3]
    /\ at = 8 => ctx.ip[3] # IP6_V4_MAPPED
    /\ at \in 9..11 => ctx.ip[3] = Zero
    /\ at = 10 => r2 = ctx.ip[4]
    /\ at = 11 => ctx.ip[4] # IP6_LAST_WORD_ONE
    /\ at \in 12..14 => ctx.ip[3] = IP6_V4_MAPPED
    /\ at = 13 => r2 = ctx.ip[4]
    /\ at = 14 => r2 = <<ctx.ip[4][1], 0, 0, 0>>
    /\ at \in 15..16 => ~Local6(ctx)
    /\ at \in 17..18 => ctx.port = Zero \/ Local6(ctx)
    /\ at = 16 => r0 = 0
    /\ at = 18 => r0 = 1

IInv ==
    busy => /\ ctx \in Context
            /\ ctx.family = 4 => Knows4
            /\ ctx.family = 6 => Knows6

-----------------------------------------------------------------------------
(* The programs, instruction by instruction *)

\* The IPv4 program's instructions, by their place.
LEMMA Listing4 ==
    /\ DOMAIN PROG_V4 = 1..9
    /\ PROG_V4[1] = load(0) /\ PROG_V4[2] = jeq(Zero, 5)
    /\ PROG_V4[3] = load(1) /\ PROG_V4[4] = and_ff
    /\ PROG_V4[5] = jeq(<<LOOPBACK_OCTET, 0, 0, 0>>, 2) /\ PROG_V4[6] = ret(0)
    /\ PROG_V4[7] = EXIT_INSN /\ PROG_V4[8] = ret(1)
    /\ PROG_V4[9] = EXIT_INSN
BY DEF PROG_V4

\* The IPv6 program's.
LEMMA Listing6 ==
    /\ DOMAIN PROG_V6 = 1..19
    /\ PROG_V6[1] = load(0) /\ PROG_V6[2] = jeq(Zero, 15)
    /\ PROG_V6[3] = load(1) /\ PROG_V6[4] = jne(Zero, 11)
    /\ PROG_V6[5] = load(2) /\ PROG_V6[6] = jne(Zero, 9)
    /\ PROG_V6[7] = load(3) /\ PROG_V6[8] = jeq(IP6_V4_MAPPED, 4)
    /\ PROG_V6[9] = jne(Zero, 6) /\ PROG_V6[10] = load(4)
    /\ PROG_V6[11] = jeq(IP6_LAST_WORD_ONE, 6) /\ PROG_V6[12] = goto(3)
    /\ PROG_V6[13] = load(4) /\ PROG_V6[14] = and_ff
    /\ PROG_V6[15] = jeq(<<LOOPBACK_OCTET, 0, 0, 0>>, 2) /\ PROG_V6[16] = ret(0)
    /\ PROG_V6[17] = EXIT_INSN /\ PROG_V6[18] = ret(1)
    /\ PROG_V6[19] = EXIT_INSN
BY DEF PROG_V6

\* What a step does is what the instruction it is at says.
LEMMA StepIsHere ==
    ASSUME busy, Execute \/ Exit
    PROVE  /\ at + 1 \in DOMAIN Program(ctx.family)
           /\ Execute => busy' = busy /\ ctx' = ctx
           /\ Exit => ~busy'
           /\ Here.op = "load" => at' = at + 1 /\ r2' = Field(ctx, Here.from) /\ r0' = r0
           /\ Here.op = "jeq" => /\ at' = IF r2 = Here.imm THEN at + 1 + Here.off ELSE at + 1
                                 /\ r2' = r2 /\ r0' = r0
           /\ Here.op = "jne" => /\ at' = IF r2 # Here.imm THEN at + 1 + Here.off ELSE at + 1
                                 /\ r2' = r2 /\ r0' = r0
           /\ Here.op = "and" => at' = at + 1 /\ r2' = <<r2[1], 0, 0, 0>> /\ r0' = r0
           /\ Here.op = "goto" => at' = at + 1 + Here.off /\ r2' = r2 /\ r0' = r0
           /\ Here.op = "ret" => at' = at + 1 /\ r0' = Here.from
           /\ Here.op = "exit" => Exit
BY DEF Execute, Exit, Decided, Load, JumpEqual, JumpUnequal, Mask, JumpAlways, Return, IsA, Rest

-----------------------------------------------------------------------------
(* Each instruction keeps what is known *)

\* The IPv4 program goes from what it knows to what it knows.
LEMMA Step4 ==
    ASSUME busy, ctx \in Context, ctx.family = 4, Knows4, Execute
    PROVE  Knows4'
<1>1. /\ ctx' = ctx /\ at \in 0..8 /\ Program(ctx.family) = PROG_V4
  BY StepIsHere DEF Knows4, Program
<1>2. Here.op # "exit"
  BY DEF Execute, Load, JumpEqual, JumpUnequal, Mask, JumpAlways, Return, IsA
<1>3. CASE at = 0
  <2>1. Here = load(0)
    BY <1>1, <1>3, Listing4 DEF Here
  <2> QED
    BY <1>1, <1>3, <2>1, StepIsHere DEF Knows4, load, Insn, Field, Zero, LOOPBACK_OCTET
<1>4. CASE at = 1
  <2>1. Here = jeq(Zero, 5)
    BY <1>1, <1>4, Listing4 DEF Here
  <2> QED
    BY <1>1, <1>4, <2>1, StepIsHere DEF Knows4, jeq, Insn, Zero, LOOPBACK_OCTET
<1>5. CASE at = 2
  <2>1. Here = load(1)
    BY <1>1, <1>5, Listing4 DEF Here
  <2> QED
    BY <1>1, <1>5, <2>1, StepIsHere DEF Knows4, load, Insn, Field, Zero, LOOPBACK_OCTET
<1>6. CASE at = 3
  <2>1. Here = and_ff
    BY <1>1, <1>6, Listing4 DEF Here
  <2> QED
    BY <1>1, <1>6, <2>1, StepIsHere DEF Knows4, and_ff, Insn, Zero, LOOPBACK_OCTET
<1>7. CASE at = 4
  <2>1. Here = jeq(<<LOOPBACK_OCTET, 0, 0, 0>>, 2)
    BY <1>1, <1>7, Listing4 DEF Here
  <2> QED
    BY <1>1, <1>7, <2>1, StepIsHere DEF Knows4, jeq, Insn, Zero, LOOPBACK_OCTET
<1>8. CASE at = 5
  <2>1. Here = ret(0)
    BY <1>1, <1>8, Listing4 DEF Here
  <2> QED
    BY <1>1, <1>8, <2>1, StepIsHere DEF Knows4, ret, Insn, Zero, LOOPBACK_OCTET
<1>9. CASE at = 6
  BY <1>1, <1>2, <1>9, Listing4 DEF Here, EXIT_INSN, Insn
<1>10. CASE at = 7
  <2>1. Here = ret(1)
    BY <1>1, <1>10, Listing4 DEF Here
  <2> QED
    BY <1>1, <1>10, <2>1, StepIsHere DEF Knows4, ret, Insn, Zero, LOOPBACK_OCTET
<1>11. CASE at = 8
  BY <1>1, <1>2, <1>11, Listing4 DEF Here, EXIT_INSN, Insn
<1> QED
  BY <1>1, <1>3, <1>4, <1>5, <1>6, <1>7, <1>8, <1>9, <1>10, <1>11

\* The IPv6 program goes from what it knows to what it knows.
LEMMA Step6 ==
    ASSUME busy, ctx \in Context, ctx.family = 6, Knows6, Execute
    PROVE  Knows6'
<1>1. /\ ctx' = ctx /\ at \in 0..18 /\ Program(ctx.family) = PROG_V6
  BY StepIsHere DEF Knows6, Program
<1>2. Here.op # "exit"
  BY DEF Execute, Load, JumpEqual, JumpUnequal, Mask, JumpAlways, Return, IsA
<1>3. CASE at = 0
  <2>1. Here = load(0)
    BY <1>1, <1>3, Listing6 DEF Here
  <2> QED
    BY <1>1, <1>3, <2>1, StepIsHere DEF Knows6, load, Insn, Field, Local6, Zero, LOOPBACK_OCTET, IP6_V4_MAPPED, IP6_LAST_WORD_ONE
<1>4. CASE at = 1
  <2>1. Here = jeq(Zero, 15)
    BY <1>1, <1>4, Listing6 DEF Here
  <2> QED
    BY <1>1, <1>4, <2>1, StepIsHere DEF Knows6, jeq, Insn, Local6, Zero, LOOPBACK_OCTET, IP6_V4_MAPPED, IP6_LAST_WORD_ONE
<1>5. CASE at = 2
  <2>1. Here = load(1)
    BY <1>1, <1>5, Listing6 DEF Here
  <2> QED
    BY <1>1, <1>5, <2>1, StepIsHere DEF Knows6, load, Insn, Field, Local6, Zero, LOOPBACK_OCTET, IP6_V4_MAPPED, IP6_LAST_WORD_ONE
<1>6. CASE at = 3
  <2>1. Here = jne(Zero, 11)
    BY <1>1, <1>6, Listing6 DEF Here
  <2> QED
    BY <1>1, <1>6, <2>1, StepIsHere DEF Knows6, jne, Insn, Local6, Zero, LOOPBACK_OCTET, IP6_V4_MAPPED, IP6_LAST_WORD_ONE
<1>7. CASE at = 4
  <2>1. Here = load(2)
    BY <1>1, <1>7, Listing6 DEF Here
  <2> QED
    BY <1>1, <1>7, <2>1, StepIsHere DEF Knows6, load, Insn, Field, Local6, Zero, LOOPBACK_OCTET, IP6_V4_MAPPED, IP6_LAST_WORD_ONE
<1>8. CASE at = 5
  <2>1. Here = jne(Zero, 9)
    BY <1>1, <1>8, Listing6 DEF Here
  <2> QED
    BY <1>1, <1>8, <2>1, StepIsHere DEF Knows6, jne, Insn, Local6, Zero, LOOPBACK_OCTET, IP6_V4_MAPPED, IP6_LAST_WORD_ONE
<1>9. CASE at = 6
  <2>1. Here = load(3)
    BY <1>1, <1>9, Listing6 DEF Here
  <2> QED
    BY <1>1, <1>9, <2>1, StepIsHere DEF Knows6, load, Insn, Field, Local6, Zero, LOOPBACK_OCTET, IP6_V4_MAPPED, IP6_LAST_WORD_ONE
<1>10. CASE at = 7
  <2>1. Here = jeq(IP6_V4_MAPPED, 4)
    BY <1>1, <1>10, Listing6 DEF Here
  <2> QED
    BY <1>1, <1>10, <2>1, StepIsHere DEF Knows6, jeq, Insn, Local6, Zero, LOOPBACK_OCTET, IP6_V4_MAPPED, IP6_LAST_WORD_ONE
<1>11. CASE at = 8
  <2>1. Here = jne(Zero, 6)
    BY <1>1, <1>11, Listing6 DEF Here
  <2> QED
    BY <1>1, <1>11, <2>1, StepIsHere DEF Knows6, jne, Insn, Local6, Zero, LOOPBACK_OCTET, IP6_V4_MAPPED, IP6_LAST_WORD_ONE
<1>12. CASE at = 9
  <2>1. Here = load(4)
    BY <1>1, <1>12, Listing6 DEF Here
  <2> QED
    BY <1>1, <1>12, <2>1, StepIsHere DEF Knows6, load, Insn, Field, Local6, Zero, LOOPBACK_OCTET, IP6_V4_MAPPED, IP6_LAST_WORD_ONE
<1>13. CASE at = 10
  <2>1. Here = jeq(IP6_LAST_WORD_ONE, 6)
    BY <1>1, <1>13, Listing6 DEF Here
  <2> QED
    BY <1>1, <1>13, <2>1, StepIsHere DEF Knows6, jeq, Insn, Local6, Zero, LOOPBACK_OCTET, IP6_V4_MAPPED, IP6_LAST_WORD_ONE
<1>14. CASE at = 11
  <2>1. Here = goto(3)
    BY <1>1, <1>14, Listing6 DEF Here
  <2> QED
    BY <1>1, <1>14, <2>1, StepIsHere DEF Knows6, goto, Insn, Local6, Zero, LOOPBACK_OCTET, IP6_V4_MAPPED, IP6_LAST_WORD_ONE
<1>15. CASE at = 12
  <2>1. Here = load(4)
    BY <1>1, <1>15, Listing6 DEF Here
  <2> QED
    BY <1>1, <1>15, <2>1, StepIsHere DEF Knows6, load, Insn, Field, Local6, Zero, LOOPBACK_OCTET, IP6_V4_MAPPED, IP6_LAST_WORD_ONE
<1>16. CASE at = 13
  <2>1. Here = and_ff
    BY <1>1, <1>16, Listing6 DEF Here
  <2> QED
    BY <1>1, <1>16, <2>1, StepIsHere DEF Knows6, and_ff, Insn, Local6, Zero, LOOPBACK_OCTET, IP6_V4_MAPPED, IP6_LAST_WORD_ONE
<1>17. CASE at = 14
  <2>1. Here = jeq(<<LOOPBACK_OCTET, 0, 0, 0>>, 2)
    BY <1>1, <1>17, Listing6 DEF Here
  <2> QED
    BY <1>1, <1>17, <2>1, StepIsHere DEF Knows6, jeq, Insn, Local6, Zero, LOOPBACK_OCTET, IP6_V4_MAPPED, IP6_LAST_WORD_ONE
<1>18. CASE at = 15
  <2>1. Here = ret(0)
    BY <1>1, <1>18, Listing6 DEF Here
  <2> QED
    BY <1>1, <1>18, <2>1, StepIsHere DEF Knows6, ret, Insn, Local6, Zero, LOOPBACK_OCTET, IP6_V4_MAPPED, IP6_LAST_WORD_ONE
<1>19. CASE at = 16
  BY <1>1, <1>2, <1>19, Listing6 DEF Here, EXIT_INSN, Insn
<1>20. CASE at = 17
  <2>1. Here = ret(1)
    BY <1>1, <1>20, Listing6 DEF Here
  <2> QED
    BY <1>1, <1>20, <2>1, StepIsHere DEF Knows6, ret, Insn, Local6, Zero, LOOPBACK_OCTET, IP6_V4_MAPPED, IP6_LAST_WORD_ONE
<1>21. CASE at = 18
  BY <1>1, <1>2, <1>21, Listing6 DEF Here, EXIT_INSN, Insn
<1> QED
  BY <1>1, <1>3, <1>4, <1>5, <1>6, <1>7, <1>8, <1>9, <1>10, <1>11, <1>12, <1>13, <1>14, <1>15, <1>16, <1>17, <1>18, <1>19, <1>20, <1>21

-----------------------------------------------------------------------------
(* The theorem *)

LEMMA InitIInv == CpuInit => IInv
BY DEF CpuInit, IInv

LEMMA NextIInv == IInv /\ [CpuNext]_cpu => IInv'
<1> SUFFICES ASSUME IInv, [CpuNext]_cpu PROVE IInv'
  OBVIOUS
<1>1. CASE Execute
  <2>1. /\ busy /\ busy' = busy /\ ctx' = ctx /\ ctx \in Context
    BY <1>1, StepIsHere DEF IInv, Execute, Load, JumpEqual, JumpUnequal, Mask, JumpAlways,
                          Return, IsA
  <2>2. ctx.family = 4 => Knows4'
    BY <1>1, <2>1, Step4 DEF IInv
  <2>3. ctx.family = 6 => Knows6'
    BY <1>1, <2>1, Step6 DEF IInv
  <2> QED
    BY <2>1, <2>2, <2>3 DEF IInv
<1>2. CASE Exit
  BY <1>2 DEF Exit, IInv
<1>3. CASE \E c \in Context : Bind(c)
  BY <1>3 DEF Bind, IInv, Knows4, Knows6
<1>4. CASE UNCHANGED cpu
  BY <1>4 DEF cpu, IInv, Knows4, Knows6
<1> QED
  BY <1>1, <1>2, <1>3, <1>4 DEF CpuNext

LEMMA IInvDecides == IInv => DecidesTheRule
<1> SUFFICES ASSUME IInv, busy PROVE DecidesTheRule
  BY DEF DecidesTheRule, Decided, IsA
<1>1. ctx.family \in {4, 6}
  BY DEF IInv, Context
<1>2. CASE ctx.family = 4
  <2>1. Program(ctx.family) = PROG_V4 /\ Knows4
    BY <1>2 DEF Program, IInv
  <2>2. at + 1 \in 1..9
    BY <2>1 DEF Knows4
  <2>3. ASSUME Decided PROVE at \in {6, 8}
    <3>1. at + 1 \in {1, 2, 3, 4, 5, 6, 8} => Here.op # "exit"
      BY <2>1, Listing4 DEF Here, load, jeq, and_ff, ret, Insn
    <3> QED
      BY <2>1, <2>2, <2>3, <3>1 DEF Decided, IsA, Knows4
  <2> QED
    BY <1>2, <2>1, <2>2, <2>3, Listing4 DEF DecidesTheRule, Knows4, Allowed, Loopback
<1>3. CASE ctx.family = 6
  <2>1. Program(ctx.family) = PROG_V6 /\ Knows6
    BY <1>3 DEF Program, IInv
  <2>2. at + 1 \in 1..19
    BY <2>1 DEF Knows6
  <2>3. ASSUME Decided PROVE at \in {16, 18}
    <3>1. at + 1 \in {1, 2, 3, 4, 5, 6, 7, 8, 9, 10, 11, 12, 13, 14, 15, 16, 18} => Here.op # "exit"
      BY <2>1, Listing6 DEF Here, load, jeq, jne, and_ff, goto, ret, Insn
    <3> QED
      BY <2>1, <2>2, <2>3, <3>1 DEF Decided, IsA, Knows6
  <2> QED
    BY <1>3, <2>1, <2>2, <2>3, Listing6 DEF DecidesTheRule, Knows6, Allowed, Loopback, Local6
<1> QED
  BY <1>1, <1>2, <1>3

\* For every address and every port, the program that runs on a bind() comes to an
\* EXIT with the verdict the rule gives (limits/bindguard.rs).
THEOREM RuleTheorem == CpuSpec => []DecidesTheRule
BY InitIInv, NextIInv, IInvDecides, PTL DEF CpuSpec

-----------------------------------------------------------------------------
(* The guard *)

\* The types the argument needs.
Types ==
    /\ hooks \subseteq {4, 6}
    /\ up \in [Apps -> BOOLEAN]
    /\ owed \in [Apps -> BOOLEAN] /\ lost \in [Apps -> BOOLEAN]
    /\ socks \in [Apps -> SUBSET Socket]
    /\ pc \in [Invs -> Steps] /\ op \in [Invs -> Ops]
    /\ sure \in [Invs -> BOOLEAN] /\ cg \in [Invs -> BOOLEAN]
    /\ app \in [Invs -> Apps \cup {NoApp}]

\* The kernel is in the bind() of an application that is up.
Bound == busy => binder \in Apps /\ up[binder]

\* A process that is gone has no sockets.
Silent == \A a \in Apps : ~up[a] => socks[a] = {}

\* What an invocation holds of the slice, on its way to the spawn.
Held ==
    \A i \in Invs :
        /\ cg[i] /\ pc[i] = "attach6" => slice /\ 4 \in hooks
        /\ cg[i] /\ pc[i] = "spawn" => slice /\ hooks = {4, 6}

\* Who is on its way to a spawn has been asked to, for an application.
Asked ==
    \A i \in Invs :
        /\ pc[i] \in {"e_slice", "e_query", "attach4", "attach6"} =>
              op[i] # "teardown" /\ (op[i] # "refresh" => app[i] \in Apps)
        /\ pc[i] \in {"spawn", "w_query", "w_scan"} => app[i] \in Apps

GInv == IInv /\ Types /\ Asked /\ Bound /\ Silent /\ Held /\ OwedAreGuarded

\* What concerns nobody but the processors of binds.
others == <<slice, hooks, life, inv>>
-----------------------------------------------------------------------------

\* The initial states satisfy the invariant.
LEMMA InitGInv == Init => GInv
BY InitIInv DEF Init, GInv, Types, Asked, Bound, Silent, Held, OwedAreGuarded, CpuInit,
                Steps, Ops

\* Every step is a step of the machine, or leaves it alone.
LEMMA NextIsCpu == [Next]_vars => [CpuNext]_cpu
<1> SUFFICES ASSUME [Next]_vars PROVE [CpuNext]_cpu
  OBVIOUS
<1>1. CASE Run
  BY <1>1 DEF Run, CpuNext
<1>2. CASE BindReturns
  BY <1>2 DEF BindReturns, CpuNext
<1>3. ASSUME NEW i \in Invs, Invoke(i) \/ \E o \in Ops, a \in Apps \cup {NoApp} : Begin(i, o, a)
      PROVE UNCHANGED cpu
  BY <1>3 DEF Invoke, EnsureSlice, EnsureQuery, Attach4, Attach6, Spawn, WaitQuery, WaitScan,
              TearStop, Detach, Begin
<1>4. CASE Sweep \/ Collect
  BY <1>4 DEF Sweep, SweepBegin, SweepScan, Collect
<1>5. ASSUME NEW a \in Apps, \/ AppExits(a) \/ Register(a) \/ Unregister(a)
                             \/ \E c \in Context, p \in {"tcp", "udp"} : FreeBind(a, p, c)
      PROVE UNCHANGED cpu
  BY <1>5 DEF AppExits, Register, Unregister, FreeBind
<1>6. ASSUME NEW a \in Apps, NEW c \in Context, AskBind(a, c) PROVE CpuNext
  BY <1>6 DEF AskBind, CpuNext
<1>7. CASE UNCHANGED vars
  BY <1>7 DEF vars, cpu
<1> QED
  BY <1>1, <1>2, <1>3, <1>4, <1>5, <1>6, <1>7 DEF Next

-----------------------------------------------------------------------------
(* Binds *)

\* An instruction, or the start of a program, disturbs nothing else.
LEMMA RunGInv ==
    ASSUME GInv, Run \/ \E a \in Apps, c \in Context : AskBind(a, c)
    PROVE  Types' /\ Asked' /\ Bound' /\ Silent' /\ Held' /\ OwedAreGuarded'
<1>1. UNCHANGED others
  BY DEF Run, AskBind, others
<1>2. Bound'
  <2>1. CASE Run
    BY <2>1 DEF Run, Execute, Load, JumpEqual, JumpUnequal, Mask, JumpAlways, Return, IsA,
                Rest, life, GInv, Bound
  <2>2. CASE \E a \in Apps, c \in Context : AskBind(a, c)
    BY <2>2 DEF AskBind, life, Bound
  <2> QED
    BY <2>1, <2>2
<1> QED
  BY <1>1, <1>2 DEF GInv, others, inv, life, Types, Asked, Silent, Held, OwedAreGuarded

\* A bind() that returns gives its application an address the rule allows.
LEMMA BindReturnsGInv ==
    ASSUME GInv, BindReturns
    PROVE  Types' /\ Asked' /\ Bound' /\ Silent' /\ Held' /\ OwedAreGuarded'
<1>1. /\ busy /\ Decided /\ binder \in Apps /\ up[binder] /\ ~busy'
      /\ UNCHANGED <<slice, hooks, up, inv, owed, lost>>
  BY DEF BindReturns, Exit, Decided, IsA, GInv, Bound
<1>2. ASSUME r0 = 1 PROVE Allowed(ctx)
  BY <1>1, <1>2, IInvDecides DEF GInv, DecidesTheRule
<1>3. ASSUME NEW p \in {"tcp", "udp"}, r0 = 1
      PROVE SocketOf(p, ctx) \in Socket /\ SocketOf(p, ctx).allowed
  BY <1>2, <1>3 DEF SocketOf, Socket, Allowed, IsExternallyBound
<1>4. \A a \in Apps : /\ socks'[a] \in SUBSET Socket
                      /\ a # binder => socks'[a] = socks[a]
                      /\ \A s \in socks'[a] : s \in socks[a] \/ s.allowed
  <2>1. CASE r0 = 1
    BY <1>1, <1>3, <2>1 DEF BindReturns, GInv, Types
  <2>2. CASE UNCHANGED socks
    BY <2>2 DEF GInv, Types
  <2> QED
    BY <2>1, <2>2 DEF BindReturns
<1>5. socks' \in [Apps -> SUBSET Socket]
  BY <1>4 DEF BindReturns, GInv, Types
<1> QED
  BY <1>1, <1>4, <1>5 DEF GInv, Types, Asked, Bound, Silent, Held, OwedAreGuarded, inv

\* Where no program decides, the port is the kernel's choice if one should have.
LEMMA FreeBindGInv ==
    ASSUME GInv, ~busy, NEW a \in Apps, NEW p \in {"tcp", "udp"}, NEW c \in Context,
           FreeBind(a, p, c)
    PROVE  Types' /\ Asked' /\ Bound' /\ Silent' /\ Held' /\ OwedAreGuarded'
<1>1. /\ up[a] /\ UNCHANGED <<slice, hooks, up, inv, owed, lost, busy, binder>>
      /\ socks' = [socks EXCEPT ![a] = @ \cup {SocketOf(p, c)}]
  BY DEF FreeBind, cpu
<1>2. SocketOf(p, c) \in Socket
  BY DEF SocketOf, Socket, Allowed, Loopback, IsExternallyBound
<1>3. ASSUME owed[a], ~lost[a] PROVE SocketOf(p, c).allowed
  <2>1. hooks = {4, 6} /\ c.family \in {4, 6}
    BY <1>1, <1>3 DEF GInv, OwedAreGuarded, Context
  <2> QED
    BY <2>1 DEF FreeBind, SocketOf, Allowed
<1> QED
  BY <1>1, <1>2, <1>3 DEF GInv, Types, Asked, Bound, Silent, Held, OwedAreGuarded, inv

-----------------------------------------------------------------------------
(* Invocations *)

\* Where one invocation goes on, or ends, the others are where they were.
Moves(i, steps) ==
    /\ pc' \in [Invs -> Steps] /\ op' \in [Invs -> Ops] /\ app' \in [Invs -> Apps \cup {NoApp}]
    /\ pc'[i] \in steps
    /\ pc'[i] # "idle" => op'[i] = op[i] /\ app'[i] = app[i]
    /\ \A j \in Invs \ {i} : pc'[j] = pc[j] /\ op'[j] = op[j] /\ app'[j] = app[j]

LEMMA GotoMoves ==
    ASSUME Types, NEW i \in Invs, NEW step \in Steps, Goto(i, step)
    PROVE  Moves(i, {step}) /\ pc'[i] = step
<1>1. "start" \in Ops
  BY DEF Ops
<1> QED
  BY <1>1 DEF Goto, Types, Moves

\* Putting the guard in place: what is attached stays, what is held is there.
LEMMA EnsureGInv ==
    ASSUME GInv, ~busy, NEW i \in Invs,
           EnsureSlice(i) \/ EnsureQuery(i) \/ Attach4(i) \/ Attach6(i)
    PROVE  Types' /\ Asked' /\ Bound' /\ Silent' /\ Held' /\ OwedAreGuarded'
<1> USE GotoMoves DEF GInv
<1>1. UNCHANGED <<life, binder, busy>>
  BY DEF EnsureSlice, EnsureQuery, Attach4, Attach6, cpu
<1>2. ASSUME NEW ok \in BOOLEAN, NEW held \in BOOLEAN, Ensured(i, ok, held)
      PROVE  /\ Moves(i, {"spawn", "idle"})
             /\ pc'[i] = "spawn" => op[i] # "refresh"
             /\ sure' \in [Invs -> BOOLEAN] /\ cg' \in [Invs -> BOOLEAN]
             /\ \A j \in Invs \ {i} : cg'[j] = cg[j]
             /\ cg'[i] => held
  <2>1. PICK step \in {"spawn", "idle"} : Goto(i, step) /\ (step = "spawn" => op[i] # "refresh")
    BY <1>2 DEF Ensured
  <2>2. Moves(i, {"spawn", "idle"}) /\ pc'[i] = step
    BY <2>1 DEF Steps, Moves
  <2> QED
    BY <1>2, <2>1, <2>2 DEF Ensured, Types
<1>3. /\ hooks \subseteq hooks' /\ hooks' \subseteq {4, 6} /\ (slice => slice')
      /\ Moves(i, {"e_query", "attach4", "attach6", "spawn", "idle"})
      /\ sure' \in [Invs -> BOOLEAN] /\ cg' \in [Invs -> BOOLEAN]
      /\ \A j \in Invs \ {i} : cg'[j] = cg[j]
      /\ pc'[i] = "spawn" => op[i] # "refresh"
      /\ pc[i] \in {"e_slice", "e_query", "attach4", "attach6"}
      /\ cg'[i] /\ pc'[i] = "attach6" => slice' /\ 4 \in hooks'
      /\ cg'[i] /\ pc'[i] = "spawn" => slice' /\ hooks' = {4, 6}
  <2>1. CASE EnsureSlice(i)
    <3>1. CASE slice' = TRUE /\ Goto(i, "e_query") /\ UNCHANGED <<sure, cg>>
      BY <2>1, <3>1 DEF EnsureSlice, At, Types, Steps, Moves
    <3>2. CASE Ensured(i, FALSE, FALSE) /\ UNCHANGED slice
      BY <1>2, <2>1, <3>2 DEF EnsureSlice, At, Types, Moves
    <3> QED
      BY <2>1, <3>1, <3>2 DEF EnsureSlice
  <2>2. CASE EnsureQuery(i)
    <3>1. CASE Active /\ Ensured(i, TRUE, TRUE)
      BY <1>2, <2>2, <3>1 DEF EnsureQuery, Active, At, Types, Moves
    <3>2. CASE Goto(i, "attach4") /\ UNCHANGED <<sure, cg>>
      BY <2>2, <3>2 DEF EnsureQuery, At, Types, Steps, Moves
    <3> QED
      BY <2>2, <3>1, <3>2 DEF EnsureQuery
  <2>3. CASE Attach4(i)
    <3>1. CASE /\ slice /\ hooks' = hooks \cup {4}
               /\ cg' = [cg EXCEPT ![i] = TRUE] /\ Goto(i, "attach6") /\ UNCHANGED sure
      BY <2>3, <3>1 DEF Attach4, At, Types, Steps, Moves
    <3>2. CASE Ensured(i, FALSE, FALSE) /\ UNCHANGED hooks
      BY <1>2, <2>3, <3>2 DEF Attach4, At, Types, Moves
    <3> QED
      BY <2>3, <3>1, <3>2 DEF Attach4
  <2>4. CASE Attach6(i)
    <3>1. CASE /\ hooks' = IF cg[i] THEN hooks \cup {6} ELSE hooks
               /\ Ensured(i, TRUE, cg[i])
      <4>1. cg[i] \in BOOLEAN /\ pc[i] = "attach6" /\ UNCHANGED slice
        BY <2>4 DEF Attach6, At, Types
      <4>2. ASSUME cg[i] PROVE slice /\ hooks' = {4, 6}
        <5>1. slice /\ 4 \in hooks /\ hooks \subseteq {4, 6}
          BY <4>1, <4>2 DEF Types, Held
        <5>2. hooks' = hooks \cup {6}
          BY <3>1, <4>2
        <5> QED
          BY <5>1, <5>2
      <4> QED
        BY <1>2, <3>1, <4>1, <4>2 DEF Types, Moves
    <3>2. CASE Ensured(i, FALSE, FALSE) /\ UNCHANGED hooks
      BY <1>2, <2>4, <3>2 DEF Attach6, At, Types, Moves
    <3> QED
      BY <2>4, <3>1, <3>2 DEF Attach6
  <2> QED
    BY <2>1, <2>2, <2>3, <2>4
<1>4. Types' /\ Bound' /\ Silent' /\ OwedAreGuarded'
  BY <1>1, <1>3 DEF life, Types, Moves, Bound, Silent, OwedAreGuarded
<1>5. Asked'
  BY <1>3 DEF Moves, Asked
<1>6. Held'
  BY <1>3 DEF Types, Moves, Held
<1> QED
  BY <1>4, <1>5, <1>6

\* An application is born with what its invocation was told, and has lost what its
\* invocation does not hold any more.
LEMMA SpawnGInv ==
    ASSUME GInv, ~busy, NEW i \in Invs, Spawn(i)
    PROVE  Types' /\ Asked' /\ Bound' /\ Silent' /\ Held' /\ OwedAreGuarded'
<1>1. /\ UNCHANGED <<hooks, socks, binder, busy>>
      /\ sure' \in [Invs -> BOOLEAN] /\ cg' \in [Invs -> BOOLEAN]
      /\ \A j \in Invs \ {i} : cg'[j] = cg[j]
      /\ pc[i] = "spawn" /\ app[i] \in Apps
      /\ Moves(i, {"idle", "w_query"})
      /\ slice => slice'
  <2>1. PICK step \in {"idle", "w_query"} : Goto(i, step)
    BY DEF Spawn
  <2>2. Moves(i, {"idle", "w_query"})
    BY <2>1, GotoMoves DEF Steps, Moves, GInv
  <2> QED
    BY <2>2 DEF Spawn, cpu, life, At, GInv, Asked, Types
<1>2. CASE up[app[i]]
  BY <1>1, <1>2 DEF Spawn, Moves, life, GInv, Types, Asked, Bound, Silent, Held, OwedAreGuarded
<1>3. CASE ~up[app[i]]
  <2>1. /\ slice' /\ up' = [up EXCEPT ![app[i]] = TRUE]
        /\ owed' = [owed EXCEPT ![app[i]] = sure[i]]
        /\ lost' = [lost EXCEPT ![app[i]] = sure[i] /\ ~cg[i]]
    BY <1>3 DEF Spawn
  <2>2. socks[app[i]] = {} /\ (cg[i] => slice /\ hooks = {4, 6})
    BY <1>1, <1>3 DEF GInv, Silent, Held
  <2>3. OwedAreGuarded'
    <3> SUFFICES ASSUME NEW a \in Apps, up'[a], owed'[a], ~lost'[a]
                 PROVE  slice' /\ hooks' = {4, 6} /\ \A s \in socks'[a] : s.allowed
      BY DEF OwedAreGuarded
    <3>1. CASE a = app[i]
      <4>1. sure[i] /\ cg[i]
        BY <1>1, <2>1, <3>1 DEF GInv, Types
      <4> QED
        BY <1>1, <2>2, <3>1, <4>1
    <3>2. CASE a # app[i]
      <4>1. up[a] /\ owed[a] /\ ~lost[a]
        BY <1>1, <2>1, <3>2 DEF GInv, Types
      <4> QED
        BY <1>1, <4>1 DEF GInv, OwedAreGuarded
    <3> QED
      BY <3>1, <3>2
  <2>4. lost' \in [Apps -> BOOLEAN] /\ owed' \in [Apps -> BOOLEAN] /\ up' \in [Apps -> BOOLEAN]
    BY <1>1, <2>1 DEF GInv, Types
  <2>5. Types' /\ Asked' /\ Held'
    BY <1>1, <2>4 DEF Moves, GInv, Types, Asked, Held
  <2> QED
    BY <1>1, <2>1, <2>3, <2>5 DEF GInv, Types, Bound, Silent
<1> QED
  BY <1>2, <1>3

\* Whoever dies owes and is owed nothing.
LEMMA DieGInv ==
    ASSUME GInv, ~busy, NEW S, Die(S), UNCHANGED <<slice, hooks, binder, sure, cg, busy>>,
           UNCHANGED <<pc, op, app>> \/ \E i \in Invs : Moves(i, {"idle", "t_detach4"})
    PROVE  Types' /\ Asked' /\ Bound' /\ Silent' /\ Held' /\ OwedAreGuarded'
<1>1. /\ up' = [a \in Apps |-> up[a] /\ a \notin S]
      /\ socks' = [a \in Apps |-> IF a \in S THEN {} ELSE socks[a]]
      /\ owed' = [a \in Apps |-> owed[a] /\ a \notin S]
      /\ lost' = [a \in Apps |-> lost[a] /\ a \notin S]
  BY DEF Die
<1>2. Types'
  BY <1>1 DEF Moves, GInv, Types
<1>3. \A a \in Apps : up'[a] => up[a] /\ a \notin S /\ socks'[a] = socks[a]
                               /\ owed'[a] = owed[a] /\ lost'[a] = lost[a]
  BY <1>1 DEF GInv, Types
<1>4. OwedAreGuarded'
  BY <1>3 DEF GInv, OwedAreGuarded
<1>5. Silent'
  BY <1>1 DEF GInv, Silent, Types
<1>6. Asked' /\ Held' /\ Bound'
  BY DEF Moves, GInv, Asked, Held, Bound
<1> QED
  BY <1>2, <1>4, <1>5, <1>6

\* The rest of a start, and the ends: nothing is taken from who lives.
LEMMA RestGInv ==
    ASSUME GInv, ~busy, NEW i \in Invs,
           \/ WaitQuery(i) \/ WaitScan(i)
           \/ \E o \in Ops, a \in Apps \cup {NoApp} : Begin(i, o, a)
    PROVE  Types' /\ Asked' /\ Bound' /\ Silent' /\ Held' /\ OwedAreGuarded'
<1>1. CASE WaitQuery(i)
  <2>1. Moves(i, {"w_scan"})
    BY <1>1, GotoMoves DEF WaitQuery, Steps, GInv
  <2>2. UNCHANGED <<slice, hooks, life, binder, sure, cg, busy>> /\ pc[i] = "w_query"
    BY <1>1 DEF WaitQuery, cpu, At
  <2> QED
    BY <2>1, <2>2 DEF Moves, life, GInv, Types, Asked, Bound, Silent, Held, OwedAreGuarded
<1>2. CASE WaitScan(i)
  <2>1. UNCHANGED <<slice, hooks, binder, sure, cg, busy>>
    BY <1>2 DEF WaitScan, cpu
  <2>2. Moves(i, {"idle"}) /\ Moves(i, {"idle", "t_detach4"})
    BY <1>2, GotoMoves DEF WaitScan, GInv, Steps, Moves
  <2>3. CASE Die({app[i]})
    BY <2>1, <2>2, <2>3, DieGInv
  <2>4. CASE UNCHANGED life
    BY <2>1, <2>2, <2>4 DEF Moves, life, GInv, Types, Asked, Bound, Silent, Held, OwedAreGuarded
  <2> QED
    BY <1>2, <2>3, <2>4 DEF WaitScan
<1>3. ASSUME NEW o \in Ops, NEW a \in Apps \cup {NoApp}, Begin(i, o, a)
      PROVE Types' /\ Asked' /\ Bound' /\ Silent' /\ Held' /\ OwedAreGuarded'
  <2>1. /\ pc[i] = "idle"
        /\ pc' = [pc EXCEPT ![i] = IF o = "teardown" THEN "t_stop" ELSE "e_slice"]
        /\ op' = [op EXCEPT ![i] = o] /\ app' = [app EXCEPT ![i] = a]
        /\ o \notin {"refresh", "teardown"} => a \in Apps
        /\ UNCHANGED <<slice, hooks, life, binder, sure, cg, busy>>
    BY <1>3 DEF Begin, At, cpu
  <2>2. Types' /\ Bound' /\ Silent' /\ OwedAreGuarded'
    BY <2>1 DEF life, GInv, Types, Steps, Bound, Silent, OwedAreGuarded
  <2>3. Asked'
    BY <2>1 DEF GInv, Types, Asked
  <2>4. Held'
    BY <2>1 DEF GInv, Types, Held
  <2> QED
    BY <2>2, <2>3, <2>4
<1> QED
  BY <1>1, <1>2, <1>3

\* Where the guard is taken away, everybody alive has lost it.
LEMMA TakenGInv ==
    ASSUME GInv, ~busy,
           \/ Collect
           \/ \E i \in Invs : \/ TearStop(i)
                              \/ Detach(i, "t_detach4", 4, "t_detach6")
                              \/ Detach(i, "t_detach6", 6, "idle")
    PROVE  Types' /\ Asked' /\ Bound' /\ Silent' /\ Held' /\ OwedAreGuarded'
<1>1. CASE Collect
  BY <1>1 DEF Collect, Taken, cpu, GInv, Types, Asked, Bound, Silent, Held, OwedAreGuarded
<1>2. ASSUME NEW i \in Invs, TearStop(i)
      PROVE Types' /\ Asked' /\ Bound' /\ Silent' /\ Held' /\ OwedAreGuarded'
  <2>1. UNCHANGED <<slice, hooks, binder, sure, cg, busy>> /\ Moves(i, {"idle", "t_detach4"})
    BY <1>2, GotoMoves DEF TearStop, cpu, GInv, Steps, Moves
  <2>2. PICK S : Die(S)
    BY <1>2 DEF TearStop
  <2> QED
    BY <2>1, <2>2, DieGInv
<1>3. ASSUME NEW i \in Invs,
             NEW step \in {"t_detach4", "t_detach6"}, NEW next \in {"t_detach6", "idle"},
             NEW family \in {4, 6}, Detach(i, step, family, next)
      PROVE Types' /\ Asked' /\ Bound' /\ Silent' /\ Held' /\ OwedAreGuarded'
  <2>1. Moves(i, {next})
    BY <1>3, GotoMoves DEF Detach, Steps, GInv
  <2> QED
    BY <1>3, <2>1 DEF Detach, Taken, Moves, cpu, GInv, Types, Asked, Bound, Silent, Held,
                  OwedAreGuarded
<1> QED
  BY <1>1, <1>2, <1>3

\* The sweep, the exits and a remove only stop.
LEMMA StoppedGInv ==
    ASSUME GInv, ~busy,
           Sweep \/ \E a \in Apps : AppExits(a) \/ Register(a) \/ Unregister(a)
    PROVE  Types' /\ Asked' /\ Bound' /\ Silent' /\ Held' /\ OwedAreGuarded'
<1>1. /\ UNCHANGED <<slice, hooks, binder, inv, busy>>
      /\ UNCHANGED life \/ \E S : Die(S)
  <2>1. CASE \E a \in Apps : AppExits(a) \/ Register(a) \/ Unregister(a)
    BY <2>1 DEF AppExits, Register, Unregister, cpu
  <2>2. CASE SweepScan
    BY <2>2 DEF SweepScan, cpu
  <2>3. CASE SweepBegin
    BY <2>3 DEF SweepBegin, cpu
  <2> QED
    BY <2>1, <2>2, <2>3 DEF Sweep
<1>2. CASE UNCHANGED life
  BY <1>1, <1>2 DEF life, GInv, Types, Asked, Bound, Silent, Held, OwedAreGuarded, inv
<1>3. ASSUME NEW S, Die(S)
      PROVE Types' /\ Asked' /\ Bound' /\ Silent' /\ Held' /\ OwedAreGuarded'
  BY <1>1, <1>3, DieGInv DEF inv, GInv, Types
<1> QED
  BY <1>1, <1>2, <1>3

-----------------------------------------------------------------------------

\* Every step keeps the invariant.
LEMMA NextGInv == GInv /\ [Next]_vars => GInv'
<1> SUFFICES ASSUME GInv, [Next]_vars PROVE GInv'
  OBVIOUS
<1>1. IInv'
  BY NextIInv, NextIsCpu DEF GInv
<1>2. Types' /\ Asked' /\ Bound' /\ Silent' /\ Held' /\ OwedAreGuarded'
  <2>1. CASE UNCHANGED vars
    BY <2>1 DEF vars, cpu, inv, life, GInv, Types, Asked, Bound, Silent, Held, OwedAreGuarded
  <2>2. CASE Next
    BY <2>2, RunGInv, BindReturnsGInv, FreeBindGInv, EnsureGInv, SpawnGInv, RestGInv, TakenGInv,
       StoppedGInv DEF Next, Invoke
  <2> QED
    BY <2>1, <2>2
<1> QED
  BY <1>1, <1>2 DEF GInv

\* An app whose start was told that the guard is in place has both programs over it
\* and nothing bound but loopback and ports of the kernel's choice, until systemd
\* has dropped the slice or somebody has detached a program since it was told
\* (bindguard.rs ensure, plan.rs spawn_for).
THEOREM OwedTheorem == Spec => []OwedAreGuarded
<1>1. GInv => OwedAreGuarded
  BY DEF GInv
<1> QED
  BY <1>1, InitGInv, NextGInv, PTL DEF Spec

\* The guard's machine is the machine of BindProgram: its theorem holds of every
\* bind() of every application (limits/bindguard.rs).
THEOREM GuardDecidesTheorem == Spec => []DecidesTheRule
<1>1. GInv => DecidesTheRule
  BY IInvDecides DEF GInv
<1> QED
  BY <1>1, InitGInv, NextGInv, PTL DEF Spec
=============================================================================
