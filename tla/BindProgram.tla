---------------------------- MODULE BindProgram ----------------------------
(***************************************************************************)
(* The two BPF programs the kernel runs on every bind() of an application  *)
(* (limits/bindguard.rs), instruction by instruction, and the rule they    *)
(* are there to enforce.                                                   *)
(*                                                                         *)
(* A word is four bytes in memory order, which is how the programs, little *)
(* endian, meet an address in network order: the first octet of 127.0.0.1  *)
(* is the low byte of the word.  Jumps go forward only, as the verifier of *)
(* the kernel demands.                                                     *)
(***************************************************************************)
EXTENDS Integers, Sequences

CONSTANTS
    Addresses4,  \* the IPv4 addresses asked for, each one word
    Addresses6,  \* the IPv6 addresses asked for, each four words
    Ports,       \* the ports, as words: two bytes in network order, then zeros
    NoContext    \* nothing to decide

Byte == 0..255
Word == Byte \X Byte \X Byte \X Byte
Zero == <<0, 0, 0, 0>>

ASSUME AddressesAssumption ==
    /\ Addresses4 \subseteq Word
    /\ Addresses6 \subseteq Word \X Word \X Word \X Word
    /\ Ports \subseteq Word

\* What the hook is told: struct bpf_sock_addr.
Context == [family : {4}, port : Ports, ip : {<<a>> : a \in Addresses4}]
           \cup [family : {6}, port : Ports, ip : Addresses6]

ASSUME NoContextAssumption == NoContext \notin Context

-----------------------------------------------------------------------------
(* The rule (bindguard.rs:17-23) *)

LOOPBACK_OCTET == 127
IP6_LAST_WORD_ONE == <<0, 0, 0, 1>>
IP6_V4_MAPPED == <<0, 0, 255, 255>>

\* 127/8, ::1 and ::ffff:127/8.
Loopback(c) ==
    IF c.family = 4 THEN c.ip[1][1] = LOOPBACK_OCTET
    ELSE /\ c.ip[1] = Zero /\ c.ip[2] = Zero
         /\ \/ c.ip[3] = Zero /\ c.ip[4] = IP6_LAST_WORD_ONE
            \/ c.ip[3] = IP6_V4_MAPPED /\ c.ip[4][1] = LOOPBACK_OCTET

\* A service is what fixes a port outside loopback; the kernel's choice of a
\* port, 0, is a client's.
Allowed(c) == c.port = Zero \/ Loopback(c)

-----------------------------------------------------------------------------
(* The programs *)

Insn(op, from, imm, off) == [op |-> op, from |-> from, imm |-> imm, off |-> off]

\* `from` is the field a load reads: 0 the port, n the n-th word of the address.
load(from)    == Insn("load", from, Zero, 0)
jeq(imm, off) == Insn("jeq", 0, imm, off)
jne(imm, off) == Insn("jne", 0, imm, off)
and_ff        == Insn("and", 0, Zero, 0)
goto(off)     == Insn("goto", 0, Zero, off)
ret(v)        == Insn("ret", v, Zero, 0)
EXIT_INSN     == Insn("exit", 0, Zero, 0)

\* (A slip: the jump at 4 lands one instruction further on, behind the mask.)
PROG_V4_Astray ==
    << load(0), jeq(Zero, 5), load(1), jeq(<<LOOPBACK_OCTET, 0, 0, 0>>, 3), and_ff,
       ret(0), EXIT_INSN, ret(1), EXIT_INSN >>

PROG_V4 ==
    << load(0),                              \* 0
       jeq(Zero, 5),                         \* 1: port 0 -> 7
       load(1),                              \* 2
       and_ff,                               \* 3: the first octet
       jeq(<<LOOPBACK_OCTET, 0, 0, 0>>, 2),  \* 4: 127/8 -> 7
       ret(0),                               \* 5
       EXIT_INSN,                            \* 6
       ret(1),                               \* 7
       EXIT_INSN >>                          \* 8

\* (A slip: the second word of the address is not looked at.)
PROG_V6_Short ==
    << load(0), jeq(Zero, 13), load(1), jne(Zero, 9), load(3),
       jeq(IP6_V4_MAPPED, 4), jne(Zero, 6), load(4), jeq(IP6_LAST_WORD_ONE, 6), goto(3),
       load(4), and_ff, jeq(<<LOOPBACK_OCTET, 0, 0, 0>>, 2), ret(0), EXIT_INSN,
       ret(1), EXIT_INSN >>

PROG_V6 ==
    << load(0),                              \* 0
       jeq(Zero, 15),                        \* 1: port 0 -> 17
       load(1),                              \* 2
       jne(Zero, 11),                        \* 3: -> 15
       load(2),                              \* 4
       jne(Zero, 9),                         \* 5: -> 15
       load(3),                              \* 6
       jeq(IP6_V4_MAPPED, 4),                \* 7: ::ffff:a.b.c.d -> 12
       jne(Zero, 6),                         \* 8: -> 15
       load(4),                              \* 9
       jeq(IP6_LAST_WORD_ONE, 6),            \* 10: ::1 -> 17
       goto(3),                              \* 11: -> 15
       load(4),                              \* 12
       and_ff,                               \* 13: the first octet of the mapped one
       jeq(<<LOOPBACK_OCTET, 0, 0, 0>>, 2),  \* 14: -> 17
       ret(0),                               \* 15
       EXIT_INSN,                            \* 16
       ret(1),                               \* 17
       EXIT_INSN >>                          \* 18

Program(family) == IF family = 4 THEN PROG_V4 ELSE PROG_V6

-----------------------------------------------------------------------------
(* The machine *)

VARIABLES
    busy,  \* a program is running
    ctx,   \* its context, in r1
    at,    \* the instruction it is at, from 0
    r2,    \* the word it has loaded
    r0     \* its verdict: 1 lets the bind pass, 0 refuses it, NoVerdict before

NoVerdict == -1

cpu == <<busy, ctx, at, r2, r0>>

Here == Program(ctx.family)[at + 1]

\* The field the instruction reads.
Field(c, from) == IF from = 0 THEN c.port ELSE c.ip[from]

IsA(op) == busy /\ at + 1 \in DOMAIN Program(ctx.family) /\ Here.op = op

Rest == UNCHANGED <<busy, ctx>>

Load ==
    /\ IsA("load") /\ at' = at + 1 /\ r2' = Field(ctx, Here.from)
    /\ Rest /\ UNCHANGED r0

\* JMP32 compares the whole word.
JumpEqual ==
    /\ IsA("jeq") /\ at' = IF r2 = Here.imm THEN at + 1 + Here.off ELSE at + 1
    /\ Rest /\ UNCHANGED <<r2, r0>>

JumpUnequal ==
    /\ IsA("jne") /\ at' = IF r2 # Here.imm THEN at + 1 + Here.off ELSE at + 1
    /\ Rest /\ UNCHANGED <<r2, r0>>

Mask ==
    /\ IsA("and") /\ at' = at + 1 /\ r2' = <<r2[1], 0, 0, 0>>
    /\ Rest /\ UNCHANGED r0

JumpAlways == IsA("goto") /\ at' = at + 1 + Here.off /\ Rest /\ UNCHANGED <<r2, r0>>

Return == IsA("ret") /\ at' = at + 1 /\ r0' = Here.from /\ Rest /\ UNCHANGED r2

Execute == Load \/ JumpEqual \/ JumpUnequal \/ Mask \/ JumpAlways \/ Return

\* The kernel takes the verdict, and the bind() returns.
Decided == IsA("exit")

Exit ==
    /\ Decided /\ busy' = FALSE
    /\ ctx' = NoContext /\ at' = 0 /\ r2' = Zero /\ r0' = NoVerdict

\* An application asks for an address.
Bind(c) ==
    /\ ~busy /\ busy' = TRUE
    /\ ctx' = c /\ at' = 0 /\ r2' = Zero /\ r0' = NoVerdict

CpuInit ==
    /\ busy = FALSE /\ ctx = NoContext /\ at = 0 /\ r2 = Zero /\ r0 = NoVerdict

CpuNext == Execute \/ Exit \/ \E c \in Context : Bind(c)

CpuSpec == CpuInit /\ [][CpuNext]_cpu

-----------------------------------------------------------------------------
(* Properties *)

\* Whatever is asked for, the program comes to an EXIT, having set its verdict,
\* and the verdict is the rule: it neither falls off its end nor jumps past it.
DecidesTheRule ==
    /\ busy => at + 1 \in DOMAIN Program(ctx.family)
    /\ Decided => r0 = IF Allowed(ctx) THEN 1 ELSE 0
=============================================================================
