------------------------------ MODULE Seccomp -------------------------------
(***************************************************************************)
(* The seccomp filter of the guest listeners (install_allowlist_seccomp),  *)
(* as the BPF program it builds, and the machine that runs it.             *)
(*                                                                         *)
(* An architecture is its ELF machine number, the low byte of AUDIT_ARCH.  *)
(***************************************************************************)
EXTENDS Naturals, Sequences, SequencesExt

X86_64 == 62
X32_SYSCALL_BIT == 1073741824
NR_MMAP == 9
NR_MPROTECT == 10
PROT_EXEC == 4

\* The post-bind working set of the listener.
ALLOW == <<0, 1, 3, 5, 7, 8, 11, 12, 13, 14, 15, 16, 17, 18, 19, 20, 24, 25, 28, 32, 33,
  35, 39, 43, 44, 45, 46, 47, 48, 51, 52, 54, 55, 60, 72, 87, 127, 131, 186, 202, 204,
  217, 228, 230, 231, 232, 233, 257, 262, 263, 269, 270, 273, 281, 288, 291, 292, 302,
  318, 334, 424, 439, 441>>

Ld(field) == [op |-> "ld", k |-> field]
Jeq(k, jt, jf) == [op |-> "jeq", k |-> k, jt |-> jt, jf |-> jf]
Jset(bit, jt, jf) == [op |-> "jset", k |-> bit, jt |-> jt, jf |-> jf]
Kill == [op |-> "ret", k |-> "kill"]
Allow == [op |-> "ret", k |-> "allow"]

\* Mutant: a call that is not this one skips three instructions.
ProtCheckShort(nr) ==
  <<Jeq(nr, 0, 3), Ld("prot"), Jset(PROT_EXEC, 0, 1), Kill, Allow>>
\* mmap and mprotect are allowed without PROT_EXEC.
ProtCheck(nr) ==
  <<Jeq(nr, 0, 4), Ld("prot"), Jset(PROT_EXEC, 0, 1), Kill, Allow>>

Ladder ==
  [n \in 1..(2 * Len(ALLOW)) |-> IF n % 2 = 1 THEN Jeq(ALLOW[(n + 1) \div 2], 0, 1) ELSE Allow]

Filter ==
  <<Ld("arch"), Jeq(X86_64, 1, 0), Kill, Ld("nr"), Jset(X32_SYSCALL_BIT, 0, 1), Kill>>
  \o ProtCheck(NR_MMAP) \o ProtCheck(NR_MPROTECT)
  \o <<Ld("nr")>> \o Ladder \o <<Kill>>

\* The machine: one accumulator, jumps forward only.
Holds(insn, acc) ==
  IF insn.op = "jeq" THEN acc = insn.k ELSE (acc \div insn.k) % 2 = 1

\* Where a jump leads.
Jump(insn, pc, acc) == pc + 1 + (IF Holds(insn, acc) THEN insn.jt ELSE insn.jf)

\* What the program decides of a call from an instruction and an accumulator on.
Machine(call) ==
  LET from[pc \in Nat \ {0}] ==
        [acc \in Nat |->
           IF pc > Len(Filter) THEN "off the end"
           ELSE IF Filter[pc].op = "ret" THEN Filter[pc].k
           ELSE IF Filter[pc].op = "ld" THEN from[pc + 1][call[Filter[pc].k]]
           ELSE from[Jump(Filter[pc], pc, acc)][acc]]
  IN  from

Decision(call) == Machine(call)[1][0]

\* What the filter is for.
Policy(call) ==
  IF /\ call.arch = X86_64 /\ call.nr < X32_SYSCALL_BIT
     /\ \/ call.nr \in Range(ALLOW)
        \/ call.nr \in {NR_MMAP, NR_MPROTECT} /\ (call.prot \div PROT_EXEC) % 2 = 0
  THEN "allow" ELSE "kill"

\* Every jump lands where it should: the program decides each call as the policy
\* does, whatever its architecture, number and protection.
FilterIsPolicy(call) == Decision(call) = Policy(call)
=============================================================================
