------------------------------ MODULE I486Emu ------------------------------
(***************************************************************************)
(* arch/x86/kernel/i486_emu.c and its caller do_invalid_op: the 386 traps  *)
(* on an instruction it does not know, the kernel decodes the eight bytes  *)
(* at regs->ip and either performs the instruction on the saved registers  *)
(* and the process' memory, or puts regs->ip back and sends SIGILL.        *)
(*                                                                         *)
(* insts and insts2 are sequences of four bytes, least significant first,  *)
(* so ">>= 8" drops the first.  A struct pointer is a record: where it     *)
(* points ("regs", a slot of the struct pt_regs on the kernel stack, or    *)
(* "user", an address) and which slot or address.                          *)
(*                                                                         *)
(* The whole handler is one step.  That is exact for one thread; what      *)
(* happens when the handler sleeps half-way is the subject of EmuAtomic.   *)
(***************************************************************************)
EXTENDS I386Machine

CONSTANTS
    InitRegs,           \* registers a process may have when it first traps
    InitMem             \* contents of the mapped words at that time

ASSUME EmuAssumption ==
    /\ InitRegs \subseteq [Reg -> Word]
    /\ InitMem \subseteq [Cells -> Word]

MODRM_REG(b) == (b \div 8) % 8
MODRM_MOD(b) == (b \div 64) % 4
MODRM_RM(b)  == b % 8

Shr8(w) == << w[2], w[3], w[4], 0 >>

\* insts | (insts2 << 8): insts has one byte left, so the two do not overlap.
OrShl8(w, w2) == << w[1], w[2] + w2[1], w[3] + w2[2], w[4] + w2[3] >>

Slot(r) == [at |-> "regs", n |-> r]
User(a) == [at |-> "user", n |-> a]

\* *p, where p points to a register or to a mapped word.
Deref(p) == IF p.at = "regs" THEN reg[p.n] ELSE mem[p.n]

\* Mutant of access_ok: compares the first byte of the word only.
access_ok_FirstByte(p) == p.at = "user" /\ p.n <= TASK_SIZE

\* access_ok(VERIFY_WRITE, p, 4): the pt_regs lie above user_addr_max().
access_ok(p) == p.at = "user" /\ p.n + 4 <= TASK_SIZE

\* A store through p, into the registers or into memory.
RegAfter(r, p, v) == IF p.at = "regs" THEN [r EXCEPT ![p.n] = v] ELSE r
MemAfter(p, v)    == IF p.at = "user" THEN [mem EXCEPT ![p.n] = v] ELSE mem

-----------------------------------------------------------------------------
(* Decoding.  A parser state is [insts, insts2, orig_ip, ip, lock_prefix];  *)
(* parse_modrm_register adds the operands it found.                         *)

\* Past one byte of the instruction.
Past(ps) ==
    [insts |-> Shr8(ps.insts), insts2 |-> ps.insts2, orig_ip |-> ps.orig_ip,
     ip |-> ps.ip + 1, lock_prefix |-> ps.lock_prefix]

\* The four displacement bytes: one is still in insts when there is no lock
\* prefix, none when there is one.
Disp32Bytes(ps) ==
    IF ps.ip - ps.orig_ip < 4 THEN OrShl8(ps.insts, ps.insts2) ELSE ps.insts2

Disp8Byte(ps) ==
    IF ps.ip - ps.orig_ip = 4 THEN ps.insts2[1] ELSE ps.insts[1]

\* Mutant of AfterDisp32: forgets that a lock prefix moves the displacement.
AfterDisp32_NoLock(ps) == ps.ip + (4 - (ps.ip - ps.orig_ip)) + 3

\* "ip += 4 - inst_size", then 3 or 4 more.
AfterDisp32(ps) ==
    LET inst_size == ps.ip - ps.orig_ip
    IN  ps.ip + (4 - inst_size) + (IF inst_size < 4 THEN 3 ELSE 4)

Found(regs_only, src, dest, next) ==
    [ret |-> 1, regs_only |-> regs_only, src |-> src, dest |-> dest, ip |-> next]

Failed(ret, ps) ==
    [ret |-> ret, regs_only |-> FALSE, src |-> 0, dest |-> Slot(0), ip |-> ps.ip]

\* The switch on mod, once rm has selected the register base and ps is past
\* the ModRM byte.  With mod = 0 the pointer returned is &regs->base itself.
parse_mod(ps, mod, rm, src) ==
    CASE mod = 0 /\ rm # 5 ->
           Found(FALSE, src, Slot(rm), ps.ip)
      [] mod = 0 /\ rm = 5 ->
           Found(FALSE, src, User(Value(Disp32Bytes(ps))), AfterDisp32(ps))
      [] mod = 1 ->
           Found(FALSE, src, User(Wrap(reg[rm] + Disp8Byte(ps))), ps.ip + 1)
      [] mod = 2 ->
           Found(FALSE, src, User(Wrap(reg[rm] + Value(Disp32Bytes(ps)))),
                 AfterDisp32(ps))

parse_modrm_register(ps) ==
    LET b   == ps.insts[1]
        mod == MODRM_MOD(b)
        rm  == MODRM_RM(b)
        src == MODRM_REG(b)
    IN  CASE mod = 3           -> Found(TRUE, src, Slot(rm), ps.ip + 1)
          [] mod # 3 /\ rm = 4 -> Failed(-95, ps)           \* -EOPNOTSUPP
          [] mod # 3 /\ rm # 4 -> parse_mod(Past(ps), mod, rm, src)

-----------------------------------------------------------------------------
(* Emulation.  An outcome is what the handler leaves behind: its return     *)
(* value, the saved registers, memory, and whether the kernel oopsed on a   *)
(* user address it dereferenced without an exception table entry.           *)

Outcome(ret, r, next, f, m) ==
    [ret |-> ret, reg |-> r, ip |-> next, flags |-> f, mem |-> m, oops |-> FALSE]

Rejected(ret, next) == Outcome(ret, reg, next, flags, mem)

Oops(next, f) ==
    [ret |-> 1, reg |-> reg, ip |-> next, flags |-> f, mem |-> mem, oops |-> TRUE]

Mapped(p) == p.at = "regs" \/ p.n \in Cells

parse_emu_cmpxchg(ps) ==
    LET op == parse_modrm_register(ps)
        d  == op.dest
        s  == reg[op.src]
    IN  CASE op.ret < 0 -> Rejected(-95, op.ip)
          [] op.ret > 0 /\ ~op.regs_only /\ ~access_ok(d) ->
               Rejected(-12, op.ip)                         \* -ENOMEM
          [] op.ret > 0 /\ (op.regs_only \/ access_ok(d)) /\ ~Mapped(d) ->
               Oops(op.ip, flags)
          [] op.ret > 0 /\ (op.regs_only \/ access_ok(d)) /\ Mapped(d) ->
               IF reg[AX] = Deref(d)
               THEN Outcome(1, RegAfter(reg, d, s), op.ip,
                            flags \cup {"ZF"}, MemAfter(d, s))
               ELSE Outcome(1, [reg EXCEPT ![AX] = Deref(d)], op.ip,
                            flags \ {"ZF"}, mem)

\* pushfl in the kernel after the addl: interrupts are off, DF is clear.
KernelFlagsAfterAdd(a, b) == AddFlags(a, b)

\* Mutant of XaddFlags: regs->flags takes the kernel's flags as they are.
XaddFlags_Whole(a, b) == KernelFlagsAfterAdd(a, b)

XaddFlags(a, b) ==
    (flags \ ArithFlags) \cup (KernelFlagsAfterAdd(a, b) \cap ArithFlags)

parse_emu_xadd(ps) ==
    LET op   == parse_modrm_register(ps)
        d    == op.dest
        src  == reg[op.src]
        \* get_user's fixup leaves 0 in its target; the error is not looked at
        dest == IF Mapped(d) THEN Deref(d) ELSE 0
        sum  == Wrap(src + dest)
    IN  CASE op.ret < 0 -> Rejected(-95, op.ip)
          [] op.ret > 0 /\ ~op.regs_only /\ ~access_ok(d) ->
               Rejected(-12, op.ip)
          [] op.ret > 0 /\ (op.regs_only \/ access_ok(d)) /\ ~Mapped(d) ->
               Oops(op.ip, XaddFlags(src, dest))
          [] op.ret > 0 /\ (op.regs_only \/ access_ok(d)) /\ Mapped(d) ->
               Outcome(1, RegAfter([reg EXCEPT ![op.src] = Deref(d)], d, sum),
                       op.ip, XaddFlags(src, dest), MemAfter(d, sum))

\* Mutant of bswap32: the second byte is shifted up without its mask.
bswap32_Unmasked(x) ==
      (x % B) * (B * B * B)
    + (x \div B) * (B * B)
    + ((x \div (B * B)) % B) * B
    + ((x \div (B * B * B)) % B)

bswap32(x) ==
      (x % B) * (B * B * B)
    + ((x \div B) % B) * (B * B)
    + ((x \div (B * B)) % B) * B
    + ((x \div (B * B * B)) % B)

parse_emu_bswap(ps) ==
    LET r == MODRM_RM(ps.insts[1])
    IN  IF ps.lock_prefix = 1
        THEN Rejected(-95, ps.ip)
        ELSE Outcome(1, [reg EXCEPT ![r] = bswap32(@)], ps.ip + 1, flags, mem)

-----------------------------------------------------------------------------
First4  == << code[1], code[2], code[3], code[4] >>
Second4 == << code[5], code[6], code[7], code[8] >>

\* Past the lock prefix, if there is one.
Start ==
    LET lock == IF First4[1] = 240 THEN 1 ELSE 0            \* f0
    IN  [insts |-> IF lock = 1 THEN Shr8(First4) ELSE First4, insts2 |-> Second4,
         orig_ip |-> ip, ip |-> ip + lock, lock_prefix |-> lock]

\* The opcode byte that follows 0f selects the instruction.
Dispatch(ps) ==
    LET op == ps.insts[1]
    IN  CASE op = 177 -> parse_emu_cmpxchg(Past(ps))        \* b1
          [] op = 193 -> parse_emu_xadd(Past(ps))           \* c1
          [] op \in {200, 201, 202, 203, 206, 207} ->       \* c8-cb, ce, cf
               parse_emu_bswap(ps)
          [] OTHER -> Rejected(-95, ps.ip)

\* Mutant of Rollback: the failing paths return without it.
Rollback_Missing(o) == o

\* "end:" puts regs->ip back when the instruction was not emulated.
Rollback(o) ==
    IF o.ret < 0 THEN Outcome(o.ret, o.reg, ip, o.flags, o.mem) ELSE o

parse_emu_instruction ==
    IF avail < 8
    THEN Rejected(-12, ip)                                  \* a get_user failed
    ELSE IF First4 = << 243, 15, 30, 251 >>                 \* f3 0f 1e fb
         THEN Outcome(1, reg, ip + 4, flags, mem)
         ELSE IF Start.insts[1] # 15
              THEN Rollback(Rejected(-95, Start.ip))
              ELSE Rollback(Dispatch(Past(Start)))

\* do_trap, for a trap from user mode: force_sig_info with this signal.
do_trap == "SIGILL"

do_invalid_op ==
    LET o == parse_emu_instruction
    IN  /\ sig = "none"
        /\ text # << >>
        /\ reg' = o.reg /\ ip' = o.ip /\ flags' = o.flags /\ mem' = o.mem
        /\ sig' = IF o.oops THEN "oops"
                  ELSE IF o.ret > 0 THEN "none" ELSE do_trap
        \* the process runs on, to the next instruction that traps
        /\ text' = Tail(text)

Init ==
    /\ reg \in InitRegs
    /\ ip = TASK_SIZE \div 2
    /\ flags \in {{"IF"}, {"IF", "DF", "CF", "ZF"}}
    /\ mem \in InitMem
    /\ text \in Programs
    /\ sig = "none"

Next == do_invalid_op

Spec == Init /\ [][Next]_machine

-----------------------------------------------------------------------------
(* Properties.                                                             *)

\* Registers and memory stay words whatever is added, swapped or stored, and
\* flags holds no bit but the modelled ones (parse_emu_xadd, parse_emu_bswap).
TypeOK == MachineTypeOK

I486 == INSTANCE I486Isa

-----------------------------------------------------------------------------
(* Where the emulator is known to differ from I486Isa.  ImplementsIsa       *)
(* claims nothing of these instructions; RunsAsOn486 claims them too and is *)
(* expected to fail.                                                        *)

\* cmpxchg and xadd on (%reg): the pointer is &regs->reg, access_ok refuses it.
Indirect(c) == I486!HasModRM(c) /\ I486!Mod(c) = 0 /\ I486!Rm(c) \notin {4, 5}

\* cmpxchg and xadd on -4(%reg): the displacement byte is not sign-extended.
NegativeDisp8(c) ==
    I486!HasModRM(c) /\ I486!Mod(c) = 1 /\ I486!Rm(c) # 4 /\ I486!Disp8(c) >= B \div 2

\* Operands addressed through a SIB byte: refused.
BySib(c) == I486!HasModRM(c) /\ I486!UsesSib(c)

\* A lock prefix on a register operand, an invalid opcode on a 486: executed.
LockedRegister(c) == I486!HasModRM(c) /\ I486!Mod(c) = 3 /\ I486!Locked(c)

\* A user operand that is not mapped, a SIGSEGV on a 486: the kernel oopses.
Unmapped(c) ==
    /\ I486!HasModRM(c) /\ I486!Mod(c) # 3
    /\ UserWord(I486!EffectiveAddress(c)) /\ I486!EffectiveAddress(c) \notin Cells

\* bswap of %esp and %ebp: the opcode switch has no case for them.
SwapsFrame(c) == I486!IsBswap(c) /\ I486!Opcode(c) % 8 \in {4, 5}

\* An instruction less than eight bytes before the end of the mapped text: both
\* get_user must succeed before anything is decoded.
CutOff == avail < 8 /\ I486!Executable(code, avail)

Shortfall ==
    \/ Indirect(code) \/ NegativeDisp8(code) \/ BySib(code) \/ LockedRegister(code)
    \/ Unmapped(code) \/ SwapsFrame(code) \/ CutOff

\* But for the seven shortfalls above, a trapped instruction has the effect it
\* has on a 486, with the same operands, result and length, or a signal is sent
\* and the process is untouched (do_invalid_op, parse_emu_instruction).  Of the
\* flags cmpxchg leaves, ZF is compared and the other arithmetic ones are not.
ImplementsIsa == [][~Shortfall => I486!Next]_machine

\* Whatever the instruction bytes and the registers are, the emulator stores
\* only below TASK_SIZE: access_ok guards every store that is not to pt_regs.
KernelUntouched ==
    [][\A a \in Cells : ~UserWord(a) => mem'[a] = mem[a]]_machine

\* A SIGILL finds the process exactly where it trapped: regs->ip, advanced
\* byte by byte while decoding, is rolled back on every failing path, and no
\* register, flag or word has been written by then.
SigillIsPrecise ==
    [][sig' = "SIGILL" => UNCHANGED << reg, ip, flags, mem >>]_machine

\* The interrupt and direction flags of the process survive emulation: only
\* the arithmetic bits of the kernel's own flags are merged into regs->flags.
SystemFlagsKept == [][flags' \cap SystemFlags = flags \cap SystemFlags]_machine

-----------------------------------------------------------------------------
\* README.md, line 19: the kernel has a "cmpxchg, xadd, bswap instruction
\* emulator/simulator".  Taken at its word, every trap is a step of a 486.
RunsAsOn486 == [][~BySib(code) => I486!Next]_machine
=============================================================================
