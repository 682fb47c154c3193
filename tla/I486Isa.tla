------------------------------ MODULE I486Isa ------------------------------
(***************************************************************************)
(* The instructions README.md promises to programs on a 386, as a 486 (and *)
(* for endbr32 a CPU without CET) executes them: the 32-bit forms of       *)
(* cmpxchg, xadd and bswap, and endbr32.  This is the reference the        *)
(* emulator of arch/x86/kernel/i486_emu.c is held against; it is written   *)
(* from the instruction set, and takes no account of what the emulator     *)
(* manages.  An instruction is executed, or the process gets a signal and  *)
(* is otherwise untouched: there is nothing in between.                    *)
(***************************************************************************)
EXTENDS I386Machine

Locked(c) == c[1] = 240

\* Position of the opcode's 0F escape byte in the window.
At(c) == IF Locked(c) THEN 2 ELSE 1

Opcode(c) == c[At(c) + 1]
ModRM(c)  == c[At(c) + 2]
Mod(c)    == (ModRM(c) \div 64) % 4
RegOp(c)  == (ModRM(c) \div 8) % 8
Rm(c)     == ModRM(c) % 8

IsEndbr32(c)  == c[1] = 243 /\ c[2] = 15 /\ c[3] = 30 /\ c[4] = 251
IsTwoByte(c)  == ~IsEndbr32(c) /\ c[At(c)] = 15
IsCmpxchg(c)  == IsTwoByte(c) /\ Opcode(c) = 177
IsXadd(c)     == IsTwoByte(c) /\ Opcode(c) = 193
IsBswap(c)    == IsTwoByte(c) /\ Opcode(c) \in 200 .. 207 /\ ~Locked(c)
HasModRM(c)   == IsCmpxchg(c) \/ IsXadd(c)

\* The displacement bytes that follow ModRM, and their value.
Disp8(c)  == c[At(c) + 3]
Disp32(c) == Value([i \in 1 .. 4 |-> c[At(c) + 2 + i]])
SignExtend8(d) == IF d < B \div 2 THEN d ELSE WordMod - B + d

Absolute(c)  == Mod(c) = 0 /\ Rm(c) = 5
UsesSib(c)   == Mod(c) # 3 /\ Rm(c) = 4

\* Bytes of displacement, hence the length of a cmpxchg or xadd.
DispBytes(c) == CASE Mod(c) = 1 -> 1
                  [] Mod(c) = 2 \/ Absolute(c) -> 4
                  [] OTHER -> 0
ModRMLength(c) == At(c) + 2 + DispBytes(c)

EffectiveAddress(c) ==
    CASE Absolute(c) -> Disp32(c)
      [] Mod(c) = 0 /\ ~Absolute(c) -> reg[Rm(c)]
      [] Mod(c) = 1 -> Wrap(reg[Rm(c)] + SignExtend8(Disp8(c)))
      [] Mod(c) = 2 -> Wrap(reg[Rm(c)] + Disp32(c))

-----------------------------------------------------------------------------
(* One step of the CPU on each instruction.                                *)

Advance(n) == ip' = ip + n /\ sig' = sig

\* Compare AX with dest: equal, dest takes src; different, AX takes dest.  The
\* CPU also sets the other arithmetic flags as CMP would; no program README.md
\* speaks of reads them, so they are left open.
CmpxchgFlags(equal) ==
    \E others \in SUBSET (ArithFlags \ {"ZF"}) :
        flags' = (flags \cap SystemFlags) \cup others
                     \cup (IF equal THEN {"ZF"} ELSE {})

CmpxchgReg(c) ==
    LET dest == Rm(c) IN
    /\ CmpxchgFlags(reg[AX] = reg[dest])
    /\ reg' = IF reg[AX] = reg[dest] THEN [reg EXCEPT ![dest] = reg[RegOp(c)]]
                                     ELSE [reg EXCEPT ![AX] = reg[dest]]
    /\ mem' = mem

CmpxchgMem(c, a) ==
    /\ CmpxchgFlags(reg[AX] = mem[a])
    /\ IF reg[AX] = mem[a]
       THEN mem' = [mem EXCEPT ![a] = reg[RegOp(c)]] /\ reg' = reg
       ELSE reg' = [reg EXCEPT ![AX] = mem[a]] /\ mem' = mem

\* TEMP := SRC + DEST; SRC := DEST; DEST := TEMP.
XaddReg(c) ==
    LET s == RegOp(c)
        d == Rm(c)
    IN  /\ reg' = [reg EXCEPT ![s] = reg[d], ![d] = Wrap(reg[s] + reg[d])]
        /\ flags' = (flags \cap SystemFlags) \cup AddFlags(reg[s], reg[d])
        /\ mem' = mem

XaddMem(c, a) ==
    LET s == RegOp(c) IN
    /\ reg' = [reg EXCEPT ![s] = mem[a]]
    /\ mem' = [mem EXCEPT ![a] = Wrap(reg[s] + mem[a])]
    /\ flags' = (flags \cap SystemFlags) \cup AddFlags(reg[s], mem[a])

\* A lock prefix on a register operand is an invalid opcode.
OnRegister(c) ==
    /\ Mod(c) = 3 /\ ~Locked(c)
    /\ IF IsCmpxchg(c) THEN CmpxchgReg(c) ELSE XaddReg(c)

OnMemory(c, a) ==
    /\ a \in Cells /\ UserWord(a)
    /\ IF IsCmpxchg(c) THEN CmpxchgMem(c, a) ELSE XaddMem(c, a)

ModRMInsn(c) ==
    /\ HasModRM(c)
    /\ Advance(ModRMLength(c))
    /\ \/ OnRegister(c)
       \/ Mod(c) # 3 /\ ~UsesSib(c) /\ OnMemory(c, EffectiveAddress(c))

Bswap(c) ==
    /\ IsBswap(c)
    /\ Advance(2)
    /\ reg' = [reg EXCEPT ![Opcode(c) % 8] = SwapBytes(@)]
    /\ UNCHANGED << flags, mem >>

Endbr32(c) ==
    /\ IsEndbr32(c)
    /\ Advance(4)
    /\ UNCHANGED << reg, flags, mem >>

Execute(c) == ModRMInsn(c) \/ Bswap(c) \/ Endbr32(c)

-----------------------------------------------------------------------------
OperandMapped(c) == EffectiveAddress(c) \in {a \in Cells : UserWord(a)}

\* The instruction is one the CPU carries out, given that the first n bytes at
\* regs->ip can be fetched.
Executable(c, n) ==
    \/ IsEndbr32(c) /\ n >= 4
    \/ IsBswap(c) /\ n >= 2
    \/ /\ HasModRM(c) /\ n >= ModRMLength(c)
       /\ IF Mod(c) = 3 THEN ~Locked(c) ELSE OperandMapped(c)

\* An invalid opcode, an instruction that cannot be fetched or an operand that
\* cannot be accessed: a signal, and nothing else.  Which of the two signals
\* it is is not told apart.
Fault ==
    /\ sig' \in {"SIGILL", "SIGSEGV"}
    /\ UNCHANGED << reg, ip, flags, mem >>

\* Operands addressed through a SIB byte are not described here.
Described(c) == ~(HasModRM(c) /\ UsesSib(c))

Init ==
    /\ reg \in [Reg -> Word]
    /\ ip \in Nat
    /\ flags \in SUBSET (ArithFlags \cup SystemFlags)
    /\ mem \in [Cells -> Word]
    /\ text \in Programs
    /\ sig = "none"

Next ==
    /\ sig = "none" /\ text # << >>
    /\ text' = Tail(text)
    /\ Described(code)
    /\ IF Executable(code, avail) THEN Execute(code) ELSE Fault

Spec == Init /\ [][Next]_machine
=============================================================================
