---------------------------- MODULE I386Machine ----------------------------
(***************************************************************************)
(* The part of an i386 process that the invalid-opcode trap sees: the      *)
(* struct pt_regs saved on entry to do_invalid_op, the words of memory the *)
(* process can name, and the eight bytes of program text at regs->ip that  *)
(* parse_emu_instruction reads.  I486Emu (the kernel's emulator) and       *)
(* I486Isa (what a 486 does) are both state machines over this state.      *)
(*                                                                         *)
(* A word has four digits in base B.  B is 256 on the machine; the runs    *)
(* take a smaller B because TLC's integers have 32 bits.  Opcode and ModRM *)
(* bytes keep their real values whatever B is.                             *)
(***************************************************************************)
EXTENDS Integers, Sequences

CONSTANTS
    B,          \* values of one byte of a word or of a displacement
    TASK_SIZE,  \* user addresses are below this one
    Cells,      \* addresses of the words that are mapped, kernel ones included
    Programs    \* the instructions that trap, in order, in each program run

VARIABLES
    reg,        \* regs->ax, cx, dx, bx, sp, bp, si, di under their x86 numbers
    ip,         \* regs->ip
    flags,      \* the bits set in regs->flags
    mem,        \* the word at each mapped address
    text,       \* the instructions still to trap
    sig         \* what ended the process: "none" while it runs

machine == << reg, ip, flags, mem, text, sig >>

Reg == 0 .. 7
AX  == 0
WordMod == B * B * B * B
Word == 0 .. (WordMod - 1)

ArithFlags  == {"CF", "PF", "AF", "ZF", "SF", "OF"}
SystemFlags == {"IF", "DF"}

\* A trapped instruction: the eight bytes from regs->ip on, and how many of
\* them lie in mapped user text.
Insn == [bytes : [1 .. 8 -> Nat], avail : 0 .. 8]

ASSUME MachineAssumption ==
    /\ B \in Nat \ {0, 1}
    /\ TASK_SIZE \in Nat
    /\ Cells \subseteq Nat
    /\ Programs \subseteq Seq(Insn)

\* A little-endian word, given by its four bytes.
Value(w) == w[1] + B * (w[2] + B * (w[3] + B * w[4]))

Wrap(n) == n % WordMod

ones[n \in Nat] == IF n = 0 THEN 0 ELSE (n % 2) + ones[n \div 2]

\* The arithmetic flags "addl" leaves for the operands a and b.
AddFlags(a, b) ==
    LET r     == Wrap(a + b)
        neg(x) == x >= WordMod \div 2
    IN  {f \in ArithFlags :
            \/ f = "CF" /\ a + b >= WordMod
            \/ f = "ZF" /\ r = 0
            \/ f = "SF" /\ neg(r)
            \/ f = "OF" /\ neg(a) = neg(b) /\ neg(r) # neg(a)
            \/ f = "AF" /\ (a % 16) + (b % 16) >= 16
            \/ f = "PF" /\ ones[r % B] % 2 = 0}

\* The bytes of a word in the opposite order.
SwapBytes(x) ==
    Value(<< (x \div (B * B * B)) % B, (x \div (B * B)) % B, (x \div B) % B, x % B >>)

UserWord(a) == a + 4 <= TASK_SIZE

\* The instruction at regs->ip.
code  == Head(text).bytes
avail == Head(text).avail

Fatal == {"SIGILL", "SIGSEGV", "oops"}

MachineTypeOK ==
    /\ reg \in [Reg -> Word]
    /\ ip \in Nat
    /\ flags \subseteq (ArithFlags \cup SystemFlags)
    /\ mem \in [Cells -> Word]
    /\ text \in Seq(Insn)
    /\ sig \in Fatal \cup {"none"}
=============================================================================
