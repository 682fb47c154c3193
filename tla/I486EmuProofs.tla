--------------------------- MODULE I486EmuProofs ---------------------------
(***************************************************************************)
(* Proofs about I486Emu, for every width of a byte (B), every address      *)
(* space, every program and every initial state.                           *)
(*                                                                         *)
(* 1. Decoding.  PastFields to DispFields follow parser_state through the  *)
(*    shifts of insts; Operand says where parse_modrm_register finds its   *)
(*    operands, in terms of the instruction bytes alone.                   *)
(* 2. Safety.  Sound(o) is what every outcome of the handler has to obey;  *)
(*    one lemma per function of i486_emu.c shows that its outcomes do.     *)
(*    The type invariant and the three action properties follow.           *)
(* 3. Conformance.  Where none of the shortfalls I486Emu names applies,    *)
(*    each function's outcome is a step of I486Isa.                        *)
(***************************************************************************)
EXTENDS I486Emu, TLAPS

-----------------------------------------------------------------------------
(* Words, and the two copies of the machine.                               *)

\* I486Isa speaks of the same registers, memory and text as the emulator.
LEMMA SameMachine ==
    /\ I486!WordMod = WordMod
    /\ \A n : I486!Wrap(n) = Wrap(n)
    /\ \A w : I486!Value(w) = Value(w)
    /\ I486!ArithFlags = ArithFlags /\ I486!SystemFlags = SystemFlags
    /\ I486!AX = AX /\ I486!Reg = Reg
    /\ \A a : I486!UserWord(a) = UserWord(a)
    /\ I486!code = code /\ I486!avail = avail
BY DEF I486!WordMod, WordMod, I486!Wrap, Wrap, I486!Value, Value, I486!ArithFlags, ArithFlags,
   I486!SystemFlags, SystemFlags, I486!AX, AX, I486!Reg, Reg, I486!UserWord, UserWord, I486!code, code,
   I486!avail, avail

\* Both modules compute the flags of an addition alike.
LEMMA SameAddFlags == \A a, b : I486!AddFlags(a, b) = AddFlags(a, b)
<1>1. I486!ones = ones
  BY DEF I486!ones, ones
<1> QED
  BY <1>1 DEF I486!AddFlags, AddFlags, I486!WordMod, WordMod, I486!Wrap, Wrap, I486!ArithFlags, ArithFlags

\* Both modules swap bytes alike.
LEMMA SameSwap == \A x : I486!SwapBytes(x) = SwapBytes(x)
  BY DEF I486!SwapBytes, SwapBytes, I486!Value, Value

\* A word has at least one value.
LEMMA WordModType == WordMod \in Nat /\ WordMod > 0
<1>1. B \in Nat /\ B > 0  BY MachineAssumption
<1>2. B * B \in Nat /\ B * B > 0  BY <1>1
<1>3. B * B * B \in Nat /\ B * B * B > 0  BY <1>1, <1>2
<1> QED BY <1>1, <1>3 DEF WordMod

\* What is cut to 32 bits is a word.
LEMMA WrapType == \A n \in Nat : Wrap(n) \in Word
  BY WordModType DEF Wrap, Word

\* One more digit in front of a number below M gives a number below B * M.
LEMMA DigitBound ==
    ASSUME NEW d \in 0 .. (B - 1), NEW M \in Nat \ {0}, NEW n \in 0 .. (M - 1)
    PROVE  d + B * n \in 0 .. (B * M - 1)
<1>1. B \in Nat /\ B > 0  BY MachineAssumption
<1>2. B * n <= B * (M - 1) BY <1>1
<1>3. B * (M - 1) = B * M - B BY <1>1
<1>4. B * n \in Nat BY <1>1
<1> QED BY <1>1, <1>2, <1>3, <1>4

\* bswap32's shifts and masks reverse the bytes of a word and give a word.
LEMMA BswapIsSwap ==
    ASSUME NEW x \in Word
    PROVE  bswap32(x) = SwapBytes(x) /\ bswap32(x) \in Word
<1> DEFINE d1 == x % B
           d2 == (x \div B) % B
           d3 == (x \div (B * B)) % B
           d4 == (x \div (B * B * B)) % B
<1>1. B \in Nat /\ B > 0 /\ x \in Nat
  BY MachineAssumption, WordModType DEF Word
<1>2. B * B \in Nat /\ B * B > 0
  BY <1>1
<1>3. B * B * B \in Nat /\ B * B * B > 0
  BY <1>1, <1>2
<1>4. d1 \in 0 .. (B - 1) /\ d2 \in 0 .. (B - 1) /\ d3 \in 0 .. (B - 1) /\ d4 \in 0 .. (B - 1)
  <2>1. x \div B \in Nat /\ x \div (B * B) \in Nat /\ x \div (B * B * B) \in Nat
    BY <1>1, <1>2, <1>3
  <2> QED BY <1>1, <2>1
<1> HIDE DEF d1, d2, d3, d4
<1>5. SwapBytes(x) = d4 + B * (d3 + B * (d2 + B * d1))
  BY DEF SwapBytes, Value, d1, d2, d3, d4
<1>6. bswap32(x) = d1 * (B * B * B) + d2 * (B * B) + d3 * B + d4
  BY DEF bswap32, d1, d2, d3, d4
<1>7. d4 + B * (d3 + B * (d2 + B * d1)) = d1 * (B * B * B) + d2 * (B * B) + d3 * B + d4
  BY <1>1, <1>2, <1>3, <1>4
<1>8. d2 + B * d1 \in 0 .. (B * B - 1)
  BY <1>1, <1>4, DigitBound
<1>9. d3 + B * (d2 + B * d1) \in 0 .. (B * (B * B) - 1)
  BY <1>2, <1>4, <1>8, DigitBound
<1>10. B * (B * B) \in Nat \ {0}
  BY <1>1, <1>2, <1>3
<1>11. d4 + B * (d3 + B * (d2 + B * d1)) \in 0 .. (B * (B * (B * B)) - 1)
  BY <1>10, <1>4, <1>9, DigitBound
<1>12. B * (B * (B * B)) = WordMod
  BY <1>1 DEF WordMod
<1> QED BY <1>5, <1>6, <1>7, <1>11, <1>12 DEF Word

-----------------------------------------------------------------------------
(* Decoding.                                                               *)

\* The instruction at regs->ip is one of the trapped instructions.
LEMMA HeadType ==
    ASSUME TypeOK, text # << >>
    PROVE  /\ code \in [1 .. 8 -> Nat]
           /\ avail \in 0 .. 8
           /\ Tail(text) \in Seq(Insn)
<1>1. text \in Seq(Insn)
  BY DEF TypeOK, MachineTypeOK
<1>2. Head(text) \in Insn /\ Tail(text) \in Seq(Insn)
  BY <1>1
<1> QED BY <1>2 DEF Insn, code, avail

\* The parser state in front of the ModRM byte.
AtModRM == Past(Past(Start))

\* What one ">>= 8" and "ip += 1" do to the parser state.
LEMMA PastFields ==
    ASSUME NEW ps
    PROVE  /\ Past(ps).insts[1] = ps.insts[2]
           /\ Past(ps).insts = << ps.insts[2], ps.insts[3], ps.insts[4], 0 >>
           /\ Past(ps).insts2 = ps.insts2
           /\ Past(ps).orig_ip = ps.orig_ip
           /\ Past(ps).ip = ps.ip + 1
           /\ Past(ps).lock_prefix = ps.lock_prefix
  BY DEF Past, Shr8

\* The parser state behind a lock prefix.
LEMMA StartLocked ==
    ASSUME I486!Locked(code), ip \in Nat
    PROVE  /\ Start.insts = << code[2], code[3], code[4], 0 >>
           /\ Start.insts2 = << code[5], code[6], code[7], code[8] >>
           /\ Start.orig_ip = ip /\ Start.ip = ip + 1 /\ Start.lock_prefix = 1
           /\ I486!At(code) = 2
  BY DEF Start, First4, Second4, Shr8, I486!Locked, I486!At

\* The parser state when there is no lock prefix.
LEMMA StartUnlocked ==
    ASSUME ~I486!Locked(code), ip \in Nat
    PROVE  /\ Start.insts = << code[1], code[2], code[3], code[4] >>
           /\ Start.insts2 = << code[5], code[6], code[7], code[8] >>
           /\ Start.orig_ip = ip /\ Start.ip = ip /\ Start.lock_prefix = 0
           /\ I486!At(code) = 1
  BY DEF Start, First4, Second4, Shr8, I486!Locked, I486!At

\* The fields of AtModRM and of the state before it, in the terms of the
\* instruction set.
LEMMA AtModRMFields ==
    ASSUME TypeOK, text # << >>
    PROVE  /\ Start.insts[1] = code[I486!At(code)]
           /\ Start.ip \in Nat
           /\ Past(Start).insts[1] = I486!Opcode(code)
           /\ Past(Start).ip = ip + I486!At(code)
           /\ Past(Start).lock_prefix = IF I486!Locked(code) THEN 1 ELSE 0
           /\ AtModRM.insts[1] = I486!ModRM(code)
           /\ AtModRM.ip = ip + I486!At(code) + 1
           /\ AtModRM.orig_ip = ip
           /\ AtModRM.insts2 = << code[5], code[6], code[7], code[8] >>
           /\ AtModRM.insts = IF I486!Locked(code) THEN << code[4], 0, 0, 0 >>
                                                 ELSE << code[3], code[4], 0, 0 >>
<1>1. ip \in Nat
  BY DEF TypeOK, MachineTypeOK
<1>2. CASE I486!Locked(code)
  <2>1. Past(Start).insts = << code[3], code[4], 0, 0 >>
    BY <1>1, <1>2, StartLocked, PastFields
  <2> QED BY <1>1, <1>2, <2>1, StartLocked, PastFields DEF AtModRM, I486!Opcode, I486!ModRM
<1>3. CASE ~I486!Locked(code)
  <2>1. Past(Start).insts = << code[2], code[3], code[4], 0 >>
    BY <1>1, <1>3, StartUnlocked, PastFields
  <2> QED BY <1>1, <1>3, <2>1, StartUnlocked, PastFields DEF AtModRM, I486!Opcode, I486!ModRM
<1> QED BY <1>2, <1>3

\* What follows the ModRM byte.
LEMMA DispFields ==
    ASSUME TypeOK, text # << >>
    PROVE  /\ Past(AtModRM).ip = ip + I486!At(code) + 2
           /\ Disp8Byte(Past(AtModRM)) = I486!Disp8(code)
           /\ Value(Disp32Bytes(Past(AtModRM))) = I486!Disp32(code)
           /\ AfterDisp32(Past(AtModRM)) = ip + I486!At(code) + 6
<1>1. ip \in Nat /\ code \in [1 .. 8 -> Nat]
  BY HeadType DEF TypeOK, MachineTypeOK
<1> DEFINE P == Past(AtModRM)
<1>2. /\ P.ip = AtModRM.ip + 1 /\ P.orig_ip = AtModRM.orig_ip
      /\ P.insts2 = AtModRM.insts2
      /\ P.insts = << AtModRM.insts[2], AtModRM.insts[3], AtModRM.insts[4], 0 >>
  BY PastFields
<1> HIDE DEF P
<1>3. P.orig_ip = ip
  BY <1>2, AtModRMFields
<1>4. P.insts2 = << code[5], code[6], code[7], code[8] >>
  BY <1>2, AtModRMFields
<1>5. P.ip = ip + I486!At(code) + 2
  <2>1. I486!At(code) \in Nat
    BY DEF I486!At
  <2>2. P.ip = AtModRM.ip + 1
    BY <1>2
  <2>3. AtModRM.ip = ip + I486!At(code) + 1
    BY AtModRMFields
  <2>4. ip + I486!At(code) + 1 + 1 = ip + I486!At(code) + 2
    <3>1. \A m, n \in Nat : m + n + 1 + 1 = m + n + 2
      OBVIOUS
    <3> QED BY <1>1, <2>1, <3>1, Zenon
  <2> QED BY <2>2, <2>3, <2>4
<1>6. CASE I486!Locked(code)
  <2>1. I486!At(code) = 2 /\ P.ip - P.orig_ip = 4
    BY <1>1, <1>3, <1>5, <1>6 DEF I486!At
  <2>2. Disp32Bytes(P) = << code[5], code[6], code[7], code[8] >>
    BY <1>4, <2>1 DEF Disp32Bytes
  <2>3. I486!Disp32(code) = Value(<< code[5], code[6], code[7], code[8] >>)
    BY <1>1, <2>1 DEF I486!Disp32, I486!Value, Value
  <2>4. Disp8Byte(P) = code[5]
    BY <1>4, <2>1 DEF Disp8Byte
  <2>5. AfterDisp32(P) = P.ip + (4 - 4) + 4
    BY <2>1 DEF AfterDisp32
  <2>6. AfterDisp32(P) = ip + I486!At(code) + 6
    BY <1>1, <1>5, <2>1, <2>5
  <2>7. I486!Disp8(code) = code[5]
    BY <2>1 DEF I486!Disp8
  <2> QED BY <1>5, <2>2, <2>3, <2>4, <2>6, <2>7 DEF P
<1>7. CASE ~I486!Locked(code)
  <2>1. I486!At(code) = 1 /\ P.ip - P.orig_ip = 3
    BY <1>1, <1>3, <1>5, <1>7 DEF I486!At
  <2>2. P.insts = << code[4], 0, 0, 0 >>
    BY <1>2, <1>7, AtModRMFields
  <2>3. Disp32Bytes(P) = << code[4], code[5], code[6], code[7] >>
    BY <1>1, <1>4, <2>1, <2>2 DEF Disp32Bytes, OrShl8
  <2>4. I486!Disp32(code) = Value(<< code[4], code[5], code[6], code[7] >>)
    BY <1>1, <2>1 DEF I486!Disp32, I486!Value, Value
  <2>5. Disp8Byte(P) = code[4]
    BY <2>1, <2>2 DEF Disp8Byte
  <2>6. AfterDisp32(P) = P.ip + (4 - 3) + 3
    BY <2>1 DEF AfterDisp32
  <2>7. AfterDisp32(P) = ip + I486!At(code) + 6
    BY <1>1, <1>5, <2>1, <2>6
  <2>8. I486!Disp8(code) = code[4]
    BY <2>1 DEF I486!Disp8
  <2> QED BY <1>5, <2>3, <2>4, <2>5, <2>7, <2>8 DEF P
<1> QED BY <1>6, <1>7

\* What the decoder makes of the instruction's operands.
Op == parse_modrm_register(AtModRM)

\* parse_modrm_register, addressing form by addressing form: the register it
\* takes as source, the slot or the address it takes as destination, and where
\* it leaves regs->ip.
LEMMA Operand ==
    ASSUME TypeOK, text # << >>
    PROVE  /\ I486!Mod(code) = 3 =>
                Op = Found(TRUE, I486!RegOp(code), Slot(I486!Rm(code)), ip + I486!At(code) + 2)
           /\ I486!UsesSib(code) => Op = Failed(-95, AtModRM)
           /\ I486!Mod(code) = 0 /\ I486!Rm(code) \notin {4, 5} =>
                Op = Found(FALSE, I486!RegOp(code), Slot(I486!Rm(code)), ip + I486!At(code) + 2)
           /\ I486!Absolute(code) =>
                Op = Found(FALSE, I486!RegOp(code), User(I486!Disp32(code)), ip + I486!At(code) + 6)
           /\ I486!Mod(code) = 1 /\ I486!Rm(code) # 4 =>
                Op = Found(FALSE, I486!RegOp(code),
                           User(Wrap(reg[I486!Rm(code)] + I486!Disp8(code))), ip + I486!At(code) + 3)
           /\ I486!Mod(code) = 2 /\ I486!Rm(code) # 4 =>
                Op = Found(FALSE, I486!RegOp(code),
                           User(Wrap(reg[I486!Rm(code)] + I486!Disp32(code))), ip + I486!At(code) + 6)
<1>1. ip \in Nat /\ I486!At(code) \in Nat
  BY DEF TypeOK, MachineTypeOK, I486!At
<1>2. AtModRM.insts[1] = I486!ModRM(code)
  BY AtModRMFields
<1> DEFINE mod == I486!Mod(code)
           rm  == I486!Rm(code)
           src == I486!RegOp(code)
           P   == Past(AtModRM)
<1>3. /\ MODRM_MOD(AtModRM.insts[1]) = mod /\ MODRM_RM(AtModRM.insts[1]) = rm
      /\ MODRM_REG(AtModRM.insts[1]) = src
  BY <1>2 DEF MODRM_MOD, MODRM_RM, MODRM_REG, I486!Mod, I486!Rm, I486!RegOp
<1>4. AtModRM.ip + 1 = ip + I486!At(code) + 2
  <2>1. AtModRM.ip = ip + I486!At(code) + 1
    BY AtModRMFields
  <2> QED BY <1>1, <2>1
<1>5. P.ip = ip + I486!At(code) + 2
  BY DispFields
<1>14. P.ip + 1 = ip + I486!At(code) + 3
  BY <1>1, <1>5
<1>6. Op = CASE mod = 3           -> Found(TRUE, src, Slot(rm), AtModRM.ip + 1)
             [] mod # 3 /\ rm = 4 -> Failed(-95, AtModRM)
             [] mod # 3 /\ rm # 4 -> parse_mod(P, mod, rm, src)
  BY <1>3 DEF Op, parse_modrm_register
<1> HIDE DEF mod, rm, src, P
<1>7. mod = 3 => Op = Found(TRUE, src, Slot(rm), ip + I486!At(code) + 2)
  BY <1>4, <1>6
<1>8. mod # 3 /\ rm = 4 => Op = Failed(-95, AtModRM)
  BY <1>6
<1>9. mod # 3 /\ rm # 4 => Op = parse_mod(P, mod, rm, src)
  BY <1>6
<1>10. ASSUME mod = 0, rm \notin {4, 5}
       PROVE  Op = Found(FALSE, src, Slot(rm), ip + I486!At(code) + 2)
  <2>1. mod = 0 /\ rm # 5 => parse_mod(P, mod, rm, src) = Found(FALSE, src, Slot(rm), P.ip)
    BY DEF parse_mod
  <2>2. Op = parse_mod(P, mod, rm, src)
    BY <1>9, <1>10
  <2> QED BY <1>5, <1>10, <2>1, <2>2, Zenon
<1>11. mod = 0 /\ rm = 5 => Op = Found(FALSE, src, User(I486!Disp32(code)), ip + I486!At(code) + 6)
  BY <1>9, DispFields DEF parse_mod, P
<1>12. ASSUME mod = 1, rm # 4
       PROVE  Op = Found(FALSE, src, User(Wrap(reg[rm] + I486!Disp8(code))),
                         ip + I486!At(code) + 3)
  <2>1. parse_mod(P, mod, rm, src) =
          Found(FALSE, src, User(Wrap(reg[rm] + Disp8Byte(P))), P.ip + 1)
    BY <1>12 DEF parse_mod
  <2>2. Op = parse_mod(P, mod, rm, src)
    BY <1>9, <1>12
  <2>3. Disp8Byte(P) = I486!Disp8(code)
    BY DispFields DEF P
  <2> QED BY <1>14, <2>1, <2>2, <2>3, Zenon
<1>13. mod = 2 /\ rm # 4 =>
         Op = Found(FALSE, src, User(Wrap(reg[rm] + I486!Disp32(code))), ip + I486!At(code) + 6)
  BY <1>9, DispFields DEF parse_mod, P
<1> QED
  BY <1>7, <1>8, <1>10, <1>11, <1>12, <1>13 DEF mod, rm, src, I486!UsesSib, I486!Absolute

\* The parts of the ModRM byte are small numbers, and the displacement is a
\* number, whatever the bytes of the instruction are.
LEMMA ModRMType ==
    ASSUME TypeOK, text # << >>
    PROVE  /\ I486!Mod(code) \in 0 .. 3 /\ I486!RegOp(code) \in Reg /\ I486!Rm(code) \in Reg
           /\ I486!At(code) \in {1, 2} /\ I486!Disp8(code) \in Nat /\ I486!Disp32(code) \in Nat
<1>1. code \in [1 .. 8 -> Nat] /\ I486!At(code) \in {1, 2}
  BY HeadType DEF I486!At
<1>2. I486!ModRM(code) \in Nat /\ I486!Disp8(code) \in Nat
  BY <1>1 DEF I486!ModRM, I486!Disp8
<1>3. /\ I486!Mod(code) \in 0 .. 3 /\ I486!RegOp(code) \in 0 .. 7 /\ I486!Rm(code) \in 0 .. 7
  BY <1>2 DEF I486!Mod, I486!RegOp, I486!Rm
<1>4. I486!Disp32(code) \in Nat
  <2> DEFINE d(i) == code[I486!At(code) + 2 + i]
  <2>1. d(1) \in Nat /\ d(2) \in Nat /\ d(3) \in Nat /\ d(4) \in Nat
    BY <1>1
  <2>2. I486!Disp32(code) = d(1) + B * (d(2) + B * (d(3) + B * d(4)))
    BY DEF I486!Disp32, I486!Value
  <2> HIDE DEF d
  <2>3. B \in Nat
    BY MachineAssumption
  <2>4. B * d(4) \in Nat
    BY <2>1, <2>3
  <2>5. B * (d(3) + B * d(4)) \in Nat
    BY <2>1, <2>3, <2>4
  <2>6. B * (d(2) + B * (d(3) + B * d(4))) \in Nat
    BY <2>1, <2>3, <2>5
  <2> QED BY <2>1, <2>2, <2>6
<1> QED BY <1>1, <1>2, <1>3, <1>4 DEF Reg

\* A decoded operand: a register slot or a user address.
LEMMA OpType ==
    ASSUME TypeOK, text # << >>
    PROVE  /\ Op.ret \in {1, -95} /\ Op.ip \in Nat
           /\ Op.ret = 1 => /\ Op.src \in Reg
                            /\ \/ Op.dest.at = "regs" /\ Op.dest.n \in Reg
                               \/ Op.dest.at = "user" /\ Op.dest.n \in Nat /\ Op.regs_only = FALSE
<1>1. /\ ip \in Nat /\ reg \in [Reg -> Word]
  BY DEF TypeOK, MachineTypeOK
<1>2. \A n \in Nat : Wrap(n) \in Nat
  BY WrapType, WordModType DEF Word
<1>3. reg[I486!Rm(code)] \in Nat
  BY <1>1, ModRMType, WordModType DEF Word
<1>4. CASE I486!Mod(code) = 3
  <2>1. Op = Found(TRUE, I486!RegOp(code), Slot(I486!Rm(code)), ip + I486!At(code) + 2)
    BY <1>4, Operand
  <2> QED BY <1>1, <2>1, ModRMType DEF Found, Slot
<1>5. CASE I486!UsesSib(code)
  <2>1. Op = Failed(-95, AtModRM)
    BY <1>5, Operand
  <2>2. AtModRM.ip = ip + I486!At(code) + 1
    BY AtModRMFields
  <2>3. AtModRM.ip \in Nat
    BY <1>1, <2>2, ModRMType
  <2> QED BY <2>1, <2>3 DEF Failed
<1>6. CASE I486!Mod(code) = 0 /\ I486!Rm(code) \notin {4, 5}
  <2>1. Op = Found(FALSE, I486!RegOp(code), Slot(I486!Rm(code)), ip + I486!At(code) + 2)
    BY <1>6, Operand
  <2> QED BY <1>1, <2>1, ModRMType DEF Found, Slot
<1>7. CASE I486!Absolute(code)
  <2>1. Op = Found(FALSE, I486!RegOp(code), User(I486!Disp32(code)), ip + I486!At(code) + 6)
    BY <1>7, Operand
  <2> QED BY <1>1, <2>1, ModRMType DEF Found, User
<1>8. CASE I486!Mod(code) = 1 /\ I486!Rm(code) # 4
  <2> DEFINE n == reg[I486!Rm(code)] + I486!Disp8(code)
             a == Wrap(n)
  <2>1. Op = Found(FALSE, I486!RegOp(code), User(a), ip + I486!At(code) + 3)
    BY <1>8, Operand
  <2>2. a \in Nat
    <3>1. n \in Nat
      BY <1>3, ModRMType
    <3> HIDE DEF n
    <3> QED BY <1>2, <3>1
  <2> HIDE DEF a
  <2> QED BY <1>1, <2>1, <2>2, ModRMType DEF Found, User
<1>9. CASE I486!Mod(code) = 2 /\ I486!Rm(code) # 4
  <2> DEFINE n == reg[I486!Rm(code)] + I486!Disp32(code)
             a == Wrap(n)
  <2>1. Op = Found(FALSE, I486!RegOp(code), User(a), ip + I486!At(code) + 6)
    BY <1>9, Operand
  <2>2. a \in Nat
    <3>1. n \in Nat
      BY <1>3, ModRMType
    <3> HIDE DEF n
    <3> QED BY <1>2, <3>1
  <2> HIDE DEF a
  <2> QED BY <1>1, <2>1, <2>2, ModRMType DEF Found, User
<1>10. \/ I486!Mod(code) = 3 \/ I486!UsesSib(code) \/ I486!Absolute(code)
       \/ I486!Mod(code) = 0 /\ I486!Rm(code) \notin {4, 5}
       \/ I486!Mod(code) = 1 /\ I486!Rm(code) # 4
       \/ I486!Mod(code) = 2 /\ I486!Rm(code) # 4
  BY ModRMType DEF I486!UsesSib, I486!Absolute
<1> QED
  BY <1>4, <1>5, <1>6, <1>7, <1>8, <1>9, <1>10, Zenon

-----------------------------------------------------------------------------
(* Emulation.                                                              *)

\* What is common to every way the handler ends: well-typed registers, flags
\* and memory, the system flags and the kernel's words as they were, and on a
\* failure everything but regs->ip untouched.
Sound(o) ==
    /\ o.ret \in {1, -12, -95}
    /\ o.reg \in [Reg -> Word]
    /\ o.ip \in Nat
    /\ o.flags \in SUBSET (ArithFlags \cup SystemFlags)
    /\ o.flags \cap SystemFlags = flags \cap SystemFlags
    /\ o.mem \in [Cells -> Word]
    /\ \A a \in Cells : ~UserWord(a) => o.mem[a] = mem[a]
    /\ o.ret # 1 => o.reg = reg /\ o.flags = flags /\ o.mem = mem /\ o.oops = FALSE

\* The early returns leave a sound outcome.
LEMMA RejectedSound ==
    ASSUME TypeOK, NEW ret \in {-12, -95}, NEW n \in Nat
    PROVE  Sound(Rejected(ret, n))
  BY DEF Sound, Rejected, Outcome, TypeOK, MachineTypeOK

\* A full outcome is sound when its parts are.
LEMMA OutcomeSound ==
    ASSUME NEW r \in [Reg -> Word], NEW n \in Nat,
           NEW f \in SUBSET (ArithFlags \cup SystemFlags),
           f \cap SystemFlags = flags \cap SystemFlags,
           NEW m \in [Cells -> Word],
           \A a \in Cells : ~UserWord(a) => m[a] = mem[a]
    PROVE  Sound(Outcome(1, r, n, f, m))
  BY DEF Sound, Outcome

\* So is an oops: nothing has been stored by then but the flags.
LEMMA OopsSound ==
    ASSUME TypeOK, NEW n \in Nat,
           NEW f \in SUBSET (ArithFlags \cup SystemFlags),
           f \cap SystemFlags = flags \cap SystemFlags
    PROVE  Sound(Oops(n, f))
  BY DEF Sound, Oops, TypeOK, MachineTypeOK

\* A store through a decoded pointer that passed access_ok, or that points into
\* the saved registers, keeps the types and changes no kernel word.
LEMMA StoreSound ==
    ASSUME TypeOK, NEW r \in [Reg -> Word], NEW d, NEW v \in Word,
           \/ d.at = "regs" /\ d.n \in Reg
           \/ d.at = "user" /\ d.n \in Cells /\ access_ok(d)
    PROVE  /\ Deref(d) \in Word
           /\ RegAfter(r, d, v) \in [Reg -> Word]
           /\ MemAfter(d, v) \in [Cells -> Word]
           /\ \A a \in Cells : ~UserWord(a) => MemAfter(d, v)[a] = mem[a]
<1>1. reg \in [Reg -> Word] /\ mem \in [Cells -> Word]
  BY DEF TypeOK, MachineTypeOK
<1>2. CASE d.at = "regs" /\ d.n \in Reg
  BY <1>1, <1>2 DEF Deref, RegAfter, MemAfter
<1>3. CASE d.at = "user" /\ d.n \in Cells /\ access_ok(d)
  <2>1. UserWord(d.n)
    BY <1>3 DEF access_ok, UserWord
  <2>2. Deref(d) \in Word /\ RegAfter(r, d, v) = r /\ MemAfter(d, v) = [mem EXCEPT ![d.n] = v]
    BY <1>1, <1>3 DEF Deref, RegAfter, MemAfter
  <2> QED BY <1>1, <1>3, <2>1, <2>2
<1> QED BY <1>2, <1>3

\* The flags xadd leaves are flags, and the system ones are the process' own.
LEMMA XaddFlagsSound ==
    ASSUME TypeOK, NEW a, NEW b
    PROVE  /\ XaddFlags(a, b) \in SUBSET (ArithFlags \cup SystemFlags)
           /\ XaddFlags(a, b) \cap SystemFlags = flags \cap SystemFlags
<1>1. flags \subseteq (ArithFlags \cup SystemFlags)
  BY DEF TypeOK, MachineTypeOK
<1> QED BY <1>1 DEF XaddFlags, ArithFlags, SystemFlags

\* The four ways cmpxchg and xadd go on once the operand is decoded: refused by
\* the decoder, refused by access_ok, an oops, or the operation itself.
Refused  == Op.ret = -95
Barred   == Op.ret = 1 /\ ~Op.regs_only /\ ~access_ok(Op.dest)
Allowed  == Op.ret = 1 /\ (Op.regs_only \/ access_ok(Op.dest))

\* One of the three ways applies, and an operand that is used is a register or a
\* mapped word that access_ok let through.
LEMMA OpWays ==
    ASSUME TypeOK, text # << >>
    PROVE  /\ Refused \/ Barred \/ Allowed
           /\ Refused => Op.ret < 0 /\ ~(Op.ret > 0)
           /\ Barred \/ Allowed => Op.ret > 0 /\ ~(Op.ret < 0)
           /\ Allowed /\ Mapped(Op.dest) =>
                \/ Op.dest.at = "regs" /\ Op.dest.n \in Reg
                \/ Op.dest.at = "user" /\ Op.dest.n \in Cells /\ access_ok(Op.dest)
<1>1. Op.ret \in {1, -95}
  BY OpType
<1>2. Refused \/ Barred \/ Allowed
  BY <1>1 DEF Refused, Barred, Allowed
<1>3. /\ Refused => Op.ret < 0 /\ ~(Op.ret > 0)
      /\ Barred \/ Allowed => Op.ret > 0 /\ ~(Op.ret < 0)
  BY <1>1 DEF Refused, Barred, Allowed
<1>4. ASSUME Allowed, Mapped(Op.dest)
      PROVE  \/ Op.dest.at = "regs" /\ Op.dest.n \in Reg
             \/ Op.dest.at = "user" /\ Op.dest.n \in Cells /\ access_ok(Op.dest)
  <2>1. \/ Op.dest.at = "regs" /\ Op.dest.n \in Reg
        \/ Op.dest.at = "user" /\ Op.dest.n \in Nat /\ Op.regs_only = FALSE
    BY <1>4, OpType DEF Allowed
  <2> QED BY <1>4, <2>1 DEF Allowed, Mapped
<1> QED BY <1>2, <1>3, <1>4

\* parse_emu_cmpxchg, way by way.
LEMMA CmpxchgWays ==
    ASSUME TypeOK, text # << >>
    PROVE  /\ Refused => parse_emu_cmpxchg(AtModRM) = Rejected(-95, Op.ip)
           /\ Barred  => parse_emu_cmpxchg(AtModRM) = Rejected(-12, Op.ip)
           /\ Allowed /\ ~Mapped(Op.dest) => parse_emu_cmpxchg(AtModRM) = Oops(Op.ip, flags)
           /\ Allowed /\ Mapped(Op.dest) /\ reg[AX] = Deref(Op.dest) =>
                parse_emu_cmpxchg(AtModRM) =
                   Outcome(1, RegAfter(reg, Op.dest, reg[Op.src]), Op.ip, flags \cup {"ZF"},
                           MemAfter(Op.dest, reg[Op.src]))
           /\ Allowed /\ Mapped(Op.dest) /\ reg[AX] # Deref(Op.dest) =>
                parse_emu_cmpxchg(AtModRM) =
                   Outcome(1, [reg EXCEPT ![AX] = Deref(Op.dest)], Op.ip, flags \ {"ZF"}, mem)
  BY OpWays DEF parse_emu_cmpxchg, Op, Refused, Barred, Allowed

\* parse_emu_xadd, way by way.
LEMMA XaddWays ==
    ASSUME TypeOK, text # << >>
    PROVE  /\ Refused => parse_emu_xadd(AtModRM) = Rejected(-95, Op.ip)
           /\ Barred  => parse_emu_xadd(AtModRM) = Rejected(-12, Op.ip)
           /\ Allowed /\ ~Mapped(Op.dest) =>
                parse_emu_xadd(AtModRM) = Oops(Op.ip, XaddFlags(reg[Op.src], 0))
           /\ Allowed /\ Mapped(Op.dest) =>
                parse_emu_xadd(AtModRM) =
                   Outcome(1, RegAfter([reg EXCEPT ![Op.src] = Deref(Op.dest)], Op.dest,
                                       Wrap(reg[Op.src] + Deref(Op.dest))),
                           Op.ip, XaddFlags(reg[Op.src], Deref(Op.dest)),
                           MemAfter(Op.dest, Wrap(reg[Op.src] + Deref(Op.dest))))
  BY OpWays DEF parse_emu_xadd, Op, Refused, Barred, Allowed

\* cmpxchg ends soundly.
LEMMA CmpxchgSound ==
    ASSUME TypeOK, text # << >>
    PROVE  Sound(parse_emu_cmpxchg(AtModRM))
<1>1. reg \in [Reg -> Word] /\ mem \in [Cells -> Word] /\ Op.ip \in Nat
  BY OpType DEF TypeOK, MachineTypeOK
<1>7. AX \in Reg
  BY DEF AX, Reg
<1>2. /\ flags \cup {"ZF"} \in SUBSET (ArithFlags \cup SystemFlags)
      /\ flags \ {"ZF"} \in SUBSET (ArithFlags \cup SystemFlags)
      /\ (flags \cup {"ZF"}) \cap SystemFlags = flags \cap SystemFlags
      /\ (flags \ {"ZF"}) \cap SystemFlags = flags \cap SystemFlags
  BY DEF TypeOK, MachineTypeOK, ArithFlags, SystemFlags
<1>3. CASE Refused
  BY <1>1, <1>3, CmpxchgWays, RejectedSound
<1>4. CASE Barred
  BY <1>1, <1>4, CmpxchgWays, RejectedSound
<1>5. CASE Allowed /\ ~Mapped(Op.dest)
  <2>1. flags \in SUBSET (ArithFlags \cup SystemFlags)
    BY DEF TypeOK, MachineTypeOK
  <2> QED BY <1>1, <1>5, <2>1, CmpxchgWays, OopsSound
<1>6. CASE Allowed /\ Mapped(Op.dest)
  <2>1. \/ Op.dest.at = "regs" /\ Op.dest.n \in Reg
        \/ Op.dest.at = "user" /\ Op.dest.n \in Cells /\ access_ok(Op.dest)
    BY <1>6, OpWays
  <2>2. reg[Op.src] \in Word
    BY <1>1, <1>6, OpType DEF Allowed
  <2> DEFINE d == Op.dest
             v == reg[Op.src]
  <2>3. /\ Deref(d) \in Word
        /\ RegAfter(reg, d, v) \in [Reg -> Word]
        /\ MemAfter(d, v) \in [Cells -> Word]
        /\ \A a \in Cells : ~UserWord(a) => MemAfter(d, v)[a] = mem[a]
    <3> HIDE DEF v
    <3>1. v \in Word
      BY <2>2 DEF v
    <3>2. \/ d.at = "regs" /\ d.n \in Reg
          \/ d.at = "user" /\ d.n \in Cells /\ access_ok(d)
      BY <2>1
    <3> HIDE DEF d
    <3> QED BY <1>1, <3>1, <3>2, StoreSound
  <2>4. [reg EXCEPT ![AX] = Deref(d)] \in [Reg -> Word]
    BY <1>1, <1>7, <2>3
  <2>5. Sound(Outcome(1, RegAfter(reg, d, v), Op.ip, flags \cup {"ZF"}, MemAfter(d, v)))
    BY <1>1, <1>2, <2>3, OutcomeSound
  <2>6. Sound(Outcome(1, [reg EXCEPT ![AX] = Deref(d)], Op.ip, flags \ {"ZF"}, mem))
    BY <1>1, <1>2, <2>4, OutcomeSound
  <2> QED BY <1>6, <2>5, <2>6, CmpxchgWays
<1> QED BY <1>3, <1>4, <1>5, <1>6, OpWays

\* xadd ends soundly.
LEMMA XaddSound ==
    ASSUME TypeOK, text # << >>
    PROVE  Sound(parse_emu_xadd(AtModRM))
<1>1. reg \in [Reg -> Word] /\ mem \in [Cells -> Word] /\ Op.ip \in Nat
  BY OpType DEF TypeOK, MachineTypeOK
<1>2. CASE Refused
  BY <1>1, <1>2, XaddWays, RejectedSound
<1>3. CASE Barred
  BY <1>1, <1>3, XaddWays, RejectedSound
<1>4. CASE Allowed /\ ~Mapped(Op.dest)
  BY <1>1, <1>4, XaddWays, XaddFlagsSound, OopsSound
<1>5. CASE Allowed /\ Mapped(Op.dest)
  <2> DEFINE d == Op.dest
             sum == Wrap(reg[Op.src] + Deref(d))
             r == [reg EXCEPT ![Op.src] = Deref(d)]
  <2>1. \/ d.at = "regs" /\ d.n \in Reg
        \/ d.at = "user" /\ d.n \in Cells /\ access_ok(d)
    BY <1>5, OpWays
  <2>2. Op.src \in Reg /\ reg[Op.src] \in Word
    BY <1>1, <1>5, OpType DEF Allowed
  <2>3. Deref(d) \in Word
    BY <1>1, <2>1, <2>2, StoreSound
  <2>4. sum \in Word
    <3>1. reg[Op.src] + Deref(d) \in Nat
      BY <2>2, <2>3, WordModType DEF Word
    <3> QED BY <3>1, WrapType
  <2>5. r \in [Reg -> Word]
    BY <1>1, <2>2, <2>3
  <2> HIDE DEF sum, r
  <2>6. /\ RegAfter(r, d, sum) \in [Reg -> Word]
        /\ MemAfter(d, sum) \in [Cells -> Word]
        /\ \A a \in Cells : ~UserWord(a) => MemAfter(d, sum)[a] = mem[a]
    BY <2>1, <2>4, <2>5, StoreSound
  <2>7. Sound(Outcome(1, RegAfter(r, d, sum), Op.ip, XaddFlags(reg[Op.src], Deref(d)), MemAfter(d, sum)))
    BY <1>1, <2>6, XaddFlagsSound, OutcomeSound
  <2> QED BY <1>5, <2>7, XaddWays DEF r, sum
<1> QED BY <1>2, <1>3, <1>4, <1>5, OpWays

\* bswap ends soundly, whichever register it names.
LEMMA BswapSound ==
    ASSUME TypeOK, text # << >>
    PROVE  Sound(parse_emu_bswap(Past(Start)))
<1>1. /\ reg \in [Reg -> Word] /\ mem \in [Cells -> Word] /\ ip \in Nat
      /\ flags \in SUBSET (ArithFlags \cup SystemFlags)
  BY DEF TypeOK, MachineTypeOK
<1>2. Past(Start).ip \in Nat
  <2>1. Past(Start).ip = ip + I486!At(code)
    BY AtModRMFields
  <2> QED BY <1>1, <2>1, ModRMType
<1>3. Past(Start).insts[1] \in Nat
  <2>1. code \in [1 .. 8 -> Nat]
    BY HeadType
  <2> QED BY <2>1, AtModRMFields, ModRMType DEF I486!Opcode
<1> DEFINE k == MODRM_RM(Past(Start).insts[1])
<1>4. k \in Reg
  BY <1>3 DEF MODRM_RM, Reg
<1> HIDE DEF k
<1>5. [reg EXCEPT ![k] = bswap32(@)] \in [Reg -> Word]
  BY <1>1, <1>4, BswapIsSwap
<1>6. CASE Past(Start).lock_prefix = 1
  <2>1. parse_emu_bswap(Past(Start)) = Rejected(-95, Past(Start).ip)
    BY <1>6 DEF parse_emu_bswap
  <2> QED BY <1>2, <2>1, RejectedSound
<1>7. CASE Past(Start).lock_prefix # 1
  <2> DEFINE n == Past(Start).ip + 1
             r == [reg EXCEPT ![k] = bswap32(@)]
  <2>1. parse_emu_bswap(Past(Start)) = Outcome(1, r, n, flags, mem)
    BY <1>7 DEF parse_emu_bswap, k
  <2>2. n \in Nat
    BY <1>2
  <2> HIDE DEF n, r
  <2>3. Sound(Outcome(1, r, n, flags, mem))
    BY <1>1, <1>5, <2>2, OutcomeSound DEF r
  <2> QED BY <2>1, <2>3
<1> QED BY <1>6, <1>7

\* The opcode switch ends soundly.
LEMMA DispatchSound ==
    ASSUME TypeOK, text # << >>
    PROVE  Sound(Dispatch(Past(Start)))
<1>1. Past(Start).ip \in Nat
  <2>1. Past(Start).ip = ip + I486!At(code) /\ ip \in Nat
    BY AtModRMFields DEF TypeOK, MachineTypeOK
  <2> QED BY <2>1, ModRMType
<1> DEFINE op == Past(Start).insts[1]
<1>2. Sound(Rejected(-95, Past(Start).ip))
  BY <1>1, RejectedSound
<1>3. /\ Dispatch(Past(Start)) = IF op = 177 THEN parse_emu_cmpxchg(AtModRM) ELSE
           IF op = 193 THEN parse_emu_xadd(AtModRM) ELSE
           IF op \in {200, 201, 202, 203, 206, 207} THEN parse_emu_bswap(Past(Start)) ELSE
           Rejected(-95, Past(Start).ip)
  BY DEF Dispatch, AtModRM
<1> HIDE DEF op
<1> QED BY <1>2, <1>3, CmpxchgSound, XaddSound, BswapSound

\* Rollback keeps an outcome sound and puts regs->ip back on a failure.
LEMMA RollbackSound ==
    ASSUME TypeOK, NEW o, Sound(o)
    PROVE  Sound(Rollback(o)) /\ (Rollback(o).ret # 1 => Rollback(o).ip = ip)
<1>1. ip \in Nat
  BY DEF TypeOK, MachineTypeOK
<1>2. CASE o.ret = 1
  <2>1. Rollback(o) = o
    BY <1>2 DEF Rollback
  <2> QED BY <1>2, <2>1
<1>3. CASE o.ret # 1
  <2>1. o.ret < 0
    BY <1>3 DEF Sound
  <2>2. Rollback(o) = Outcome(o.ret, o.reg, ip, o.flags, o.mem)
    BY <2>1 DEF Rollback
  <2>3. /\ Rollback(o).ret = o.ret /\ Rollback(o).reg = o.reg /\ Rollback(o).ip = ip
        /\ Rollback(o).flags = o.flags /\ Rollback(o).mem = o.mem /\ Rollback(o).oops = FALSE
    BY <2>2 DEF Outcome
  <2> HIDE DEF Rollback
  <2> QED BY <1>1, <2>3 DEF Sound
<1> QED BY <1>2, <1>3

\* The whole emulator: a sound outcome, and regs->ip where it was on a failure.
LEMMA InstructionSound ==
    ASSUME TypeOK, text # << >>
    PROVE  /\ Sound(parse_emu_instruction)
           /\ parse_emu_instruction.ret # 1 => parse_emu_instruction.ip = ip
<1>1. /\ reg \in [Reg -> Word] /\ mem \in [Cells -> Word] /\ ip \in Nat
      /\ flags \in SUBSET (ArithFlags \cup SystemFlags)
  BY DEF TypeOK, MachineTypeOK
<1> DEFINE pei == parse_emu_instruction
<1>2. CASE avail < 8
  <2>1. pei = Rejected(-12, ip)
    BY <1>2 DEF parse_emu_instruction
  <2>2. Rejected(-12, ip).ip = ip
    BY DEF Rejected, Outcome
  <2> QED BY <1>1, <2>1, <2>2, RejectedSound
<1>3. CASE ~(avail < 8) /\ First4 = << 243, 15, 30, 251 >>
  <2>1. pei = Outcome(1, reg, ip + 4, flags, mem)
    BY <1>3 DEF parse_emu_instruction
  <2>2. pei.ret = 1
    BY <2>1 DEF Outcome
  <2>3. ip + 4 \in Nat
    BY <1>1
  <2>4. Sound(Outcome(1, reg, ip + 4, flags, mem))
    BY <1>1, <2>3, OutcomeSound
  <2> QED BY <2>1, <2>2, <2>4
<1>4. CASE /\ ~(avail < 8) /\ First4 # << 243, 15, 30, 251 >>
           /\ Start.insts[1] # 15
  <2>1. pei = Rollback(Rejected(-95, Start.ip))
    BY <1>4 DEF parse_emu_instruction
  <2>2. Sound(Rejected(-95, Start.ip))
    BY AtModRMFields, RejectedSound
  <2> QED BY <2>1, <2>2, RollbackSound
<1>5. CASE /\ ~(avail < 8) /\ First4 # << 243, 15, 30, 251 >>
           /\ Start.insts[1] = 15
  <2>1. pei = Rollback(Dispatch(Past(Start)))
    BY <1>5 DEF parse_emu_instruction
  <2> QED BY <2>1, DispatchSound, RollbackSound
<1> QED BY <1>2, <1>3, <1>4, <1>5

-----------------------------------------------------------------------------
(* Theorems.                                                               *)

\* The conclusions of one trap, in the terms of the properties of I486Emu.
LEMMA StepSound ==
    ASSUME TypeOK, do_invalid_op
    PROVE  /\ TypeOK'
           /\ \A a \in Cells : ~UserWord(a) => mem'[a] = mem[a]
           /\ sig' = "SIGILL" => UNCHANGED << reg, ip, flags, mem >>
           /\ flags' \cap SystemFlags = flags \cap SystemFlags
<1> DEFINE o == parse_emu_instruction
<1>1. /\ text # << >> /\ text' = Tail(text)
      /\ reg' = o.reg /\ ip' = o.ip /\ flags' = o.flags /\ mem' = o.mem
      /\ sig' = IF o.oops THEN "oops" ELSE IF o.ret > 0 THEN "none" ELSE "SIGILL"
  BY DEF do_invalid_op, do_trap
<1>2. Sound(o) /\ (o.ret # 1 => o.ip = ip)
  BY <1>1, InstructionSound
<1>3. Tail(text) \in Seq(Insn)
  BY <1>1, HeadType
<1> HIDE DEF o
<1>4. sig' \in Fatal \cup {"none"}
  BY <1>1 DEF Fatal
<1>5. TypeOK'
  <2>1. text' \in Seq(Insn)
    BY <1>1, <1>3
  <2>2. reg' \in [Reg -> Word] /\ ip' \in Nat /\ mem' \in [Cells -> Word]
    BY <1>1, <1>2 DEF Sound
  <2>3. flags' \subseteq (ArithFlags \cup SystemFlags)
    BY <1>1, <1>2 DEF Sound
  <2> QED BY <1>4, <2>1, <2>2, <2>3 DEF TypeOK, MachineTypeOK
<1>6. \A a \in Cells : ~UserWord(a) => mem'[a] = mem[a]
  BY <1>1, <1>2 DEF Sound
<1>7. sig' = "SIGILL" => UNCHANGED << reg, ip, flags, mem >>
  <2> SUFFICES ASSUME sig' = "SIGILL" PROVE UNCHANGED << reg, ip, flags, mem >>
    OBVIOUS
  <2>1. ~(o.ret > 0)
    BY <1>1
  <2>2. o.ret # 1
    BY <2>1
  <2> QED BY <1>1, <1>2, <2>2 DEF Sound
<1>8. flags' \cap SystemFlags = flags \cap SystemFlags
  BY <1>1, <1>2 DEF Sound
<1> QED BY <1>5, <1>6, <1>7, <1>8

\* The saved registers, memory and flags stay well-typed through any sequence
\* of traps, whatever bytes the program contains (do_invalid_op).
THEOREM TypeCorrect == Spec => []TypeOK
<1>1. Init => TypeOK
  <2>1. SUFFICES ASSUME Init PROVE TypeOK
    OBVIOUS
  <2>2. reg \in [Reg -> Word] /\ mem \in [Cells -> Word] /\ text \in Seq(Insn)
    BY <2>1, MachineAssumption, EmuAssumption DEF Init
  <2>3. ip \in Nat
    BY <2>1, MachineAssumption DEF Init
  <2>4. flags \subseteq (ArithFlags \cup SystemFlags)
    BY <2>1 DEF Init, ArithFlags, SystemFlags
  <2> QED BY <2>1, <2>2, <2>3, <2>4 DEF Init, TypeOK, MachineTypeOK, Fatal
<1>2. TypeOK /\ [Next]_machine => TypeOK'
  <2>1. ASSUME TypeOK, do_invalid_op PROVE TypeOK'
    BY <2>1, StepSound
  <2>2. ASSUME TypeOK, UNCHANGED machine PROVE TypeOK'
    BY <2>2 DEF TypeOK, MachineTypeOK, machine
  <2> QED BY <2>1, <2>2 DEF Next
<1> QED BY <1>1, <1>2, PTL DEF Spec

\* No sequence of trapped instructions stores into a word at or above
\* TASK_SIZE: access_ok covers every store that does not go to pt_regs.
THEOREM KernelSafe == Spec => KernelUntouched
<1>1. TypeOK /\ [Next]_machine =>
        [\A a \in Cells : ~UserWord(a) => mem'[a] = mem[a]]_machine
  BY StepSound DEF Next
<1> QED BY <1>1, TypeCorrect, PTL DEF Spec, KernelUntouched

\* A trap that ends in SIGILL leaves registers, flags, memory and regs->ip as
\* they were when the instruction trapped.
THEOREM SigillPrecise == Spec => SigillIsPrecise
<1>1. TypeOK /\ [Next]_machine =>
        [sig' = "SIGILL" => UNCHANGED << reg, ip, flags, mem >>]_machine
  BY StepSound DEF Next
<1> QED BY <1>1, TypeCorrect, PTL DEF Spec, SigillIsPrecise

\* Emulation never changes IF or DF of the interrupted process.
THEOREM SystemFlagsSafe == Spec => SystemFlagsKept
<1>1. TypeOK /\ [Next]_machine =>
        [flags' \cap SystemFlags = flags \cap SystemFlags]_machine
  BY StepSound DEF Next
<1> QED BY <1>1, TypeCorrect, PTL DEF Spec, SystemFlagsKept

-----------------------------------------------------------------------------
(* The emulator and the instruction set.                                   *)

\* The length of a cmpxchg or xadd, addressing form by addressing form.
LEMMA Lengths ==
    ASSUME TypeOK, text # << >>
    PROVE  /\ I486!Mod(code) = 3 => ip + I486!ModRMLength(code) = ip + I486!At(code) + 2
           /\ I486!Absolute(code) => ip + I486!ModRMLength(code) = ip + I486!At(code) + 6
           /\ I486!Mod(code) = 1 => ip + I486!ModRMLength(code) = ip + I486!At(code) + 3
           /\ I486!Mod(code) = 2 => ip + I486!ModRMLength(code) = ip + I486!At(code) + 6
<1>1. /\ I486!Mod(code) = 3 => I486!DispBytes(code) = 0
      /\ I486!Absolute(code) => I486!DispBytes(code) = 4
      /\ I486!Mod(code) = 1 => I486!DispBytes(code) = 1
      /\ I486!Mod(code) = 2 => I486!DispBytes(code) = 4
  BY DEF I486!DispBytes, I486!Absolute
<1>2. ip \in Nat /\ I486!At(code) \in Nat
  BY ModRMType DEF TypeOK, MachineTypeOK
<1>3. \A n : I486!DispBytes(code) = n => I486!ModRMLength(code) = I486!At(code) + 2 + n
  BY DEF I486!ModRMLength
<1>4. /\ ip + (I486!At(code) + 2 + 0) = ip + I486!At(code) + 2
      /\ ip + (I486!At(code) + 2 + 1) = ip + I486!At(code) + 3
      /\ ip + (I486!At(code) + 2 + 4) = ip + I486!At(code) + 6
  BY <1>2
<1> QED BY <1>1, <1>3, <1>4, Zenon

\* The effective address, addressing form by addressing form.
LEMMA Addresses ==
    ASSUME TypeOK, text # << >>
    PROVE  /\ I486!Absolute(code) => I486!EffectiveAddress(code) = I486!Disp32(code)
           /\ I486!Mod(code) = 1 /\ I486!Disp8(code) < B \div 2 =>
                I486!EffectiveAddress(code) = Wrap(reg[I486!Rm(code)] + I486!Disp8(code))
           /\ I486!Mod(code) = 2 =>
                I486!EffectiveAddress(code) = Wrap(reg[I486!Rm(code)] + I486!Disp32(code))
<1>1. \A n : I486!Wrap(n) = Wrap(n)
  BY SameMachine
<1>2. I486!Absolute(code) => I486!EffectiveAddress(code) = I486!Disp32(code)
  BY DEF I486!EffectiveAddress, I486!Absolute
<1>3. I486!Mod(code) = 2 =>
        I486!EffectiveAddress(code) = I486!Wrap(reg[I486!Rm(code)] + I486!Disp32(code))
  BY DEF I486!EffectiveAddress, I486!Absolute
<1>4. I486!Mod(code) = 1 =>
        I486!EffectiveAddress(code) =
            I486!Wrap(reg[I486!Rm(code)] + I486!SignExtend8(I486!Disp8(code)))
  BY DEF I486!EffectiveAddress, I486!Absolute
<1>5. I486!Disp8(code) < B \div 2 => I486!SignExtend8(I486!Disp8(code)) = I486!Disp8(code)
  BY DEF I486!SignExtend8
<1> QED BY <1>1, <1>2, <1>3, <1>4, <1>5, Zenon

\* Which of the addressing forms a ModRM byte selects.
LEMMA Forms ==
    ASSUME TypeOK, text # << >>
    PROVE  \/ I486!Mod(code) = 3 \/ I486!UsesSib(code) \/ I486!Absolute(code)
           \/ I486!Mod(code) = 0 /\ I486!Rm(code) \notin {4, 5}
           \/ I486!Mod(code) = 1 /\ I486!Rm(code) # 4
           \/ I486!Mod(code) = 2 /\ I486!Rm(code) # 4
  BY ModRMType DEF I486!UsesSib, I486!Absolute

\* The decoder refuses the SIB forms only.
LEMMA RefusedIsSib ==
    ASSUME TypeOK, text # << >>, Refused
    PROVE  I486!UsesSib(code)
<1>1. \A ro, s, d, n : Found(ro, s, d, n).ret # -95
  BY DEF Found
<1>2. \A ro, s, d, n : Op # Found(ro, s, d, n)
  BY <1>1 DEF Refused
<1> QED BY <1>2, Forms, Operand, Zenon

\* A memory operand is the one of the instruction set, but for the forms with
\* a negative byte displacement.
LEMMA MemoryOperand ==
    ASSUME TypeOK, text # << >>, Op.ret = 1, Op.dest.at = "user"
    PROVE  /\ I486!Mod(code) # 3 /\ ~I486!UsesSib(code)
           /\ Op.src = I486!RegOp(code)
           /\ Op.ip = ip + I486!ModRMLength(code)
           /\ Op.regs_only = FALSE
           /\ \/ /\ I486!Mod(code) = 1 /\ I486!Rm(code) # 4
                 /\ I486!Disp8(code) >= B \div 2
              \/ /\ Op.dest.n = I486!EffectiveAddress(code)
                 /\ \/ I486!Absolute(code)
                    \/ /\ I486!Mod(code) = 1 /\ I486!Rm(code) # 4
                       /\ I486!Disp8(code) < B \div 2
                    \/ I486!Mod(code) = 2 /\ I486!Rm(code) # 4
<1>1. \A ro, s, r, n : Found(ro, s, Slot(r), n).dest.at = "regs"
  BY DEF Found, Slot
<1>2. \A ro, s, r, n : Op # Found(ro, s, Slot(r), n)
  BY <1>1, Zenon
<1>3. Failed(-95, AtModRM).ret # 1
  BY DEF Failed
<1>4. I486!Mod(code) # 3
  BY <1>2, Operand, Zenon
<1>5. ~I486!UsesSib(code)
  <2>1. Op # Failed(-95, AtModRM)
    BY <1>3
  <2> QED BY <2>1, Operand, Zenon
<1>6. ~(I486!Mod(code) = 0 /\ I486!Rm(code) \notin {4, 5})
  BY <1>2, Operand, Zenon
<1>7. ASSUME NEW a, NEW n, Op = Found(FALSE, I486!RegOp(code), User(a), n)
      PROVE  Op.src = I486!RegOp(code) /\ Op.ip = n /\ Op.regs_only = FALSE /\ Op.dest.n = a
  BY <1>7 DEF Found, User
<1>8. CASE I486!Absolute(code)
  <2> DEFINE n == ip + I486!ModRMLength(code)
             a == I486!EffectiveAddress(code)
  <2>1. Op = Found(FALSE, I486!RegOp(code), User(I486!Disp32(code)), ip + I486!At(code) + 6)
    BY <1>8, Operand
  <2>2. ip + I486!At(code) + 6 = n
    BY <1>8, Lengths
  <2>3. I486!Disp32(code) = a
    BY <1>8, Addresses
  <2> HIDE DEF n, a
  <2>4. Op = Found(FALSE, I486!RegOp(code), User(a), n)
    BY <2>1, <2>2, <2>3, Zenon
  <2>5. Op.src = I486!RegOp(code) /\ Op.ip = n /\ Op.regs_only = FALSE /\ Op.dest.n = a
    BY <1>7, <2>4, Zenon
  <2> QED BY <1>4, <1>5, <1>8, <2>5, Zenon DEF n, a
<1>9. CASE I486!Mod(code) = 2 /\ I486!Rm(code) # 4
  <2> DEFINE n == ip + I486!ModRMLength(code)
             a == I486!EffectiveAddress(code)
             w == Wrap(reg[I486!Rm(code)] + I486!Disp32(code))
  <2>1. Op = Found(FALSE, I486!RegOp(code), User(w), ip + I486!At(code) + 6)
    BY <1>9, Operand
  <2>2. ip + I486!At(code) + 6 = n
    BY <1>9, Lengths
  <2>3. w = a
    BY <1>9, Addresses
  <2> HIDE DEF n, a, w
  <2>4. Op = Found(FALSE, I486!RegOp(code), User(a), n)
    BY <2>1, <2>2, <2>3, Zenon
  <2>5. Op.src = I486!RegOp(code) /\ Op.ip = n /\ Op.regs_only = FALSE /\ Op.dest.n = a
    BY <1>7, <2>4, Zenon
  <2> QED BY <1>4, <1>5, <1>9, <2>5, Zenon DEF n, a
<1>10. CASE I486!Mod(code) = 1 /\ I486!Rm(code) # 4
  <2> DEFINE n == ip + I486!ModRMLength(code)
             a == I486!EffectiveAddress(code)
             w == Wrap(reg[I486!Rm(code)] + I486!Disp8(code))
  <2>1. Op = Found(FALSE, I486!RegOp(code), User(w), ip + I486!At(code) + 3)
    BY <1>10, Operand
  <2>2. ip + I486!At(code) + 3 = n
    BY <1>10, Lengths
  <2>3. I486!Disp8(code) < B \div 2 => w = a
    BY <1>10, Addresses
  <2>4. I486!Disp8(code) >= B \div 2 \/ I486!Disp8(code) < B \div 2
    BY ModRMType, MachineAssumption
  <2> HIDE DEF n, a, w
  <2>5. Op = Found(FALSE, I486!RegOp(code), User(w), n)
    BY <2>1, <2>2, Zenon
  <2>6. Op.src = I486!RegOp(code) /\ Op.ip = n /\ Op.regs_only = FALSE /\ Op.dest.n = w
    BY <1>7, <2>5, Zenon
  <2> QED BY <1>4, <1>5, <1>10, <2>3, <2>4, <2>6, Zenon DEF n, a
<1> QED BY <1>4, <1>5, <1>6, <1>8, <1>9, <1>10, Forms, Zenon

\* A register operand comes from mod = 3, or from the forms on (%reg) in which
\* the decoder has not loaded the address.
LEMMA RegisterOperand ==
    ASSUME TypeOK, text # << >>, Op.ret = 1, Op.dest.at = "regs"
    PROVE  /\ Op.src = I486!RegOp(code) /\ Op.dest = Slot(I486!Rm(code))
           /\ \/ /\ I486!Mod(code) = 3 /\ Op.regs_only = TRUE
                 /\ Op.ip = ip + I486!ModRMLength(code)
              \/ /\ I486!Mod(code) = 0 /\ I486!Rm(code) \notin {4, 5}
                 /\ Op.regs_only = FALSE
<1>1. \A ro, s, a, n : Found(ro, s, User(a), n).dest.at = "user"
  BY DEF Found, User
<1>2. \A ro, s, a, n : Op # Found(ro, s, User(a), n)
  BY <1>1
<1>4. Op # Failed(-95, AtModRM)
  BY DEF Failed
<1>5. CASE I486!Mod(code) = 3
  <2> DEFINE n == ip + I486!ModRMLength(code)
  <2>1. Op = Found(TRUE, I486!RegOp(code), Slot(I486!Rm(code)), ip + I486!At(code) + 2)
    BY <1>5, Operand
  <2>2. ip + I486!At(code) + 2 = n
    BY <1>5, Lengths
  <2> HIDE DEF n
  <2>3. Op = Found(TRUE, I486!RegOp(code), Slot(I486!Rm(code)), n)
    BY <2>1, <2>2, Zenon
  <2>4. /\ Op.src = I486!RegOp(code) /\ Op.dest = Slot(I486!Rm(code))
        /\ Op.ip = n /\ Op.regs_only = TRUE
    BY <2>3 DEF Found
  <2> QED BY <1>5, <2>4, Zenon DEF n
<1>6. CASE I486!Mod(code) = 0 /\ I486!Rm(code) \notin {4, 5}
  <2>1. Op = Found(FALSE, I486!RegOp(code), Slot(I486!Rm(code)), ip + I486!At(code) + 2)
    BY <1>6, Operand
  <2>2. /\ Op.src = I486!RegOp(code) /\ Op.dest = Slot(I486!Rm(code)) /\ Op.regs_only = FALSE
    BY <2>1 DEF Found
  <2> QED BY <1>6, <2>2, Zenon
<1>7. \/ I486!Mod(code) = 3
      \/ I486!Mod(code) = 0 /\ I486!Rm(code) \notin {4, 5}
  BY <1>2, <1>4, Operand, Forms, Zenon
<1> QED BY <1>5, <1>6, <1>7, Zenon

\* A trap the emulator refuses is a signal and nothing else.
LEMMA Refusal ==
    ASSUME TypeOK, do_invalid_op, parse_emu_instruction.ret # 1
    PROVE  I486!Fault
<1> DEFINE o == parse_emu_instruction
<1>1. Sound(o) /\ text # << >>
  BY InstructionSound DEF do_invalid_op, do_trap
<1>2. sig' = IF o.oops THEN "oops" ELSE IF o.ret > 0 THEN "none" ELSE "SIGILL"
  BY DEF do_invalid_op, do_trap
<1> HIDE DEF o
<1>3. o.ret \in {-12, -95} /\ o.oops = FALSE
  BY <1>1 DEF Sound, o
<1>4. sig' = "SIGILL"
  BY <1>2, <1>3
<1>5. UNCHANGED << reg, ip, flags, mem >>
  BY <1>4, StepSound
<1> QED BY <1>4, <1>5 DEF I486!Fault

\* A trap that is emulated: the process sees the outcome and runs on.
LEMMA Emulated ==
    ASSUME do_invalid_op, NEW r, NEW n, NEW f, NEW m,
           parse_emu_instruction = Outcome(1, r, n, f, m)
    PROVE  /\ reg' = r /\ ip' = n /\ flags' = f /\ mem' = m
           /\ sig' = "none" /\ sig = "none"
<1> DEFINE o == parse_emu_instruction
<1>1. /\ reg' = o.reg /\ ip' = o.ip /\ flags' = o.flags /\ mem' = o.mem /\ sig = "none"
      /\ sig' = IF o.oops THEN "oops" ELSE IF o.ret > 0 THEN "none" ELSE "SIGILL"
  BY DEF do_invalid_op, do_trap
<1>2. /\ o.reg = r /\ o.ip = n /\ o.flags = f /\ o.mem = m /\ o.ret = 1 /\ o.oops = FALSE
  BY DEF Outcome
<1> HIDE DEF o
<1> QED BY <1>1, <1>2

\* What "end:" does to the three kinds of outcome.
LEMMA RollbackKinds ==
    /\ \A r, n, f, m : Rollback(Outcome(1, r, n, f, m)) = Outcome(1, r, n, f, m)
    /\ \A n, f : Rollback(Oops(n, f)) = Oops(n, f)
    /\ \A n : Rollback(Rejected(-95, n)).ret = -95
    /\ \A n : Rollback(Rejected(-12, n)).ret = -12
<1>1. /\ \A r, n, f, m : Outcome(1, r, n, f, m).ret = 1
      /\ \A n, f : Oops(n, f).ret = 1
      /\ \A n : Rejected(-95, n).ret = -95
      /\ \A n : Rejected(-12, n).ret = -12
  BY DEF Outcome, Oops, Rejected
<1>2. \A o : o.ret = 1 => Rollback(o) = o
  BY DEF Rollback
<1>3. \A o : o.ret = -95 => Rollback(o).ret = -95
  BY DEF Rollback, Outcome
<1>4. \A o : o.ret = -12 => Rollback(o).ret = -12
  BY DEF Rollback, Outcome
<1> QED BY <1>1, <1>2, <1>3, <1>4

\* cmpxchg and xadd fit into the eight bytes that are read.
LEMMA Fits ==
    ASSUME TypeOK, text # << >>
    PROVE  8 >= I486!ModRMLength(code)
<1>1. I486!DispBytes(code) \in {0, 1, 4}
  BY DEF I486!DispBytes
<1>2. I486!At(code) \in {1, 2}
  BY ModRMType
<1> QED BY <1>1, <1>2 DEF I486!ModRMLength

\* cmpxchg and xadd when they are refused, by the decoder or by access_ok: a
\* shortfall, or a fault on a 486 too.
LEMMA NotCarriedOut ==
    ASSUME TypeOK, do_invalid_op, avail = 8, I486!HasModRM(code), ~Shortfall,
           Refused \/ Barred, I486!Fault
    PROVE  I486!Next
<1>1. /\ sig = "none" /\ text # << >> /\ text' = Tail(text)
      /\ I486!code = code /\ I486!avail = avail
  BY SameMachine DEF do_invalid_op, do_trap
<1>2. ~I486!IsBswap(code) /\ ~I486!IsEndbr32(code)
  BY DEF I486!HasModRM, I486!IsCmpxchg, I486!IsXadd, I486!IsBswap, I486!IsTwoByte
<1>3. ~I486!UsesSib(code)
  BY DEF Shortfall, BySib
<1>4. Barred
  BY <1>1, <1>3, RefusedIsSib
<1>5. Op.ret = 1 /\ ~access_ok(Op.dest) /\ ~Op.regs_only
  BY <1>4 DEF Barred
<1>6. ~(I486!Mod(code) = 0 /\ I486!Rm(code) \notin {4, 5})
  BY DEF Shortfall, Indirect
<1>7. Op.dest.at = "user"
  <2>1. Op.dest.at = "regs" => I486!Mod(code) = 3 /\ Op.regs_only
    BY <1>1, <1>5, <1>6, RegisterOperand
  <2> QED BY <1>1, <1>5, <2>1, OpType
<1>8. I486!Mod(code) # 3
  BY <1>1, <1>5, <1>7, MemoryOperand
<1>9. Op.dest.n = I486!EffectiveAddress(code)
  <2>1. ~(I486!Mod(code) = 1 /\ I486!Rm(code) # 4 /\ I486!Disp8(code) >= B \div 2)
    BY DEF Shortfall, NegativeDisp8
  <2> QED BY <1>1, <1>5, <1>7, <2>1, MemoryOperand
<1>10. ~I486!OperandMapped(code)
  BY <1>5, <1>7, <1>9 DEF access_ok, I486!OperandMapped, I486!UserWord
<1>11. ~I486!Executable(code, avail)
  BY <1>2, <1>8, <1>10 DEF I486!Executable
<1> QED BY <1>1, <1>3, <1>11 DEF I486!Next, I486!Described

\* An operand that access_ok lets through is mapped, or the kernel oopses: a
\* shortfall.
LEMMA MappedOrShort ==
    ASSUME TypeOK, text # << >>, I486!HasModRM(code), ~Shortfall, Allowed
    PROVE  Mapped(Op.dest)
<1> SUFFICES ASSUME ~Mapped(Op.dest) PROVE FALSE
  OBVIOUS
<1>1. Op.ret = 1
  BY DEF Allowed
<1>2. Op.dest.at = "user" /\ Op.dest.n \notin Cells /\ Op.regs_only = FALSE
  BY <1>1, OpType DEF Mapped
<1>3. UserWord(Op.dest.n)
  BY <1>2 DEF Allowed, access_ok, UserWord
<1>4. ~(I486!Mod(code) = 1 /\ I486!Rm(code) # 4 /\ I486!Disp8(code) >= B \div 2)
  BY DEF Shortfall, NegativeDisp8
<1>5. I486!Mod(code) # 3 /\ Op.dest.n = I486!EffectiveAddress(code)
  BY <1>1, <1>2, <1>4, MemoryOperand
<1> QED BY <1>2, <1>3, <1>5 DEF Shortfall, Unmapped

\* The operand of an instruction that is carried out is the register ModRM
\* names or the effective address; it suffices to show what happens to it.
LEMMA CarriedOut ==
    ASSUME TypeOK, do_invalid_op, avail = 8, I486!HasModRM(code), ~Shortfall,
           Allowed, Mapped(Op.dest), sig' = "none", ip' = Op.ip,
           Op.dest = Slot(I486!Rm(code)) /\ I486!Mod(code) = 3 => I486!OnRegister(code),
           Op.dest.at = "user" => I486!OnMemory(code, Op.dest.n)
    PROVE  I486!Next
<1>1. /\ sig = "none" /\ text # << >> /\ text' = Tail(text)
      /\ I486!code = code /\ I486!avail = avail
  BY SameMachine DEF do_invalid_op, do_trap
<1>2. Op.ret = 1
  BY DEF Allowed
<1>3. I486!Described(code)
  BY DEF Shortfall, BySib, I486!Described
<1>4. avail >= I486!ModRMLength(code)
  BY <1>1, Fits
<1>5. CASE Op.dest.at = "regs"
  <2>1. I486!Mod(code) = 3 /\ Op.dest = Slot(I486!Rm(code)) /\ Op.ip = ip + I486!ModRMLength(code)
    BY <1>1, <1>2, <1>5, RegisterOperand DEF Allowed, access_ok
  <2>2. I486!Advance(I486!ModRMLength(code))
    BY <1>1, <2>1 DEF I486!Advance
  <2>3. I486!ModRMInsn(code)
    BY <2>1, <2>2 DEF I486!ModRMInsn
  <2>4. I486!Executable(code, avail)
    BY <1>4, <2>1 DEF I486!Executable, Shortfall, LockedRegister
  <2> QED BY <1>1, <1>3, <2>3, <2>4 DEF I486!Next, I486!Execute
<1>6. CASE Op.dest.at = "user"
  <2>1. ~(I486!Mod(code) = 1 /\ I486!Rm(code) # 4 /\ I486!Disp8(code) >= B \div 2)
    BY DEF Shortfall, NegativeDisp8
  <2>2. /\ I486!Mod(code) # 3 /\ ~I486!UsesSib(code) /\ Op.ip = ip + I486!ModRMLength(code)
        /\ Op.dest.n = I486!EffectiveAddress(code)
    BY <1>1, <1>2, <1>6, <2>1, MemoryOperand
  <2>3. I486!Advance(I486!ModRMLength(code))
    BY <1>1, <2>2 DEF I486!Advance
  <2>4. I486!ModRMInsn(code)
    BY <1>6, <2>2, <2>3 DEF I486!ModRMInsn
  <2>5. I486!Executable(code, avail)
    BY <1>4, <1>6, <2>2 DEF I486!Executable, I486!OnMemory, I486!OperandMapped
  <2> QED BY <1>1, <1>3, <2>4, <2>5 DEF I486!Next, I486!Execute
<1> QED BY <1>1, <1>2, <1>5, <1>6, OpType

\* The zero flag cmpxchg leaves, in the terms of the instruction set.
LEMMA ZeroFlag ==
    ASSUME TypeOK
    PROVE  /\ flags' = flags \cup {"ZF"} => I486!CmpxchgFlags(TRUE)
           /\ flags' = flags \ {"ZF"} => I486!CmpxchgFlags(FALSE)
<1>1. flags \subseteq (ArithFlags \cup SystemFlags)
  BY DEF TypeOK, MachineTypeOK
<1> DEFINE others == flags \cap (I486!ArithFlags \ {"ZF"})
<1>2. others \in SUBSET (I486!ArithFlags \ {"ZF"})
  OBVIOUS
<1>3. flags \cup {"ZF"} = (flags \cap I486!SystemFlags) \cup others \cup {"ZF"}
  BY <1>1 DEF ArithFlags, SystemFlags, I486!ArithFlags, I486!SystemFlags
<1>4. flags \ {"ZF"} = (flags \cap I486!SystemFlags) \cup others \cup {}
  BY <1>1 DEF ArithFlags, SystemFlags, I486!ArithFlags, I486!SystemFlags
<1> HIDE DEF others
<1>5. ASSUME flags' = flags \cup {"ZF"} PROVE I486!CmpxchgFlags(TRUE)
  BY <1>2, <1>3, <1>5 DEF I486!CmpxchgFlags
<1>6. ASSUME flags' = flags \ {"ZF"} PROVE I486!CmpxchgFlags(FALSE)
  BY <1>2, <1>4, <1>6 DEF I486!CmpxchgFlags
<1> QED BY <1>5, <1>6

\* cmpxchg is a step of the instruction set.
LEMMA CmpxchgRefines ==
    ASSUME TypeOK, do_invalid_op, avail = 8, I486!IsCmpxchg(code), ~Shortfall,
           parse_emu_instruction = Rollback(parse_emu_cmpxchg(AtModRM))
    PROVE  I486!Next
<1>1. text # << >> /\ I486!HasModRM(code)
  BY DEF do_invalid_op, do_trap, I486!HasModRM
<1>2. CASE Refused
  <2>1. parse_emu_instruction.ret # 1
    BY <1>1, <1>2, CmpxchgWays, RollbackKinds
  <2> QED BY <1>1, <1>2, <2>1, Refusal, NotCarriedOut
<1>3. CASE Barred
  <2>1. parse_emu_instruction.ret # 1
    BY <1>1, <1>3, CmpxchgWays, RollbackKinds
  <2> QED BY <1>1, <1>3, <2>1, Refusal, NotCarriedOut
<1>4. ~(Allowed /\ ~Mapped(Op.dest))
  BY <1>1, MappedOrShort
<1>5. CASE Allowed /\ Mapped(Op.dest)
  <2> DEFINE d == Op.dest
             v == reg[Op.src]
  <2>1. CASE reg[AX] = Deref(d)
    <3>1. parse_emu_instruction =
            Outcome(1, RegAfter(reg, d, v), Op.ip, flags \cup {"ZF"}, MemAfter(d, v))
      BY <1>1, <1>5, <2>1, CmpxchgWays, RollbackKinds
    <3>2. /\ reg' = RegAfter(reg, d, v) /\ ip' = Op.ip /\ flags' = flags \cup {"ZF"}
          /\ mem' = MemAfter(d, v) /\ sig' = "none"
      BY <3>1, Emulated
    <3>3. I486!CmpxchgFlags(TRUE)
      BY <3>2, ZeroFlag
    <3>4. d = Slot(I486!Rm(code)) /\ I486!Mod(code) = 3 => I486!OnRegister(code)
      <4> SUFFICES ASSUME d = Slot(I486!Rm(code)), I486!Mod(code) = 3
                   PROVE  I486!OnRegister(code)
        OBVIOUS
      <4>1. d.at = "regs" /\ d.n = I486!Rm(code)
        BY DEF Slot
      <4>2. Op.src = I486!RegOp(code)
        BY <1>1, <1>5, <4>1, RegisterOperand DEF Allowed
      <4>3. reg[I486!AX] = reg[I486!Rm(code)]
        BY <2>1, <4>1, SameMachine DEF Deref
      <4>4. reg' = [reg EXCEPT ![I486!Rm(code)] = reg[I486!RegOp(code)]] /\ mem' = mem
        BY <3>2, <4>1, <4>2 DEF RegAfter, MemAfter
      <4>5. I486!CmpxchgReg(code)
        BY <3>3, <4>3, <4>4 DEF I486!CmpxchgReg
      <4> QED BY <1>1, <4>5 DEF I486!OnRegister, Shortfall, LockedRegister
    <3>5. d.at = "user" => I486!OnMemory(code, d.n)
      <4> SUFFICES ASSUME d.at = "user" PROVE I486!OnMemory(code, d.n)
        OBVIOUS
      <4>1. d.n \in Cells /\ I486!UserWord(d.n)
        BY <1>1, <1>5, OpWays DEF access_ok, I486!UserWord
      <4>2. Op.src = I486!RegOp(code)
        BY <1>1, <1>5, MemoryOperand DEF Allowed
      <4>3. reg[I486!AX] = mem[d.n]
        BY <2>1, SameMachine DEF Deref
      <4>4. mem' = [mem EXCEPT ![d.n] = reg[I486!RegOp(code)]] /\ reg' = reg
        BY <3>2, <4>2 DEF RegAfter, MemAfter
      <4>5. I486!CmpxchgMem(code, d.n)
        BY <3>3, <4>3, <4>4 DEF I486!CmpxchgMem
      <4> QED BY <4>1, <4>5 DEF I486!OnMemory
    <3> QED BY <1>1, <1>5, <3>2, <3>4, <3>5, CarriedOut
  <2>2. CASE reg[AX] # Deref(d)
    <3>1. parse_emu_instruction =
            Outcome(1, [reg EXCEPT ![AX] = Deref(d)], Op.ip, flags \ {"ZF"}, mem)
      BY <1>1, <1>5, <2>2, CmpxchgWays, RollbackKinds
    <3>2. /\ reg' = [reg EXCEPT ![AX] = Deref(d)] /\ ip' = Op.ip /\ flags' = flags \ {"ZF"}
          /\ mem' = mem /\ sig' = "none"
      BY <3>1, Emulated
    <3>3. I486!CmpxchgFlags(FALSE)
      BY <3>2, ZeroFlag
    <3>4. d = Slot(I486!Rm(code)) /\ I486!Mod(code) = 3 => I486!OnRegister(code)
      <4> SUFFICES ASSUME d = Slot(I486!Rm(code)), I486!Mod(code) = 3
                   PROVE  I486!OnRegister(code)
        OBVIOUS
      <4>1. d.at = "regs" /\ d.n = I486!Rm(code)
        BY DEF Slot
      <4>2. Deref(d) = reg[I486!Rm(code)]
        BY <4>1 DEF Deref
      <4>3. /\ reg[I486!AX] # reg[I486!Rm(code)]
            /\ reg' = [reg EXCEPT ![I486!AX] = reg[I486!Rm(code)]]
        BY <2>2, <3>2, <4>2, SameMachine
      <4>4. I486!CmpxchgReg(code)
        BY <3>2, <3>3, <4>3 DEF I486!CmpxchgReg
      <4> QED BY <1>1, <4>4 DEF I486!OnRegister, Shortfall, LockedRegister
    <3>5. d.at = "user" => I486!OnMemory(code, d.n)
      <4> SUFFICES ASSUME d.at = "user" PROVE I486!OnMemory(code, d.n)
        OBVIOUS
      <4>1. d.n \in Cells /\ I486!UserWord(d.n)
        BY <1>1, <1>5, OpWays DEF access_ok, I486!UserWord
      <4>2. Deref(d) = mem[d.n]
        BY DEF Deref
      <4>3. reg[I486!AX] # mem[d.n] /\ reg' = [reg EXCEPT ![I486!AX] = mem[d.n]]
        BY <2>2, <3>2, <4>2, SameMachine
      <4>4. I486!CmpxchgMem(code, d.n)
        BY <3>2, <3>3, <4>3 DEF I486!CmpxchgMem
      <4> QED BY <4>1, <4>4 DEF I486!OnMemory
    <3> QED BY <1>1, <1>5, <3>2, <3>4, <3>5, CarriedOut
  <2> QED BY <2>1, <2>2
<1> QED BY <1>1, <1>2, <1>3, <1>4, <1>5, OpWays

\* xadd is a step of the instruction set.
LEMMA XaddRefines ==
    ASSUME TypeOK, do_invalid_op, avail = 8, I486!IsXadd(code), ~Shortfall,
           parse_emu_instruction = Rollback(parse_emu_xadd(AtModRM))
    PROVE  I486!Next
<1>1. text # << >> /\ I486!HasModRM(code)
  BY DEF do_invalid_op, do_trap, I486!HasModRM
<1>2. CASE Refused
  <2>1. parse_emu_instruction.ret # 1
    BY <1>1, <1>2, XaddWays, RollbackKinds
  <2> QED BY <1>1, <1>2, <2>1, Refusal, NotCarriedOut
<1>3. CASE Barred
  <2>1. parse_emu_instruction.ret # 1
    BY <1>1, <1>3, XaddWays, RollbackKinds
  <2> QED BY <1>1, <1>3, <2>1, Refusal, NotCarriedOut
<1>4. ~(Allowed /\ ~Mapped(Op.dest))
  BY <1>1, MappedOrShort
<1>5. CASE Allowed /\ Mapped(Op.dest)
  <2> DEFINE d   == Op.dest
             sum == Wrap(reg[Op.src] + Deref(d))
             r   == [reg EXCEPT ![Op.src] = Deref(d)]
             f   == XaddFlags(reg[Op.src], Deref(d))
  <2>1. parse_emu_instruction =
          Outcome(1, RegAfter(r, d, sum), Op.ip, f, MemAfter(d, sum))
    BY <1>1, <1>5, XaddWays, RollbackKinds
  <2>2. /\ reg' = RegAfter(r, d, sum) /\ ip' = Op.ip /\ flags' = f
        /\ mem' = MemAfter(d, sum) /\ sig' = "none"
    BY <2>1, Emulated
  <2>3. flags' = (flags \cap I486!SystemFlags) \cup I486!AddFlags(reg[Op.src], Deref(d))
    <3> DEFINE A == AddFlags(reg[Op.src], Deref(d))
    <3>1. A \subseteq ArithFlags
      BY DEF AddFlags
    <3>2. f = (flags \ ArithFlags) \cup (A \cap ArithFlags)
      BY DEF XaddFlags, KernelFlagsAfterAdd
    <3> HIDE DEF A, f
    <3>3. flags \ ArithFlags = flags \cap I486!SystemFlags
      BY DEF TypeOK, MachineTypeOK, ArithFlags, SystemFlags, I486!SystemFlags
    <3>4. flags' = (flags \cap I486!SystemFlags) \cup A
      BY <2>2, <3>1, <3>2, <3>3
    <3> QED BY <3>4, SameAddFlags DEF A
  <2>4. d = Slot(I486!Rm(code)) /\ I486!Mod(code) = 3 => I486!OnRegister(code)
    <3> SUFFICES ASSUME d = Slot(I486!Rm(code)), I486!Mod(code) = 3
                 PROVE  I486!OnRegister(code)
      OBVIOUS
    <3>1. d.at = "regs" /\ d.n = I486!Rm(code)
      BY DEF Slot
    <3>2. Op.src = I486!RegOp(code)
      BY <1>1, <1>5, <3>1, RegisterOperand DEF Allowed
    <3>3. Deref(d) = reg[I486!Rm(code)]
      BY <3>1 DEF Deref
    <3>4. sum = I486!Wrap(reg[I486!RegOp(code)] + reg[I486!Rm(code)])
      BY <3>2, <3>3, SameMachine
    <3>5. r = [reg EXCEPT ![I486!RegOp(code)] = reg[I486!Rm(code)]]
      BY <3>2, <3>3
    <3> HIDE DEF sum, r, f
    <3>6. reg' = [r EXCEPT ![I486!Rm(code)] = sum] /\ mem' = mem
      BY <2>2, <3>1 DEF RegAfter, MemAfter
    <3>7. flags' = (flags \cap I486!SystemFlags)
                     \cup I486!AddFlags(reg[I486!RegOp(code)], reg[I486!Rm(code)])
      BY <2>3, <3>2, <3>3
    <3>8. reg' = [reg EXCEPT ![I486!RegOp(code)] = reg[I486!Rm(code)],
                             ![I486!Rm(code)] = I486!Wrap(reg[I486!RegOp(code)] + reg[I486!Rm(code)])]
      BY <3>4, <3>5, <3>6
    <3>9. I486!XaddReg(code)
      BY <3>6, <3>7, <3>8 DEF I486!XaddReg
    <3>10. ~I486!IsCmpxchg(code)
      BY DEF I486!IsXadd, I486!IsCmpxchg
    <3> QED BY <1>1, <3>9, <3>10 DEF I486!OnRegister, Shortfall, LockedRegister
  <2>5. d.at = "user" => I486!OnMemory(code, d.n)
    <3> SUFFICES ASSUME d.at = "user" PROVE I486!OnMemory(code, d.n)
      OBVIOUS
    <3>1. d.n \in Cells /\ I486!UserWord(d.n)
      BY <1>1, <1>5, OpWays DEF access_ok, I486!UserWord
    <3>2. Op.src = I486!RegOp(code)
      BY <1>1, <1>5, MemoryOperand DEF Allowed
    <3>3. Deref(d) = mem[d.n]
      BY DEF Deref
    <3>4. sum = I486!Wrap(reg[I486!RegOp(code)] + mem[d.n])
      BY <3>2, <3>3, SameMachine
    <3>5. r = [reg EXCEPT ![I486!RegOp(code)] = mem[d.n]]
      BY <3>2, <3>3
    <3> HIDE DEF sum, r, f
    <3>6. reg' = r /\ mem' = [mem EXCEPT ![d.n] = sum]
      BY <2>2 DEF RegAfter, MemAfter
    <3>7. flags' = (flags \cap I486!SystemFlags)
                     \cup I486!AddFlags(reg[I486!RegOp(code)], mem[d.n])
      BY <2>3, <3>2, <3>3
    <3>8. I486!XaddMem(code, d.n)
      BY <3>4, <3>5, <3>6, <3>7 DEF I486!XaddMem
    <3>9. ~I486!IsCmpxchg(code)
      BY DEF I486!IsXadd, I486!IsCmpxchg
    <3> QED BY <3>1, <3>8, <3>9 DEF I486!OnMemory
  <2> QED BY <1>1, <1>5, <2>2, <2>4, <2>5, CarriedOut
<1> QED BY <1>1, <1>2, <1>3, <1>4, <1>5, OpWays

\* An instruction without a ModRM operand is described; it is executable only if
\* it is an endbr32 or a bswap.
LEMMA NoModRM ==
    ASSUME ~I486!HasModRM(code)
    PROVE  /\ I486!Described(code)
           /\ I486!IsEndbr32(code) => I486!Executable(code, 8)
           /\ I486!IsBswap(code) => I486!Executable(code, 8)
           /\ \A n : I486!Executable(code, n) => I486!IsEndbr32(code) \/ I486!IsBswap(code)
  BY DEF I486!Described, I486!Executable

\* bswap is a step of the instruction set.
LEMMA BswapRefines ==
    ASSUME TypeOK, do_invalid_op, avail = 8, I486!IsTwoByte(code),
           I486!Opcode(code) \in {200, 201, 202, 203, 206, 207},
           parse_emu_instruction = Rollback(parse_emu_bswap(Past(Start)))
    PROVE  I486!Next
<1>1. /\ sig = "none" /\ text # << >> /\ text' = Tail(text)
      /\ I486!code = code /\ I486!avail = avail
  BY SameMachine DEF do_invalid_op, do_trap
<1>2. reg \in [Reg -> Word] /\ ip \in Nat
  BY DEF TypeOK, MachineTypeOK
<1>5. ~I486!HasModRM(code)
  BY DEF I486!HasModRM, I486!IsCmpxchg, I486!IsXadd
<1>3. CASE I486!Locked(code)
  <2>1. Past(Start).lock_prefix = 1
    BY <1>1, <1>3, AtModRMFields
  <2>2. parse_emu_bswap(Past(Start)) = Rejected(-95, Past(Start).ip)
    BY <2>1 DEF parse_emu_bswap
  <2>3. parse_emu_instruction.ret # 1
    BY <2>2, RollbackKinds
  <2>4. ~I486!Executable(code, avail)
    BY <1>3, <1>5, NoModRM DEF I486!IsTwoByte, I486!IsBswap
  <2> QED BY <1>1, <1>5, <2>3, <2>4, NoModRM, Refusal DEF I486!Next
<1>4. CASE ~I486!Locked(code)
  <2>1. Past(Start).lock_prefix = 0 /\ Past(Start).insts[1] = I486!Opcode(code)
    BY <1>1, <1>4, AtModRMFields
  <2>2. Past(Start).ip + 1 = ip + 2
    <3>1. Past(Start).ip = ip + I486!At(code)
      BY <1>1, AtModRMFields
    <3>2. I486!At(code) = 1
      BY <1>4 DEF I486!At
    <3> QED BY <1>2, <3>1, <3>2
  <2> DEFINE k == I486!Opcode(code) % 8
             r == [reg EXCEPT ![k] = bswap32(@)]
  <2>3. parse_emu_bswap(Past(Start)) = Outcome(1, r, Past(Start).ip + 1, flags, mem)
    BY <2>1 DEF parse_emu_bswap, MODRM_RM
  <2>4. parse_emu_instruction = Outcome(1, r, ip + 2, flags, mem)
    BY <2>2, <2>3, RollbackKinds
  <2>5. k \in Reg
    BY DEF Reg
  <2>6. bswap32(reg[k]) = I486!SwapBytes(reg[k])
    BY <1>2, <2>5, BswapIsSwap, SameSwap
  <2> HIDE DEF k
  <2>7. r = [reg EXCEPT ![k] = I486!SwapBytes(@)]
    BY <2>6
  <2> HIDE DEF r
  <2>8. reg' = r /\ ip' = ip + 2 /\ flags' = flags /\ mem' = mem /\ sig' = sig
    BY <2>4, Emulated
  <2>9. I486!IsBswap(code)
    BY <1>4 DEF I486!IsBswap
  <2>10. I486!Bswap(code)
    BY <2>7, <2>8, <2>9 DEF I486!Bswap, I486!Advance, k
  <2> QED BY <1>1, <1>5, <2>9, <2>10, NoModRM DEF I486!Next, I486!Execute
<1> QED BY <1>3, <1>4

\* A trap on which the emulator does not fall short is a step of the instruction
\* set.
LEMMA StepRefines ==
    ASSUME TypeOK, do_invalid_op, ~Shortfall
    PROVE  I486!Next
<1>1. /\ sig = "none" /\ text # << >> /\ text' = Tail(text)
      /\ I486!code = code /\ I486!avail = avail
  BY SameMachine DEF do_invalid_op, do_trap
<1>2. avail \in 0 .. 8
  BY <1>1, HeadType
<1>3. First4 = << 243, 15, 30, 251 >> <=> I486!IsEndbr32(code)
  BY DEF First4, I486!IsEndbr32
<1>4. Start.insts[1] = code[I486!At(code)] /\ Past(Start).insts[1] = I486!Opcode(code)
  BY <1>1, AtModRMFields
<1>5. CASE avail < 8
  <2>1. parse_emu_instruction = Rejected(-12, ip)
    BY <1>5 DEF parse_emu_instruction
  <2>2. parse_emu_instruction.ret # 1
    BY <2>1 DEF Rejected, Outcome
  <2>3. ~I486!Executable(code, avail)
    BY <1>5 DEF Shortfall, CutOff
  <2>4. I486!Described(code)
    BY DEF Shortfall, BySib, I486!Described
  <2> QED BY <1>1, <2>2, <2>3, <2>4, Refusal DEF I486!Next
<1>6. CASE avail = 8 /\ I486!IsEndbr32(code)
  <2>1. parse_emu_instruction = Outcome(1, reg, ip + 4, flags, mem)
    BY <1>3, <1>6 DEF parse_emu_instruction
  <2>2. reg' = reg /\ ip' = ip + 4 /\ flags' = flags /\ mem' = mem /\ sig' = sig
    BY <2>1, Emulated
  <2>3. I486!Endbr32(code)
    BY <1>6, <2>2 DEF I486!Endbr32, I486!Advance
  <2>4. ~I486!HasModRM(code)
    BY <1>6 DEF I486!HasModRM, I486!IsCmpxchg, I486!IsXadd, I486!IsTwoByte
  <2> QED BY <1>1, <1>6, <2>3, <2>4, NoModRM DEF I486!Next, I486!Execute
<1>7. CASE avail = 8 /\ ~I486!IsEndbr32(code) /\ code[I486!At(code)] # 15
  <2>1. parse_emu_instruction = Rollback(Rejected(-95, Start.ip))
    BY <1>3, <1>4, <1>7 DEF parse_emu_instruction
  <2>2. parse_emu_instruction.ret # 1
    BY <2>1, RollbackKinds
  <2>3. ~I486!HasModRM(code) /\ ~I486!IsBswap(code)
    BY <1>7 DEF I486!HasModRM, I486!IsBswap, I486!IsCmpxchg, I486!IsXadd, I486!IsTwoByte
  <2> QED BY <1>1, <1>7, <2>2, <2>3, NoModRM, Refusal DEF I486!Next
<1>8. CASE avail = 8 /\ I486!IsTwoByte(code)
  <2> DEFINE op == I486!Opcode(code)
  <2>1. parse_emu_instruction = Rollback(Dispatch(Past(Start)))
    BY <1>3, <1>4, <1>8 DEF parse_emu_instruction, I486!IsTwoByte
  <2>2. Dispatch(Past(Start)) = IF op = 177 THEN parse_emu_cmpxchg(AtModRM) ELSE
           IF op = 193 THEN parse_emu_xadd(AtModRM) ELSE
           IF op \in {200, 201, 202, 203, 206, 207} THEN parse_emu_bswap(Past(Start)) ELSE
           Rejected(-95, Past(Start).ip)
    BY <1>4 DEF Dispatch, AtModRM
  <2>3. CASE op = 177
    <3>1. I486!IsCmpxchg(code)
      BY <1>8, <2>3 DEF I486!IsCmpxchg
    <3>2. parse_emu_instruction = Rollback(parse_emu_cmpxchg(AtModRM))
      BY <2>1, <2>2, <2>3
    <3> QED BY <1>8, <3>1, <3>2, CmpxchgRefines
  <2>4. CASE op = 193
    <3>1. I486!IsXadd(code)
      BY <1>8, <2>4 DEF I486!IsXadd
    <3>2. parse_emu_instruction = Rollback(parse_emu_xadd(AtModRM))
      BY <2>1, <2>2, <2>4
    <3> QED BY <1>8, <3>1, <3>2, XaddRefines
  <2>5. CASE op \in {200, 201, 202, 203, 206, 207}
    <3>1. parse_emu_instruction = Rollback(parse_emu_bswap(Past(Start)))
      BY <2>1, <2>2, <2>5
    <3> QED BY <1>8, <2>5, <3>1, BswapRefines
  <2>6. CASE op \notin {177, 193, 200, 201, 202, 203, 206, 207}
    <3>1. parse_emu_instruction = Rollback(Rejected(-95, Past(Start).ip))
      BY <2>1, <2>2, <2>6
    <3>2. parse_emu_instruction.ret # 1
      BY <3>1, RollbackKinds
    <3>3. ~I486!HasModRM(code)
      BY <2>6 DEF I486!HasModRM, I486!IsCmpxchg, I486!IsXadd
    <3>4. ~(op \in 200 .. 207 /\ op % 8 \notin {4, 5})
      BY <2>6
    <3>5. ~I486!IsBswap(code)
      BY <3>4 DEF I486!IsBswap, Shortfall, SwapsFrame
    <3>6. ~I486!IsEndbr32(code)
      BY <1>8 DEF I486!IsTwoByte
    <3> QED BY <1>1, <3>2, <3>3, <3>5, <3>6, NoModRM, Refusal DEF I486!Next
  <2> QED BY <2>3, <2>4, <2>5, <2>6
<1>9. \/ avail < 8
      \/ avail = 8 /\ I486!IsEndbr32(code)
      \/ avail = 8 /\ ~I486!IsEndbr32(code) /\ code[I486!At(code)] # 15
      \/ avail = 8 /\ I486!IsTwoByte(code)
  BY <1>2 DEF I486!IsTwoByte
<1> QED BY <1>5, <1>6, <1>7, <1>8, <1>9

\* For every program, every content of the registers and of memory and every
\* size of a byte, each trap on which none of the seven shortfalls applies is
\* the instruction a 486 would have executed, or a signal and nothing else
\* where a 486 would fault (do_invalid_op).
THEOREM EmulatorImplementsIsa == Spec => ImplementsIsa
<1>1. TypeOK /\ [Next]_machine => [~Shortfall => I486!Next]_machine
  BY StepRefines DEF Next
<1> QED BY <1>1, TypeCorrect, PTL DEF Spec, ImplementsIsa
=============================================================================
