----------------------------- MODULE MCI486Emu -----------------------------
(* I486Emu on words of four hexadecimal digits: 2^16 values instead of 2^32. *)
EXTENDS I486Emu

CONSTANTS ModRMs, Disps   \* the ModRM bytes and displacements of the run

\* The displacement digits of an instruction, least significant first.
Padding == << 0, 0, 0, 0, 0, 0, 0, 0 >>
Window(bytes) == SubSeq(bytes \o Padding, 1, 8)
Prefixes == { << >>, << 240 >> }

\* Two registers as source, the accumulator one of them; every addressing form;
\* displacements on both sides of the sign bit, some naming a mapped word.
MCModRMs == { 64 * mod + 8 * src + rm : mod \in 0 .. 3, src \in {0, 5}, rm \in 0 .. 7 }
MCDisps  == { << 4, 0, 0, 0 >>, << 12, 15, 15, 15 >>, << 0, 1, 1, 0 >>,
              << 8, 0, 0, 12 >> }

MCCodes ==
         { Window(p \o << 15, op, m >> \o d) :
              p \in Prefixes, op \in {177, 193}, m \in ModRMs, d \in Disps }
    \cup { Window(p \o << 15, op >>) : p \in Prefixes, op \in 200 .. 207 }
    \cup { Window(<< 243, 15, 30, 251 >>), Window(<< 15, 11 >>),
           Window(<< 102, 15, 177, 208 >>), Window(<< 240, 144 >>) }

Whole(c) == [bytes |-> c, avail |-> 8]

\* One instruction, whole or cut off by the end of the mapped text; and short
\* programs in which an instruction finds what earlier ones left behind.
Chain == { Window(<< 240, 15, 177, 8 * 2 + 5 >> \o << 0, 1, 1, 0 >>),
           Window(<< 15, 193, 64 + 8 * 0 + 1 >> \o << 4 >>),
           Window(<< 240, 15, 193, 128 + 8 * 1 + 3 >> \o << 0, 0, 0, 0 >>),
           Window(<< 15, 177, 192 + 8 * 5 + 1 >>),
           Window(<< 15, 200 >>), Window(<< 15, 201 >>), Window(<< 243, 15, 30, 251 >>) }
MCPrograms ==
         { << Whole(c) >> : c \in MCCodes }
    \cup { << [bytes |-> c, avail |-> n] >> : c \in Chain, n \in {0, 4} }
    \cup { << Whole(c), Whole(d), Whole(e) >> : c, d, e \in Chain }

MCCells == { 256, 260, 268, 272, 49152, 49160 }

\* Registers holding addresses near the mapped words, and one set of plain
\* numbers whose sums wrap.
MCRegs ==
    { [r \in 0 .. 7 |-> CASE r \in {0, 2} -> 7 [] r \in {1, 3} -> 256
                          [] r \in {5, 6} -> 264 [] r = 4 -> 512 [] r = 7 -> 49148],
      [r \in 0 .. 7 |-> IF r = 0 THEN 65535 ELSE IF r = 1 THEN 1 ELSE 264] }
MCMem == { [a \in MCCells |-> IF a = 260 THEN 65535 ELSE 7] }
=============================================================================
