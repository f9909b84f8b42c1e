------------------------------ MODULE VectorFrames ------------------------------
(***************************************************************************)
(* The vectors of issp.c as the frames of 22 bits that the chip reads in   *)
(* them: what the bytes of each table say, in the chip's own               *)
(* instructions.  A table that was mistyped, or an instruction that was    *)
(* misread, would make the two disagree.                                   *)
(***************************************************************************)
EXTENDS Vectors

\* A number without its lowest k bits; its bit k, counted from the lowest.
Upper(X, k) == X \div 2^k

BitAt(X, k) == (X \div 2^k) % 2

\* Two bytes as one number, and three; the 22 bits of a frame among them.
Join(hi, lo) == hi * 256 + lo
Word3(a, b, c) == Join(Join(a, b), c)
Low22(w) == w % 4194304

\* Four frames are eleven bytes: frame r of the four, in the bytes from q on.
FrameFrom(V, q, r) ==
  CASE r = 0 -> Low22(Word3(V[q + 1], V[q + 2], V[q + 3]) \div 4)
    [] r = 1 -> Low22(Word3(Join(V[q + 3], V[q + 4]), V[q + 5], V[q + 6]) \div 16)
    [] r = 2 -> Low22(Word3(Join(V[q + 6], V[q + 7]), V[q + 8], V[q + 9]) \div 64)
    [] r = 3 -> Low22(Word3(V[q + 9], V[q + 10], V[q + 11]))

\* Frame j of a vector, the first being frame 0.
FrameAt(V, j) == FrameFrom(V, 11 * (j \div 4), j % 4)

\* Vector V is the frames of F, one after the other and without a bit between them.
Table(V, F, m) ==
  /\ V \in Seq(Byte) /\ 22 * m <= 8 * Len(V)
  /\ \A j \in 0..(m - 1) : FrameAt(V, j) = F[j + 1]

\* An instruction that writes v at address a, with the three ones that end it: to RAM, to a
\* register.
Instruction(op, a, v) == op * 524288 + a * 2048 + v * 8 + 7
ToRam(a, v) == Instruction(4, a, v)
ToReg(a, v) == Instruction(6, a, v)

\* The frames of init1_v: the one that wakes the chip, five of zeros, and the rest from which
\* it runs its first routine.
Init1Frames ==
  << 3309568, 0, 0, 0, 0, 0, ToReg(\hF7, \h00), ToReg(\hF6, \h00),
     ToRam(\hF8, \h3A), ToRam(\hF9, \h03), ToReg(\hF5, \h00),
     ToReg(\hF4, \h03), ToRam(\hFB, \h80), ToReg(\hF9, \h30),
     ToReg(\hFA, \h40), ToReg(\hF0, \h09), ToReg(\hF8, \h00),
     ToReg(\hFF, \h12) >>

Init2Frames ==
  << ToReg(\hF7, \h00), ToReg(\hF6, \h00), ToRam(\hF8, \h3A),
     ToRam(\hF9, \h03), ToReg(\hF5, \h00), ToReg(\hF4, \h03),
     ToRam(\hFB, \h80), ToReg(\hF9, \h30), ToReg(\hFA, \h40),
     ToRam(\hFA, \h01), ToReg(\hF0, \h06), ToReg(\hF8, \h00),
     ToReg(\hFF, \h12) >>

Init3Frames ==
  << ToReg(\hF7, \h00), ToReg(\hF4, \h03), ToReg(\hF5, \h00),
     ToReg(\hF6, \h08), ToReg(\hF8, \h51), ToReg(\hF9, \hF8),
     ToReg(\hFA, \h30), ToReg(\hFF, \h12), 0, ToReg(\hF7, \h00),
     ToReg(\hF4, \h03), ToReg(\hF5, \h00), ToReg(\hF6, \h08),
     ToReg(\hF8, \h60), ToReg(\hF9, \hEA), ToReg(\hFA, \h30),
     ToReg(\hF7, \h10), ToReg(\hFF, \h12), 0, ToReg(\hF7, \h00),
     ToReg(\hF4, \h03), ToReg(\hF5, \h00), ToReg(\hF6, \h08),
     ToReg(\hF8, \h51), ToReg(\hF9, \hF9), ToReg(\hFA, \h30),
     ToReg(\hFF, \h12), 0, ToReg(\hF7, \h00), ToReg(\hF4, \h03),
     ToReg(\hF5, \h00), ToReg(\hF6, \h08), ToReg(\hF8, \h60),
     ToReg(\hF9, \hE8), ToReg(\hFA, \h30), ToReg(\hF7, \h10),
     ToReg(\hFF, \h12), 0 >>

IdSetupFrames ==
  << ToReg(\hF7, \h10), ToReg(\hE0, \h02), ToReg(\hF7, \h00),
     ToReg(\hF6, \h00), ToRam(\hF8, \h3A), ToRam(\hF9, \h03),
     ToReg(\hF5, \h00), ToReg(\hF4, \h03), ToRam(\hFB, \h80),
     ToReg(\hF9, \h30), ToReg(\hFA, \h40), ToRam(\hFA, \h00),
     ToReg(\hF0, \h06), ToReg(\hF8, \h00), ToReg(\hFF, \h12) >>

EraseAllFrames ==
  << ToRam(\hFC, \h15), ToRam(\hFE, \h56), ToReg(\hF7, \h00),
     ToReg(\hF6, \h00), ToRam(\hF8, \h3A), ToRam(\hF9, \h03),
     ToReg(\hF5, \h00), ToReg(\hF4, \h03), ToRam(\hFB, \h80),
     ToReg(\hF9, \h30), ToReg(\hFA, \h40), ToReg(\hF0, \h05),
     ToReg(\hF8, \h00), ToReg(\hFF, \h12) >>

ProgramBlockFrames ==
  << ToRam(\hFC, \h54), ToRam(\hFE, \h56), ToReg(\hF7, \h00),
     ToReg(\hF6, \h00), ToRam(\hF8, \h3A), ToRam(\hF9, \h03),
     ToReg(\hF5, \h00), ToReg(\hF4, \h03), ToRam(\hFB, \h80),
     ToReg(\hF9, \h30), ToReg(\hFA, \h40), ToReg(\hF0, \h02),
     ToReg(\hF8, \h00), ToReg(\hFF, \h12) >>

VerifySetupFrames ==
  << ToReg(\hF7, \h00), ToReg(\hF6, \h00), ToRam(\hF8, \h3A),
     ToRam(\hF9, \h03), ToReg(\hF5, \h00), ToReg(\hF4, \h03),
     ToRam(\hFB, \h80), ToReg(\hF9, \h30), ToReg(\hFA, \h40),
     ToReg(\hF0, \h01), ToReg(\hF8, \h00), ToReg(\hFF, \h12) >>

ChecksumFrames ==
  << ToReg(\hF7, \h00), ToReg(\hF6, \h00), ToRam(\hF8, \h3A),
     ToRam(\hF9, \h03), ToReg(\hF5, \h00), ToReg(\hF4, \h03),
     ToRam(\hFB, \h80), ToReg(\hF9, \h30), ToReg(\hFA, \h40),
     ToRam(\hFA, \h00), ToReg(\hF0, \h07), ToReg(\hF8, \h00),
     ToReg(\hFF, \h12) >>

SecurityFFrames ==
  << ToRam(\hFC, \h54), ToRam(\hFE, \h56), ToReg(\hF7, \h00),
     ToReg(\hF6, \h00), ToRam(\hF8, \h3A), ToRam(\hF9, \h03),
     ToReg(\hF5, \h00), ToReg(\hF4, \h03), ToRam(\hFB, \h80),
     ToReg(\hF9, \h30), ToReg(\hFA, \h40), ToReg(\hF0, \h04),
     ToReg(\hF8, \h00), ToReg(\hFF, \h12) >>

SecurityVerificationFrames ==
  << ToReg(\hF7, \h00), ToReg(\hF6, \h00), ToRam(\hF8, \h3A),
     ToRam(\hF9, \h03), ToRam(\hFD, \h00), ToRam(\hFF, \h00),
     ToReg(\hF5, \h00), ToReg(\hF4, \h03), ToRam(\hFB, \h80),
     ToReg(\hF9, \h30), ToReg(\hFA, \h40), ToReg(\hF0, \h10),
     ToReg(\hF8, \h00), ToReg(\hFF, \h12) >>
=================================================================================
