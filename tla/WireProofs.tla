------------------------------- MODULE WireProofs -------------------------------
(***************************************************************************)
(* Proofs about Wire, for every size of block and bank, every image and    *)
(* every chip: what the functions of issp.c put on the wires, bit by bit,  *)
(* makes the chip do what Target says of them.  The argument follows the   *)
(* inductive invariant of WireInductive: first what one clock does to the  *)
(* chip, then what a stretch of calls does, then one lemma for each        *)
(* function, and in the end the theorems.                                  *)
(***************************************************************************)
EXTENDS WireInductive, OperatorProofs

(***************************************************************************)
(* The chip takes one bit at each falling edge of SCLK.  What it has       *)
(* taken so far is a number without its lowest bits; one bit more is one   *)
(* bit less to take away.                                                  *)
(***************************************************************************)
\* The chip takes one more bit of a frame, and the last of one.
LEMMA TakesBit ==
  ASSUME NEW X \in Nat, NEW L \in 1..22, NEW k \in 0..20, k < L, Took(X, L, k),
         k = 0 => BitAt(X, L - 1) = 1, NEW level, level = BitAt(X, L - k - 1), ChipClock(level)
  PROVE  /\ Took(X, L, k + 1)'
         /\ UNCHANGED <<targetVars, wait, ram, reg, malformed>>
<1>1. PICK d \in 0..21 : d = L - k - 1 /\ L - k = d + 1 /\ L - (k + 1) = d
  OBVIOUS
<1>2. 2 * Upper(X, d + 1) + BitAt(X, d) = Upper(X, d)
  BY OneMore
<1>3. phase = "listening" /\ len = k /\ bits = Upper(X, d + 1)
  BY <1>1 DEF Took
<1>4. Listen(level)
  BY <1>3 DEF ChipClock
<1>5. level = BitAt(X, d) /\ (k = 0 => level = 1)
  BY <1>1
<1>6. len' = k + 1 /\ bits' = 2 * bits + level /\ UNCHANGED <<phase, targetVars, ram, reg, malformed, wait>>
  BY <1>3, <1>4, <1>5 DEF Listen, targetVars
<1>7. bits' = Upper(X, d)
  BY <1>2, <1>3, <1>5, <1>6
<1> QED BY <1>1, <1>3, <1>6, <1>7 DEF Took

\* The last bit of a frame is taken: the chip obeys the frame, Frame of WireChip.
LEMMA TakesFrame ==
  ASSUME NEW X \in Nat, Took(X, 22, 21), NEW level, level = BitAt(X, 0), ChipClock(level)
  PROVE  /\ len' = 0 /\ bits' = 0 /\ Frame(X)
         /\ UNCHANGED <<genuine, flash, security, wait>>
<1>1. phase = "listening" /\ len = 21 /\ bits = Upper(X, 1)
  BY DEF Took
<1>2. 2 * bits + level = X
  <2>1. 2 * Upper(X, 0 + 1) + BitAt(X, 0) = Upper(X, 0)
    BY OneMore
  <2> QED BY <2>1, <1>1, UpperAll
<1>3. Listen(level)
  BY <1>1 DEF ChipClock
<1> QED BY <1>1, <1>2, <1>3 DEF Listen

\* Nothing on the wire between two frames.
LEMMA TakesNothing ==
  ASSUME phase = "listening", len = 0, bits = 0, ChipClock(0)
  PROVE  UNCHANGED chipVars
  BY DEF ChipClock, Listen, chipVars, targetVars

\* After the address of a read its bits are the chip's.
LEMMA AsksBit ==
  ASSUME NEW P, NEW k \in 11..20, bits \in Nat, Asked(P, k), NEW level \in {0, 1}, ChipClock(level)
  PROVE  /\ Asked(P, k + 1)'
         /\ bits' \in Nat /\ phase' = phase
         /\ UNCHANGED <<targetVars, wait, ram, reg, malformed>>
<1>1. phase = "listening" /\ len = k /\ tMode = "prog"
  BY DEF Asked, Listening
<1>2. Listen(level)
  BY <1>1 DEF ChipClock
<1>3. len' = k + 1 /\ bits' = 2 * bits + level /\ UNCHANGED <<phase, targetVars, ram, reg, malformed, wait>>
  BY <1>1, <1>2 DEF Listen, targetVars
<1>4. PICK d \in 0..9 : d = k - 11 /\ k + 1 - 11 = d + 1
  OBVIOUS
<1>5. bits' \in Nat
  BY <1>3
<1>6. Upper(bits', d + 1) = Upper(bits, d)
  <2>1. PICK B \in Nat : B = bits
    OBVIOUS
  <2>2. PICK C \in Nat : C = bits' /\ C = 2 * B + level
    BY <1>3, <1>5, <2>1
  <2>3. CASE d = 0 BY <2>1, <2>2, <2>3, Powers DEF Upper
  <2>4. CASE d = 1 BY <2>1, <2>2, <2>4, Powers DEF Upper
  <2>5. CASE d = 2 BY <2>1, <2>2, <2>5, Powers DEF Upper
  <2>6. CASE d = 3 BY <2>1, <2>2, <2>6, Powers DEF Upper
  <2>7. CASE d = 4 BY <2>1, <2>2, <2>7, Powers DEF Upper
  <2>8. CASE d = 5 BY <2>1, <2>2, <2>8, Powers DEF Upper
  <2>9. CASE d = 6 BY <2>1, <2>2, <2>9, Powers DEF Upper
  <2>10. CASE d = 7 BY <2>1, <2>2, <2>10, Powers DEF Upper
  <2>11. CASE d = 8 BY <2>1, <2>2, <2>11, Powers DEF Upper
  <2>12. CASE d = 9 BY <2>1, <2>2, <2>12, Powers DEF Upper
  <2> QED BY <2>3, <2>4, <2>5, <2>6, <2>7, <2>8, <2>9, <2>10, <2>11, <2>12
<1> QED BY <1>1, <1>3, <1>4, <1>5, <1>6 DEF Asked, Listening, targetVars

\* The 22nd bit of a read, whatever it is, ends it: nothing is written.
LEMMA AsksEnd ==
  ASSUME NEW P \in Nat, P \div 256 = 5, bits \in Nat, Asked(P, 21), NEW level \in {0, 1}, ChipClock(level)
  PROVE  /\ Ready' /\ UNCHANGED <<genuine, flash, security, wait, ram, reg>>
         /\ ~malformed => ~malformed'
<1>1. phase = "listening" /\ len = 21 /\ tMode = "prog" /\ P = bits \div 1024
  BY Powers DEF Asked, Listening, Upper
<1>2. Listen(level)
  BY <1>1 DEF ChipClock
<1>3. len' = 0 /\ bits' = 0 /\ Frame(2 * bits + level) /\ UNCHANGED <<genuine, flash, security, wait>>
  BY <1>1, <1>2 DEF Listen
<1>4. PICK f \in Nat : f = 2 * bits + level
  OBVIOUS
<1>5. f \div 524288 = 5
  <2>1. PICK B \in Nat : B = bits
    OBVIOUS
  <2>2. (B \div 1024) \div 256 = 5
    BY <1>1, <2>1
  <2> QED BY <2>1, <2>2, <1>4
<1>6. Opcode(2 * bits + level) = 5
  BY <1>4, <1>5, Powers DEF Opcode
<1>7. Obey(2 * bits + level) /\ UNCHANGED tMode
  BY <1>1, <1>3 DEF Frame
<1>8. phase' = phase /\ ram' = ram /\ reg' = reg
  BY <1>6, <1>7 DEF Obey, WriteRam, WriteReg
<1>9. ~malformed => ~malformed'
  BY <1>6, <1>7 DEF Obey, WriteRam, WriteReg, ReadRam
<1> QED BY <1>1, <1>3, <1>7, <1>8, <1>9 DEF Ready, Listening

\* Outside the eight clocks of an answer a listening chip leaves SDATA alone.
LEMMA Silent ==
  ASSUME phase = "listening", len \notin 13..20
  PROVE  Drives = Nothing
  BY DEF Drives, Reading

\* Taking a frame that is not a read, the chip never drives SDATA.
LEMMA WriteIsSilent ==
  ASSUME NEW X \in Nat, NEW L \in 3..22, NEW k \in 0..L, Took(X, L, k), k < 22, Upper(X, L - 3) # 5
  PROVE  Drives = Nothing
<1>1. CASE k \notin 13..20
  BY <1>1, Silent DEF Took
<1>2. ASSUME k \in 13..20, Reading PROVE FALSE
  <2>1. phase = "listening" /\ len = k /\ bits = Upper(X, L - k) /\ Upper(bits, k - 3) = 5
    BY <1>2 DEF Took, Reading, Upper, ReadRam
  <2>2. Upper(Upper(X, L - k), k - 3) = Upper(X, L - 3)
    <3>1. PICK a \in 0..9, b \in 10..17 : a = L - k /\ b = k - 3 /\ a + b = L - 3 /\ a + b <= 22
      BY <1>2
    <3>2. Upper(Upper(X, a), b) = Upper(X, a + b)
      <4>1. a + b <= 22 /\ b \in 0..17
        BY <3>1
      <4> QED BY <4>1, UpperUpper
    <3> QED BY <3>1, <3>2
  <2> QED BY <2>1, <2>2
<1>3. phase = "listening"
  BY DEF Took
<1> QED BY <1>1, <1>2, <1>3 DEF Drives

\* In the eight clocks of an answer the chip puts the byte of its RAM
\* on SDATA, the highest bit first.
LEMMA Answers8 ==
  ASSUME NEW P \in Nat, P \div 256 = 5, P % 256 \in RamUsed, NEW k \in 13..20, bits \in Nat, Asked(P, k)
  PROVE  Drives = BitAt(ram[P % 256], 20 - k)
<1>1. phase = "listening" /\ len = k /\ Upper(bits, k - 11) = P
  BY DEF Asked, Listening
<1>2. Upper(bits, k - 3) = 5
  <2>1. PICK a \in 2..9 : a = k - 11 /\ a + 8 = k - 3
    OBVIOUS
  <2>2. PICK B \in Nat : B = bits
    OBVIOUS
  <2>3. Upper(Upper(B, a), 8) = Upper(B, a + 8)
    BY UpperUpper
  <2>4. Upper(P, 8) = 5
    BY Powers DEF Upper
  <2> QED BY <1>1, <2>1, <2>2, <2>3, <2>4
<1>3. Reading /\ ReadAddress = P % 256
  BY <1>1, <1>2 DEF Reading, ReadAddress, Upper, ReadRam
<1>4. Drives = (IF ReadAddress \in RamUsed THEN ram[ReadAddress] \div 2^(20 - len) ELSE 0) % 2
  BY <1>1, <1>3 DEF Drives
<1>5. Drives = (ram[P % 256] \div 2^(20 - k)) % 2
  BY <1>1, <1>3, <1>4, Zenon
<1> QED BY <1>5 DEF BitAt

(***************************************************************************)
(* The frames of a vector, and what they leave in the RAM and the          *)
(* registers.                                                              *)
(***************************************************************************)
\* A frame that writes a byte; and one that starts what the test queue holds.
Whole(f) == f \in Nat /\ f < 4194304 /\ Opcode(f) \in {4, 6} /\ f % 8 = 7

\* A write to register \hFF runs the queued instruction.
Starts(f) == Opcode(f) = 6 /\ Address(f) = 255

\* An instruction of the tables taken apart again.
LEMMA InstructionParts ==
  ASSUME NEW op \in {4, 6}, NEW a \in Byte, NEW v \in Byte
  PROVE  /\ Whole(Instruction(op, a, v))
         /\ Opcode(Instruction(op, a, v)) = op /\ Address(Instruction(op, a, v)) = a
         /\ Value(Instruction(op, a, v)) = v
         /\ Instruction(op, a, v) \div 2048 = op * 256 + a
<1>1. a \in Nat /\ a < 256 /\ v \in Nat /\ v < 256
  BY DEF Byte
<1>2. PICK f \in Nat : f = op * 524288 + a * 2048 + v * 8 + 7
  BY <1>1
<1>3. /\ f \div 524288 = op /\ f \div 2048 = op * 256 + a /\ (f \div 2048) % 256 = a
      /\ (f \div 8) % 256 = v /\ f % 8 = 7 /\ f < 4194304
  BY <1>1, <1>2
<1> QED
  BY <1>1, <1>2, <1>3, Powers DEF Whole, Opcode, Address, Value, Instruction

\* A frame that writes RAM or a register begins with a one and is not a read.
LEMMA WholeParts ==
  ASSUME NEW f, Whole(f)
  PROVE  /\ f \in Nat /\ BitAt(f, 21) = 1 /\ Upper(f, 22) = 0 /\ Upper(f, 19) # 5
         /\ f \div 2048 = Opcode(f) * 256 + Address(f)
         /\ Opcode(f) \in {4, 6} /\ Address(f) \in Byte /\ Value(f) \in Byte
<1>1. f \in Nat /\ f < 4194304 /\ Opcode(f) \in {4, 6} /\ f \div 524288 \in {4, 6}
  BY Powers DEF Whole, Opcode
<1>2. (f \div 2097152) % 2 = 1 /\ f \div 4194304 = 0 /\ f \div 524288 # 5
  <2>1. CASE f \div 524288 = 4 BY <1>1, <2>1
  <2>2. CASE f \div 524288 = 6 BY <1>1, <2>2
  <2> QED BY <1>1, <2>1, <2>2
<1>3. f \div 2048 = (f \div 524288) * 256 + ((f \div 2048) % 256)
  <2>1. PICK g \in Nat : g = f \div 2048
    BY <1>1
  <2>2. f \div 524288 = g \div 256
    BY <1>1, <2>1
  <2>3. g = (g \div 256) * 256 + (g % 256)
    BY <2>1
  <2> QED BY <2>1, <2>2, <2>3
<1>4. (f \div 2048) % 256 \in 0..255 /\ (f \div 8) % 256 \in 0..255
  BY <1>1
<1> QED
  BY <1>1, <1>2, <1>3, <1>4, Powers DEF BitAt, Upper, Opcode, Address, Value, Byte

\* What a frame that writes does to a chip in programming mode.
LEMMA Obeyed ==
  ASSUME NEW f, Whole(f), tMode = "prog", phase = "listening", Frame(f)
  PROVE  /\ UNCHANGED tMode
         /\ ~malformed => ~malformed'
         /\ phase' = IF Starts(f) THEN "armed" ELSE "listening"
         /\ ram' = IF Opcode(f) = 4 /\ Address(f) \in RamUsed
                   THEN [ram EXCEPT ![Address(f)] = Value(f)] ELSE ram
         /\ reg' = IF Opcode(f) = 6 /\ Address(f) \in RegUsed
                   THEN [reg EXCEPT ![Address(f)] = Value(f)] ELSE reg
<1>1. UNCHANGED tMode /\ Obey(f)
  BY DEF Frame
<1>2. Opcode(f) \in {4, 6} /\ f % 8 = 7
  BY DEF Whole
<1> QED
  BY <1>1, <1>2 DEF Obey, Starts, WriteRam, WriteReg, ReadRam

\* Obeying one frame more, the frames obeyed so far are in force, but for those it overwrites.
LEMMA FrameWritten ==
  ASSUME NEW F, NEW n \in Nat, NEW j \in Nat, n <= j + 1, \A k \in n..(j + 1) : Whole(F[k]),
         Written(F, n, j), ram \in [RamUsed -> Byte], reg \in [RegUsed -> Byte],
         ram' = IF Opcode(F[j + 1]) = 4 /\ Address(F[j + 1]) \in RamUsed
                THEN [ram EXCEPT ![Address(F[j + 1])] = Value(F[j + 1])] ELSE ram,
         reg' = IF Opcode(F[j + 1]) = 6 /\ Address(F[j + 1]) \in RegUsed
                THEN [reg EXCEPT ![Address(F[j + 1])] = Value(F[j + 1])] ELSE reg
  PROVE  Written(F, n, j + 1)'
<1> SUFFICES ASSUME NEW k \in n..(j + 1), IsLast(F, k, j + 1) PROVE Holds(F[k])'
  BY DEF Written
<1>1. CASE k = j + 1
  BY <1>1 DEF Holds, WriteRam, WriteReg
<1>2. CASE k # j + 1
  <2>1. k \in n..j /\ F[j + 1] \div 2048 # F[k] \div 2048 /\ IsLast(F, k, j)
    BY <1>2 DEF IsLast
  <2>2. Holds(F[k])
    BY <2>1 DEF Written
  <2>3. PICK f, g : f = F[k] /\ g = F[j + 1]
    OBVIOUS
  <2>4. /\ g \div 2048 # f \div 2048 /\ Holds(f) /\ Whole(f) /\ Whole(g)
        /\ f \div 2048 = Opcode(f) * 256 + Address(f) /\ g \div 2048 = Opcode(g) * 256 + Address(g)
    BY <2>1, <2>2, <2>3, WholeParts
  <2>5. Opcode(f) = Opcode(g) => Address(f) # Address(g)
    BY <2>4
  <2> QED BY <2>3, <2>4, <2>5 DEF Holds, WriteRam, WriteReg
<1> QED BY <1>1, <1>2

\* Nothing but the writes changes what was written.
LEMMA WrittenKept ==
  ASSUME NEW F, NEW n, NEW j, Written(F, n, j), UNCHANGED <<ram, reg>>
  PROVE  Written(F, n, j)'
  BY DEF Written, Holds

\* Before its first bit every frame that begins with a one is open.
LEMMA FirstBit ==
  ASSUME NEW X, Whole(X), Listening, len = 0, bits = 0
  PROVE  Heard(X, 22, 0)
<1>1. Upper(X, 22) = 0
  BY WholeParts
<1> QED BY <1>1 DEF Heard, Took, Listening

\* The chip takes the next bit of a vector.
LEMMA VectorBit ==
  ASSUME NEW V, NEW F, NEW m \in Nat, Table(V, F, m), NEW n \in Nat, NEW b \in Nat,
         n <= (b \div 22) + 1, b \div 22 < m, \A k \in n..m : Whole(F[k]),
         ChipTypeOK, InVector(F, n, b), ChipClock(BitOf(V, b + 1))
  PROVE  /\ UNCHANGED <<tMode, genuine, flash, security, wait>>
         /\ ~malformed => ~malformed'
         /\ b % 22 < 21 => InVector(F, n, b + 1)' /\ UNCHANGED <<phase, ram, reg>>
         /\ b % 22 = 21 =>
              LET f == F[(b \div 22) + 1] IN
              /\ len' = 0 /\ bits' = 0 /\ Written(F, n, (b \div 22) + 1)'
              /\ phase' = IF Starts(f) THEN "armed" ELSE "listening"
              /\ ram' = IF Opcode(f) = 4 /\ Address(f) \in RamUsed
                        THEN [ram EXCEPT ![Address(f)] = Value(f)] ELSE ram
              /\ reg' = IF Opcode(f) = 6 /\ Address(f) \in RegUsed
                        THEN [reg EXCEPT ![Address(f)] = Value(f)] ELSE reg
<1>1. PICK j \in Nat, i \in 0..21 : j = b \div 22 /\ i = b % 22 /\ b = 22 * j + i /\ j \in 0..(m - 1)
  OBVIOUS
<1>2. PICK X : X = F[j + 1]
  OBVIOUS
<1>3. Whole(X) /\ X \in Nat /\ BitAt(X, 21) = 1
  BY <1>1, <1>2, WholeParts
<1>4. PICK level : level = BitAt(X, 21 - i) /\ ChipClock(level)
  <2>1. BitOf(V, 22 * j + i + 1) = BitAt(F[j + 1], 21 - i)
    BY <1>1, TableBit
  <2> QED BY <1>1, <1>2, <2>1
<1>5. tMode = "prog" /\ Took(X, 22, i) /\ Written(F, n, j)
  BY <1>1, <1>2 DEF InVector, Heard
<1>6. CASE i < 21
  <2>1. PICK L \in 1..22, k \in 0..20 : L = 22 /\ k = i /\ k < L
    BY <1>6
  <2>2. level = BitAt(X, L - k - 1) /\ (k = 0 => BitAt(X, L - 1) = 1) /\ Took(X, L, k)
    BY <1>3, <1>4, <1>5, <2>1
  <2>3. Took(X, L, k + 1)' /\ UNCHANGED <<targetVars, wait, ram, reg, malformed>>
    BY <1>3, <1>4, <2>1, <2>2, TakesBit
  <2>4. Written(F, n, j)'
    BY <1>5, <2>3, WrittenKept
  <2>5. phase = "listening" /\ phase' = "listening"
    BY <1>5, <2>3 DEF Took
  <2>6. (b + 1) \div 22 = j /\ (b + 1) % 22 = i + 1
    BY <1>1, <1>6
  <2>7. Heard(F[((b + 1) \div 22) + 1], 22, (b + 1) % 22)'
    BY <1>2, <1>5, <2>1, <2>3, <2>6 DEF Heard, targetVars
  <2> QED BY <1>1, <1>6, <2>3, <2>4, <2>5, <2>6, <2>7 DEF InVector, targetVars
<1>7. CASE i = 21
  <2>1. Took(X, 22, 21) /\ level = BitAt(X, 0)
    BY <1>4, <1>5, <1>7
  <2>2. len' = 0 /\ bits' = 0 /\ Frame(X) /\ UNCHANGED <<genuine, flash, security, wait>>
    BY <1>3, <1>4, <2>1, TakesFrame
  <2>3. phase = "listening"
    BY <2>1 DEF Took
  <2>4. /\ UNCHANGED tMode
        /\ ~malformed => ~malformed'
        /\ phase' = IF Starts(X) THEN "armed" ELSE "listening"
        /\ ram' = IF Opcode(X) = 4 /\ Address(X) \in RamUsed
                   THEN [ram EXCEPT ![Address(X)] = Value(X)] ELSE ram
        /\ reg' = IF Opcode(X) = 6 /\ Address(X) \in RegUsed
                   THEN [reg EXCEPT ![Address(X)] = Value(X)] ELSE reg
    BY <1>3, <1>5, <2>2, <2>3, Obeyed
  <2>5. Written(F, n, j + 1)'
    <3>1. \A k \in n..(j + 1) : Whole(F[k])
      BY <1>1
    <3>2. ram \in [RamUsed -> Byte] /\ reg \in [RegUsed -> Byte] /\ n <= j + 1
      BY <1>1 DEF ChipTypeOK
    <3>3. /\ ram' = IF Opcode(F[j + 1]) = 4 /\ Address(F[j + 1]) \in RamUsed
                   THEN [ram EXCEPT ![Address(F[j + 1])] = Value(F[j + 1])] ELSE ram
          /\ reg' = IF Opcode(F[j + 1]) = 6 /\ Address(F[j + 1]) \in RegUsed
                   THEN [reg EXCEPT ![Address(F[j + 1])] = Value(F[j + 1])] ELSE reg
      BY <1>2, <2>4
    <3> QED BY <1>5, <3>1, <3>2, <3>3, FrameWritten
  <2>6. Written(F, n, (b \div 22) + 1)'
    BY <1>1, <2>5 DEF Written
  <2>7. F[(b \div 22) + 1] = X
    BY <1>1, <1>2
  <2> QED BY <1>1, <1>7, <2>2, <2>4, <2>6, <2>7
<1> QED BY <1>1, <1>6, <1>7

(***************************************************************************)
(* The chip stays well formed.                                             *)
(***************************************************************************)
\* Where the buffer, the words of a routine and the registers lie.
LEMMA RamParts ==
  /\ BlockSize \in 1..64 /\ SecuritySize \in 1..BlockSize
  /\ \A i \in 1..BlockSize : DataAddr(i) \in RamUsed /\ DataAddr(i) \in 128..191
  /\ {\hF8, \hF9, \hFA} \subseteq RamUsed /\ RamUsed \subseteq Byte
  /\ RegUsed \subseteq Byte /\ \hF0 \in RegUsed /\ \hF8 \in RegUsed /\ \hF9 \in RegUsed
  /\ \hEA \in RegUsed /\ \hE8 \in RegUsed
<1>1. BlockSize \in 1..64 /\ SecuritySize \in 1..BlockSize
  BY ProtocolAssumption, ChipAssumption DEF ProtocolAssumption, ChipAssumption
<1>2. \A i \in 1..BlockSize : DataAddr(i) \in RamUsed /\ DataAddr(i) \in 128..191
  BY <1>1 DEF DataAddr, RamUsed
<1>3. RamUsed \subseteq Byte
  BY <1>2 DEF RamUsed, Byte
<1> QED
  BY <1>1, <1>2, <1>3 DEF RamUsed, RegUsed, Byte

\* A frame keeps the chip well formed.
LEMMA FrameType ==
  ASSUME NEW f \in Nat, ChipTypeOK, Frame(f), phase = "listening"
  PROVE  /\ tMode' \in {"run", "prog"} /\ phase' \in {"listening", "armed", "deaf"}
         /\ ram' \in [RamUsed -> Byte] /\ reg' \in [RegUsed -> Byte]
         /\ malformed' \in BOOLEAN
<1>1. Value(f) \in Byte
  <2>1. PICK w : w = (f \div 8) % 256
    OBVIOUS
  <2>2. w \in 0..255
    BY <2>1
  <2> QED BY <2>1, <2>2 DEF Value, Byte
<1>2. ram \in [RamUsed -> Byte] /\ reg \in [RegUsed -> Byte] /\ malformed \in BOOLEAN /\ tMode \in {"run", "prog"}
  BY DEF ChipTypeOK, TargetTypeOK
<1>3. CASE Obey(f) /\ UNCHANGED tMode
  BY <1>1, <1>2, <1>3 DEF Obey
<1>4. CASE ~(Obey(f) /\ UNCHANGED tMode)
  BY <1>2, <1>4 DEF Frame
<1> QED BY <1>3, <1>4

\* So does a falling edge of SCLK, at either level of SDATA.
LEMMA ClockType ==
  ASSUME ChipTypeOK, Solid, NEW level \in {0, 1}, ChipClock(level)
  PROVE  ChipTypeOK' /\ Solid'
<1>t. /\ tMode \in {"run", "prog"} /\ genuine \in BOOLEAN /\ phase \in Phases /\ wait \in 0..40
      /\ len \in 0..21 /\ bits \in 0..(2^len - 1) /\ malformed \in BOOLEAN
      /\ ram \in [RamUsed -> Byte] /\ reg \in [RegUsed -> Byte]
      /\ flash \in [BlockIdx -> Block \cup {Erased, Damaged}] /\ security \in Security \cup {Erased, Damaged}
  BY DEF ChipTypeOK, TargetTypeOK
<1>n. bits \in Nat
  <2>1. PICK top : top = 2^len - 1
    OBVIOUS
  <2> QED BY <1>t, <2>1
<1>1. CASE phase = "listening"
  <2>1. Listen(level)
    BY <1>1 DEF ChipClock
  <2>2. CASE len = 21
    <3>1. len' = 0 /\ bits' = 0 /\ Frame(2 * bits + level) /\ UNCHANGED <<genuine, flash, security, wait>>
      BY <2>1, <2>2 DEF Listen
    <3>2. 2 * bits + level \in Nat
      BY <1>n
    <3>3. /\ tMode' \in {"run", "prog"} /\ phase' \in {"listening", "armed", "deaf"}
          /\ ram' \in [RamUsed -> Byte] /\ reg' \in [RegUsed -> Byte]
          /\ malformed' \in BOOLEAN
      BY <1>1, <3>1, <3>2, FrameType
    <3>4. bits' \in 0..(2^len' - 1)
      BY <3>1, NoBits
    <3>5. phase' \in Phases /\ len' \in 0..21
      BY <3>1, <3>3 DEF Phases
    <3> QED BY <1>t, <3>1, <3>3, <3>4, <3>5 DEF ChipTypeOK, TargetTypeOK, Solid
  <2>3. CASE len # 21
    <3>1. UNCHANGED <<phase, tMode, ram, reg, malformed, genuine, flash, security, wait>>
      BY <2>1, <2>3 DEF Listen
    <3>2. len' \in 0..21 /\ bits' \in 0..(2^len' - 1)
      <4>1. CASE UNCHANGED <<len, bits>>
        BY <1>t, <4>1
      <4>2. CASE len' = len + 1 /\ bits' = 2 * bits + level
        <5>1. len \in 0..20
          BY <1>t, <2>3
        <5>2. 2 * bits + level \in 0..(2^(len + 1) - 1)
          BY <1>t, <5>1, OneBitMore
        <5> QED BY <4>2, <5>1, <5>2
      <4> QED BY <2>1, <2>3, <4>1, <4>2 DEF Listen
    <3> QED BY <1>t, <3>1, <3>2 DEF ChipTypeOK, TargetTypeOK, Solid
  <2> QED BY <2>2, <2>3
<1>2. CASE phase = "armed"
  <2>1. Execution
    BY <1>2 DEF ChipClock
  <2>2. UNCHANGED <<targetVars, len, bits, ram, malformed>>
    BY <2>1 DEF Execution
  <2>3. phase' \in Phases /\ wait' \in 0..40 /\ (phase' \in {"low", "executing"} => wait' > 0)
    BY <1>t, <2>1 DEF Execution, Phases
  <2>4. reg' \in [RegUsed -> Byte]
    <3>1. CASE reg' = reg
      BY <1>t, <3>1
    <3>2. CASE Move
      BY <1>t, <3>2, RamParts DEF Move
    <3> QED BY <2>1, <3>1, <3>2 DEF Execution
  <2> QED BY <1>t, <2>2, <2>3, <2>4 DEF ChipTypeOK, TargetTypeOK, Solid, targetVars
<1>3. CASE phase \in {"low", "executing"}
  <2>1. CountDown
    BY <1>3 DEF ChipClock
  <2>2. wait > 0
    BY <1>3 DEF Solid
  <2>3. wait' \in 0..40 /\ (phase' \in {"low", "executing"} => wait' > 0) /\ phase' \in Phases
    BY <1>t, <2>1, <2>2 DEF CountDown, Phases
  <2>4. UNCHANGED <<targetVars, len, bits, ram, reg, malformed>>
    BY <2>1 DEF CountDown
  <2> QED BY <1>t, <2>3, <2>4 DEF ChipTypeOK, TargetTypeOK, Solid, targetVars
<1>4. CASE phase \notin {"listening", "armed", "low", "executing"}
  <2>1. UNCHANGED chipVars
    BY <1>4 DEF ChipClock
  <2> QED BY <1>t, <2>1 DEF ChipTypeOK, TargetTypeOK, Solid, chipVars, targetVars
<1> QED BY <1>1, <1>2, <1>3, <1>4

\* The chip drives SDATA low, high or not at all.
LEMMA DriveType ==
  ASSUME ChipTypeOK
  PROVE  Drives \in {0, 1, Nothing}
<1>1. CASE phase = "listening" /\ Reading
  <2>1. len \in 13..20
    BY <1>1 DEF Reading
  <2>2. ram \in [RamUsed -> Byte]
    BY DEF ChipTypeOK
  <2>3. PICK v \in Nat : v = IF ReadAddress \in RamUsed THEN ram[ReadAddress] \div 2^(20 - len) ELSE 0
    <3>1. CASE ReadAddress \in RamUsed
      <4>1. PICK x \in Nat, k \in 0..7 : x = ram[ReadAddress] /\ k = 20 - len
        BY <2>1, <2>2, <3>1 DEF Byte
      <4>2. k \in 0..21
        OBVIOUS
      <4>3. Upper(x, k) \in Nat
        BY <4>2, OneMore
      <4> QED BY <3>1, <4>1, <4>3 DEF Upper
    <3> QED BY <3>1
  <2>4. Drives = v % 2
    BY <1>1, <2>3 DEF Drives
  <2> QED BY <2>4
<1>2. CASE ~(phase = "listening" /\ Reading)
  BY <1>2 DEF Drives
<1> QED BY <1>1, <1>2

(***************************************************************************)
(* The routines: what each leaves, when the vectors queued what it needs.  *)
(***************************************************************************)
\* What the routine of a job does to the cells.
CellsAfter(job, b, d) ==
  /\ flash' = CASE job = "erase" -> Blank
                [] job = "blockProgram" -> [flash EXCEPT ![b] = d]
                [] OTHER -> flash
  /\ security' = CASE job = "erase" -> Erased
                   [] job = "securityFlash" -> SecurityPart(d)
                   [] OTHER -> security

\* The routines by name and number.
LEMMA JobNames ==
  /\ Jobs = {"init1", "init2", "siliconID", "erase", "blockProgram", "blockVerify",
             "securityFlash", "securityVerify", "bankChecksum"}
  /\ RoutineOf["init1"] = 9 /\ RoutineOf["init2"] = 6 /\ RoutineOf["siliconID"] = 6
  /\ RoutineOf["erase"] = 5 /\ RoutineOf["blockProgram"] = 2 /\ RoutineOf["blockVerify"] = 1
  /\ RoutineOf["securityFlash"] = 4 /\ RoutineOf["securityVerify"] = 16
  /\ RoutineOf["bankChecksum"] = 7
BY DEF Jobs, RoutineOf

\* What was loaded is what the routine finds in its buffer.
LEMMA BufferLoaded ==
  ASSUME NEW d, NEW n \in 1..BlockSize, Loaded(d, n)
  PROVE  \A i \in 1..n : Buffer[i] = d[i]
<1>1. n \in 1..64 /\ BlockSize \in 1..64
  BY RamParts
<1> QED BY <1>1 DEF Loaded, Buffer

\* What a routine read is what the buffer holds.
LEMMA WithBufferLoads ==
  ASSUME NEW d, NEW n \in 1..BlockSize, DOMAIN d = 1..n, ram' = WithBuffer(d)
  PROVE  Loaded(d, n)'
<1> SUFFICES ASSUME NEW i \in 1..n PROVE ram'[DataAddr(i)] = d[i]
  BY DEF Loaded
<1>1. BlockSize \in 1..64 /\ i \in 1..BlockSize /\ DataAddr(i) \in RamUsed
  BY RamParts
<1>2. DataAddr(i) - 127 = i
  BY <1>1 DEF DataAddr
<1>3. \E k \in DOMAIN d : DataAddr(i) = DataAddr(k)
  OBVIOUS
<1> QED BY <1>1, <1>2, <1>3 DEF WithBuffer

\* Bytes in the buffer leave the RAM well formed.
LEMMA WithBufferType ==
  ASSUME NEW d, NEW n \in 1..BlockSize, d \in [1..n -> Byte], ram \in [RamUsed -> Byte]
  PROVE  WithBuffer(d) \in [RamUsed -> Byte]
<1> SUFFICES ASSUME NEW a \in RamUsed, NEW k \in DOMAIN d, a = DataAddr(k) PROVE d[a - 127] \in Byte
  BY DEF WithBuffer
<1>1. n \in 1..64 /\ k \in 1..n
  BY RamParts
<1>2. a - 127 = k
  BY <1>1 DEF DataAddr
<1> QED BY <1>1, <1>2

\* A block of a chip in which no cell failed reads as bytes.
LEMMA ReadsType ==
  ASSUME Solid, NEW b \in BlockIdx
  PROVE  Reads(flash[b]) \in Block /\ flash[b] # Damaged
<1>1. flash[b] \in Block \cup {Erased}
  BY DEF Solid
<1>2. ZeroBlock \in Block
  BY DEF ZeroBlock, Block, Byte
<1> QED BY <1>1, <1>2, TargetAssumption DEF Reads, TargetAssumption

\* The security bytes are the first bytes of a block.
LEMMA PartType ==
  ASSUME NEW d \in Block
  PROVE  SecurityPart(d) \in Security
<1>1. SecuritySize \in 1..BlockSize /\ BlockSize \in 1..64
  BY RamParts
<1>2. \A i \in 1..SecuritySize : d[i] \in Byte
  BY <1>1 DEF Block
<1> QED BY <1>2 DEF SecurityPart, Security

\* The security bits of such a chip read as bytes.
LEMMA ProtectionType ==
  ASSUME Solid
  PROVE  ProtectionRead \in Security
<1>1. ZeroBlock \in Block
  BY DEF ZeroBlock, Block, Byte
<1>2. SecurityPart(ZeroBlock) \in Security
  BY <1>1, PartType
<1>3. security \in Security \cup {Erased}
  BY DEF Solid
<1> QED BY <1>2, <1>3 DEF ProtectionRead

\* The sum of such a chip is two bytes, as the routine leaves them.
LEMMA SumType ==
  ASSUME Solid
  PROVE  Sum \in Nat /\ Sum % 256 \in Byte /\ Sum \div 256 \in Byte
<1>1. [b \in BlockIdx |-> Reads(flash[b])] \in Image
  BY ReadsType DEF Image
<1>2. Sum \in Word
  BY <1>1, BankSumInWord DEF Sum
<1>3. PICK s \in Word : s = Sum
  BY <1>2
<1>4. s \in Nat /\ s % 256 \in 0..255 /\ s \div 256 \in 0..255
  <2>1. s \in Nat /\ s < 65536
    BY DEF Word
  <2> QED
    BY <2>1
<1> QED BY <1>3, <1>4, SMTT(30) DEF Byte

\* The words that the routines of the table of the chip return are bytes.
LEMMA SiliconType == Silicon \in Byte \X Byte /\ Trims \in Byte \X Byte
<1>1. target_id_v \in Byte \X Byte
  BY DEF target_id_v, Byte
<1> QED BY <1>1, ChipAssumption DEF ChipAssumption, Silicon

\* A routine keeps the types, whatever is queued.
LEMMA RoutineType ==
  ASSUME ChipTypeOK, Solid, FinishRoutine
  PROVE  ChipTypeOK' /\ Solid'
<1>t. /\ tMode \in {"run", "prog"} /\ genuine \in BOOLEAN
      /\ len \in 0..21 /\ bits \in 0..(2^len - 1) /\ malformed \in BOOLEAN
      /\ ram \in [RamUsed -> Byte] /\ reg \in [RegUsed -> Byte]
      /\ flash \in [BlockIdx -> Block \cup {Erased}] /\ security \in Security \cup {Erased}
  BY DEF ChipTypeOK, TargetTypeOK, Solid
<1>f. /\ phase' = "low" /\ wait' = 40 /\ UNCHANGED <<tMode, genuine, len, bits, reg, malformed>>
      /\ IF KeysSet THEN Routine(reg[\hF0]) ELSE UNCHANGED <<ram, flash, security>>
  BY DEF FinishRoutine
<1>b. Buffer \in Block
  <2>1. \A i \in 1..BlockSize : ram[DataAddr(i)] \in Byte
    BY <1>t, RamParts
  <2> QED BY <2>1 DEF Buffer, Block
<1>1. /\ ram' \in [RamUsed -> Byte] /\ flash' \in [BlockIdx -> Block \cup {Erased}]
      /\ security' \in Security \cup {Erased}
  <2>1. CASE KeysSet
    <3>1. PICK n : n = reg[\hF0] /\ Routine(n)
      BY <1>f, <2>1
    <3>2. Fetched(n) \in [RamUsed -> Byte]
      <4>1. ASSUME NEW x \in Byte, NEW y \in Byte PROVE WithWords(x, y) \in [RamUsed -> Byte]
        BY <1>t DEF WithWords
      <4>2. ASSUME BlockNumber \in BlockIdx PROVE WithBuffer(Reads(flash[BlockNumber])) \in [RamUsed -> Byte]
        <5>1. PICK d \in Block : d = Reads(flash[BlockNumber])
          BY <4>2, ReadsType
        <5>2. WithBuffer(d) \in [RamUsed -> Byte]
          <6>1. BlockSize \in 1..BlockSize /\ d \in [1..BlockSize -> Byte]
            BY RamParts DEF Block
          <6> QED BY <1>t, <6>1, WithBufferType
        <5> QED BY <5>1, <5>2
      <4>3. WithBuffer(ProtectionRead) \in [RamUsed -> Byte]
        <5>1. PICK d \in Security : d = ProtectionRead
          BY ProtectionType
        <5>2. WithBuffer(d) \in [RamUsed -> Byte]
          <6>1. SecuritySize \in 1..BlockSize /\ d \in [1..SecuritySize -> Byte]
            BY RamParts DEF Security
          <6> QED BY <1>t, <6>1, WithBufferType
        <5> QED BY <5>1, <5>2
      <4>4. WithWords(Trims[1], Trims[2]) \in [RamUsed -> Byte] /\ WithWords(Silicon[1], Silicon[2]) \in [RamUsed -> Byte]
        BY <4>1, SiliconType
      <4>5. WithWords(Sum % 256, Sum \div 256) \in [RamUsed -> Byte]
        BY <4>1, SumType
      <4> QED BY <1>t, <4>2, <4>3, <4>4, <4>5 DEF Fetched
    <3>3. ram' = Fetched(n)
      BY <3>1 DEF Routine
    <3>4. flash' \in [BlockIdx -> Block \cup {Erased}]
      <4>1. Blank \in [BlockIdx -> Block \cup {Erased}]
        BY DEF Blank
      <4> QED BY <1>t, <1>b, <3>1, <4>1 DEF Routine
    <3>5. security' \in Security \cup {Erased}
      <4>1. SecurityPart(Buffer) \in Security
        BY <1>b, PartType
      <4> QED BY <1>t, <3>1, <4>1 DEF Routine
    <3> QED BY <3>2, <3>3, <3>4, <3>5
  <2>2. CASE ~KeysSet
    BY <1>t, <1>f, <2>2
  <2> QED BY <2>1, <2>2
<1>2. flash' \in [BlockIdx -> Block \cup {Erased, Damaged}]
  BY <1>1
<1> QED BY <1>t, <1>f, <1>1, <1>2 DEF ChipTypeOK, TargetTypeOK, Solid, Phases

\* The routine of a job ends.
LEMMA Finishes ==
  ASSUME ChipTypeOK, Solid, NEW job \in Jobs, NEW b \in BlockIdx, NEW d \in Block,
         Queued(job, b, d), FinishRoutine
  PROVE  /\ Low(40)' /\ Effect(job, b, d)' /\ CellsAfter(job, b, d)
         /\ UNCHANGED <<tMode, genuine, malformed>>
<1>1. /\ tMode = "prog" /\ len = 0 /\ bits = 0 /\ Need(job, b, d) /\ KeysSet
      /\ reg[\hF0] = RoutineOf[job] /\ (job = "init2" => BlockNumber = 1)
      /\ (job = "siliconID" => BlockNumber = 0)
  BY DEF Queued
<1>2. /\ phase' = "low" /\ wait' = 40 /\ UNCHANGED <<tMode, genuine, len, bits, reg, malformed>>
      /\ Routine(RoutineOf[job])
  BY <1>1 DEF FinishRoutine
<1>3. Low(40)'
  BY <1>1, <1>2 DEF Low
<1>4. ram \in [RamUsed -> Byte] /\ flash \in [BlockIdx -> Block \cup {Erased}]
  BY DEF ChipTypeOK, Solid
<1>5. /\ \hF8 \in RamUsed /\ \hF9 \in RamUsed /\ BlockSize \in 1..64 /\ SecuritySize \in 1..64
      /\ SecuritySize \in 1..BlockSize /\ BlockSize \in 1..BlockSize
  BY RamParts
<1>6. ASSUME NEW x, NEW y, ram' = WithWords(x, y) PROVE ram'[\hF8] = x /\ ram'[\hF9] = y
  BY <1>4, <1>5, <1>6 DEF WithWords
<1>7. CASE job = "init1"
  <2>1. RoutineOf[job] = 9
    BY <1>7, JobNames
  <2> QED BY <1>2, <1>3, <1>7, <2>1 DEF Effect, CellsAfter, Routine
<1>8. CASE job = "init2"
  <2>1. RoutineOf[job] = 6
    BY <1>8, JobNames
  <2>2. ram' = WithWords(Trims[1], Trims[2])
    BY <1>1, <1>2, <1>8, <2>1 DEF Routine, Fetched
  <2> QED BY <1>2, <1>3, <1>6, <1>8, <2>1, <2>2 DEF Effect, CellsAfter, Routine
<1>9. CASE job = "siliconID"
  <2>1. RoutineOf[job] = 6
    BY <1>9, JobNames
  <2>2. ram' = WithWords(Silicon[1], Silicon[2])
    BY <1>1, <1>2, <1>9, <2>1 DEF Routine, Fetched
  <2>3. Silicon' = Silicon
    BY <1>2 DEF Silicon
  <2>4. Effect(job, b, d)'
    BY <1>6, <1>9, <2>2, <2>3 DEF Effect
  <2> QED BY <1>2, <1>3, <1>9, <2>1, <2>4 DEF CellsAfter, Routine
<1>10. CASE job = "erase"
  <2>1. RoutineOf[job] = 5
    BY <1>10, JobNames
  <2> QED BY <1>2, <1>3, <1>10, <2>1 DEF Effect, CellsAfter, Routine
<1>11. CASE job = "blockProgram"
  <2>1. RoutineOf[job] = 2 /\ BlockNumber = b /\ Loaded(d, BlockSize)
    BY <1>1, <1>11, JobNames DEF Need
  <2>2. Buffer = d
    <3>1. \A i \in 1..BlockSize : Buffer[i] = d[i]
      BY <1>5, <2>1, BufferLoaded
    <3>2. Buffer = [i \in 1..BlockSize |-> Buffer[i]] /\ d = [i \in 1..BlockSize |-> d[i]]
      BY DEF Buffer, Block
    <3> QED BY <3>1, <3>2
  <2>3. flash' = [flash EXCEPT ![b] = d] /\ security' = security
    BY <1>2, <2>1, <2>2 DEF Routine
  <2>4. flash'[b] = d
    BY <1>4, <2>3
  <2> QED BY <1>2, <1>3, <1>11, <2>3, <2>4 DEF Effect, CellsAfter
<1>12. CASE job = "blockVerify"
  <2>1. RoutineOf[job] = 1 /\ BlockNumber = b
    BY <1>1, <1>12, JobNames DEF Need
  <2>2. ram' = WithBuffer(Reads(flash[b])) /\ flash' = flash /\ security' = security
    BY <1>2, <2>1 DEF Routine, Fetched
  <2>3. PICK r \in Block : r = Reads(flash[b])
    BY ReadsType
  <2>4. DOMAIN r = 1..BlockSize /\ ram' = WithBuffer(r)
    BY <2>2, <2>3 DEF Block
  <2>5. Loaded(r, BlockSize)'
    BY <1>5, <2>4, WithBufferLoads
  <2>6. Effect(job, b, d)'
    BY <1>12, <2>2, <2>3, <2>5 DEF Effect, Loaded
  <2> QED BY <1>2, <1>3, <1>12, <2>2, <2>6 DEF CellsAfter
<1>13. CASE job = "securityFlash"
  <2>1. RoutineOf[job] = 4 /\ Loaded(d, SecuritySize)
    BY <1>1, <1>13, JobNames DEF Need
  <2>2. SecurityPart(Buffer) = SecurityPart(d)
    <3>1. \A i \in 1..SecuritySize : Buffer[i] = d[i]
      BY <1>5, <2>1, BufferLoaded
    <3> QED BY <3>1 DEF SecurityPart
  <2>3. security' = SecurityPart(d) /\ flash' = flash
    BY <1>2, <2>1, <2>2 DEF Routine
  <2> QED BY <1>2, <1>3, <1>13, <2>3 DEF Effect, CellsAfter
<1>14. CASE job = "securityVerify"
  <2>1. RoutineOf[job] = 16
    BY <1>14, JobNames
  <2>2. ram' = WithBuffer(ProtectionRead) /\ flash' = flash /\ security' = security
    BY <1>2, <2>1 DEF Routine, Fetched
  <2>3. PICK r \in Security : r = ProtectionRead
    BY ProtectionType
  <2>4. DOMAIN r = 1..SecuritySize /\ ram' = WithBuffer(r)
    BY <2>2, <2>3 DEF Security
  <2>5. Loaded(r, SecuritySize)'
    BY <1>5, <2>4, WithBufferLoads
  <2>6. ProtectionRead' = r
    BY <2>2, <2>3 DEF ProtectionRead
  <2>7. Effect(job, b, d)'
    BY <1>14, <2>5, <2>6 DEF Effect, Loaded
  <2> QED BY <1>2, <1>3, <1>14, <2>2, <2>7 DEF CellsAfter
<1>15. CASE job = "bankChecksum"
  <2>1. RoutineOf[job] = 7
    BY <1>15, JobNames
  <2>2. ram' = WithWords(Sum % 256, Sum \div 256) /\ flash' = flash /\ security' = security
    BY <1>2, <2>1 DEF Routine, Fetched
  <2>3. Sum' = Sum
    BY <2>2 DEF Sum
  <2>4. Effect(job, b, d)'
    BY <1>6, <1>15, <2>2, <2>3 DEF Effect
  <2> QED BY <1>2, <1>3, <1>15, <2>2, <2>4 DEF CellsAfter
<1> QED BY <1>7, <1>8, <1>9, <1>10, <1>11, <1>12, <1>13, <1>14, <1>15, JobNames

\* ... and the operation of Target it belongs to allows what it did.
LEMMA FinishIsOperation ==
  ASSUME NEW f \in Functions, NEW job \in JobsOf(f), NEW b \in BlockIdx, NEW d \in Block,
         tMode = "prog", CellsAfter(job, b, d), UNCHANGED <<tMode, genuine>>
  PROVE  Operation(f, b, d, FALSE)
<1>1. CASE f = "initialize"
  <2>1. job \in {"init1", "init2"}
    BY <1>1 DEF JobsOf
  <2> QED BY <1>1, <2>1 DEF CellsAfter, Operation, targetInitialize
<1>2. CASE f # "initialize"
  <2>1. job = f /\ job \in Jobs
    BY <1>2 DEF JobsOf
  <2>2. CASE job = "siliconID"
    BY <2>1, <2>2 DEF CellsAfter, Operation, targetSiliconIDVerify, targetVars
  <2>3. CASE job = "erase"
    BY <2>1, <2>3 DEF CellsAfter, Operation, targetErase, Answers
  <2>4. CASE job = "blockProgram"
    BY <2>1, <2>4 DEF CellsAfter, Operation, targetBlockProgram, Answers
  <2>5. CASE job = "blockVerify"
    BY <2>1, <2>5 DEF CellsAfter, Operation, targetBlockVerify, targetVars
  <2>6. CASE job = "securityFlash"
    BY <2>1, <2>6 DEF CellsAfter, Operation, targetSecurityFlash, Answers
  <2>7. CASE job = "securityVerify"
    BY <2>1, <2>7 DEF CellsAfter, Operation, targetSecurityVerify, targetVars
  <2>8. CASE job = "bankChecksum"
    BY <2>1, <2>8 DEF CellsAfter, Operation, targetBankChecksumGet, targetVars
  <2>9. job \notin {"init1", "init2"}
    BY <2>1 DEF Functions
  <2> QED BY <2>1, <2>2, <2>3, <2>4, <2>5, <2>6, <2>7, <2>8, <2>9, JobNames
<1> QED BY <1>1, <1>2

(***************************************************************************)
(* A vector, bit by bit.                                                   *)
(***************************************************************************)
\* Where a frame writes: opcode and address together.
Key(f) == f \div 2048

\* The place that starts the queue: register \hFF.
StartKey == 1791

\* A frame starts the queue when this is where it writes.
LEMMA StartsKey ==
  ASSUME NEW f, Whole(f)
  PROVE  Starts(f) <=> Key(f) = StartKey
<1>1. Key(f) = Opcode(f) * 256 + Address(f) /\ Opcode(f) \in {4, 6} /\ Address(f) \in 0..255
  BY WholeParts DEF Key, Byte
<1> QED BY <1>1 DEF Starts, StartKey

\* One more bit of a vector: inside a frame nothing is written; at the end of a frame it is, at the
\* frame's own place only; the frame that starts the queue arms the chip, every other one leaves it
\* listening for the next.
LEMMA NextVectorBit ==
  ASSUME NEW V, NEW F, NEW m \in Nat, Table(V, F, m), NEW n \in Nat, NEW b \in Nat,
         n <= (b \div 22) + 1, b \div 22 < m, \A k \in n..m : Whole(F[k]),
         ChipTypeOK, InVector(F, n, b), ChipClock(BitOf(V, b + 1))
  PROVE  /\ UNCHANGED <<tMode, genuine, flash, security, wait>>
         /\ ~malformed => ~malformed'
         /\ \A a \in RamUsed : Key(F[(b \div 22) + 1]) # 1024 + a => ram'[a] = ram[a]
         /\ \A a \in RegUsed : Key(F[(b \div 22) + 1]) # 1536 + a => reg'[a] = reg[a]
         /\ b % 22 < 21 => InVector(F, n, b + 1)'
         /\ b % 22 = 21 /\ Key(F[(b \div 22) + 1]) = StartKey =>
              phase' = "armed" /\ len' = 0 /\ bits' = 0 /\ Written(F, n, (b \div 22) + 1)'
         /\ b % 22 = 21 /\ Key(F[(b \div 22) + 1]) # StartKey =>
              phase' = "listening" /\ len' = 0 /\ bits' = 0 /\ Written(F, n, (b \div 22) + 1)'
         /\ b % 22 = 21 /\ Key(F[(b \div 22) + 1]) # StartKey /\ (b \div 22) + 1 < m =>
              InVector(F, n, b + 1)'
<1>0. PICK j \in Nat : j = b \div 22 /\ j < m /\ n <= j + 1
  OBVIOUS
<1>1. PICK f : j = b \div 22 /\ f = F[j + 1] /\ j < m /\ n <= j + 1
  BY <1>0
<1>2. Whole(f)
  BY <1>1
<1>3. /\ UNCHANGED <<tMode, genuine, flash, security, wait>>
      /\ ~malformed => ~malformed'
      /\ b % 22 < 21 => InVector(F, n, b + 1)' /\ UNCHANGED <<phase, ram, reg>>
      /\ b % 22 = 21 =>
              LET g == F[(b \div 22) + 1] IN
              /\ len' = 0 /\ bits' = 0 /\ Written(F, n, (b \div 22) + 1)'
              /\ phase' = IF Starts(g) THEN "armed" ELSE "listening"
              /\ ram' = IF Opcode(g) = 4 /\ Address(g) \in RamUsed
                        THEN [ram EXCEPT ![Address(g)] = Value(g)] ELSE ram
              /\ reg' = IF Opcode(g) = 6 /\ Address(g) \in RegUsed
                        THEN [reg EXCEPT ![Address(g)] = Value(g)] ELSE reg
  BY VectorBit
<1>4. ram \in [RamUsed -> Byte] /\ reg \in [RegUsed -> Byte] /\ b % 22 \in 0..21
  BY DEF ChipTypeOK
<1>5. Key(f) = Opcode(f) * 256 + Address(f)
  BY <1>2, WholeParts DEF Key
<1>6. F[(b \div 22) + 1] = f
  BY <1>1
<1>7. ASSUME NEW a \in RamUsed, Key(f) # 1024 + a PROVE ram'[a] = ram[a]
  <2>1. Opcode(f) = 4 => Address(f) # a
    BY <1>5, <1>7
  <2>2. ram' = ram \/ (Opcode(f) = 4 /\ ram' = [ram EXCEPT ![Address(f)] = Value(f)])
    BY <1>3, <1>4, <1>6
  <2> QED BY <1>4, <2>1, <2>2
<1>8. ASSUME NEW a \in RegUsed, Key(f) # 1536 + a PROVE reg'[a] = reg[a]
  <2>1. Opcode(f) = 6 => Address(f) # a
    BY <1>5, <1>8
  <2>2. reg' = reg \/ (Opcode(f) = 6 /\ reg' = [reg EXCEPT ![Address(f)] = Value(f)])
    BY <1>3, <1>4, <1>6
  <2> QED BY <1>4, <2>1, <2>2
<1>9. ASSUME b % 22 = 21
      PROVE  /\ len' = 0 /\ bits' = 0 /\ Written(F, n, (b \div 22) + 1)'
             /\ phase' = IF Key(f) = StartKey THEN "armed" ELSE "listening"
  BY <1>2, <1>3, <1>6, <1>9, StartsKey
<1>10. ASSUME b % 22 = 21, Key(f) # StartKey, j + 1 < m PROVE InVector(F, n, b + 1)'
  <2>1. (b + 1) \div 22 = j + 1 /\ (b + 1) % 22 = 0
    BY <1>1, <1>10
  <2>2. PICK g : g = F[j + 2]
    OBVIOUS
  <2>3. Whole(g) /\ Upper(g, 22) = 0
    <3>1. j + 2 \in n..m
      BY <1>1, <1>10
    <3> QED BY <2>2, <3>1, WholeParts
  <2>4. tMode' = "prog"
    BY <1>3 DEF InVector, Heard
  <2>5. Heard(F[j + 2], 22, 0)'
    BY <1>9, <1>10, <2>2, <2>3, <2>4 DEF Heard, Took
  <2>6. Written(F, n, j + 1)'
    BY <1>1, <1>9, <1>10
  <2>7. Heard(F[((b + 1) \div 22) + 1], 22, (b + 1) % 22)'
    <3>1. ((b + 1) \div 22) + 1 = j + 2
      BY <1>1, <2>1
    <3> QED BY <2>1, <2>5, <3>1 DEF Heard, Took
  <2>8. Written(F, n, (b + 1) \div 22)'
    BY <2>1, <2>6 DEF Written
  <2> QED BY <2>7, <2>8 DEF InVector
<1> QED BY <1>1, <1>3, <1>6, <1>7, <1>8, <1>9, <1>10

\* What a vector leaves in a byte of RAM, in a register.
Sets(F, n, m, f) == \E k \in n..m : F[k] = f /\ IsLast(F, k, m)

\* What the last frame of a vector for a byte of RAM wrote is there at the vector's end.
LEMMA SetsRam ==
  ASSUME NEW F, NEW n, NEW m, NEW a \in Byte, a \in RamUsed, NEW v \in Byte,
         Sets(F, n, m, ToRam(a, v)), Written(F, n, m)'
  PROVE  ram'[a] = v
<1>1. PICK k \in n..m : F[k] = ToRam(a, v) /\ IsLast(F, k, m)
  BY DEF Sets
<1>2. Holds(F[k])'
  BY <1>1 DEF Written
<1>3. PICK f : f = ToRam(a, v) /\ Opcode(f) = 4 /\ Address(f) = a /\ Value(f) = v
  BY InstructionParts DEF ToRam
<1> QED BY <1>1, <1>2, <1>3 DEF Holds, WriteRam

\* And for a register.
LEMMA SetsReg ==
  ASSUME NEW F, NEW n, NEW m, NEW a \in Byte, a \in RegUsed, NEW v \in Byte,
         Sets(F, n, m, ToReg(a, v)), Written(F, n, m)'
  PROVE  reg'[a] = v
<1>1. PICK k \in n..m : F[k] = ToReg(a, v) /\ IsLast(F, k, m)
  BY DEF Sets
<1>2. Holds(F[k])'
  BY <1>1 DEF Written
<1>3. PICK f : f = ToReg(a, v) /\ Opcode(f) = 6 /\ Address(f) = a /\ Value(f) = v
  BY InstructionParts DEF ToReg
<1> QED BY <1>1, <1>2, <1>3 DEF Holds, WriteReg, WriteRam

\* A vector that queues the routine of a job and starts it with its last frame.
QueuesJob(F, n, m, job) ==
  /\ Sets(F, n, m, ToRam(\hF8, \h3A)) /\ Sets(F, n, m, ToRam(\hF9, 3))
  /\ Sets(F, n, m, ToReg(\hF8, 0)) /\ Sets(F, n, m, ToReg(\hF0, RoutineOf[job]))
  /\ job = "init2" => Sets(F, n, m, ToRam(\hFA, 1))
  /\ job = "siliconID" => Sets(F, n, m, ToRam(\hFA, 0))

\* They leave the buffer alone, and the block number when it is the caller's.
Spares(F, n, m, job) ==
  \A k \in n..m : /\ Key(F[k]) \notin (1024 + 128)..(1024 + 191)
                  /\ job \in {"blockProgram", "blockVerify"} => Key(F[k]) # 1024 + \hFA

\* A vector: its frames from n on write, only the last starts the queue, and it queues its routine.
Vector(F, n, m, job) ==
  /\ \A k \in n..m : Whole(F[k]) /\ (Key(F[k]) = StartKey <=> k = m)
  /\ QueuesJob(F, n, m, job) /\ Spares(F, n, m, job)

\* At the end of a vector its routine is queued, with the keys it wants.
LEMMA QueuedByVector ==
  ASSUME NEW F, NEW n, NEW m, NEW job \in Jobs, QueuesJob(F, n, m, job), Written(F, n, m)'
  PROVE  /\ KeysSet' /\ reg'[\hF8] = 0 /\ reg'[\hF0] = RoutineOf[job]
         /\ (job = "init2" => BlockNumber = 1)' /\ (job = "siliconID" => BlockNumber = 0)'
<1>1. RoutineOf[job] \in Byte
  BY JobNames DEF Byte
<1>2. /\ \hF8 \in Byte /\ \hF9 \in Byte /\ \hFA \in Byte /\ \hF0 \in Byte
      /\ \h3A \in Byte /\ 3 \in Byte /\ 1 \in Byte /\ 0 \in Byte
  BY DEF Byte
<1>3. /\ \hF8 \in RamUsed /\ \hF9 \in RamUsed /\ \hFA \in RamUsed
      /\ \hF8 \in RegUsed /\ \hF0 \in RegUsed
  BY RamParts
<1>4. ram'[\hF8] = \h3A
  BY <1>2, <1>3, SetsRam DEF QueuesJob
<1>5. ram'[\hF9] = 3
  BY <1>2, <1>3, SetsRam DEF QueuesJob
<1>6. reg'[\hF8] = 0
  BY <1>2, <1>3, SetsReg DEF QueuesJob
<1>7. reg'[\hF0] = RoutineOf[job]
  BY <1>1, <1>2, <1>3, SetsReg DEF QueuesJob
<1>8. job = "init2" => ram'[\hFA] = 1
  BY <1>2, <1>3, SetsRam DEF QueuesJob
<1>9. job = "siliconID" => ram'[\hFA] = 0
  BY <1>2, <1>3, SetsRam DEF QueuesJob
<1> QED BY <1>4, <1>5, <1>6, <1>7, <1>8, <1>9 DEF KeysSet, BlockNumber

\* A frame that spares them leaves what the job needs.
LEMMA Spared ==
  ASSUME NEW key, key \notin (1024 + 128)..(1024 + 191),
         \A a \in RamUsed : key # 1024 + a => ram'[a] = ram[a]
  PROVE  \A i \in 1..BlockSize : ram'[DataAddr(i)] = ram[DataAddr(i)]
<1> SUFFICES ASSUME NEW i \in 1..BlockSize PROVE ram'[DataAddr(i)] = ram[DataAddr(i)]
  OBVIOUS
<1>1. DataAddr(i) \in RamUsed /\ DataAddr(i) \in 128..191
  BY RamParts
<1>2. key # 1024 + DataAddr(i)
  BY <1>1
<1> QED BY <1>1, <1>2

\* A vector that spares the buffer leaves what the routine needs.
LEMMA NeedKept ==
  ASSUME NEW job, NEW b, NEW d, Need(job, b, d),
         \A i \in 1..BlockSize : ram'[DataAddr(i)] = ram[DataAddr(i)],
         job \in {"blockProgram", "blockVerify"} => ram'[\hFA] = ram[\hFA]
  PROVE  Need(job, b, d)'
<1>1. SecuritySize \in 1..BlockSize /\ BlockSize \in 1..64
  BY RamParts
<1>2. \A n \in {BlockSize, SecuritySize} : Loaded(d, n) => Loaded(d, n)'
  BY <1>1 DEF Loaded
<1> QED BY <1>2 DEF Need, BlockNumber

(***************************************************************************)
(* The vectors of issp.c.                                                  *)
(***************************************************************************)
\* Where a frame of a table writes: a register, or
LEMMA RegFrame ==
  ASSUME NEW a \in Byte, NEW v \in Byte
  PROVE  Whole(ToReg(a, v)) /\ Key(ToReg(a, v)) = 1536 + a
  BY InstructionParts DEF ToReg, Key

\* a byte of RAM.
LEMMA RamFrame ==
  ASSUME NEW a \in Byte, NEW v \in Byte
  PROVE  Whole(ToRam(a, v)) /\ Key(ToRam(a, v)) = 1024 + a
  BY InstructionParts DEF ToRam, Key

\* The 12 frames of Init1Frames, from the 7th on, queue the routine of init1 and start it with the
\* last, and none of them disturbs the buffer.
LEMMA Init1Vector == Vector(Init1Frames, 7, 18, "init1")
<1> DEFINE F == Init1Frames
<1>1. /\ F[7] = ToReg(\hF7, \h00) /\ F[8] = ToReg(\hF6, \h00) /\ F[9] = ToRam(\hF8, \h3A)
      /\ F[10] = ToRam(\hF9, \h03) /\ F[11] = ToReg(\hF5, \h00) /\ F[12] = ToReg(\hF4, \h03)
      /\ F[13] = ToRam(\hFB, \h80) /\ F[14] = ToReg(\hF9, \h30) /\ F[15] = ToReg(\hFA, \h40)
      /\ F[16] = ToReg(\hF0, \h09) /\ F[17] = ToReg(\hF8, \h00) /\ F[18] = ToReg(\hFF, \h12)
  BY DEF Init1Frames
<1> HIDE DEF F
<1>2. {\h00, \h03, \h09, \h12, \h30, \h3A, \h40, \h80, \hF0, \hF4, \hF5, \hF6, \hF7, \hF8,
       \hF9, \hFA, \hFB, \hFF} \subseteq Byte
  BY DEF Byte
<1>3. /\ Whole(F[7]) /\ Whole(F[8]) /\ Whole(F[9]) /\ Whole(F[10]) /\ Whole(F[11]) /\ Whole(F[12])
      /\ Whole(F[13]) /\ Whole(F[14]) /\ Whole(F[15]) /\ Whole(F[16]) /\ Whole(F[17])
      /\ Whole(F[18])
  BY <1>1, <1>2, RegFrame, RamFrame
<1>4. /\ Key(F[7]) = 1783 /\ Key(F[8]) = 1782 /\ Key(F[9]) = 1272 /\ Key(F[10]) = 1273
      /\ Key(F[11]) = 1781 /\ Key(F[12]) = 1780 /\ Key(F[13]) = 1275 /\ Key(F[14]) = 1785
      /\ Key(F[15]) = 1786 /\ Key(F[16]) = 1776 /\ Key(F[17]) = 1784 /\ Key(F[18]) = 1791
  BY <1>1, <1>2, RegFrame, RamFrame
<1>5. \A k \in 7..18 : Whole(F[k])
  BY <1>3
<1>6. \A k \in 7..18 : /\ Key(F[k]) = StartKey <=> k = 18
                       /\ Key(F[k]) \notin (1024 + 128)..(1024 + 191)
  BY <1>4 DEF StartKey
<1>7. /\ IsLast(F, 9, 18) /\ IsLast(F, 10, 18) /\ IsLast(F, 17, 18) /\ IsLast(F, 16, 18)
  BY <1>4 DEF IsLast, Key
<1>8. QueuesJob(F, 7, 18, "init1")
  BY <1>1, <1>7, JobNames DEF QueuesJob, Sets
<1> QED BY <1>5, <1>6, <1>8 DEF Vector, Spares, F

\* The 13 frames of Init2Frames queue the routine of init2 and start it with the
\* last, and none of them disturbs the buffer.
LEMMA Init2Vector == Vector(Init2Frames, 1, 13, "init2")
<1> DEFINE F == Init2Frames
<1>1. /\ F[1] = ToReg(\hF7, \h00) /\ F[2] = ToReg(\hF6, \h00) /\ F[3] = ToRam(\hF8, \h3A)
      /\ F[4] = ToRam(\hF9, \h03) /\ F[5] = ToReg(\hF5, \h00) /\ F[6] = ToReg(\hF4, \h03)
      /\ F[7] = ToRam(\hFB, \h80) /\ F[8] = ToReg(\hF9, \h30) /\ F[9] = ToReg(\hFA, \h40)
      /\ F[10] = ToRam(\hFA, \h01) /\ F[11] = ToReg(\hF0, \h06) /\ F[12] = ToReg(\hF8, \h00)
      /\ F[13] = ToReg(\hFF, \h12)
  BY DEF Init2Frames
<1> HIDE DEF F
<1>2. {\h00, \h01, \h03, \h06, \h12, \h30, \h3A, \h40, \h80, \hF0, \hF4, \hF5, \hF6, \hF7,
       \hF8, \hF9, \hFA, \hFB, \hFF} \subseteq Byte
  BY DEF Byte
<1>3. /\ Whole(F[1]) /\ Whole(F[2]) /\ Whole(F[3]) /\ Whole(F[4]) /\ Whole(F[5]) /\ Whole(F[6])
      /\ Whole(F[7]) /\ Whole(F[8]) /\ Whole(F[9]) /\ Whole(F[10]) /\ Whole(F[11]) /\ Whole(F[12])
      /\ Whole(F[13])
  BY <1>1, <1>2, RegFrame, RamFrame
<1>4. /\ Key(F[1]) = 1783 /\ Key(F[2]) = 1782 /\ Key(F[3]) = 1272 /\ Key(F[4]) = 1273
      /\ Key(F[5]) = 1781 /\ Key(F[6]) = 1780 /\ Key(F[7]) = 1275 /\ Key(F[8]) = 1785
      /\ Key(F[9]) = 1786 /\ Key(F[10]) = 1274 /\ Key(F[11]) = 1776 /\ Key(F[12]) = 1784
      /\ Key(F[13]) = 1791
  BY <1>1, <1>2, RegFrame, RamFrame
<1>5. \A k \in 1..13 : Whole(F[k])
  BY <1>3
<1>6. \A k \in 1..13 : /\ Key(F[k]) = StartKey <=> k = 13
                       /\ Key(F[k]) \notin (1024 + 128)..(1024 + 191)
  BY <1>4 DEF StartKey
<1>7. /\ IsLast(F, 3, 13) /\ IsLast(F, 4, 13) /\ IsLast(F, 12, 13) /\ IsLast(F, 11, 13)
      /\ IsLast(F, 10, 13)
  BY <1>4 DEF IsLast, Key
<1>8. QueuesJob(F, 1, 13, "init2")
  BY <1>1, <1>7, JobNames DEF QueuesJob, Sets
<1> QED BY <1>5, <1>6, <1>8 DEF Vector, Spares, F

\* The 15 frames of IdSetupFrames queue the routine of siliconID and start it with the
\* last, and none of them disturbs the buffer.
LEMMA IdSetupVector == Vector(IdSetupFrames, 1, 15, "siliconID")
<1> DEFINE F == IdSetupFrames
<1>1. /\ F[1] = ToReg(\hF7, \h10) /\ F[2] = ToReg(\hE0, \h02) /\ F[3] = ToReg(\hF7, \h00)
      /\ F[4] = ToReg(\hF6, \h00) /\ F[5] = ToRam(\hF8, \h3A) /\ F[6] = ToRam(\hF9, \h03)
      /\ F[7] = ToReg(\hF5, \h00) /\ F[8] = ToReg(\hF4, \h03) /\ F[9] = ToRam(\hFB, \h80)
      /\ F[10] = ToReg(\hF9, \h30) /\ F[11] = ToReg(\hFA, \h40) /\ F[12] = ToRam(\hFA, \h00)
      /\ F[13] = ToReg(\hF0, \h06) /\ F[14] = ToReg(\hF8, \h00) /\ F[15] = ToReg(\hFF, \h12)
  BY DEF IdSetupFrames
<1> HIDE DEF F
<1>2. {\h00, \h02, \h03, \h06, \h10, \h12, \h30, \h3A, \h40, \h80, \hE0, \hF0, \hF4, \hF5,
       \hF6, \hF7, \hF8, \hF9, \hFA, \hFB, \hFF} \subseteq Byte
  BY DEF Byte
<1>3. /\ Whole(F[1]) /\ Whole(F[2]) /\ Whole(F[3]) /\ Whole(F[4]) /\ Whole(F[5]) /\ Whole(F[6])
      /\ Whole(F[7]) /\ Whole(F[8]) /\ Whole(F[9]) /\ Whole(F[10]) /\ Whole(F[11]) /\ Whole(F[12])
      /\ Whole(F[13]) /\ Whole(F[14]) /\ Whole(F[15])
  BY <1>1, <1>2, RegFrame, RamFrame
<1>4. /\ Key(F[1]) = 1783 /\ Key(F[2]) = 1760 /\ Key(F[3]) = 1783 /\ Key(F[4]) = 1782
      /\ Key(F[5]) = 1272 /\ Key(F[6]) = 1273 /\ Key(F[7]) = 1781 /\ Key(F[8]) = 1780
      /\ Key(F[9]) = 1275 /\ Key(F[10]) = 1785 /\ Key(F[11]) = 1786 /\ Key(F[12]) = 1274
      /\ Key(F[13]) = 1776 /\ Key(F[14]) = 1784 /\ Key(F[15]) = 1791
  BY <1>1, <1>2, RegFrame, RamFrame
<1>5. \A k \in 1..15 : Whole(F[k])
  BY <1>3
<1>6. \A k \in 1..15 : /\ Key(F[k]) = StartKey <=> k = 15
                       /\ Key(F[k]) \notin (1024 + 128)..(1024 + 191)
  BY <1>4 DEF StartKey
<1>7. /\ IsLast(F, 5, 15) /\ IsLast(F, 6, 15) /\ IsLast(F, 14, 15) /\ IsLast(F, 13, 15)
      /\ IsLast(F, 12, 15)
  BY <1>4 DEF IsLast, Key
<1>8. QueuesJob(F, 1, 15, "siliconID")
  BY <1>1, <1>7, JobNames DEF QueuesJob, Sets
<1> QED BY <1>5, <1>6, <1>8 DEF Vector, Spares, F

\* The 14 frames of EraseAllFrames queue the routine of erase and start it with the
\* last, and none of them disturbs the buffer.
LEMMA EraseAllVector == Vector(EraseAllFrames, 1, 14, "erase")
<1> DEFINE F == EraseAllFrames
<1>1. /\ F[1] = ToRam(\hFC, \h15) /\ F[2] = ToRam(\hFE, \h56) /\ F[3] = ToReg(\hF7, \h00)
      /\ F[4] = ToReg(\hF6, \h00) /\ F[5] = ToRam(\hF8, \h3A) /\ F[6] = ToRam(\hF9, \h03)
      /\ F[7] = ToReg(\hF5, \h00) /\ F[8] = ToReg(\hF4, \h03) /\ F[9] = ToRam(\hFB, \h80)
      /\ F[10] = ToReg(\hF9, \h30) /\ F[11] = ToReg(\hFA, \h40) /\ F[12] = ToReg(\hF0, \h05)
      /\ F[13] = ToReg(\hF8, \h00) /\ F[14] = ToReg(\hFF, \h12)
  BY DEF EraseAllFrames
<1> HIDE DEF F
<1>2. {\h00, \h03, \h05, \h12, \h15, \h30, \h3A, \h40, \h56, \h80, \hF0, \hF4, \hF5, \hF6,
       \hF7, \hF8, \hF9, \hFA, \hFB, \hFC, \hFE, \hFF} \subseteq Byte
  BY DEF Byte
<1>3. /\ Whole(F[1]) /\ Whole(F[2]) /\ Whole(F[3]) /\ Whole(F[4]) /\ Whole(F[5]) /\ Whole(F[6])
      /\ Whole(F[7]) /\ Whole(F[8]) /\ Whole(F[9]) /\ Whole(F[10]) /\ Whole(F[11]) /\ Whole(F[12])
      /\ Whole(F[13]) /\ Whole(F[14])
  BY <1>1, <1>2, RegFrame, RamFrame
<1>4. /\ Key(F[1]) = 1276 /\ Key(F[2]) = 1278 /\ Key(F[3]) = 1783 /\ Key(F[4]) = 1782
      /\ Key(F[5]) = 1272 /\ Key(F[6]) = 1273 /\ Key(F[7]) = 1781 /\ Key(F[8]) = 1780
      /\ Key(F[9]) = 1275 /\ Key(F[10]) = 1785 /\ Key(F[11]) = 1786 /\ Key(F[12]) = 1776
      /\ Key(F[13]) = 1784 /\ Key(F[14]) = 1791
  BY <1>1, <1>2, RegFrame, RamFrame
<1>5. \A k \in 1..14 : Whole(F[k])
  BY <1>3
<1>6. \A k \in 1..14 : /\ Key(F[k]) = StartKey <=> k = 14
                       /\ Key(F[k]) \notin (1024 + 128)..(1024 + 191)
  BY <1>4 DEF StartKey
<1>7. /\ IsLast(F, 5, 14) /\ IsLast(F, 6, 14) /\ IsLast(F, 13, 14) /\ IsLast(F, 12, 14)
  BY <1>4 DEF IsLast, Key
<1>8. QueuesJob(F, 1, 14, "erase")
  BY <1>1, <1>7, JobNames DEF QueuesJob, Sets
<1> QED BY <1>5, <1>6, <1>8 DEF Vector, Spares, F

\* The 14 frames of ProgramBlockFrames queue the routine of blockProgram and start it with the
\* last, and none of them disturbs the buffer or the block number.
LEMMA ProgramBlockVector == Vector(ProgramBlockFrames, 1, 14, "blockProgram")
<1> DEFINE F == ProgramBlockFrames
<1>1. /\ F[1] = ToRam(\hFC, \h54) /\ F[2] = ToRam(\hFE, \h56) /\ F[3] = ToReg(\hF7, \h00)
      /\ F[4] = ToReg(\hF6, \h00) /\ F[5] = ToRam(\hF8, \h3A) /\ F[6] = ToRam(\hF9, \h03)
      /\ F[7] = ToReg(\hF5, \h00) /\ F[8] = ToReg(\hF4, \h03) /\ F[9] = ToRam(\hFB, \h80)
      /\ F[10] = ToReg(\hF9, \h30) /\ F[11] = ToReg(\hFA, \h40) /\ F[12] = ToReg(\hF0, \h02)
      /\ F[13] = ToReg(\hF8, \h00) /\ F[14] = ToReg(\hFF, \h12)
  BY DEF ProgramBlockFrames
<1> HIDE DEF F
<1>2. {\h00, \h02, \h03, \h12, \h30, \h3A, \h40, \h54, \h56, \h80, \hF0, \hF4, \hF5, \hF6,
       \hF7, \hF8, \hF9, \hFA, \hFB, \hFC, \hFE, \hFF} \subseteq Byte
  BY DEF Byte
<1>3. /\ Whole(F[1]) /\ Whole(F[2]) /\ Whole(F[3]) /\ Whole(F[4]) /\ Whole(F[5]) /\ Whole(F[6])
      /\ Whole(F[7]) /\ Whole(F[8]) /\ Whole(F[9]) /\ Whole(F[10]) /\ Whole(F[11]) /\ Whole(F[12])
      /\ Whole(F[13]) /\ Whole(F[14])
  BY <1>1, <1>2, RegFrame, RamFrame
<1>4. /\ Key(F[1]) = 1276 /\ Key(F[2]) = 1278 /\ Key(F[3]) = 1783 /\ Key(F[4]) = 1782
      /\ Key(F[5]) = 1272 /\ Key(F[6]) = 1273 /\ Key(F[7]) = 1781 /\ Key(F[8]) = 1780
      /\ Key(F[9]) = 1275 /\ Key(F[10]) = 1785 /\ Key(F[11]) = 1786 /\ Key(F[12]) = 1776
      /\ Key(F[13]) = 1784 /\ Key(F[14]) = 1791
  BY <1>1, <1>2, RegFrame, RamFrame
<1>5. \A k \in 1..14 : Whole(F[k])
  BY <1>3
<1>6. \A k \in 1..14 : /\ Key(F[k]) = StartKey <=> k = 14
                       /\ Key(F[k]) \notin (1024 + 128)..(1024 + 191)
                       /\ Key(F[k]) # 1024 + \hFA
  BY <1>4 DEF StartKey
<1>7. /\ IsLast(F, 5, 14) /\ IsLast(F, 6, 14) /\ IsLast(F, 13, 14) /\ IsLast(F, 12, 14)
  BY <1>4 DEF IsLast, Key
<1>8. QueuesJob(F, 1, 14, "blockProgram")
  BY <1>1, <1>7, JobNames DEF QueuesJob, Sets
<1> QED BY <1>5, <1>6, <1>8 DEF Vector, Spares, F

\* The 12 frames of VerifySetupFrames queue the routine of blockVerify and start it with the
\* last, and none of them disturbs the buffer or the block number.
LEMMA VerifySetupVector == Vector(VerifySetupFrames, 1, 12, "blockVerify")
<1> DEFINE F == VerifySetupFrames
<1>1. /\ F[1] = ToReg(\hF7, \h00) /\ F[2] = ToReg(\hF6, \h00) /\ F[3] = ToRam(\hF8, \h3A)
      /\ F[4] = ToRam(\hF9, \h03) /\ F[5] = ToReg(\hF5, \h00) /\ F[6] = ToReg(\hF4, \h03)
      /\ F[7] = ToRam(\hFB, \h80) /\ F[8] = ToReg(\hF9, \h30) /\ F[9] = ToReg(\hFA, \h40)
      /\ F[10] = ToReg(\hF0, \h01) /\ F[11] = ToReg(\hF8, \h00) /\ F[12] = ToReg(\hFF, \h12)
  BY DEF VerifySetupFrames
<1> HIDE DEF F
<1>2. {\h00, \h01, \h03, \h12, \h30, \h3A, \h40, \h80, \hF0, \hF4, \hF5, \hF6, \hF7, \hF8,
       \hF9, \hFA, \hFB, \hFF} \subseteq Byte
  BY DEF Byte
<1>3. /\ Whole(F[1]) /\ Whole(F[2]) /\ Whole(F[3]) /\ Whole(F[4]) /\ Whole(F[5]) /\ Whole(F[6])
      /\ Whole(F[7]) /\ Whole(F[8]) /\ Whole(F[9]) /\ Whole(F[10]) /\ Whole(F[11]) /\ Whole(F[12])
  BY <1>1, <1>2, RegFrame, RamFrame
<1>4. /\ Key(F[1]) = 1783 /\ Key(F[2]) = 1782 /\ Key(F[3]) = 1272 /\ Key(F[4]) = 1273
      /\ Key(F[5]) = 1781 /\ Key(F[6]) = 1780 /\ Key(F[7]) = 1275 /\ Key(F[8]) = 1785
      /\ Key(F[9]) = 1786 /\ Key(F[10]) = 1776 /\ Key(F[11]) = 1784 /\ Key(F[12]) = 1791
  BY <1>1, <1>2, RegFrame, RamFrame
<1>5. \A k \in 1..12 : Whole(F[k])
  BY <1>3
<1>6. \A k \in 1..12 : /\ Key(F[k]) = StartKey <=> k = 12
                       /\ Key(F[k]) \notin (1024 + 128)..(1024 + 191)
                       /\ Key(F[k]) # 1024 + \hFA
  BY <1>4 DEF StartKey
<1>7. /\ IsLast(F, 3, 12) /\ IsLast(F, 4, 12) /\ IsLast(F, 11, 12) /\ IsLast(F, 10, 12)
  BY <1>4 DEF IsLast, Key
<1>8. QueuesJob(F, 1, 12, "blockVerify")
  BY <1>1, <1>7, JobNames DEF QueuesJob, Sets
<1> QED BY <1>5, <1>6, <1>8 DEF Vector, Spares, F

\* The 14 frames of SecurityFFrames queue the routine of securityFlash and start it with the
\* last, and none of them disturbs the buffer.
LEMMA SecurityFVector == Vector(SecurityFFrames, 1, 14, "securityFlash")
<1> DEFINE F == SecurityFFrames
<1>1. /\ F[1] = ToRam(\hFC, \h54) /\ F[2] = ToRam(\hFE, \h56) /\ F[3] = ToReg(\hF7, \h00)
      /\ F[4] = ToReg(\hF6, \h00) /\ F[5] = ToRam(\hF8, \h3A) /\ F[6] = ToRam(\hF9, \h03)
      /\ F[7] = ToReg(\hF5, \h00) /\ F[8] = ToReg(\hF4, \h03) /\ F[9] = ToRam(\hFB, \h80)
      /\ F[10] = ToReg(\hF9, \h30) /\ F[11] = ToReg(\hFA, \h40) /\ F[12] = ToReg(\hF0, \h04)
      /\ F[13] = ToReg(\hF8, \h00) /\ F[14] = ToReg(\hFF, \h12)
  BY DEF SecurityFFrames
<1> HIDE DEF F
<1>2. {\h00, \h03, \h04, \h12, \h30, \h3A, \h40, \h54, \h56, \h80, \hF0, \hF4, \hF5, \hF6,
       \hF7, \hF8, \hF9, \hFA, \hFB, \hFC, \hFE, \hFF} \subseteq Byte
  BY DEF Byte
<1>3. /\ Whole(F[1]) /\ Whole(F[2]) /\ Whole(F[3]) /\ Whole(F[4]) /\ Whole(F[5]) /\ Whole(F[6])
      /\ Whole(F[7]) /\ Whole(F[8]) /\ Whole(F[9]) /\ Whole(F[10]) /\ Whole(F[11]) /\ Whole(F[12])
      /\ Whole(F[13]) /\ Whole(F[14])
  BY <1>1, <1>2, RegFrame, RamFrame
<1>4. /\ Key(F[1]) = 1276 /\ Key(F[2]) = 1278 /\ Key(F[3]) = 1783 /\ Key(F[4]) = 1782
      /\ Key(F[5]) = 1272 /\ Key(F[6]) = 1273 /\ Key(F[7]) = 1781 /\ Key(F[8]) = 1780
      /\ Key(F[9]) = 1275 /\ Key(F[10]) = 1785 /\ Key(F[11]) = 1786 /\ Key(F[12]) = 1776
      /\ Key(F[13]) = 1784 /\ Key(F[14]) = 1791
  BY <1>1, <1>2, RegFrame, RamFrame
<1>5. \A k \in 1..14 : Whole(F[k])
  BY <1>3
<1>6. \A k \in 1..14 : /\ Key(F[k]) = StartKey <=> k = 14
                       /\ Key(F[k]) \notin (1024 + 128)..(1024 + 191)
  BY <1>4 DEF StartKey
<1>7. /\ IsLast(F, 5, 14) /\ IsLast(F, 6, 14) /\ IsLast(F, 13, 14) /\ IsLast(F, 12, 14)
  BY <1>4 DEF IsLast, Key
<1>8. QueuesJob(F, 1, 14, "securityFlash")
  BY <1>1, <1>7, JobNames DEF QueuesJob, Sets
<1> QED BY <1>5, <1>6, <1>8 DEF Vector, Spares, F

\* The 14 frames of SecurityVerificationFrames queue the routine of securityVerify and start it with the
\* last, and none of them disturbs the buffer.
LEMMA SecurityVerificationVector == Vector(SecurityVerificationFrames, 1, 14, "securityVerify")
<1> DEFINE F == SecurityVerificationFrames
<1>1. /\ F[1] = ToReg(\hF7, \h00) /\ F[2] = ToReg(\hF6, \h00) /\ F[3] = ToRam(\hF8, \h3A)
      /\ F[4] = ToRam(\hF9, \h03) /\ F[5] = ToRam(\hFD, \h00) /\ F[6] = ToRam(\hFF, \h00)
      /\ F[7] = ToReg(\hF5, \h00) /\ F[8] = ToReg(\hF4, \h03) /\ F[9] = ToRam(\hFB, \h80)
      /\ F[10] = ToReg(\hF9, \h30) /\ F[11] = ToReg(\hFA, \h40) /\ F[12] = ToReg(\hF0, \h10)
      /\ F[13] = ToReg(\hF8, \h00) /\ F[14] = ToReg(\hFF, \h12)
  BY DEF SecurityVerificationFrames
<1> HIDE DEF F
<1>2. {\h00, \h03, \h10, \h12, \h30, \h3A, \h40, \h80, \hF0, \hF4, \hF5, \hF6, \hF7, \hF8,
       \hF9, \hFA, \hFB, \hFD, \hFF} \subseteq Byte
  BY DEF Byte
<1>3. /\ Whole(F[1]) /\ Whole(F[2]) /\ Whole(F[3]) /\ Whole(F[4]) /\ Whole(F[5]) /\ Whole(F[6])
      /\ Whole(F[7]) /\ Whole(F[8]) /\ Whole(F[9]) /\ Whole(F[10]) /\ Whole(F[11]) /\ Whole(F[12])
      /\ Whole(F[13]) /\ Whole(F[14])
  BY <1>1, <1>2, RegFrame, RamFrame
<1>4. /\ Key(F[1]) = 1783 /\ Key(F[2]) = 1782 /\ Key(F[3]) = 1272 /\ Key(F[4]) = 1273
      /\ Key(F[5]) = 1277 /\ Key(F[6]) = 1279 /\ Key(F[7]) = 1781 /\ Key(F[8]) = 1780
      /\ Key(F[9]) = 1275 /\ Key(F[10]) = 1785 /\ Key(F[11]) = 1786 /\ Key(F[12]) = 1776
      /\ Key(F[13]) = 1784 /\ Key(F[14]) = 1791
  BY <1>1, <1>2, RegFrame, RamFrame
<1>5. \A k \in 1..14 : Whole(F[k])
  BY <1>3
<1>6. \A k \in 1..14 : /\ Key(F[k]) = StartKey <=> k = 14
                       /\ Key(F[k]) \notin (1024 + 128)..(1024 + 191)
  BY <1>4 DEF StartKey
<1>7. /\ IsLast(F, 3, 14) /\ IsLast(F, 4, 14) /\ IsLast(F, 13, 14) /\ IsLast(F, 12, 14)
  BY <1>4 DEF IsLast, Key
<1>8. QueuesJob(F, 1, 14, "securityVerify")
  BY <1>1, <1>7, JobNames DEF QueuesJob, Sets
<1> QED BY <1>5, <1>6, <1>8 DEF Vector, Spares, F

\* The 13 frames of ChecksumFrames queue the routine of bankChecksum and start it with the
\* last, and none of them disturbs the buffer.
LEMMA ChecksumVector == Vector(ChecksumFrames, 1, 13, "bankChecksum")
<1> DEFINE F == ChecksumFrames
<1>1. /\ F[1] = ToReg(\hF7, \h00) /\ F[2] = ToReg(\hF6, \h00) /\ F[3] = ToRam(\hF8, \h3A)
      /\ F[4] = ToRam(\hF9, \h03) /\ F[5] = ToReg(\hF5, \h00) /\ F[6] = ToReg(\hF4, \h03)
      /\ F[7] = ToRam(\hFB, \h80) /\ F[8] = ToReg(\hF9, \h30) /\ F[9] = ToReg(\hFA, \h40)
      /\ F[10] = ToRam(\hFA, \h00) /\ F[11] = ToReg(\hF0, \h07) /\ F[12] = ToReg(\hF8, \h00)
      /\ F[13] = ToReg(\hFF, \h12)
  BY DEF ChecksumFrames
<1> HIDE DEF F
<1>2. {\h00, \h03, \h07, \h12, \h30, \h3A, \h40, \h80, \hF0, \hF4, \hF5, \hF6, \hF7, \hF8,
       \hF9, \hFA, \hFB, \hFF} \subseteq Byte
  BY DEF Byte
<1>3. /\ Whole(F[1]) /\ Whole(F[2]) /\ Whole(F[3]) /\ Whole(F[4]) /\ Whole(F[5]) /\ Whole(F[6])
      /\ Whole(F[7]) /\ Whole(F[8]) /\ Whole(F[9]) /\ Whole(F[10]) /\ Whole(F[11]) /\ Whole(F[12])
      /\ Whole(F[13])
  BY <1>1, <1>2, RegFrame, RamFrame
<1>4. /\ Key(F[1]) = 1783 /\ Key(F[2]) = 1782 /\ Key(F[3]) = 1272 /\ Key(F[4]) = 1273
      /\ Key(F[5]) = 1781 /\ Key(F[6]) = 1780 /\ Key(F[7]) = 1275 /\ Key(F[8]) = 1785
      /\ Key(F[9]) = 1786 /\ Key(F[10]) = 1274 /\ Key(F[11]) = 1776 /\ Key(F[12]) = 1784
      /\ Key(F[13]) = 1791
  BY <1>1, <1>2, RegFrame, RamFrame
<1>5. \A k \in 1..13 : Whole(F[k])
  BY <1>3
<1>6. \A k \in 1..13 : /\ Key(F[k]) = StartKey <=> k = 13
                       /\ Key(F[k]) \notin (1024 + 128)..(1024 + 191)
  BY <1>4 DEF StartKey
<1>7. /\ IsLast(F, 3, 13) /\ IsLast(F, 4, 13) /\ IsLast(F, 12, 13) /\ IsLast(F, 11, 13)
  BY <1>4 DEF IsLast, Key
<1>8. QueuesJob(F, 1, 13, "bankChecksum")
  BY <1>1, <1>7, JobNames DEF QueuesJob, Sets
<1> QED BY <1>5, <1>6, <1>8 DEF Vector, Spares, F

\* The frames of init3_3v that queue one move.
Piece(F, n, m, x, y) ==
  /\ \A k \in n..m : /\ Whole(F[k]) /\ (Key(F[k]) = StartKey <=> k = m)
                     /\ Key(F[k]) \notin {1024 + \hF8, 1024 + \hF9, 1536 + \hF0, 1536 + \hEA, 1536 + \hE8}
  /\ Sets(F, n, m, ToReg(\hF8, x)) /\ Sets(F, n, m, ToReg(\hF9, y))

\* Frames 1 to 8 of init3_3v queue "mov A, [\hF8]" and start it.
LEMMA Piece1 == Piece(Init3Frames, 1, 8, \h51, \hF8)
<1> DEFINE F == Init3Frames
<1>1. /\ F[1] = ToReg(\hF7, \h00) /\ F[2] = ToReg(\hF4, \h03) /\ F[3] = ToReg(\hF5, \h00)
      /\ F[4] = ToReg(\hF6, \h08) /\ F[5] = ToReg(\hF8, \h51) /\ F[6] = ToReg(\hF9, \hF8)
      /\ F[7] = ToReg(\hFA, \h30) /\ F[8] = ToReg(\hFF, \h12)
  BY DEF Init3Frames
<1> HIDE DEF F
<1>2. {\h00, \h03, \h08, \h12, \h30, \h51, \hF4, \hF5, \hF6, \hF7, \hF8, \hF9, \hFA, \hFF} \subseteq Byte
  BY DEF Byte
<1>3. /\ Whole(F[1]) /\ Whole(F[2]) /\ Whole(F[3]) /\ Whole(F[4]) /\ Whole(F[5]) /\ Whole(F[6])
      /\ Whole(F[7]) /\ Whole(F[8])
  BY <1>1, <1>2, RegFrame, RamFrame
<1>4. /\ Key(F[1]) = 1783 /\ Key(F[2]) = 1780 /\ Key(F[3]) = 1781 /\ Key(F[4]) = 1782
      /\ Key(F[5]) = 1784 /\ Key(F[6]) = 1785 /\ Key(F[7]) = 1786 /\ Key(F[8]) = 1791
  BY <1>1, <1>2, RegFrame, RamFrame
<1>5. \A k \in 1..8 : Whole(F[k])
  BY <1>3
<1>6. \A k \in 1..8 :
        /\ Key(F[k]) = StartKey <=> k = 8
        /\ Key(F[k]) \notin {1024 + \hF8, 1024 + \hF9, 1536 + \hF0, 1536 + \hEA, 1536 + \hE8}
  BY <1>4 DEF StartKey
<1>7. /\ IsLast(F, 5, 8) /\ IsLast(F, 6, 8)
  BY <1>4 DEF IsLast, Key
<1>8. Sets(F, 1, 8, ToReg(\hF8, \h51)) /\ Sets(F, 1, 8, ToReg(\hF9, \hF8))
  BY <1>1, <1>7 DEF Sets
<1> QED BY <1>5, <1>6, <1>8 DEF Piece, F

\* Frames 10 to 18 of init3_3v queue "mov reg[\hEA], A" and start it.
LEMMA Piece2 == Piece(Init3Frames, 10, 18, \h60, \hEA)
<1> DEFINE F == Init3Frames
<1>1. /\ F[10] = ToReg(\hF7, \h00) /\ F[11] = ToReg(\hF4, \h03) /\ F[12] = ToReg(\hF5, \h00)
      /\ F[13] = ToReg(\hF6, \h08) /\ F[14] = ToReg(\hF8, \h60) /\ F[15] = ToReg(\hF9, \hEA)
      /\ F[16] = ToReg(\hFA, \h30) /\ F[17] = ToReg(\hF7, \h10) /\ F[18] = ToReg(\hFF, \h12)
  BY DEF Init3Frames
<1> HIDE DEF F
<1>2. {\h00, \h03, \h08, \h10, \h12, \h30, \h60, \hEA, \hF4, \hF5, \hF6, \hF7, \hF8, \hF9,
       \hFA, \hFF} \subseteq Byte
  BY DEF Byte
<1>3. /\ Whole(F[10]) /\ Whole(F[11]) /\ Whole(F[12]) /\ Whole(F[13]) /\ Whole(F[14])
      /\ Whole(F[15]) /\ Whole(F[16]) /\ Whole(F[17]) /\ Whole(F[18])
  BY <1>1, <1>2, RegFrame, RamFrame
<1>4. /\ Key(F[10]) = 1783 /\ Key(F[11]) = 1780 /\ Key(F[12]) = 1781 /\ Key(F[13]) = 1782
      /\ Key(F[14]) = 1784 /\ Key(F[15]) = 1785 /\ Key(F[16]) = 1786 /\ Key(F[17]) = 1783
      /\ Key(F[18]) = 1791
  BY <1>1, <1>2, RegFrame, RamFrame
<1>5. \A k \in 10..18 : Whole(F[k])
  BY <1>3
<1>6. \A k \in 10..18 :
        /\ Key(F[k]) = StartKey <=> k = 18
        /\ Key(F[k]) \notin {1024 + \hF8, 1024 + \hF9, 1536 + \hF0, 1536 + \hEA, 1536 + \hE8}
  BY <1>4 DEF StartKey
<1>7. /\ IsLast(F, 14, 18) /\ IsLast(F, 15, 18)
  BY <1>4 DEF IsLast, Key
<1>8. Sets(F, 10, 18, ToReg(\hF8, \h60)) /\ Sets(F, 10, 18, ToReg(\hF9, \hEA))
  BY <1>1, <1>7 DEF Sets
<1> QED BY <1>5, <1>6, <1>8 DEF Piece, F

\* Frames 20 to 27 of init3_3v queue "mov A, [\hF9]" and start it.
LEMMA Piece3 == Piece(Init3Frames, 20, 27, \h51, \hF9)
<1> DEFINE F == Init3Frames
<1>1. /\ F[20] = ToReg(\hF7, \h00) /\ F[21] = ToReg(\hF4, \h03) /\ F[22] = ToReg(\hF5, \h00)
      /\ F[23] = ToReg(\hF6, \h08) /\ F[24] = ToReg(\hF8, \h51) /\ F[25] = ToReg(\hF9, \hF9)
      /\ F[26] = ToReg(\hFA, \h30) /\ F[27] = ToReg(\hFF, \h12)
  BY DEF Init3Frames
<1> HIDE DEF F
<1>2. {\h00, \h03, \h08, \h12, \h30, \h51, \hF4, \hF5, \hF6, \hF7, \hF8, \hF9, \hFA, \hFF} \subseteq Byte
  BY DEF Byte
<1>3. /\ Whole(F[20]) /\ Whole(F[21]) /\ Whole(F[22]) /\ Whole(F[23]) /\ Whole(F[24])
      /\ Whole(F[25]) /\ Whole(F[26]) /\ Whole(F[27])
  BY <1>1, <1>2, RegFrame, RamFrame
<1>4. /\ Key(F[20]) = 1783 /\ Key(F[21]) = 1780 /\ Key(F[22]) = 1781 /\ Key(F[23]) = 1782
      /\ Key(F[24]) = 1784 /\ Key(F[25]) = 1785 /\ Key(F[26]) = 1786 /\ Key(F[27]) = 1791
  BY <1>1, <1>2, RegFrame, RamFrame
<1>5. \A k \in 20..27 : Whole(F[k])
  BY <1>3
<1>6. \A k \in 20..27 :
        /\ Key(F[k]) = StartKey <=> k = 27
        /\ Key(F[k]) \notin {1024 + \hF8, 1024 + \hF9, 1536 + \hF0, 1536 + \hEA, 1536 + \hE8}
  BY <1>4 DEF StartKey
<1>7. /\ IsLast(F, 24, 27) /\ IsLast(F, 25, 27)
  BY <1>4 DEF IsLast, Key
<1>8. Sets(F, 20, 27, ToReg(\hF8, \h51)) /\ Sets(F, 20, 27, ToReg(\hF9, \hF9))
  BY <1>1, <1>7 DEF Sets
<1> QED BY <1>5, <1>6, <1>8 DEF Piece, F

\* Frames 29 to 37 of init3_3v queue "mov reg[\hE8], A" and start it.
LEMMA Piece4 == Piece(Init3Frames, 29, 37, \h60, \hE8)
<1> DEFINE F == Init3Frames
<1>1. /\ F[29] = ToReg(\hF7, \h00) /\ F[30] = ToReg(\hF4, \h03) /\ F[31] = ToReg(\hF5, \h00)
      /\ F[32] = ToReg(\hF6, \h08) /\ F[33] = ToReg(\hF8, \h60) /\ F[34] = ToReg(\hF9, \hE8)
      /\ F[35] = ToReg(\hFA, \h30) /\ F[36] = ToReg(\hF7, \h10) /\ F[37] = ToReg(\hFF, \h12)
  BY DEF Init3Frames
<1> HIDE DEF F
<1>2. {\h00, \h03, \h08, \h10, \h12, \h30, \h60, \hE8, \hF4, \hF5, \hF6, \hF7, \hF8, \hF9,
       \hFA, \hFF} \subseteq Byte
  BY DEF Byte
<1>3. /\ Whole(F[29]) /\ Whole(F[30]) /\ Whole(F[31]) /\ Whole(F[32]) /\ Whole(F[33])
      /\ Whole(F[34]) /\ Whole(F[35]) /\ Whole(F[36]) /\ Whole(F[37])
  BY <1>1, <1>2, RegFrame, RamFrame
<1>4. /\ Key(F[29]) = 1783 /\ Key(F[30]) = 1780 /\ Key(F[31]) = 1781 /\ Key(F[32]) = 1782
      /\ Key(F[33]) = 1784 /\ Key(F[34]) = 1785 /\ Key(F[35]) = 1786 /\ Key(F[36]) = 1783
      /\ Key(F[37]) = 1791
  BY <1>1, <1>2, RegFrame, RamFrame
<1>5. \A k \in 29..37 : Whole(F[k])
  BY <1>3
<1>6. \A k \in 29..37 :
        /\ Key(F[k]) = StartKey <=> k = 37
        /\ Key(F[k]) \notin {1024 + \hF8, 1024 + \hF9, 1536 + \hF0, 1536 + \hEA, 1536 + \hE8}
  BY <1>4 DEF StartKey
<1>7. /\ IsLast(F, 33, 37) /\ IsLast(F, 34, 37)
  BY <1>4 DEF IsLast, Key
<1>8. Sets(F, 29, 37, ToReg(\hF8, \h60)) /\ Sets(F, 29, 37, ToReg(\hF9, \hE8))
  BY <1>1, <1>7 DEF Sets
<1> QED BY <1>5, <1>6, <1>8 DEF Piece, F

(***************************************************************************)
(* Where the program stands says which of its steps may come: that of the  *)
(* call it is making, or the return when no call is left.  The chip's own  *)
(* step may come at any time.                                              *)
(***************************************************************************)
Kinds == {"pp", "hiz", "clock", "receive", "poll", "reset", "send", "data", "block", "compare", "id"}

\* A function makes one call at a time.
LEMMA DoingOne ==
  ASSUME WireTypeOK, NEW x \in Kinds, Doing(x)
  PROVE  running /\ call # Len(Calls[fn]) /\ \A y \in Kinds : y # x => ~Doing(y)
BY DEF Doing, WireTypeOK

\* The call each step belongs to.
LEMMA StepNeeds ==
  /\ sdataPP => Doing("pp")
  /\ sdataHiZ => Doing("hiz")
  /\ clockOnce => Doing("clock")
  /\ bitReceive => Doing("receive")
  /\ sawHigh \/ sawLow \/ pollTimeout => Doing("poll")
  /\ resetTarget => Doing("reset")
  /\ sendBit => Doing("send") \/ Doing("data") \/ Doing("block")
  /\ check => Doing("compare") \/ Doing("id")
  /\ Begin => ~running
  /\ returnOK => call = Len(Calls[fn])
BY DEF sdataPP, sdataHiZ, clockOnce, bitReceive, sawHigh, sawLow, pollTimeout, resetTarget,
       sendBit, Sends, check, Begin, returnOK

\* At a call of kind "pp".
LEMMA AtPP ==
  ASSUME WireTypeOK, Doing("pp"), Next
  PROVE  sdataPP \/ ChipStep
<1>1. running /\ call # Len(Calls[fn]) /\ \A y \in Kinds : y # "pp" => ~Doing(y)
  BY DoingOne DEF Kinds
<1> QED BY <1>1, StepNeeds DEF Next, Kinds

\* At a call of kind "hiz".
LEMMA AtHiZ ==
  ASSUME WireTypeOK, Doing("hiz"), Next
  PROVE  sdataHiZ \/ ChipStep
<1>1. running /\ call # Len(Calls[fn]) /\ \A y \in Kinds : y # "hiz" => ~Doing(y)
  BY DoingOne DEF Kinds
<1> QED BY <1>1, StepNeeds DEF Next, Kinds

\* At a call of kind "clock".
LEMMA AtClock ==
  ASSUME WireTypeOK, Doing("clock"), Next
  PROVE  clockOnce \/ ChipStep
<1>1. running /\ call # Len(Calls[fn]) /\ \A y \in Kinds : y # "clock" => ~Doing(y)
  BY DoingOne DEF Kinds
<1> QED BY <1>1, StepNeeds DEF Next, Kinds

\* At a call of kind "receive".
LEMMA AtReceive ==
  ASSUME WireTypeOK, Doing("receive"), Next
  PROVE  bitReceive \/ ChipStep
<1>1. running /\ call # Len(Calls[fn]) /\ \A y \in Kinds : y # "receive" => ~Doing(y)
  BY DoingOne DEF Kinds
<1> QED BY <1>1, StepNeeds DEF Next, Kinds

\* At a call of kind "poll".
LEMMA AtPoll ==
  ASSUME WireTypeOK, Doing("poll"), Next
  PROVE  sawHigh \/ sawLow \/ pollTimeout \/ ChipStep
<1>1. running /\ call # Len(Calls[fn]) /\ \A y \in Kinds : y # "poll" => ~Doing(y)
  BY DoingOne DEF Kinds
<1> QED BY <1>1, StepNeeds DEF Next, Kinds

\* At a call of kind "reset".
LEMMA AtReset ==
  ASSUME WireTypeOK, Doing("reset"), Next
  PROVE  resetTarget \/ ChipStep
<1>1. running /\ call # Len(Calls[fn]) /\ \A y \in Kinds : y # "reset" => ~Doing(y)
  BY DoingOne DEF Kinds
<1> QED BY <1>1, StepNeeds DEF Next, Kinds

\* At a call of kind "send".
LEMMA AtSend ==
  ASSUME WireTypeOK, Doing("send"), Next
  PROVE  sendBit \/ ChipStep
<1>1. running /\ call # Len(Calls[fn]) /\ \A y \in Kinds : y # "send" => ~Doing(y)
  BY DoingOne DEF Kinds
<1> QED BY <1>1, StepNeeds DEF Next, Kinds

\* At a call of kind "data".
LEMMA AtData ==
  ASSUME WireTypeOK, Doing("data"), Next
  PROVE  sendBit \/ ChipStep
<1>1. running /\ call # Len(Calls[fn]) /\ \A y \in Kinds : y # "data" => ~Doing(y)
  BY DoingOne DEF Kinds
<1> QED BY <1>1, StepNeeds DEF Next, Kinds

\* At a call of kind "block".
LEMMA AtBlock ==
  ASSUME WireTypeOK, Doing("block"), Next
  PROVE  sendBit \/ ChipStep
<1>1. running /\ call # Len(Calls[fn]) /\ \A y \in Kinds : y # "block" => ~Doing(y)
  BY DoingOne DEF Kinds
<1> QED BY <1>1, StepNeeds DEF Next, Kinds

\* At a call of kind "compare".
LEMMA AtCompare ==
  ASSUME WireTypeOK, Doing("compare"), Next
  PROVE  check \/ ChipStep
<1>1. running /\ call # Len(Calls[fn]) /\ \A y \in Kinds : y # "compare" => ~Doing(y)
  BY DoingOne DEF Kinds
<1> QED BY <1>1, StepNeeds DEF Next, Kinds

\* At a call of kind "id".
LEMMA AtId ==
  ASSUME WireTypeOK, Doing("id"), Next
  PROVE  check \/ ChipStep
<1>1. running /\ call # Len(Calls[fn]) /\ \A y \in Kinds : y # "id" => ~Doing(y)
  BY DoingOne DEF Kinds
<1> QED BY <1>1, StepNeeds DEF Next, Kinds

\* And after the last call.
LEMMA AtEnd ==
  ASSUME WireTypeOK, running, call = Len(Calls[fn]), Next
  PROVE  returnOK \/ ChipStep
<1>1. \A y \in Kinds : ~Doing(y)
  <2>1. ~(call < Len(Calls[fn]))
    BY DEF WireTypeOK
  <2> QED BY <2>1 DEF Doing
<1> QED BY <1>1, StepNeeds DEF Next, Kinds

(***************************************************************************)
(* Sending a vector and waiting for the routine it queues.                 *)
(***************************************************************************)
\* No routine runs, so the chip does nothing between two edges.
Quiet == phase \notin {"working", "high"}

\* The function goes on; or gives up, with its arguments remembered.
Proceeds == running' = TRUE /\ UNCHANGED <<fn, dataOUT, blockNum, ok, failed>>

GivesUp == /\ running' = FALSE /\ ok' = FALSE /\ failed' = Arguments
           /\ UNCHANGED <<fn, dataOUT, blockNum>>

\* Then the step is the program's.
LEMMA QuietChip == ASSUME Quiet PROVE ~ChipStep
  BY DEF Quiet, ChipStep, RaiseSDATA, FinishRoutine

\* sdataPP(), sdataHiZ(), one bit of byteSend and one clock, when the chip is quiet.
LEMMA PPStep ==
  ASSUME WireTypeOK, Doing("pp"), Next, Quiet
  PROVE  /\ Proceeds /\ output' = TRUE /\ call' = call + 1 /\ bit' = 0
         /\ UNCHANGED <<chipVars, latch, sclk, received>>
<1>1. sdataPP /\ running
  BY AtPP, QuietChip DEF Doing
<1> QED BY <1>1 DEF sdataPP, NextCall, Proceeds

\* sdataHiZ lets the data line go and nothing else.
LEMMA HiZStep ==
  ASSUME WireTypeOK, Doing("hiz"), Next, Quiet
  PROVE  /\ Proceeds /\ output' = FALSE /\ call' = call + 1 /\ bit' = 0
         /\ UNCHANGED <<chipVars, latch, sclk, received>>
<1>1. sdataHiZ /\ running
  BY AtHiZ, QuietChip DEF Doing
<1> QED BY <1>1 DEF sdataHiZ, NextCall, Proceeds

\* A bit sent while the chip is quiet is the level the chip is clocked with.
LEMMA SendStep ==
  ASSUME WireTypeOK, NEW c \in Sends, Doing(c), Next, Quiet, output, Sending \in {0, 1}
  PROVE  /\ Proceeds /\ ChipClock(Sending) /\ NextBit /\ latch' = Sending /\ sclk' = 0
         /\ UNCHANGED <<output, received>>
<1>1. sendBit /\ running
  BY AtSend, AtData, AtBlock, QuietChip DEF Doing, Sends
<1>2. Level(Sending, Drives) = Sending
  BY DEF Level, Nothing
<1> QED BY <1>1, <1>2 DEF sendBit, Proceeds

\* A clock pulse clocks the chip with some level, and with 0 when nobody drives the line.
LEMMA ClockStep ==
  ASSUME WireTypeOK, Doing("clock"), Next, Quiet
  PROVE  /\ Proceeds /\ \E level \in {0, 1} : /\ ChipClock(level)
                                              /\ ~output /\ Drives = Nothing => level = 0
         /\ call' = call + 1 /\ bit' = 0 /\ sclk' = 0
         /\ UNCHANGED <<output, latch, received>>
<1>1. clockOnce /\ running
  BY AtClock, QuietChip DEF Doing
<1>2. Drives \in {0, 1, Nothing} /\ latch \in {0, 1}
  BY DriveType DEF WireTypeOK
<1>3. PICK level \in {0, 1} : level = Level(Driven, Drives) /\ (~output /\ Drives = Nothing => level = 0)
  BY <1>2 DEF Level, Driven, Nothing
<1> QED BY <1>1, <1>3 DEF clockOnce, NextCall, Proceeds

\* Where a vector is, said of the counter of bits.
LEMMA InVectorAt ==
  ASSUME NEW F, NEW n, NEW x, InVector(F, n, x)', bit' = x
  PROVE  InVector(F, n, bit)'
  BY DEF InVector, Heard, Took, Written

\* The same of the state before the step.
LEMMA InVectorHere ==
  ASSUME NEW F, NEW n, NEW x, InVector(F, n, bit), bit = x
  PROVE  InVector(F, n, x)
  BY DEF InVector, Heard, Took, Written

\* vectorSend of a vector that queues a routine, up to its last bit: the chip follows it frame by
\* frame, and is armed with the routine when the last bit has gone out.
LEMMA QueueStep ==
  ASSUME NEW c \in Nat, NEW V, NEW F, NEW m \in Nat \ {0}, NEW job \in Jobs,
         PollsAt(Calls[fn], c, V, 22 * m), Table(V, F, m), Vector(F, 1, m, job),
         WireTypeOK, Sound, running, call \in {c, c + 1}, Polled(c, F, m, job), Next
  PROVE  /\ Proceeds /\ call' \in {call, call + 1} /\ Polled(c, F, m, job)'
         /\ ~malformed' /\ UNCHANGED <<targetVars, received>>
<1>t. ChipTypeOK /\ bit \in Nat /\ ~malformed
  BY DEF WireTypeOK, Sound
<1>w. \A k \in 1..m : Whole(F[k]) /\ (Key(F[k]) = StartKey <=> k = m)
  BY DEF Vector
<1>1. CASE call = c
  <2>1. bit = 0 /\ Ready /\ Need(job, blockNum, dataOUT)
    BY <1>1 DEF Polled
  <2>2. Doing("pp") /\ Quiet
    BY <1>1, <2>1, SMTT(30) DEF PollsAt, Doing, Now, pp, Ready, Listening, Quiet
  <2>3. /\ Proceeds /\ output' = TRUE /\ call' = c + 1 /\ bit' = 0
        /\ UNCHANGED <<chipVars, latch, sclk, received>>
    BY <1>1, <2>2, PPStep
  <2>4. Need(job, blockNum, dataOUT)'
    BY <2>1, <2>3 DEF Need, Loaded, BlockNumber, chipVars, Proceeds
  <2>5. InVector(F, 1, bit)'
    <3>1. Whole(F[1])
      BY <1>w
    <3>2. Heard(F[1], 22, 0)
      BY <2>1, <3>1, FirstBit DEF Ready
    <3>3. Heard(F[1], 22, 0)'
      BY <2>3, <3>2 DEF Heard, Took, chipVars, targetVars
    <3>4. Written(F, 1, 0)'
      BY DEF Written
    <3>5. InVector(F, 1, 0)'
      BY <3>3, <3>4 DEF InVector
    <3> QED BY <2>3, <3>5, InVectorAt
  <2>6. Polled(c, F, m, job)'
    BY <2>3, <2>4, <2>5 DEF Polled
  <2> QED BY <1>1, <1>t, <2>3, <2>6 DEF chipVars
<1>2. CASE call = c + 1
  <2>1. output /\ bit < 22 * m /\ InVector(F, 1, bit) /\ Need(job, blockNum, dataOUT)
    BY <1>2 DEF Polled
  <2>2. Now = [do |-> "send", bytes |-> V, n |-> 22 * m] /\ Doing("send")
    BY <1>2, SMTT(30) DEF PollsAt, Doing, Now
  <2>3. Quiet /\ tMode = "prog"
    BY <2>1 DEF InVector, Heard, Took, Quiet
  <2>4. PICK b \in Nat : b = bit /\ b < 22 * m
    BY <1>t, <2>1
  <2>5. Sending = BitOf(V, b + 1) /\ BitOf(V, b + 1) \in {0, 1}
    <3>1. Sending = BitOf(V, b + 1)
      BY <2>2, <2>4 DEF Sending
    <3>2. V \in Seq(Byte) /\ 22 * m <= 8 * Len(V) /\ Len(V) \in Nat
      BY DEF Table
    <3>3. b + 1 \in 1..(8 * Len(V))
      BY <2>4, <3>2
    <3> QED BY <3>1, <3>2, <3>3, BitOfType
  <2>6. /\ Proceeds /\ ChipClock(Sending) /\ NextBit
        /\ UNCHANGED <<output, received>>
    <3>1. "send" \in Sends
      BY DEF Sends
    <3> QED BY <2>1, <2>2, <2>3, <2>5, <3>1, SendStep
  <2>7. ChipClock(BitOf(V, b + 1))
    BY <2>5, <2>6
  <2>8. InVector(F, 1, b)
    BY <2>1, <2>4, InVectorHere
  <2>9. b \div 22 < m /\ 1 <= (b \div 22) + 1 /\ (b \div 22) + 1 \in 1..m
    BY <2>4
  <2>10. /\ UNCHANGED <<tMode, genuine, flash, security, wait>>
         /\ ~malformed => ~malformed'
         /\ \A a \in RamUsed : Key(F[(b \div 22) + 1]) # 1024 + a => ram'[a] = ram[a]
         /\ b % 22 < 21 => InVector(F, 1, b + 1)'
         /\ b % 22 = 21 /\ Key(F[(b \div 22) + 1]) = StartKey =>
              phase' = "armed" /\ len' = 0 /\ bits' = 0 /\ Written(F, 1, (b \div 22) + 1)'
         /\ b % 22 = 21 /\ Key(F[(b \div 22) + 1]) # StartKey /\ (b \div 22) + 1 < m =>
              InVector(F, 1, b + 1)'
    BY <1>t, <1>w, <2>7, <2>8, <2>9, NextVectorBit
  <2>11. Need(job, blockNum, dataOUT)'
    <3>1. PICK key, x, d : key = Key(F[(b \div 22) + 1]) /\ x = blockNum /\ d = dataOUT
      OBVIOUS
    <3>2. /\ key \notin (1024 + 128)..(1024 + 191)
          /\ job \in {"blockProgram", "blockVerify"} => key # 1024 + \hFA
      BY <2>9, <3>1 DEF Vector, Spares
    <3>3. Need(job, x, d)
      BY <2>1, <3>1
    <3>4. Need(job, x, d)'
      <4>1. \A i \in 1..BlockSize : ram'[DataAddr(i)] = ram[DataAddr(i)]
        BY <2>10, <3>1, <3>2, Spared
      <4>2. job \in {"blockProgram", "blockVerify"} => ram'[\hFA] = ram[\hFA]
        BY <2>10, <3>1, <3>2, RamParts
      <4> QED BY <3>3, <4>1, <4>2, NeedKept
    <3> QED BY <2>6, <3>1, <3>4 DEF Need, Loaded, Proceeds
  <2>12. CASE b + 1 < 22 * m
    <3>1. bit' = b + 1 /\ call' = c + 1
      BY <1>2, <2>2, <2>4, <2>6, <2>12 DEF NextBit
    <3>2. InVector(F, 1, b + 1)'
      <4>1. CASE b % 22 < 21
        BY <2>10, <4>1
      <4>2. CASE b % 22 = 21
        <5>1. (b \div 22) + 1 < m
          BY <2>4, <2>12, <4>2
        <5>2. Key(F[(b \div 22) + 1]) # StartKey
          BY <1>w, <2>9, <5>1
        <5> QED BY <2>10, <4>2, <5>1, <5>2
      <4> QED BY <4>1, <4>2
    <3>3. InVector(F, 1, bit)'
      BY <3>1, <3>2, InVectorAt
    <3>4. Polled(c, F, m, job)'
      BY <2>1, <2>6, <2>11, <2>12, <3>1, <3>3 DEF Polled
    <3> QED BY <1>t, <1>2, <2>6, <2>10, <3>1, <3>4 DEF targetVars
  <2>13. CASE b + 1 = 22 * m
    <3>1. bit' = 0 /\ call' = c + 2
      BY <1>2, <2>2, <2>4, <2>6, <2>13 DEF NextBit, NextCall
    <3>2. b % 22 = 21 /\ (b \div 22) + 1 = m
      BY <2>4, <2>13
    <3>3. phase' = "armed" /\ len' = 0 /\ bits' = 0 /\ Written(F, 1, m)'
      <4>1. Key(F[m]) = StartKey
        BY <1>w
      <4>2. Written(F, 1, (b \div 22) + 1)' /\ phase' = "armed" /\ len' = 0 /\ bits' = 0
        BY <2>10, <3>2, <4>1
      <4> QED BY <3>2, <4>2 DEF Written
    <3>4. /\ KeysSet' /\ reg'[\hF8] = 0 /\ reg'[\hF0] = RoutineOf[job]
          /\ (job = "init2" => BlockNumber = 1)' /\ (job = "siliconID" => BlockNumber = 0)'
      BY <3>3, QueuedByVector DEF Vector
    <3>5. Queued(job, blockNum, dataOUT)'
      BY <2>3, <2>10, <2>11, <3>3, <3>4 DEF Queued
    <3>6. Polled(c, F, m, job)'
      BY <2>1, <2>6, <3>1, <3>3, <3>5 DEF Polled
    <3> QED BY <1>t, <1>2, <2>6, <2>10, <3>1, <3>6 DEF targetVars
  <2> QED BY <2>4, <2>12, <2>13
<1> QED BY <1>1, <1>2

\* What a routine left, and what is queued, stays while nothing of it changes.
LEMMA EffectKept ==
  ASSUME NEW job, Effect(job, blockNum, dataOUT), UNCHANGED <<ram, targetVars, blockNum, dataOUT>>
  PROVE  Effect(job, blockNum, dataOUT)'
<1>1. Silicon' = Silicon /\ ProtectionRead' = ProtectionRead /\ Sum' = Sum
  BY DEF Silicon, ProtectionRead, Sum, targetVars
<1> QED BY <1>1 DEF Effect, Loaded, targetVars

\* A queued routine stays queued while the chip's memory stays as it is.
LEMMA QueuedKept ==
  ASSUME NEW job, NEW b, NEW d, Queued(job, b, d), UNCHANGED <<tMode, len, bits, ram, reg>>
  PROVE  Queued(job, b, d)'
  BY DEF Queued, Need, Loaded, KeysSet, BlockNumber

\* The same, with the block and the data given by name.
LEMMA QueuedAt ==
  ASSUME NEW job, NEW b, NEW d, Queued(job, b, d)', blockNum' = b, dataOUT' = d
  PROVE  Queued(job, blockNum, dataOUT)'
  BY DEF Queued, Need, Loaded

\* An effect, with the block and the data given by name.
LEMMA EffectAt ==
  ASSUME NEW job, NEW b, NEW d, Effect(job, b, d)', blockNum' = b, dataOUT' = d
  PROVE  Effect(job, blockNum, dataOUT)'
  BY DEF Effect, Loaded

\* The arguments of a function: a block of the bank and the data of the image.
LEMMA Parameters ==
  ASSUME WireTypeOK
  PROVE  blockNum \in BlockIdx /\ dataOUT \in Block /\ dataOUT \in Data
  BY WireAssumption DEF WireTypeOK, WireAssumption

\* The forty zeros: the chip counts down.
LEMMA LowStep ==
  ASSUME NEW w \in 1..40, Low(w), ChipTypeOK, Sound, NEW level, ChipClock(level)
  PROVE  /\ IF w = 1 THEN Ready' ELSE Low(w - 1)'
         /\ UNCHANGED <<targetVars, ram, reg, malformed>>
<1>1. phase = "low" /\ len = 0 /\ bits = 0 /\ wait = w /\ tMode = "prog"
  BY DEF Low
<1>2. CountDown
  BY <1>1 DEF ChipClock
<1> QED BY <1>1, <1>2 DEF CountDown, Low, Ready, Listening, targetVars

\* The rest of a polled vector: the clock that runs the queue, transitionHiLoDetect and the forty
\* zeros.  The routine ends between two looks of the poll, and the poll may give up although it will.
LEMMA PollStep ==
  ASSUME NEW c \in Nat, NEW V, NEW L, NEW F, NEW m, NEW job \in Jobs,
         PollsAt(Calls[fn], c, V, L), WireTypeOK, Sound, running,
         call \in (c + 2)..(c + 7), Polled(c, F, m, job), Next
  PROVE  /\ ~malformed' /\ UNCHANGED received
         /\ \/ /\ Proceeds /\ call' \in {call, call + 1} /\ Polled(c, F, m, job)'
               /\ \/ UNCHANGED targetVars
                  \/ CellsAfter(job, blockNum, dataOUT) /\ tMode = "prog" /\ UNCHANGED <<tMode, genuine>>
            \/ /\ GivesUp /\ UNCHANGED chipVars
               /\ phase \in {"working", "high"} => Queued(job, blockNum, dataOUT)
<1>t. ChipTypeOK /\ bit \in Nat /\ ~malformed /\ Solid
  BY DEF WireTypeOK, Sound
<1>b. blockNum \in BlockIdx /\ dataOUT \in Block
  BY Parameters
<1>1. CASE call = c + 2
  <2>1. bit = 0 /\ output /\ phase = "armed" /\ Queued(job, blockNum, dataOUT)
    BY <1>1 DEF Polled
  <2>2. Doing("hiz") /\ Quiet
    <3>1. call + 1 = c + 3 /\ call < Len(Calls[fn])
      BY <1>1 DEF PollsAt
    <3>2. Now = hiz
      BY <3>1 DEF PollsAt, Now
    <3> QED BY <2>1, <3>1, <3>2 DEF Doing, hiz, Quiet
  <2>3. /\ Proceeds /\ output' = FALSE /\ call' = c + 3 /\ bit' = 0
        /\ UNCHANGED <<chipVars, latch, sclk, received>>
    BY <1>1, <2>2, HiZStep
  <2>4. Queued(job, blockNum, dataOUT)'
    BY <2>1, <2>3, QueuedKept, QueuedAt DEF chipVars, targetVars, Proceeds
  <2>5. Polled(c, F, m, job)'
    BY <2>1, <2>3, <2>4 DEF Polled, chipVars
  <2> QED BY <1>1, <1>t, <2>3, <2>5 DEF chipVars
<1>2. CASE call = c + 3
  <2>1. bit = 0 /\ ~output /\ phase = "armed" /\ Queued(job, blockNum, dataOUT)
    BY <1>2 DEF Polled
  <2>2. Doing("clock") /\ Quiet
    <3>1. call + 1 = c + 4 /\ call < Len(Calls[fn])
      BY <1>2 DEF PollsAt
    <3>2. Now = clock
      BY <3>1 DEF PollsAt, Now
    <3> QED BY <2>1, <3>1, <3>2 DEF Doing, clock, Quiet
  <2>3. /\ Proceeds /\ (\E level \in {0, 1} : ChipClock(level)) /\ call' = c + 4 /\ bit' = 0
        /\ UNCHANGED <<output, received>>
    BY <1>2, <2>2, ClockStep
  <2>4. Execution /\ reg[\hF8] = 0
    BY <2>1, <2>3 DEF ChipClock, Queued
  <2>5. phase' = "working" /\ UNCHANGED <<targetVars, len, bits, ram, reg, malformed>>
    BY <2>4 DEF Execution
  <2>6. Queued(job, blockNum, dataOUT)'
    BY <2>1, <2>3, <2>5, QueuedKept, QueuedAt DEF targetVars, Proceeds
  <2>7. Polled(c, F, m, job)'
    BY <2>1, <2>3, <2>5, <2>6 DEF Polled
  <2> QED BY <1>2, <1>t, <2>3, <2>5, <2>7
<1>3. CASE call = c + 4
  <2>1. /\ ~output /\ bit \in {0, 1}
        /\ \/ /\ phase \in {"working", "high"} /\ Queued(job, blockNum, dataOUT)
              /\ bit = 1 => phase = "high"
           \/ Low(40) /\ Effect(job, blockNum, dataOUT)
    BY <1>3 DEF Polled
  <2>2. Doing("poll")
    BY <1>3 DEF PollsAt, Doing, Now, poll
  <2>3. sawHigh \/ sawLow \/ pollTimeout \/ ChipStep
    BY <2>2, AtPoll
  <2>d. /\ phase = "working" => Level(Driven, Drives) = 0
        /\ phase = "high" => Level(Driven, Drives) = 1
        /\ Low(40) => Level(Driven, Drives) = 0
    BY <2>1 DEF Level, Driven, Drives, Low, Nothing
  <2>4. CASE sawHigh
    <3>1. /\ Level(Driven, Drives) = 1 /\ bit' = 1 /\ call' = call
          /\ Proceeds /\ UNCHANGED <<chipVars, output, received>>
      BY <2>4 DEF sawHigh, Proceeds
    <3>2. phase = "high" /\ Queued(job, blockNum, dataOUT)
      BY <2>1, <2>d, <3>1 DEF Low
    <3>3. Queued(job, blockNum, dataOUT)'
      BY <3>1, <3>2, QueuedKept, QueuedAt DEF chipVars, targetVars, Proceeds
    <3>4. Polled(c, F, m, job)'
      BY <1>3, <2>1, <3>1, <3>2, <3>3 DEF Polled, chipVars
    <3> QED BY <1>3, <1>t, <3>1, <3>4 DEF chipVars
  <2>5. CASE sawLow
    <3>1. /\ Level(Driven, Drives) = 0 /\ bit = 1 /\ bit' = 0 /\ call' = call + 1
          /\ Proceeds /\ UNCHANGED <<chipVars, output, received>>
      BY <2>5 DEF sawLow, NextCall, Proceeds
    <3>2. Low(40) /\ Effect(job, blockNum, dataOUT)
      BY <2>1, <2>d, <3>1
    <3>3. Low(40)' /\ Effect(job, blockNum, dataOUT)'
      BY <3>1, <3>2, EffectKept DEF chipVars, targetVars, Proceeds, Low
    <3>4. Polled(c, F, m, job)'
      BY <1>3, <2>1, <3>1, <3>3 DEF Polled
    <3> QED BY <1>3, <1>t, <3>1, <3>4 DEF chipVars
  <2>6. CASE pollTimeout
    <3>1. GivesUp /\ UNCHANGED <<chipVars, received>>
      BY <2>6 DEF pollTimeout, Return, GivesUp
    <3>2. phase \in {"working", "high"} => Queued(job, blockNum, dataOUT)
      BY <2>1 DEF Low
    <3> QED BY <1>t, <3>1, <3>2 DEF chipVars
  <2>7. CASE ChipStep
    <3>1. UNCHANGED progVars /\ (RaiseSDATA \/ FinishRoutine)
      BY <2>7 DEF ChipStep
    <3>2. Proceeds /\ call' = call /\ bit' = bit /\ UNCHANGED <<output, received>>
      BY <3>1 DEF progVars, Proceeds
    <3>3. CASE RaiseSDATA
      <4>1. /\ phase = "working" /\ phase' = "high"
            /\ UNCHANGED <<targetVars, wait, len, bits, ram, reg, malformed>>
        BY <3>3 DEF RaiseSDATA
      <4>2. Queued(job, blockNum, dataOUT)
        BY <2>1, <4>1 DEF Low
      <4>3. Queued(job, blockNum, dataOUT)'
        BY <3>2, <4>1, <4>2, QueuedKept, QueuedAt DEF targetVars, Proceeds
      <4>4. Polled(c, F, m, job)'
        BY <1>3, <2>1, <3>2, <4>1, <4>3 DEF Polled
      <4> QED BY <1>3, <1>t, <3>2, <4>1, <4>4
    <3>4. CASE FinishRoutine
      <4>1. phase = "high"
        BY <3>4 DEF FinishRoutine
      <4>2. Queued(job, blockNum, dataOUT)
        BY <2>1, <4>1 DEF Low
      <4>3. PICK b \in BlockIdx, d \in Block : b = blockNum /\ d = dataOUT
        BY <1>b
      <4>4. Queued(job, b, d)
        BY <4>2, <4>3
      <4>5. /\ Low(40)' /\ Effect(job, b, d)' /\ CellsAfter(job, b, d)
            /\ UNCHANGED <<tMode, genuine, malformed>>
        BY <1>t, <3>4, <4>4, Finishes
      <4>6. Effect(job, blockNum, dataOUT)'
        BY <3>2, <4>3, <4>5, EffectAt DEF Proceeds
      <4>7. CellsAfter(job, blockNum, dataOUT)
        BY <4>3, <4>5 DEF CellsAfter
      <4>8. Polled(c, F, m, job)'
        BY <1>3, <2>1, <3>2, <4>5, <4>6 DEF Polled
      <4>9. tMode = "prog"
        BY <4>2 DEF Queued
      <4> QED BY <1>3, <1>t, <3>2, <4>5, <4>7, <4>8, <4>9
    <3> QED BY <3>1, <3>3, <3>4
  <2> QED BY <2>3, <2>4, <2>5, <2>6, <2>7
<1>4. CASE call = c + 5
  <2>1. bit = 0 /\ ~output /\ Low(40) /\ Effect(job, blockNum, dataOUT)
    BY <1>4 DEF Polled
  <2>2. Doing("pp") /\ Quiet
    <3>1. call + 1 = c + 6 /\ call < Len(Calls[fn])
      BY <1>4 DEF PollsAt
    <3>2. Now = pp
      BY <3>1 DEF PollsAt, Now
    <3> QED BY <2>1, <3>1, <3>2 DEF Doing, pp, Low, Quiet
  <2>3. /\ Proceeds /\ output' = TRUE /\ call' = c + 6 /\ bit' = 0
        /\ UNCHANGED <<chipVars, latch, sclk, received>>
    BY <1>4, <2>2, PPStep
  <2>4. Low(40)' /\ Effect(job, blockNum, dataOUT)'
    BY <2>1, <2>3, EffectKept DEF chipVars, targetVars, Proceeds, Low
  <2>5. Low(40 - bit)'
    BY <2>3, <2>4 DEF Low
  <2>6. Polled(c, F, m, job)'
    BY <2>3, <2>4, <2>5 DEF Polled
  <2> QED BY <1>4, <1>t, <2>3, <2>6 DEF chipVars
<1>5. CASE call = c + 6
  <2>1. bit < 40 /\ output /\ Low(40 - bit) /\ Effect(job, blockNum, dataOUT)
    BY <1>5 DEF Polled
  <2>2. Now = [do |-> "send", bytes |-> wait_and_poll_end, n |-> 40] /\ Doing("send")
    BY <1>5 DEF PollsAt, Doing, Now
  <2>3. Quiet
    BY <2>1 DEF Low, Quiet
  <2>4. PICK b \in 0..39 : b = bit
    BY <1>t, <2>1
  <2>5. Sending = BitOf(wait_and_poll_end, b + 1) /\ Sending \in {0, 1}
    <3>1. Sending = BitOf(wait_and_poll_end, b + 1)
      BY <2>2, <2>4 DEF Sending
    <3>2. wait_and_poll_end \in Seq(Byte) /\ Len(wait_and_poll_end) = 5
      BY DEF wait_and_poll_end, Byte
    <3>3. b + 1 \in 1..(8 * Len(wait_and_poll_end))
      BY <3>2
    <3> QED BY <3>1, <3>2, <3>3, BitOfType
  <2>6. /\ Proceeds /\ ChipClock(Sending) /\ NextBit
        /\ UNCHANGED <<output, received>>
    <3>1. "send" \in Sends
      BY DEF Sends
    <3> QED BY <2>1, <2>2, <2>3, <2>5, <3>1, SendStep
  <2>7. PICK w \in 1..40 : w = 40 - b
    OBVIOUS
  <2>8. Low(w)
    BY <2>1, <2>4, <2>7
  <2>9. /\ IF w = 1 THEN Ready' ELSE Low(w - 1)'
        /\ UNCHANGED <<targetVars, ram, reg, malformed>>
    BY <1>t, <2>6, <2>8, LowStep
  <2>10. Effect(job, blockNum, dataOUT)'
    BY <2>1, <2>6, <2>9, EffectKept DEF Proceeds
  <2>11. CASE b = 39
    <3>1. bit' = 0 /\ call' = c + 7
      BY <1>5, <2>2, <2>4, <2>6, <2>11 DEF NextBit, NextCall
    <3>2. Polled(c, F, m, job)'
      BY <2>1, <2>6, <2>7, <2>9, <2>10, <2>11, <3>1 DEF Polled
    <3> QED BY <1>5, <1>t, <2>6, <2>9, <3>1, <3>2
  <2>12. CASE b # 39
    <3>1. bit' = b + 1 /\ call' = c + 6 /\ b + 1 < 40
      BY <1>5, <2>2, <2>4, <2>6, <2>12 DEF NextBit
    <3>2. Low(40 - bit)'
      BY <2>7, <2>9, <2>12, <3>1 DEF Low
    <3>3. Polled(c, F, m, job)'
      BY <2>1, <2>6, <2>10, <3>1, <3>2 DEF Polled
    <3> QED BY <1>5, <1>t, <2>6, <2>9, <3>1, <3>3
  <2> QED BY <2>11, <2>12
<1>6. CASE call = c + 7
  <2>1. bit = 0 /\ output /\ Ready /\ Effect(job, blockNum, dataOUT)
    BY <1>6 DEF Polled
  <2>2. Doing("hiz") /\ Quiet
    <3>1. call + 1 = c + 8 /\ call < Len(Calls[fn])
      BY <1>6 DEF PollsAt
    <3>2. Now = hiz
      BY <3>1 DEF PollsAt, Now
    <3> QED BY <2>1, <3>1, <3>2 DEF Doing, hiz, Ready, Listening, Quiet
  <2>3. /\ Proceeds /\ output' = FALSE /\ call' = c + 8 /\ bit' = 0
        /\ UNCHANGED <<chipVars, latch, sclk, received>>
    BY <1>6, <2>2, HiZStep
  <2>4. Ready' /\ Effect(job, blockNum, dataOUT)'
    BY <2>1, <2>3, EffectKept DEF chipVars, targetVars, Proceeds, Ready, Listening
  <2>5. Polled(c, F, m, job)'
    BY <2>3, <2>4 DEF Polled
  <2> QED BY <1>6, <1>t, <2>3, <2>5 DEF chipVars
<1> QED BY <1>1, <1>2, <1>3, <1>4, <1>5, <1>6

(***************************************************************************)
(* The calls of the functions that address the RAM.                        *)
(***************************************************************************)
\* The address set_block_number opens with; those of read_id_v and read_checksum_v.
LEMMA SetBlockSent == CarriesAddress(set_block_number, PutBlock, 0)
<1>1. set_block_number[1] = 159 /\ set_block_number[2] = 64 /\ 159 \in Byte /\ 64 \in Byte
  BY DEF set_block_number, Byte
<1>2. PutBlock = Join(159, 64) \div 32
  BY DEF PutBlock, Join
<1> QED BY <1>1, <1>2, SentFirst

\* Both parts of read_id_v carry the address of the register they read.
LEMMA ReadIDSent ==
  CarriesAddress(read_id_v, ReadID(\hF8), 0) /\ CarriesAddress(From(read_id_v, 2), ReadID(\hF9), 1)
<1>1. read_id_v[1] = 191 /\ read_id_v[2] = 0 /\ 191 \in Byte /\ 0 \in Byte
  BY DEF read_id_v, Byte
<1>2. From(read_id_v, 2)[1] = 223 /\ From(read_id_v, 2)[2] = 144 /\ 223 \in Byte /\ 144 \in Byte
  BY DEF read_id_v, Byte, From
<1>3. ReadID(\hF8) = Join(191, 0) \div 32 /\ 2048 + ReadID(\hF9) = Join(223, 144) \div 16 /\ ReadID(\hF9) \in Nat
  BY DEF ReadID, Join
<1> QED BY <1>1, <1>2, <1>3, SentFirst, SentLater

\* Both parts of read_checksum_v carry the address of the register they read.
LEMMA ReadChecksumSent ==
  CarriesAddress(read_checksum_v, ReadID(\hF9), 0) /\ CarriesAddress(From(read_checksum_v, 2), ReadID(\hF8), 1)
<1>1. read_checksum_v[1] = 191 /\ read_checksum_v[2] = 32 /\ 191 \in Byte /\ 32 \in Byte
  BY DEF read_checksum_v, Byte
<1>2. From(read_checksum_v, 2)[1] = 223 /\ From(read_checksum_v, 2)[2] = 128 /\ 223 \in Byte /\ 128 \in Byte
  BY DEF read_checksum_v, Byte, From
<1>3. ReadID(\hF9) = Join(191, 32) \div 32 /\ 2048 + ReadID(\hF8) = Join(223, 128) \div 16 /\ ReadID(\hF8) \in Nat
  BY DEF ReadID, Join
<1> QED BY <1>1, <1>2, <1>3, SentFirst, SentLater

\* The calls of targetLoad; of targetBlockVerify; of targetSecurityFlash; of targetSecurityVerify.
LEMMA LoadCalls ==
  LET C == Calls["load"] IN
  /\ Len(C) = 1 + 4 * BlockSize /\ C[1] = pp
  /\ \A q \in 0..(BlockSize - 1) : WritesAt(C, 1 + 4 * q, q + 1)
<1>1. Calls["load"] = WriteBytes(BlockSize)
  BY DEF Calls, Functions, loadCalls
<1>2. BlockSize \in Nat
  BY RamParts
<1> QED BY <1>1, <1>2, WriteBytesCalls

\* blockVerify selects the block, polls, and then reads BlockSize bytes, 14 calls each.
LEMMA BlockVerifyCalls ==
  LET C == Calls["blockVerify"] IN
  /\ Len(C) = 14 + 14 * BlockSize /\ SelectsAt(C, 0) /\ PollsAt(C, 6, verify_setup_v, 264)
  /\ \A q \in 0..(BlockSize - 1) : ComparesAt(C, 14 + 14 * q, q + 1)
<1> DEFINE C == Calls["blockVerify"]
<1> DEFINE A == SelectBlock \o vectorSend(verify_setup_v, 264) \o Execute
<1> DEFINE B == ReadBytes(BlockSize)
<1>0. C = A \o B
  BY DEF Calls, Functions, blockVerifyCalls
<1>1. Len(A) = 14 /\ A = [i \in 1..14 |-> A[i]]
  BY DEF SelectBlock, vectorSend, Execute
<1>2. /\ A[1] = pp /\ A[2] = [do |-> "send", bytes |-> set_block_number, n |-> 11]
      /\ A[3] = hiz /\ A[4] = pp /\ A[5] = [do |-> "block", n |-> 8] /\ A[6] = byteSend(\hE0, 3)
  BY DEF SelectBlock, vectorSend, Execute
<1>3. /\ A[7] = pp /\ A[8] = [do |-> "send", bytes |-> verify_setup_v, n |-> 264] /\ A[9] = hiz
      /\ A[10] = clock /\ A[11] = poll
      /\ A[12] = pp /\ A[13] = [do |-> "send", bytes |-> wait_and_poll_end, n |-> 40] /\ A[14] = hiz
  BY DEF SelectBlock, vectorSend, Execute
<1>4. B = [i \in 1..(14 * BlockSize) |-> B[i]]
  BY DEF ReadBytes
<1> HIDE DEF A
<1>5. BlockSize \in Nat /\ 14 * BlockSize \in Nat
  BY RamParts
<1>6. /\ Len(B) = 14 * BlockSize
      /\ \A q \in 0..(BlockSize - 1) : ComparesAt(B, 14 * q, q + 1)
  BY <1>5, ReadBytesCalls
<1> HIDE DEF B
<1>7. /\ Len(A \o B) = 14 + 14 * BlockSize
      /\ \A i \in 1..14 : (A \o B)[i] = A[i]
      /\ \A i \in 1..(14 * BlockSize) : (A \o B)[14 + i] = B[i]
  BY <1>1, <1>4, <1>5, Joined, SMTT(30)
<1> HIDE DEF C
<1>8. Len(C) = 14 + 14 * BlockSize /\ (\A i \in 1..14 : C[i] = A[i])
  BY <1>0, <1>7
<1>9. SelectsAt(C, 0)
  BY <1>2, <1>5, <1>8 DEF SelectsAt
<1>10. PollsAt(C, 6, verify_setup_v, 264)
  BY <1>3, <1>5, <1>8 DEF PollsAt
<1>11. ASSUME NEW q \in 0..(BlockSize - 1) PROVE ComparesAt(C, 14 + 14 * q, q + 1)
  <2>1. ASSUME NEW r \in 1..14 PROVE C[14 + 14 * q + r] = B[14 * q + r]
    <3>1. 14 * q + r \in 1..(14 * BlockSize) /\ 14 + 14 * q + r = 14 + (14 * q + r)
      BY <1>5
    <3> QED BY <1>0, <1>7, <3>1
  <2>2. ComparesAt(B, 14 * q, q + 1)
    BY <1>6
  <2>3. 14 + 14 * q + 14 <= Len(C) /\ Len(C) \in Nat
    BY <1>5, <1>8
  <2>4. PICK x, y : x = 14 * q /\ y = 14 + 14 * q
    OBVIOUS
  <2>5. ComparesAt(B, x, q + 1) /\ (\A r \in 1..14 : C[y + r] = B[x + r]) /\ y + 14 <= Len(C) /\ Len(C) \in Nat
    BY <2>1, <2>2, <2>3, <2>4
  <2>6. ComparesAt(C, y, q + 1)
    BY <2>5, ComparesMoved
  <2> QED BY <2>4, <2>6
<1> QED BY <1>8, <1>9, <1>10, <1>11 DEF C

\* securityFlash writes its bytes, 4 calls each, and then polls.
LEMMA SecurityFlashCalls ==
  LET C == Calls["securityFlash"] IN
  /\ Len(C) = 9 + 4 * SecuritySize /\ C[1] = pp
  /\ \A q \in 0..(SecuritySize - 1) : WritesAt(C, 1 + 4 * q, q + 1)
  /\ PollsAt(C, 1 + 4 * SecuritySize, security_v, 308)
<1> DEFINE C == Calls["securityFlash"]
<1> DEFINE A == WriteBytes(SecuritySize)
<1> DEFINE B == vectorSend(security_v, 308) \o Execute
<1> DEFINE m == 1 + 4 * SecuritySize
<1>n. SecuritySize \in Nat /\ m \in Nat
  BY RamParts
<1>0. C = A \o B
  <2>1. C = A \o vectorSend(security_v, 308) \o Execute
    BY DEF Calls, Functions, securityFlashCalls
  <2> QED BY <2>1, <1>n, WriteBytesSeq, Associates, SMTT(30)
<1>1. Len(B) = 8 /\ B = [i \in 1..8 |-> B[i]]
  BY DEF vectorSend, Execute
<1>2. /\ B[1] = pp /\ B[2] = [do |-> "send", bytes |-> security_v, n |-> 308] /\ B[3] = hiz
      /\ B[4] = clock /\ B[5] = poll
      /\ B[6] = pp /\ B[7] = [do |-> "send", bytes |-> wait_and_poll_end, n |-> 40] /\ B[8] = hiz
  BY DEF vectorSend, Execute
<1> HIDE DEF B
<1>3. A = [i \in 1..m |-> A[i]]
  BY <1>n, WriteBytesSeq
<1>4. /\ Len(A) = m /\ A[1] = pp
      /\ \A q \in 0..(SecuritySize - 1) : WritesAt(A, 1 + 4 * q, q + 1)
  BY <1>n, WriteBytesCalls
<1> HIDE DEF A, C
<1>5. /\ Len(C) = m + 8
      /\ \A i \in 1..m : C[i] = A[i]
      /\ \A i \in 1..8 : C[m + i] = B[i]
  <2>1. PICK k \in Nat : k = m
    BY <1>n
  <2>2. A = [i \in 1..k |-> A[i]]
    BY <1>3, <2>1
  <2>3. Len(A \o B) = k + 8 /\ (\A i \in 1..k : (A \o B)[i] = A[i]) /\ \A i \in 1..8 : (A \o B)[k + i] = B[i]
    <3>1. PICK e \in Nat : e = 8
      OBVIOUS
    <3>2. B = [i \in 1..e |-> B[i]]
      BY <1>1, <3>1
    <3>3. Len(A \o B) = k + e /\ (\A i \in 1..k : (A \o B)[i] = A[i]) /\ \A i \in 1..e : (A \o B)[k + i] = B[i]
      BY <2>2, <3>2, Joined
    <3> QED BY <3>1, <3>3
  <2> QED BY <1>0, <2>1, <2>3
<1>6. PollsAt(C, m, security_v, 308)
  BY <1>n, <1>2, <1>5 DEF PollsAt
<1>7. ASSUME NEW q \in 0..(SecuritySize - 1) PROVE WritesAt(C, 1 + 4 * q, q + 1)
  <2>1. ASSUME NEW r \in 1..4 PROVE C[1 + 4 * q + r] = A[1 + 4 * q + r]
    BY <1>n, <1>5
  <2>2. WritesAt(A, 1 + 4 * q, q + 1)
    BY <1>4
  <2>3. PICK x : x = 1 + 4 * q
    OBVIOUS
  <2>4. /\ WritesAt(A, x, q + 1) /\ C[x + 1] = A[x + 1] /\ C[x + 2] = A[x + 2]
        /\ C[x + 3] = A[x + 3] /\ C[x + 4] = A[x + 4] /\ Len(C) \in Nat /\ x + 4 <= Len(C)
    BY <1>n, <1>5, <2>1, <2>2, <2>3, SMTT(30)
  <2>5. WritesAt(C, x, q + 1)
    BY <2>4 DEF WritesAt
  <2> QED BY <2>3, <2>5
<1>8. C[1] = pp /\ Len(C) = 9 + 4 * SecuritySize
  BY <1>n, <1>4, <1>5
<1> QED BY <1>6, <1>7, <1>8 DEF C

\* securityVerify polls, and then reads its bytes, 14 calls each.
LEMMA SecurityVerifyCalls ==
  LET C == Calls["securityVerify"] IN
  /\ Len(C) = 8 + 14 * SecuritySize /\ PollsAt(C, 0, securityVerification_v, 308)
  /\ \A q \in 0..(SecuritySize - 1) : ComparesAt(C, 8 + 14 * q, q + 1)
<1> DEFINE C == Calls["securityVerify"]
<1> DEFINE A == vectorSend(securityVerification_v, 308) \o Execute
<1> DEFINE B == ReadBytes(SecuritySize)
<1>0. C = A \o B
  BY DEF Calls, Functions, securityVerifyCalls
<1>1. Len(A) = 8 /\ A = [i \in 1..8 |-> A[i]]
  BY DEF vectorSend, Execute
<1>3. /\ A[1] = pp /\ A[2] = [do |-> "send", bytes |-> securityVerification_v, n |-> 308] /\ A[3] = hiz
      /\ A[4] = clock /\ A[5] = poll
      /\ A[6] = pp /\ A[7] = [do |-> "send", bytes |-> wait_and_poll_end, n |-> 40] /\ A[8] = hiz
  BY DEF vectorSend, Execute
<1>4. B = [i \in 1..(14 * SecuritySize) |-> B[i]]
  BY DEF ReadBytes
<1> HIDE DEF A
<1>5. SecuritySize \in Nat /\ 14 * SecuritySize \in Nat
  BY RamParts
<1>6. /\ Len(B) = 14 * SecuritySize
      /\ \A q \in 0..(SecuritySize - 1) : ComparesAt(B, 14 * q, q + 1)
  BY <1>5, ReadBytesCalls
<1> HIDE DEF B
<1>7. /\ Len(A \o B) = 8 + 14 * SecuritySize
      /\ \A i \in 1..8 : (A \o B)[i] = A[i]
      /\ \A i \in 1..(14 * SecuritySize) : (A \o B)[8 + i] = B[i]
  BY <1>1, <1>4, <1>5, Joined
<1> HIDE DEF C
<1>8. Len(C) = 8 + 14 * SecuritySize /\ (\A i \in 1..8 : C[i] = A[i])
  BY <1>0, <1>7
<1>10. PollsAt(C, 0, securityVerification_v, 308)
  BY <1>3, <1>5, <1>8 DEF PollsAt
<1>11. ASSUME NEW q \in 0..(SecuritySize - 1) PROVE ComparesAt(C, 8 + 14 * q, q + 1)
  <2>1. ASSUME NEW r \in 1..14 PROVE C[8 + 14 * q + r] = B[14 * q + r]
    <3>1. 14 * q + r \in 1..(14 * SecuritySize) /\ 8 + 14 * q + r = 8 + (14 * q + r)
      BY <1>5
    <3> QED BY <1>0, <1>7, <3>1
  <2>2. ComparesAt(B, 14 * q, q + 1)
    BY <1>6
  <2>3. 8 + 14 * q + 14 <= Len(C) /\ Len(C) \in Nat
    BY <1>5, <1>8
  <2>4. PICK x, y : x = 14 * q /\ y = 8 + 14 * q
    OBVIOUS
  <2>5. ComparesAt(B, x, q + 1) /\ (\A r \in 1..14 : C[y + r] = B[x + r]) /\ y + 14 <= Len(C) /\ Len(C) \in Nat
    BY <2>1, <2>2, <2>3, <2>4
  <2>6. ComparesAt(C, y, q + 1)
    BY <2>5, ComparesMoved
  <2> QED BY <2>4, <2>6
<1> QED BY <1>8, <1>10, <1>11 DEF C

\* Every function makes some calls.
LEMMA LenCalls == ASSUME NEW f \in Functions PROVE Len(Calls[f]) \in Nat /\ Len(Calls[f]) > 0
<1>1. BlockSize \in Nat /\ SecuritySize \in Nat
  BY RamParts
<1>2. f \in {"initialize", "siliconID", "erase", "load", "blockProgram", "blockVerify",
              "securityFlash", "securityVerify", "bankChecksum", "reStart"}
  BY DEF Functions
<1>3. Len(Calls["initialize"]) = 25 /\ Len(Calls["siliconID"]) = 26 /\ Len(Calls["erase"]) = 8
  BY InitializeCalls, SiliconIDCalls, EraseCalls
<1>4. Len(Calls["load"]) = 1 + 4 * BlockSize /\ Len(Calls["blockProgram"]) = 14
  BY LoadCalls, BlockProgramCalls
<1>5. Len(Calls["blockVerify"]) = 14 + 14 * BlockSize /\ Len(Calls["securityFlash"]) = 9 + 4 * SecuritySize
  BY BlockVerifyCalls, SecurityFlashCalls
<1>6. Len(Calls["securityVerify"]) = 8 + 14 * SecuritySize /\ Len(Calls["bankChecksum"]) = 25 /\ Len(Calls["reStart"]) = 1
  BY SecurityVerifyCalls, BankChecksumCalls, ReStartCalls
<1>7. PICK n : n = Len(Calls[f])
  OBVIOUS
<1>8. n \in {25, 26, 8, 14, 1, 1 + 4 * BlockSize, 14 + 14 * BlockSize, 9 + 4 * SecuritySize, 8 + 14 * SecuritySize}
  BY <1>2, <1>3, <1>4, <1>5, <1>6, <1>7
<1>9. n \in Nat /\ n > 0
  BY <1>1, <1>8
<1> QED BY <1>7, <1>9

(***************************************************************************)
(* Every step keeps the state well formed.                                 *)
(***************************************************************************)
\* A call of a function that runs.
LEMMA AtCall ==
  ASSUME NEW k, running, call + 1 = k, call < Len(Calls[fn])
  PROVE  Now = Calls[fn][k] /\ Doing(Calls[fn][k].do)
  BY DEF Now, Doing

\* The bits of a frame are a number.
LEMMA BitsNat == ASSUME ChipTypeOK PROVE bits \in Nat
<1>1. PICK top : top = 2^len - 1
  OBVIOUS
<1>2. bits \in 0..top
  BY <1>1 DEF ChipTypeOK
<1> QED BY <1>2

\* One step keeps the types; what a function received needs its own argument.
LEMMA TypeStep ==
  ASSUME WireTypeOK, Solid, Next, received' \in Seq(Byte),
         \A c \in Sends : Doing(c) => Sending \in {0, 1}
  PROVE  WireTypeOK' /\ Solid'
<1>t. /\ ChipTypeOK /\ fn \in Functions /\ running \in BOOLEAN
      /\ call \in 0..Len(Calls[fn]) /\ bit \in Nat
      /\ output \in BOOLEAN /\ latch \in {0, 1} /\ sclk \in {0, 1}
      /\ dataOUT \in Data /\ blockNum \in BlockIdx /\ ok \in BOOLEAN
      /\ failed \in Functions \X BlockIdx \X Data
  BY DEF WireTypeOK
<1>d. Drives \in {0, 1, Nothing}
  BY <1>t, DriveType
<1>l. Level(Driven, Drives) \in {0, 1}
  BY <1>t, <1>d DEF Level, Driven, Nothing
<1>k. (ChipTypeOK /\ Solid /\ UNCHANGED chipVars) => (ChipTypeOK /\ Solid)'
  BY DEF ChipTypeOK, TargetTypeOK, Solid, chipVars, targetVars
<1>c. ASSUME NextCall, running, call < Len(Calls[fn]), UNCHANGED fn
      PROVE  call' \in 0..Len(Calls[fn'])  /\ bit' \in Nat
  BY <1>c, <1>t DEF NextCall
<1>b. ASSUME NextBit, running, call < Len(Calls[fn]), UNCHANGED fn
      PROVE  call' \in 0..Len(Calls[fn']) /\ bit' \in Nat
  BY <1>b, <1>t DEF NextBit, NextCall
<1>r. ASSUME NEW good \in BOOLEAN, Return(good), UNCHANGED <<fn, dataOUT, blockNum>>
      PROVE  running' \in BOOLEAN /\ ok' \in BOOLEAN /\ failed' \in Functions \X BlockIdx \X Data
  BY <1>r, <1>t DEF Return, Arguments
<1>1. CASE Begin
  <2>1. fn' \in Functions /\ blockNum' \in BlockIdx
    <3>1. PICK next \in Follows : fn' = next[1] /\ blockNum' = next[2]
      BY <1>1 DEF Begin
    <3>2. 0 \in BlockIdx /\ (~LastBlock => blockNum + 1 \in BlockIdx)
      BY <1>t, ProtocolAssumption DEF BlockIdx, LastBlock, ProtocolAssumption
    <3>3. next[1] \in Functions /\ next[2] \in BlockIdx
      BY <1>t, <3>1, <3>2 DEF Follows, Functions
    <3> QED BY <3>1, <3>3
  <2>2. dataOUT' \in Data
    BY <1>1, <1>t DEF Begin
  <2>3. running' = TRUE /\ call' = 0 /\ bit' = 0 /\ UNCHANGED <<chipVars, output, latch, sclk, ok, failed>>
    BY <1>1 DEF Begin
  <2>4. Len(Calls[fn']) \in Nat
    BY <2>1, LenCalls
  <2> QED BY <1>t, <1>k, <2>1, <2>2, <2>3, <2>4 DEF WireTypeOK
<1>2. CASE sdataPP
  BY <1>2, <1>t, <1>k, <1>c DEF sdataPP, WireTypeOK, Doing
<1>3. CASE sdataHiZ
  BY <1>3, <1>t, <1>k, <1>c DEF sdataHiZ, WireTypeOK, Doing
<1>4. CASE sendBit
  <2>1. PICK c \in Sends : Doing(c)
    BY <1>4 DEF sendBit
  <2>2. Sending \in {0, 1}
    BY <2>1
  <2>3. Level(IF output THEN Sending ELSE Nothing, Drives) \in {0, 1}
    BY <1>d, <2>2 DEF Level, Nothing
  <2>4. ChipTypeOK' /\ Solid'
    BY <1>4, <1>t, <2>3, ClockType DEF sendBit
  <2>5. latch' = Sending /\ sclk' = 0 /\ NextBit /\ UNCHANGED <<fn, running, output, dataOUT, blockNum, ok, failed>>
    BY <1>4 DEF sendBit
  <2>6. running /\ call < Len(Calls[fn])
    BY <2>1 DEF Doing
  <2> QED BY <1>t, <1>b, <2>2, <2>4, <2>5, <2>6 DEF WireTypeOK
<1>5. CASE clockOnce
  <2>1. ChipTypeOK' /\ Solid'
    BY <1>5, <1>t, <1>l, ClockType DEF clockOnce
  <2> QED BY <1>5, <1>t, <1>c, <2>1 DEF clockOnce, WireTypeOK, Doing
<1>6. CASE bitReceive
  <2>1. ChipTypeOK' /\ Solid'
    BY <1>6, <1>t, <1>l, <1>k, ClockType DEF bitReceive
  <2> QED BY <1>6, <1>t, <1>b, <2>1 DEF bitReceive, WireTypeOK, Doing
<1>7. CASE sawHigh
  BY <1>7, <1>t, <1>k DEF sawHigh, WireTypeOK, Doing
<1>8. CASE sawLow
  BY <1>8, <1>t, <1>k, <1>c DEF sawLow, WireTypeOK, Doing
<1>9. CASE pollTimeout
  BY <1>9, <1>t, <1>k, <1>r DEF pollTimeout, WireTypeOK
<1>10. CASE resetTarget
  <2>1. ChipReset
    BY <1>10 DEF resetTarget
  <2>2. ChipTypeOK' /\ Solid'
    <3>1. ram' \in [RamUsed -> Byte] /\ reg' \in [RegUsed -> Byte]
      BY <2>1 DEF ChipReset, Byte
    <3>2. bits' \in 0..(2^len' - 1)
      BY <2>1, NoBits DEF ChipReset
    <3> QED BY <1>t, <2>1, <3>1, <3>2 DEF ChipReset, ChipTypeOK, TargetTypeOK, Solid, Phases
  <2> QED BY <1>10, <1>t, <1>c, <2>2 DEF resetTarget, WireTypeOK, Doing
<1>11. CASE check
  <2>1. running /\ call < Len(Calls[fn])
    BY <1>11 DEF check, Doing
  <2>2. UNCHANGED <<chipVars, fn, output, latch, sclk, received, dataOUT, blockNum>>
    BY <1>11 DEF check
  <2>3. CASE NextCall /\ UNCHANGED <<running, ok, failed>>
    BY <1>t, <1>k, <1>c, <2>1, <2>2, <2>3 DEF WireTypeOK
  <2>4. CASE Return(FALSE) /\ UNCHANGED <<call, bit>>
    BY <1>t, <1>k, <1>r, <2>1, <2>2, <2>4 DEF WireTypeOK
  <2> QED BY <1>11, <2>3, <2>4 DEF check
<1>12. CASE returnOK
  BY <1>12, <1>t, <1>k, <1>r DEF returnOK, WireTypeOK
<1>13. CASE ChipStep
  <2>1. UNCHANGED progVars
    BY <1>13 DEF ChipStep
  <2>2. ChipTypeOK' /\ Solid'
    <3>1. CASE RaiseSDATA
      BY <1>t, <3>1 DEF RaiseSDATA, ChipTypeOK, TargetTypeOK, Solid, targetVars, Phases
    <3>2. CASE FinishRoutine
      BY <1>t, <3>2, RoutineType
    <3> QED BY <1>13, <3>1, <3>2 DEF ChipStep
  <2> QED BY <1>t, <2>1, <2>2 DEF WireTypeOK, progVars
<1> QED BY <1>1, <1>2, <1>3, <1>4, <1>5, <1>6, <1>7, <1>8, <1>9, <1>10, <1>11, <1>12, <1>13 DEF Next

(***************************************************************************)
(* Writing: the number of the block, and the bytes of the buffer.          *)
(***************************************************************************)
\* A step that leaves the cells alone.
Steady == Proceeds /\ call' \in {call, call + 1} /\ ~malformed' /\ UNCHANGED targetVars

\* byteSend's loop: the next bit of the call, or the next call after its last.
LEMMA NextBitIs ==
  ASSUME NextBit, NEW k \in Nat, bit = k
  PROVE  IF k + 1 = Now.n THEN call' = call + 1 /\ bit' = 0 ELSE call' = call /\ bit' = k + 1
  BY DEF NextBit, NextCall

\* One bit of a frame is sent, but for its last.
LEMMA SendsBit ==
  ASSUME WireTypeOK, Sound, NEW c \in Sends, Doing(c), Next, output,
         NEW X \in Nat, NEW L \in 1..22, NEW k \in 0..20, k < L, Heard(X, L, k),
         k = 0 => BitAt(X, L - 1) = 1, Sending = BitAt(X, L - k - 1)
  PROVE  /\ Proceeds /\ NextBit /\ Heard(X, L, k + 1)' /\ ~malformed'
         /\ UNCHANGED <<output, received, targetVars, wait, ram, reg>>
<1>1. Quiet /\ Took(X, L, k) /\ tMode = "prog"
  BY DEF Heard, Took, Quiet
<1>2. Sending \in {0, 1}
  <2>1. PICK d \in 0..21 : d = L - k - 1
    OBVIOUS
  <2>2. BitAt(X, d) \in {0, 1}
    BY OneMore
  <2> QED BY <2>1, <2>2
<1>3. Proceeds /\ ChipClock(Sending) /\ NextBit /\ UNCHANGED <<output, received>>
  BY <1>1, <1>2, SendStep
<1>4. PICK level : level = Sending
  OBVIOUS
<1>5. level = BitAt(X, L - k - 1) /\ ChipClock(level)
  BY <1>3, <1>4
<1>6. /\ Took(X, L, k + 1)'
      /\ UNCHANGED <<targetVars, wait, ram, reg, malformed>>
  BY <1>1, <1>5, TakesBit
<1> QED BY <1>1, <1>3, <1>6 DEF Heard, targetVars, Sound

\* The last bit of a frame that writes a byte of RAM.
LEMMA WritesByte ==
  ASSUME WireTypeOK, Sound, NEW c \in Sends, Doing(c), Next, output,
         NEW a \in RamUsed, NEW d \in Byte, NEW f \in Nat, f = Instruction(4, a, d),
         Heard(f, 22, 21), Sending = 1
  PROVE  /\ Proceeds /\ NextBit /\ Ready' /\ ram' = [ram EXCEPT ![a] = d] /\ ~malformed'
         /\ UNCHANGED <<output, received, targetVars, reg>>
<1>0. a \in Byte /\ a \in Nat /\ d \in Nat
  <2>1. a \in Byte
    BY RamParts
  <2> QED BY <2>1 DEF Byte
<1>3. Whole(f) /\ Opcode(f) = 4 /\ Address(f) = a /\ Value(f) = d
  BY <1>0, InstructionParts
<1>4. Quiet /\ Took(f, 22, 21) /\ tMode = "prog" /\ phase = "listening"
  BY DEF Heard, Took, Quiet
<1>5. Proceeds /\ ChipClock(Sending) /\ NextBit /\ UNCHANGED <<output, received>>
  BY <1>4, SendStep
<1>6. BitAt(f, 0) = 1
  <2>1. f % 2 = 1
    BY <1>0 DEF Instruction
  <2> QED BY <2>1, Powers DEF BitAt
<1>7. PICK level : level = Sending /\ level = BitAt(f, 0) /\ ChipClock(level)
  BY <1>5, <1>6
<1>8. len' = 0 /\ bits' = 0 /\ Frame(f) /\ UNCHANGED <<genuine, flash, security, wait>>
  BY <1>4, <1>7, TakesFrame
<1>9. /\ UNCHANGED tMode
      /\ ~malformed => ~malformed'
      /\ phase' = IF Starts(f) THEN "armed" ELSE "listening"
      /\ ram' = IF Opcode(f) = 4 /\ Address(f) \in RamUsed
                THEN [ram EXCEPT ![Address(f)] = Value(f)] ELSE ram
      /\ reg' = IF Opcode(f) = 6 /\ Address(f) \in RegUsed
                THEN [reg EXCEPT ![Address(f)] = Value(f)] ELSE reg
  BY <1>3, <1>4, <1>8, Obeyed
<1>10. ~Starts(f)
  BY <1>3 DEF Starts
<1> QED BY <1>3, <1>4, <1>5, <1>8, <1>9, <1>10 DEF Ready, Listening, targetVars, Sound

\* The pieces of a frame: eleven bits of opcode and address, a byte, three ones.
LEMMA OpensFrame ==
  ASSUME NEW P \in Nat, P < 2048, Ready
  PROVE  Heard(P, 11, 0)
<1>1. P \div 2048 = 0
  OBVIOUS
<1>2. Upper(P, 11) = 0
  BY <1>1, Powers DEF Upper
<1> QED BY <1>2 DEF Heard, Took, Ready, Listening

\* A frame taken up to its address can still go on with any byte; one taken up to its value, with
\* the three ones.
LEMMA GoesOnWithByte ==
  ASSUME NEW P \in Nat, NEW d \in Byte, Heard(P, 11, 11)
  PROVE  Heard(P * 256 + d, 19, 11)
<1>1. Upper(P, 0) = P /\ Upper(P * 256 + d, 8) = P
  BY UpperAll, Extended
<1> QED BY <1>1 DEF Heard, Took

\* The same, of the state after the step.
LEMMA GoesOnWithByteNext ==
  ASSUME NEW P \in Nat, NEW d \in Byte, Heard(P, 11, 11)'
  PROVE  Heard(P * 256 + d, 19, 11)'
<1>1. Upper(P, 0) = P /\ Upper(P * 256 + d, 8) = P
  BY UpperAll, Extended
<1> QED BY <1>1 DEF Heard, Took

\* The same three ones, of the state after the step.
LEMMA GoesOnWithOnesNext ==
  ASSUME NEW Q \in Nat, Heard(Q, 19, 19)'
  PROVE  Heard(Q * 8 + 7, 22, 19)'
<1>1. Upper(Q, 0) = Q /\ Upper(Q * 8 + 7, 3) = Q
  BY UpperAll, Closed
<1> QED BY <1>1 DEF Heard, Took

\* How far a frame was taken, said of the counter of bits.
LEMMA HeardAt ==
  ASSUME NEW X, NEW L, NEW k, NEW e, Heard(X, L, k)', bit' = e, NEW g, k = g + e
  PROVE  Heard(X, L, g + bit)'
  BY DEF Heard, Took

\* The block number is sent: set_block_number's eleven bits, the byte and the ones.
LEMMA SelectStep ==
  ASSUME NEW c \in Nat, SelectsAt(Calls[fn], c), WireTypeOK, Sound, running,
         call \in c..(c + 5), Selecting(c), Next
  PROVE  /\ Steady /\ Selecting(c)' /\ UNCHANGED received
         /\ \A i \in 1..BlockSize : ram'[DataAddr(i)] = ram[DataAddr(i)]
         /\ call' = c + 6 => bit' = 0 /\ Ready' /\ BlockNumber' = blockNum
<1>t. ChipTypeOK /\ bit \in Nat /\ ~malformed
  BY DEF WireTypeOK, Sound
<1>b. blockNum \in Byte /\ blockNum \in Nat
  BY ProtocolAssumption DEF WireTypeOK, BlockIdx, ProtocolAssumption, Byte
<1>p. PICK P \in Nat : P = PutBlock /\ P < 2048
  BY DEF PutBlock
<1>1. CASE call = c
  <2>1. bit = 0 /\ Ready
    BY <1>1 DEF Selecting
  <2>2. Doing("pp") /\ Quiet
    <3>1. call + 1 = c + 1 /\ call < Len(Calls[fn]) /\ Calls[fn][c + 1] = pp
      BY <1>1 DEF SelectsAt
    <3> QED BY <2>1, <3>1, AtCall DEF pp, Ready, Listening, Quiet
  <2>3. /\ Proceeds /\ output' = TRUE /\ call' = c + 1 /\ bit' = 0
        /\ UNCHANGED <<chipVars, latch, sclk, received>>
    BY <1>1, <2>2, PPStep
  <2>4. Heard(PutBlock, 11, 0)
    <3>1. Heard(P, 11, 0)
      BY <1>p, <2>1, OpensFrame
    <3> QED BY <1>p, <3>1
  <2>5. Heard(PutBlock, 11, bit)'
    BY <2>3, <2>4 DEF Heard, Took, chipVars, targetVars
  <2>6. Selecting(c)'
    BY <2>3, <2>5 DEF Selecting
  <2> QED BY <1>1, <1>t, <2>3, <2>6 DEF chipVars, Steady
<1>2. CASE call = c + 1
  <2>1. bit < 11 /\ output /\ Heard(PutBlock, 11, bit)
    BY <1>2 DEF Selecting
  <2>2. Now = [do |-> "send", bytes |-> set_block_number, n |-> 11] /\ Doing("send") /\ "send" \in Sends
    <3>1. call + 1 = c + 2 /\ call < Len(Calls[fn])
      BY <1>2 DEF SelectsAt
    <3> QED BY <3>1, AtCall DEF SelectsAt, Sends
  <2>3. PICK k \in 0..10 : k = bit
    BY <1>t, <2>1
  <2>4. Sending = BitAt(PutBlock, 10 - k)
    <3>1. Sending = BitOf(set_block_number, k + 1)
      BY <2>2, <2>3 DEF Sending
    <3> QED BY <3>1, SetBlockSent DEF CarriesAddress
  <2>5. k = 0 => BitAt(PutBlock, 10) = 1
    BY Powers DEF BitAt, PutBlock
  <2>6. PICK L \in 1..22, e \in 0..20 : L = 11 /\ e = k
    OBVIOUS
  <2>7. e < L /\ Heard(P, L, e) /\ (e = 0 => BitAt(P, L - 1) = 1) /\ Sending = BitAt(P, L - e - 1)
    BY <1>p, <2>1, <2>3, <2>4, <2>5, <2>6
  <2>8. /\ Proceeds /\ NextBit /\ Heard(P, L, e + 1)' /\ ~malformed'
        /\ UNCHANGED <<output, received, targetVars, wait, ram, reg>>
    BY <2>1, <2>2, <2>7, SendsBit
  <2>9. CASE k = 10
    <3>1. call' = c + 2 /\ bit' = 0
      BY <1>2, <2>2, <2>3, <2>8, <2>9, NextBitIs
    <3>2. Heard(PutBlock, 11, 11)'
      BY <1>p, <2>6, <2>8, <2>9
    <3>3. Selecting(c)'
      BY <2>1, <2>8, <3>1, <3>2 DEF Selecting
    <3> QED BY <1>2, <2>8, <3>1, <3>3 DEF Steady
  <2>10. CASE k # 10
    <3>1. call' = c + 1 /\ bit' = k + 1
      BY <1>2, <2>2, <2>3, <2>8, <2>10, NextBitIs
    <3>2. Heard(PutBlock, 11, k + 1)'
      BY <1>p, <2>6, <2>8
    <3>3. Heard(PutBlock, 11, bit)'
      BY <3>1, <3>2 DEF Heard, Took
    <3>4. Selecting(c)'
      BY <2>1, <2>8, <2>10, <3>1, <3>3 DEF Selecting
    <3> QED BY <1>2, <2>8, <3>1, <3>4 DEF Steady
  <2> QED BY <2>9, <2>10
<1>3. CASE call = c + 2
  <2>1. bit = 0 /\ output /\ Heard(PutBlock, 11, 11)
    BY <1>3 DEF Selecting
  <2>2. Doing("hiz") /\ Quiet
    <3>1. call + 1 = c + 3 /\ call < Len(Calls[fn]) /\ Calls[fn][c + 3] = hiz
      BY <1>3, SMTT(30) DEF SelectsAt
    <3> QED BY <2>1, <3>1, AtCall DEF hiz, Heard, Took, Quiet
  <2>3. /\ Proceeds /\ output' = FALSE /\ call' = c + 3 /\ bit' = 0
        /\ UNCHANGED <<chipVars, latch, sclk, received>>
    BY <1>3, <2>2, HiZStep
  <2>4. Heard(PutBlock, 11, 11)'
    BY <2>1, <2>3 DEF Heard, Took, chipVars, targetVars
  <2>5. Selecting(c)'
    BY <2>3, <2>4 DEF Selecting
  <2> QED BY <1>3, <1>t, <2>3, <2>5 DEF chipVars, Steady
<1>4. CASE call = c + 3
  <2>1. bit = 0 /\ Heard(PutBlock, 11, 11)
    BY <1>4 DEF Selecting
  <2>2. Doing("pp") /\ Quiet
    <3>1. call + 1 = c + 4 /\ call < Len(Calls[fn]) /\ Calls[fn][c + 4] = pp
      BY <1>4, SMTT(30) DEF SelectsAt
    <3> QED BY <2>1, <3>1, AtCall DEF pp, Heard, Took, Quiet
  <2>3. /\ Proceeds /\ output' = TRUE /\ call' = c + 4 /\ bit' = 0
        /\ UNCHANGED <<chipVars, latch, sclk, received>>
    BY <1>4, <2>2, PPStep
  <2>4. Heard(PutBlock, 11, 11)'
    BY <2>1, <2>3 DEF Heard, Took, chipVars, targetVars
  <2>5. PICK x \in Byte : x = blockNum /\ x = blockNum'
    BY <1>b, <2>3 DEF Proceeds
  <2>6. Heard(PutBlock * 256 + x, 19, 11)'
    <3>1. Heard(P, 11, 11)'
      BY <1>p, <2>4
    <3>2. Heard(P * 256 + x, 19, 11)'
      BY <3>1, <1>p, GoesOnWithByteNext
    <3> QED BY <1>p, <3>2
  <2>7. Heard(PutBlock * 256 + blockNum, 19, 11 + bit)'
    BY <2>3, <2>5, <2>6 DEF Heard, Took
  <2>8. Selecting(c)'
    BY <2>3, <2>7 DEF Selecting
  <2> QED BY <1>4, <1>t, <2>3, <2>8 DEF chipVars, Steady
<1>5. CASE call = c + 4
  <2>1. bit < 8 /\ output /\ Heard(PutBlock * 256 + blockNum, 19, 11 + bit)
    BY <1>5 DEF Selecting
  <2>2. Now = [do |-> "block", n |-> 8] /\ Doing("block") /\ "block" \in Sends
    <3>1. call + 1 = c + 5 /\ call < Len(Calls[fn])
      BY <1>5 DEF SelectsAt
    <3> QED BY <3>1, AtCall DEF SelectsAt, Sends
  <2>3. PICK k \in 0..7, x \in Byte : k = bit /\ x = blockNum
    BY <1>b, <1>t, <2>1
  <2>4. PICK X \in Nat : X = P * 256 + x /\ X = PutBlock * 256 + x
    <3>1. P * 256 + x \in Nat
      BY Extended
    <3> QED BY <1>p, <3>1
  <2>5. Sending = BitAt(X, 7 - k)
    <3>1. Sending = BitOf(<<x>>, k + 1)
      BY <2>2, <2>3 DEF Sending
    <3>2. 7 - k \in 0..7
      OBVIOUS
    <3>3. BitAt(P * 256 + x, 7 - k) = BitAt(x, 7 - k)
      BY <3>2, Extended, ZenonT(60)
    <3> QED BY <2>4, <3>1, <3>3, ByteBits
  <2>6. PICK L \in 1..22, e \in 0..20 : L = 19 /\ e = 11 + k
    OBVIOUS
  <2>7. e < L /\ Heard(X, L, e) /\ (e = 0 => BitAt(X, L - 1) = 1) /\ Sending = BitAt(X, L - e - 1)
    <3>1. L - e - 1 = 7 - k /\ e # 0 /\ e < L
      BY <2>6
    <3> QED BY <2>1, <2>3, <2>4, <2>5, <2>6, <3>1
  <2>8. /\ Proceeds /\ NextBit /\ Heard(X, L, e + 1)' /\ ~malformed'
        /\ UNCHANGED <<output, received, targetVars, wait, ram, reg>>
    BY <2>1, <2>2, <2>7, SendsBit
  <2>9. blockNum' = x
    BY <2>3, <2>8 DEF Proceeds
  <2>10. CASE k = 7
    <3>1. call' = c + 5 /\ bit' = 0
      BY <1>5, <2>2, <2>3, <2>8, <2>10, NextBitIs
    <3>2. Heard(X, 19, 19)'
      BY <2>6, <2>8, <2>10
    <3>3. Heard(X * 8 + 7, 22, 19)'
      BY <3>2, GoesOnWithOnesNext
    <3>4. Heard((PutBlock * 256 + blockNum) * 8 + 7, 22, 19 + bit)'
      BY <2>4, <2>9, <3>1, <3>3 DEF Heard, Took
    <3>5. Selecting(c)'
      BY <2>1, <2>8, <3>1, <3>4 DEF Selecting
    <3> QED BY <1>5, <2>8, <3>1, <3>5 DEF Steady
  <2>11. CASE k # 7
    <3>1. call' = c + 4 /\ bit' = k + 1
      BY <1>5, <2>2, <2>3, <2>8, <2>11, NextBitIs
    <3>2. e + 1 = 11 + (k + 1)
      BY <2>6
    <3>3. Heard(PutBlock * 256 + blockNum, 19, 11 + bit)'
      BY <2>4, <2>6, <2>8, <2>9, <3>1, <3>2 DEF Heard, Took
    <3>4. Selecting(c)'
      BY <2>1, <2>8, <2>11, <3>1, <3>3 DEF Selecting
    <3> QED BY <1>5, <2>8, <3>1, <3>4 DEF Steady
  <2> QED BY <2>10, <2>11
<1>6. CASE call = c + 5
  <2>1. bit < 3 /\ output /\ Heard((PutBlock * 256 + blockNum) * 8 + 7, 22, 19 + bit)
    BY <1>6 DEF Selecting
  <2>2. Now = [do |-> "send", bytes |-> <<224>>, n |-> 3] /\ Doing("send") /\ "send" \in Sends
    <3>1. call + 1 = c + 6 /\ call < Len(Calls[fn]) /\ Calls[fn][c + 6] = [do |-> "send", bytes |-> <<224>>, n |-> 3]
      BY <1>6 DEF SelectsAt, byteSend
    <3> QED BY <3>1, AtCall DEF Sends
  <2>3. PICK k \in 0..2, x \in Byte : k = bit /\ x = blockNum
    BY <1>b, <1>t, <2>1
  <2>4. PICK Q \in Nat : Q = P * 256 + x /\ Q = PutBlock * 256 + x
    <3>1. P * 256 + x \in Nat
      BY Extended
    <3> QED BY <1>p, <3>1
  <2>5. PICK X \in Nat : X = Q * 8 + 7
    BY Closed
  <2>6. Sending = 1
    <3>1. Sending = BitOf(<<224>>, k + 1)
      BY <2>2, <2>3 DEF Sending
    <3> QED BY <3>1, Ones
  <2>7. Heard(X, 22, 19 + k)
    BY <2>1, <2>3, <2>4, <2>5
  <2>8. CASE k = 2
    <3>1. PICK a \in RamUsed : a = \hFA
      BY RamParts
    <3>2. X = Instruction(4, a, x) /\ Heard(X, 22, 21)
      <4>1. P = 1024 + a
        BY <1>p, <3>1 DEF PutBlock
      <4>2. X = ((1024 + a) * 256 + x) * 8 + 7
        BY <2>4, <2>5, <4>1
      <4>3. a \in Byte
        BY <3>1 DEF Byte
      <4> QED BY <2>7, <2>8, <4>2, <4>3, FrameOf
    <3>3. /\ Proceeds /\ NextBit /\ Ready' /\ ram' = [ram EXCEPT ![a] = x] /\ ~malformed'
          /\ UNCHANGED <<output, received, targetVars, reg>>
      BY <2>1, <2>2, <2>6, <3>2, WritesByte
    <3>4. call' = c + 6 /\ bit' = 0
      BY <1>6, <2>2, <2>3, <2>8, <3>3, NextBitIs
    <3>5. \A i \in 1..BlockSize : ram'[DataAddr(i)] = ram[DataAddr(i)]
      <4> TAKE i \in 1..BlockSize
      <4>1. DataAddr(i) \in RamUsed /\ DataAddr(i) \in 128..191
        BY RamParts
      <4> QED BY <1>t, <3>1, <3>3, <4>1 DEF ChipTypeOK
    <3>6. BlockNumber' = blockNum
      BY <1>t, <2>3, <3>1, <3>3 DEF ChipTypeOK, BlockNumber
    <3>7. Selecting(c)'
      BY <3>4 DEF Selecting
    <3> QED BY <1>6, <3>3, <3>4, <3>5, <3>6, <3>7 DEF Steady
  <2>9. CASE k # 2
    <3>1. PICK L \in 1..22, e \in 0..20 : L = 22 /\ e = 19 + k
      BY <2>9
    <3>2. BitAt(X, L - e - 1) = 1
      <4>1. L - e - 1 \in 0..2
        BY <3>1
      <4> QED BY <2>5, <4>1, Closed
    <3>3. e < L /\ Heard(X, L, e) /\ (e = 0 => BitAt(X, L - 1) = 1) /\ Sending = BitAt(X, L - e - 1)
      BY <2>6, <2>7, <3>1, <3>2
    <3>4. /\ Proceeds /\ NextBit /\ Heard(X, L, e + 1)' /\ ~malformed'
          /\ UNCHANGED <<output, received, targetVars, wait, ram, reg>>
      BY <2>1, <2>2, <3>3, SendsBit
    <3>5. call' = c + 5 /\ bit' = k + 1 /\ k + 1 < 3
      BY <1>6, <2>2, <2>3, <2>9, <3>4, NextBitIs
    <3>6. blockNum' = x /\ e + 1 = 19 + (k + 1)
      BY <2>3, <3>1, <3>4 DEF Proceeds
    <3>7. Heard((PutBlock * 256 + blockNum) * 8 + 7, 22, 19 + bit)'
      BY <2>4, <2>5, <3>1, <3>4, <3>5, <3>6 DEF Heard, Took
    <3>8. Selecting(c)'
      BY <2>1, <3>4, <3>5, <3>7 DEF Selecting
    <3> QED BY <1>6, <3>4, <3>5, <3>8 DEF Steady
  <2> QED BY <2>8, <2>9
<1> QED BY <1>1, <1>2, <1>3, <1>4, <1>5, <1>6

\* The buffer stays as it is while the RAM does; and is one byte longer after a write.
LEMMA LoadedKept ==
  ASSUME NEW n, Loaded(dataOUT, n), UNCHANGED <<ram, dataOUT>>
  PROVE  Loaded(dataOUT, n)'
  BY DEF Loaded

\* Writing byte i of the buffer leaves i bytes of it loaded.
LEMMA LoadedOneMore ==
  ASSUME NEW i \in 1..BlockSize, Loaded(dataOUT, i - 1), UNCHANGED dataOUT, ram \in [RamUsed -> Byte],
         ram' = [ram EXCEPT ![DataAddr(i)] = dataOUT[i]]
  PROVE  Loaded(dataOUT, i)'
<1> SUFFICES ASSUME NEW j \in 1..i PROVE ram'[DataAddr(j)] = dataOUT[j]
  BY DEF Loaded
<1>1. j \in 1..BlockSize /\ DataAddr(j) \in RamUsed
  BY RamParts
<1>2. CASE j = i
  BY <1>1, <1>2
<1>3. CASE j # i
  <2>1. j \in 1..(i - 1) /\ DataAddr(j) # DataAddr(i)
    BY <1>3 DEF DataAddr
  <2> QED BY <1>1, <2>1 DEF Loaded
<1> QED BY <1>2, <1>3

\* Opcode and address of a frame for byte i.
LEMMA ByteAddress ==
  ASSUME NEW i \in 1..BlockSize
  PROVE  /\ PutByte(i) \in Nat /\ PutByte(i) < 2048 /\ AskByte(i) \in Nat /\ AskByte(i) < 2048
         /\ \A k \in 0..4 : /\ BitAt(PutByte(i), 10 - k) = BitAt(144, 7 - k)
                            /\ BitAt(AskByte(i), 10 - k) = BitAt(176, 7 - k)
         /\ \A k \in 0..5 : /\ BitAt(PutByte(i), 5 - k) = BitAt((4 * (i - 1)) % 256, 7 - k)
                            /\ BitAt(AskByte(i), 5 - k) = BitAt((4 * (i - 1)) % 256, 7 - k)
         /\ BitAt(PutByte(i), 10) = 1 /\ BitAt(AskByte(i), 10) = 1 /\ (4 * (i - 1)) % 256 \in Byte
<1>1. PICK n \in 0..63 : n = i - 1
  BY RamParts
<1>2. PutByte(i) = 1152 + n /\ AskByte(i) = 1408 + n
  BY <1>1 DEF PutByte, AskByte, DataAddr
<1> QED BY <1>1, <1>2, DataAddress

\* One step of the four calls that write byte i of the buffer, the loop body of targetLoad and
\* targetSecurityFlash.
LEMMA WriteStep ==
  ASSUME NEW c \in Nat, NEW i \in 1..BlockSize, WritesAt(Calls[fn], c, i), WireTypeOK, Sound, running,
         call \in c..(c + 3), Writing(c, i), Next
  PROVE  /\ Steady /\ UNCHANGED <<received, output>>
         /\ call' \in c..(c + 3) => Writing(c, i)'
         /\ call' = c + 4 => bit' = 0 /\ Ready' /\ Loaded(dataOUT, i)'
<1>t. ChipTypeOK /\ bit \in Nat /\ ~malformed /\ ram \in [RamUsed -> Byte]
  BY DEF WireTypeOK, Sound, ChipTypeOK
<1>d. dataOUT[i] \in Byte
  BY Parameters DEF Block
<1>p. PICK P \in Nat : P = PutByte(i) /\ P < 2048
  BY ByteAddress
<1>z. PICK z \in Byte : z = (4 * (i - 1)) % 256
  BY ByteAddress
<1>q. /\ \A k \in 0..4 : BitAt(P, 10 - k) = BitAt(144, 7 - k)
      /\ \A k \in 0..5 : BitAt(P, 5 - k) = BitAt(z, 7 - k)
      /\ BitAt(P, 10) = 1
  BY <1>p, <1>z, ByteAddress
<1>0. Loaded(dataOUT, i - 1) /\ output
  BY DEF Writing
<1>k. ASSUME Proceeds, UNCHANGED ram PROVE Loaded(dataOUT, i - 1)'
  BY <1>0, <1>k, LoadedKept DEF Proceeds
<1>1. CASE call = c
  <2>1. bit < 5 /\ Heard(P, 11, bit)
    BY <1>1, <1>p DEF Writing
  <2>2. Now = [do |-> "send", bytes |-> <<144>>, n |-> 5] /\ Doing("send") /\ "send" \in Sends
    <3>1. call + 1 = c + 1 /\ call < Len(Calls[fn]) /\ Calls[fn][c + 1] = [do |-> "send", bytes |-> <<144>>, n |-> 5]
      BY <1>1 DEF WritesAt, byteSend
    <3> QED BY <3>1, AtCall DEF Sends
  <2>3. PICK k \in 0..4 : k = bit
    BY <1>t, <2>1
  <2>4. Sending = BitAt(P, 10 - k)
    <3>1. Sending = BitOf(<<144>>, k + 1)
      BY <2>2, <2>3 DEF Sending
    <3>2. 144 \in Byte /\ k \in 0..7
      BY DEF Byte
    <3>3. BitOf(<<144>>, k + 1) = BitAt(144, 7 - k)
      BY <3>2, ByteBits
    <3> QED BY <1>q, <3>1, <3>3
  <2>5. PICK L \in 1..22, e \in 0..20 : L = 11 /\ e = k
    OBVIOUS
  <2>6. e < L /\ Heard(P, L, e) /\ (e = 0 => BitAt(P, L - 1) = 1) /\ Sending = BitAt(P, L - e - 1)
    BY <1>q, <2>1, <2>3, <2>4, <2>5
  <2>7. /\ Proceeds /\ NextBit /\ Heard(P, L, e + 1)' /\ ~malformed'
        /\ UNCHANGED <<output, received, targetVars, wait, ram, reg>>
    BY <1>0, <2>2, <2>6, SendsBit
  <2>8. CASE k = 4
    <3>1. call' = c + 1 /\ bit' = 0
      BY <1>1, <2>2, <2>3, <2>7, <2>8, NextBitIs
    <3>2. e + 1 = 5 + 0
      BY <2>5, <2>8
    <3>3. Heard(PutByte(i), 11, 5 + bit)'
      BY <1>p, <2>5, <2>7, <3>1, <3>2 DEF Heard, Took
    <3>4. Writing(c, i)'
      BY <1>0, <1>k, <2>7, <3>1, <3>3 DEF Writing
    <3> QED BY <1>1, <2>7, <3>1, <3>4 DEF Steady
  <2>9. CASE k # 4
    <3>1. call' = c /\ bit' = k + 1 /\ k + 1 < 5
      BY <1>1, <2>2, <2>3, <2>7, <2>9, NextBitIs
    <3>2. Heard(PutByte(i), 11, bit)'
      BY <1>p, <2>5, <2>7, <3>1 DEF Heard, Took
    <3>3. Writing(c, i)'
      BY <1>0, <1>k, <2>7, <3>1, <3>2 DEF Writing
    <3> QED BY <1>1, <2>7, <3>1, <3>3 DEF Steady
  <2> QED BY <2>8, <2>9
<1>2. CASE call = c + 1
  <2>1. bit < 6 /\ Heard(P, 11, 5 + bit)
    BY <1>2, <1>p DEF Writing
  <2>2. Now = [do |-> "send", bytes |-> <<z>>, n |-> 6] /\ Doing("send") /\ "send" \in Sends
    <3>1. call + 1 = c + 2 /\ call < Len(Calls[fn]) /\ Calls[fn][c + 2] = [do |-> "send", bytes |-> <<z>>, n |-> 6]
      BY <1>2, <1>z DEF WritesAt, byteSend
    <3> QED BY <3>1, AtCall DEF Sends
  <2>3. PICK k \in 0..5 : k = bit
    BY <1>t, <2>1
  <2>4. Sending = BitAt(P, 5 - k)
    <3>1. Sending = BitOf(<<z>>, k + 1)
      BY <2>2, <2>3 DEF Sending
    <3>2. k \in 0..7
      OBVIOUS
    <3>3. BitOf(<<z>>, k + 1) = BitAt(z, 7 - k)
      BY <3>2, ByteBits
    <3> QED BY <1>q, <3>1, <3>3
  <2>5. PICK L \in 1..22, e \in 0..20 : L = 11 /\ e = 5 + k
    OBVIOUS
  <2>6. e < L /\ Heard(P, L, e) /\ (e = 0 => BitAt(P, L - 1) = 1) /\ Sending = BitAt(P, L - e - 1)
    <3>1. L - e - 1 = 5 - k /\ e # 0 /\ e < L
      BY <2>5
    <3> QED BY <2>1, <2>3, <2>4, <2>5, <3>1
  <2>7. /\ Proceeds /\ NextBit /\ Heard(P, L, e + 1)' /\ ~malformed'
        /\ UNCHANGED <<output, received, targetVars, wait, ram, reg>>
    BY <1>0, <2>2, <2>6, SendsBit
  <2>8. CASE k = 5
    <3>1. call' = c + 2 /\ bit' = 0
      BY <1>2, <2>2, <2>3, <2>7, <2>8, NextBitIs
    <3>2. Heard(P, 11, 11)'
      BY <2>5, <2>7, <2>8
    <3>3. PICK x \in Byte : x = dataOUT[i]
      BY <1>d
    <3>4. Heard(P * 256 + x, 19, 11)'
      BY <3>2, GoesOnWithByteNext
    <3>5. Heard(PutByte(i) * 256 + dataOUT[i], 19, 11 + bit)'
      BY <1>p, <2>7, <3>1, <3>3, <3>4 DEF Heard, Took, Proceeds
    <3>6. Writing(c, i)'
      BY <1>0, <1>k, <2>7, <3>1, <3>5 DEF Writing
    <3> QED BY <1>2, <2>7, <3>1, <3>6 DEF Steady
  <2>9. CASE k # 5
    <3>1. call' = c + 1 /\ bit' = k + 1 /\ k + 1 < 6
      BY <1>2, <2>2, <2>3, <2>7, <2>9, NextBitIs
    <3>2. e + 1 = 5 + (k + 1)
      BY <2>5
    <3>3. Heard(PutByte(i), 11, 5 + bit)'
      BY <1>p, <2>5, <2>7, <3>1, <3>2 DEF Heard, Took
    <3>4. Writing(c, i)'
      BY <1>0, <1>k, <2>7, <3>1, <3>3 DEF Writing
    <3> QED BY <1>2, <2>7, <3>1, <3>4 DEF Steady
  <2> QED BY <2>8, <2>9
<1>x. PICK x \in Byte : x = dataOUT[i]
  BY <1>d
<1>Q. PICK Q \in Nat : Q = P * 256 + x
  BY Extended
<1>3. CASE call = c + 2
  <2>1. bit < 8 /\ Heard(Q, 19, 11 + bit)
    BY <1>3, <1>p, <1>x, <1>Q DEF Writing
  <2>2. Now = [do |-> "data", i |-> i, n |-> 8] /\ Doing("data") /\ "data" \in Sends
    <3>1. call + 1 = c + 3 /\ call < Len(Calls[fn]) /\ Calls[fn][c + 3] = [do |-> "data", i |-> i, n |-> 8]
      BY <1>3 DEF WritesAt
    <3> QED BY <3>1, AtCall DEF Sends
  <2>3. PICK k \in 0..7 : k = bit
    BY <1>t, <2>1
  <2>4. Sending = BitAt(Q, 7 - k)
    <3>1. Sending = BitOf(<<x>>, k + 1)
      BY <1>x, <2>2, <2>3 DEF Sending
    <3>2. BitAt(P * 256 + x, 7 - k) = BitOf(<<x>>, k + 1)
      BY ExtendedBit
    <3> QED BY <1>Q, <3>1, <3>2
  <2>5. PICK L \in 1..22, e \in 0..20 : L = 19 /\ e = 11 + k
    OBVIOUS
  <2>6. e < L /\ Heard(Q, L, e) /\ (e = 0 => BitAt(Q, L - 1) = 1) /\ Sending = BitAt(Q, L - e - 1)
    <3>1. L - e - 1 = 7 - k /\ e # 0 /\ e < L
      BY <2>5
    <3> QED BY <2>1, <2>3, <2>4, <2>5, <3>1
  <2>7. /\ Proceeds /\ NextBit /\ Heard(Q, L, e + 1)' /\ ~malformed'
        /\ UNCHANGED <<output, received, targetVars, wait, ram, reg>>
    BY <1>0, <2>2, <2>6, SendsBit
  <2>x. dataOUT' = dataOUT
    BY <2>7 DEF Proceeds
  <2>8. CASE k = 7
    <3>1. call' = c + 3 /\ bit' = 0
      BY <1>3, <2>2, <2>3, <2>7, <2>8, NextBitIs
    <3>2. Heard(Q, 19, 19)'
      BY <2>5, <2>7, <2>8
    <3>3. Heard(Q * 8 + 7, 22, 19)'
      BY <3>2, GoesOnWithOnesNext
    <3>4. Heard((PutByte(i) * 256 + dataOUT[i]) * 8 + 7, 22, 19 + bit)'
      BY <1>p, <1>x, <1>Q, <2>x, <3>1, <3>3 DEF Heard, Took
    <3>5. Writing(c, i)'
      BY <1>0, <1>k, <2>7, <3>1, <3>4 DEF Writing
    <3> QED BY <1>3, <2>7, <3>1, <3>5 DEF Steady
  <2>9. CASE k # 7
    <3>1. call' = c + 2 /\ bit' = k + 1 /\ k + 1 < 8
      BY <1>3, <2>2, <2>3, <2>7, <2>9, NextBitIs
    <3>2. e + 1 = 11 + (k + 1)
      BY <2>5
    <3>3. Heard(PutByte(i) * 256 + dataOUT[i], 19, 11 + bit)'
      BY <1>p, <1>x, <1>Q, <2>x, <2>5, <2>7, <3>1, <3>2 DEF Heard, Took
    <3>4. Writing(c, i)'
      BY <1>0, <1>k, <2>7, <3>1, <3>3 DEF Writing
    <3> QED BY <1>3, <2>7, <3>1, <3>4 DEF Steady
  <2> QED BY <2>8, <2>9
<1>X. PICK X \in Nat : X = Q * 8 + 7
  BY Closed
<1>4. CASE call = c + 3
  <2>1. bit < 3 /\ Heard(X, 22, 19 + bit)
    BY <1>4, <1>p, <1>x, <1>Q, <1>X DEF Writing
  <2>2. Now = [do |-> "send", bytes |-> <<224>>, n |-> 3] /\ Doing("send") /\ "send" \in Sends
    <3>1. call + 1 = c + 4 /\ call < Len(Calls[fn]) /\ Calls[fn][c + 4] = [do |-> "send", bytes |-> <<224>>, n |-> 3]
      BY <1>4 DEF WritesAt, byteSend
    <3> QED BY <3>1, AtCall DEF Sends
  <2>3. PICK k \in 0..2 : k = bit
    BY <1>t, <2>1
  <2>4. Sending = 1
    <3>1. Sending = BitOf(<<224>>, k + 1)
      BY <2>2, <2>3 DEF Sending
    <3> QED BY <3>1, Ones
  <2>5. CASE k = 2
    <3>1. PICK a \in RamUsed : a = DataAddr(i) /\ a \in Byte
      BY RamParts
    <3>2. X = Instruction(4, a, x) /\ Heard(X, 22, 21)
      <4>1. P = 1024 + a
        BY <1>p, <3>1 DEF PutByte
      <4>2. X = ((1024 + a) * 256 + x) * 8 + 7
        BY <1>Q, <1>X, <4>1
      <4>3. a \in Byte
        BY <3>1
      <4> QED BY <2>1, <2>3, <2>5, <4>2, <4>3, FrameOf
    <3>3. /\ Proceeds /\ NextBit /\ Ready' /\ ram' = [ram EXCEPT ![a] = x] /\ ~malformed'
          /\ UNCHANGED <<output, received, targetVars, reg>>
      BY <1>0, <2>2, <2>4, <3>2, WritesByte
    <3>4. call' = c + 4 /\ bit' = 0
      BY <1>4, <2>2, <2>3, <2>5, <3>3, NextBitIs
    <3>5. Loaded(dataOUT, i)'
      BY <1>0, <1>t, <1>x, <3>1, <3>3, LoadedOneMore DEF Proceeds
    <3> QED BY <1>4, <3>3, <3>4, <3>5 DEF Steady
  <2>6. CASE k # 2
    <3>1. PICK L \in 1..22, e \in 0..20 : L = 22 /\ e = 19 + k
      BY <2>6
    <3>2. BitAt(X, L - e - 1) = 1
      <4>1. L - e - 1 \in 0..2
        BY <3>1
      <4> QED BY <1>X, <4>1, Closed
    <3>3. e < L /\ Heard(X, L, e) /\ (e = 0 => BitAt(X, L - 1) = 1) /\ Sending = BitAt(X, L - e - 1)
      BY <2>1, <2>3, <2>4, <3>1, <3>2
    <3>4. /\ Proceeds /\ NextBit /\ Heard(X, L, e + 1)' /\ ~malformed'
          /\ UNCHANGED <<output, received, targetVars, wait, ram, reg>>
      BY <1>0, <2>2, <3>3, SendsBit
    <3>5. call' = c + 3 /\ bit' = k + 1 /\ k + 1 < 3
      BY <1>4, <2>2, <2>3, <2>6, <3>4, NextBitIs
    <3>6. dataOUT' = dataOUT /\ e + 1 = 19 + (k + 1)
      BY <3>1, <3>4 DEF Proceeds
    <3>7. Heard((PutByte(i) * 256 + dataOUT[i]) * 8 + 7, 22, 19 + bit)'
      BY <1>p, <1>x, <1>Q, <1>X, <3>1, <3>4, <3>5, <3>6 DEF Heard, Took
    <3>8. Writing(c, i)'
      BY <1>0, <1>k, <3>4, <3>5, <3>7 DEF Writing
    <3> QED BY <1>4, <3>4, <3>5, <3>8 DEF Steady
  <2> QED BY <2>5, <2>6
<1> QED BY <1>1, <1>2, <1>3, <1>4

(***************************************************************************)
(* Reading a byte: its address, two clocks, eight bits and one clock       *)
(* more.                                                                   *)
(***************************************************************************)
\* A byte of RAM that the chip puts on SDATA, bit by bit.
LEMMA Answers8Next ==
  ASSUME NEW P \in Nat, P \div 256 = 5, P % 256 \in RamUsed, NEW k \in 13..20, bits' \in Nat, Asked(P, k)'
  PROVE  Drives' = BitAt(ram'[P % 256], 20 - k)
<1>1. phase' = "listening" /\ len' = k /\ Upper(bits', k - 11) = P
  BY DEF Asked, Listening
<1>2. Upper(bits', k - 3) = 5
  <2>1. PICK a \in 2..9 : a = k - 11 /\ a + 8 = k - 3
    OBVIOUS
  <2>2. PICK B \in Nat : B = bits'
    OBVIOUS
  <2>3. Upper(Upper(B, a), 8) = Upper(B, a + 8)
    BY UpperUpper
  <2>4. Upper(P, 8) = 5
    BY Powers DEF Upper
  <2> QED BY <1>1, <2>1, <2>2, <2>3, <2>4
<1>3. Reading' /\ ReadAddress' = P % 256
  BY <1>1, <1>2 DEF Reading, ReadAddress, Upper, ReadRam
<1>4. Drives' = (IF ReadAddress' \in RamUsed THEN ram'[ReadAddress'] \div 2^(20 - len') ELSE 0) % 2
  BY <1>1, <1>3 DEF Drives
<1>5. Drives' = (ram'[P % 256] \div 2^(20 - k)) % 2
  BY <1>1, <1>3, <1>4, Zenon
<1> QED BY <1>5 DEF BitAt

\* A read whose address the chip has: one clock further.
LEMMA AskClock ==
  ASSUME WireTypeOK, Sound, Doing("clock"), Next, NEW P, NEW k \in 11..20, Asked(P, k)
  PROVE  /\ Proceeds /\ call' = call + 1 /\ bit' = 0 /\ sclk' = 0 /\ Asked(P, k + 1)' /\ ~malformed'
         /\ UNCHANGED <<output, received, targetVars, ram, reg>>
<1>1. Quiet /\ bits \in Nat
  <2>1. ChipTypeOK
    BY DEF WireTypeOK
  <2> QED BY <2>1, BitsNat DEF Asked, Listening, Quiet
<1>2. Proceeds /\ call' = call + 1 /\ bit' = 0 /\ sclk' = 0 /\ UNCHANGED <<output, latch, received>>
  BY <1>1, ClockStep
<1>3. PICK level \in {0, 1} : ChipClock(level)
  BY <1>1, ClockStep
<1>4. Asked(P, k + 1)' /\ UNCHANGED <<targetVars, wait, ram, reg, malformed>>
  BY <1>1, <1>3, AsksBit
<1> QED BY <1>2, <1>4 DEF Sound

\* The last clock of a frame that reads is no sending.
LEMMA AskClockEnd ==
  ASSUME WireTypeOK, Sound, NEW c \in Sends, Doing(c), Next, output, Sending \in {0, 1},
         NEW P \in Nat, P \div 256 = 5, Asked(P, 21)
  PROVE  /\ Proceeds /\ NextBit /\ Ready' /\ ~malformed'
         /\ UNCHANGED <<output, received, targetVars, ram, reg>>
<1>1. Quiet /\ bits \in Nat /\ tMode = "prog"
  <2>1. ChipTypeOK
    BY DEF WireTypeOK
  <2> QED BY <2>1, BitsNat DEF Asked, Listening, Quiet
<1>2. Proceeds /\ ChipClock(Sending) /\ NextBit /\ UNCHANGED <<output, received>>
  BY <1>1, SendStep
<1>3. PICK level \in {0, 1} : ChipClock(level)
  BY <1>2
<1>4. Ready' /\ UNCHANGED <<genuine, flash, security, wait, ram, reg>> /\ (~malformed => ~malformed')
  BY <1>1, <1>3, AsksEnd
<1>5. tMode' = tMode
  BY <1>1, <1>4 DEF Ready, Listening
<1> QED BY <1>2, <1>4, <1>5 DEF Sound, targetVars

\* A read taken up to its address is asked.
LEMMA AskedHeard ==
  ASSUME NEW P \in Nat, Heard(P, 11, 11)
  PROVE  Asked(P, 11)
<1>1. Upper(P, 0) = P /\ bits = P
  BY UpperAll DEF Heard, Took
<1>2. Upper(bits, 0) = P
  BY <1>1
<1> QED BY <1>2 DEF Heard, Took, Asked, Listening

\* A bit of an answer: the chip has it on SDATA when the programmer reads.
LEMMA ReceiveStep ==
  ASSUME WireTypeOK, Sound, Doing("receive"), Now.n = 8, Next, NEW P \in Nat, P \div 256 = 5,
         P % 256 \in RamUsed, NEW n \in Nat, Receiving(P, n)
  PROVE  /\ Proceeds /\ ~malformed' /\ UNCHANGED <<output, targetVars, ram, reg>>
         /\ received' \in Seq(Byte) /\ \A j \in 1..n : received'[j] = received[j]
         /\ bit # 7 => call' = call /\ Receiving(P, n)'
         /\ bit = 7 => call' = call + 1 /\ bit' = 0 /\ Asked(P, 20)' /\ Received(P, n)'
<1>t. /\ ChipTypeOK /\ bit \in Nat /\ received \in Seq(Byte) /\ bits \in Nat
      /\ running /\ sclk \in {0, 1} /\ ~malformed
  BY BitsNat DEF WireTypeOK, Doing, Sound
<1>a. PICK x \in Byte : x = ram[P % 256]
  BY <1>t DEF ChipTypeOK
<1>o. ~output
  BY DEF Receiving
<1>1. PICK k \in 0..7 : k = bit
  BY <1>t DEF Receiving
<1>2. Quiet
  <2>1. Listening
    BY <1>1 DEF Receiving, Asked
  <2> QED BY <2>1 DEF Listening, Quiet
<1>3. bitReceive
  BY <1>2, AtReceive, QuietChip
<1>4. Proceeds /\ NextBit /\ sclk' = 1 /\ output' = output
  BY <1>3, <1>t DEF bitReceive, Proceeds
<1>5. PICK p \in 13..20 : p = 13 + k
  OBVIOUS
<1>6. Asked(P, p)' /\ bits' \in Nat /\ ~malformed' /\ UNCHANGED <<targetVars, ram, reg>>
  <2>1. CASE k = 0
    <3>1. sclk = 0 /\ Asked(P, 13)
      BY <1>1, <2>1 DEF Receiving
    <3>2. UNCHANGED chipVars
      BY <1>3, <3>1 DEF bitReceive
    <3>3. Asked(P, p)
      BY <1>5, <2>1, <3>1
    <3> QED BY <1>t, <3>2, <3>3 DEF chipVars, targetVars, Asked, Listening
  <2>2. CASE k # 0
    <3>1. PICK r \in 11..20 : r = 12 + k /\ r + 1 = p
      BY <1>5, <2>2
    <3>2. sclk = 1 /\ Asked(P, r)
      BY <1>1, <2>2, <3>1 DEF Receiving
    <3>3. ChipClock(Level(Driven, Drives))
      BY <1>3, <3>2 DEF bitReceive
    <3>4. Level(Driven, Drives) \in {0, 1}
      BY <1>o, <1>t, DriveType DEF Level, Driven, Nothing
    <3>5. PICK level \in {0, 1} : ChipClock(level)
      BY <3>3, <3>4
    <3>6. /\ Asked(P, r + 1)' /\ bits' \in Nat
          /\ UNCHANGED <<targetVars, wait, ram, reg, malformed>>
      BY <1>t, <3>2, <3>5, AsksBit
    <3> QED BY <1>t, <3>1, <3>6
  <2> QED BY <2>1, <2>2
<1>7. PICK s \in 0..7 : s = 7 - k /\ s = 20 - p /\ s + 1 = 8 - k
  BY <1>5
<1>8. Level(Driven, Drives') = BitAt(x, s) /\ BitAt(x, s) \in {0, 1}
  <2>1. Drives' = BitAt(x, s)
    BY <1>a, <1>6, <1>7, Answers8Next
  <2>2. BitAt(x, s) \in {0, 1}
    BY BitOfByte
  <2> QED BY <1>o, <2>1, <2>2 DEF Level, Driven, Nothing
<1>9. Len(received') = n + 1 /\ received'[n + 1] = Upper(x, s) /\ received' \in Seq(Byte)
      /\ \A j \in 1..n : received'[j] = received[j]
  <2>0. Upper(x, s) \in Byte /\ Upper(x, 8) = 0 /\ Upper(x, s) \in Nat
    <3>1. Upper(x, s) \in Byte
      BY UpperByte
    <3>2. Upper(x, 8) = 0
      BY UpperByte
    <3> QED BY <3>1, <3>2 DEF Byte
  <2>1. 2 * Upper(x, s + 1) + BitAt(x, s) = Upper(x, s)
    BY BitOfByte
  <2>2. CASE k = 0
    <3>1. Len(received) = n /\ bit = 0
      BY <1>1, <2>2 DEF Receiving
    <3>2. s + 1 = 8
      BY <1>7, <2>2
    <3>3. BitAt(x, s) = Upper(x, s)
      BY <1>8, <2>0, <2>1, <3>2
    <3>4. received' = Append(received, Upper(x, s))
      BY <1>3, <1>8, <3>1, <3>3 DEF bitReceive
    <3> QED BY <1>t, <2>0, <3>1, <3>4
  <2>3. CASE k # 0
    <3>1. Len(received) = n + 1 /\ received[n + 1] = Upper(x, s + 1) /\ bit # 0
      BY <1>1, <1>7, <1>a, <2>3 DEF Receiving
    <3>2. received' = [received EXCEPT ![Len(received)] = 2 * @ + BitAt(x, s)]
      BY <1>3, <1>8, <3>1 DEF bitReceive
    <3>3. received' = [received EXCEPT ![n + 1] = Upper(x, s)]
      BY <2>1, <3>1, <3>2
    <3> QED BY <1>t, <2>0, <3>1, <3>3
  <2> QED BY <2>2, <2>3
<1>10. CASE k = 7
  <2>1. call' = call + 1 /\ bit' = 0
    BY <1>1, <1>4, <1>10, NextBitIs
  <2>2. Asked(P, 20)'
    BY <1>5, <1>6, <1>10
  <2>3. Upper(x, s) = x
    BY <1>7, <1>10, UpperByte
  <2>4. Received(P, n)'
    BY <1>6, <1>9, <1>a, <2>3 DEF Received
  <2> QED BY <1>1, <1>4, <1>6, <1>9, <1>10, <2>1, <2>2, <2>4
<1>11. CASE k # 7
  <2>1. call' = call /\ bit' = k + 1 /\ k + 1 < 8
    BY <1>1, <1>4, <1>11, NextBitIs
  <2>2. Asked(P, 12 + bit)' /\ 8 - (k + 1) = s
    BY <1>5, <1>6, <1>7, <2>1 DEF Asked, Listening
  <2>3. Receiving(P, n)'
    BY <1>o, <1>4, <1>6, <1>9, <1>a, <2>1, <2>2 DEF Receiving
  <2> QED BY <1>1, <1>4, <1>6, <1>9, <1>11, <2>1, <2>3
<1> QED BY <1>10, <1>11

\* The address that targetBlockVerify asks for byte i.
LEMMA AskAddress ==
  ASSUME NEW i \in 1..BlockSize
  PROVE  AskByte(i) \div 256 = 5 /\ AskByte(i) % 256 = DataAddr(i) /\ DataAddr(i) \in RamUsed
<1>1. DataAddr(i) \in RamUsed /\ DataAddr(i) \in 128..191
  BY RamParts
<1>2. PICK a \in 128..191 : a = DataAddr(i)
  BY <1>1
<1>3. AskByte(i) = 1280 + a
  BY <1>2 DEF AskByte
<1>4. (1280 + a) \div 256 = 5 /\ (1280 + a) % 256 = a
  OBVIOUS
<1> QED BY <1>1, <1>2, <1>3, <1>4

\* The buffer stays as it is while the RAM does.
LEMMA LoadedStays ==
  ASSUME NEW n, Loaded(dataOUT, n), ram' = ram, dataOUT' = dataOUT
  PROVE  Loaded(dataOUT, n)'
  BY DEF Loaded

\* Byte i is read back and compared, in fourteen calls.
LEMMA CompareStep ==
  ASSUME NEW c \in Nat, NEW i \in 1..BlockSize, ComparesAt(Calls[fn], c, i), WireTypeOK, Sound, running,
         call \in c..(c + 13), Comparing(c, i), Next
  PROVE  /\ received' \in Seq(Byte) /\ ~malformed' /\ UNCHANGED <<targetVars, ram>>
         /\ \/ /\ Steady
               /\ call' \in c..(c + 13) => Comparing(c, i)'
               /\ call' = c + 14 => bit' = 0 /\ Ready' /\ Loaded(dataOUT, i)' /\ Len(received') = i
            \/ GivesUp /\ phase' = "listening" /\ output' = output
<1>t. ChipTypeOK /\ bit \in Nat /\ ~malformed /\ received \in Seq(Byte)
  BY DEF WireTypeOK, Sound
<1>p. PICK P \in Nat : P = AskByte(i) /\ P < 2048
  BY ByteAddress
<1>a. P \div 256 = 5 /\ P % 256 \in RamUsed /\ P % 256 = DataAddr(i)
  BY <1>p, AskAddress
<1>z. PICK z \in Byte : z = (4 * (i - 1)) % 256
  BY ByteAddress
<1>q. /\ \A k \in 0..4 : BitAt(P, 10 - k) = BitAt(176, 7 - k)
      /\ \A k \in 0..5 : BitAt(P, 5 - k) = BitAt(z, 7 - k)
      /\ BitAt(P, 10) = 1
  BY <1>p, <1>z, ByteAddress
<1>0. Loaded(dataOUT, i - 1)
  BY DEF Comparing
<1>k. ASSUME Proceeds, UNCHANGED ram PROVE Loaded(dataOUT, i - 1)'
  BY <1>0, <1>k, LoadedStays DEF Proceeds
<1>l. PICK l \in Nat : l = Len(Calls[fn]) /\ c + 14 <= l
  BY DEF ComparesAt
<1>n. PICK n \in Nat : n = i - 1
  BY ProtocolAssumption
<1>1. CASE call = c
  <2>1. bit = 0 /\ Ready /\ Len(received) = n
    BY <1>1, <1>p, <1>n DEF Comparing
  <2>2. Doing("pp") /\ Quiet
    <3>1. call + 1 = c + 1 /\ call < Len(Calls[fn])
      BY <1>1, <1>l
    <3>2. Calls[fn][c + 1] = pp
      BY DEF ComparesAt
    <3> QED BY <2>1, <3>1, <3>2, AtCall DEF pp, Ready, Listening, Asked, Heard, Took, Quiet
  <2>3. /\ Proceeds /\ output' = TRUE /\ call' = c + 1 /\ bit' = 0
        /\ UNCHANGED <<chipVars, latch, sclk, received>>
    BY <1>1, <2>2, PPStep
  <2>4. UNCHANGED <<phase, tMode, len, bits, ram, targetVars, malformed>>
    BY <2>3 DEF chipVars, targetVars
  <2>5. Heard(P, 11, bit)'
    <3>1. Heard(P, 11, 0)
      BY <1>p, <2>1, OpensFrame
    <3> QED BY <2>3, <2>4, <3>1 DEF Heard, Took
  <2>6. Loaded(dataOUT, i - 1)'
    BY <1>k, <2>3, <2>4
  <2>7. Comparing(c, i)'
    BY <1>p, <1>n, <2>1, <2>3, <2>4, <2>5, <2>6 DEF Comparing
  <2>8. received' \in Seq(Byte) /\ ~malformed' /\ UNCHANGED <<targetVars, ram>>
    BY <1>t, <2>3, <2>4
  <2>9. call' \in {call, call + 1} /\ call' # c + 14
    BY <1>1, <2>3
  <2> QED BY <2>3, <2>7, <2>8, <2>9 DEF Steady
<1>2. CASE call = c + 1
  <2>1. bit < 5 /\ output /\ Heard(P, 11, bit) /\ Len(received) = n
    BY <1>2, <1>p, <1>n DEF Comparing
  <2>2. Now = [do |-> "send", bytes |-> read_byte_v, n |-> 5] /\ Doing("send") /\ "send" \in Sends
    <3>1. call + 1 = c + 2 /\ call < Len(Calls[fn])
      BY <1>2, <1>l
    <3>2. Calls[fn][c + 2] = [do |-> "send", bytes |-> read_byte_v, n |-> 5]
      BY DEF ComparesAt
    <3> QED BY <3>1, <3>2, AtCall DEF Sends
  <2>3. PICK k \in 0..4 : k = bit
    BY <1>t, <2>1
  <2>4. Sending = BitAt(P, 10 - k)
    <3>1. Sending = BitOf(read_byte_v, k + 1)
      BY <2>2, <2>3 DEF Sending
    <3> QED BY <1>q, <3>1, ReadByteSent
  <2>5. PICK L \in 1..22, e \in 0..20 : L = 11 /\ e = k
    OBVIOUS
  <2>6. e < L /\ Heard(P, L, e) /\ (e = 0 => BitAt(P, L - 1) = 1) /\ Sending = BitAt(P, L - e - 1)
    BY <1>q, <2>1, <2>3, <2>4, <2>5
  <2>7. /\ Proceeds /\ NextBit /\ Heard(P, L, e + 1)' /\ ~malformed'
        /\ UNCHANGED <<output, received, targetVars, wait, ram, reg>>
    BY <2>1, <2>2, <2>6, SendsBit
  <2>x. Loaded(dataOUT, i - 1)'
    BY <1>k, <2>7
  <2>8. CASE k = 4
    <3>1. call' = c + 2 /\ bit' = 0
      BY <1>2, <2>2, <2>3, <2>7, <2>8, NextBitIs
    <3>2. Heard(P, 11, 5)'
      BY <2>5, <2>7, <2>8
    <3>3. Comparing(c, i)'
      BY <1>p, <1>n, <2>1, <2>7, <2>x, <3>1, <3>2 DEF Comparing
    <3> QED BY <1>2, <1>t, <2>7, <3>1, <3>3 DEF Steady
  <2>9. CASE k # 4
    <3>1. call' = c + 1 /\ bit' = k + 1 /\ k + 1 < 5
      BY <1>2, <2>2, <2>3, <2>7, <2>9, NextBitIs
    <3>2. Heard(P, 11, bit)'
      BY <2>5, <2>7, <3>1 DEF Heard, Took
    <3>3. Comparing(c, i)'
      BY <1>p, <1>n, <2>1, <2>7, <2>x, <3>1, <3>2 DEF Comparing
    <3> QED BY <1>2, <1>t, <2>7, <3>1, <3>3 DEF Steady
  <2> QED BY <2>8, <2>9
<1>3. CASE call = c + 2
  <2>1. bit = 0 /\ output /\ Heard(P, 11, 5) /\ Len(received) = n
    BY <1>3, <1>p, <1>n DEF Comparing
  <2>2. Doing("hiz") /\ Quiet
    <3>1. call + 1 = c + 3 /\ call < Len(Calls[fn])
      BY <1>3, <1>l
    <3>2. Calls[fn][c + 3] = hiz
      BY DEF ComparesAt
    <3> QED BY <2>1, <3>1, <3>2, AtCall DEF hiz, Ready, Listening, Asked, Heard, Took, Quiet
  <2>3. /\ Proceeds /\ output' = FALSE /\ call' = c + 3 /\ bit' = 0
        /\ UNCHANGED <<chipVars, latch, sclk, received>>
    BY <1>3, <2>2, HiZStep
  <2>4. UNCHANGED <<phase, tMode, len, bits, ram, targetVars, malformed>>
    BY <2>3 DEF chipVars, targetVars
  <2>5. Heard(P, 11, 5)'
    BY <2>1, <2>4 DEF Heard, Took
  <2>6. Loaded(dataOUT, i - 1)'
    BY <1>k, <2>3, <2>4
  <2>7. Comparing(c, i)'
    BY <1>p, <1>n, <2>1, <2>3, <2>4, <2>5, <2>6 DEF Comparing
  <2>8. received' \in Seq(Byte) /\ ~malformed' /\ UNCHANGED <<targetVars, ram>>
    BY <1>t, <2>3, <2>4
  <2>9. call' \in {call, call + 1} /\ call' # c + 14
    BY <1>3, <2>3
  <2> QED BY <2>3, <2>7, <2>8, <2>9 DEF Steady
<1>4. CASE call = c + 3
  <2>1. bit = 0 /\ Heard(P, 11, 5) /\ Len(received) = n
    BY <1>4, <1>p, <1>n DEF Comparing
  <2>2. Doing("pp") /\ Quiet
    <3>1. call + 1 = c + 4 /\ call < Len(Calls[fn])
      BY <1>4, <1>l
    <3>2. Calls[fn][c + 4] = pp
      BY DEF ComparesAt
    <3> QED BY <2>1, <3>1, <3>2, AtCall DEF pp, Ready, Listening, Asked, Heard, Took, Quiet
  <2>3. /\ Proceeds /\ output' = TRUE /\ call' = c + 4 /\ bit' = 0
        /\ UNCHANGED <<chipVars, latch, sclk, received>>
    BY <1>4, <2>2, PPStep
  <2>4. UNCHANGED <<phase, tMode, len, bits, ram, targetVars, malformed>>
    BY <2>3 DEF chipVars, targetVars
  <2>5. Heard(P, 11, 5 + bit)'
    BY <2>1, <2>3, <2>4 DEF Heard, Took
  <2>6. Loaded(dataOUT, i - 1)'
    BY <1>k, <2>3, <2>4
  <2>7. Comparing(c, i)'
    BY <1>p, <1>n, <2>1, <2>3, <2>4, <2>5, <2>6 DEF Comparing
  <2>8. received' \in Seq(Byte) /\ ~malformed' /\ UNCHANGED <<targetVars, ram>>
    BY <1>t, <2>3, <2>4
  <2>9. call' \in {call, call + 1} /\ call' # c + 14
    BY <1>4, <2>3
  <2> QED BY <2>3, <2>7, <2>8, <2>9 DEF Steady
<1>5. CASE call = c + 4
  <2>1. bit < 6 /\ output /\ Heard(P, 11, 5 + bit) /\ Len(received) = n
    BY <1>5, <1>p, <1>n DEF Comparing
  <2>2. Now = [do |-> "send", bytes |-> <<z>>, n |-> 6] /\ Doing("send") /\ "send" \in Sends
    <3>1. call + 1 = c + 5 /\ call < Len(Calls[fn])
      BY <1>5, <1>l
    <3>2. Calls[fn][c + 5] = [do |-> "send", bytes |-> <<z>>, n |-> 6]
      BY <1>z DEF ComparesAt, byteSend
    <3> QED BY <3>1, <3>2, AtCall DEF Sends
  <2>3. PICK k \in 0..5 : k = bit
    BY <1>t, <2>1
  <2>4. Sending = BitAt(P, 5 - k)
    <3>1. Sending = BitOf(<<z>>, k + 1)
      BY <2>2, <2>3 DEF Sending
    <3>2. k \in 0..7
      OBVIOUS
    <3>3. BitOf(<<z>>, k + 1) = BitAt(z, 7 - k)
      BY <3>2, ByteBits
    <3> QED BY <1>q, <3>1, <3>3
  <2>5. PICK L \in 1..22, e \in 0..20 : L = 11 /\ e = 5 + k
    OBVIOUS
  <2>6. e < L /\ Heard(P, L, e) /\ (e = 0 => BitAt(P, L - 1) = 1) /\ Sending = BitAt(P, L - e - 1)
    <3>1. L - e - 1 = 5 - k /\ e # 0 /\ e < L
      BY <2>5
    <3> QED BY <2>1, <2>3, <2>4, <2>5, <3>1
  <2>7. /\ Proceeds /\ NextBit /\ Heard(P, L, e + 1)' /\ ~malformed'
        /\ UNCHANGED <<output, received, targetVars, wait, ram, reg>>
    BY <2>1, <2>2, <2>6, SendsBit
  <2>x. Loaded(dataOUT, i - 1)'
    BY <1>k, <2>7
  <2>8. CASE k = 5
    <3>1. call' = c + 5 /\ bit' = 0
      BY <1>5, <2>2, <2>3, <2>7, <2>8, NextBitIs
    <3>2. Heard(P, 11, 11)'
      BY <2>5, <2>7, <2>8
    <3>3. Comparing(c, i)'
      BY <1>p, <1>n, <2>1, <2>7, <2>x, <3>1, <3>2 DEF Comparing
    <3> QED BY <1>5, <1>t, <2>7, <3>1, <3>3 DEF Steady
  <2>9. CASE k # 5
    <3>1. call' = c + 4 /\ bit' = k + 1 /\ k + 1 < 6
      BY <1>5, <2>2, <2>3, <2>7, <2>9, NextBitIs
    <3>2. e + 1 = 5 + (k + 1)
      BY <2>5
    <3>3. Heard(P, 11, 5 + bit)'
      BY <2>5, <2>7, <3>1, <3>2 DEF Heard, Took
    <3>4. Comparing(c, i)'
      BY <1>p, <1>n, <2>1, <2>7, <2>x, <3>1, <3>3 DEF Comparing
    <3> QED BY <1>5, <1>t, <2>7, <3>1, <3>4 DEF Steady
  <2> QED BY <2>8, <2>9
<1>6. CASE call = c + 5
  <2>1. bit = 0 /\ output /\ Heard(P, 11, 11) /\ Len(received) = n
    BY <1>6, <1>p, <1>n DEF Comparing
  <2>2. Doing("clock")
    <3>1. call + 1 = c + 6 /\ call < Len(Calls[fn])
      BY <1>6, <1>l
    <3>2. Calls[fn][c + 6] = clock
      BY DEF ComparesAt
    <3> QED BY <3>1, <3>2, AtCall DEF clock
  <2>x. Asked(P, 11)
    BY <2>1, AskedHeard
  <2>y. PICK k \in 11..20 : k = 11
    OBVIOUS
  <2>3. Asked(P, k)
    BY <2>x, <2>y
  <2>4. /\ Proceeds /\ call' = c + 6 /\ bit' = 0 /\ sclk' = 0 /\ Asked(P, k + 1)' /\ ~malformed'
        /\ UNCHANGED <<output, received, targetVars, ram, reg>>
    BY <1>6, <2>2, <2>3, AskClock
  <2>5. Asked(P, 12)'
    BY <2>4, <2>y
  <2>6. Loaded(dataOUT, i - 1)'
    BY <1>k, <2>4
  <2>7. Comparing(c, i)'
    BY <1>p, <1>n, <2>1, <2>4, <2>5, <2>6 DEF Comparing
  <2> QED BY <1>6, <1>t, <2>4, <2>7 DEF Steady
<1>7. CASE call = c + 6
  <2>1. bit = 0 /\ output /\ Asked(P, 12) /\ Len(received) = n
    BY <1>7, <1>p, <1>n DEF Comparing
  <2>2. Doing("clock")
    <3>1. call + 1 = c + 7 /\ call < Len(Calls[fn])
      BY <1>7, <1>l
    <3>2. Calls[fn][c + 7] = clock
      BY DEF ComparesAt
    <3> QED BY <3>1, <3>2, AtCall DEF clock
  <2>x. Asked(P, 12)
    BY <2>1
  <2>y. PICK k \in 11..20 : k = 12
    OBVIOUS
  <2>3. Asked(P, k)
    BY <2>x, <2>y
  <2>4. /\ Proceeds /\ call' = c + 7 /\ bit' = 0 /\ sclk' = 0 /\ Asked(P, k + 1)' /\ ~malformed'
        /\ UNCHANGED <<output, received, targetVars, ram, reg>>
    BY <1>7, <2>2, <2>3, AskClock
  <2>5. Asked(P, 13)'
    BY <2>4, <2>y
  <2>6. Loaded(dataOUT, i - 1)'
    BY <1>k, <2>4
  <2>7. Comparing(c, i)'
    BY <1>p, <1>n, <2>1, <2>4, <2>5, <2>6 DEF Comparing
  <2> QED BY <1>7, <1>t, <2>4, <2>7 DEF Steady
<1>8. CASE call = c + 7
  <2>1. bit = 0 /\ output /\ Asked(P, 13) /\ sclk = 0 /\ Len(received) = n
    BY <1>8, <1>p, <1>n DEF Comparing
  <2>2. Doing("hiz") /\ Quiet
    <3>1. call + 1 = c + 8 /\ call < Len(Calls[fn])
      BY <1>8, <1>l
    <3>2. Calls[fn][c + 8] = hiz
      BY DEF ComparesAt
    <3> QED BY <2>1, <3>1, <3>2, AtCall DEF hiz, Listening, Asked, Quiet
  <2>3. /\ Proceeds /\ output' = FALSE /\ call' = c + 8 /\ bit' = 0
        /\ UNCHANGED <<chipVars, latch, sclk, received>>
    BY <1>8, <2>2, HiZStep
  <2>4. UNCHANGED <<phase, tMode, len, bits, ram, targetVars, malformed>>
    BY <2>3 DEF chipVars, targetVars
  <2>5. Receiving(P, n)'
    BY <2>1, <2>3, <2>4 DEF Receiving, Asked, Listening
  <2>6. Loaded(dataOUT, i - 1)'
    BY <1>k, <2>3, <2>4
  <2>7. Comparing(c, i)'
    BY <1>p, <1>n, <2>3, <2>5, <2>6 DEF Comparing
  <2> QED BY <1>8, <1>t, <2>3, <2>4, <2>7 DEF Steady
<1>9. CASE call = c + 8
  <2>1. Receiving(P, n)
    BY <1>9, <1>p, <1>n DEF Comparing
  <2>2. Doing("receive") /\ Now.n = 8
    <3>1. call + 1 = c + 9 /\ call < Len(Calls[fn])
      BY <1>9, <1>l
    <3>2. Calls[fn][c + 9] = receive
      BY DEF ComparesAt
    <3> QED BY <3>1, <3>2, AtCall DEF receive
  <2>3. /\ Proceeds /\ ~malformed' /\ UNCHANGED <<output, targetVars, ram, reg>>
        /\ received' \in Seq(Byte) /\ \A j \in 1..n : received'[j] = received[j]
        /\ bit # 7 => call' = call /\ Receiving(P, n)'
        /\ bit = 7 => call' = call + 1 /\ bit' = 0 /\ Asked(P, 20)' /\ Received(P, n)'
    BY <1>a, <2>1, <2>2, ReceiveStep
  <2>4. Loaded(dataOUT, i - 1)' /\ ~output'
    BY <1>k, <2>1, <2>3 DEF Receiving
  <2>5. CASE bit # 7
    <3>1. Comparing(c, i)'
      BY <1>9, <1>p, <1>n, <2>3, <2>4, <2>5 DEF Comparing
    <3> QED BY <1>9, <2>3, <2>5, <3>1 DEF Steady
  <2>6. CASE bit = 7
    <3>0. call' = c + 9 /\ bit' = 0 /\ Asked(AskByte(i), 20)' /\ Received(AskByte(i), i - 1)'
      BY <1>9, <1>p, <1>n, <2>3, <2>6
    <3>1. Comparing(c, i)'
      BY <2>4, <3>0 DEF Comparing
    <3> QED BY <1>9, <2>3, <2>6, <3>0, <3>1 DEF Steady
  <2> QED BY <2>5, <2>6
<1>10. CASE call = c + 9
  <2>1. bit = 0 /\ ~output /\ Asked(P, 20) /\ Received(P, n)
    BY <1>10, <1>p, <1>n DEF Comparing
  <2>2. Doing("clock")
    <3>1. call + 1 = c + 10 /\ call < Len(Calls[fn])
      BY <1>10, <1>l
    <3>2. Calls[fn][c + 10] = clock
      BY DEF ComparesAt
    <3> QED BY <3>1, <3>2, AtCall DEF clock
  <2>x. Asked(P, 20)
    BY <2>1
  <2>y. PICK k \in 11..20 : k = 20
    OBVIOUS
  <2>3. Asked(P, k)
    BY <2>x, <2>y
  <2>4. /\ Proceeds /\ call' = c + 10 /\ bit' = 0 /\ sclk' = 0 /\ Asked(P, k + 1)' /\ ~malformed'
        /\ UNCHANGED <<output, received, targetVars, ram, reg>>
    BY <1>10, <2>2, <2>3, AskClock
  <2>5. Asked(P, 21)'
    BY <2>4, <2>y
  <2>6. Loaded(dataOUT, i - 1)'
    BY <1>k, <2>4
  <2>z. call' = c + 10 /\ bit' = 0 /\ ~output' /\ Received(P, n)'
    BY <2>1, <2>4 DEF Received
  <2>7. Comparing(c, i)'
    BY <1>p, <1>n, <2>5, <2>6, <2>z DEF Comparing
  <2> QED BY <1>10, <1>t, <2>4, <2>7 DEF Steady
<1>11. CASE call = c + 10
  <2>1. bit = 0 /\ ~output /\ Asked(P, 21) /\ Received(P, n)
    BY <1>11, <1>p, <1>n DEF Comparing
  <2>2. Doing("pp") /\ Quiet
    <3>1. call + 1 = c + 11 /\ call < Len(Calls[fn])
      BY <1>11, <1>l
    <3>2. Calls[fn][c + 11] = pp
      BY DEF ComparesAt
    <3> QED BY <2>1, <3>1, <3>2, AtCall DEF pp, Ready, Listening, Asked, Heard, Took, Quiet
  <2>3. /\ Proceeds /\ output' = TRUE /\ call' = c + 11 /\ bit' = 0
        /\ UNCHANGED <<chipVars, latch, sclk, received>>
    BY <1>11, <2>2, PPStep
  <2>4. UNCHANGED <<phase, tMode, len, bits, ram, targetVars, malformed>>
    BY <2>3 DEF chipVars, targetVars
  <2>5. Asked(P, 21)'
    BY <2>1, <2>4 DEF Asked, Listening
  <2>6. Loaded(dataOUT, i - 1)'
    BY <1>k, <2>3, <2>4
  <2>7. Comparing(c, i)'
    BY <1>p, <1>n, <2>1, <2>3, <2>4, <2>5, <2>6 DEF Comparing, Received
  <2>8. received' \in Seq(Byte) /\ ~malformed' /\ UNCHANGED <<targetVars, ram>>
    BY <1>t, <2>3, <2>4
  <2>9. call' \in {call, call + 1} /\ call' # c + 14
    BY <1>11, <2>3
  <2> QED BY <2>3, <2>7, <2>8, <2>9 DEF Steady
<1>12. CASE call = c + 11
  <2>1. bit = 0 /\ output /\ Asked(P, 21) /\ Received(P, n)
    BY <1>12, <1>p, <1>n DEF Comparing
  <2>2. Now = [do |-> "send", bytes |-> From(read_byte_v, 1), n |-> 1] /\ Doing("send") /\ "send" \in Sends
    <3>1. call + 1 = c + 12 /\ call < Len(Calls[fn])
      BY <1>12, <1>l
    <3>2. Calls[fn][c + 12] = [do |-> "send", bytes |-> From(read_byte_v, 1), n |-> 1]
      BY DEF ComparesAt
    <3> QED BY <3>1, <3>2, AtCall DEF Sends
  <2>3. Sending \in {0, 1}
    BY <2>1, <2>2, ReadByteSent DEF Sending
  <2>4. /\ Proceeds /\ NextBit /\ Ready' /\ ~malformed'
        /\ UNCHANGED <<output, received, targetVars, ram, reg>>
    BY <1>a, <2>1, <2>2, <2>3, AskClockEnd
  <2>5. call' = c + 12 /\ bit' = 0
    BY <1>12, <2>1, <2>2, <2>4, NextBitIs
  <2>6. Loaded(dataOUT, i - 1)'
    BY <1>k, <2>4
  <2>z. output' /\ Ready' /\ Received(P, n)'
    BY <2>1, <2>4 DEF Received
  <2>7. Comparing(c, i)'
    BY <1>p, <1>n, <2>5, <2>6, <2>z DEF Comparing
  <2> QED BY <1>12, <1>t, <2>4, <2>5, <2>7 DEF Steady
<1>13. CASE call = c + 12
  <2>1. bit = 0 /\ output /\ Ready /\ Received(P, n)
    BY <1>13, <1>p, <1>n DEF Comparing
  <2>2. Doing("hiz") /\ Quiet
    <3>1. call + 1 = c + 13 /\ call < Len(Calls[fn])
      BY <1>13, <1>l
    <3>2. Calls[fn][c + 13] = hiz
      BY DEF ComparesAt
    <3> QED BY <2>1, <3>1, <3>2, AtCall DEF hiz, Ready, Listening, Asked, Heard, Took, Quiet
  <2>3. /\ Proceeds /\ output' = FALSE /\ call' = c + 13 /\ bit' = 0
        /\ UNCHANGED <<chipVars, latch, sclk, received>>
    BY <1>13, <2>2, HiZStep
  <2>4. UNCHANGED <<phase, tMode, len, bits, ram, targetVars, malformed>>
    BY <2>3 DEF chipVars, targetVars
  <2>5. Ready'
    BY <2>1, <2>4 DEF Ready, Listening
  <2>6. Loaded(dataOUT, i - 1)'
    BY <1>k, <2>3, <2>4
  <2>7. Comparing(c, i)'
    BY <1>p, <1>n, <2>1, <2>3, <2>4, <2>5, <2>6 DEF Comparing, Received
  <2>8. received' \in Seq(Byte) /\ ~malformed' /\ UNCHANGED <<targetVars, ram>>
    BY <1>t, <2>3, <2>4
  <2>9. call' \in {call, call + 1} /\ call' # c + 14
    BY <1>13, <2>3
  <2> QED BY <2>3, <2>7, <2>8, <2>9 DEF Steady
<1>14. CASE call = c + 13
  <2>1. bit = 0 /\ Ready /\ Received(P, n)
    BY <1>14, <1>p, <1>n DEF Comparing
  <2>2. Now = [do |-> "compare", i |-> i] /\ Doing("compare")
    <3>1. call + 1 = c + 14 /\ call < Len(Calls[fn])
      BY <1>14, <1>l
    <3>2. Calls[fn][c + 14] = [do |-> "compare", i |-> i]
      BY DEF ComparesAt
    <3> QED BY <3>1, <3>2, AtCall
  <2>3. check
    <3>1. Quiet
      BY <2>1 DEF Ready, Listening, Quiet
    <3> QED BY <2>2, <3>1, AtCompare, QuietChip
  <2>4. UNCHANGED <<phase, tMode, len, bits, ram, targetVars, malformed, fn, output, received, dataOUT, blockNum>>
    BY <2>3 DEF check, chipVars, targetVars
  <2>5. CASE Expected
    <3>1. NextCall /\ UNCHANGED <<running, ok, failed>>
      BY <2>3, <2>5 DEF check
    <3>2. call' = c + 14 /\ bit' = 0 /\ Proceeds
      BY <1>14, <2>4, <3>1 DEF NextCall, Proceeds
    <3>3. received[i] = dataOUT[i]
      BY <2>2, <2>5 DEF Expected
    <3>4. ram[DataAddr(i)] = dataOUT[i] /\ Len(received) = i
      BY <1>a, <1>n, <2>1, <3>3 DEF Received
    <3>5. Loaded(dataOUT, i)
      <4>1. ASSUME NEW j \in 1..i PROVE ram[DataAddr(j)] = dataOUT[j]
        BY <1>0, <3>4 DEF Loaded
      <4> QED BY <4>1 DEF Loaded
    <3>6. Loaded(dataOUT, i)'
      BY <2>4, <3>5, LoadedStays
    <3>7. Ready'
      BY <2>1, <2>4 DEF Ready, Listening
    <3> QED BY <1>14, <1>t, <2>4, <3>2, <3>4, <3>6, <3>7 DEF Steady
  <2>6. CASE ~Expected
    <3>1. Return(FALSE)
      BY <2>3, <2>6 DEF check
    <3>2. GivesUp
      BY <2>4, <3>1 DEF Return, GivesUp
    <3> QED BY <1>t, <2>1, <2>4, <3>2 DEF Ready, Listening
  <2> QED BY <2>5, <2>6
<1> QED BY <1>1, <1>2, <1>3, <1>4, <1>5, <1>6, <1>7, <1>8, <1>9, <1>10, <1>11, <1>12, <1>13, <1>14

\* One answer of the two of ReadTwice.
LEMMA AnswerStep ==
  ASSUME NEW e \in Nat, AnswersAt(Calls[fn], e), WireTypeOK, Sound, running, NEW P \in Nat, P \div 256 = 5,
         P % 256 \in RamUsed, NEW n \in Nat, call \in e..(e + 4), Answer(e, P, n), Next
  PROVE  /\ Steady /\ UNCHANGED <<ram, reg>> /\ Answer(e, P, n)'
         /\ received' \in Seq(Byte) /\ \A j \in 1..n : received'[j] = received[j]
<1>t. ChipTypeOK /\ bit \in Nat /\ ~malformed /\ received \in Seq(Byte)
  BY DEF WireTypeOK, Sound
<1>l. PICK l \in Nat : l = Len(Calls[fn]) /\ e + 5 <= l
  BY DEF AnswersAt
<1>1. CASE call = e
  <2>1. bit = 0 /\ output /\ Heard(P, 11, 11) /\ Len(received) = n
    BY <1>1 DEF Answer
  <2>2. Doing("hiz") /\ Quiet
    <3>1. call + 1 = e + 1 /\ call < Len(Calls[fn])
      BY <1>1, <1>l
    <3>2. Calls[fn][e + 1] = hiz
      BY DEF AnswersAt
    <3> QED BY <2>1, <3>1, <3>2, AtCall DEF hiz, Heard, Took, Quiet
  <2>3. /\ Proceeds /\ output' = FALSE /\ call' = e + 1 /\ bit' = 0
        /\ UNCHANGED <<chipVars, latch, sclk, received>>
    BY <1>1, <2>2, HiZStep
  <2>4. UNCHANGED <<phase, tMode, len, bits, ram, reg, targetVars, malformed>>
    BY <2>3 DEF chipVars, targetVars
  <2>5. Heard(P, 11, 11)'
    BY <2>1, <2>4 DEF Heard, Took
  <2>6. Answer(e, P, n)'
    BY <2>1, <2>3, <2>5 DEF Answer
  <2>7. received' \in Seq(Byte) /\ ~malformed' /\ \A j \in 1..n : received'[j] = received[j]
    BY <1>t, <2>3, <2>4
  <2>8. call' \in {call, call + 1}
    BY <1>1, <2>3
  <2> QED BY <2>3, <2>4, <2>6, <2>7, <2>8 DEF Steady
<1>2. CASE call = e + 1
  <2>1. bit = 0 /\ ~output /\ Heard(P, 11, 11) /\ Len(received) = n
    BY <1>2 DEF Answer
  <2>2. Doing("clock")
    <3>1. call + 1 = e + 2 /\ call < Len(Calls[fn])
      BY <1>2, <1>l
    <3>2. Calls[fn][e + 2] = clock
      BY DEF AnswersAt
    <3> QED BY <3>1, <3>2, AtCall DEF clock
  <2>x. Asked(P, 11)
    BY <2>1, AskedHeard
  <2>y. PICK k \in 11..20 : k = 11
    OBVIOUS
  <2>3. Asked(P, k)
    BY <2>x, <2>y
  <2>4. /\ Proceeds /\ call' = e + 2 /\ bit' = 0 /\ sclk' = 0 /\ Asked(P, k + 1)' /\ ~malformed'
        /\ UNCHANGED <<output, received, targetVars, ram, reg>>
    BY <1>2, <2>2, <2>3, AskClock
  <2>5. Asked(P, 12)'
    BY <2>4, <2>y
  <2>6. call' = e + 2 /\ bit' = 0 /\ ~output' /\ Len(received') = n
    BY <2>1, <2>4
  <2>7. Answer(e, P, n)'
    BY <2>5, <2>6 DEF Answer
  <2>8. received' \in Seq(Byte) /\ \A j \in 1..n : received'[j] = received[j]
    BY <1>t, <2>4
  <2>9. call' \in {call, call + 1}
    BY <1>2, <2>4
  <2> QED BY <2>4, <2>7, <2>8, <2>9 DEF Steady
<1>3. CASE call = e + 2
  <2>1. bit = 0 /\ ~output /\ Asked(P, 12) /\ Len(received) = n
    BY <1>3 DEF Answer
  <2>2. Doing("clock")
    <3>1. call + 1 = e + 3 /\ call < Len(Calls[fn])
      BY <1>3, <1>l
    <3>2. Calls[fn][e + 3] = clock
      BY DEF AnswersAt
    <3> QED BY <3>1, <3>2, AtCall DEF clock
  <2>x. Asked(P, 12)
    BY <2>1
  <2>y. PICK k \in 11..20 : k = 12
    OBVIOUS
  <2>3. Asked(P, k)
    BY <2>x, <2>y
  <2>4. /\ Proceeds /\ call' = e + 3 /\ bit' = 0 /\ sclk' = 0 /\ Asked(P, k + 1)' /\ ~malformed'
        /\ UNCHANGED <<output, received, targetVars, ram, reg>>
    BY <1>3, <2>2, <2>3, AskClock
  <2>5. Asked(P, 13)'
    BY <2>4, <2>y
  <2>6. call' = e + 3 /\ Receiving(P, n)'
    BY <2>1, <2>4, <2>5 DEF Receiving
  <2>7. Answer(e, P, n)'
    BY <2>6 DEF Answer
  <2>8. received' \in Seq(Byte) /\ \A j \in 1..n : received'[j] = received[j]
    BY <1>t, <2>4
  <2>9. call' \in {call, call + 1}
    BY <1>3, <2>4
  <2> QED BY <2>4, <2>7, <2>8, <2>9 DEF Steady
<1>4. CASE call = e + 3
  <2>1. Receiving(P, n)
    BY <1>4 DEF Answer
  <2>2. Doing("receive") /\ Now.n = 8
    <3>1. call + 1 = e + 4 /\ call < Len(Calls[fn])
      BY <1>4, <1>l
    <3>2. Calls[fn][e + 4] = receive
      BY DEF AnswersAt
    <3> QED BY <3>1, <3>2, AtCall DEF receive
  <2>3. /\ Proceeds /\ ~malformed' /\ UNCHANGED <<output, targetVars, ram, reg>>
        /\ received' \in Seq(Byte) /\ \A j \in 1..n : received'[j] = received[j]
        /\ bit # 7 => call' = call /\ Receiving(P, n)'
        /\ bit = 7 => call' = call + 1 /\ bit' = 0 /\ Asked(P, 20)' /\ Received(P, n)'
    BY <2>1, <2>2, ReceiveStep
  <2>4. ~output'
    BY <2>1, <2>3 DEF Receiving
  <2>5. CASE bit # 7
    <3>0. call' = e + 3 /\ Receiving(P, n)'
      BY <1>4, <2>3, <2>5
    <3>1. Answer(e, P, n)'
      BY <3>0 DEF Answer
    <3> QED BY <1>4, <2>3, <2>5, <3>1 DEF Steady
  <2>6. CASE bit = 7
    <3>0. call' = e + 4 /\ bit' = 0 /\ Asked(P, 20)' /\ Received(P, n)'
      BY <1>4, <2>3, <2>6
    <3>1. Answer(e, P, n)'
      BY <2>4, <3>0 DEF Answer
    <3> QED BY <1>4, <2>3, <2>6, <3>0, <3>1 DEF Steady
  <2> QED BY <2>5, <2>6
<1>5. CASE call = e + 4
  <2>1. bit = 0 /\ ~output /\ Asked(P, 20) /\ Received(P, n)
    BY <1>5 DEF Answer
  <2>2. Doing("clock")
    <3>1. call + 1 = e + 5 /\ call < Len(Calls[fn])
      BY <1>5, <1>l
    <3>2. Calls[fn][e + 5] = clock
      BY DEF AnswersAt
    <3> QED BY <3>1, <3>2, AtCall DEF clock
  <2>x. Asked(P, 20)
    BY <2>1
  <2>y. PICK k \in 11..20 : k = 20
    OBVIOUS
  <2>3. Asked(P, k)
    BY <2>x, <2>y
  <2>4. /\ Proceeds /\ call' = e + 5 /\ bit' = 0 /\ sclk' = 0 /\ Asked(P, k + 1)' /\ ~malformed'
        /\ UNCHANGED <<output, received, targetVars, ram, reg>>
    BY <1>5, <2>2, <2>3, AskClock
  <2>5. Asked(P, 21)'
    BY <2>4, <2>y
  <2>6. call' = e + 5 /\ bit' = 0 /\ ~output' /\ Received(P, n)'
    BY <2>1, <2>4 DEF Received
  <2>7. Answer(e, P, n)'
    BY <2>5, <2>6 DEF Answer
  <2>8. received' \in Seq(Byte) /\ \A j \in 1..n : received'[j] = received[j]
    BY <1>t, <2>4
  <2>9. call' \in {call, call + 1}
    BY <1>5, <2>4
  <2> QED BY <2>4, <2>7, <2>8, <2>9 DEF Steady
<1> QED BY <1>1, <1>2, <1>3, <1>4, <1>5

\* Nothing is said of an answer outside its own calls.
LEMMA AnswerElsewhere ==
  ASSUME NEW e \in Nat, call' \in Nat, call' < e \/ call' > e + 5
  PROVE  \A P, n : Answer(e, P, n)'
  BY DEF Answer

\* The four stretches of reading two bytes, each enough by itself.
LEMMA ReadingFirst ==
  ASSUME NEW c \in Nat, NEW P, NEW Q, call' = c + 1, bit' < 11, output', Heard(P, 11, bit)', Len(received') = 0
  PROVE  ReadingTwice(c, P, Q)'
<1>1. Answer(c + 2, P, 0)' /\ Answer(c + 9, Q, 1)'
  BY AnswerElsewhere
<1> QED BY <1>1 DEF ReadingTwice

\* While the first byte is being answered, the function reads twice.
LEMMA ReadingAnswer ==
  ASSUME NEW c \in Nat, NEW P, NEW Q, call' \in (c + 2)..(c + 7), Answer(c + 2, P, 0)'
  PROVE  ReadingTwice(c, P, Q)'
<1>1. Answer(c + 9, Q, 1)'
  BY AnswerElsewhere
<1> QED BY <1>1 DEF ReadingTwice

\* While the second frame is being sent, the function reads twice.
LEMMA ReadingSecond ==
  ASSUME NEW c \in Nat, NEW P, NEW Q, call' = c + 8, bit' < 12, bit' # 0, output', Received(P, 0)',
         Heard(Q, 11, bit - 1)'
  PROVE  ReadingTwice(c, P, Q)'
<1>1. Answer(c + 2, P, 0)' /\ Answer(c + 9, Q, 1)'
  BY AnswerElsewhere
<1> QED BY <1>1 DEF ReadingTwice

\* When the second frame has gone out, the function reads twice.
LEMMA ReadingAgain ==
  ASSUME NEW c \in Nat, NEW P, NEW Q, call' = c + 9, bit' = 0, output', Heard(Q, 11, 11)',
         received'[1] = ram'[P % 256], Len(received') = 1
  PROVE  ReadingTwice(c, P, Q)'
<1>1. Answer(c + 2, P, 0)'
  BY AnswerElsewhere
<1>2. PICK e \in Nat : e = c + 9
  OBVIOUS
<1>3. Answer(e, Q, 1)'
  BY <1>2 DEF Answer
<1>4. Answer(c + 9, Q, 1)'
  BY <1>2, <1>3
<1> QED BY <1>1, <1>4 DEF ReadingTwice

\* While the second byte comes in, the first stays what it was.
LEMMA ReadingOn ==
  ASSUME NEW c \in Nat, NEW P, NEW Q, call' \in (c + 9)..(c + 14),
         received'[1] = ram'[P % 256], Answer(c + 2, P, 0)', Answer(c + 9, Q, 1)'
  PROVE  ReadingTwice(c, P, Q)'
<1>1. /\ call' # c /\ call' # c + 1 /\ call' # c + 8
      /\ call' # c + 15 /\ call' # c + 16 /\ call' # c + 17
  OBVIOUS
<1> QED BY <1>1 DEF ReadingTwice

\* Two bytes of RAM are read, in seventeen calls.
LEMMA ReadStep ==
  ASSUME NEW c \in Nat, NEW V, NEW W, ReadsAt(Calls[fn], c, V, W), WireTypeOK, Sound, running,
         NEW P \in Nat, P \div 256 = 5, P % 256 \in RamUsed, CarriesAddress(V, P, 0),
         NEW Q \in Nat, Q \div 256 = 5, Q % 256 \in RamUsed, CarriesAddress(From(V, 2), Q, 1),
         BitOf(From(V, 2), 1) \in {0, 1}, BitOf(W, 1) \in {0, 1},
         call \in c..(c + 16), ReadingTwice(c, P, Q), Next
  PROVE  /\ Steady /\ UNCHANGED <<ram, reg>> /\ ReadingTwice(c, P, Q)' /\ received' \in Seq(Byte)
<1>t. ChipTypeOK /\ bit \in Nat /\ ~malformed /\ received \in Seq(Byte)
  BY DEF WireTypeOK, Sound
<1>l. PICK l \in Nat : l = Len(Calls[fn]) /\ c + 17 <= l
  BY DEF ReadsAt
<1>c. call \in Nat
  OBVIOUS
<1>p. P < 2048 /\ Q < 2048
  OBVIOUS
<1>q. BitAt(P, 10) = 1 /\ BitAt(Q, 10) = 1
  BY Powers DEF BitAt
<1>a. AnswersAt(Calls[fn], c + 2) /\ AnswersAt(Calls[fn], c + 9)
  BY AnswersOf
<1>r. call \in (c + 9)..(c + 16) => received[1] = ram[P % 256]
  BY DEF ReadingTwice
<1>1. CASE call = c
  <2>1. bit = 0 /\ Ready /\ Len(received) = 0
    BY <1>1 DEF ReadingTwice
  <2>2. Doing("pp") /\ Quiet
    <3>1. call + 1 = c + 1 /\ call < Len(Calls[fn])
      BY <1>1, <1>l
    <3>2. Calls[fn][c + 1] = pp
      BY DEF ReadsAt
    <3> QED BY <2>1, <3>1, <3>2, AtCall DEF pp, Ready, Listening, Asked, Heard, Took, Quiet
  <2>3. /\ Proceeds /\ output' = TRUE /\ call' = c + 1 /\ bit' = 0
        /\ UNCHANGED <<chipVars, latch, sclk, received>>
    BY <1>1, <2>2, PPStep
  <2>4. UNCHANGED <<phase, tMode, len, bits, ram, reg, targetVars, malformed>>
    BY <2>3 DEF chipVars, targetVars
  <2>5. Heard(P, 11, bit)'
    <3>1. Heard(P, 11, 0)
      BY <1>p, <2>1, OpensFrame
    <3> QED BY <2>3, <2>4, <3>1 DEF Heard, Took
  <2>6. Len(received') = 0
    BY <2>1, <2>3
  <2>7. ReadingTwice(c, P, Q)'
    BY <2>3, <2>5, <2>6, ReadingFirst
  <2>8. received' \in Seq(Byte) /\ ~malformed'
    BY <1>t, <2>3, <2>4
  <2>9. call' \in {call, call + 1}
    BY <1>1, <2>3
  <2> QED BY <2>3, <2>4, <2>7, <2>8, <2>9 DEF Steady
<1>2. CASE call = c + 1
  <2>1. bit < 11 /\ output /\ Heard(P, 11, bit) /\ Len(received) = 0
    BY <1>2 DEF ReadingTwice
  <2>2. Now = [do |-> "send", bytes |-> V, n |-> 11] /\ Doing("send") /\ "send" \in Sends
    <3>1. call + 1 = c + 2 /\ call < Len(Calls[fn])
      BY <1>2, <1>l
    <3>2. Calls[fn][c + 2] = [do |-> "send", bytes |-> V, n |-> 11]
      BY DEF ReadsAt
    <3> QED BY <3>1, <3>2, AtCall DEF Sends
  <2>3. PICK k \in 0..10 : k = bit
    BY <1>t, <2>1
  <2>4. Sending = BitAt(P, 10 - k)
    <3>1. Sending = BitOf(V, k + 1)
      BY <2>2, <2>3 DEF Sending
    <3> QED BY <3>1 DEF CarriesAddress
  <2>5. PICK L \in 1..22, e \in 0..20 : L = 11 /\ e = k
    OBVIOUS
  <2>6. e < L /\ Heard(P, L, e) /\ (e = 0 => BitAt(P, L - 1) = 1) /\ Sending = BitAt(P, L - e - 1)
    BY <1>q, <2>1, <2>3, <2>4, <2>5
  <2>7. /\ Proceeds /\ NextBit /\ Heard(P, L, e + 1)' /\ ~malformed'
        /\ UNCHANGED <<output, received, targetVars, wait, ram, reg>>
    BY <2>1, <2>2, <2>6, SendsBit
  <2>8. CASE k = 10
    <3>1. call' = c + 2 /\ bit' = 0
      BY <1>2, <2>2, <2>3, <2>7, <2>8, NextBitIs
    <3>2. Heard(P, 11, 11)'
      BY <2>5, <2>7, <2>8
    <3>x. output' /\ Len(received') = 0
      BY <2>1, <2>7
    <3>3. ReadingTwice(c, P, Q)'
      BY <3>1, <3>2, <3>x DEF ReadingTwice, Answer
    <3> QED BY <1>2, <1>t, <2>7, <3>1, <3>3 DEF Steady
  <2>9. CASE k # 10
    <3>1. call' = c + 1 /\ bit' = k + 1 /\ k + 1 < 11
      BY <1>2, <2>2, <2>3, <2>7, <2>9, NextBitIs
    <3>2. Heard(P, 11, bit)'
      BY <2>5, <2>7, <3>1 DEF Heard, Took
    <3>x. output' /\ Len(received') = 0
      BY <2>1, <2>7
    <3>3. ReadingTwice(c, P, Q)'
      BY <3>1, <3>2, <3>x, ReadingFirst
    <3> QED BY <1>2, <1>t, <2>7, <3>1, <3>3 DEF Steady
  <2> QED BY <2>8, <2>9
<1>3. CASE call \in (c + 2)..(c + 6)
  <2>1. Answer(c + 2, P, 0)
    BY DEF ReadingTwice
  <2>2. PICK e \in Nat : e = c + 2
    OBVIOUS
  <2>3. call \in e..(e + 4) /\ Answer(e, P, 0) /\ AnswersAt(Calls[fn], e)
    BY <1>3, <1>a, <2>1, <2>2
  <2>4. Steady /\ UNCHANGED <<ram, reg>> /\ Answer(e, P, 0)' /\ received' \in Seq(Byte)
    BY <2>3, AnswerStep
  <2>5. call' \in (c + 2)..(c + 7)
    BY <1>3, <2>4 DEF Steady
  <2>6. Answer(c + 2, P, 0)'
    BY <2>2, <2>4
  <2>7. ReadingTwice(c, P, Q)'
    BY <2>5, <2>6, ReadingAnswer
  <2> QED BY <2>4, <2>7
<1>4. CASE call = c + 7
  <2>1. bit = 0 /\ ~output /\ Asked(P, 21) /\ Received(P, 0)
    BY <1>4 DEF ReadingTwice, Answer
  <2>2. Doing("pp") /\ Quiet
    <3>1. call + 1 = c + 8 /\ call < Len(Calls[fn])
      BY <1>4, <1>l
    <3>2. Calls[fn][c + 8] = pp
      BY DEF ReadsAt
    <3> QED BY <2>1, <3>1, <3>2, AtCall, SMTT(30) DEF pp, Ready, Listening, Asked, Heard, Took, Quiet
  <2>3. /\ Proceeds /\ output' = TRUE /\ call' = c + 8 /\ bit' = 0
        /\ UNCHANGED <<chipVars, latch, sclk, received>>
    BY <1>4, <2>2, PPStep
  <2>4. UNCHANGED <<phase, tMode, len, bits, ram, reg, targetVars, malformed>>
    BY <2>3 DEF chipVars, targetVars
  <2>5. Asked(P, 21)'
    BY <2>1, <2>4 DEF Asked, Listening
  <2>6. Received(P, 0)'
    BY <2>1, <2>3, <2>4 DEF Received
  <2>7. ReadingTwice(c, P, Q)'
    BY <2>3, <2>5, <2>6 DEF ReadingTwice, Answer
  <2>8. received' \in Seq(Byte) /\ ~malformed'
    BY <1>t, <2>3, <2>4
  <2>9. call' \in {call, call + 1}
    BY <1>4, <2>3
  <2> QED BY <2>3, <2>4, <2>7, <2>8, <2>9 DEF Steady
<1>5. CASE call = c + 8
  <2>1. bit < 12 /\ output /\ Received(P, 0)
    BY <1>5 DEF ReadingTwice
  <2>2. Now = [do |-> "send", bytes |-> From(V, 2), n |-> 12] /\ Doing("send") /\ "send" \in Sends
    <3>1. call + 1 = c + 9 /\ call < Len(Calls[fn])
      BY <1>5, <1>l
    <3>2. Calls[fn][c + 9] = [do |-> "send", bytes |-> From(V, 2), n |-> 12]
      BY DEF ReadsAt
    <3> QED BY <3>1, <3>2, AtCall DEF Sends
  <2>3. CASE bit = 0
    <3>1. Asked(P, 21)
      BY <1>5, <2>3 DEF ReadingTwice
    <3>2. Sending = BitOf(From(V, 2), 1)
      BY <2>2, <2>3 DEF Sending
    <3>3. /\ Proceeds /\ NextBit /\ Ready' /\ ~malformed'
          /\ UNCHANGED <<output, received, targetVars, ram, reg>>
      BY <2>1, <2>2, <3>1, <3>2, AskClockEnd
    <3>4. call' = c + 8 /\ bit' = 1
      BY <1>5, <2>2, <2>3, <3>3, NextBitIs
    <3>5. Heard(Q, 11, 0)'
      <4>1. Upper(Q, 11) = 0
        BY <1>p, Powers DEF Upper
      <4> QED BY <3>3, <4>1 DEF Heard, Took, Ready, Listening
    <3>6. bit' - 1 = 0 /\ output'
      BY <2>1, <3>3, <3>4
    <3>7. Heard(Q, 11, bit - 1)'
      BY <3>5, <3>6 DEF Heard, Took
    <3>x. Received(P, 0)'
      BY <2>1, <3>3 DEF Received
    <3>8. ReadingTwice(c, P, Q)'
      BY <3>4, <3>6, <3>7, <3>x DEF ReadingTwice, Answer
    <3> QED BY <1>5, <1>t, <3>3, <3>4, <3>8 DEF Steady
  <2>4. CASE bit # 0
    <3>1. PICK k \in 0..10 : k = bit - 1
      BY <1>t, <2>1, <2>4
    <3>2. Heard(Q, 11, k)
      BY <1>5, <2>4, <3>1 DEF ReadingTwice
    <3>3. Sending = BitAt(Q, 10 - k)
      <4>1. bit + 1 = 1 + k + 1
        BY <1>t, <3>1
      <4>2. Sending = BitOf(From(V, 2), 1 + k + 1)
        BY <2>2, <4>1 DEF Sending
      <4> QED BY <4>2 DEF CarriesAddress
    <3>4. PICK L \in 1..22, e \in 0..20 : L = 11 /\ e = k
      OBVIOUS
    <3>5. e < L /\ Heard(Q, L, e) /\ (e = 0 => BitAt(Q, L - 1) = 1) /\ Sending = BitAt(Q, L - e - 1)
      BY <1>q, <3>2, <3>3, <3>4
    <3>6. /\ Proceeds /\ NextBit /\ Heard(Q, L, e + 1)' /\ ~malformed'
          /\ UNCHANGED <<output, received, targetVars, wait, ram, reg>>
      BY <2>1, <2>2, <3>5, SendsBit
    <3>y. output' /\ Received(P, 0)'
      BY <2>1, <3>6 DEF Received
    <3>7. CASE k = 10
      <4>1. call' = c + 9 /\ bit' = 0
        BY <1>5, <1>t, <2>2, <3>1, <3>6, <3>7, NextBitIs
      <4>2. Heard(Q, 11, 11)'
        BY <3>4, <3>6, <3>7
      <4>3. received'[1] = ram'[P % 256] /\ Len(received') = 1
        BY <3>y DEF Received
      <4>4. ReadingTwice(c, P, Q)'
        BY <3>y, <4>1, <4>2, <4>3, ReadingAgain
      <4> QED BY <1>5, <1>t, <3>6, <4>1, <4>4 DEF Steady
    <3>8. CASE k # 10
      <4>1. call' = c + 8 /\ bit' = k + 2 /\ k + 2 < 12
        <5>1. bit = k + 1 /\ k + 1 \in Nat /\ k + 2 # 12
          BY <1>t, <3>1, <3>8
        <5> QED BY <1>5, <2>2, <3>6, <5>1, NextBitIs
      <4>2. bit' - 1 = k + 1 /\ bit' # 0
        BY <4>1
      <4>3. Heard(Q, 11, bit - 1)'
        BY <3>4, <3>6, <4>2 DEF Heard, Took
      <4>4. ReadingTwice(c, P, Q)'
        BY <3>y, <4>1, <4>2, <4>3, ReadingSecond
      <4> QED BY <1>5, <1>t, <3>6, <4>1, <4>4 DEF Steady
    <3> QED BY <3>7, <3>8
  <2> QED BY <2>3, <2>4
<1>6. CASE call \in (c + 9)..(c + 13)
  <2>1. Answer(c + 9, Q, 1) /\ received[1] = ram[P % 256]
    BY <1>6, <1>r DEF ReadingTwice
  <2>2. PICK e \in Nat : e = c + 9
    OBVIOUS
  <2>3. call \in e..(e + 4) /\ Answer(e, Q, 1) /\ AnswersAt(Calls[fn], e)
    BY <1>6, <1>a, <2>1, <2>2
  <2>4. /\ Steady /\ UNCHANGED <<ram, reg>> /\ Answer(e, Q, 1)' /\ received' \in Seq(Byte)
        /\ received'[1] = received[1]
    <3>1. /\ Steady /\ UNCHANGED <<ram, reg>> /\ Answer(e, Q, 1)' /\ received' \in Seq(Byte)
          /\ \A j \in 1..1 : received'[j] = received[j]
      BY <2>3, AnswerStep
    <3> QED BY <3>1
  <2>5. call' \in (c + 9)..(c + 14) /\ received'[1] = ram'[P % 256]
    BY <1>6, <2>1, <2>4, SMTT(30) DEF Steady
  <2>6. Answer(c + 9, Q, 1)'
    BY <2>2, <2>4
  <2>7. ReadingTwice(c, P, Q)'
    <3>1. PICK d \in Nat : d = c + 2
      OBVIOUS
    <3>2. call' \in Nat /\ call' > d + 5
      BY <2>5, <3>1
    <3>3. Answer(d, P, 0)'
      BY <3>2, AnswerElsewhere
    <3>4. Answer(c + 2, P, 0)'
      BY <3>1, <3>3
    <3> QED BY <2>5, <2>6, <3>4, ReadingOn
  <2> QED BY <2>4, <2>7
<1>7. CASE call = c + 14
  <2>1. bit = 0 /\ ~output /\ Asked(Q, 21) /\ Received(Q, 1)
    BY <1>7 DEF ReadingTwice, Answer
  <2>2. Doing("pp") /\ Quiet
    <3>1. call + 1 = c + 15 /\ call < Len(Calls[fn])
      BY <1>7, <1>l
    <3>2. Calls[fn][c + 15] = pp
      BY DEF ReadsAt
    <3>3. Doing("pp")
      BY <3>1, <3>2, AtCall DEF pp
    <3>4. Quiet
      BY <2>1 DEF Ready, Listening, Asked, Heard, Took, Quiet
    <3> QED BY <3>3, <3>4
  <2>3. /\ Proceeds /\ output' = TRUE /\ call' = c + 15 /\ bit' = 0
        /\ UNCHANGED <<chipVars, latch, sclk, received>>
    BY <1>7, <2>2, PPStep
  <2>4. UNCHANGED <<phase, tMode, len, bits, ram, reg, targetVars, malformed>>
    BY <2>3 DEF chipVars, targetVars
  <2>5. Asked(Q, 21)'
    BY <2>1, <2>4 DEF Asked, Listening
  <2>6. Received(Q, 1)' /\ received'[1] = ram'[P % 256]
    BY <1>7, <1>r, <2>1, <2>3, <2>4 DEF Received
  <2>7. ReadingTwice(c, P, Q)'
    BY <2>3, <2>5, <2>6 DEF ReadingTwice, Answer
  <2>8. received' \in Seq(Byte) /\ ~malformed'
    BY <1>t, <2>3, <2>4
  <2>9. call' \in {call, call + 1}
    BY <1>7, <2>3
  <2> QED BY <2>3, <2>4, <2>7, <2>8, <2>9 DEF Steady
<1>8. CASE call = c + 15
  <2>1. bit = 0 /\ output /\ Asked(Q, 21) /\ Received(Q, 1)
    BY <1>8 DEF ReadingTwice
  <2>2. Now = [do |-> "send", bytes |-> W, n |-> 1] /\ Doing("send") /\ "send" \in Sends
    <3>1. call + 1 = c + 16 /\ call < Len(Calls[fn])
      BY <1>8, <1>l
    <3>2. Calls[fn][c + 16] = [do |-> "send", bytes |-> W, n |-> 1]
      BY DEF ReadsAt
    <3> QED BY <3>1, <3>2, AtCall DEF Sends
  <2>3. Sending = BitOf(W, 1)
    BY <2>1, <2>2 DEF Sending
  <2>4. /\ Proceeds /\ NextBit /\ Ready' /\ ~malformed'
        /\ UNCHANGED <<output, received, targetVars, ram, reg>>
    BY <2>1, <2>2, <2>3, AskClockEnd
  <2>5. call' = c + 16 /\ bit' = 0 /\ output'
    BY <1>8, <2>1, <2>2, <2>4, NextBitIs
  <2>6. Received(Q, 1)' /\ received'[1] = ram'[P % 256] /\ Ready'
    BY <1>8, <1>r, <2>1, <2>4 DEF Received
  <2>7. ReadingTwice(c, P, Q)'
    BY <2>5, <2>6 DEF ReadingTwice, Answer
  <2> QED BY <1>8, <1>t, <2>4, <2>5, <2>7 DEF Steady
<1>9. CASE call = c + 16
  <2>1. bit = 0 /\ output /\ Ready /\ Received(Q, 1)
    BY <1>9 DEF ReadingTwice
  <2>2. Doing("hiz") /\ Quiet
    <3>1. call + 1 = c + 17 /\ call < Len(Calls[fn])
      BY <1>9, <1>l
    <3>2. Calls[fn][c + 17] = hiz
      BY DEF ReadsAt
    <3> QED BY <2>1, <3>1, <3>2, AtCall DEF hiz, Ready, Listening, Asked, Heard, Took, Quiet
  <2>3. /\ Proceeds /\ output' = FALSE /\ call' = c + 17 /\ bit' = 0
        /\ UNCHANGED <<chipVars, latch, sclk, received>>
    BY <1>9, <2>2, HiZStep
  <2>4. UNCHANGED <<phase, tMode, len, bits, ram, reg, targetVars, malformed>>
    BY <2>3 DEF chipVars, targetVars
  <2>5. Ready'
    BY <2>1, <2>4 DEF Ready, Listening
  <2>6. Received(Q, 1)' /\ received'[1] = ram'[P % 256]
    BY <1>9, <1>r, <2>1, <2>3, <2>4 DEF Received
  <2>7. ReadingTwice(c, P, Q)'
    BY <2>3, <2>5, <2>6 DEF ReadingTwice, Answer
  <2>8. received' \in Seq(Byte) /\ ~malformed'
    BY <1>t, <2>3, <2>4
  <2>9. call' \in {call, call + 1}
    BY <1>9, <2>3
  <2> QED BY <2>3, <2>4, <2>7, <2>8, <2>9 DEF Steady
<1> QED BY <1>c, <1>1, <1>2, <1>3, <1>4, <1>5, <1>6, <1>7, <1>8, <1>9

(***************************************************************************)
(* The loops over the bytes of a block.                                    *)
(***************************************************************************)
\* A chip that is ready has taken the first zero bits of any address.
LEMMA OpensFrameNext ==
  ASSUME NEW P \in Nat, P < 2048, Ready'
  PROVE  Heard(P, 11, 0)'
<1>1. P \div 2048 = 0
  OBVIOUS
<1>2. Upper(P, 11) = 0
  BY <1>1, Powers DEF Upper
<1> QED BY <1>2 DEF Heard, Took, Ready, Listening

\* The calls for one byte open where those for the byte before it ended.
LEMMA WritingOpens ==
  ASSUME NEW c \in Nat, NEW i \in 1..BlockSize, call' = c, bit' = 0, Ready', output', Loaded(dataOUT, i - 1)'
  PROVE  Writing(c, i)'
<1>1. PICK P \in Nat : P = PutByte(i) /\ P < 2048
  BY ByteAddress
<1>2. Heard(P, 11, 0)'
  BY <1>1, OpensFrameNext
<1>3. Heard(PutByte(i), 11, bit)'
  BY <1>1, <1>2 DEF Heard, Took
<1> QED BY <1>3 DEF Writing

\* Before the frame that asks for byte i, the function compares byte i.
LEMMA ComparingOpens ==
  ASSUME NEW c \in Nat, NEW i \in 1..BlockSize, call' = c, bit' = 0, Ready', Loaded(dataOUT, i - 1)',
         Len(received') = i - 1
  PROVE  Comparing(c, i)'
  BY DEF Comparing

\* No byte of the buffer is loaded at first.
LEMMA NothingLoaded == Loaded(dataOUT, 0)'
  BY DEF Loaded

\* The loops begin with a chip that is ready.
LEMMA WritingBegins ==
  ASSUME NEW c \in Nat, NEW n \in 1..BlockSize, call' = c, bit' = 0, Ready', output'
  PROVE  WritingLoop(c, n)'
<1>1. BlockSize \in Nat
  BY ProtocolAssumption DEF ProtocolAssumption
<1>2. PICK i \in 1..BlockSize : i = 1
  BY <1>1
<1>3. Writing(c, i)'
  BY <1>2, NothingLoaded, WritingOpens
<1>4. ASSUME NEW q \in 0..(n - 1), call' \in (c + 4 * q)..(c + 4 * q + 3) PROVE Writing(c + 4 * q, q + 1)'
  <2>1. q = 0 /\ c + 4 * q = c /\ q + 1 = 1
    BY <1>4
  <2> QED BY <1>2, <1>3, <2>1
<1>5. call' # c + 4 * n
  BY <1>1
<1> QED BY <1>4, <1>5 DEF WritingLoop

\* The comparison begins with byte 1.
LEMMA ComparingBegins ==
  ASSUME NEW c \in Nat, NEW n \in 1..BlockSize, call' = c, bit' = 0, Ready', Len(received') = 0
  PROVE  ComparingLoop(c, n)'
<1>1. BlockSize \in Nat
  BY ProtocolAssumption DEF ProtocolAssumption
<1>2. PICK i \in 1..BlockSize : i = 1
  BY <1>1
<1>3. Comparing(c, i)'
  BY <1>2, NothingLoaded, ComparingOpens
<1>4. ASSUME NEW q \in 0..(n - 1), call' \in (c + 14 * q)..(c + 14 * q + 13) PROVE Comparing(c + 14 * q, q + 1)'
  <2>1. q = 0 /\ c + 14 * q = c /\ q + 1 = 1
    BY <1>4
  <2> QED BY <1>2, <1>3, <2>1
<1>5. call' # c + 14 * n
  BY <1>1
<1> QED BY <1>4, <1>5 DEF ComparingLoop

\* The loop that fills the buffer.
LEMMA WritingLoopStep ==
  ASSUME NEW c \in Nat, NEW n \in 1..BlockSize, \A q \in 0..(n - 1) : WritesAt(Calls[fn], c + 4 * q, q + 1),
         WireTypeOK, Sound, running, call \in c..(c + 4 * n - 1), WritingLoop(c, n), Next
  PROVE  Steady /\ UNCHANGED <<received, output>> /\ WritingLoop(c, n)' /\ (call' = c + 4 * n => bit' = 0)
<1>0. BlockSize \in Nat /\ n \in Nat /\ call \in Nat
  BY ProtocolAssumption DEF ProtocolAssumption
<1>1. PICK q \in 0..(n - 1) : call \in (c + 4 * q)..(c + 4 * q + 3)
  <2>1. PICK s \in {4, 14} : s = 4
    OBVIOUS
  <2>2. call < c + s * n /\ c <= call
    BY <1>0, <2>1
  <2>3. \E q \in 0..(n - 1) : call \in (c + s * q)..(c + s * q + s - 1)
    BY <1>0, <2>2, LoopTurn
  <2> QED BY <2>1, <2>3
<1>2. PICK e \in Nat, i \in 1..BlockSize : e = c + 4 * q /\ i = q + 1
  BY <1>0
<1>3. WritesAt(Calls[fn], e, i) /\ call \in e..(e + 3) /\ Writing(e, i)
  BY <1>1, <1>2 DEF WritingLoop
<1>4. /\ Steady /\ UNCHANGED <<received, output>>
      /\ call' \in e..(e + 3) => Writing(e, i)'
      /\ call' = e + 4 => bit' = 0 /\ Ready' /\ Loaded(dataOUT, i)'
  BY <1>3, WriteStep
<1>5. call' \in e..(e + 4)
  BY <1>3, <1>4 DEF Steady
<1>6. CASE call' \in e..(e + 3)
  <2>1. ASSUME NEW r \in 0..(n - 1), call' \in (c + 4 * r)..(c + 4 * r + 3) PROVE Writing(c + 4 * r, r + 1)'
    <3>1. r = q
      BY <1>2, <1>6, <2>1
    <3> QED BY <1>2, <1>4, <1>6, <3>1
  <2>2. call' # c + 4 * n
    BY <1>0, <1>2, <1>6
  <2> QED BY <1>4, <2>1, <2>2 DEF WritingLoop
<1>7. CASE call' = e + 4
  <2>0. bit' = 0 /\ Ready' /\ Loaded(dataOUT, i)' /\ output'
    BY <1>3, <1>4, <1>7 DEF Writing
  <2>1. ASSUME NEW r \in 0..(n - 1), call' \in (c + 4 * r)..(c + 4 * r + 3) PROVE Writing(c + 4 * r, r + 1)'
    <3>1. r = q + 1
      BY <1>2, <1>7, <2>1
    <3>2. PICK f \in Nat, j \in 1..BlockSize : f = e + 4 /\ j = i + 1
      BY <1>0, <1>2, <2>1, <3>1
    <3>3. Loaded(dataOUT, j - 1)'
      <4>1. j - 1 = i
        BY <3>2
      <4> QED BY <2>0, <4>1
    <3>4. Writing(f, j)'
      BY <1>7, <2>0, <3>2, <3>3, WritingOpens
    <3>5. f = c + 4 * r /\ j = r + 1
      BY <1>2, <3>1, <3>2
    <3> QED BY <3>4, <3>5
  <2>2. ASSUME call' = c + 4 * n PROVE bit' = 0 /\ Ready' /\ Loaded(dataOUT, n)'
    <3>1. n = i
      BY <1>0, <1>2, <1>7, <2>2
    <3> QED BY <2>0, <3>1
  <2> QED BY <1>4, <2>0, <2>1, <2>2 DEF WritingLoop
<1> QED BY <1>5, <1>6, <1>7

\* And the one that reads it back.
LEMMA ComparingLoopStep ==
  ASSUME NEW c \in Nat, NEW n \in 1..BlockSize, \A q \in 0..(n - 1) : ComparesAt(Calls[fn], c + 14 * q, q + 1),
         WireTypeOK, Sound, running, call \in c..(c + 14 * n - 1), ComparingLoop(c, n), Next
  PROVE  /\ received' \in Seq(Byte) /\ ~malformed' /\ UNCHANGED <<targetVars, ram>>
         /\ \/ Steady /\ ComparingLoop(c, n)'
            \/ GivesUp /\ phase' = "listening" /\ output' = output
<1>0. BlockSize \in Nat /\ n \in Nat /\ call \in Nat
  BY ProtocolAssumption DEF ProtocolAssumption
<1>1. PICK q \in 0..(n - 1) : call \in (c + 14 * q)..(c + 14 * q + 13)
  <2>1. PICK s \in {4, 14} : s = 14
    OBVIOUS
  <2>2. call < c + s * n /\ c <= call
    BY <1>0, <2>1
  <2>3. \E q \in 0..(n - 1) : call \in (c + s * q)..(c + s * q + s - 1)
    BY <1>0, <2>2, LoopTurn
  <2> QED BY <2>1, <2>3
<1>2. PICK e \in Nat, i \in 1..BlockSize : e = c + 14 * q /\ i = q + 1
  BY <1>0
<1>3. ComparesAt(Calls[fn], e, i) /\ call \in e..(e + 13) /\ Comparing(e, i)
  BY <1>1, <1>2 DEF ComparingLoop
<1>4. /\ received' \in Seq(Byte) /\ ~malformed' /\ UNCHANGED <<targetVars, ram>>
      /\ \/ /\ Steady
            /\ call' \in e..(e + 13) => Comparing(e, i)'
            /\ call' = e + 14 => bit' = 0 /\ Ready' /\ Loaded(dataOUT, i)' /\ Len(received') = i
         \/ GivesUp /\ phase' = "listening" /\ output' = output
  BY <1>3, CompareStep
<1>8. SUFFICES ASSUME Steady, call' \in e..(e + 13) => Comparing(e, i)',
                      call' = e + 14 => bit' = 0 /\ Ready' /\ Loaded(dataOUT, i)' /\ Len(received') = i
               PROVE  ComparingLoop(c, n)'
  BY <1>4
<1>5. call' \in e..(e + 14)
  BY <1>3, <1>8 DEF Steady
<1>6. CASE call' \in e..(e + 13)
  <2>1. ASSUME NEW r \in 0..(n - 1), call' \in (c + 14 * r)..(c + 14 * r + 13) PROVE Comparing(c + 14 * r, r + 1)'
    <3>1. r = q
      BY <1>2, <1>6, <2>1
    <3> QED BY <1>2, <1>6, <1>8, <3>1
  <2>2. call' # c + 14 * n
    BY <1>0, <1>2, <1>6
  <2> QED BY <2>1, <2>2 DEF ComparingLoop
<1>7. CASE call' = e + 14
  <2>0. bit' = 0 /\ Ready' /\ Loaded(dataOUT, i)' /\ Len(received') = i
    BY <1>7, <1>8
  <2>1. ASSUME NEW r \in 0..(n - 1), call' \in (c + 14 * r)..(c + 14 * r + 13) PROVE Comparing(c + 14 * r, r + 1)'
    <3>1. r = q + 1
      BY <1>2, <1>7, <2>1
    <3>2. PICK f \in Nat, j \in 1..BlockSize : f = e + 14 /\ j = i + 1
      BY <1>0, <1>2, <2>1, <3>1
    <3>3. Loaded(dataOUT, j - 1)' /\ Len(received') = j - 1
      <4>1. j - 1 = i
        BY <3>2
      <4> QED BY <2>0, <4>1
    <3>4. Comparing(f, j)'
      BY <1>7, <2>0, <3>2, <3>3, ComparingOpens
    <3>5. f = c + 14 * r /\ j = r + 1
      BY <1>2, <3>1, <3>2
    <3> QED BY <3>4, <3>5
  <2>2. ASSUME call' = c + 14 * n PROVE bit' = 0 /\ Ready' /\ Loaded(dataOUT, n)'
    <3>1. n = i
      BY <1>0, <1>2, <1>7, <2>2
    <3> QED BY <2>0, <3>1
  <2> QED BY <2>1, <2>2 DEF ComparingLoop
<1> QED BY <1>5, <1>6, <1>7

(***************************************************************************)
(* targetInitialize: what a function that gave up may have left, the       *)
(* reset, and the two vectors that run a routine; a chip that wakes late   *)
(* misses the first frame and hears none of it.                            *)
(***************************************************************************)
\* The next bit of a vector goes out.
LEMMA VectorSends ==
  ASSUME WireTypeOK, Doing("send"), Next, Quiet, output, NEW V \in Seq(Byte),
         Now.do = "send", Now.bytes = V, bit < 8 * Len(V)
  PROVE  /\ Proceeds /\ UNCHANGED <<output, received>>
         /\ ChipClock(BitOf(V, bit + 1)) /\ BitOf(V, bit + 1) \in {0, 1}
         /\ IF bit + 1 = Now.n THEN call' = call + 1 /\ bit' = 0 ELSE call' = call /\ bit' = bit + 1
<1>b. PICK b \in Nat : b = bit
  BY DEF WireTypeOK
<1>1. Sending = BitOf(V, b + 1)
  BY <1>b DEF Sending
<1>2. b + 1 \in 1..(8 * Len(V))
  BY <1>b
<1>3. BitOf(V, b + 1) \in {0, 1}
  BY <1>2, BitOfType
<1>4. "send" \in Sends
  BY DEF Sends
<1>5. Proceeds /\ ChipClock(Sending) /\ NextBit /\ UNCHANGED <<output, received>>
  BY <1>1, <1>3, <1>4, SendStep
<1>6. IF b + 1 = Now.n THEN call' = call + 1 /\ bit' = 0 ELSE call' = call /\ bit' = b + 1
  BY <1>5, <1>b, NextBitIs
<1> QED BY <1>b, <1>1, <1>3, <1>5, <1>6

\* A frame of a vector is about to begin.
LEMMA VectorOpens ==
  ASSUME NEW F, NEW n \in Nat, NEW b \in Nat, n > 0, b = 22 * (n - 1), Whole(F[n]), Ready'
  PROVE  InVector(F, n, b)'
<1>1. b \div 22 = n - 1 /\ b % 22 = 0 /\ (b \div 22) + 1 = n
  OBVIOUS
<1>2. Upper(F[n], 22) = 0
  BY WholeParts
<1>3. Heard(F[n], 22, 0)'
  BY <1>2 DEF Heard, Took, Ready, Listening
<1>4. Written(F, n, n - 1)'
  BY DEF Written
<1> QED BY <1>1, <1>3, <1>4 DEF InVector

\* A chip that does not listen.
LEMMA DeafClock ==
  ASSUME phase = "deaf", NEW level, ChipClock(level)
  PROVE  UNCHANGED chipVars
  BY DEF ChipClock

\* A vector that queues a routine: one bit, from its frame n on.
LEMMA QueueBit ==
  ASSUME NEW V, NEW F, NEW n \in Nat, NEW m \in Nat, NEW b \in Nat, NEW job \in Jobs,
         Table(V, F, m), Vector(F, n, m, job), n <= (b \div 22) + 1, b < 22 * m,
         ChipTypeOK, InVector(F, n, b), ChipClock(BitOf(V, b + 1)), Need(job, blockNum, dataOUT),
         UNCHANGED <<blockNum, dataOUT>>, ~malformed
  PROVE  /\ UNCHANGED targetVars /\ ~malformed' /\ Need(job, blockNum, dataOUT)'
         /\ b + 1 < 22 * m => InVector(F, n, b + 1)'
         /\ b + 1 = 22 * m => phase' = "armed" /\ Queued(job, blockNum, dataOUT)'
<1>w. \A k \in n..m : Whole(F[k]) /\ (Key(F[k]) = StartKey <=> k = m)
  BY DEF Vector
<1>p. tMode = "prog"
  BY DEF InVector, Heard
<1>1. b \div 22 < m /\ (b \div 22) + 1 \in n..m
  OBVIOUS
<1>2. /\ UNCHANGED <<tMode, genuine, flash, security, wait>>
      /\ ~malformed => ~malformed'
      /\ \A a \in RamUsed : Key(F[(b \div 22) + 1]) # 1024 + a => ram'[a] = ram[a]
      /\ b % 22 < 21 => InVector(F, n, b + 1)'
      /\ b % 22 = 21 /\ Key(F[(b \div 22) + 1]) = StartKey =>
           phase' = "armed" /\ len' = 0 /\ bits' = 0 /\ Written(F, n, (b \div 22) + 1)'
      /\ b % 22 = 21 /\ Key(F[(b \div 22) + 1]) # StartKey /\ (b \div 22) + 1 < m =>
           InVector(F, n, b + 1)'
  BY <1>1, <1>w, NextVectorBit
<1>3. Need(job, blockNum, dataOUT)'
  <2>1. PICK key, x, d : key = Key(F[(b \div 22) + 1]) /\ x = blockNum /\ d = dataOUT
    OBVIOUS
  <2>2. /\ key \notin (1024 + 128)..(1024 + 191)
        /\ job \in {"blockProgram", "blockVerify"} => key # 1024 + \hFA
    BY <1>1, <2>1 DEF Vector, Spares
  <2>3. Need(job, x, d)
    BY <2>1
  <2>4. Need(job, x, d)'
    <3>1. \A i \in 1..BlockSize : ram'[DataAddr(i)] = ram[DataAddr(i)]
      BY <1>2, <2>1, <2>2, Spared
    <3>2. job \in {"blockProgram", "blockVerify"} => ram'[\hFA] = ram[\hFA]
      BY <1>2, <2>1, <2>2, RamParts
    <3> QED BY <2>3, <3>1, <3>2, NeedKept
  <2> QED BY <2>1, <2>4 DEF Need, Loaded
<1>4. ASSUME b + 1 < 22 * m PROVE InVector(F, n, b + 1)'
  <2>1. CASE b % 22 < 21
    BY <1>2, <2>1
  <2>2. CASE b % 22 = 21
    <3>1. (b \div 22) + 1 < m
      BY <1>4, <2>2
    <3>2. Key(F[(b \div 22) + 1]) # StartKey
      BY <1>w, <1>1, <3>1
    <3> QED BY <1>2, <2>2, <3>1, <3>2
  <2> QED BY <2>1, <2>2
<1>5. ASSUME b + 1 = 22 * m PROVE phase' = "armed" /\ Queued(job, blockNum, dataOUT)'
  <2>1. b % 22 = 21 /\ (b \div 22) + 1 = m
    BY <1>5
  <2>2. phase' = "armed" /\ len' = 0 /\ bits' = 0 /\ Written(F, n, m)'
    <3>1. Key(F[m]) = StartKey
      BY <1>1, <1>w, <2>1
    <3>2. Written(F, n, (b \div 22) + 1)' /\ phase' = "armed" /\ len' = 0 /\ bits' = 0
      BY <1>2, <2>1, <3>1
    <3> QED BY <2>1, <3>2 DEF Written
  <2>3. /\ KeysSet' /\ reg'[\hF8] = 0 /\ reg'[\hF0] = RoutineOf[job]
        /\ (job = "init2" => BlockNumber = 1)' /\ (job = "siliconID" => BlockNumber = 0)'
    BY <2>2, QueuedByVector DEF Vector
  <2> QED BY <1>p, <1>2, <1>3, <2>2, <2>3 DEF Queued
<1> QED BY <1>2, <1>3, <1>4, <1>5 DEF targetVars

\* The twenty-two bits of a zero frame change nothing.
LEMMA ZeroFrame ==
  ASSUME NEW V, NEW F, NEW m \in Nat, Table(V, F, m), NEW b \in Nat, b < 22 * m, F[(b \div 22) + 1] = 0,
         Ready, ChipClock(BitOf(V, b + 1))
  PROVE  UNCHANGED chipVars
<1>1. PICK j \in 0..(m - 1), i \in 0..21 : j = b \div 22 /\ i = b % 22 /\ b + 1 = 22 * j + i + 1
  OBVIOUS
<1>2. BitOf(V, 22 * j + i + 1) = BitAt(F[j + 1], 21 - i)
  BY TableBit
<1>3. BitAt(0, 21 - i) = 0
  <2>1. PICK k \in 0..21 : k = 21 - i
    OBVIOUS
  <2>2. BitAt(0, k) = 0
    BY BitOfZero
  <2> QED BY <2>1, <2>2
<1>4. BitOf(V, b + 1) = 0
  BY <1>1, <1>2, <1>3
<1> QED BY <1>4, TakesNothing DEF Ready, Listening

\* The routine of a function that gave up goes on, and does what that function would have.
LEMMA StaleStep ==
  ASSUME WireTypeOK, Sound, Stale, ChipStep
  PROVE  /\ Stale' /\ ~malformed' /\ UNCHANGED progVars
         /\ UNCHANGED targetVars \/ (~ok /\ Operation(failed[1], failed[2], failed[3], FALSE))
<1>t. ChipTypeOK /\ ~malformed /\ Solid /\ failed \in Functions \X BlockIdx \X Data
  BY DEF WireTypeOK, Sound
<1>u. UNCHANGED progVars
  BY DEF ChipStep
<1>p. phase \in {"working", "high"}
  BY DEF ChipStep, RaiseSDATA, FinishRoutine
<1>1. ~ok /\ \E job \in JobsOf(failed[1]) : Queued(job, failed[2], failed[3])
  BY <1>p DEF Stale
<1>2. PICK f \in Functions, b \in BlockIdx, d \in Block : f = failed[1] /\ b = failed[2] /\ d = failed[3]
  BY <1>t, WireAssumption DEF WireAssumption
<1>3. PICK job \in JobsOf(f) : Queued(job, b, d)
  BY <1>1, <1>2
<1>4. CASE RaiseSDATA
  <2>1. UNCHANGED <<targetVars, wait, len, bits, ram, reg, malformed>>
    BY <1>4 DEF RaiseSDATA
  <2>2. Queued(job, b, d)'
    BY <1>3, <2>1, QueuedKept DEF targetVars
  <2>3. Stale'
    <3>1. ~ok' /\ failed' = failed
      BY <1>1, <1>u DEF progVars
    <3>2. Queued(job, failed[2], failed[3])'
      BY <1>2, <2>2, <3>1 DEF Queued, Need, Loaded
    <3> QED BY <1>2, <1>3, <3>1, <3>2 DEF Stale
  <2> QED BY <1>t, <1>u, <2>1, <2>3
<1>5. CASE FinishRoutine
  <2>1. job \in Jobs
    BY <1>3, JobNames DEF JobsOf
  <2>2. /\ Low(40)' /\ CellsAfter(job, b, d)
        /\ UNCHANGED <<tMode, genuine, malformed>>
    BY <1>t, <1>3, <1>5, <2>1, Finishes
  <2>3. tMode = "prog"
    BY <1>3 DEF Queued
  <2>4. Operation(f, b, d, FALSE)
    BY <2>2, <2>3, FinishIsOperation
  <2>5. Stale'
    BY <2>2 DEF Stale, Low
  <2> QED BY <1>t, <1>u, <1>1, <1>2, <2>2, <2>4, <2>5
<1> QED BY <1>4, <1>5 DEF ChipStep

\* targetInitialize up to its first vector.
LEMMA ResetStep ==
  ASSUME WireTypeOK, Sound, running, fn = "initialize", call \in 0..2, Initializing, Next
  PROVE  /\ ~malformed' /\ UNCHANGED received /\ Proceeds /\ Initializing'
         /\ \/ UNCHANGED <<genuine, flash, security>>
            \/ ~ok /\ Operation(failed[1], failed[2], failed[3], FALSE)
<1>t. ChipTypeOK /\ ~malformed /\ running
  BY DEF WireTypeOK, Sound
<1>l. 25 = Len(Calls[fn]) /\ Calls[fn][1] = hiz /\ Calls[fn][2] = reset /\ Calls[fn][3] = pp
  BY InitializeCalls DEF PollsAt
<1>0. ASSUME ChipStep, Stale, call \in {0, 1}
      PROVE  /\ ~malformed' /\ UNCHANGED received /\ Proceeds /\ Initializing'
             /\ \/ UNCHANGED <<genuine, flash, security>>
                \/ ~ok /\ Operation(failed[1], failed[2], failed[3], FALSE)
  <2>1. /\ Stale' /\ ~malformed' /\ UNCHANGED progVars
        /\ UNCHANGED targetVars \/ (~ok /\ Operation(failed[1], failed[2], failed[3], FALSE))
    BY <1>0, StaleStep
  <2>2. UNCHANGED <<fn, running, call, bit, output, received, dataOUT, blockNum, ok, failed>>
    BY <2>1 DEF progVars
  <2>3. bit = 0 /\ (call = 1 => ~output)
    BY <1>0 DEF Initializing
  <2>4. Initializing'
    BY <1>0, <2>1, <2>2, <2>3 DEF Initializing
  <2> QED BY <1>t, <2>1, <2>2, <2>4 DEF Proceeds, targetVars
<1>1. CASE call = 0
  <2>1. bit = 0 /\ Stale
    BY <1>1 DEF Initializing
  <2>2. Doing("hiz")
    <3>1. call + 1 = 1 /\ call < Len(Calls[fn])
      BY <1>1, <1>l
    <3> QED BY <1>l, <3>1, AtCall DEF hiz
  <2>3. sdataHiZ \/ ChipStep
    BY <2>2, AtHiZ
  <2>4. CASE sdataHiZ
    <3>1. /\ output' = FALSE /\ call' = 1 /\ bit' = 0
          /\ UNCHANGED <<chipVars, fn, running, latch, sclk, received, dataOUT, blockNum, ok, failed>>
      BY <1>1, <2>4 DEF sdataHiZ, NextCall
    <3>2. Stale'
      BY <2>1, <3>1 DEF Stale, chipVars, targetVars, Queued, Need, Loaded, KeysSet, BlockNumber
    <3>3. Initializing'
      BY <3>1, <3>2 DEF Initializing
    <3> QED BY <1>t, <3>1, <3>3 DEF chipVars, targetVars, Proceeds
  <2> QED BY <1>0, <1>1, <2>1, <2>3, <2>4
<1>2. CASE call = 1
  <2>1. bit = 0 /\ Stale /\ ~output
    BY <1>2 DEF Initializing
  <2>2. Doing("reset")
    <3>1. call + 1 = 2 /\ call < Len(Calls[fn])
      BY <1>2, <1>l
    <3> QED BY <1>l, <3>1, AtCall DEF reset
  <2>3. resetTarget \/ ChipStep
    BY <2>2, AtReset
  <2>4. CASE resetTarget
    <3>1. /\ ChipReset /\ call' = 2 /\ bit' = 0
          /\ UNCHANGED <<fn, running, output, latch, sclk, received, dataOUT, blockNum, ok, failed>>
      BY <1>2, <2>4 DEF resetTarget, NextCall
    <3>2. /\ tMode' = "run" /\ phase' = "listening" /\ len' = 0 /\ bits' = 0
          /\ UNCHANGED <<genuine, flash, security, malformed>>
      BY <3>1 DEF ChipReset
    <3>3. Initializing'
      BY <2>1, <3>1, <3>2 DEF Initializing
    <3> QED BY <1>t, <3>1, <3>2, <3>3 DEF Proceeds
  <2> QED BY <1>0, <1>2, <2>1, <2>3, <2>4
<1>3. CASE call = 2
  <2>1. bit = 0 /\ ~output /\ tMode = "run" /\ phase = "listening" /\ len = 0 /\ bits = 0
    BY <1>3 DEF Initializing
  <2>2. Doing("pp") /\ Quiet
    <3>1. call + 1 = 3 /\ call < Len(Calls[fn])
      BY <1>3, <1>l
    <3> QED BY <1>l, <2>1, <3>1, AtCall DEF pp, Quiet
  <2>3. /\ Proceeds /\ output' = TRUE /\ call' = 3 /\ bit' = 0
        /\ UNCHANGED <<chipVars, latch, sclk, received>>
    BY <1>3, <2>2, PPStep
  <2>4. UNCHANGED <<phase, tMode, len, bits, genuine, flash, security, malformed>>
    BY <2>3 DEF chipVars, targetVars
  <2>5. Waking'
    <3>1. Upper(Wake, 22) = 0
      BY Powers DEF Upper, Wake
    <3>2. Upper(Wake, 22 - 0) = 0
      BY <3>1
    <3>3. Took(Wake, 22, 0)'
      BY <2>1, <2>4, <3>2 DEF Took
    <3>4. bit' \div 22 = 0 /\ bit' % 22 = 0
      BY <2>3
    <3> QED BY <2>1, <2>3, <2>4, <3>3, <3>4 DEF Waking
  <2>6. Initializing'
    BY <2>3, <2>5 DEF Initializing
  <2> QED BY <1>t, <2>3, <2>4, <2>6
<1>4. call = 0 \/ call = 1 \/ call = 2
  OBVIOUS
<1> QED BY <1>1, <1>2, <1>3, <1>4

\* The routines of targetInitialize need nothing of the RAM.
LEMMA NoNeed ==
  ASSUME NEW job \in {"init1", "init2"}, NEW b, NEW d
  PROVE  Need(job, b, d)
  BY DEF Need

\* init1_v: it wakes the chip, or misses it; five frames of zeros; and a routine is queued.
LEMMA WakeStep ==
  ASSUME WireTypeOK, Sound, running, fn = "initialize", call = 3, Waking, Next
  PROVE  /\ ~malformed' /\ UNCHANGED <<received, genuine, flash, security>> /\ Proceeds
         /\ call' \in {3, 4} /\ Initializing'
<1>t. ChipTypeOK /\ ~malformed /\ bit \in Nat
  BY DEF WireTypeOK, Sound
<1>v. init1_v \in Seq(Byte) /\ 396 <= 8 * Len(init1_v) /\ Len(init1_v) \in Nat
  BY Init1Table DEF Table
<1>0. Now = [do |-> "send", bytes |-> init1_v, n |-> 396] /\ Doing("send")
  <2>1. Calls[fn][4] = [do |-> "send", bytes |-> init1_v, n |-> 396] /\ Len(Calls[fn]) = 25
    BY InitializeCalls DEF PollsAt
  <2>2. call + 1 = 4 /\ call < Len(Calls[fn])
    BY <2>1
  <2> QED BY <2>1, <2>2, AtCall
<1>1. PICK b \in Nat : b = bit /\ b < 396
  BY <1>t DEF Waking
<1>2. output /\ Quiet
  <2>1. output
    BY DEF Waking
  <2>2. b \div 22 = 0 \/ b \div 22 \in 1..5 \/ b \div 22 > 5
    OBVIOUS
  <2>3. b \div 22 = 0 => Quiet
    BY <1>1 DEF Waking, Took, Quiet
  <2>4. b \div 22 \in 1..5 => Quiet
    BY <1>1 DEF Waking, Ready, Listening, Quiet
  <2>5. b \div 22 > 5 => Quiet
    BY <1>1 DEF Waking, InVector, Heard, Took, Quiet
  <2> QED BY <2>1, <2>2, <2>3, <2>4, <2>5
<1>3. /\ Proceeds /\ UNCHANGED <<output, received>>
      /\ ChipClock(BitOf(init1_v, b + 1)) /\ BitOf(init1_v, b + 1) \in {0, 1}
      /\ IF b + 1 = 396 THEN call' = call + 1 /\ bit' = 0 ELSE call' = call /\ bit' = b + 1
  <2>1. b < 8 * Len(init1_v)
    BY <1>1, <1>v
  <2>2. PICK V \in Seq(Byte) : V = init1_v
    BY <1>v
  <2>3. Now.do = "send" /\ Now.bytes = V /\ Now.n = 396 /\ bit < 8 * Len(V)
    BY <1>0, <1>1, <2>1, <2>2
  <2> QED BY <1>0, <1>1, <1>2, <2>2, <2>3, VectorSends, ZenonT(60)
<1>o. output' /\ Proceeds /\ received' = received
  BY <1>2, <1>3
<1>4. CASE b < 22
  <2>0. b \div 22 = 0 /\ b % 22 = b /\ call' = 3 /\ bit' = b + 1
    BY <1>3, <1>4
  <2>1. tMode = "run" /\ Took(Wake, 22, b)
    BY <1>1, <2>0 DEF Waking, Took
  <2>2. PICK k \in 0..21 : k = b
    BY <1>4
  <2>3. Init1Frames[1] = Wake
    BY Powers DEF Init1Frames, Wake
  <2>4. BitOf(init1_v, b + 1) = BitAt(Wake, 21 - k)
    <3>1. PICK j \in 0..17 : j = 0
      OBVIOUS
    <3>2. BitOf(init1_v, 22 * j + k + 1) = BitAt(Init1Frames[j + 1], 21 - k)
      BY Init1Table, TableBit
    <3>3. 22 * j + k + 1 = b + 1 /\ j + 1 = 1
      BY <2>2, <3>1
    <3> QED BY <2>3, <3>2, <3>3
  <2>5. PICK X \in Nat : X = Wake
    BY Powers DEF Wake
  <2>6. CASE b < 21
    <3>1. PICK e \in 0..20, L \in 1..22 : e = k /\ L = 22
      BY <2>2, <2>6
    <3>2. e < L /\ Took(X, L, e) /\ (e = 0 => BitAt(X, L - 1) = 1)
      <4>1. BitAt(Wake, 21) = 1
        BY Powers DEF Wake, BitAt
      <4> QED BY <2>1, <2>2, <2>5, <3>1, <4>1
    <3>3. PICK level : level = BitAt(X, L - e - 1) /\ ChipClock(level)
      <4>1. L - e - 1 = 21 - k
        BY <3>1
      <4> QED BY <1>3, <2>4, <2>5, <4>1
    <3>4. Took(X, L, e + 1)' /\ UNCHANGED <<targetVars, wait, ram, reg, malformed>>
      BY <3>2, <3>3, TakesBit
    <3>5. Waking'
      <4>1. bit' \div 22 = 0 /\ bit' % 22 = e + 1 /\ bit' < 396
        BY <2>0, <2>2, <2>6, <3>1
      <4>2. tMode' = "run"
        BY <2>1, <3>4 DEF targetVars
      <4>3. phase' = "listening" /\ len' = bit' % 22 /\ bits' = Upper(X, L - (e + 1))
        BY <3>4, <4>1 DEF Took
      <4>4. L - (e + 1) = 22 - (bit' % 22)
        BY <3>1, <4>1
      <4>5. bits' = Upper(Wake, 22 - (bit' % 22))
        BY <2>5, <4>3, <4>4
      <4>6. Took(Wake, 22, bit % 22)'
        BY <4>3, <4>5 DEF Took
      <4> QED BY <1>o, <4>1, <4>2, <4>6 DEF Waking
    <3>6. Initializing'
      BY <2>0, <3>5 DEF Initializing
    <3> QED BY <1>o, <1>t, <2>0, <3>4, <3>6 DEF targetVars
  <2>7. CASE b = 21
    <3>1. PICK level : level = BitAt(X, 0) /\ ChipClock(level)
      <4>1. 21 - k = 0
        BY <2>2, <2>7
      <4> QED BY <1>3, <2>4, <2>5, <4>1
    <3>2. len' = 0 /\ bits' = 0 /\ Frame(X) /\ UNCHANGED <<genuine, flash, security, wait>>
      BY <2>1, <2>5, <2>7, <3>1, TakesFrame
    <3>3. /\ \/ tMode' = "prog" /\ UNCHANGED phase
             \/ phase' = "deaf" /\ UNCHANGED tMode
          /\ UNCHANGED malformed
      BY <2>1, <3>2 DEF Frame
    <3>4. CASE tMode' = "prog" /\ UNCHANGED phase
      <4>1. Ready'
        BY <2>1, <3>2, <3>4 DEF Ready, Listening, Took
      <4>2. bit' \div 22 = 1 /\ bit' < 396
        BY <2>0, <2>7
      <4>3. Waking'
        BY <1>o, <4>1, <4>2 DEF Waking
      <4>4. Initializing'
        BY <2>0, <4>3 DEF Initializing
      <4> QED BY <1>o, <1>t, <2>0, <3>2, <3>3, <4>4
    <3>5. CASE phase' = "deaf" /\ UNCHANGED tMode
      <4>1. Deaf'
        BY <1>o, <2>0, <2>7, <3>5 DEF Deaf
      <4>2. Initializing'
        BY <2>0, <4>1 DEF Initializing
      <4> QED BY <1>o, <1>t, <2>0, <3>2, <3>3, <4>2
    <3> QED BY <3>3, <3>4, <3>5
  <2> QED BY <1>4, <2>6, <2>7
<1>5. CASE b \in 22..131
  <2>0. b \div 22 \in 1..5 /\ call' = 3 /\ bit' = b + 1
    BY <1>3, <1>5
  <2>1. Ready
    BY <1>1, <2>0 DEF Waking
  <2>2. Init1Frames[(b \div 22) + 1] = 0
    BY <2>0 DEF Init1Frames
  <2>3. UNCHANGED chipVars
    BY <1>1, <1>3, <2>1, <2>2, Init1Table, ZeroFrame
  <2>4. UNCHANGED <<phase, tMode, len, bits, genuine, flash, security, malformed>>
    BY <2>3 DEF chipVars, targetVars
  <2>5. Ready'
    BY <2>1, <2>4 DEF Ready, Listening
  <2>6. Waking'
    <3>1. CASE b # 131
      <4>1. bit' \div 22 \in 1..5 /\ bit' < 396
        BY <1>5, <2>0, <3>1
      <4> QED BY <1>o, <2>5, <4>1 DEF Waking
    <3>2. CASE b = 131
      <4>1. PICK x \in Nat, n \in Nat : x = 132 /\ n = 7
        OBVIOUS
      <4>2. Whole(Init1Frames[n]) /\ x = 22 * (n - 1) /\ n > 0
        BY <4>1, Init1Vector DEF Vector
      <4>3. InVector(Init1Frames, n, x)'
        BY <2>5, <4>2, VectorOpens
      <4>4. InVector(Init1Frames, 7, bit)'
        BY <2>0, <3>2, <4>1, <4>3, InVectorAt
      <4>5. bit' \div 22 = 6 /\ bit' < 396
        BY <2>0, <3>2
      <4> QED BY <1>o, <4>4, <4>5 DEF Waking
    <3> QED BY <3>1, <3>2
  <2>7. Initializing'
    BY <2>0, <2>6 DEF Initializing
  <2> QED BY <1>o, <1>t, <2>0, <2>4, <2>7
<1>6. CASE b > 131
  <2>0. b \div 22 > 5
    BY <1>6
  <2>1. PICK n \in Nat, m \in Nat, job \in Jobs : n = 7 /\ m = 18 /\ job = "init1"
    BY JobNames
  <2>2. InVector(Init1Frames, 7, b)
    <3>1. InVector(Init1Frames, 7, bit)
      BY <1>1, <2>0 DEF Waking
    <3> QED BY <1>1, <3>1, InVectorHere
  <2>3. n <= (b \div 22) + 1 /\ b < 22 * m
    BY <1>1, <2>0, <2>1
  <2>4. Need(job, blockNum, dataOUT)
    BY <2>1, NoNeed
  <2>5. UNCHANGED <<blockNum, dataOUT>>
    BY <1>3 DEF Proceeds
  <2>6. /\ UNCHANGED targetVars /\ ~malformed' /\ Need(job, blockNum, dataOUT)'
        /\ b + 1 < 22 * m => InVector(Init1Frames, n, b + 1)'
        /\ b + 1 = 22 * m => phase' = "armed" /\ Queued(job, blockNum, dataOUT)'
    BY <1>3, <1>t, <2>1, <2>2, <2>3, <2>4, <2>5, Init1Table, Init1Vector, QueueBit
  <2>7. CASE b + 1 < 396
    <3>1. call' = 3 /\ bit' = b + 1
      BY <1>3, <2>7
    <3>2. InVector(Init1Frames, 7, bit)'
      BY <2>1, <2>6, <2>7, <3>1, InVectorAt
    <3>3. bit' \div 22 > 5 /\ bit' < 396
      BY <1>6, <2>7, <3>1
    <3>4. Waking'
      BY <1>o, <3>2, <3>3 DEF Waking
    <3>5. Initializing'
      BY <3>1, <3>4 DEF Initializing
    <3> QED BY <1>o, <2>6, <3>1, <3>5 DEF targetVars
  <2>8. CASE b + 1 = 396
    <3>1. call' = 4 /\ bit' = 0
      BY <1>3, <2>8
    <3>2. phase' = "armed" /\ Queued("init1", blockNum, dataOUT)'
      BY <2>1, <2>6, <2>8 DEF Queued
    <3>3. Polled(2, Init1Frames, 18, "init1")'
      BY <1>o, <3>1, <3>2 DEF Polled
    <3>5. Initializing'
      BY <3>1, <3>3 DEF Initializing
    <3> QED BY <1>o, <2>6, <3>1, <3>5 DEF targetVars
  <2> QED BY <1>1, <2>7, <2>8
<1> QED BY <1>4, <1>5, <1>6

\* A chip that missed it: the programmer goes on until it has polled in vain.
LEMMA DeafStep ==
  ASSUME WireTypeOK, Sound, running, fn = "initialize", Deaf, Next
  PROVE  /\ ~malformed' /\ UNCHANGED <<received, genuine, flash, security>>
         /\ \/ Proceeds /\ call' \in {call, call + 1} /\ Initializing'
            \/ GivesUp /\ phase' = "deaf"
<1>t. ChipTypeOK /\ ~malformed /\ bit \in Nat
  BY DEF WireTypeOK, Sound
<1>q. phase = "deaf" /\ call \in 3..6 /\ Quiet
  BY DEF Deaf, Quiet
<1>l. /\ Len(Calls[fn]) = 25
      /\ Calls[fn][4] = [do |-> "send", bytes |-> init1_v, n |-> 396] /\ Calls[fn][5] = hiz
      /\ Calls[fn][6] = clock /\ Calls[fn][7] = poll
  BY InitializeCalls DEF PollsAt
<1>k. ASSUME UNCHANGED chipVars PROVE UNCHANGED <<phase, genuine, flash, security, malformed>>
  BY <1>k DEF chipVars, targetVars
<1>1. CASE call = 3
  <2>v. init1_v \in Seq(Byte) /\ 396 <= 8 * Len(init1_v) /\ Len(init1_v) \in Nat
    BY Init1Table DEF Table
  <2>0. Now = [do |-> "send", bytes |-> init1_v, n |-> 396] /\ Doing("send")
    <3>1. call + 1 = 4 /\ call < Len(Calls[fn])
      BY <1>1, <1>l
    <3> QED BY <1>l, <3>1, AtCall
  <2>1. PICK b \in Nat : b = bit /\ b < 396 /\ output
    BY <1>1, <1>t DEF Deaf
  <2>2. /\ Proceeds /\ UNCHANGED <<output, received>>
        /\ ChipClock(BitOf(init1_v, b + 1)) /\ BitOf(init1_v, b + 1) \in {0, 1}
        /\ IF b + 1 = 396 THEN call' = call + 1 /\ bit' = 0 ELSE call' = call /\ bit' = b + 1
    <3>1. b < 8 * Len(init1_v)
      BY <2>1, <2>v
    <3>2. PICK V \in Seq(Byte) : V = init1_v
      BY <2>v
    <3>3. Now.do = "send" /\ Now.bytes = V /\ Now.n = 396 /\ bit < 8 * Len(V)
      BY <2>0, <2>1, <3>1, <3>2
    <3> QED BY <1>q, <2>0, <2>1, <3>2, <3>3, VectorSends
  <2>3. UNCHANGED chipVars
    BY <1>q, <2>2, DeafClock
  <2>4. CASE b + 1 = 396
    <3>1. call' = 4 /\ bit' = 0 /\ output' /\ phase' = "deaf"
      BY <1>1, <1>k, <1>q, <2>1, <2>2, <2>3, <2>4
    <3>2. Deaf'
      BY <3>1 DEF Deaf
    <3>3. Initializing'
      BY <3>1, <3>2 DEF Initializing
    <3> QED BY <1>1, <1>k, <1>t, <2>2, <2>3, <3>1, <3>3
  <2>5. CASE b + 1 # 396
    <3>1. call' = 3 /\ bit' = b + 1 /\ b + 1 < 396 /\ output' /\ phase' = "deaf"
      BY <1>1, <1>k, <1>q, <2>1, <2>2, <2>3, <2>5
    <3>2. Deaf'
      BY <3>1 DEF Deaf
    <3>3. Initializing'
      BY <3>1, <3>2 DEF Initializing
    <3> QED BY <1>1, <1>k, <1>t, <2>2, <2>3, <3>1, <3>3
  <2> QED BY <2>4, <2>5
<1>2. CASE call = 4
  <2>1. Doing("hiz")
    <3>1. call + 1 = 5 /\ call < Len(Calls[fn])
      BY <1>2, <1>l
    <3> QED BY <1>l, <3>1, AtCall DEF hiz
  <2>2. /\ Proceeds /\ output' = FALSE /\ call' = 5 /\ bit' = 0
        /\ UNCHANGED <<chipVars, latch, sclk, received>>
    BY <1>2, <1>q, <2>1, HiZStep
  <2>3. UNCHANGED <<phase, genuine, flash, security, malformed>>
    BY <1>k, <2>2
  <2>4. Deaf'
    BY <1>q, <2>2, <2>3 DEF Deaf
  <2>5. Initializing'
    BY <2>2, <2>4 DEF Initializing
  <2> QED BY <1>2, <1>t, <2>2, <2>3, <2>5
<1>3. CASE call = 5
  <2>1. Doing("clock")
    <3>1. call + 1 = 6 /\ call < Len(Calls[fn])
      BY <1>3, <1>l
    <3> QED BY <1>l, <3>1, AtCall DEF clock
  <2>2. /\ Proceeds /\ (\E level \in {0, 1} : ChipClock(level))
        /\ call' = 6 /\ bit' = 0 /\ UNCHANGED <<output, received>>
    BY <1>3, <1>q, <2>1, ClockStep
  <2>3. UNCHANGED <<phase, genuine, flash, security, malformed>>
    <3>1. PICK level \in {0, 1} : ChipClock(level)
      BY <2>2
    <3> QED BY <1>k, <1>q, <3>1, DeafClock
  <2>4. Deaf'
    BY <1>3, <1>q, <2>2, <2>3 DEF Deaf
  <2>5. Initializing'
    BY <2>2, <2>4 DEF Initializing
  <2> QED BY <1>3, <1>t, <2>2, <2>3, <2>5
<1>4. CASE call = 6
  <2>1. Doing("poll")
    <3>1. call + 1 = 7 /\ call < Len(Calls[fn])
      BY <1>4, <1>l
    <3> QED BY <1>l, <3>1, AtCall DEF poll
  <2>2. bit = 0 /\ ~output
    BY <1>4 DEF Deaf
  <2>3. Level(Driven, Drives) = 0
    BY <1>q, <2>2 DEF Level, Driven, Drives, Nothing
  <2>4. ~sawHigh /\ ~sawLow
    BY <2>2, <2>3 DEF sawHigh, sawLow
  <2>5. pollTimeout
    BY <1>q, <2>1, <2>4, AtPoll, QuietChip
  <2>6. GivesUp /\ UNCHANGED <<chipVars, received>>
    BY <2>5 DEF pollTimeout, Return, GivesUp
  <2> QED BY <1>k, <1>q, <1>t, <2>6
<1> QED BY <1>q, <1>1, <1>2, <1>3, <1>4

\* A function that gives up while its routine runs leaves it running.
LEMMA GaveUpStale ==
  ASSUME NEW job \in JobsOf(fn), GivesUp, UNCHANGED chipVars,
         phase \in {"working", "high"} => Queued(job, blockNum, dataOUT)
  PROVE  Stale'
<1> SUFFICES ASSUME phase' \in {"working", "high"}
             PROVE  ~ok' /\ \E j \in JobsOf(failed[1])' : Queued(j, failed[2], failed[3])'
  BY DEF Stale
<1>1. failed'[1] = fn /\ failed'[2] = blockNum /\ failed'[3] = dataOUT /\ ok' = FALSE
  BY DEF GivesUp, Arguments
<1>2. Queued(job, blockNum, dataOUT) /\ UNCHANGED <<tMode, len, bits, ram, reg>>
  BY DEF chipVars, targetVars
<1>3. PICK b, d : b = blockNum /\ d = dataOUT
  OBVIOUS
<1>4. Queued(job, b, d)'
  BY <1>2, <1>3, QueuedKept
<1>5. failed'[2] = b /\ failed'[3] = d
  BY <1>1, <1>3
<1>6. Queued(job, failed[2], failed[3])'
  BY <1>4, <1>5 DEF Queued, Need, Loaded
<1> QED BY <1>1, <1>6

\* The first polled vector of targetInitialize has ended.
LEMMA InitPolledEnd ==
  ASSUME call' = 10, bit' = 0, Ready'
  PROVE  Polled(2, Init1Frames, 18, "init1")'
  BY DEF Polled, Effect

\* The polls of targetInitialize, and the second vector.
LEMMA InitPollStep ==
  ASSUME WireTypeOK, Sound, running, fn = "initialize", call \in 4..9,
         Polled(2, Init1Frames, 18, "init1"), Next
  PROVE  /\ ~malformed' /\ UNCHANGED <<received, genuine, flash, security>>
         /\ \/ Proceeds /\ call' \in {call, call + 1} /\ Initializing'
            \/ GivesUp /\ Stale'
<1>1. PICK c \in Nat, job \in Jobs : c = 2 /\ job = "init1"
  BY JobNames
<1>2. PollsAt(Calls[fn], c, init1_v, 396) /\ call \in (c + 2)..(c + 7) /\ Polled(c, Init1Frames, 18, job)
  BY <1>1, InitializeCalls
<1>3. /\ ~malformed' /\ UNCHANGED received
      /\ \/ /\ Proceeds /\ call' \in {call, call + 1} /\ Polled(c, Init1Frames, 18, job)'
            /\ \/ UNCHANGED targetVars
               \/ CellsAfter(job, blockNum, dataOUT) /\ tMode = "prog" /\ UNCHANGED <<tMode, genuine>>
         \/ /\ GivesUp /\ UNCHANGED chipVars
            /\ phase \in {"working", "high"} => Queued(job, blockNum, dataOUT)
  BY <1>2, PollStep
<1>4. CASE /\ Proceeds /\ call' \in {call, call + 1} /\ Polled(c, Init1Frames, 18, job)'
           /\ \/ UNCHANGED targetVars
              \/ CellsAfter(job, blockNum, dataOUT) /\ tMode = "prog" /\ UNCHANGED <<tMode, genuine>>
  <2>1. UNCHANGED <<genuine, flash, security>>
    BY <1>1, <1>4 DEF targetVars, CellsAfter
  <2>2. Polled(2, Init1Frames, 18, "init1")'
    BY <1>1, <1>4
  <2>3. call' \in 4..10
    BY <1>4
  <2>4. call' = 10 => bit' = 0 /\ Ready'
    BY <2>2 DEF Polled
  <2>5. call' = 10 => Polled(10, Init2Frames, 13, "init2")'
    BY <2>4 DEF Polled, Need
  <2>6. Initializing'
    BY <2>2, <2>3, <2>5 DEF Initializing
  <2> QED BY <1>3, <1>4, <2>1, <2>6
<1>5. CASE /\ GivesUp /\ UNCHANGED chipVars
           /\ phase \in {"working", "high"} => Queued(job, blockNum, dataOUT)
  <2>1. UNCHANGED <<genuine, flash, security>>
    BY <1>5 DEF targetVars, chipVars
  <2>2. Stale'
    BY <1>1, <1>5, GaveUpStale DEF JobsOf
  <2> QED BY <1>3, <1>5, <2>1, <2>2
<1> QED BY <1>3, <1>4, <1>5

\* One step of its second, init2_v: afterwards the calibration bytes are in the RAM.
LEMMA InitSecondStep ==
  ASSUME WireTypeOK, Sound, running, fn = "initialize", call \in 10..17,
         Polled(10, Init2Frames, 13, "init2"), Next
  PROVE  /\ ~malformed' /\ UNCHANGED <<received, genuine, flash, security>>
         /\ \/ Proceeds /\ call' \in {call, call + 1} /\ Initializing'
            \/ GivesUp /\ Stale'
<1>1. PICK c \in Nat, job \in Jobs, m \in Nat \ {0} : c = 10 /\ job = "init2" /\ m = 13
  BY JobNames
<1>2. PollsAt(Calls[fn], c, init2_v, 22 * m) /\ Polled(c, Init2Frames, m, job)
  BY <1>1, InitializeCalls
<1>i. ASSUME Proceeds, call' \in {call, call + 1}, Polled(c, Init2Frames, m, job)'
      PROVE  Initializing'
  <2>1. Polled(10, Init2Frames, 13, "init2")'
    BY <1>1, <1>i
  <2>2. call' \in 10..18
    BY <1>i
  <2>3. call' = 10 => call = 10
    BY <1>i
  <2>4. call' = 10 => Polled(2, Init1Frames, 18, "init1")'
    <3>1. call' = 10 => bit' = 0 /\ Ready'
      BY <2>1 DEF Polled
    <3> QED BY <3>1, InitPolledEnd
  <2> QED BY <2>1, <2>2, <2>4 DEF Initializing
<1>3. CASE call \in 10..11
  <2>1. call \in {c, c + 1}
    BY <1>1, <1>3
  <2>2. /\ Proceeds /\ call' \in {call, call + 1} /\ Polled(c, Init2Frames, m, job)'
        /\ ~malformed' /\ UNCHANGED <<targetVars, received>>
    BY <1>1, <1>2, <2>1, Init2Table, Init2Vector, QueueStep
  <2> QED BY <1>i, <2>2 DEF targetVars
<1>4. CASE call \in 12..17
  <2>1. call \in (c + 2)..(c + 7)
    BY <1>1, <1>4
  <2>3. /\ ~malformed' /\ UNCHANGED received
        /\ \/ /\ Proceeds /\ call' \in {call, call + 1} /\ Polled(c, Init2Frames, m, job)'
              /\ \/ UNCHANGED targetVars
                 \/ CellsAfter(job, blockNum, dataOUT) /\ tMode = "prog" /\ UNCHANGED <<tMode, genuine>>
           \/ /\ GivesUp /\ UNCHANGED chipVars
              /\ phase \in {"working", "high"} => Queued(job, blockNum, dataOUT)
    BY <1>2, <2>1, PollStep
  <2>4. UNCHANGED <<genuine, flash, security>>
    BY <1>1, <2>3 DEF targetVars, chipVars, CellsAfter
  <2>5. job \in JobsOf(fn)
    BY <1>1 DEF JobsOf
  <2> QED BY <1>i, <2>3, <2>4, <2>5, GaveUpStale
<1> QED BY <1>3, <1>4

(***************************************************************************)
(* init3_3v: twice, a calibration byte goes from the RAM to the            *)
(* accumulator and from there to a register.  Each of these four moves is  *)
(* queued, started by a zero, and given twenty-one zeros to end.           *)
(***************************************************************************)
\* What init3_3v needs of the RAM, and the registers its moves go to or through.
Carried == UNCHANGED <<ram[\hF8], ram[\hF9], reg[\hF0], reg[\hEA], reg[\hE8]>>

\* One bit of a piece of init3_3v.
LEMMA PieceBit ==
  ASSUME NEW n \in Nat, NEW m \in 0..38, NEW x \in Byte, NEW y \in Byte, Piece(Init3Frames, n, m, x, y),
         NEW b \in Nat, n <= (b \div 22) + 1, b < 22 * m, ChipTypeOK, ~malformed,
         InVector(Init3Frames, n, b), ChipClock(BitOf(init3_3v, b + 1))
  PROVE  /\ UNCHANGED <<tMode, genuine, flash, security>> /\ ~malformed' /\ Carried
         /\ b + 1 < 22 * m => InVector(Init3Frames, n, b + 1)'
         /\ b + 1 = 22 * m => /\ phase' = "armed" /\ len' = 0 /\ bits' = 0
                              /\ reg'[\hF8] = x /\ reg'[\hF9] = y
<1>1. PICK V, F : V = init3_3v /\ F = Init3Frames
  OBVIOUS
<1>2. Table(V, F, m)
  <2>1. PICK l \in Nat : l = 38
    OBVIOUS
  <2>2. Table(V, F, l)
    BY <1>1, <2>1, Init3Table
  <2>3. m \in 0..l
    BY <2>1
  <2> QED BY <2>2, <2>3, TablePart
<1>3. /\ \A k \in n..m : Whole(F[k]) /\ (Key(F[k]) = StartKey <=> k = m)
      /\ \A k \in n..m : Key(F[k]) \notin {1024 + \hF8, 1024 + \hF9, 1536 + \hF0, 1536 + \hEA, 1536 + \hE8}
      /\ Sets(F, n, m, ToReg(\hF8, x)) /\ Sets(F, n, m, ToReg(\hF9, y))
  BY <1>1 DEF Piece
<1>4. (b \div 22) + 1 \in n..m /\ b \div 22 < m /\ m \in Nat
  OBVIOUS
<1>5. InVector(F, n, b) /\ ChipClock(BitOf(V, b + 1))
  BY <1>1
<1>6. /\ UNCHANGED <<tMode, genuine, flash, security, wait>>
      /\ ~malformed => ~malformed'
      /\ \A a \in RamUsed : Key(F[(b \div 22) + 1]) # 1024 + a => ram'[a] = ram[a]
      /\ \A a \in RegUsed : Key(F[(b \div 22) + 1]) # 1536 + a => reg'[a] = reg[a]
      /\ b % 22 < 21 => InVector(F, n, b + 1)'
      /\ b % 22 = 21 /\ Key(F[(b \div 22) + 1]) = StartKey =>
           phase' = "armed" /\ len' = 0 /\ bits' = 0 /\ Written(F, n, (b \div 22) + 1)'
      /\ b % 22 = 21 /\ Key(F[(b \div 22) + 1]) # StartKey /\ (b \div 22) + 1 < m =>
           InVector(F, n, b + 1)'
  BY <1>2, <1>3, <1>4, <1>5, NextVectorBit
<1>7. Carried
  BY <1>3, <1>4, <1>6, RamParts DEF Carried
<1>8. ASSUME b + 1 < 22 * m PROVE InVector(F, n, b + 1)'
  <2>1. CASE b % 22 < 21
    BY <1>6, <2>1
  <2>2. CASE b % 22 = 21
    <3>1. (b \div 22) + 1 < m
      BY <1>8, <2>2
    <3> QED BY <1>3, <1>4, <1>6, <2>2, <3>1
  <2> QED BY <2>1, <2>2
<1>9. ASSUME b + 1 = 22 * m
      PROVE  /\ phase' = "armed" /\ len' = 0 /\ bits' = 0
             /\ reg'[\hF8] = x /\ reg'[\hF9] = y
  <2>1. b % 22 = 21 /\ (b \div 22) + 1 = m
    BY <1>9
  <2>2. phase' = "armed" /\ len' = 0 /\ bits' = 0 /\ Written(F, n, m)'
    BY <1>3, <1>4, <1>6, <2>1
  <2>3. reg'[\hF8] = x
    BY <1>3, <2>2, RamParts, SetsReg
  <2>4. reg'[\hF9] = y
    BY <1>3, <2>2, RamParts, SetsReg
  <2> QED BY <2>2, <2>3, <2>4
<1> QED BY <1>1, <1>6, <1>7, <1>8, <1>9

\* The first zero after it starts the move, the others give it time.
LEMMA MoveStarts ==
  ASSUME phase = "armed", reg[\hF8] # 0, NEW level, ChipClock(level)
  PROVE  /\ Move /\ phase' = "executing" /\ wait' = 21
         /\ UNCHANGED <<targetVars, len, bits, ram, malformed>>
  BY DEF ChipClock, Execution

\* An instruction that runs counts its clocks down.
LEMMA MoveWaits ==
  ASSUME phase = "executing", NEW level, ChipClock(level)
  PROVE  /\ wait' = wait - 1
         /\ phase' = IF wait = 1 THEN "listening" ELSE phase
         /\ UNCHANGED <<targetVars, len, bits, ram, reg, malformed>>
  BY DEF ChipClock, CountDown

\* "mov A, [x]" fetches a byte of RAM; "mov reg[x], A" puts it in a register.
LEMMA MoveReads ==
  ASSUME ChipTypeOK, Move, reg[\hF8] = \h51, NEW a \in RamUsed, reg[\hF9] = a
  PROVE  reg'[\hF0] = ram[a] /\ UNCHANGED <<reg[\hEA], reg[\hE8]>>
  BY RamParts DEF ChipTypeOK, Move

\* The move that sets a trim writes that register and no other.
LEMMA MoveWrites ==
  ASSUME ChipTypeOK, Move, reg[\hF8] = \h60, NEW a \in {\hEA, \hE8}, reg[\hF9] = a
  PROVE  reg'[a] = reg[\hF0] /\ \A r \in RegUsed : r # a => reg'[r] = reg[r]
  BY RamParts DEF ChipTypeOK, Move

\* One of the four rounds of init3_3v, at bit b.
Round(b, n, m, x, y) ==
  /\ tMode = "prog"
  /\ b < 22 * m => InVector(Init3Frames, n, b)
  /\ b = 22 * m => phase = "armed" /\ len = 0 /\ bits = 0 /\ reg[\hF8] = x /\ reg[\hF9] = y
  /\ b > 22 * m => phase = "executing" /\ wait = 22 * m + 22 - b /\ len = 0 /\ bits = 0

\* One bit of a round of init3_3v: its frames are taken, the last arms the chip, the next bit runs
\* the move, and the twenty-one after it let it end.
LEMMA RoundStep ==
  ASSUME NEW n \in Nat \ {0}, NEW m \in 0..38, NEW x \in Byte \ {0}, NEW y \in Byte,
         Piece(Init3Frames, n, m, x, y),
         NEW b \in Nat, 22 * (n - 1) <= b, b <= 22 * m + 21, ChipTypeOK, ~malformed,
         Round(b, n, m, x, y), ChipClock(BitOf(init3_3v, b + 1))
  PROVE  /\ UNCHANGED <<tMode, genuine, flash, security>> /\ ~malformed'
         /\ b # 22 * m => Carried
         /\ b = 22 * m => Move /\ ram' = ram /\ reg[\hF8] = x /\ reg[\hF9] = y
         /\ b < 22 * m + 21 => Round(b + 1, n, m, x, y)'
         /\ b = 22 * m + 21 => Ready'
<1>1. CASE b < 22 * m
  <2>1. n <= (b \div 22) + 1 /\ n \in Nat /\ x \in Byte
    OBVIOUS
  <2>2. InVector(Init3Frames, n, b) /\ tMode = "prog"
    BY <1>1 DEF Round
  <2>3. /\ UNCHANGED <<tMode, genuine, flash, security>> /\ ~malformed' /\ Carried
        /\ b + 1 < 22 * m => InVector(Init3Frames, n, b + 1)'
        /\ b + 1 = 22 * m => /\ phase' = "armed" /\ len' = 0 /\ bits' = 0
                             /\ reg'[\hF8] = x /\ reg'[\hF9] = y
    BY <1>1, <2>1, <2>2, PieceBit, SMTT(60)
  <2>4. b + 1 <= 22 * m
    BY <1>1
  <2>5. Round(b + 1, n, m, x, y)'
    BY <2>2, <2>3, <2>4 DEF Round
  <2> QED BY <1>1, <2>3, <2>5
<1>2. CASE b = 22 * m
  <2>1. phase = "armed" /\ len = 0 /\ bits = 0 /\ reg[\hF8] = x /\ reg[\hF9] = y /\ tMode = "prog"
    BY <1>2 DEF Round
  <2>2. /\ Move /\ phase' = "executing" /\ wait' = 21
        /\ UNCHANGED <<targetVars, len, bits, ram, malformed>>
    BY <2>1, MoveStarts
  <2>3. Round(b + 1, n, m, x, y)'
    BY <1>2, <2>1, <2>2 DEF Round, targetVars
  <2> QED BY <1>2, <2>1, <2>2, <2>3 DEF targetVars
<1>3. CASE b > 22 * m
  <2>1. phase = "executing" /\ wait = 22 * m + 22 - b /\ len = 0 /\ bits = 0 /\ tMode = "prog"
    BY <1>3 DEF Round
  <2>2. /\ wait' = wait - 1
        /\ phase' = IF wait = 1 THEN "listening" ELSE phase
        /\ UNCHANGED <<targetVars, len, bits, ram, reg, malformed>>
    BY <2>1, MoveWaits
  <2>3. Carried
    BY <2>2 DEF Carried
  <2>4. ASSUME b < 22 * m + 21 PROVE Round(b + 1, n, m, x, y)'
    BY <1>3, <2>1, <2>2, <2>4 DEF Round, targetVars
  <2>5. ASSUME b = 22 * m + 21 PROVE Ready'
    BY <2>1, <2>2, <2>5 DEF Ready, Listening, targetVars
  <2> QED BY <1>3, <2>2, <2>3, <2>4, <2>5 DEF targetVars
<1> QED BY <1>1, <1>2, <1>3

\* Trimming and the rounds say the same.
LEMMA TrimmingRounds ==
  ASSUME Trimming, NEW b \in Nat, bit = b, tMode = "prog"
  PROVE  /\ output /\ b < 836 /\ ram[\hF8] = Trims[1] /\ ram[\hF9] = Trims[2]
         /\ b \in 0..197 => Round(b, 1, 8, \h51, \hF8)
         /\ b \in 198..417 => Round(b, 10, 18, \h60, \hEA)
         /\ b \in 418..615 => Round(b, 20, 27, \h51, \hF9)
         /\ b \in 616..835 => Round(b, 29, 37, \h60, \hE8)
         /\ b \in 177..396 => reg[\hF0] = Trims[1]
         /\ b \in 397..835 => reg[\hEA] = Trims[1]
         /\ b \in 595..814 => reg[\hF0] = Trims[2]
         /\ b \in 815..835 => reg[\hE8] = Trims[2]
<1>1. output /\ b < 836 /\ ram[\hF8] = Trims[1] /\ ram[\hF9] = Trims[2]
  BY DEF Trimming
<1>2. /\ b \in 0..197 => Round(b, 1, 8, \h51, \hF8)
      /\ b \in 198..417 => Round(b, 10, 18, \h60, \hEA)
  BY DEF Trimming, Round, Moving
<1>3. /\ b \in 418..615 => Round(b, 20, 27, \h51, \hF9)
      /\ b \in 616..835 => Round(b, 29, 37, \h60, \hE8)
  BY DEF Trimming, Round, Moving
<1>4. /\ b \in 177..396 => reg[\hF0] = Trims[1]
      /\ b \in 397..835 => reg[\hEA] = Trims[1]
      /\ b \in 595..814 => reg[\hF0] = Trims[2]
      /\ b \in 815..835 => reg[\hE8] = Trims[2]
  BY DEF Trimming
<1> QED BY <1>1, <1>2, <1>3, <1>4

\* The four rounds, put together again.
LEMMA RoundsTrimming ==
  ASSUME NEW b \in Nat, bit' = b, output', b < 836, ram'[\hF8] = Trims[1], ram'[\hF9] = Trims[2],
         b \in 0..197 => Round(b, 1, 8, \h51, \hF8)',
         b \in 198..417 => Round(b, 10, 18, \h60, \hEA)',
         b \in 418..615 => Round(b, 20, 27, \h51, \hF9)',
         b \in 616..835 => Round(b, 29, 37, \h60, \hE8)',
         b \in 177..396 => reg'[\hF0] = Trims[1], b \in 397..835 => reg'[\hEA] = Trims[1],
         b \in 595..814 => reg'[\hF0] = Trims[2], b \in 815..835 => reg'[\hE8] = Trims[2]
  PROVE  Trimming'
<1>1. /\ b \in 0..175 => InVector(Init3Frames, 1, b)'
      /\ b \in 198..395 => InVector(Init3Frames, 10, b)'
      /\ b \in 418..593 => InVector(Init3Frames, 20, b)'
      /\ b \in 616..813 => InVector(Init3Frames, 29, b)'
  BY DEF Round
<1>2. /\ b \in 0..175 => InVector(Init3Frames, 1, bit)'
      /\ b \in 198..395 => InVector(Init3Frames, 10, bit)'
      /\ b \in 418..593 => InVector(Init3Frames, 20, bit)'
      /\ b \in 616..813 => InVector(Init3Frames, 29, bit)'
  BY <1>1, InVectorAt
<1>3. /\ Moving(176)' /\ (b = 176 => reg'[\hF8] = \h51 /\ reg'[\hF9] = \hF8)
  BY DEF Round, Moving
<1>4. /\ Moving(396)' /\ (b = 396 => reg'[\hF8] = \h60 /\ reg'[\hF9] = \hEA)
  BY DEF Round, Moving
<1>5. /\ Moving(594)' /\ (b = 594 => reg'[\hF8] = \h51 /\ reg'[\hF9] = \hF9)
  BY DEF Round, Moving
<1>6. /\ Moving(814)' /\ (b = 814 => reg'[\hF8] = \h60 /\ reg'[\hF9] = \hE8)
  BY DEF Round, Moving
<1> QED BY <1>2, <1>3, <1>4, <1>5, <1>6 DEF Trimming

\* A round opens where the one before it ended.
LEMMA RoundOpens ==
  ASSUME NEW n \in Nat \ {0}, NEW m \in Nat, NEW x, NEW y, n <= m, Whole(Init3Frames[n]),
         Ready', NEW b \in Nat, b = 22 * (n - 1)
  PROVE  Round(b, n, m, x, y)'
<1>1. n > 0 /\ n \in Nat
  OBVIOUS
<1>2. InVector(Init3Frames, n, b)'
  BY <1>1, VectorOpens
<1>3. b < 22 * m /\ tMode' = "prog"
  BY DEF Ready, Listening
<1> QED BY <1>2, <1>3 DEF Round

\* Every round opens with a chip that is ready.
LEMMA RoundsOpen ==
  ASSUME Ready'
  PROVE  /\ Round(0, 1, 8, \h51, \hF8)' /\ Round(198, 10, 18, \h60, \hEA)'
         /\ Round(418, 20, 27, \h51, \hF9)' /\ Round(616, 29, 37, \h60, \hE8)'
<1>1. /\ Whole(Init3Frames[1]) /\ Whole(Init3Frames[10]) /\ Whole(Init3Frames[20])
      /\ Whole(Init3Frames[29])
  BY Piece1, Piece2, Piece3, Piece4 DEF Piece
<1>2. Round(0, 1, 8, \h51, \hF8)'
  BY <1>1, RoundOpens
<1>3. Round(198, 10, 18, \h60, \hEA)'
  BY <1>1, RoundOpens
<1>4. Round(418, 20, 27, \h51, \hF9)'
  BY <1>1, RoundOpens
<1>5. Round(616, 29, 37, \h60, \hE8)'
  BY <1>1, RoundOpens
<1> QED BY <1>2, <1>3, <1>4, <1>5

\* During init3_3v the chip is in programming mode.
LEMMA TrimmingProg ==
  ASSUME Trimming, bit \in Nat
  PROVE  tMode = "prog"
<1>1. PICK b \in Nat : b = bit /\ b < 836
  BY DEF Trimming
<1>2. CASE b \in 0..175 \/ b \in 198..395 \/ b \in 418..593 \/ b \in 616..813
  BY <1>1, <1>2 DEF Trimming, InVector, Heard
<1>3. CASE b \in 176..197 \/ b \in 396..417 \/ b \in 594..615 \/ b \in 814..835
  BY <1>1, <1>3 DEF Trimming, Moving
<1> QED BY <1>1, <1>2, <1>3

\* What the clock of bit b of init3_3v does to the chip.
TrimClock(b) ==
  /\ UNCHANGED <<tMode, genuine, flash, security, ram[\hF8], ram[\hF9]>> /\ ~malformed'
  /\ b # 176 /\ b # 594 => reg'[\hF0] = reg[\hF0]
  /\ b # 396 => reg'[\hEA] = reg[\hEA]
  /\ b # 814 => reg'[\hE8] = reg[\hE8]
  /\ b = 176 => reg'[\hF0] = ram[\hF8]
  /\ b = 396 => reg'[\hEA] = reg[\hF0]
  /\ b = 594 => reg'[\hF0] = ram[\hF9]
  /\ b = 814 => reg'[\hE8] = reg[\hF0]

\* One bit of each of the four rounds.
LEMMA Round1Step ==
  ASSUME NEW b \in Nat, b \in 0..197, ChipTypeOK, ~malformed,
         Round(b, 1, 8, \h51, \hF8), ChipClock(BitOf(init3_3v, b + 1))
  PROVE  /\ TrimClock(b)
         /\ b < 197 => Round(b + 1, 1, 8, \h51, \hF8)'
         /\ b = 197 => Ready'
<1>1. PICK n \in Nat \ {0}, m \in 0..38, x \in Byte \ {0}, y \in Byte :
        n = 1 /\ m = 8 /\ x = \h51 /\ y = \hF8
  BY DEF Byte
<1>2. /\ UNCHANGED <<tMode, genuine, flash, security>> /\ ~malformed'
      /\ b # 22 * m => Carried
      /\ b = 22 * m => Move /\ ram' = ram /\ reg[\hF8] = x /\ reg[\hF9] = y
      /\ b < 22 * m + 21 => Round(b + 1, n, m, x, y)'
      /\ b = 22 * m + 21 => Ready'
  <2>1. Piece(Init3Frames, n, m, x, y) /\ Round(b, n, m, x, y)
    BY <1>1, Piece1
  <2>2. 22 * (n - 1) <= b /\ b <= 22 * m + 21
    BY <1>1
  <2> QED BY <2>1, <2>2, RoundStep, SMTT(60)
<1>3. ASSUME b = 176 PROVE TrimClock(b)
  <2>1. Move /\ ram' = ram /\ reg[\hF8] = \h51 /\ reg[\hF9] = \hF8
    BY <1>1, <1>2, <1>3
  <2>2. reg'[\hF0] = ram[\hF8] /\ UNCHANGED <<reg[\hEA], reg[\hE8]>>
    BY <1>3, <2>1, RamParts, MoveReads
  <2>3. UNCHANGED <<tMode, genuine, flash, security>> /\ ~malformed'
    BY <1>2
  <2>4. /\ ram'[\hF8] = ram[\hF8] /\ ram'[\hF9] = ram[\hF9]
        /\ reg'[\hEA] = reg[\hEA] /\ reg'[\hE8] = reg[\hE8]
    BY <2>1, <2>2, RamParts
  <2> QED BY <1>3, <2>1, <2>2, <2>3, <2>4 DEF TrimClock
<1>4. ASSUME b # 176 PROVE TrimClock(b)
  <2>1. Carried
    BY <1>1, <1>2, <1>4
  <2>2. UNCHANGED <<tMode, genuine, flash, security>> /\ ~malformed'
    BY <1>2
  <2>3. b \notin {176, 396, 594, 814}
    BY <1>4
  <2> QED BY <2>1, <2>2, <2>3 DEF TrimClock, Carried
<1>5. TrimClock(b)
  BY <1>3, <1>4
<1>6. /\ b < 197 => Round(b + 1, 1, 8, \h51, \hF8)'
      /\ b = 197 => Ready'
  BY <1>1, <1>2
<1> QED BY <1>5, <1>6

\* A bit of the second round: the trim \hEA.
LEMMA Round2Step ==
  ASSUME NEW b \in Nat, b \in 198..417, ChipTypeOK, ~malformed,
         Round(b, 10, 18, \h60, \hEA), ChipClock(BitOf(init3_3v, b + 1))
  PROVE  /\ TrimClock(b)
         /\ b < 417 => Round(b + 1, 10, 18, \h60, \hEA)'
         /\ b = 417 => Ready'
<1>1. PICK n \in Nat \ {0}, m \in 0..38, x \in Byte \ {0}, y \in Byte :
        n = 10 /\ m = 18 /\ x = \h60 /\ y = \hEA
  BY DEF Byte
<1>2. /\ UNCHANGED <<tMode, genuine, flash, security>> /\ ~malformed'
      /\ b # 22 * m => Carried
      /\ b = 22 * m => Move /\ ram' = ram /\ reg[\hF8] = x /\ reg[\hF9] = y
      /\ b < 22 * m + 21 => Round(b + 1, n, m, x, y)'
      /\ b = 22 * m + 21 => Ready'
  <2>1. Piece(Init3Frames, n, m, x, y) /\ Round(b, n, m, x, y)
    BY <1>1, Piece2
  <2>2. 22 * (n - 1) <= b /\ b <= 22 * m + 21
    BY <1>1
  <2> QED BY <2>1, <2>2, RoundStep, SMTT(60)
<1>3. ASSUME b = 396 PROVE TrimClock(b)
  <2>1. Move /\ ram' = ram /\ reg[\hF8] = \h60 /\ reg[\hF9] = \hEA
    BY <1>1, <1>2, <1>3
  <2>2. reg'[\hEA] = reg[\hF0] /\ \A r \in RegUsed : r # \hEA => reg'[r] = reg[r]
    BY <1>3, <2>1, MoveWrites
  <2>3. UNCHANGED <<tMode, genuine, flash, security>> /\ ~malformed'
    BY <1>2
  <2>4. /\ ram'[\hF8] = ram[\hF8] /\ ram'[\hF9] = ram[\hF9]
        /\ reg'[\hF0] = reg[\hF0] /\ reg'[\hE8] = reg[\hE8]
    BY <2>1, <2>2, RamParts
  <2> QED BY <1>3, <2>1, <2>2, <2>3, <2>4 DEF TrimClock
<1>4. ASSUME b # 396 PROVE TrimClock(b)
  <2>1. Carried
    BY <1>1, <1>2, <1>4
  <2>2. UNCHANGED <<tMode, genuine, flash, security>> /\ ~malformed'
    BY <1>2
  <2>3. b \notin {176, 396, 594, 814}
    BY <1>4
  <2> QED BY <2>1, <2>2, <2>3 DEF TrimClock, Carried
<1>5. TrimClock(b)
  BY <1>3, <1>4
<1>6. /\ b < 417 => Round(b + 1, 10, 18, \h60, \hEA)'
      /\ b = 417 => Ready'
  BY <1>1, <1>2
<1> QED BY <1>5, <1>6

\* A bit of the third round: the second byte of the table is fetched.
LEMMA Round3Step ==
  ASSUME NEW b \in Nat, b \in 418..615, ChipTypeOK, ~malformed,
         Round(b, 20, 27, \h51, \hF9), ChipClock(BitOf(init3_3v, b + 1))
  PROVE  /\ TrimClock(b)
         /\ b < 615 => Round(b + 1, 20, 27, \h51, \hF9)'
         /\ b = 615 => Ready'
<1>1. PICK n \in Nat \ {0}, m \in 0..38, x \in Byte \ {0}, y \in Byte :
        n = 20 /\ m = 27 /\ x = \h51 /\ y = \hF9
  BY DEF Byte
<1>2. /\ UNCHANGED <<tMode, genuine, flash, security>> /\ ~malformed'
      /\ b # 22 * m => Carried
      /\ b = 22 * m => Move /\ ram' = ram /\ reg[\hF8] = x /\ reg[\hF9] = y
      /\ b < 22 * m + 21 => Round(b + 1, n, m, x, y)'
      /\ b = 22 * m + 21 => Ready'
  <2>1. Piece(Init3Frames, n, m, x, y) /\ Round(b, n, m, x, y)
    BY <1>1, Piece3
  <2>2. 22 * (n - 1) <= b /\ b <= 22 * m + 21
    BY <1>1
  <2> QED BY <2>1, <2>2, RoundStep, SMTT(60)
<1>3. ASSUME b = 594 PROVE TrimClock(b)
  <2>1. Move /\ ram' = ram /\ reg[\hF8] = \h51 /\ reg[\hF9] = \hF9
    BY <1>1, <1>2, <1>3
  <2>2. reg'[\hF0] = ram[\hF9] /\ UNCHANGED <<reg[\hEA], reg[\hE8]>>
    BY <1>3, <2>1, RamParts, MoveReads
  <2>3. UNCHANGED <<tMode, genuine, flash, security>> /\ ~malformed'
    BY <1>2
  <2>4. /\ ram'[\hF8] = ram[\hF8] /\ ram'[\hF9] = ram[\hF9]
        /\ reg'[\hEA] = reg[\hEA] /\ reg'[\hE8] = reg[\hE8]
    BY <2>1, <2>2, RamParts
  <2> QED BY <1>3, <2>1, <2>2, <2>3, <2>4 DEF TrimClock
<1>4. ASSUME b # 594 PROVE TrimClock(b)
  <2>1. Carried
    BY <1>1, <1>2, <1>4
  <2>2. UNCHANGED <<tMode, genuine, flash, security>> /\ ~malformed'
    BY <1>2
  <2>3. b \notin {176, 396, 594, 814}
    BY <1>4
  <2> QED BY <2>1, <2>2, <2>3 DEF TrimClock, Carried
<1>5. TrimClock(b)
  BY <1>3, <1>4
<1>6. /\ b < 615 => Round(b + 1, 20, 27, \h51, \hF9)'
      /\ b = 615 => Ready'
  BY <1>1, <1>2
<1> QED BY <1>5, <1>6

\* A bit of the last round: the trim \hE8.
LEMMA Round4Step ==
  ASSUME NEW b \in Nat, b \in 616..835, ChipTypeOK, ~malformed,
         Round(b, 29, 37, \h60, \hE8), ChipClock(BitOf(init3_3v, b + 1))
  PROVE  /\ TrimClock(b)
         /\ b < 835 => Round(b + 1, 29, 37, \h60, \hE8)'
         /\ b = 835 => Ready'
<1>1. PICK n \in Nat \ {0}, m \in 0..38, x \in Byte \ {0}, y \in Byte :
        n = 29 /\ m = 37 /\ x = \h60 /\ y = \hE8
  BY DEF Byte
<1>2. /\ UNCHANGED <<tMode, genuine, flash, security>> /\ ~malformed'
      /\ b # 22 * m => Carried
      /\ b = 22 * m => Move /\ ram' = ram /\ reg[\hF8] = x /\ reg[\hF9] = y
      /\ b < 22 * m + 21 => Round(b + 1, n, m, x, y)'
      /\ b = 22 * m + 21 => Ready'
  <2>1. Piece(Init3Frames, n, m, x, y) /\ Round(b, n, m, x, y)
    BY <1>1, Piece4
  <2>2. 22 * (n - 1) <= b /\ b <= 22 * m + 21
    BY <1>1
  <2> QED BY <2>1, <2>2, RoundStep, SMTT(60)
<1>3. ASSUME b = 814 PROVE TrimClock(b)
  <2>1. Move /\ ram' = ram /\ reg[\hF8] = \h60 /\ reg[\hF9] = \hE8
    BY <1>1, <1>2, <1>3
  <2>2. reg'[\hE8] = reg[\hF0] /\ \A r \in RegUsed : r # \hE8 => reg'[r] = reg[r]
    BY <1>3, <2>1, MoveWrites
  <2>3. UNCHANGED <<tMode, genuine, flash, security>> /\ ~malformed'
    BY <1>2
  <2>4. /\ ram'[\hF8] = ram[\hF8] /\ ram'[\hF9] = ram[\hF9]
        /\ reg'[\hF0] = reg[\hF0] /\ reg'[\hEA] = reg[\hEA]
    BY <2>1, <2>2, RamParts
  <2> QED BY <1>3, <2>1, <2>2, <2>3, <2>4 DEF TrimClock
<1>4. ASSUME b # 814 PROVE TrimClock(b)
  <2>1. Carried
    BY <1>1, <1>2, <1>4
  <2>2. UNCHANGED <<tMode, genuine, flash, security>> /\ ~malformed'
    BY <1>2
  <2>3. b \notin {176, 396, 594, 814}
    BY <1>4
  <2> QED BY <2>1, <2>2, <2>3 DEF TrimClock, Carried
<1>5. TrimClock(b)
  BY <1>3, <1>4
<1>6. /\ b < 835 => Round(b + 1, 29, 37, \h60, \hE8)'
      /\ b = 835 => Ready'
  BY <1>1, <1>2
<1> QED BY <1>5, <1>6

\* What the clock of bit b of init3_3v leaves, by the round it is in.
LEMMA RoundsStep ==
  ASSUME NEW b \in 0..835, ChipTypeOK, ~malformed, ChipClock(BitOf(init3_3v, b + 1)),
         b \in 0..197 => Round(b, 1, 8, \h51, \hF8),
         b \in 198..417 => Round(b, 10, 18, \h60, \hEA),
         b \in 418..615 => Round(b, 20, 27, \h51, \hF9),
         b \in 616..835 => Round(b, 29, 37, \h60, \hE8)
  PROVE  /\ TrimClock(b)
         /\ b + 1 \in 0..197 => Round(b + 1, 1, 8, \h51, \hF8)'
         /\ b + 1 \in 198..417 => Round(b + 1, 10, 18, \h60, \hEA)'
         /\ b + 1 \in 418..615 => Round(b + 1, 20, 27, \h51, \hF9)'
         /\ b + 1 \in 616..835 => Round(b + 1, 29, 37, \h60, \hE8)'
         /\ b = 835 => Ready'
<1>1. CASE b \in 0..197
  <2>1. /\ TrimClock(b) /\ (b = 197 => Ready')
        /\ b < 197 => Round(b + 1, 1, 8, \h51, \hF8)'
    BY <1>1, Round1Step
  <2>2. b = 197 => Round(198, 10, 18, \h60, \hEA)'
    BY <2>1, RoundsOpen
  <2> QED BY <1>1, <2>1, <2>2
<1>2. CASE b \in 198..417
  <2>1. /\ TrimClock(b) /\ (b = 417 => Ready')
        /\ b < 417 => Round(b + 1, 10, 18, \h60, \hEA)'
    BY <1>2, Round2Step
  <2>2. b = 417 => Round(418, 20, 27, \h51, \hF9)'
    BY <2>1, RoundsOpen
  <2> QED BY <1>2, <2>1, <2>2
<1>3. CASE b \in 418..615
  <2>1. /\ TrimClock(b) /\ (b = 615 => Ready')
        /\ b < 615 => Round(b + 1, 20, 27, \h51, \hF9)'
    BY <1>3, Round3Step
  <2>2. b = 615 => Round(616, 29, 37, \h60, \hE8)'
    BY <2>1, RoundsOpen
  <2> QED BY <1>3, <2>1, <2>2
<1>4. CASE b \in 616..835
  <2>1. /\ TrimClock(b) /\ (b = 835 => Ready')
        /\ b < 835 => Round(b + 1, 29, 37, \h60, \hE8)'
    BY <1>4, Round4Step
  <2> QED BY <1>4, <2>1
<1> QED BY <1>1, <1>2, <1>3, <1>4

\* Where the trims are at bit b of init3_3v: in the table, in the accumulator, in the registers.
TrimsAt(b) ==
  /\ ram[\hF8] = Trims[1] /\ ram[\hF9] = Trims[2]
  /\ b \in 177..396 => reg[\hF0] = Trims[1]
  /\ b \in 397..836 => reg[\hEA] = Trims[1]
  /\ b \in 595..814 => reg[\hF0] = Trims[2]
  /\ b \in 815..836 => reg[\hE8] = Trims[2]

\* A bit of it carries the trims one place on.
LEMMA TrimsMove ==
  ASSUME NEW b \in 0..835, TrimClock(b), TrimsAt(b)
  PROVE  TrimsAt(b + 1)'
  BY DEF TrimClock, TrimsAt

\* init3_3v begins.
LEMMA TrimsBegin ==
  ASSUME WireTypeOK, Sound, running, fn = "initialize", call = 18,
         Polled(10, Init2Frames, 13, "init2"), Next
  PROVE  /\ ~malformed' /\ UNCHANGED <<received, genuine, flash, security>>
         /\ Proceeds /\ call' \in {call, call + 1} /\ Initializing'
<1>1. Ready /\ ram[\hF8] = Trims[1] /\ ram[\hF9] = Trims[2] /\ ~malformed
  BY DEF Polled, Effect, Sound
<1>2. Doing("pp") /\ Quiet
  <2>1. Calls[fn][19] = pp /\ Len(Calls[fn]) = 25
    BY InitializeCalls
  <2>2. call + 1 = 19 /\ call < Len(Calls[fn])
    BY <2>1
  <2> QED BY <1>1, <2>1, <2>2, AtCall DEF pp, Ready, Listening, Quiet
<1>3. /\ Proceeds /\ output' = TRUE /\ call' = 19 /\ bit' = 0
      /\ UNCHANGED <<chipVars, latch, sclk, received>>
  BY <1>2, PPStep
<1>4. UNCHANGED <<tMode, genuine, flash, security, phase, len, bits, ram, reg, malformed>>
  BY <1>3 DEF chipVars, targetVars
<1>5. Ready'
  BY <1>1, <1>4 DEF Ready, Listening
<1>6. PICK b \in Nat : b = 0
  OBVIOUS
<1>7. Round(b, 1, 8, \h51, \hF8)'
  BY <1>5, <1>6, RoundsOpen
<1>8. Trimming'
  BY <1>1, <1>3, <1>4, <1>6, <1>7, RoundsTrimming
<1>9. Initializing'
  BY <1>3, <1>8 DEF Initializing
<1> QED BY <1>1, <1>3, <1>4, <1>9

\* A bit of it.
LEMMA TrimmingStep ==
  ASSUME WireTypeOK, Sound, running, fn = "initialize", call = 19, Trimming, Next
  PROVE  /\ ~malformed' /\ UNCHANGED <<received, genuine, flash, security>>
         /\ Proceeds /\ call' \in {call, call + 1} /\ Initializing'
<1>t. ChipTypeOK /\ ~malformed /\ bit \in Nat
  BY DEF WireTypeOK, Sound
<1>p. tMode = "prog"
  BY <1>t, TrimmingProg
<1>1. PICK b \in Nat : b = bit
  BY <1>t
<1>2. /\ output /\ b < 836 /\ ram[\hF8] = Trims[1] /\ ram[\hF9] = Trims[2]
      /\ b \in 0..197 => Round(b, 1, 8, \h51, \hF8)
      /\ b \in 198..417 => Round(b, 10, 18, \h60, \hEA)
      /\ b \in 418..615 => Round(b, 20, 27, \h51, \hF9)
      /\ b \in 616..835 => Round(b, 29, 37, \h60, \hE8)
      /\ b \in 177..396 => reg[\hF0] = Trims[1]
      /\ b \in 397..835 => reg[\hEA] = Trims[1]
      /\ b \in 595..814 => reg[\hF0] = Trims[2]
      /\ b \in 815..835 => reg[\hE8] = Trims[2]
  BY <1>1, <1>p, TrimmingRounds
<1>3. Quiet
  <2>1. b \in 0..197 \/ b \in 198..417 \/ b \in 418..615 \/ b \in 616..835
    BY <1>2
  <2> QED BY <1>2, <2>1 DEF Round, InVector, Heard, Took, Quiet
<1>4. Now = [do |-> "send", bytes |-> init3_3v, n |-> 836] /\ Doing("send")
  <2>1. Calls[fn][20] = [do |-> "send", bytes |-> init3_3v, n |-> 836] /\ Len(Calls[fn]) = 25
    BY InitializeCalls
  <2>2. call + 1 = 20 /\ call < Len(Calls[fn])
    BY <2>1
  <2> QED BY <2>1, <2>2, AtCall
<1>5. /\ Proceeds /\ UNCHANGED <<output, received>> /\ ChipClock(BitOf(init3_3v, b + 1))
      /\ IF b + 1 = 836 THEN call' = 20 /\ bit' = 0 ELSE call' = 19 /\ bit' = b + 1
  <2>1. PICK V \in Seq(Byte) : V = init3_3v /\ 22 * 38 <= 8 * Len(V)
    BY Init3Table DEF Table
  <2>2. Now.do = "send" /\ Now.bytes = V /\ Now.n = 836 /\ bit < 8 * Len(V)
    BY <1>1, <1>2, <1>4, <2>1
  <2>3. /\ Proceeds /\ UNCHANGED <<output, received>>
        /\ ChipClock(BitOf(V, bit + 1))
        /\ IF bit + 1 = Now.n THEN call' = call + 1 /\ bit' = 0 ELSE call' = call /\ bit' = bit + 1
    BY <1>2, <1>3, <1>4, <2>2, VectorSends, ZenonT(60)
  <2> QED BY <1>1, <2>1, <2>2, <2>3
<1>6. /\ TrimClock(b)
      /\ b + 1 \in 0..197 => Round(b + 1, 1, 8, \h51, \hF8)'
      /\ b + 1 \in 198..417 => Round(b + 1, 10, 18, \h60, \hEA)'
      /\ b + 1 \in 418..615 => Round(b + 1, 20, 27, \h51, \hF9)'
      /\ b + 1 \in 616..835 => Round(b + 1, 29, 37, \h60, \hE8)'
      /\ b = 835 => Ready'
  <2>1. b \in 0..835
    BY <1>2
  <2> QED BY <1>t, <1>2, <1>5, <2>1, RoundsStep, SMTT(30)
<1>7. /\ ram'[\hF8] = Trims[1] /\ ram'[\hF9] = Trims[2]
      /\ b + 1 \in 177..396 => reg'[\hF0] = Trims[1]
      /\ b + 1 \in 397..836 => reg'[\hEA] = Trims[1]
      /\ b + 1 \in 595..814 => reg'[\hF0] = Trims[2]
      /\ b + 1 \in 815..836 => reg'[\hE8] = Trims[2]
  <2>1. b \in 0..835
    BY <1>2
  <2>2. TrimsAt(b)
    BY <1>2 DEF TrimsAt
  <2>3. TrimsAt(b + 1)'
    BY <1>6, <2>1, <2>2, TrimsMove
  <2> QED BY <2>3 DEF TrimsAt
<1>8. ~malformed' /\ UNCHANGED <<genuine, flash, security>>
  BY <1>6 DEF TrimClock
<1>9. CASE b + 1 < 836
  <2>1. PICK e \in Nat : e = b + 1
    OBVIOUS
  <2>2. call' = 19 /\ bit' = e /\ e < 836 /\ output'
    BY <1>2, <1>5, <1>9, <2>1
  <2>3. Trimming'
    BY <1>6, <1>7, <2>1, <2>2, RoundsTrimming
  <2>4. Initializing'
    BY <2>2, <2>3 DEF Initializing
  <2> QED BY <1>5, <1>8, <2>2, <2>4
<1>10. CASE b + 1 = 836
  <2>1. call' = 20 /\ bit' = 0 /\ output' /\ Ready'
    BY <1>2, <1>5, <1>6, <1>10
  <2>2. reg'[\hEA] = Trims[1] /\ reg'[\hE8] = Trims[2]
    BY <1>7, <1>10
  <2>3. Initializing'
    BY <2>1, <2>2 DEF Initializing
  <2> QED BY <1>5, <1>8, <2>1, <2>3
<1> QED BY <1>2, <1>9, <1>10

\* A chip that is ready leaves SDATA alone.
LEMMA ReadySilent ==
  ASSUME Ready
  PROVE  Drives = Nothing
  BY Silent DEF Ready, Listening

\* The end of targetInitialize.
LEMMA InitTail ==
  ASSUME WireTypeOK, Sound, running, fn = "initialize", call \in 20..24, Initializing, Next
  PROVE  Proceeds /\ call' \in {call, call + 1} /\ UNCHANGED <<chipVars, received>> /\ Initializing'
<1>t. ChipTypeOK /\ ~malformed /\ bit \in Nat
  BY DEF WireTypeOK, Sound
<1>l. /\ Len(Calls[fn]) = 25
      /\ Calls[fn][21] = hiz /\ Calls[fn][22] = clock /\ Calls[fn][23] = pp
      /\ Calls[fn][24] = [do |-> "send", bytes |-> wait_and_poll_end, n |-> 40] /\ Calls[fn][25] = hiz
  BY InitializeCalls
<1>1. /\ Ready /\ reg[\hEA] = Trims[1] /\ reg[\hE8] = Trims[2] /\ Quiet
      /\ (IF call = 23 THEN output /\ bit < 40 ELSE bit = 0)
      /\ (call \in {20, 24} => output) /\ (call \in {21, 22} => ~output)
  BY DEF Initializing, Ready, Listening, Quiet
<1>i. ASSUME Proceeds, UNCHANGED <<chipVars, received>>, call' \in 20..25, call' \in {call, call + 1},
             IF call' = 23 THEN output' /\ bit' < 40 ELSE bit' = 0,
             call' \in {20, 24} => output', call' \in {21, 22, 25} => ~output'
      PROVE  Proceeds /\ call' \in {call, call + 1} /\ UNCHANGED <<chipVars, received>> /\ Initializing'
  <2>1. Ready' /\ reg'[\hEA] = Trims[1] /\ reg'[\hE8] = Trims[2]
    BY <1>1, <1>i DEF Ready, Listening, chipVars, targetVars
  <2>2. Initializing'
    BY <1>i, <2>1 DEF Initializing
  <2> QED BY <1>i, <2>2
<1>2. CASE call = 20 \/ call = 24
  <2>1. Doing("hiz")
    <3>1. call + 1 \in {21, 25} /\ call < Len(Calls[fn])
      BY <1>2, <1>l
    <3> QED BY <1>l, <3>1, AtCall DEF hiz
  <2>2. /\ Proceeds /\ output' = FALSE /\ call' = call + 1 /\ bit' = 0
        /\ UNCHANGED <<chipVars, latch, sclk, received>>
    BY <1>1, <2>1, HiZStep
  <2> QED BY <1>2, <1>i, <2>2
<1>3. CASE call = 21
  <2>1. Doing("clock")
    <3>1. call + 1 = 22 /\ call < Len(Calls[fn])
      BY <1>3, <1>l
    <3> QED BY <1>l, <3>1, AtCall DEF clock
  <2>2. /\ Proceeds /\ ChipClock(0) /\ call' = call + 1 /\ bit' = 0 /\ UNCHANGED <<output, received>>
    BY <1>1, <1>3, <2>1, ReadySilent, ClockStep
  <2>3. UNCHANGED chipVars
    BY <1>1, <2>2, TakesNothing DEF Ready, Listening
  <2> QED BY <1>1, <1>3, <1>i, <2>2, <2>3
<1>4. CASE call = 22
  <2>1. Doing("pp")
    <3>1. call + 1 = 23 /\ call < Len(Calls[fn])
      BY <1>4, <1>l
    <3> QED BY <1>l, <3>1, AtCall DEF pp
  <2>2. /\ Proceeds /\ output' = TRUE /\ call' = call + 1 /\ bit' = 0
        /\ UNCHANGED <<chipVars, latch, sclk, received>>
    BY <1>1, <2>1, PPStep
  <2> QED BY <1>4, <1>i, <2>2
<1>5. CASE call = 23
  <2>1. Now = [do |-> "send", bytes |-> wait_and_poll_end, n |-> 40] /\ Doing("send")
    <3>1. call + 1 = 24 /\ call < Len(Calls[fn])
      BY <1>5, <1>l
    <3> QED BY <1>l, <3>1, AtCall
  <2>2. PICK b \in 0..39 : b = bit
    BY <1>1, <1>5, <1>t
  <2>3. /\ Proceeds /\ UNCHANGED <<output, received>> /\ ChipClock(BitOf(wait_and_poll_end, bit + 1))
        /\ IF bit + 1 = Now.n THEN call' = call + 1 /\ bit' = 0 ELSE call' = call /\ bit' = bit + 1
    <3>1. PICK V \in Seq(Byte) : V = wait_and_poll_end /\ 8 * Len(V) = 40
      BY ZerosSent
    <3>2. Now.do = "send" /\ Now.bytes = V /\ bit < 8 * Len(V)
      BY <2>1, <2>2, <3>1
    <3> QED BY <1>1, <1>5, <2>1, <3>1, <3>2, VectorSends
  <2>4. ChipClock(0)
    BY <2>2, <2>3, ZerosSent
  <2>5. UNCHANGED chipVars
    BY <1>1, <2>4, TakesNothing DEF Ready, Listening
  <2>6. Now.n = 40
    BY <2>1
  <2>7. \/ call' = 24 /\ bit' = 0
        \/ call' = 23 /\ bit' < 40
    BY <1>5, <2>2, <2>3, <2>6
  <2> QED BY <1>1, <1>5, <1>i, <2>3, <2>5, <2>7
<1> QED BY <1>2, <1>3, <1>4, <1>5

\* A chip that missed the first frame hears nothing of init1_v, and the poll after it gives up.
LEMMA DeafInit ==
  ASSUME WireTypeOK, Sound, running, fn = "initialize", Deaf, Next
  PROVE  /\ ~malformed' /\ UNCHANGED <<received, genuine, flash, security>>
         /\ (Proceeds /\ Initializing') \/ (GivesUp /\ Stale')
<1>1. phase' = "deaf" => Stale'
  BY DEF Stale
<1> QED BY <1>1, DeafStep

\* targetInitialize, as a whole.
LEMMA InitializeStep ==
  ASSUME WireTypeOK, Sound, running, fn = "initialize", call < 25, Initializing, Next
  PROVE  /\ ~malformed' /\ UNCHANGED received
         /\ (Proceeds /\ Initializing') \/ (GivesUp /\ Stale')
         /\ \/ UNCHANGED <<genuine, flash, security>>
            \/ ~ok /\ Operation(failed[1], failed[2], failed[3], FALSE)
<1>1. PICK k \in 0..24 : k = call
  BY InitializeCalls DEF WireTypeOK
<1>2. CASE k \in 0..2
  BY <1>1, <1>2, ResetStep
<1>3. CASE k = 3
  <2>1. Waking \/ Deaf
    BY <1>1, <1>3 DEF Initializing
  <2>2. CASE Waking
    BY <1>1, <1>3, <2>2, WakeStep
  <2>3. CASE Deaf
    BY <2>3, DeafInit
  <2> QED BY <2>1, <2>2, <2>3
<1>4. CASE k \in 4..9
  <2>1. Polled(2, Init1Frames, 18, "init1") \/ Deaf
    BY <1>1, <1>4 DEF Initializing
  <2>2. CASE Polled(2, Init1Frames, 18, "init1")
    BY <1>1, <1>4, <2>2, InitPollStep
  <2>3. CASE Deaf
    BY <2>3, DeafInit
  <2> QED BY <2>1, <2>2, <2>3
<1>5. CASE k \in 10..17
  <2>1. Polled(10, Init2Frames, 13, "init2")
    BY <1>1, <1>5 DEF Initializing
  <2> QED BY <1>1, <1>5, <2>1, InitSecondStep
<1>6. CASE k = 18
  <2>1. Polled(10, Init2Frames, 13, "init2")
    BY <1>1, <1>6 DEF Initializing
  <2> QED BY <1>1, <1>6, <2>1, TrimsBegin
<1>7. CASE k = 19
  <2>1. Trimming
    BY <1>1, <1>7 DEF Initializing
  <2> QED BY <1>1, <1>7, <2>1, TrimmingStep
<1>8. CASE k \in 20..24
  <2>1. Proceeds /\ UNCHANGED <<chipVars, received>> /\ Initializing'
    BY <1>1, <1>8, InitTail
  <2> QED BY <2>1 DEF chipVars, targetVars, Sound
<1>9. k \in 0..2 \/ k = 3 \/ k \in 4..9 \/ k \in 10..17 \/ k = 18 \/ k = 19 \/ k \in 20..24
  OBVIOUS
<1> QED BY <1>2, <1>3, <1>4, <1>5, <1>6, <1>7, <1>8, <1>9

(***************************************************************************)
(* The functions, one step of each.                                        *)
(***************************************************************************)
\* What a step that does not return 0 may do to the cells.
Changes ==
  \/ UNCHANGED targetVars
  \/ Operation(fn, blockNum, dataOUT, FALSE)
  \/ ~ok /\ Operation(failed[1], failed[2], failed[3], FALSE)
  \/ fn = "initialize" /\ UNCHANGED <<genuine, flash, security>>

\* The function returns 1.
Succeeds == running' = FALSE /\ ok' = TRUE /\ UNCHANGED <<fn, blockNum, dataOUT, failed>>

\* The three ends of a step: the function goes on, gives up, returns 0.
Outcome ==
  /\ received' \in Seq(Byte) /\ ~malformed'
  /\ \/ Proceeds /\ At' /\ Changes
     \/ GivesUp /\ Stale' /\ Changes
     \/ Succeeds /\ Between' /\ Operation(fn, blockNum, dataOUT, TRUE)

\* A function that made its last call returns with the chip listening.
LEMMA Returns ==
  ASSUME WireTypeOK, Sound, running, call = Len(Calls[fn]), Quiet, Next,
         phase = "listening" /\ len = 0 /\ bits = 0,
         fn # "reStart" => tMode = "prog",
         fn = "load" => Loaded(dataOUT, BlockSize),
         fn = "initialize" => reg[\hEA] = Trims[1] /\ reg[\hE8] = Trims[2],
         UNCHANGED targetVars => Operation(fn, blockNum, dataOUT, TRUE)
  PROVE  Outcome
<1>1. returnOK
  BY AtEnd, QuietChip
<1>2. Succeeds /\ UNCHANGED <<chipVars, received>>
  BY <1>1 DEF returnOK, Return, Succeeds
<1>3. UNCHANGED <<targetVars, phase, len, bits, ram, reg, malformed>>
  BY <1>2 DEF chipVars
<1>4. Between'
  <2>1. phase' = "listening" /\ len' = 0 /\ bits' = 0 /\ (fn' # "reStart" => tMode' = "prog")
    BY <1>2, <1>3 DEF Succeeds, targetVars
  <2>2. (fn = "load" => Loaded(dataOUT, BlockSize))'
    BY <1>2, <1>3 DEF Succeeds, Loaded
  <2>3. fn' = "initialize" => reg'[\hEA] = Trims[1] /\ reg'[\hE8] = Trims[2]
    BY <1>2, <1>3 DEF Succeeds
  <2>4. ok'
    BY <1>2 DEF Succeeds
  <2> QED BY <2>1, <2>2, <2>3, <2>4 DEF Between
<1>5. received' \in Seq(Byte) /\ ~malformed'
  BY <1>2, <1>3 DEF WireTypeOK, Sound
<1> QED BY <1>2, <1>3, <1>4, <1>5 DEF Outcome

\* A function that goes on changes no cell.
LEMMA GoesOn ==
  ASSUME Proceeds, At', UNCHANGED targetVars, received' \in Seq(Byte), ~malformed'
  PROVE  Outcome
  BY DEF Outcome, Changes

\* One that gives up with nothing running leaves nothing stale.
LEMMA QuietGivesUp ==
  ASSUME GivesUp, phase' = "listening", UNCHANGED targetVars, received' \in Seq(Byte), ~malformed'
  PROVE  Outcome
  BY DEF Outcome, Changes, Stale

\* A vector, the routine it queues and the poll for its end.
LEMMA RoutineStep ==
  ASSUME NEW c \in Nat, NEW V, NEW F, NEW m \in Nat \ {0}, NEW job \in Jobs,
         job \in JobsOf(fn), PollsAt(Calls[fn], c, V, 22 * m), Table(V, F, m), Vector(F, 1, m, job),
         WireTypeOK, Sound, running, call \in c..(c + 7), Polled(c, F, m, job), Next
  PROVE  /\ ~malformed' /\ UNCHANGED received /\ Changes
         /\ \/ Proceeds /\ call' \in {call, call + 1} /\ Polled(c, F, m, job)'
            \/ GivesUp /\ Stale'
<1>1. CASE call \in {c, c + 1}
  <2>1. /\ Proceeds /\ call' \in {call, call + 1} /\ Polled(c, F, m, job)'
        /\ ~malformed' /\ UNCHANGED <<targetVars, received>>
    BY <1>1, QueueStep
  <2> QED BY <2>1 DEF Changes
<1>2. CASE call \in (c + 2)..(c + 7)
  <2>1. PICK L : L = 22 * m
    OBVIOUS
  <2>2. PollsAt(Calls[fn], c, V, L)
    BY <2>1
  <2>3. /\ ~malformed' /\ UNCHANGED received
        /\ \/ /\ Proceeds /\ call' \in {call, call + 1} /\ Polled(c, F, m, job)'
              /\ \/ UNCHANGED targetVars
                 \/ CellsAfter(job, blockNum, dataOUT) /\ tMode = "prog" /\ UNCHANGED <<tMode, genuine>>
           \/ /\ GivesUp /\ UNCHANGED chipVars
              /\ phase \in {"working", "high"} => Queued(job, blockNum, dataOUT)
    BY <1>2, <2>2, PollStep
  <2>4. CASE /\ Proceeds /\ call' \in {call, call + 1} /\ Polled(c, F, m, job)'
             /\ \/ UNCHANGED targetVars
                \/ CellsAfter(job, blockNum, dataOUT) /\ tMode = "prog" /\ UNCHANGED <<tMode, genuine>>
    <3>1. PICK f \in Functions, b \in BlockIdx, d \in Block : f = fn /\ b = blockNum /\ d = dataOUT
      BY Parameters DEF WireTypeOK
    <3>2. CellsAfter(job, b, d) /\ tMode = "prog" /\ UNCHANGED <<tMode, genuine>> => Operation(f, b, d, FALSE)
      BY <3>1, FinishIsOperation
    <3>3. Changes
      BY <2>4, <3>1, <3>2 DEF Changes
    <3> QED BY <2>3, <2>4, <3>3
  <2>5. CASE /\ GivesUp /\ UNCHANGED chipVars
             /\ phase \in {"working", "high"} => Queued(job, blockNum, dataOUT)
    <3>1. Stale'
      BY <2>5, GaveUpStale
    <3>2. Changes
      BY <2>5 DEF Changes, chipVars
    <3> QED BY <2>3, <2>5, <3>1, <3>2
  <2> QED BY <2>3, <2>4, <2>5
<1> QED BY <1>1, <1>2

\* The calls are numbered.
LEMMA CallRange ==
  ASSUME WireTypeOK
  PROVE  call \in Nat /\ call <= Len(Calls[fn]) /\ Len(Calls[fn]) \in Nat
  BY LenCalls DEF WireTypeOK

\* targetInitialize, targetErase, targetReStart and targetLoad.
LEMMA Initializes ==
  ASSUME WireTypeOK, Sound, running, fn = "initialize", At, Next
  PROVE  Outcome
<1>i. Initializing
  BY DEF At
<1>1. CASE call < 25
  <2>1. /\ ~malformed' /\ UNCHANGED received
        /\ (Proceeds /\ Initializing') \/ (GivesUp /\ Stale')
        /\ \/ UNCHANGED <<genuine, flash, security>>
           \/ ~ok /\ Operation(failed[1], failed[2], failed[3], FALSE)
    BY <1>1, <1>i, InitializeStep
  <2>2. Changes
    BY <2>1 DEF Changes
  <2>3. received' \in Seq(Byte)
    BY <2>1 DEF WireTypeOK
  <2>4. Proceeds /\ Initializing' => At'
    BY DEF At, Proceeds
  <2> QED BY <2>1, <2>2, <2>3, <2>4 DEF Outcome
<1>2. CASE call = 25
  <2>1. Len(Calls[fn]) = 25
    BY InitializeCalls
  <2>2. Ready /\ reg[\hEA] = Trims[1] /\ reg[\hE8] = Trims[2]
    BY <1>2, <1>i DEF Initializing
  <2>3. Quiet /\ phase = "listening" /\ len = 0 /\ bits = 0 /\ tMode = "prog"
    BY <2>2 DEF Ready, Listening, Quiet
  <2>4. UNCHANGED targetVars => Operation(fn, blockNum, dataOUT, TRUE)
    BY <2>3 DEF Operation, targetInitialize, targetVars
  <2> QED BY <1>2, <2>1, <2>2, <2>3, <2>4, Returns
<1>3. call < 25 \/ call = 25
  BY CallRange, InitializeCalls
<1> QED BY <1>1, <1>2, <1>3

\* Every step of eraseAll does what the function should.
LEMMA Erases ==
  ASSUME WireTypeOK, Sound, running, fn = "erase", At, Next
  PROVE  Outcome
<1>c. PollsAt(Calls[fn], 0, erase_all_v, 308) /\ Len(Calls[fn]) = 8
  BY EraseCalls
<1>i. Polled(0, EraseAllFrames, 14, "erase")
  BY DEF At
<1>1. CASE call < 8
  <2>1. PICK c \in Nat, m \in Nat \ {0}, job \in Jobs : c = 0 /\ m = 14 /\ job = "erase"
    BY JobNames
  <2>2. /\ ~malformed' /\ UNCHANGED received /\ Changes
        /\ \/ Proceeds /\ call' \in {call, call + 1} /\ Polled(c, EraseAllFrames, m, job)'
           \/ GivesUp /\ Stale'
    <3>1. PollsAt(Calls[fn], c, erase_all_v, 22 * m) /\ Polled(c, EraseAllFrames, m, job)
      BY <1>c, <1>i, <2>1
    <3>2. Table(erase_all_v, EraseAllFrames, m) /\ Vector(EraseAllFrames, 1, m, job)
      BY <2>1, EraseAllTable, EraseAllVector
    <3>3. job \in JobsOf(fn) /\ call \in c..(c + 7)
      BY <1>1, <2>1, CallRange, JobNames DEF JobsOf
    <3> QED BY <3>1, <3>2, <3>3, RoutineStep
  <2>3. received' \in Seq(Byte)
    BY <2>2 DEF WireTypeOK
  <2>4. Proceeds /\ Polled(c, EraseAllFrames, m, job)' => At'
    BY <2>1 DEF At, Proceeds
  <2> QED BY <2>2, <2>3, <2>4 DEF Outcome
<1>2. CASE call = 8
  <2>1. Ready /\ Effect("erase", blockNum, dataOUT)
    BY <1>2, <1>i DEF Polled
  <2>2. Quiet /\ phase = "listening" /\ len = 0 /\ bits = 0 /\ tMode = "prog"
    BY <2>1 DEF Ready, Listening, Quiet
  <2>3. UNCHANGED targetVars => Operation(fn, blockNum, dataOUT, TRUE)
    BY <2>1, <2>2 DEF Effect, Operation, targetErase, Answers, targetVars
  <2> QED BY <1>2, <1>c, <2>2, <2>3, Returns
<1>3. call < 8 \/ call = 8
  BY CallRange, <1>c
<1> QED BY <1>1, <1>2, <1>3

\* Every step of reStart does what the function should.
LEMMA ReStarts ==
  ASSUME WireTypeOK, Sound, running, fn = "reStart", At, Next
  PROVE  Outcome
<1>c. Len(Calls[fn]) = 1 /\ Calls[fn][1] = reset
  BY ReStartCalls
<1>i. /\ bit = 0 /\ phase = "listening" /\ len = 0 /\ bits = 0 /\ Quiet
      /\ call = 1 => tMode = "run"
  BY DEF At, Quiet
<1>1. CASE call = 0
  <2>1. Doing("reset")
    <3>1. call + 1 = 1 /\ call < Len(Calls[fn])
      BY <1>1, <1>c
    <3> QED BY <1>c, <3>1, AtCall DEF reset
  <2>2. resetTarget
    BY <1>i, <2>1, AtReset, QuietChip
  <2>3. /\ Proceeds /\ call' = 1 /\ bit' = 0 /\ UNCHANGED received
        /\ phase' = "listening" /\ len' = 0 /\ bits' = 0 /\ tMode' = "run"
        /\ UNCHANGED <<genuine, flash, security, malformed>>
    BY <1>1, <2>2 DEF resetTarget, ChipReset, NextCall, Proceeds
  <2>4. Changes
    BY <2>3 DEF Changes, Operation, targetReStart
  <2>5. At'
    BY <2>3 DEF At, Proceeds
  <2>6. received' \in Seq(Byte) /\ ~malformed'
    BY <2>3 DEF WireTypeOK, Sound
  <2> QED BY <2>3, <2>4, <2>5, <2>6 DEF Outcome
<1>2. CASE call = 1
  <2>1. UNCHANGED targetVars => Operation(fn, blockNum, dataOUT, TRUE)
    BY <1>2, <1>i DEF Operation, targetReStart, targetVars
  <2> QED BY <1>2, <1>c, <1>i, <2>1, Returns
<1>3. call = 0 \/ call = 1
  BY CallRange, <1>c
<1> QED BY <1>1, <1>2, <1>3

\* Every step of loadBlock does what the function should.
LEMMA Loads ==
  ASSUME WireTypeOK, Sound, running, fn = "load", At, Next
  PROVE  Outcome
<1>l. PICK B \in Nat : B = BlockSize /\ B > 0
  BY RamParts
<1>c. /\ Len(Calls[fn]) = 1 + 4 * B /\ Calls[fn][1] = pp
      /\ \A q \in 0..(B - 1) : WritesAt(Calls[fn], 1 + 4 * q, q + 1)
  BY <1>l, LoadCalls
<1>k. call \in Nat /\ call <= 1 + 4 * B
  BY <1>c, CallRange
<1>1. CASE call = 0
  <2>1. bit = 0 /\ Ready
    BY <1>1 DEF At
  <2>2. Doing("pp") /\ Quiet
    <3>1. call + 1 = 1 /\ call < Len(Calls[fn])
      BY <1>1, <1>c, <1>l
    <3> QED BY <1>c, <2>1, <3>1, AtCall DEF pp, Ready, Listening, Quiet
  <2>3. /\ Proceeds /\ output' = TRUE /\ call' = 1 /\ bit' = 0
        /\ UNCHANGED <<chipVars, latch, sclk, received>>
    BY <1>1, <2>2, PPStep
  <2>4. UNCHANGED <<targetVars, malformed>> /\ Ready'
    BY <2>1, <2>3 DEF chipVars, targetVars, Ready, Listening
  <2>5. WritingLoop(1, BlockSize)'
    BY <2>3, <2>4, WritingBegins, RamParts
  <2>6. At'
    BY <2>3, <2>5 DEF At, Proceeds
  <2> QED BY <2>3, <2>4, <2>6, GoesOn DEF WireTypeOK, Sound
<1>2. CASE call \in 1..(4 * B)
  <2>1. PICK c \in Nat, n \in 1..BlockSize : c = 1 /\ n = B
    BY <1>l
  <2>2. WritingLoop(c, n)
    BY <1>2, <1>l, <2>1 DEF At
  <2>3. \A q \in 0..(n - 1) : WritesAt(Calls[fn], c + 4 * q, q + 1)
    BY <1>c, <2>1
  <2>4. call \in c..(c + 4 * n - 1)
    BY <1>2, <2>1
  <2>5. Steady /\ UNCHANGED <<received, output>> /\ WritingLoop(c, n)'
    BY <2>2, <2>3, <2>4, WritingLoopStep
  <2>6. At'
    <3>1. fn' = "load" /\ call' # 0
      BY <1>2, <2>5 DEF Steady, Proceeds
    <3>2. WritingLoop(1, BlockSize)'
      BY <1>l, <2>1, <2>5
    <3> QED BY <3>1, <3>2 DEF At
  <2> QED BY <2>5, <2>6, GoesOn DEF Steady, WireTypeOK
<1>3. CASE call = 1 + 4 * B
  <2>1. Ready /\ Loaded(dataOUT, BlockSize)
    BY <1>3, <1>l DEF At, WritingLoop
  <2>2. Quiet /\ phase = "listening" /\ len = 0 /\ bits = 0 /\ tMode = "prog"
    BY <2>1 DEF Ready, Listening, Quiet
  <2>3. UNCHANGED targetVars => Operation(fn, blockNum, dataOUT, TRUE)
    BY DEF Operation
  <2> QED BY <1>3, <1>c, <2>1, <2>2, <2>3, Returns
<1> QED BY <1>k, <1>1, <1>2, <1>3

\* targetBlockProgram: the block's number, then its routine, which programs what was loaded.
LEMMA ProgramsBlock ==
  ASSUME WireTypeOK, Sound, running, fn = "blockProgram", At, Next
  PROVE  Outcome
<1>c. /\ Len(Calls[fn]) = 14 /\ SelectsAt(Calls[fn], 0)
      /\ PollsAt(Calls[fn], 6, program_block, 308)
  BY BlockProgramCalls
<1>k. call \in Nat /\ call <= 14
  BY <1>c, CallRange
<1>1. CASE call \in 0..5
  <2>1. PICK c \in Nat : c = 0
    OBVIOUS
  <2>2. Selecting(c) /\ Loaded(dataOUT, BlockSize)
    BY <1>1, <2>1 DEF At
  <2>3. /\ Steady /\ Selecting(c)' /\ UNCHANGED received
        /\ \A i \in 1..BlockSize : ram'[DataAddr(i)] = ram[DataAddr(i)]
        /\ call' = c + 6 => bit' = 0 /\ Ready' /\ BlockNumber' = blockNum
    <3>1. SelectsAt(Calls[fn], c) /\ call \in c..(c + 5)
      BY <1>1, <1>c, <2>1
    <3> QED BY <2>2, <3>1, SelectStep
  <2>4. Loaded(dataOUT, BlockSize)'
    BY <2>2, <2>3 DEF Loaded, Steady, Proceeds
  <2>5. call' \in 0..6 /\ fn' = "blockProgram" /\ blockNum' = blockNum
    BY <1>1, <2>3 DEF Steady, Proceeds
  <2>6. call' = 6 => Polled(6, ProgramBlockFrames, 14, "blockProgram")'
    <3>1. call' = 6 => bit' = 0 /\ Ready' /\ BlockNumber' = blockNum
      BY <2>1, <2>3
    <3>2. call' = 6 => Need("blockProgram", blockNum, dataOUT)'
      BY <2>4, <2>5, <3>1 DEF Need
    <3> QED BY <3>1, <3>2 DEF Polled
  <2>7. Selecting(0)'
    BY <2>1, <2>3
  <2>8. At'
    BY <2>4, <2>5, <2>6, <2>7 DEF At
  <2> QED BY <2>3, <2>8, GoesOn DEF Steady, WireTypeOK
<1>2. CASE call \in 6..13
  <2>1. PICK c \in Nat, m \in Nat \ {0}, job \in Jobs : c = 6 /\ m = 14 /\ job = "blockProgram"
    BY JobNames
  <2>2. /\ ~malformed' /\ UNCHANGED received /\ Changes
        /\ \/ Proceeds /\ call' \in {call, call + 1} /\ Polled(c, ProgramBlockFrames, m, job)'
           \/ GivesUp /\ Stale'
    <3>1. PollsAt(Calls[fn], c, program_block, 22 * m) /\ Polled(c, ProgramBlockFrames, m, job)
      BY <1>2, <1>c, <2>1 DEF At
    <3>2. Table(program_block, ProgramBlockFrames, m) /\ Vector(ProgramBlockFrames, 1, m, job)
      BY <2>1, ProgramBlockTable, ProgramBlockVector
    <3>3. job \in JobsOf(fn) /\ call \in c..(c + 7)
      BY <1>2, <2>1, JobNames DEF JobsOf
    <3> QED BY <3>1, <3>2, <3>3, RoutineStep
  <2>3. received' \in Seq(Byte)
    BY <2>2 DEF WireTypeOK
  <2>4. Proceeds /\ call' \in {call, call + 1} /\ Polled(c, ProgramBlockFrames, m, job)' => At'
    BY <1>2, <2>1 DEF At, Proceeds
  <2> QED BY <2>2, <2>3, <2>4 DEF Outcome
<1>3. CASE call = 14
  <2>1. Ready /\ Effect("blockProgram", blockNum, dataOUT)
    BY <1>3 DEF At, Polled
  <2>2. Quiet /\ phase = "listening" /\ len = 0 /\ bits = 0 /\ tMode = "prog"
    BY <2>1 DEF Ready, Listening, Quiet
  <2>3. flash[blockNum] = dataOUT
    BY <2>1 DEF Effect
  <2>4. flash \in [BlockIdx -> Block \cup {Erased}]
    BY DEF Sound, Solid
  <2>5. flash = [flash EXCEPT ![blockNum] = dataOUT]
    BY <2>3, <2>4
  <2>6. UNCHANGED targetVars => Operation(fn, blockNum, dataOUT, TRUE)
    BY <2>2, <2>5 DEF Operation, targetBlockProgram, Answers, targetVars
  <2> QED BY <1>3, <1>c, <2>2, <2>6, Returns
<1> QED BY <1>k, <1>1, <1>2, <1>3

\* targetSecurityFlash: the bytes are loaded, then the routine stores them.
LEMMA FlashesSecurity ==
  ASSUME WireTypeOK, Sound, running, fn = "securityFlash", At, Next
  PROVE  Outcome
<1>l. PICK S \in Nat : S = SecuritySize /\ S > 0
  BY RamParts
<1>c. /\ Len(Calls[fn]) = 9 + 4 * S /\ Calls[fn][1] = pp
      /\ \A q \in 0..(S - 1) : WritesAt(Calls[fn], 1 + 4 * q, q + 1)
      /\ PollsAt(Calls[fn], 1 + 4 * S, security_v, 308)
  BY <1>l, SecurityFlashCalls
<1>k. call \in Nat /\ call <= 9 + 4 * S
  BY <1>c, CallRange
<1>1. CASE call = 0
  <2>1. bit = 0 /\ Ready
    BY <1>1 DEF At
  <2>2. Doing("pp") /\ Quiet
    <3>1. call + 1 = 1 /\ call < Len(Calls[fn])
      BY <1>1, <1>c, <1>l
    <3> QED BY <1>c, <2>1, <3>1, AtCall DEF pp, Ready, Listening, Quiet
  <2>3. /\ Proceeds /\ output' = TRUE /\ call' = 1 /\ bit' = 0
        /\ UNCHANGED <<chipVars, latch, sclk, received>>
    BY <1>1, <2>2, PPStep
  <2>4. UNCHANGED <<targetVars, malformed>> /\ Ready'
    BY <2>1, <2>3 DEF chipVars, targetVars, Ready, Listening
  <2>5. WritingLoop(1, SecuritySize)'
    BY <2>3, <2>4, WritingBegins, RamParts
  <2>6. At'
    BY <1>l, <2>3, <2>5 DEF At, Proceeds
  <2> QED BY <2>3, <2>4, <2>6, GoesOn DEF WireTypeOK, Sound
<1>2. CASE call \in 1..(4 * S)
  <2>1. PICK c \in Nat, n \in 1..BlockSize : c = 1 /\ n = S
    BY <1>l, RamParts
  <2>2. WritingLoop(c, n)
    BY <1>2, <1>l, <2>1 DEF At
  <2>3. \A q \in 0..(n - 1) : WritesAt(Calls[fn], c + 4 * q, q + 1)
    BY <1>c, <2>1
  <2>4. call \in c..(c + 4 * n - 1)
    BY <1>2, <2>1
  <2>5. /\ Steady /\ UNCHANGED <<received, output>> /\ WritingLoop(c, n)'
        /\ call' = c + 4 * n => bit' = 0
    BY <2>2, <2>3, <2>4, WritingLoopStep
  <2>6. At'
    <3>1. fn' = "securityFlash" /\ call' \in 1..(1 + 4 * S)
      BY <1>2, <2>5 DEF Steady, Proceeds
    <3>2. WritingLoop(1, SecuritySize)'
      BY <1>l, <2>1, <2>5
    <3>3. ASSUME call' = 1 + 4 * S
          PROVE  Polled(1 + 4 * S, SecurityFFrames, 14, "securityFlash")'
      <4>1. bit' = 0 /\ Ready' /\ Loaded(dataOUT, S)'
        BY <2>1, <2>5, <3>3 DEF WritingLoop
      <4>2. Need("securityFlash", blockNum, dataOUT)'
        BY <1>l, <4>1 DEF Need
      <4> QED BY <3>3, <4>1, <4>2 DEF Polled
    <3> QED BY <1>l, <3>1, <3>2, <3>3 DEF At
  <2> QED BY <2>5, <2>6, GoesOn DEF Steady, WireTypeOK
<1>3. CASE call \in (1 + 4 * S)..(8 + 4 * S)
  <2>1. PICK c \in Nat, m \in Nat \ {0}, job \in Jobs : c = 1 + 4 * S /\ m = 14 /\ job = "securityFlash"
    BY JobNames
  <2>2. /\ ~malformed' /\ UNCHANGED received /\ Changes
        /\ \/ Proceeds /\ call' \in {call, call + 1} /\ Polled(c, SecurityFFrames, m, job)'
           \/ GivesUp /\ Stale'
    <3>1. PollsAt(Calls[fn], c, security_v, 22 * m) /\ Polled(c, SecurityFFrames, m, job)
      BY <1>3, <1>c, <1>l, <2>1 DEF At
    <3>2. Table(security_v, SecurityFFrames, m) /\ Vector(SecurityFFrames, 1, m, job)
      BY <2>1, SecurityFTable, SecurityFVector
    <3>3. job \in JobsOf(fn) /\ call \in c..(c + 7)
      BY <1>3, <2>1, JobNames DEF JobsOf
    <3> QED BY <3>1, <3>2, <3>3, RoutineStep
  <2>3. received' \in Seq(Byte)
    BY <2>2 DEF WireTypeOK
  <2>4. ASSUME Proceeds, call' \in {call, call + 1}, Polled(c, SecurityFFrames, m, job)' PROVE At'
    <3>1. fn' = "securityFlash" /\ call' \in (1 + 4 * S)..(9 + 4 * S)
      BY <1>3, <2>4 DEF Proceeds
    <3>2. Polled(1 + 4 * SecuritySize, SecurityFFrames, 14, "securityFlash")'
      BY <1>l, <2>1, <2>4
    <3>3. call' = 1 + 4 * S => WritingLoop(1, SecuritySize)'
      <4>1. call' = 1 + 4 * S => call = 1 + 4 * S
        BY <1>3, <2>4
      <4>2. call' = 1 + 4 * S => bit' = 0 /\ Ready' /\ Need("securityFlash", blockNum, dataOUT)'
        BY <1>l, <3>2 DEF Polled
      <4>3. call' = 1 + 4 * S => bit' = 0 /\ Ready' /\ Loaded(dataOUT, SecuritySize)'
        BY <4>2 DEF Need
      <4> QED BY <1>l, <4>3 DEF WritingLoop
    <3> QED BY <1>l, <3>1, <3>2, <3>3 DEF At
  <2> QED BY <2>2, <2>3, <2>4 DEF Outcome
<1>4. CASE call = 9 + 4 * S
  <2>1. Ready /\ Effect("securityFlash", blockNum, dataOUT)
    <3>1. Polled(1 + 4 * SecuritySize, SecurityFFrames, 14, "securityFlash")
      BY <1>4, <1>l DEF At
    <3>2. PICK c \in Nat : c = 1 + 4 * SecuritySize /\ call = c + 8
      BY <1>4, <1>l
    <3> QED BY <3>1, <3>2 DEF Polled
  <2>2. Quiet /\ phase = "listening" /\ len = 0 /\ bits = 0 /\ tMode = "prog"
    BY <2>1 DEF Ready, Listening, Quiet
  <2>3. security = SecurityPart(dataOUT)
    BY <2>1 DEF Effect
  <2>4. UNCHANGED targetVars => Operation(fn, blockNum, dataOUT, TRUE)
    BY <2>2, <2>3 DEF Operation, targetSecurityFlash, Answers, targetVars
  <2> QED BY <1>4, <1>c, <2>2, <2>4, Returns
<1> QED BY <1>k, <1>1, <1>2, <1>3, <1>4

\* The bits around a read, in the two vectors that have them.
LEMMA ReadVectors ==
  /\ CarriesAddress(read_id_v, ReadID(\hF8), 0) /\ CarriesAddress(From(read_id_v, 2), ReadID(\hF9), 1)
  /\ CarriesAddress(read_checksum_v, ReadID(\hF9), 0) /\ CarriesAddress(From(read_checksum_v, 2), ReadID(\hF8), 1)
  /\ BitOf(From(read_id_v, 2), 1) \in {0, 1} /\ BitOf(From(read_id_v, 4), 1) \in {0, 1}
  /\ BitOf(From(read_checksum_v, 2), 1) \in {0, 1} /\ BitOf(From(read_checksum_v, 3), 1) \in {0, 1}
<1>1. ASSUME NEW V \in Seq(Byte), Len(V) > 0 PROVE BitOf(V, 1) \in {0, 1}
  BY <1>1, BitOfType
<1>2. ASSUME NEW V \in Seq(Byte), NEW k \in Nat, k < Len(V)
      PROVE  From(V, k) \in Seq(Byte) /\ Len(From(V, k)) > 0
  BY <1>2 DEF From
<1>3. read_id_v \in Seq(Byte) /\ Len(read_id_v) = 5
  BY DEF read_id_v, Byte
<1>4. read_checksum_v \in Seq(Byte) /\ Len(read_checksum_v) = 5
  BY DEF read_checksum_v, Byte
<1>5. ASSUME NEW V \in Seq(Byte), NEW k \in Nat, k < Len(V)
      PROVE  BitOf(From(V, k), 1) \in {0, 1}
  BY <1>1, <1>2, <1>5
<1>6. BitOf(From(read_id_v, 2), 1) \in {0, 1} /\ BitOf(From(read_id_v, 4), 1) \in {0, 1}
  BY <1>3, <1>5
<1>7. BitOf(From(read_checksum_v, 2), 1) \in {0, 1} /\ BitOf(From(read_checksum_v, 3), 1) \in {0, 1}
  BY <1>4, <1>5
<1> QED BY <1>6, <1>7, ReadIDSent, ReadChecksumSent

\* The two addresses read after targetSiliconIDVerify's and targetBankChecksumGet's routine.
LEMMA ReadIDs ==
  /\ ReadID(\hF8) \in Nat /\ ReadID(\hF8) \div 256 = 5 /\ ReadID(\hF8) % 256 = \hF8
  /\ ReadID(\hF9) \in Nat /\ ReadID(\hF9) \div 256 = 5 /\ ReadID(\hF9) % 256 = \hF9
  BY DEF ReadID

\* A word is read from F8 and F9, or from F9 and F8.
LEMMA WordStep ==
  ASSUME NEW c \in Nat, NEW V, NEW W, NEW a \in {\hF8, \hF9}, NEW b \in {\hF8, \hF9},
         ReadsAt(Calls[fn], c, V, W), CarriesAddress(V, ReadID(a), 0), CarriesAddress(From(V, 2), ReadID(b), 1),
         BitOf(From(V, 2), 1) \in {0, 1}, BitOf(W, 1) \in {0, 1},
         WireTypeOK, Sound, running, call \in c..(c + 16), ReadingTwice(c, ReadID(a), ReadID(b)), Next
  PROVE  /\ Steady /\ UNCHANGED <<ram, reg>> /\ ReadingTwice(c, ReadID(a), ReadID(b))'
         /\ received' \in Seq(Byte)
<1>1. PICK P \in Nat : P = ReadID(a) /\ P \div 256 = 5 /\ P % 256 \in RamUsed
  BY ReadIDs, RamParts
<1>2. PICK Q \in Nat : Q = ReadID(b) /\ Q \div 256 = 5 /\ Q % 256 \in RamUsed
  BY ReadIDs, RamParts
<1>3. CarriesAddress(V, P, 0) /\ CarriesAddress(From(V, 2), Q, 1) /\ ReadingTwice(c, P, Q)
  BY <1>1, <1>2
<1>4. /\ Steady /\ UNCHANGED <<ram, reg>> /\ ReadingTwice(c, P, Q)' /\ received' \in Seq(Byte)
  BY <1>1, <1>2, <1>3, ReadStep, SMTT(60)
<1> QED BY <1>1, <1>2, <1>4

\* After both reads the two bytes are those the routine left.
LEMMA WordRead ==
  ASSUME NEW c \in Nat, NEW a \in {\hF8, \hF9}, NEW b \in {\hF8, \hF9},
         call = c + 17, ReadingTwice(c, ReadID(a), ReadID(b)), received \in Seq(Byte)
  PROVE  bit = 0 /\ Ready /\ Len(received) = 2 /\ received = <<ram[a], ram[b]>>
<1>1. PICK P, Q : P = ReadID(a) /\ Q = ReadID(b) /\ P % 256 = a /\ Q % 256 = b
  BY ReadIDs
<1>2. ReadingTwice(c, P, Q)
  BY <1>1
<1>3. bit = 0 /\ Ready /\ Received(Q, 1) /\ received[1] = ram[P % 256]
  BY <1>2 DEF ReadingTwice
<1>4. Len(received) = 2 /\ received[1] = ram[a] /\ received[2] = ram[b]
  BY <1>1, <1>3 DEF Received
<1> QED BY <1>3, <1>4

\* targetSiliconIDVerify: it returns 1 exactly when the chip's silicon ID is the one expected.
LEMMA VerifiesID ==
  ASSUME WireTypeOK, Sound, running, fn = "siliconID", At, Next
  PROVE  Outcome
<1>c. /\ Len(Calls[fn]) = 26 /\ PollsAt(Calls[fn], 0, id_setup_v, 330)
      /\ ReadsAt(Calls[fn], 8, read_id_v, From(read_id_v, 4)) /\ Calls[fn][26] = [do |-> "id"]
  BY SiliconIDCalls
<1>k. call \in Nat /\ call <= 26
  BY <1>c, CallRange
<1>1. CASE call \in 0..7
  <2>1. PICK c \in Nat, m \in Nat \ {0}, job \in Jobs : c = 0 /\ m = 15 /\ job = "siliconID"
    BY JobNames
  <2>2. /\ ~malformed' /\ UNCHANGED received /\ Changes
        /\ \/ Proceeds /\ call' \in {call, call + 1} /\ Polled(c, IdSetupFrames, m, job)'
           \/ GivesUp /\ Stale'
    <3>1. PollsAt(Calls[fn], c, id_setup_v, 22 * m) /\ Polled(c, IdSetupFrames, m, job)
      BY <1>1, <1>c, <2>1 DEF At
    <3>2. Table(id_setup_v, IdSetupFrames, m) /\ Vector(IdSetupFrames, 1, m, job)
      BY <2>1, IdSetupTable, IdSetupVector
    <3>3. job \in JobsOf(fn) /\ call \in c..(c + 7)
      BY <1>1, <2>1, JobNames DEF JobsOf
    <3> QED BY <3>1, <3>2, <3>3, RoutineStep
  <2>3. received' = <<>> /\ received' \in Seq(Byte)
    BY <1>1, <2>2 DEF At, WireTypeOK
  <2>4. ASSUME Proceeds, call' \in {call, call + 1}, Polled(c, IdSetupFrames, m, job)' PROVE At'
    <3>1. fn' = "siliconID" /\ call' \in 0..8 /\ Polled(0, IdSetupFrames, 15, "siliconID")'
      BY <1>1, <2>1, <2>4 DEF Proceeds
    <3>2. call' = 8 => bit' = 0 /\ Ready' /\ Effect("siliconID", blockNum, dataOUT)'
      BY <3>1 DEF Polled
    <3>3. call' = 8 => ReadingTwice(8, ReadID(\hF8), ReadID(\hF9))'
      BY <2>3, <3>2 DEF ReadingTwice, Answer
    <3>4. CASE call' = 8
      BY <2>3, <3>1, <3>2, <3>3, <3>4 DEF At
    <3>5. CASE call' \in 0..7
      <4>1. call' \notin 8..25 /\ ~(call' >= 8) /\ call' # 26
        BY <3>5
      <4> QED BY <2>3, <3>1, <4>1 DEF At
    <3> QED BY <3>1, <3>4, <3>5
  <2> QED BY <2>2, <2>3, <2>4 DEF Outcome
<1>2. CASE call \in 8..24
  <2>1. Effect("siliconID", blockNum, dataOUT) /\ ReadingTwice(8, ReadID(\hF8), ReadID(\hF9))
    BY <1>2 DEF At
  <2>p. PICK c \in Nat, a \in {\hF8, \hF9}, b \in {\hF8, \hF9} : c = 8 /\ a = \hF8 /\ b = \hF9
    OBVIOUS
  <2>v. PICK V, W : V = read_id_v /\ W = From(read_id_v, 4)
    OBVIOUS
  <2>2. c = 8 /\ a = \hF8 /\ b = \hF9 /\ V = read_id_v /\ W = From(read_id_v, 4)
    BY <2>p, <2>v
  <2>3. /\ Steady /\ UNCHANGED <<ram, reg>> /\ ReadingTwice(c, ReadID(a), ReadID(b))'
        /\ received' \in Seq(Byte)
    <3>1. ReadsAt(Calls[fn], c, V, W) /\ ReadingTwice(c, ReadID(a), ReadID(b))
      BY <1>c, <2>1, <2>2
    <3>2. /\ CarriesAddress(V, ReadID(a), 0) /\ CarriesAddress(From(V, 2), ReadID(b), 1)
          /\ BitOf(From(V, 2), 1) \in {0, 1} /\ BitOf(W, 1) \in {0, 1}
      BY <2>2, ReadVectors
    <3>3. call \in c..(c + 16)
      BY <1>2, <2>2
    <3> QED BY <3>1, <3>2, <3>3, WordStep
  <2>4. Effect("siliconID", blockNum, dataOUT)'
    BY <2>1, <2>3, EffectKept DEF Steady, Proceeds
  <2>5. fn' = "siliconID" /\ call' \in 8..25 /\ ReadingTwice(8, ReadID(\hF8), ReadID(\hF9))'
    BY <1>2, <2>2, <2>3 DEF Steady, Proceeds
  <2>6. call' = 8 => Polled(0, IdSetupFrames, 15, "siliconID")' /\ received' = <<>>
    <3>1. call' = 8 => bit' = 0 /\ Ready' /\ Len(received') = 0
      BY <2>5 DEF ReadingTwice
    <3>2. call' = 8 => received' = <<>>
      BY <2>3, <3>1
    <3> QED BY <2>4, <3>1, <3>2 DEF Polled
  <2>7. At'
    <3>1. CASE call' = 8
      BY <2>4, <2>5, <2>6, <3>1 DEF At
    <3>2. CASE call' \in 9..25
      <4>1. call' \notin 0..8 /\ call' # 26
        BY <3>2
      <4> QED BY <2>4, <2>5, <4>1 DEF At
    <3> QED BY <2>5, <3>1, <3>2
  <2> QED BY <2>3, <2>7, GoesOn DEF Steady
<1>3. CASE call = 25
  <2>1. Effect("siliconID", blockNum, dataOUT) /\ ReadingTwice(8, ReadID(\hF8), ReadID(\hF9))
    BY <1>3 DEF At
  <2>2. bit = 0 /\ Ready /\ received = <<ram[\hF8], ram[\hF9]>>
    <3>1. PICK c \in Nat, a \in {\hF8, \hF9}, b \in {\hF8, \hF9} :
            c = 8 /\ a = \hF8 /\ b = \hF9
      OBVIOUS
    <3>2. call = c + 17 /\ ReadingTwice(c, ReadID(a), ReadID(b))
      BY <1>3, <2>1, <3>1
    <3>3. bit = 0 /\ Ready /\ received = <<ram[a], ram[b]>>
      BY <3>2, WordRead DEF WireTypeOK
    <3> QED BY <3>1, <3>3
  <2>3. Now = [do |-> "id"] /\ Doing("id")
    <3>1. call + 1 = 26 /\ call < Len(Calls[fn])
      BY <1>3, <1>c
    <3> QED BY <1>c, <3>1, AtCall
  <2>4. Quiet
    BY <2>2 DEF Ready, Listening, Quiet
  <2>5. check
    BY <2>3, <2>4, AtId, QuietChip
  <2>6. Expected <=> received = target_id_v
    BY <2>3 DEF Expected
  <2>7. UNCHANGED <<chipVars, fn, received, dataOUT, blockNum>>
    BY <2>5 DEF check
  <2>8. UNCHANGED <<targetVars, phase, len, bits, ram, reg, malformed>>
    BY <2>7 DEF chipVars
  <2>9. ~malformed' /\ received' \in Seq(Byte)
    BY <2>7, <2>8 DEF WireTypeOK, Sound
  <2>10. CASE received = target_id_v
    <3>1. Proceeds /\ call' = 26 /\ bit' = 0
      BY <1>3, <2>5, <2>6, <2>10 DEF check, NextCall, Proceeds
    <3>2. genuine
      <4>1. <<Silicon[1], Silicon[2]>> = target_id_v
        BY <2>1, <2>2, <2>10 DEF Effect
      <4>2. Silicon \in Byte \X Byte
        BY SiliconType
      <4>3. Silicon = target_id_v
        BY <4>1, <4>2
      <4>4. ForeignID # target_id_v
        BY ChipAssumption DEF ChipAssumption
      <4> QED BY <4>3, <4>4 DEF Silicon
    <3>3. Effect("siliconID", blockNum, dataOUT)'
      BY <2>1, <2>8, <3>1, EffectKept DEF Proceeds
    <3>4. Ready' /\ genuine'
      BY <2>2, <2>8, <3>2 DEF Ready, Listening, targetVars
    <3>5. At'
      BY <3>1, <3>3, <3>4 DEF At, Proceeds
    <3> QED BY <2>8, <2>9, <3>1, <3>5, GoesOn
  <2>11. CASE received # target_id_v
    <3>1. GivesUp
      BY <2>5, <2>6, <2>11 DEF check, Return, GivesUp
    <3>2. phase' = "listening"
      BY <2>2, <2>8 DEF Ready, Listening
    <3> QED BY <2>8, <2>9, <3>1, <3>2, QuietGivesUp
  <2> QED BY <2>10, <2>11
<1>4. CASE call = 26
  <2>1. Ready /\ genuine
    BY <1>4 DEF At
  <2>2. Quiet /\ phase = "listening" /\ len = 0 /\ bits = 0 /\ tMode = "prog"
    BY <2>1 DEF Ready, Listening, Quiet
  <2>3. UNCHANGED targetVars => Operation(fn, blockNum, dataOUT, TRUE)
    BY <2>1 DEF Operation, targetSiliconIDVerify
  <2> QED BY <1>4, <1>c, <2>2, <2>3, Returns
<1> QED BY <1>k, <1>1, <1>2, <1>3, <1>4

\* targetBankChecksumGet: the sum it returns is that of the cells.
LEMMA GetsChecksum ==
  ASSUME WireTypeOK, Sound, running, fn = "bankChecksum", At, Next
  PROVE  Outcome
<1>c. /\ Len(Calls[fn]) = 25 /\ PollsAt(Calls[fn], 0, checksum_v, 286)
      /\ ReadsAt(Calls[fn], 8, read_checksum_v, From(read_checksum_v, 3))
  BY BankChecksumCalls
<1>k. call \in Nat /\ call <= 25
  BY <1>c, CallRange
<1>1. CASE call \in 0..7
  <2>1. PICK c \in Nat, m \in Nat \ {0}, job \in Jobs : c = 0 /\ m = 13 /\ job = "bankChecksum"
    BY JobNames
  <2>2. /\ ~malformed' /\ UNCHANGED received /\ Changes
        /\ \/ Proceeds /\ call' \in {call, call + 1} /\ Polled(c, ChecksumFrames, m, job)'
           \/ GivesUp /\ Stale'
    <3>1. PollsAt(Calls[fn], c, checksum_v, 22 * m) /\ Polled(c, ChecksumFrames, m, job)
      BY <1>1, <1>c, <2>1 DEF At
    <3>2. Table(checksum_v, ChecksumFrames, m) /\ Vector(ChecksumFrames, 1, m, job)
      BY <2>1, ChecksumTable, ChecksumVector
    <3>3. job \in JobsOf(fn) /\ call \in c..(c + 7)
      BY <1>1, <2>1, JobNames DEF JobsOf
    <3> QED BY <3>1, <3>2, <3>3, RoutineStep
  <2>3. received' = <<>> /\ received' \in Seq(Byte)
    BY <1>1, <2>2 DEF At, WireTypeOK
  <2>4. ASSUME Proceeds, call' \in {call, call + 1}, Polled(c, ChecksumFrames, m, job)' PROVE At'
    <3>1. fn' = "bankChecksum" /\ call' \in 0..8 /\ Polled(0, ChecksumFrames, 13, "bankChecksum")'
      BY <1>1, <2>1, <2>4 DEF Proceeds
    <3>2. call' = 8 => bit' = 0 /\ Ready' /\ Effect("bankChecksum", blockNum, dataOUT)'
      BY <3>1 DEF Polled
    <3>3. call' = 8 => ReadingTwice(8, ReadID(\hF9), ReadID(\hF8))'
      BY <2>3, <3>2 DEF ReadingTwice, Answer
    <3>4. CASE call' = 8
      BY <2>3, <3>1, <3>2, <3>3, <3>4 DEF At
    <3>5. CASE call' \in 0..7
      <4>1. call' \notin 8..25 /\ ~(call' >= 8) /\ call' # 26
        BY <3>5
      <4> QED BY <2>3, <3>1, <4>1 DEF At
    <3> QED BY <3>1, <3>4, <3>5
  <2> QED BY <2>2, <2>3, <2>4 DEF Outcome
<1>2. CASE call \in 8..24
  <2>1. Effect("bankChecksum", blockNum, dataOUT) /\ ReadingTwice(8, ReadID(\hF9), ReadID(\hF8))
    BY <1>2 DEF At
  <2>p. PICK c \in Nat, a \in {\hF8, \hF9}, b \in {\hF8, \hF9} : c = 8 /\ a = \hF9 /\ b = \hF8
    OBVIOUS
  <2>v. PICK V, W : V = read_checksum_v /\ W = From(read_checksum_v, 3)
    OBVIOUS
  <2>2. c = 8 /\ a = \hF9 /\ b = \hF8 /\ V = read_checksum_v /\ W = From(read_checksum_v, 3)
    BY <2>p, <2>v
  <2>3. /\ Steady /\ UNCHANGED <<ram, reg>> /\ ReadingTwice(c, ReadID(a), ReadID(b))'
        /\ received' \in Seq(Byte)
    <3>1. ReadsAt(Calls[fn], c, V, W) /\ ReadingTwice(c, ReadID(a), ReadID(b))
      BY <1>c, <2>1, <2>2
    <3>2. /\ CarriesAddress(V, ReadID(a), 0) /\ CarriesAddress(From(V, 2), ReadID(b), 1)
          /\ BitOf(From(V, 2), 1) \in {0, 1} /\ BitOf(W, 1) \in {0, 1}
      BY <2>2, ReadVectors
    <3>3. call \in c..(c + 16)
      BY <1>2, <2>2
    <3> QED BY <3>1, <3>2, <3>3, WordStep
  <2>4. Effect("bankChecksum", blockNum, dataOUT)'
    BY <2>1, <2>3, EffectKept DEF Steady, Proceeds
  <2>5. fn' = "bankChecksum" /\ call' \in 8..25 /\ ReadingTwice(8, ReadID(\hF9), ReadID(\hF8))'
    BY <1>2, <2>2, <2>3 DEF Steady, Proceeds
  <2>6. call' = 8 => Polled(0, ChecksumFrames, 13, "bankChecksum")' /\ received' = <<>>
    <3>1. call' = 8 => bit' = 0 /\ Ready' /\ Len(received') = 0
      BY <2>5 DEF ReadingTwice
    <3>2. call' = 8 => received' = <<>>
      BY <2>3, <3>1
    <3> QED BY <2>4, <3>1, <3>2 DEF Polled
  <2>7. At'
    <3>1. CASE call' = 8
      BY <2>4, <2>5, <2>6, <3>1 DEF At
    <3>2. CASE call' \in 9..25
      <4>1. call' \notin 0..8 /\ call' # 26
        BY <3>2
      <4> QED BY <2>4, <2>5, <4>1 DEF At
    <3> QED BY <2>5, <3>1, <3>2
  <2> QED BY <2>3, <2>7, GoesOn DEF Steady
<1>3. CASE call = 25
  <2>1. Effect("bankChecksum", blockNum, dataOUT) /\ ReadingTwice(8, ReadID(\hF9), ReadID(\hF8))
    BY <1>3 DEF At
  <2>2. bit = 0 /\ Ready /\ received = <<ram[\hF9], ram[\hF8]>>
    <3>1. PICK c \in Nat, a \in {\hF8, \hF9}, b \in {\hF8, \hF9} :
            c = 8 /\ a = \hF9 /\ b = \hF8
      OBVIOUS
    <3>2. call = c + 17 /\ ReadingTwice(c, ReadID(a), ReadID(b))
      BY <1>3, <2>1, <3>1
    <3>3. bit = 0 /\ Ready /\ received = <<ram[a], ram[b]>>
      BY <3>2, WordRead DEF WireTypeOK
    <3> QED BY <3>1, <3>3
  <2>3. Quiet /\ phase = "listening" /\ len = 0 /\ bits = 0 /\ tMode = "prog"
    BY <2>2 DEF Ready, Listening, Quiet
  <2>4. SumRead = Sum
    <3>1. PICK s \in Nat : s = Sum
      BY SumType DEF Sound
    <3>2. received[1] = s \div 256 /\ received[2] = s % 256
      BY <2>1, <2>2, <3>1 DEF Effect
    <3> QED BY <3>1, <3>2 DEF SumRead
  <2>5. ReportedSums = {Sum}
    <3>1. \A b \in BlockIdx : flash[b] # Damaged
      BY ReadsType DEF Sound
    <3> QED BY <3>1 DEF ReportedSums, Sum
  <2>6. UNCHANGED targetVars => Operation(fn, blockNum, dataOUT, TRUE)
    BY <2>3, <2>4, <2>5 DEF Operation, targetBankChecksumGet, Answers
  <2> QED BY <1>3, <1>c, <2>3, <2>6, Returns
<1> QED BY <1>k, <1>1, <1>2, <1>3

\* A loop of comparisons that ends well has compared everything.
LEMMA AllEqual ==
  ASSUME NEW n \in 1..BlockSize, NEW d, NEW e, Loaded(d, n), Loaded(e, n),
         d \in [1..n -> Byte], e \in [1..n -> Byte]
  PROVE  d = e
  BY DEF Loaded

\* targetBlockVerify: every byte read back is compared with the one sent.
LEMMA VerifiesBlock ==
  ASSUME WireTypeOK, Sound, running, fn = "blockVerify", At, Next
  PROVE  Outcome
<1>l. PICK B \in Nat : B = BlockSize /\ B > 0
  BY RamParts
<1>c. /\ Len(Calls[fn]) = 14 + 14 * B /\ SelectsAt(Calls[fn], 0)
      /\ PollsAt(Calls[fn], 6, verify_setup_v, 264)
      /\ \A q \in 0..(B - 1) : ComparesAt(Calls[fn], 14 + 14 * q, q + 1)
  BY <1>l, BlockVerifyCalls
<1>k. call \in Nat /\ call <= 14 + 14 * B
  BY <1>c, CallRange
<1>1. CASE call \in 0..5
  <2>1. PICK c \in Nat : c = 0
    OBVIOUS
  <2>2. Selecting(c) /\ received = <<>>
    BY <1>1, <2>1 DEF At
  <2>3. /\ Steady /\ Selecting(c)' /\ UNCHANGED received
        /\ call' = c + 6 => bit' = 0 /\ Ready' /\ BlockNumber' = blockNum
    <3>1. SelectsAt(Calls[fn], c) /\ call \in c..(c + 5)
      BY <1>1, <1>c, <2>1
    <3> QED BY <2>2, <3>1, SelectStep
  <2>4. received' = <<>>
    BY <2>2, <2>3
  <2>5. call' \in 0..6 /\ fn' = "blockVerify" /\ blockNum' = blockNum
    BY <1>1, <2>3 DEF Steady, Proceeds
  <2>6. call' = 6 => Polled(6, VerifySetupFrames, 12, "blockVerify")'
    <3>1. call' = 6 => bit' = 0 /\ Ready' /\ BlockNumber' = blockNum
      BY <2>1, <2>3
    <3>2. call' = 6 => Need("blockVerify", blockNum, dataOUT)'
      BY <2>5, <3>1 DEF Need
    <3> QED BY <3>1, <3>2 DEF Polled
  <2>7. Selecting(0)'
    BY <2>1, <2>3
  <2>8. At'
    <3>1. ~(call' >= 14)
      BY <2>5
    <3> QED BY <2>4, <2>5, <2>6, <2>7, <3>1 DEF At
  <2> QED BY <2>3, <2>8, GoesOn DEF Steady, WireTypeOK
<1>2. CASE call \in 6..13
  <2>1. PICK c \in Nat, m \in Nat \ {0}, job \in Jobs : c = 6 /\ m = 12 /\ job = "blockVerify"
    BY JobNames
  <2>2. /\ ~malformed' /\ UNCHANGED received /\ Changes
        /\ \/ Proceeds /\ call' \in {call, call + 1} /\ Polled(c, VerifySetupFrames, m, job)'
           \/ GivesUp /\ Stale'
    <3>1. PollsAt(Calls[fn], c, verify_setup_v, 22 * m) /\ Polled(c, VerifySetupFrames, m, job)
      BY <1>2, <1>c, <2>1 DEF At
    <3>2. Table(verify_setup_v, VerifySetupFrames, m) /\ Vector(VerifySetupFrames, 1, m, job)
      BY <2>1, VerifySetupTable, VerifySetupVector
    <3>3. job \in JobsOf(fn) /\ call \in c..(c + 7)
      BY <1>2, <2>1, JobNames DEF JobsOf
    <3> QED BY <3>1, <3>2, <3>3, RoutineStep
  <2>3. received' = <<>> /\ received' \in Seq(Byte)
    BY <1>2, <2>2 DEF At, WireTypeOK
  <2>4. ASSUME Proceeds, call' \in {call, call + 1}, Polled(c, VerifySetupFrames, m, job)' PROVE At'
    <3>1. fn' = "blockVerify" /\ call' \in 6..14 /\ Polled(6, VerifySetupFrames, 12, "blockVerify")'
      BY <1>2, <2>1, <2>4 DEF Proceeds
    <3>2. call' = 14 => bit' = 0 /\ Ready' /\ Effect("blockVerify", blockNum, dataOUT)'
      BY <3>1 DEF Polled
    <3>3. call' = 14 => ComparingLoop(14, BlockSize)'
      <4>1. PICK x \in Nat, n \in 1..BlockSize : x = 14 /\ n = BlockSize
        BY <1>l
      <4>2. call' = x => ComparingLoop(x, n)'
        <5> SUFFICES ASSUME call' = x PROVE ComparingLoop(x, n)'
          OBVIOUS
        <5>1. bit' = 0 /\ Ready' /\ Len(received') = 0
          BY <2>3, <3>2, <4>1
        <5> QED BY <5>1, ComparingBegins
      <4> QED BY <4>1, <4>2
    <3>4. call' \notin 0..5
      BY <3>1
    <3>5. CASE call' = 14
      BY <2>3, <3>1, <3>2, <3>3, <3>4, <3>5 DEF At
    <3>6. CASE call' \in 6..13
      <4>1. ~(call' >= 14)
        BY <3>6
      <4> QED BY <2>3, <3>1, <3>4, <4>1 DEF At
    <3> QED BY <3>1, <3>5, <3>6
  <2> QED BY <2>2, <2>3, <2>4 DEF Outcome
<1>3. CASE call \in 14..(13 + 14 * B)
  <2>1. PICK c \in Nat, n \in 1..BlockSize : c = 14 /\ n = B
    BY <1>l
  <2>2. ComparingLoop(c, n) /\ Effect("blockVerify", blockNum, dataOUT)
    BY <1>3, <1>l, <2>1 DEF At
  <2>3. \A q \in 0..(n - 1) : ComparesAt(Calls[fn], c + 14 * q, q + 1)
    BY <1>c, <2>1
  <2>4. call \in c..(c + 14 * n - 1)
    BY <1>3, <2>1
  <2>5. /\ received' \in Seq(Byte) /\ ~malformed' /\ UNCHANGED <<targetVars, ram>>
        /\ \/ Steady /\ ComparingLoop(c, n)'
           \/ GivesUp /\ phase' = "listening" /\ output' = output
    BY <2>2, <2>3, <2>4, ComparingLoopStep
  <2>6. CASE Steady /\ ComparingLoop(c, n)'
    <3>1. Effect("blockVerify", blockNum, dataOUT)'
      BY <2>2, <2>5, <2>6, EffectKept DEF Steady, Proceeds
    <3>2. fn' = "blockVerify" /\ call' \in 14..(14 + 14 * B) /\ ComparingLoop(14, BlockSize)'
      BY <1>3, <1>l, <2>1, <2>6 DEF Steady, Proceeds
    <3>3. call' = 14 => Polled(6, VerifySetupFrames, 12, "blockVerify")' /\ received' = <<>>
      <4> SUFFICES ASSUME call' = 14
                   PROVE  Polled(6, VerifySetupFrames, 12, "blockVerify")' /\ received' = <<>>
        OBVIOUS
      <4>1. Comparing(14, 1)'
        <5>1. \A q \in 0..(n - 1) : call' \in (c + 14 * q)..(c + 14 * q + 13) => Comparing(c + 14 * q, q + 1)'
          BY <2>6 DEF ComparingLoop
        <5>2. PICK q \in 0..(n - 1) : q = 0
          OBVIOUS
        <5>3. c + 14 * q = 14 /\ q + 1 = 1 /\ call' \in (c + 14 * q)..(c + 14 * q + 13)
          BY <2>1, <5>2
        <5> QED BY <5>1, <5>3
      <4>2. bit' = 0 /\ Ready' /\ Len(received') = 0
        BY <4>1 DEF Comparing
      <4>3. received' = <<>>
        BY <2>5, <4>2
      <4> QED BY <3>1, <4>2, <4>3 DEF Polled
    <3>4. call' \notin 0..5 /\ call' >= 14 /\ (call' \in 6..14 => call' = 14)
      BY <3>2
    <3>5. At'
      BY <3>1, <3>2, <3>3, <3>4 DEF At
    <3> QED BY <2>5, <2>6, <3>5, GoesOn DEF Steady
  <2>7. CASE GivesUp /\ phase' = "listening" /\ output' = output
    BY <2>5, <2>7, QuietGivesUp
  <2> QED BY <2>5, <2>6, <2>7
<1>4. CASE call = 14 + 14 * B
  <2>1. Ready /\ Loaded(dataOUT, BlockSize) /\ Effect("blockVerify", blockNum, dataOUT)
    BY <1>4, <1>l DEF At, ComparingLoop
  <2>2. Quiet /\ phase = "listening" /\ len = 0 /\ bits = 0 /\ tMode = "prog"
    BY <2>1 DEF Ready, Listening, Quiet
  <2>3. Reads(flash[blockNum]) = dataOUT
    <3>1. Reads(flash[blockNum]) \in Block /\ dataOUT \in Block
      BY ReadsType, Parameters DEF Sound
    <3>2. Loaded(Reads(flash[blockNum]), BlockSize)
      BY <2>1 DEF Effect
    <3>3. BlockSize \in 1..BlockSize
      BY <1>l
    <3> QED BY <2>1, <3>1, <3>2, <3>3, AllEqual DEF Block
  <2>4. UNCHANGED targetVars => Operation(fn, blockNum, dataOUT, TRUE)
    BY <2>2, <2>3 DEF Operation, targetBlockVerify, Answers
  <2> QED BY <1>4, <1>c, <2>2, <2>4, Returns
<1> QED BY <1>k, <1>1, <1>2, <1>3, <1>4

\* targetSecurityVerify: the same for the security bytes.
LEMMA VerifiesSecurity ==
  ASSUME WireTypeOK, Sound, running, fn = "securityVerify", At, Next
  PROVE  Outcome
<1>l. PICK S \in Nat : S = SecuritySize /\ S > 0 /\ S <= BlockSize
  BY RamParts
<1>c. /\ Len(Calls[fn]) = 8 + 14 * S /\ PollsAt(Calls[fn], 0, securityVerification_v, 308)
      /\ \A q \in 0..(S - 1) : ComparesAt(Calls[fn], 8 + 14 * q, q + 1)
  BY <1>l, SecurityVerifyCalls
<1>k. call \in Nat /\ call <= 8 + 14 * S
  BY <1>c, CallRange
<1>2. CASE call \in 0..7
  <2>1. PICK c \in Nat, m \in Nat \ {0}, job \in Jobs : c = 0 /\ m = 14 /\ job = "securityVerify"
    BY JobNames
  <2>2. /\ ~malformed' /\ UNCHANGED received /\ Changes
        /\ \/ Proceeds /\ call' \in {call, call + 1} /\ Polled(c, SecurityVerificationFrames, m, job)'
           \/ GivesUp /\ Stale'
    <3>1. /\ PollsAt(Calls[fn], c, securityVerification_v, 22 * m)
          /\ Polled(c, SecurityVerificationFrames, m, job)
      BY <1>2, <1>c, <2>1 DEF At
    <3>2. /\ Table(securityVerification_v, SecurityVerificationFrames, m)
          /\ Vector(SecurityVerificationFrames, 1, m, job)
      BY <2>1, SecurityVerificationTable, SecurityVerificationVector
    <3>3. job \in JobsOf(fn) /\ call \in c..(c + 7)
      BY <1>2, <2>1, JobNames DEF JobsOf
    <3> QED BY <3>1, <3>2, <3>3, RoutineStep
  <2>3. received' = <<>> /\ received' \in Seq(Byte)
    BY <1>2, <2>2 DEF At, WireTypeOK
  <2>4. ASSUME Proceeds, call' \in {call, call + 1}, Polled(c, SecurityVerificationFrames, m, job)' PROVE At'
    <3>1. /\ fn' = "securityVerify" /\ call' \in 0..8
          /\ Polled(0, SecurityVerificationFrames, 14, "securityVerify")'
      BY <1>2, <2>1, <2>4 DEF Proceeds
    <3>2. call' = 8 => bit' = 0 /\ Ready' /\ Effect("securityVerify", blockNum, dataOUT)'
      BY <3>1 DEF Polled
    <3>3. call' = 8 => ComparingLoop(8, SecuritySize)'
      <4>1. PICK x \in Nat, n \in 1..BlockSize : x = 8 /\ n = SecuritySize
        BY <1>l
      <4>2. call' = x => ComparingLoop(x, n)'
        <5> SUFFICES ASSUME call' = x PROVE ComparingLoop(x, n)'
          OBVIOUS
        <5>1. bit' = 0 /\ Ready' /\ Len(received') = 0
          BY <2>3, <3>2, <4>1
        <5> QED BY <5>1, ComparingBegins
      <4> QED BY <4>1, <4>2
    <3>5. CASE call' = 8
      BY <2>3, <3>1, <3>2, <3>3, <3>5 DEF At
    <3>6. CASE call' \in 0..7
      <4>1. ~(call' >= 8)
        BY <3>6
      <4> QED BY <2>3, <3>1, <4>1 DEF At
    <3> QED BY <3>1, <3>5, <3>6
  <2> QED BY <2>2, <2>3, <2>4 DEF Outcome
<1>3. CASE call \in 8..(7 + 14 * S)
  <2>1. PICK c \in Nat, n \in 1..BlockSize : c = 8 /\ n = S
    BY <1>l
  <2>2. ComparingLoop(c, n) /\ Effect("securityVerify", blockNum, dataOUT)
    BY <1>3, <1>l, <2>1 DEF At
  <2>3. \A q \in 0..(n - 1) : ComparesAt(Calls[fn], c + 14 * q, q + 1)
    BY <1>c, <2>1
  <2>4. call \in c..(c + 14 * n - 1)
    BY <1>3, <2>1
  <2>5. /\ received' \in Seq(Byte) /\ ~malformed' /\ UNCHANGED <<targetVars, ram>>
        /\ \/ Steady /\ ComparingLoop(c, n)'
           \/ GivesUp /\ phase' = "listening" /\ output' = output
    BY <2>2, <2>3, <2>4, ComparingLoopStep
  <2>6. CASE Steady /\ ComparingLoop(c, n)'
    <3>1. Effect("securityVerify", blockNum, dataOUT)'
      BY <2>2, <2>5, <2>6, EffectKept DEF Steady, Proceeds
    <3>2. fn' = "securityVerify" /\ call' \in 8..(8 + 14 * S) /\ ComparingLoop(8, SecuritySize)'
      BY <1>3, <1>l, <2>1, <2>6 DEF Steady, Proceeds
    <3>3. call' = 8 => Polled(0, SecurityVerificationFrames, 14, "securityVerify")' /\ received' = <<>>
      <4> SUFFICES ASSUME call' = 8
                   PROVE  Polled(0, SecurityVerificationFrames, 14, "securityVerify")' /\ received' = <<>>
        OBVIOUS
      <4>1. Comparing(8, 1)'
        <5>1. \A q \in 0..(n - 1) : call' \in (c + 14 * q)..(c + 14 * q + 13) => Comparing(c + 14 * q, q + 1)'
          BY <2>6 DEF ComparingLoop
        <5>2. PICK q \in 0..(n - 1) : q = 0
          OBVIOUS
        <5>3. c + 14 * q = 8 /\ q + 1 = 1 /\ call' \in (c + 14 * q)..(c + 14 * q + 13)
          BY <2>1, <5>2
        <5> QED BY <5>1, <5>3
      <4>2. bit' = 0 /\ Ready' /\ Len(received') = 0
        BY <4>1 DEF Comparing
      <4>3. received' = <<>>
        BY <2>5, <4>2
      <4> QED BY <3>1, <4>2, <4>3 DEF Polled
    <3>4. call' >= 8 /\ (call' \in 0..8 => call' = 8)
      BY <3>2
    <3>5. At'
      BY <3>1, <3>2, <3>3, <3>4 DEF At
    <3> QED BY <2>5, <2>6, <3>5, GoesOn DEF Steady
  <2>7. CASE GivesUp /\ phase' = "listening" /\ output' = output
    BY <2>5, <2>7, QuietGivesUp
  <2> QED BY <2>5, <2>6, <2>7
<1>4. CASE call = 8 + 14 * S
  <2>1. Ready /\ Loaded(dataOUT, SecuritySize) /\ Effect("securityVerify", blockNum, dataOUT)
    BY <1>4, <1>l DEF At, ComparingLoop
  <2>2. Quiet /\ phase = "listening" /\ len = 0 /\ bits = 0 /\ tMode = "prog"
    BY <2>1 DEF Ready, Listening, Quiet
  <2>3. ProtectionRead = SecurityPart(dataOUT)
    <3>1. ProtectionRead \in Security /\ SecurityPart(dataOUT) \in Security
      BY ProtectionType, PartType, Parameters DEF Sound
    <3>2. Loaded(ProtectionRead, SecuritySize) /\ Loaded(SecurityPart(dataOUT), SecuritySize)
      BY <2>1 DEF Effect, Loaded, SecurityPart
    <3>3. SecuritySize \in 1..BlockSize
      BY <1>l
    <3> QED BY <3>1, <3>2, <3>3, AllEqual DEF Security
  <2>4. security # Damaged
    BY TargetAssumption DEF TargetAssumption, Sound, Solid, Security
  <2>5. UNCHANGED targetVars => Operation(fn, blockNum, dataOUT, TRUE)
    BY <2>2, <2>3, <2>4 DEF Operation, targetSecurityVerify, ProtectionRead, Answers
  <2> QED BY <1>4, <1>c, <2>2, <2>5, Returns
<1> QED BY <1>k, <1>2, <1>3, <1>4

\* One step of any function.
LEMMA FunctionStep ==
  ASSUME WireTypeOK, Sound, running, At, Next
  PROVE  Outcome
<1>1. \/ fn = "initialize" \/ fn = "siliconID" \/ fn = "erase" \/ fn = "load" \/ fn = "blockProgram"
      \/ fn = "blockVerify" \/ fn = "securityFlash" \/ fn = "securityVerify"
      \/ fn = "bankChecksum" \/ fn = "reStart"
  BY DEF WireTypeOK, Functions
<1> QED BY <1>1, Initializes, VerifiesID, Erases, Loads, ProgramsBlock, VerifiesBlock,
           FlashesSecurity, VerifiesSecurity, GetsChecksum, ReStarts

\* The window calls the next function.
LEMMA PolledOpens ==
  ASSUME call' = 0, bit' = 0, Ready', NEW F, NEW m,
         NEW job \in {"siliconID", "erase", "securityVerify", "bankChecksum"}
  PROVE  Polled(0, F, m, job)'
  BY DEF Polled, Need

\* A function that sends a block's number begins with a chip that is ready.
LEMMA SelectingOpens ==
  ASSUME call' = 0, bit' = 0, Ready'
  PROVE  Selecting(0)'
  BY DEF Selecting

\* main calls the next function: what the one before it left is what it begins with.
LEMMA Begins ==
  ASSUME WireTypeOK, Between, Begin
  PROVE  running' /\ At' /\ (ok' \/ fn' = "initialize")
<1>1. /\ running' /\ call' = 0 /\ bit' = 0 /\ received' = <<>> /\ ok' = ok /\ failed' = failed
      /\ UNCHANGED chipVars
  BY DEF Begin
<1>2. UNCHANGED <<targetVars, phase, len, bits, ram, reg>>
  BY <1>1 DEF chipVars
<1>3. CASE fn' = "initialize"
  <2>1. Stale'
    <3>1. ok => phase' = "listening"
      BY <1>2 DEF Between
    <3>2. ~ok => Stale
      BY DEF Between
    <3>3. UNCHANGED <<ok, failed, phase, tMode, len, bits, ram, reg>>
      BY <1>1, <1>2 DEF targetVars
    <3>4. CASE ok
      BY <3>1, <3>4 DEF Stale
    <3>5. CASE ~ok
      BY <3>2, <3>3, <3>5 DEF Stale, Queued, Need, Loaded, BlockNumber, KeysSet
    <3> QED BY <3>4, <3>5
  <2>2. Initializing'
    BY <1>1, <2>1 DEF Initializing
  <2> QED BY <1>1, <1>3, <2>2 DEF At
<1>4. CASE fn' # "initialize"
  <2>1. ok /\ fn # "reStart"
    BY <1>4 DEF Begin, Follows
  <2>2. Ready'
    BY <1>2, <2>1 DEF Between, Ready, Listening, targetVars
  <2>3. fn' = "blockProgram" => Loaded(dataOUT, BlockSize)'
    <3>1. fn' = "blockProgram" => fn = "load" /\ dataOUT' = dataOUT
      <4>1. PICK next \in Follows : /\ fn' = next[1]
                                    /\ dataOUT' \in (IF next[1] \in TakesData THEN Data ELSE {dataOUT})
        BY DEF Begin
      <4>2. next[1] = "blockProgram" => fn = "load"
        <5>1. fn \in Functions
          BY DEF WireTypeOK
        <5>2. CASE fn = "blockProgram"
          BY <2>1, <5>2 DEF Follows
        <5>3. CASE fn = "blockVerify"
          BY <2>1, <5>3 DEF Follows
        <5>4. ASSUME fn \notin {"load", "blockProgram", "blockVerify"}
              PROVE  next[1] # "blockProgram"
          <6>1. fn = "initialize" => next = <<"siliconID", 0>>
            BY <2>1 DEF Follows
          <6>2. fn = "siliconID" => next = <<"erase", 0>>
            BY <2>1 DEF Follows
          <6>3. fn = "erase" => next = <<"load", 0>>
            BY <2>1 DEF Follows
          <6>4. fn = "securityFlash" => next = <<"securityVerify", 0>>
            BY <2>1 DEF Follows
          <6>5. fn = "securityVerify" => next = <<"bankChecksum", 0>>
            BY <2>1 DEF Follows
          <6>6. fn = "bankChecksum" => next = <<"reStart", 0>>
            BY <2>1 DEF Follows
          <6>7. fn \in {"initialize", "siliconID", "erase", "securityFlash", "securityVerify",
                        "bankChecksum"}
            BY <2>1, <5>1, <5>4 DEF Functions
          <6> QED BY <6>1, <6>2, <6>3, <6>4, <6>5, <6>6, <6>7
        <5> QED BY <5>2, <5>3, <5>4
      <4>3. "blockProgram" \notin TakesData
        BY DEF TakesData
      <4> QED BY <4>1, <4>2, <4>3
    <3> QED BY <1>2, <2>1, <3>1 DEF Between, Loaded
  <2>4. fn' \in Functions \ {"initialize"}
    <3>1. \A next \in Follows : next[1] \in Functions
      BY DEF Follows, Functions, WireTypeOK
    <3> QED BY <1>4, <3>1 DEF Begin
  <2>5. /\ Selecting(0)'
        /\ Polled(0, IdSetupFrames, 15, "siliconID")'
        /\ Polled(0, EraseAllFrames, 14, "erase")'
        /\ Polled(0, SecurityVerificationFrames, 14, "securityVerify")'
        /\ Polled(0, ChecksumFrames, 13, "bankChecksum")'
    BY <1>1, <2>2, PolledOpens, SelectingOpens
  <2>6. PICK s \in Nat : s = SecuritySize
    BY RamParts
  <2>7. phase' = "listening" /\ len' = 0 /\ bits' = 0
    BY <2>2 DEF Ready, Listening
  <2>8. ASSUME fn' = "siliconID" PROVE At'
    BY <1>1, <2>5, <2>8 DEF At
  <2>9. ASSUME fn' = "erase" PROVE At'
    BY <1>1, <2>5, <2>9 DEF At
  <2>10. ASSUME fn' = "blockProgram" PROVE At'
    BY <1>1, <2>3, <2>5, <2>10 DEF At
  <2>11. ASSUME fn' = "blockVerify" PROVE At'
    BY <1>1, <2>5, <2>11 DEF At
  <2>12. ASSUME fn' = "load" PROVE At'
    BY <1>1, <2>2, <2>12 DEF At
  <2>13. ASSUME fn' = "reStart" PROVE At'
    BY <1>1, <2>7, <2>13 DEF At
  <2>14. ASSUME fn' = "securityFlash" PROVE At'
    BY <1>1, <2>2, <2>6, <2>14 DEF At
  <2>15. ASSUME fn' = "securityVerify" PROVE At'
    BY <1>1, <2>5, <2>15 DEF At
  <2>16. ASSUME fn' = "bankChecksum" PROVE At'
    BY <1>1, <2>5, <2>16 DEF At
  <2> QED BY <1>1, <2>1, <2>4, <2>8, <2>9, <2>10, <2>11, <2>12, <2>13, <2>14, <2>15, <2>16 DEF Functions
<1> QED BY <1>3, <1>4

\* Between two functions the window calls the next one, or a routine goes on that the last
\* one left running.
LEMMA BetweenStep ==
  ASSUME WireTypeOK, Sound, ~running, Between, Next
  PROVE  /\ received' \in Seq(Byte) /\ ~malformed'
         /\ UNCHANGED targetVars \/ (~ok /\ Operation(failed[1], failed[2], failed[3], FALSE))
         /\ \/ running' /\ At' /\ (ok' \/ fn' = "initialize")
            \/ ~running' /\ Between'
<1>t. received \in Seq(Byte) /\ ~malformed
  BY DEF WireTypeOK, Sound
<1>1. Begin \/ ChipStep
  BY DEF Next, Doing, sdataPP, sdataHiZ, sendBit, clockOnce, bitReceive, sawHigh, sawLow,
         pollTimeout, resetTarget, check, returnOK
<1>2. CASE Begin
  <2>1. received' = <<>> /\ UNCHANGED chipVars
    BY <1>2 DEF Begin
  <2>2. ~malformed' /\ UNCHANGED targetVars
    BY <1>t, <2>1 DEF chipVars
  <2>3. received' \in Seq(Byte)
    BY <2>1
  <2> QED BY <1>2, <2>2, <2>3, Begins
<1>3. CASE ChipStep
  <2>1. phase \in {"working", "high"} /\ UNCHANGED progVars
    BY <1>3 DEF ChipStep, RaiseSDATA, FinishRoutine
  <2>2. ~ok /\ Stale
    BY <2>1 DEF Between
  <2>3. /\ Stale' /\ ~malformed'
        /\ UNCHANGED targetVars \/ (~ok /\ Operation(failed[1], failed[2], failed[3], FALSE))
    BY <1>3, <2>2, StaleStep
  <2>4. UNCHANGED <<running, ok, received>>
    BY <2>1 DEF progVars
  <2>5. Between'
    BY <2>2, <2>3, <2>4 DEF Between
  <2> QED BY <1>t, <2>3, <2>4, <2>5
<1> QED BY <1>1, <1>2, <1>3

\* Any undamaged chip, and the pins as main.c sets them up.
LEMMA InitHolds == ASSUME WireInit PROVE WireIInv
<1>0. /\ flash \in [BlockIdx -> Block \cup {Erased}] /\ security \in Security \cup {Erased}
      /\ tMode = "run" /\ genuine \in BOOLEAN
  <2>1. PICK content \in Contents : flash = content.flash /\ security = content.security
    BY DEF WireInit, FreshTarget
  <2>2. content.flash \in [BlockIdx -> Block \cup {Erased}] /\ content.security \in Security \cup {Erased}
    BY WireAssumption DEF WireAssumption
  <2> QED BY <2>1, <2>2 DEF WireInit, FreshTarget
<1>1. ChipTypeOK
  <2>1. TargetTypeOK
    BY <1>0 DEF TargetTypeOK
  <2>2. ram \in [RamUsed -> Byte] /\ reg \in [RegUsed -> Byte]
    BY DEF WireInit, AsReset, Byte
  <2>3. len \in 0..21 /\ bits \in 0..(2^len - 1) /\ wait \in 0..40
    BY NoBits DEF WireInit, AsReset
  <2>4. phase \in Phases /\ malformed \in BOOLEAN
    BY DEF WireInit, AsReset, Phases
  <2> QED BY <2>1, <2>2, <2>3, <2>4 DEF ChipTypeOK
<1>2. fn = "reStart" /\ fn \in Functions /\ Len(Calls[fn]) \in Nat
  BY LenCalls DEF WireInit, Functions
<1>3. 0 \in BlockIdx
  BY ProtocolAssumption DEF ProtocolAssumption, BlockIdx
<1>4. WireTypeOK
  <2>1. /\ running = FALSE /\ ok = TRUE /\ call = 0 /\ bit = 0 /\ output = FALSE /\ latch = 0 /\ sclk = 0
        /\ received = <<>> /\ dataOUT \in Data /\ blockNum = 0 /\ failed = <<fn, blockNum, dataOUT>>
    BY DEF WireInit, Arguments
  <2>2. failed \in Functions \X BlockIdx \X Data
    BY <1>2, <1>3, <2>1
  <2>3. received \in Seq(Byte)
    BY <2>1
  <2>4. call \in 0..Len(Calls[fn])
    BY <1>2, <2>1
  <2> QED BY <1>1, <1>2, <1>3, <2>1, <2>2, <2>3, <2>4 DEF WireTypeOK
<1>5. Sound
  BY <1>0 DEF WireInit, AsReset, Sound, Solid
<1>6. ~running /\ Between
  BY DEF WireInit, AsReset, Between
<1> QED BY <1>4, <1>5, <1>6 DEF WireIInv

(***************************************************************************)
(* Who drives SDATA.                                                       *)
(***************************************************************************)
\* What the next call needs for SDATA to be driven one way only.
Clear ==
  /\ \A c \in Sends : Doing(c) => Sending \in {0, 1}
  /\ NoContention

\* A call that is no edge of SCLK.
LEMMA ClearNoEdge ==
  ASSUME NEW k, running, call + 1 = k, call < Len(Calls[fn]),
         Calls[fn][k].do \notin Sends \cup {"clock", "receive"}
  PROVE  Clear
<1>1. \A c \in Sends \cup {"clock", "receive"} : ~Doing(c)
  BY AtCall DEF Doing
<1> QED BY <1>1 DEF Clear, NoContention

\* A clock, or a bit received.
LEMMA ClearEdge ==
  ASSUME NEW k, running, call + 1 = k, call < Len(Calls[fn]), Calls[fn][k].do \in {"clock", "receive"},
         ~output \/ Drives = Nothing
  PROVE  Clear
<1>1. Now.do \in {"clock", "receive"}
  BY AtCall
<1>2. \A c \in Sends : ~Doing(c)
  BY <1>1 DEF Sends, Doing
<1>3. AtEdge = Nothing \/ Drives = Nothing
  BY <1>2 DEF AtEdge, Driven
<1> QED BY <1>2, <1>3 DEF Clear, NoContention

\* A bit sent.
LEMMA ClearSend ==
  ASSUME NEW k, running, call + 1 = k, call < Len(Calls[fn]), Calls[fn][k].do \in Sends,
         Sending \in {0, 1}, Drives = Nothing \/ Drives = Sending, output
  PROVE  Clear
<1>1. \E c \in Sends : Doing(c)
  BY AtCall
<1>2. AtEdge = Sending
  BY <1>1 DEF AtEdge
<1> QED BY <1>2 DEF Clear, NoContention

\* The bytes that are sent alone.
LEMMA ByteSending ==
  ASSUME NEW x \in Byte, Now.do = "send", Now.bytes = <<x>>, bit \in 0..7
  PROVE  Sending \in {0, 1}
<1>1. PICK k \in 0..7 : k = bit
  OBVIOUS
<1>2. BitOf(<<x>>, k + 1) \in {0, 1}
  BY ByteBits
<1>3. Sending = BitOf(<<x>>, bit + 1)
  BY DEF Sending
<1> QED BY <1>1, <1>2, <1>3

\* The bits of a vector.
LEMMA VectorSending ==
  ASSUME NEW V \in Seq(Byte), Now.do = "send", Now.bytes = V, bit \in Nat, bit < 8 * Len(V)
  PROVE  Sending \in {0, 1}
<1>1. PICK k \in 1..(8 * Len(V)) : k = bit + 1
  OBVIOUS
<1>2. BitOf(V, k) \in {0, 1}
  BY BitOfType
<1>3. Sending = BitOf(V, bit + 1)
  BY DEF Sending
<1> QED BY <1>1, <1>2, <1>3

\* The chip does not answer while the frame it hears is short, or a write.
LEMMA SilentFirst ==
  ASSUME NEW X, NEW L, NEW k \in 0..12, Heard(X, L, k)
  PROVE  Drives = Nothing
BY Silent DEF Heard, Took

\* Taking a write, the chip leaves SDATA alone.
LEMMA SilentWrite ==
  ASSUME NEW P \in 1024..1279, NEW X \in Byte, NEW k \in Nat,
         \/ k \in 0..19 /\ Heard(P * 256 + X, 19, k)
         \/ k \in 0..21 /\ Heard((P * 256 + X) * 8 + 7, 22, k)
  PROVE  Drives = Nothing
<1>1. PICK Q \in Nat : Q = P * 256 + X /\ Q < 327680 /\ Q >= 262144
  BY DEF Byte
<1>2. CASE k \in 0..19 /\ Heard(P * 256 + X, 19, k)
  <2>1. Took(Q, 19, k)
    BY <1>1, <1>2 DEF Heard
  <2>2. Upper(Q, 16) # 5
    BY <1>1, Powers DEF Upper
  <2>3. PICK L \in 3..22 : L = 19
    OBVIOUS
  <2> QED BY <1>2, <2>1, <2>2, <2>3, WriteIsSilent
<1>3. CASE k \in 0..21 /\ Heard((P * 256 + X) * 8 + 7, 22, k)
  <2>1. PICK R \in Nat : R = Q * 8 + 7
    BY <1>1
  <2>2. Took(R, 22, k)
    BY <1>1, <1>3, <2>1 DEF Heard
  <2>3. Upper(R, 19) # 5
    BY <1>1, <2>1, Powers DEF Upper
  <2>4. PICK L \in 3..22 : L = 22
    OBVIOUS
  <2> QED BY <1>3, <2>2, <2>3, <2>4, WriteIsSilent
<1> QED BY <1>2, <1>3

\* SDATA is driven by one side at most: while a block's number is sent,
LEMMA SelectClear ==
  ASSUME NEW c \in Nat, SelectsAt(Calls[fn], c), WireTypeOK, running,
         call \in c..(c + 5), Selecting(c)
  PROVE  Clear
<1>t. bit \in Nat
  BY DEF WireTypeOK
<1>b. blockNum \in Byte
  BY ProtocolAssumption DEF WireTypeOK, BlockIdx, ProtocolAssumption, Byte
<1>l. call < Len(Calls[fn])
  BY DEF SelectsAt
<1>p. PICK P \in 1024..1279 : P = PutBlock
  BY DEF PutBlock
<1>1. CASE call \in {c, c + 2, c + 3}
  <2>1. PICK k \in Nat : k = call + 1 /\ k \in {c + 1, c + 3, c + 4}
    BY <1>1
  <2>2. Calls[fn][k] \in {pp, hiz}
    BY <2>1, SMTT(30) DEF SelectsAt
  <2> QED BY <1>l, <2>1, <2>2, ClearNoEdge DEF pp, hiz, Sends
<1>2. CASE call = c + 1
  <2>1. bit < 11 /\ output /\ Heard(PutBlock, 11, bit)
    BY <1>2 DEF Selecting
  <2>2. call + 1 = c + 2 /\ Calls[fn][c + 2] = [do |-> "send", bytes |-> set_block_number, n |-> 11]
    BY <1>2 DEF SelectsAt
  <2>3. Now.do = "send" /\ Now.bytes = set_block_number
    BY <1>l, <2>2, AtCall
  <2>4. set_block_number \in Seq(Byte) /\ Len(set_block_number) = 3
    BY DEF set_block_number, Byte
  <2>5. Sending \in {0, 1}
    <3>1. bit < 8 * Len(set_block_number)
      BY <1>t, <2>1, <2>4
    <3> QED BY <1>t, <2>3, <2>4, <3>1, VectorSending, ZenonT(60)
  <2>6. Drives = Nothing
    BY <1>t, <2>1, SilentFirst
  <2> QED BY <1>l, <2>1, <2>2, <2>5, <2>6, ClearSend DEF Sends
<1>3. CASE call = c + 4
  <2>1. bit < 8 /\ output /\ Heard(PutBlock * 256 + blockNum, 19, 11 + bit)
    BY <1>3 DEF Selecting
  <2>2. call + 1 = c + 5 /\ Calls[fn][c + 5] = [do |-> "block", n |-> 8]
    BY <1>3 DEF SelectsAt
  <2>3. Now.do = "block"
    BY <1>l, <2>2, AtCall
  <2>4. PICK k \in 0..7 : k = bit
    BY <1>t, <2>1
  <2>5. Sending = BitOf(<<blockNum>>, k + 1)
    BY <2>3, <2>4 DEF Sending
  <2>6. Sending \in {0, 1}
    BY <1>b, <2>5, ByteBits
  <2>7. PICK j \in Nat : j = 11 + bit /\ j \in 0..19
    BY <2>4
  <2>9. Heard(P * 256 + blockNum, 19, j)
    BY <1>p, <2>1, <2>7
  <2>8. Drives = Nothing
    BY <1>b, <2>7, <2>9, SilentWrite
  <2> QED BY <1>l, <2>1, <2>2, <2>6, <2>8, ClearSend DEF Sends
<1>4. CASE call = c + 5
  <2>1. bit < 3 /\ output /\ Heard((PutBlock * 256 + blockNum) * 8 + 7, 22, 19 + bit)
    BY <1>4 DEF Selecting
  <2>2. call + 1 = c + 6 /\ Calls[fn][c + 6] = byteSend(\hE0, 3)
    BY <1>4 DEF SelectsAt
  <2>3. Now.do = "send" /\ Now.bytes = <<224>>
    BY <1>l, <2>2, AtCall DEF byteSend
  <2>4. Sending \in {0, 1}
    BY <1>t, <2>1, <2>3, ByteSending DEF Byte
  <2>5. PICK j \in Nat : j = 19 + bit /\ j \in 0..21
    BY <1>t, <2>1
  <2>7. Heard((P * 256 + blockNum) * 8 + 7, 22, j)
    BY <1>p, <2>1, <2>5
  <2>6. Drives = Nothing
    BY <1>b, <2>5, <2>7, SilentWrite
  <2> QED BY <1>l, <2>1, <2>2, <2>4, <2>6, ClearSend DEF Sends, byteSend
<1> QED BY <1>1, <1>2, <1>3, <1>4

\* Forty zeros: the chip holds SDATA low for as long, or not at all.
LEMMA ZeroSending ==
  ASSUME Now.do = "send", Now.bytes = wait_and_poll_end, bit \in Nat, bit < 40
  PROVE  Sending = 0
<1>1. PICK b \in 0..39 : b = bit
  OBVIOUS
<1>2. BitOf(wait_and_poll_end, b + 1) = 0
  BY ZerosSent
<1>3. Sending = BitOf(wait_and_poll_end, bit + 1)
  BY DEF Sending
<1> QED BY <1>1, <1>2, <1>3

\* A chip taking a vector leaves SDATA alone.
LEMMA SilentInVector ==
  ASSUME NEW F, NEW n, NEW b \in Nat, Whole(F[(b \div 22) + 1]), InVector(F, n, b)
  PROVE  Drives = Nothing
<1>1. PICK f : f = F[(b \div 22) + 1]
  OBVIOUS
<1>2. PICK k \in 0..21 : k = b % 22
  OBVIOUS
<1>3. Took(f, 22, k)
  BY <1>1, <1>2 DEF InVector, Heard
<1>4. f \in Nat /\ Upper(f, 19) # 5
  BY <1>1, WholeParts
<1>5. PICK L \in 3..22 : L = 22
  OBVIOUS
<1> QED BY <1>2, <1>3, <1>4, <1>5, WriteIsSilent

\* while a vector is sent and its routine is waited for,
LEMMA PollClear ==
  ASSUME NEW c \in Nat, NEW V, NEW F, NEW m \in Nat, NEW job,
         PollsAt(Calls[fn], c, V, 22 * m), Table(V, F, m), \A k \in 1..m : Whole(F[k]),
         WireTypeOK, running, call \in c..(c + 7), Polled(c, F, m, job)
  PROVE  Clear
<1>t. bit \in Nat
  BY DEF WireTypeOK
<1>l. call < Len(Calls[fn])
  BY DEF PollsAt
<1>1. CASE call \in {c, c + 2, c + 4, c + 5, c + 7}
  <2>1. PICK k \in Nat : k = call + 1 /\ k \in {c + 1, c + 3, c + 5, c + 6, c + 8}
    BY <1>1
  <2>2. Calls[fn][k] \in {pp, hiz, poll}
    BY <2>1 DEF PollsAt
  <2> QED BY <1>l, <2>1, <2>2, ClearNoEdge DEF pp, hiz, poll, Sends
<1>2. CASE call = c + 1
  <2>1. output /\ bit < 22 * m /\ InVector(F, 1, bit)
    BY <1>2 DEF Polled
  <2>2. call + 1 = c + 2 /\ Calls[fn][c + 2] = [do |-> "send", bytes |-> V, n |-> 22 * m]
    BY <1>2 DEF PollsAt
  <2>3. Now.do = "send" /\ Now.bytes = V
    BY <1>l, <2>2, AtCall
  <2>4. V \in Seq(Byte) /\ 22 * m <= 8 * Len(V)
    BY DEF Table
  <2>5. Sending \in {0, 1}
    <3>1. PICK n \in Nat : n = Len(V)
      BY <2>4
    <3>2. bit < 8 * Len(V)
      BY <1>t, <2>1, <2>4, <3>1
    <3> QED BY <1>t, <2>3, <2>4, <3>2, VectorSending
  <2>6. Drives = Nothing
    <3>1. (bit \div 22) + 1 \in 1..m
      BY <1>t, <2>1
    <3> QED BY <1>t, <2>1, <3>1, SilentInVector
  <2> QED BY <1>l, <2>1, <2>2, <2>5, <2>6, ClearSend DEF Sends
<1>3. CASE call = c + 3
  <2>1. ~output
    BY <1>3 DEF Polled
  <2>2. call + 1 = c + 4 /\ Calls[fn][c + 4] = clock
    BY <1>3 DEF PollsAt
  <2> QED BY <1>l, <2>1, <2>2, ClearEdge DEF clock
<1>4. CASE call = c + 6
  <2>1. bit < 40 /\ output /\ phase = "low"
    BY <1>4 DEF Polled, Low
  <2>2. call + 1 = c + 7 /\ Calls[fn][c + 7] = [do |-> "send", bytes |-> wait_and_poll_end, n |-> 40]
    BY <1>4 DEF PollsAt
  <2>3. Now.do = "send" /\ Now.bytes = wait_and_poll_end
    BY <1>l, <2>2, AtCall
  <2>4. Sending = 0
    BY <1>t, <2>1, <2>3, ZeroSending
  <2>5. Drives = 0
    BY <2>1 DEF Drives
  <2> QED BY <1>l, <2>1, <2>2, <2>4, <2>5, ClearSend DEF Sends
<1> QED BY <1>1, <1>2, <1>3, <1>4

\* while a byte is written,
LEMMA WriteClear ==
  ASSUME NEW c \in Nat, NEW i \in 1..BlockSize, WritesAt(Calls[fn], c, i), WireTypeOK, running,
         call \in c..(c + 3), Writing(c, i)
  PROVE  Clear
<1>t. bit \in Nat
  BY DEF WireTypeOK
<1>l. call < Len(Calls[fn])
  BY DEF WritesAt
<1>o. output
  BY DEF Writing
<1>p. PICK P \in 1024..1279 : P = PutByte(i)
  BY ProtocolAssumption, RamParts DEF PutByte
<1>d. PICK x \in Byte : x = dataOUT[i]
  BY Parameters DEF Block
<1>z. PICK z \in Byte : z = (4 * (i - 1)) % 256
  BY ByteAddress
<1>1. CASE call = c
  <2>1. bit < 5 /\ Heard(PutByte(i), 11, bit)
    BY <1>1 DEF Writing
  <2>2. call + 1 = c + 1 /\ Calls[fn][c + 1] = byteSend(\h90, 5)
    BY <1>1 DEF WritesAt
  <2>3. Now.do = "send" /\ Now.bytes = <<144>>
    BY <1>l, <2>2, AtCall DEF byteSend
  <2>4. Sending \in {0, 1}
    BY <1>t, <2>1, <2>3, ByteSending DEF Byte
  <2>5. Drives = Nothing
    BY <1>t, <2>1, SilentFirst
  <2> QED BY <1>l, <1>o, <2>2, <2>4, <2>5, ClearSend DEF Sends, byteSend
<1>2. CASE call = c + 1
  <2>1. bit < 6 /\ Heard(PutByte(i), 11, 5 + bit)
    BY <1>2 DEF Writing
  <2>2. call + 1 = c + 2 /\ Calls[fn][c + 2] = byteSend(z, 6)
    BY <1>2, <1>z DEF WritesAt
  <2>3. Now.do = "send" /\ Now.bytes = <<z>>
    BY <1>l, <2>2, AtCall DEF byteSend
  <2>4. Sending \in {0, 1}
    BY <1>t, <2>1, <2>3, ByteSending
  <2>5. Drives = Nothing
    <3>1. PICK k \in 0..12 : k = 5 + bit
      BY <1>t, <2>1
    <3> QED BY <2>1, <3>1, SilentFirst
  <2> QED BY <1>l, <1>o, <2>2, <2>4, <2>5, ClearSend DEF Sends, byteSend
<1>3. CASE call = c + 2
  <2>1. bit < 8 /\ Heard(P * 256 + x, 19, 11 + bit)
    BY <1>3, <1>p, <1>d DEF Writing
  <2>2. call + 1 = c + 3 /\ Calls[fn][c + 3] = [do |-> "data", i |-> i, n |-> 8]
    BY <1>3 DEF WritesAt
  <2>3. Now.do = "data" /\ Now.i = i
    BY <1>l, <2>2, AtCall
  <2>4. PICK k \in 0..7 : k = bit
    BY <1>t, <2>1
  <2>5. Sending = BitOf(<<x>>, k + 1)
    BY <1>d, <2>3, <2>4 DEF Sending
  <2>6. Sending \in {0, 1}
    BY <2>5, ByteBits
  <2>7. PICK j \in Nat : j = 11 + bit /\ j \in 0..19
    BY <2>4
  <2>8. Drives = Nothing
    BY <2>1, <2>7, SilentWrite, SMTT(30)
  <2> QED BY <1>l, <1>o, <2>2, <2>6, <2>8, ClearSend DEF Sends
<1>4. CASE call = c + 3
  <2>1. bit < 3 /\ Heard((P * 256 + x) * 8 + 7, 22, 19 + bit)
    BY <1>4, <1>p, <1>d DEF Writing
  <2>2. call + 1 = c + 4 /\ Calls[fn][c + 4] = byteSend(\hE0, 3)
    BY <1>4 DEF WritesAt
  <2>3. Now.do = "send" /\ Now.bytes = <<224>>
    BY <1>l, <2>2, AtCall DEF byteSend
  <2>4. Sending \in {0, 1}
    BY <1>t, <2>1, <2>3, ByteSending DEF Byte
  <2>5. PICK j \in Nat : j = 19 + bit /\ j \in 0..21
    BY <1>t, <2>1
  <2>6. Drives = Nothing
    BY <2>1, <2>5, SilentWrite, SMTT(30)
  <2> QED BY <1>l, <1>o, <2>2, <2>4, <2>6, ClearSend DEF Sends, byteSend
<1> QED BY <1>1, <1>2, <1>3, <1>4

\* while a byte is read back: the firmware has let go of the line before the chip answers, and the
\* chip has let go of it before the firmware drives it again,
LEMMA CompareClear ==
  ASSUME NEW c \in Nat, NEW i \in 1..BlockSize, ComparesAt(Calls[fn], c, i), WireTypeOK, running,
         call \in c..(c + 13), Comparing(c, i)
  PROVE  Clear
<1>t. bit \in Nat
  BY DEF WireTypeOK
<1>l. call < Len(Calls[fn])
  <2>1. PICK l \in Nat : l = Len(Calls[fn]) /\ c + 14 <= l
    BY DEF ComparesAt
  <2> QED BY <2>1
<1>c. /\ Calls[fn][c + 1].do = "pp" /\ Calls[fn][c + 3].do = "hiz" /\ Calls[fn][c + 4].do = "pp"
      /\ Calls[fn][c + 8].do = "hiz" /\ Calls[fn][c + 11].do = "pp" /\ Calls[fn][c + 13].do = "hiz"
      /\ Calls[fn][c + 14].do = "compare" /\ Calls[fn][c + 9].do = "receive"
      /\ Calls[fn][c + 10].do = "clock" /\ Calls[fn][c + 6].do = "clock" /\ Calls[fn][c + 7].do = "clock"
  BY DEF ComparesAt, pp, hiz, receive, clock
<1>z. PICK z \in Byte : z = (4 * (i - 1)) % 256
  BY ByteAddress
<1>1. CASE call \in {c, c + 2, c + 3, c + 7, c + 10, c + 12, c + 13}
  <2>1. PICK k \in Nat : k = call + 1 /\ k \in {c + 1, c + 3, c + 4, c + 8, c + 11, c + 13, c + 14}
    BY <1>1
  <2>2. Calls[fn][k].do \in {"pp", "hiz", "compare"}
    BY <1>c, <2>1
  <2> QED BY <1>l, <2>1, <2>2, ClearNoEdge DEF Sends
<1>2. CASE call = c + 1
  <2>1. bit < 5 /\ output /\ Heard(AskByte(i), 11, bit)
    BY <1>2 DEF Comparing
  <2>2. call + 1 = c + 2 /\ Calls[fn][c + 2] = [do |-> "send", bytes |-> read_byte_v, n |-> 5]
    BY <1>2 DEF ComparesAt
  <2>3. Now.do = "send" /\ Now.bytes = read_byte_v
    BY <1>l, <2>2, AtCall
  <2>4. read_byte_v \in Seq(Byte) /\ Len(read_byte_v) = 2
    BY DEF read_byte_v, Byte
  <2>5. Sending \in {0, 1}
    <3>1. bit < 8 * Len(read_byte_v)
      BY <1>t, <2>1, <2>4
    <3> QED BY <1>t, <2>3, <2>4, <3>1, VectorSending
  <2>6. Drives = Nothing
    BY <1>t, <2>1, SilentFirst
  <2> QED BY <1>l, <2>1, <2>2, <2>5, <2>6, ClearSend DEF Sends
<1>3. CASE call = c + 4
  <2>1. bit < 6 /\ output /\ Heard(AskByte(i), 11, 5 + bit)
    BY <1>3 DEF Comparing
  <2>2. call + 1 = c + 5 /\ Calls[fn][c + 5] = byteSend(z, 6)
    BY <1>3, <1>z DEF ComparesAt
  <2>3. Now.do = "send" /\ Now.bytes = <<z>>
    BY <1>l, <2>2, AtCall DEF byteSend
  <2>4. Sending \in {0, 1}
    BY <1>t, <2>1, <2>3, ByteSending
  <2>5. Drives = Nothing
    <3>1. PICK k \in 0..12 : k = 5 + bit
      BY <1>t, <2>1
    <3> QED BY <2>1, <3>1, SilentFirst
  <2> QED BY <1>l, <2>1, <2>2, <2>4, <2>5, ClearSend DEF Sends, byteSend
<1>4. CASE call \in {c + 5, c + 6}
  <2>1. phase = "listening" /\ len \in {11, 12}
    BY <1>4 DEF Comparing, Heard, Asked, Took, Listening
  <2>2. Drives = Nothing
    BY <2>1, Silent
  <2>3. PICK k \in Nat : k = call + 1 /\ k \in {c + 6, c + 7}
    BY <1>4
  <2>4. Calls[fn][k] = clock
    BY <2>3 DEF ComparesAt
  <2> QED BY <1>l, <2>2, <2>3, <2>4, ClearEdge DEF clock
<1>5. CASE call \in {c + 8, c + 9}
  <2>1. ~output
    BY <1>5 DEF Comparing, Receiving
  <2>2. PICK k \in Nat : k = call + 1 /\ k \in {c + 9, c + 10}
    BY <1>5
  <2>3. Calls[fn][k].do \in {"clock", "receive"}
    BY <1>c, <2>2
  <2> QED BY <1>l, <2>1, <2>2, <2>3, ClearEdge
<1>6. CASE call = c + 11
  <2>1. bit = 0 /\ output /\ phase = "listening" /\ len = 21
    BY <1>6 DEF Comparing, Asked, Listening
  <2>2. call + 1 = c + 12
        /\ Calls[fn][c + 12] = [do |-> "send", bytes |-> From(read_byte_v, 1), n |-> 1]
    BY <1>6 DEF ComparesAt
  <2>3. Now.do = "send" /\ Now.bytes = From(read_byte_v, 1)
    BY <1>l, <2>2, AtCall
  <2>4. Sending \in {0, 1}
    BY <2>1, <2>3, ReadByteSent DEF Sending
  <2>5. Drives = Nothing
    BY <2>1, Silent
  <2> QED BY <1>l, <2>1, <2>2, <2>4, <2>5, ClearSend DEF Sends
<1> QED BY <1>1, <1>2, <1>3, <1>4, <1>5, <1>6

\* while two bytes are read,
LEMMA ReadClear ==
  ASSUME NEW c \in Nat, NEW V, NEW W, ReadsAt(Calls[fn], c, V, W), WireTypeOK, running,
         NEW P \in Nat, NEW Q \in Nat, CarriesAddress(V, P, 0), CarriesAddress(From(V, 2), Q, 1),
         BitOf(From(V, 2), 1) \in {0, 1}, BitOf(W, 1) \in {0, 1},
         call \in c..(c + 16), ReadingTwice(c, P, Q)
  PROVE  Clear
<1>t. bit \in Nat
  BY DEF WireTypeOK
<1>l. call < Len(Calls[fn])
  <2>1. PICK l \in Nat : l = Len(Calls[fn]) /\ c + 17 <= l
    BY DEF ReadsAt
  <2> QED BY <2>1
<1>c. /\ Calls[fn][c + 1].do = "pp" /\ Calls[fn][c + 3].do = "hiz" /\ Calls[fn][c + 4].do = "clock"
      /\ Calls[fn][c + 5].do = "clock" /\ Calls[fn][c + 6].do = "receive" /\ Calls[fn][c + 7].do = "clock"
      /\ Calls[fn][c + 8].do = "pp" /\ Calls[fn][c + 10].do = "hiz" /\ Calls[fn][c + 11].do = "clock"
      /\ Calls[fn][c + 12].do = "clock" /\ Calls[fn][c + 13].do = "receive"
      /\ Calls[fn][c + 14].do = "clock" /\ Calls[fn][c + 15].do = "pp" /\ Calls[fn][c + 17].do = "hiz"
  BY DEF ReadsAt, pp, hiz, receive, clock
<1>1. CASE call \in {c, c + 2, c + 7, c + 9, c + 14, c + 16}
  <2>1. PICK k \in Nat : k = call + 1 /\ k \in {c + 1, c + 3, c + 8, c + 10, c + 15, c + 17}
    BY <1>1
  <2>2. Calls[fn][k].do \in {"pp", "hiz"}
    BY <1>c, <2>1
  <2> QED BY <1>l, <2>1, <2>2, ClearNoEdge DEF Sends
<1>2. CASE call \in {c + 3, c + 4, c + 5, c + 6, c + 10, c + 11, c + 12, c + 13}
  <2>1. ~output
    BY <1>2 DEF ReadingTwice, Answer, Receiving
  <2>2. PICK k \in Nat : k = call + 1 /\ k \in {c + 4, c + 5, c + 6, c + 7, c + 11, c + 12, c + 13, c + 14}
    BY <1>2
  <2>3. Calls[fn][k].do \in {"clock", "receive"}
    BY <1>c, <2>2
  <2> QED BY <1>l, <2>1, <2>2, <2>3, ClearEdge
<1>3. CASE call = c + 1
  <2>1. bit < 11 /\ output /\ Heard(P, 11, bit)
    BY <1>3 DEF ReadingTwice
  <2>2. call + 1 = c + 2 /\ Calls[fn][c + 2] = [do |-> "send", bytes |-> V, n |-> 11]
    BY <1>3 DEF ReadsAt
  <2>3. Now.do = "send" /\ Now.bytes = V
    BY <1>l, <2>2, AtCall
  <2>4. Sending \in {0, 1}
    <3>1. PICK k \in 0..10 : k = bit
      BY <1>t, <2>1
    <3>2. BitOf(V, k + 1) = BitAt(P, 10 - k)
      BY DEF CarriesAddress
    <3>3. PICK e \in 0..21 : e = 10 - k
      OBVIOUS
    <3>4. BitAt(P, e) \in {0, 1}
      BY OneMore
    <3> QED BY <2>3, <3>1, <3>2, <3>3, <3>4 DEF Sending
  <2>5. Drives = Nothing
    BY <1>t, <2>1, SilentFirst
  <2> QED BY <1>l, <2>1, <2>2, <2>4, <2>5, ClearSend DEF Sends
<1>4. CASE call = c + 8
  <2>1. bit < 12 /\ output /\ (IF bit = 0 THEN Asked(P, 21) ELSE Heard(Q, 11, bit - 1))
    BY <1>4 DEF ReadingTwice
  <2>2. call + 1 = c + 9 /\ Calls[fn][c + 9] = [do |-> "send", bytes |-> From(V, 2), n |-> 12]
    BY <1>4 DEF ReadsAt
  <2>3. Now.do = "send" /\ Now.bytes = From(V, 2)
    BY <1>l, <2>2, AtCall
  <2>4. PICK k \in 0..11 : k = bit
    BY <1>t, <2>1
  <2>5. Sending = BitOf(From(V, 2), k + 1)
    BY <2>3, <2>4 DEF Sending
  <2>6. CASE k = 0
    <3>1. phase = "listening" /\ len = 21
      BY <2>1, <2>4, <2>6 DEF Asked, Listening
    <3>2. Sending \in {0, 1}
      BY <2>5, <2>6
    <3> QED BY <1>l, <2>1, <2>2, <3>1, <3>2, Silent, ClearSend DEF Sends
  <2>7. CASE k # 0
    <3>1. PICK j \in 0..10 : j = k - 1
      BY <2>7
    <3>2. Heard(Q, 11, j) /\ j \in 0..12
      BY <2>1, <2>4, <2>7, <3>1
    <3>3. BitOf(From(V, 2), 1 + j + 1) = BitAt(Q, 10 - j)
      BY DEF CarriesAddress
    <3>4. PICK e \in 0..21 : e = 10 - j
      OBVIOUS
    <3>5. BitAt(Q, e) \in {0, 1}
      BY OneMore
    <3>6. 1 + j + 1 = k + 1
      BY <3>1
    <3>7. Sending \in {0, 1}
      BY <2>5, <3>3, <3>4, <3>5, <3>6
    <3> QED BY <1>l, <2>1, <2>2, <3>2, <3>7, SilentFirst, ClearSend, SMTT(30) DEF Sends
  <2> QED BY <2>6, <2>7
<1>5. CASE call = c + 15
  <2>1. bit = 0 /\ output /\ phase = "listening" /\ len = 21
    BY <1>5 DEF ReadingTwice, Asked, Listening
  <2>2. call + 1 = c + 16 /\ Calls[fn][c + 16] = [do |-> "send", bytes |-> W, n |-> 1]
    BY <1>5 DEF ReadsAt
  <2>3. Now.do = "send" /\ Now.bytes = W
    BY <1>l, <2>2, AtCall
  <2>4. Sending \in {0, 1}
    BY <2>1, <2>3 DEF Sending
  <2> QED BY <1>l, <2>1, <2>2, <2>4, Silent, ClearSend DEF Sends
<1> QED BY <1>1, <1>2, <1>3, <1>4, <1>5

\* in the loops,
LEMMA LoopsClear ==
  ASSUME WireTypeOK, running, NEW c \in Nat, NEW n \in 1..BlockSize
  PROVE  /\ (\A q \in 0..(n - 1) : WritesAt(Calls[fn], c + 4 * q, q + 1))
              /\ call \in c..(c + 4 * n - 1) /\ WritingLoop(c, n) => Clear
         /\ (\A q \in 0..(n - 1) : ComparesAt(Calls[fn], c + 14 * q, q + 1))
              /\ call \in c..(c + 14 * n - 1) /\ ComparingLoop(c, n) => Clear
<1>n. n \in Nat /\ n <= BlockSize /\ BlockSize \in Nat
  BY ProtocolAssumption DEF ProtocolAssumption
<1>1. ASSUME \A q \in 0..(n - 1) : WritesAt(Calls[fn], c + 4 * q, q + 1),
             call \in c..(c + 4 * n - 1), WritingLoop(c, n)
      PROVE  Clear
  <2>1. PICK q \in 0..(n - 1) : call \in (c + 4 * q)..(c + 4 * q + 4 - 1)
    <3>1. PICK s \in {4, 14} : s = 4
      OBVIOUS
    <3>2. call \in Nat /\ c <= call /\ call < c + s * n
      BY <1>1, <1>n, <3>1
    <3>3. \E q \in 0..(n - 1) : call \in (c + s * q)..(c + s * q + s - 1)
      BY <1>n, <3>2, LoopTurn
    <3> QED BY <3>1, <3>3
  <2>2. PICK x \in Nat : x = c + 4 * q
    BY <1>n
  <2>3. PICK i \in 1..BlockSize : i = q + 1
    BY <1>n
  <2>4. call \in x..(x + 3)
    BY <1>n, <2>1, <2>2
  <2>5. Writing(x, i)
    BY <1>1, <2>2, <2>3, <2>4 DEF WritingLoop
  <2>6. WritesAt(Calls[fn], x, i)
    BY <1>1, <2>2, <2>3
  <2> QED BY <2>4, <2>5, <2>6, WriteClear
<1>2. ASSUME \A q \in 0..(n - 1) : ComparesAt(Calls[fn], c + 14 * q, q + 1),
             call \in c..(c + 14 * n - 1), ComparingLoop(c, n)
      PROVE  Clear
  <2>1. PICK q \in 0..(n - 1) : call \in (c + 14 * q)..(c + 14 * q + 14 - 1)
    <3>1. PICK s \in {4, 14} : s = 14
      OBVIOUS
    <3>2. call \in Nat /\ c <= call /\ call < c + s * n
      BY <1>2, <1>n, <3>1
    <3>3. \E q \in 0..(n - 1) : call \in (c + s * q)..(c + s * q + s - 1)
      BY <1>n, <3>2, LoopTurn
    <3> QED BY <3>1, <3>3
  <2>2. PICK x \in Nat : x = c + 14 * q
    BY <1>n
  <2>3. PICK i \in 1..BlockSize : i = q + 1
    BY <1>n
  <2>4. call \in x..(x + 13)
    BY <1>n, <2>1, <2>2
  <2>5. Comparing(x, i)
    BY <1>2, <2>2, <2>3, <2>4 DEF ComparingLoop
  <2>6. ComparesAt(Calls[fn], x, i)
    BY <1>2, <2>2, <2>3
  <2> QED BY <2>4, <2>5, <2>6, CompareClear
<1> QED BY <1>1, <1>2

\* The vectors of targetInitialize; a chip that is deaf drives nothing.
LEMMA InitClear ==
  ASSUME WireTypeOK, running, fn = "initialize", call < 25, Initializing
  PROVE  Clear
<1>t. bit \in Nat /\ call \in Nat
  BY CallRange DEF WireTypeOK
<1>c. /\ Len(Calls[fn]) = 25 /\ Calls[fn][1] = hiz /\ Calls[fn][2] = reset
      /\ PollsAt(Calls[fn], 2, init1_v, 22 * 18) /\ PollsAt(Calls[fn], 10, init2_v, 22 * 13)
      /\ Calls[fn][19] = pp /\ Calls[fn][20] = [do |-> "send", bytes |-> init3_3v, n |-> 836]
      /\ Calls[fn][21] = hiz /\ Calls[fn][22] = clock /\ Calls[fn][23] = pp
      /\ Calls[fn][24] = [do |-> "send", bytes |-> wait_and_poll_end, n |-> 40] /\ Calls[fn][25] = hiz
  BY InitializeCalls
<1>d. /\ Calls[fn][3].do = "pp" /\ Calls[fn][4] = [do |-> "send", bytes |-> init1_v, n |-> 22 * 18]
      /\ Calls[fn][5].do = "hiz" /\ Calls[fn][6].do = "clock" /\ Calls[fn][7].do = "poll"
  BY <1>c DEF PollsAt, pp, hiz, clock, poll
<1>v. /\ init1_v \in Seq(Byte) /\ 396 <= 8 * Len(init1_v)
      /\ init3_3v \in Seq(Byte) /\ 836 <= 8 * Len(init3_3v)
  BY Init1Table, Init3Table DEF Table
<1>f. /\ \A k \in 7..18 : Whole(Init1Frames[k])
      /\ \A k \in 1..13 : Whole(Init2Frames[k])
  BY Init1Vector, Init2Vector DEF Vector
<1>s. ASSUME call = 3, bit < 396 PROVE Sending \in {0, 1}
  <2>1. Now.do = "send" /\ Now.bytes = init1_v
    BY <1>s, <1>c, <1>d, AtCall
  <2>2. PICK n \in Nat : n = Len(init1_v)
    BY <1>v
  <2>3. bit < 8 * Len(init1_v)
    BY <1>s, <1>t, <1>v, <2>2
  <2> QED BY <1>t, <1>v, <2>1, <2>3, VectorSending
<1>1. CASE call \in {0, 1, 2, 18, 20, 22, 24}
  <2>1. PICK k \in Nat : k = call + 1 /\ k \in {1, 2, 3, 19, 21, 23, 25}
    BY <1>1
  <2>2. Calls[fn][k].do \in {"pp", "hiz", "reset"}
    BY <1>c, <1>d, <2>1 DEF pp, hiz, reset
  <2> QED BY <1>c, <2>1, <2>2, ClearNoEdge DEF Sends
<1>2. CASE call \in 3..6 /\ Deaf
  <2>1. Drives = Nothing
    BY <1>2 DEF Deaf, Drives
  <2>2. CASE call = 3
    <3>1. output /\ bit < 396
      BY <1>2, <2>2 DEF Deaf
    <3> QED BY <1>c, <1>d, <1>s, <2>1, <2>2, <3>1, ClearSend DEF Sends
  <2>3. CASE call = 5
    BY <1>c, <1>d, <2>1, <2>3, ClearEdge
  <2>4. CASE call \in {4, 6}
    <3>1. PICK k \in Nat : k = call + 1 /\ k \in {5, 7}
      BY <2>4
    <3> QED BY <1>c, <1>d, <3>1, ClearNoEdge DEF Sends
  <2> QED BY <1>2, <2>2, <2>3, <2>4
<1>3. CASE call = 3 /\ Waking
  <2>1. output /\ bit < 396
    BY <1>3 DEF Waking
  <2>2. Drives = Nothing
    <3>1. PICK j \in Nat, i \in 0..21 : j = bit \div 22 /\ i = bit % 22
      BY <1>t
    <3>2. CASE j = 0
      <4>1. Took(Wake, 22, i)
        BY <1>3, <3>1, <3>2 DEF Waking
      <4>2. PICK X \in Nat, L \in 3..22 : X = Wake /\ L = 22
        BY Powers DEF Wake
      <4>3. Upper(X, 19) # 5
        BY <4>2, Powers DEF Upper, Wake
      <4> QED BY <4>1, <4>2, <4>3, WriteIsSilent
    <3>3. CASE j \in 1..5
      BY <1>3, <3>1, <3>3, ReadySilent DEF Waking
    <3>4. CASE j > 5
      <4>1. InVector(Init1Frames, 7, bit)
        BY <1>3, <3>1, <3>4 DEF Waking
      <4>2. (bit \div 22) + 1 \in 7..18
        BY <1>t, <2>1, <3>1, <3>4
      <4> QED BY <1>f, <1>t, <4>1, <4>2, SilentInVector
    <3> QED BY <3>1, <3>2, <3>3, <3>4
  <2> QED BY <1>3, <1>c, <1>d, <1>s, <2>1, <2>2, ClearSend DEF Sends
<1>4. CASE call \in 4..9 /\ Polled(2, Init1Frames, 18, "init1")
  <2>1. CASE call \in {4, 6, 7, 9}
    <3>1. PICK k \in Nat : k = call + 1 /\ k \in {5, 7, 8, 10}
      BY <2>1
    <3>2. Calls[fn][k].do \in {"pp", "hiz", "poll"}
      BY <1>c, <3>1 DEF PollsAt, pp, hiz, poll
    <3> QED BY <1>c, <3>1, <3>2, ClearNoEdge DEF Sends
  <2>2. CASE call = 5
    <3>1. ~output
      BY <1>4, <2>2 DEF Polled
    <3> QED BY <1>c, <1>d, <2>2, <3>1, ClearEdge
  <2>3. CASE call = 8
    <3>1. bit < 40 /\ output /\ phase = "low"
      BY <1>4, <2>3 DEF Polled, Low
    <3>2. Calls[fn][9] = [do |-> "send", bytes |-> wait_and_poll_end, n |-> 40]
      BY <1>c DEF PollsAt
    <3>3. Now.do = "send" /\ Now.bytes = wait_and_poll_end
      BY <1>c, <2>3, <3>2, AtCall
    <3>4. Sending = 0
      BY <1>t, <3>1, <3>3, ZeroSending
    <3>5. Drives = 0
      BY <3>1 DEF Drives
    <3> QED BY <1>c, <2>3, <3>1, <3>2, <3>4, <3>5, ClearSend DEF Sends
  <2> QED BY <1>4, <2>1, <2>2, <2>3
<1>5. CASE call \in 10..17
  <2>1. Polled(10, Init2Frames, 13, "init2")
    BY <1>5 DEF Initializing
  <2>2. PICK c \in Nat, m \in Nat : c = 10 /\ m = 13
    OBVIOUS
  <2>3. PollsAt(Calls[fn], c, init2_v, 22 * m) /\ call \in c..(c + 7)
    BY <1>5, <1>c, <2>2
  <2>4. Polled(c, Init2Frames, m, "init2") /\ Table(init2_v, Init2Frames, m)
    BY <2>1, <2>2, Init2Table
  <2>5. \A k \in 1..m : Whole(Init2Frames[k])
    BY <1>f, <2>2
  <2> QED BY <2>3, <2>4, <2>5, PollClear
<1>6. CASE call = 19
  <2>1. Trimming
    BY <1>6 DEF Initializing
  <2>2. output /\ bit < 836
    BY <2>1 DEF Trimming
  <2>3. Sending \in {0, 1}
    <3>1. Now.do = "send" /\ Now.bytes = init3_3v
      BY <1>6, <1>c, AtCall
    <3>2. PICK n \in Nat : n = Len(init3_3v)
      BY <1>v
    <3>3. bit < 8 * Len(init3_3v)
      BY <1>t, <1>v, <2>2, <3>2
    <3> QED BY <1>t, <1>v, <3>1, <3>3, VectorSending
  <2>4. ASSUME NEW n \in Nat, NEW m \in Nat, NEW x, NEW y, Piece(Init3Frames, n, m, x, y),
               22 * (n - 1) <= bit, Round(bit, n, m, x, y)
        PROVE  Drives = Nothing
    <3>1. CASE bit < 22 * m
      <4>1. InVector(Init3Frames, n, bit)
        BY <2>4, <3>1 DEF Round
      <4>2. (bit \div 22) + 1 \in n..m
        BY <1>t, <2>4, <3>1
      <4>3. Whole(Init3Frames[(bit \div 22) + 1])
        BY <2>4, <4>2 DEF Piece
      <4> QED BY <1>t, <4>1, <4>3, SilentInVector
    <3>2. CASE bit >= 22 * m
      <4>1. phase \in {"armed", "executing"}
        BY <1>t, <2>4, <3>2 DEF Round
      <4> QED BY <4>1 DEF Drives
    <3> QED BY <1>t, <3>1, <3>2
  <2>5. tMode = "prog"
    BY <1>t, <2>1, TrimmingProg
  <2>6. /\ bit \in 0..197 => Round(bit, 1, 8, \h51, \hF8)
        /\ bit \in 198..417 => Round(bit, 10, 18, \h60, \hEA)
        /\ bit \in 418..615 => Round(bit, 20, 27, \h51, \hF9)
        /\ bit \in 616..835 => Round(bit, 29, 37, \h60, \hE8)
    BY <1>t, <2>1, <2>5, TrimmingRounds
  <2>8. Drives = Nothing
    <3>1. bit \in 0..197 => Drives = Nothing
      BY <2>4, <2>6, Piece1
    <3>2. bit \in 198..417 => Drives = Nothing
      BY <2>4, <2>6, Piece2
    <3>3. bit \in 418..615 => Drives = Nothing
      BY <2>4, <2>6, Piece3
    <3>4. bit \in 616..835 => Drives = Nothing
      BY <2>4, <2>6, Piece4
    <3> QED BY <1>t, <2>2, <3>1, <3>2, <3>3, <3>4
  <2> QED BY <1>6, <1>c, <2>2, <2>3, <2>8, ClearSend DEF Sends
<1>7. CASE call \in {21, 23}
  <2>1. Ready
    BY <1>7 DEF Initializing
  <2>2. Drives = Nothing
    BY <2>1, ReadySilent
  <2>3. CASE call = 21
    BY <1>c, <2>2, <2>3, ClearEdge DEF clock
  <2>4. CASE call = 23
    <3>1. output /\ bit < 40
      BY <2>4 DEF Initializing
    <3>2. Now.do = "send" /\ Now.bytes = wait_and_poll_end
      BY <1>c, <2>4, AtCall
    <3>3. Sending = 0
      BY <1>t, <3>1, <3>2, ZeroSending
    <3> QED BY <1>c, <2>2, <2>4, <3>1, <3>3, ClearSend DEF Sends
  <2> QED BY <1>7, <2>3, <2>4
<1>8. call = 3 => Waking \/ Deaf
  BY DEF Initializing
<1>9. call \in 4..9 => Polled(2, Init1Frames, 18, "init1") \/ (Deaf /\ call \in 3..6)
  BY DEF Initializing, Deaf
<1> QED BY <1>t, <1>1, <1>2, <1>3, <1>4, <1>5, <1>6, <1>7, <1>8, <1>9

\* and after the last call.
LEMMA ClearAtEnd ==
  ASSUME call = Len(Calls[fn]), Len(Calls[fn]) \in Nat
  PROVE  Clear
BY DEF Clear, NoContention, Doing

\* Wherever a function is, SDATA is driven one way only.
LEMMA AtClear ==
  ASSUME WireTypeOK, running, At
  PROVE  Clear
<1>r. call \in Nat /\ call <= Len(Calls[fn]) /\ Len(Calls[fn]) \in Nat
  BY CallRange
<1>s. PICK s \in 1..BlockSize : s = SecuritySize
  BY RamParts
<1>b. PICK b \in 1..BlockSize : b = BlockSize
  BY ProtocolAssumption DEF ProtocolAssumption
<1>n. b \in Nat /\ s \in Nat
  BY ProtocolAssumption DEF ProtocolAssumption
<1>p. ASSUME NEW c \in Nat, NEW V, NEW F, NEW m \in Nat, NEW job, NEW x \in Nat, NEW n, x = 22 * m,
             PollsAt(Calls[fn], c, V, x), Table(V, F, m), Vector(F, n, m, job), n = 1,
             call \in c..(c + 7), Polled(c, F, m, job)
      PROVE  Clear
  <2>1. \A k \in 1..m : Whole(F[k])
    BY <1>p DEF Vector
  <2> QED BY <1>p, <2>1, PollClear
<1>1. CASE fn = "initialize"
  <2>1. Initializing
    BY <1>1 DEF At
  <2>2. Len(Calls[fn]) = 25
    BY <1>1, InitializeCalls
  <2> QED BY <1>1, <1>r, <2>1, <2>2, InitClear, ClearAtEnd
<1>2. CASE fn = "siliconID"
  <2>1. /\ Len(Calls[fn]) = 26 /\ PollsAt(Calls[fn], 0, id_setup_v, 330)
        /\ ReadsAt(Calls[fn], 8, read_id_v, From(read_id_v, 4)) /\ Calls[fn][26] = [do |-> "id"]
    BY <1>2, SiliconIDCalls
  <2>2. /\ call \in 0..8 => Polled(0, IdSetupFrames, 15, "siliconID")
        /\ call \in 8..25 => ReadingTwice(8, ReadID(\hF8), ReadID(\hF9))
    BY <1>2 DEF At
  <2>3. CASE call \in 0..7
    <3>1. Polled(0, IdSetupFrames, 15, "siliconID") /\ call \in 0..(0 + 7) /\ 330 = 22 * 15
      BY <2>2, <2>3
    <3> QED BY <1>p, <2>1, <3>1, IdSetupTable, IdSetupVector
  <2>4. CASE call \in 8..24
    BY <2>1, <2>2, <2>4, ReadClear, ReadVectors, ReadIDs
  <2>5. CASE call = 25
    <3>1. call + 1 = 26 /\ call < Len(Calls[fn]) /\ Calls[fn][26].do = "id"
      BY <2>1, <2>5
    <3> QED BY <3>1, ClearNoEdge DEF Sends
  <2>6. CASE call = 26
    BY <2>1, <2>6, ClearAtEnd
  <2> QED BY <1>r, <2>1, <2>3, <2>4, <2>5, <2>6
<1>3. CASE fn = "erase"
  <2>1. Len(Calls[fn]) = 8 /\ PollsAt(Calls[fn], 0, erase_all_v, 308)
    BY <1>3, EraseCalls
  <2>2. Polled(0, EraseAllFrames, 14, "erase")
    BY <1>3 DEF At
  <2>3. CASE call \in 0..7
    BY <1>p, <2>1, <2>2, <2>3, EraseAllTable, EraseAllVector
  <2> QED BY <1>r, <2>1, <2>3, ClearAtEnd
<1>4. CASE fn = "load"
  <2>1. /\ Len(Calls[fn]) = 1 + 4 * b /\ Calls[fn][1] = pp
        /\ \A q \in 0..(b - 1) : WritesAt(Calls[fn], 1 + 4 * q, q + 1)
    BY <1>4, <1>b, LoadCalls
  <2>2. call >= 1 => WritingLoop(1, b)
    BY <1>4, <1>b DEF At
  <2>3. CASE call = 0
    <3>1. call + 1 = 1 /\ call < Len(Calls[fn]) /\ Calls[fn][1].do = "pp"
      BY <1>n, <2>1, <2>3 DEF pp
    <3> QED BY <3>1, ClearNoEdge DEF Sends
  <2>4. CASE call \in 1..(1 + 4 * b - 1)
    BY <2>1, <2>2, <2>4, LoopsClear
  <2> QED BY <1>n, <1>r, <2>1, <2>3, <2>4, ClearAtEnd
<1>5. CASE fn = "blockProgram"
  <2>1. /\ Len(Calls[fn]) = 14 /\ SelectsAt(Calls[fn], 0)
        /\ PollsAt(Calls[fn], 6, program_block, 308)
    BY <1>5, BlockProgramCalls
  <2>2. /\ call \in 0..5 => Selecting(0)
        /\ call >= 6 => Polled(6, ProgramBlockFrames, 14, "blockProgram")
    BY <1>5 DEF At
  <2>3. CASE call \in 0..5
    BY <2>1, <2>2, <2>3, SelectClear
  <2>4. CASE call \in 6..13
    BY <1>p, <2>1, <2>2, <2>4, ProgramBlockTable, ProgramBlockVector
  <2> QED BY <1>r, <2>1, <2>3, <2>4, ClearAtEnd
<1>6. CASE fn = "blockVerify"
  <2>1. /\ Len(Calls[fn]) = 14 + 14 * b /\ SelectsAt(Calls[fn], 0)
        /\ PollsAt(Calls[fn], 6, verify_setup_v, 264)
        /\ \A q \in 0..(b - 1) : ComparesAt(Calls[fn], 14 + 14 * q, q + 1)
    BY <1>6, <1>b, BlockVerifyCalls
  <2>2. /\ call \in 0..5 => Selecting(0)
        /\ call \in 6..14 => Polled(6, VerifySetupFrames, 12, "blockVerify")
        /\ call >= 14 => ComparingLoop(14, b)
    BY <1>6, <1>b DEF At
  <2>3. CASE call \in 0..5
    BY <2>1, <2>2, <2>3, SelectClear
  <2>4. CASE call \in 6..13
    BY <1>p, <2>1, <2>2, <2>4, VerifySetupTable, VerifySetupVector
  <2>5. CASE call \in 14..(14 + 14 * b - 1)
    BY <2>1, <2>2, <2>5, LoopsClear
  <2> QED BY <1>n, <1>r, <2>1, <2>3, <2>4, <2>5, ClearAtEnd
<1>7. CASE fn = "securityFlash"
  <2>1. /\ Len(Calls[fn]) = 9 + 4 * s /\ Calls[fn][1] = pp
        /\ \A q \in 0..(s - 1) : WritesAt(Calls[fn], 1 + 4 * q, q + 1)
        /\ PollsAt(Calls[fn], 1 + 4 * s, security_v, 308)
    BY <1>7, <1>s, SecurityFlashCalls
  <2>2. /\ call \in 1..(1 + 4 * s) => WritingLoop(1, s)
        /\ call >= 1 + 4 * s => Polled(1 + 4 * s, SecurityFFrames, 14, "securityFlash")
    BY <1>7, <1>s DEF At
  <2>3. CASE call = 0
    <3>1. call + 1 = 1 /\ call < Len(Calls[fn]) /\ Calls[fn][1].do = "pp"
      BY <1>n, <2>1, <2>3 DEF pp
    <3> QED BY <3>1, ClearNoEdge DEF Sends
  <2>4. CASE call \in 1..(1 + 4 * s - 1)
    <3>1. WritingLoop(1, s)
      BY <1>n, <2>2, <2>4
    <3> QED BY <2>1, <2>4, <3>1, LoopsClear
  <2>5. CASE call \in (1 + 4 * s)..(8 + 4 * s)
    <3>1. PICK c \in Nat : c = 1 + 4 * s
      BY <1>n
    <3>2. call \in c..(c + 7) /\ Polled(c, SecurityFFrames, 14, "securityFlash")
          /\ PollsAt(Calls[fn], c, security_v, 308)
      BY <1>n, <2>1, <2>2, <2>5, <3>1
    <3> QED BY <1>p, <3>2, SecurityFTable, SecurityFVector
  <2> QED BY <1>n, <1>r, <2>1, <2>3, <2>4, <2>5, ClearAtEnd
<1>8. CASE fn = "securityVerify"
  <2>1. /\ Len(Calls[fn]) = 8 + 14 * s /\ PollsAt(Calls[fn], 0, securityVerification_v, 308)
        /\ \A q \in 0..(s - 1) : ComparesAt(Calls[fn], 8 + 14 * q, q + 1)
    BY <1>8, <1>s, SecurityVerifyCalls
  <2>2. /\ call \in 0..8 => Polled(0, SecurityVerificationFrames, 14, "securityVerify")
        /\ call >= 8 => ComparingLoop(8, s)
    BY <1>8, <1>s DEF At
  <2>3. CASE call \in 0..7
    BY <1>p, <2>1, <2>2, <2>3, SecurityVerificationTable, SecurityVerificationVector
  <2>4. CASE call \in 8..(8 + 14 * s - 1)
    BY <2>1, <2>2, <2>4, LoopsClear
  <2> QED BY <1>n, <1>r, <2>1, <2>3, <2>4, ClearAtEnd
<1>9. CASE fn = "bankChecksum"
  <2>1. /\ Len(Calls[fn]) = 25 /\ PollsAt(Calls[fn], 0, checksum_v, 286)
        /\ ReadsAt(Calls[fn], 8, read_checksum_v, From(read_checksum_v, 3))
    BY <1>9, BankChecksumCalls
  <2>2. /\ call \in 0..8 => Polled(0, ChecksumFrames, 13, "bankChecksum")
        /\ call >= 8 => ReadingTwice(8, ReadID(\hF9), ReadID(\hF8))
    BY <1>9 DEF At
  <2>3. CASE call \in 0..7
    BY <1>p, <2>1, <2>2, <2>3, ChecksumTable, ChecksumVector
  <2>4. CASE call \in 8..24
    BY <2>1, <2>2, <2>4, ReadClear, ReadVectors, ReadIDs
  <2> QED BY <1>r, <2>1, <2>3, <2>4, ClearAtEnd
<1>10. CASE fn = "reStart"
  <2>1. Len(Calls[fn]) = 1 /\ Calls[fn][1].do = "reset"
    BY <1>10, ReStartCalls DEF reset
  <2> QED BY <1>r, <2>1, ClearNoEdge, ClearAtEnd DEF Sends
<1> QED BY <1>1, <1>2, <1>3, <1>4, <1>5, <1>6, <1>7, <1>8, <1>9, <1>10 DEF WireTypeOK, Functions

(***************************************************************************)
(* The inductive invariant, and what follows from it.                      *)
(***************************************************************************)
\* One step from the invariant: it holds again, and the cells change as they may.
LEMMA WireStep ==
  ASSUME WireIInv, Next
  PROVE  /\ WireIInv'
         /\ IF running /\ ~running' /\ ok' THEN Operation(fn, blockNum, dataOUT, TRUE)
            ELSE \/ UNCHANGED targetVars
                 \/ running /\ Operation(fn, blockNum, dataOUT, FALSE)
                 \/ ~ok /\ Operation(failed[1], failed[2], failed[3], FALSE)
<1>t. WireTypeOK /\ Sound /\ Solid /\ running \in BOOLEAN
  BY DEF WireIInv, Sound, WireTypeOK
<1>1. CASE running
  <2>1. At /\ (ok \/ fn = "initialize")
    BY <1>1 DEF WireIInv
  <2>2. Outcome
    BY <1>1, <1>t, <2>1, FunctionStep
  <2>3. Clear
    BY <1>1, <1>t, <2>1, AtClear
  <2>4. received' \in Seq(Byte) /\ ~malformed'
    BY <2>2 DEF Outcome
  <2>5. WireTypeOK' /\ Solid'
    BY <1>t, <2>3, <2>4, TypeStep DEF Clear
  <2>6. ASSUME Changes
        PROVE  \/ UNCHANGED targetVars
               \/ Operation(fn, blockNum, dataOUT, FALSE)
               \/ ~ok /\ Operation(failed[1], failed[2], failed[3], FALSE)
    <3>1. tMode' \in {"run", "prog"}
      BY <2>5 DEF WireTypeOK, ChipTypeOK, TargetTypeOK
    <3>2. CASE fn = "initialize" /\ UNCHANGED <<genuine, flash, security>>
      BY <3>1, <3>2 DEF Operation, targetInitialize
    <3> QED BY <2>6, <3>2 DEF Changes
  <2>7. CASE Proceeds /\ At' /\ Changes
    <3>1. running' = TRUE /\ ok' = ok /\ fn' = fn
      BY <2>7 DEF Proceeds
    <3> QED BY <1>1, <2>1, <2>4, <2>5, <2>6, <2>7, <3>1 DEF WireIInv, Sound
  <2>8. CASE GivesUp /\ Stale' /\ Changes
    <3>1. running' = FALSE /\ ok' = FALSE
      BY <2>8 DEF GivesUp
    <3>2. Between'
      BY <2>8, <3>1 DEF Between
    <3> QED BY <1>1, <2>4, <2>5, <2>6, <2>8, <3>1, <3>2 DEF WireIInv, Sound
  <2>9. CASE Succeeds /\ Between' /\ Operation(fn, blockNum, dataOUT, TRUE)
    <3>1. running' = FALSE /\ ok' = TRUE
      BY <2>9 DEF Succeeds
    <3> QED BY <1>1, <2>4, <2>5, <2>9, <3>1 DEF WireIInv, Sound
  <2> QED BY <2>2, <2>7, <2>8, <2>9 DEF Outcome
<1>2. CASE ~running
  <2>1. Between
    BY <1>2 DEF WireIInv
  <2>2. /\ received' \in Seq(Byte) /\ ~malformed'
        /\ UNCHANGED targetVars \/ (~ok /\ Operation(failed[1], failed[2], failed[3], FALSE))
        /\ \/ running' /\ At' /\ (ok' \/ fn' = "initialize")
           \/ ~running' /\ Between'
    BY <1>2, <1>t, <2>1, BetweenStep
  <2>3. \A c \in Sends : ~Doing(c)
    BY <1>2 DEF Doing
  <2>4. WireTypeOK' /\ Solid'
    BY <1>t, <2>2, <2>3, TypeStep
  <2> QED BY <1>2, <2>2, <2>4 DEF WireIInv, Sound
<1> QED BY <1>t, <1>1, <1>2

\* A stuttering step changes nothing of it.
LEMMA WireStutter ==
  ASSUME WireIInv, UNCHANGED vars
  PROVE  WireIInv'
<1>u. UNCHANGED <<fn, running, call, bit, output, latch, sclk, received, dataOUT, blockNum, ok, failed>>
      /\ UNCHANGED <<phase, wait, len, bits, ram, reg, malformed, tMode, genuine, flash, security>>
  BY DEF vars, chipVars, progVars, targetVars
<1>1. WireTypeOK' /\ Sound'
  BY <1>u DEF WireIInv, WireTypeOK, ChipTypeOK, TargetTypeOK, Sound, Solid
<1>2. At' <=> At
  <2>1. ASSUME NEW c, NEW F, NEW m, NEW job PROVE Polled(c, F, m, job)' <=> Polled(c, F, m, job)
    BY <1>u DEF Polled, Ready, Listening, InVector, Heard, Took, Written, Holds, Need, Queued, Effect, Loaded,
                BlockNumber, KeysSet, Silicon, ProtectionRead, Sum, Low
  <2>2. ASSUME NEW c, NEW P, NEW Q PROVE ReadingTwice(c, P, Q)' <=> ReadingTwice(c, P, Q)
    BY <1>u DEF ReadingTwice, Answer, Receiving, Received, Asked, Listening, Heard, Took, Ready
  <2>3. ASSUME NEW c PROVE Selecting(c)' <=> Selecting(c)
    BY <1>u DEF Selecting, Ready, Listening, Heard, Took
  <2>4. ASSUME NEW c, NEW n PROVE WritingLoop(c, n)' <=> WritingLoop(c, n)
    BY <1>u DEF WritingLoop, Writing, Loaded, Ready, Listening, Heard, Took
  <2>5. ASSUME NEW c, NEW n PROVE ComparingLoop(c, n)' <=> ComparingLoop(c, n)
    BY <1>u DEF ComparingLoop, Comparing, Answer, Receiving, Received, Asked, Listening, Heard, Took,
                Ready, Loaded
  <2>6. ASSUME NEW job PROVE Effect(job, blockNum, dataOUT)' <=> Effect(job, blockNum, dataOUT)
    BY <1>u DEF Effect, BlockNumber, KeysSet, Silicon, ProtectionRead, Sum, Loaded
  <2>7. Initializing' <=> Initializing
    BY <1>u DEF Initializing, Trimming, Moving, Waking, Deaf, Stale, Ready, Listening, InVector, Heard,
                Took, Written, Holds, Need, Queued, Effect, Loaded, BlockNumber, KeysSet, Low, Polled
  <2>8. (Ready' <=> Ready) /\ (Loaded(dataOUT, BlockSize)' <=> Loaded(dataOUT, BlockSize))
    BY <1>u DEF Ready, Listening, Loaded
  <2> QED
    BY <1>u, <2>1, <2>2, <2>3, <2>4, <2>5, <2>6, <2>7, <2>8 DEF At
<1>3. Between' <=> Between
  BY <1>u DEF Between, Stale, Queued, Need, Loaded, BlockNumber, KeysSet
<1> QED BY <1>u, <1>1, <1>2, <1>3 DEF WireIInv

\* Whatever data is programmed and whatever the polls see, program and chip are where WireInductive
\* says they are, at every bit of every function, for every size of block and bank.
THEOREM WireInvariant == Spec => []WireIInv
<1>1. WireInit => WireIInv
  BY InitHolds
<1>2. WireIInv /\ [Next]_vars => WireIInv'
  BY WireStep, WireStutter
<1> QED BY <1>1, <1>2, PTL DEF Spec

\* The chip, the pins and the state of the functions keep their types: a frame never has more than
\* its 22 bits, and no counter runs past its call or its function.
THEOREM WireTypeCorrect == Spec => []WireTypeOK
<1>1. WireIInv => WireTypeOK
  BY DEF WireIInv
<1> QED BY <1>1, WireInvariant, PTL

\* Where firmware and chip both drive SDATA at an edge they drive the same level (NoContention): the
\* sdataHiZ() before a read or a poll, and the forty zeros after it, leave the line to the chip in time.
THEOREM WiresNeverFought == Spec => []NoContention
<1>1. WireIInv => NoContention
  <2>1. CASE running
    BY <2>1, AtClear DEF WireIInv, Clear
  <2>2. CASE ~running
    BY <2>2 DEF NoContention, Doing
  <2> QED BY <2>1, <2>2
<1> QED BY <1>1, WireInvariant, PTL

\* Every frame the chip takes is a whole instruction, also after a function that gave up, and a
\* function that succeeded leaves it at the start of a frame (InStep).
THEOREM FramesInStep == Spec => []InStep
<1>1. WireIInv => InStep
  BY DEF WireIInv, InStep, Sound, Between
<1> QED BY <1>1, WireInvariant, PTL

\* When targetInitialize has returned 1 the calibration registers hold the bytes the chip was made
\* with (InitSetsTrims): the chip fetched them itself, through the two moves of init3_3v.
THEOREM TrimsAreSet == Spec => []InitSetsTrims
<1>1. WireIInv => InitSetsTrims
  BY DEF WireIInv, InitSetsTrims, Between
<1> QED BY <1>1, WireInvariant, PTL

\* What each function does to the cells and what it returns, bit by bit, is what Target says it does
\* (ImplementsTarget): a run of the bits is a run of the operations, or a stutter.
THEOREM BitsDoWhatTargetSays == Spec => ImplementsTarget
<1>1. WireIInv /\ [Next]_vars =>
        [IF running /\ ~running' /\ ok' THEN Operation(fn, blockNum, dataOUT, TRUE)
         ELSE \/ UNCHANGED targetVars
              \/ running /\ Operation(fn, blockNum, dataOUT, FALSE)
              \/ ~ok /\ Operation(failed[1], failed[2], failed[3], FALSE)]_vars
  BY WireStep
<1> QED BY <1>1, WireInvariant, PTL DEF ImplementsTarget, Spec
=================================================================================
