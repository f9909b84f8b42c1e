----------------------------- MODULE WireInductive ------------------------------
(***************************************************************************)
(* The inductive invariant of Wire: at each call of each function, how     *)
(* much of which frame the chip has taken, what its RAM and registers      *)
(* hold by then, and what a routine of its ROM has left.  Nothing here is  *)
(* code; it is what has to hold of chip and program together for every     *)
(* function to do what Target says of it.                                  *)
(***************************************************************************)
EXTENDS Wire, VectorFrames

Listening == tMode = "prog" /\ phase = "listening"

Ready == Listening /\ len = 0 /\ bits = 0

\* The chip has taken the first k bits of the L bits of X; a read, all of its address P
\* (opcode and address, eleven bits) and k bits of its frame.
Took(X, L, k) == phase = "listening" /\ len = k /\ bits = Upper(X, L - k)

Heard(X, L, k) == tMode = "prog" /\ Took(X, L, k)

Asked(P, k) == Listening /\ len = k /\ Upper(bits, k - 11) = P

\* The last frame, up to frame j, to write where frame k writes.
IsLast(F, k, j) == \A m \in (k + 1)..j : F[m] \div 2048 # F[k] \div 2048

Holds(f) ==
  /\ Opcode(f) = WriteRam /\ Address(f) \in RamUsed => ram[Address(f)] = Value(f)
  /\ Opcode(f) = WriteReg /\ Address(f) \in RegUsed => reg[Address(f)] = Value(f)

\* Frames n to j were obeyed, and nothing has changed since.
Written(F, n, j) == \A k \in n..j : IsLast(F, k, j) => Holds(F[k])

\* Bit b of a vector is next.
InVector(F, n, b) ==
  /\ Heard(F[(b \div 22) + 1], 22, b % 22)
  /\ Written(F, n, b \div 22)

(***************************************************************************)
(* The routines the vectors queue: what each needs, and what it leaves.    *)
(***************************************************************************)
RoutineOf ==
  [init1 |-> 9, init2 |-> 6, siliconID |-> 6, erase |-> 5, blockProgram |-> 2, blockVerify |-> 1,
   securityFlash |-> 4, securityVerify |-> 16, bankChecksum |-> 7]

Jobs == DOMAIN RoutineOf

JobsOf(f) == IF f = "initialize" THEN {"init1", "init2"} ELSE {f} \cap Jobs

Loaded(d, n) == \A i \in 1..n : ram[DataAddr(i)] = d[i]

Need(job, b, d) ==
  /\ job \in {"blockProgram", "blockVerify"} => BlockNumber = b
  /\ job = "blockProgram" => Loaded(d, BlockSize)
  /\ job = "securityFlash" => Loaded(d, SecuritySize)

Queued(job, b, d) ==
  /\ tMode = "prog" /\ len = 0 /\ bits = 0
  /\ Need(job, b, d)
  /\ KeysSet /\ reg[\hF8] = 0 /\ reg[\hF0] = RoutineOf[job]
  /\ job = "init2" => BlockNumber = 1
  /\ job = "siliconID" => BlockNumber = 0

Effect(job, b, d) ==
  CASE job = "init1" -> TRUE
    [] job = "init2" -> ram[\hF8] = Trims[1] /\ ram[\hF9] = Trims[2]
    [] job = "siliconID" -> ram[\hF8] = Silicon[1] /\ ram[\hF9] = Silicon[2]
    [] job = "erase" -> flash = Blank /\ security = Erased
    [] job = "blockProgram" -> flash[b] = d
    [] job = "blockVerify" -> Loaded(Reads(flash[b]), BlockSize)
    [] job = "securityFlash" -> security = SecurityPart(d)
    [] job = "securityVerify" -> Loaded(ProtectionRead, SecuritySize)
    [] job = "bankChecksum" -> ram[\hF8] = Sum % 256 /\ ram[\hF9] = Sum \div 256

(***************************************************************************)
(* Where the chip is at each call, by the block of calls.                  *)
(***************************************************************************)
Low(w) == tMode = "prog" /\ phase = "low" /\ len = 0 /\ bits = 0 /\ wait = w

\* A vector of m frames that queues a routine, the poll for its end and the forty zeros.
Polled(c, F, m, job) ==
  /\ call = c => bit = 0 /\ Ready /\ Need(job, blockNum, dataOUT)
  /\ call = c + 1 => /\ output /\ bit < 22 * m
                     /\ InVector(F, 1, bit) /\ Need(job, blockNum, dataOUT)
  /\ call = c + 2 => bit = 0 /\ output
  /\ call = c + 3 => bit = 0 /\ ~output
  /\ call \in {c + 2, c + 3} => phase = "armed" /\ Queued(job, blockNum, dataOUT)
  /\ call = c + 4 =>
       /\ ~output /\ bit \in {0, 1}
       /\ \/ /\ phase \in {"working", "high"} /\ Queued(job, blockNum, dataOUT)
             /\ bit = 1 => phase = "high"
          \/ Low(40) /\ Effect(job, blockNum, dataOUT)
  /\ call = c + 5 => bit = 0 /\ ~output /\ Low(40)
  /\ call = c + 6 => bit < 40 /\ output /\ Low(40 - bit)
  /\ call = c + 7 => bit = 0 /\ output /\ Ready
  /\ call = c + 8 => bit = 0 /\ Ready
  /\ call \in (c + 5)..(c + 8) => Effect(job, blockNum, dataOUT)

\* Receiving: with n bytes received before, all of the address P sent.
Receiving(P, n) ==
  /\ ~output /\ bit < 8
  /\ bit = 0 => sclk = 0 /\ Asked(P, 13) /\ Len(received) = n
  /\ bit > 0 => /\ sclk = 1 /\ Asked(P, 12 + bit) /\ Len(received) = n + 1
                /\ received[n + 1] = Upper(ram[P % 256], 8 - bit)

Received(P, n) == Len(received) = n + 1 /\ received[n + 1] = ram[P % 256]

\* One read of ReadTwice, from the end of the eleven bits to the clock after the byte.
Answer(c, P, n) ==
  /\ call = c => bit = 0 /\ output /\ Heard(P, 11, 11) /\ Len(received) = n
  /\ call = c + 1 => bit = 0 /\ ~output /\ Heard(P, 11, 11) /\ Len(received) = n
  /\ call = c + 2 => bit = 0 /\ ~output /\ Asked(P, 12) /\ Len(received) = n
  /\ call = c + 3 => Receiving(P, n)
  /\ call = c + 4 => bit = 0 /\ ~output /\ Asked(P, 20) /\ Received(P, n)
  /\ call = c + 5 => bit = 0 /\ ~output /\ Asked(P, 21) /\ Received(P, n)

ReadingTwice(c, P, Q) ==
  /\ call = c => bit = 0 /\ Ready /\ Len(received) = 0
  /\ call = c + 1 => bit < 11 /\ output /\ Heard(P, 11, bit) /\ Len(received) = 0
  /\ Answer(c + 2, P, 0)
  /\ call = c + 8 =>
       /\ bit < 12 /\ output /\ Received(P, 0)
       /\ IF bit = 0 THEN Asked(P, 21) ELSE Heard(Q, 11, bit - 1)
  /\ call \in (c + 9)..(c + 17) => received[1] = ram[P % 256]
  /\ Answer(c + 9, Q, 1)
  /\ call = c + 15 => bit = 0 /\ output /\ Asked(Q, 21) /\ Received(Q, 1)
  /\ call = c + 16 => bit = 0 /\ output /\ Ready /\ Received(Q, 1)
  /\ call = c + 17 => bit = 0 /\ Ready /\ Received(Q, 1)

\* Opcode and address of what reads byte i of the buffer, writes it, writes the block number.
AskByte(i) == 5 * 256 + DataAddr(i)

PutByte(i) == 4 * 256 + DataAddr(i)

PutBlock == 4 * 256 + \hFA

Selecting(c) ==
  /\ call = c => bit = 0 /\ Ready
  /\ call = c + 1 => bit < 11 /\ output /\ Heard(PutBlock, 11, bit)
  /\ call = c + 2 => bit = 0 /\ output /\ Heard(PutBlock, 11, 11)
  /\ call = c + 3 => bit = 0 /\ Heard(PutBlock, 11, 11)
  /\ call = c + 4 => bit < 8 /\ output /\ Heard(PutBlock * 256 + blockNum, 19, 11 + bit)
  /\ call = c + 5 =>
       bit < 3 /\ output /\ Heard((PutBlock * 256 + blockNum) * 8 + 7, 22, 19 + bit)

\* The calls for byte i, from c on, in loading n bytes; and in comparing them.
Writing(c, i) ==
  /\ Loaded(dataOUT, i - 1) /\ output
  /\ call = c => bit < 5 /\ Heard(PutByte(i), 11, bit)
  /\ call = c + 1 => bit < 6 /\ Heard(PutByte(i), 11, 5 + bit)
  /\ call = c + 2 => bit < 8 /\ Heard(PutByte(i) * 256 + dataOUT[i], 19, 11 + bit)
  /\ call = c + 3 => bit < 3 /\ Heard((PutByte(i) * 256 + dataOUT[i]) * 8 + 7, 22, 19 + bit)

Comparing(c, i) ==
  /\ Loaded(dataOUT, i - 1)
  /\ call = c => bit = 0 /\ Ready
  /\ call = c + 1 => bit < 5 /\ output /\ Heard(AskByte(i), 11, bit)
  /\ call = c + 2 => bit = 0 /\ output /\ Heard(AskByte(i), 11, 5)
  /\ call = c + 3 => bit = 0 /\ Heard(AskByte(i), 11, 5)
  /\ call = c + 4 => bit < 6 /\ output /\ Heard(AskByte(i), 11, 5 + bit)
  /\ call = c + 5 => bit = 0 /\ output /\ Heard(AskByte(i), 11, 11)
  /\ call = c + 6 => bit = 0 /\ output /\ Asked(AskByte(i), 12)
  /\ call = c + 7 => bit = 0 /\ output /\ Asked(AskByte(i), 13) /\ sclk = 0
  /\ call = c + 8 => Receiving(AskByte(i), i - 1)
  /\ call = c + 9 => bit = 0 /\ ~output /\ Asked(AskByte(i), 20)
  /\ call = c + 10 => bit = 0 /\ ~output /\ Asked(AskByte(i), 21)
  /\ call = c + 11 => bit = 0 /\ output /\ Asked(AskByte(i), 21)
  /\ call = c + 12 => bit = 0 /\ output /\ Ready
  /\ call = c + 13 => bit = 0 /\ Ready
  /\ call \in c..(c + 7) => Len(received) = i - 1
  /\ call \in (c + 9)..(c + 13) => Received(AskByte(i), i - 1)

\* The loop of n bytes from call c on.
WritingLoop(c, n) ==
  /\ \A q \in 0..(n - 1) : call \in (c + 4 * q)..(c + 4 * q + 3) => Writing(c + 4 * q, q + 1)
  /\ call = c + 4 * n => bit = 0 /\ Ready /\ Loaded(dataOUT, n)

ComparingLoop(c, n) ==
  /\ \A q \in 0..(n - 1) : call \in (c + 14 * q)..(c + 14 * q + 13) => Comparing(c + 14 * q, q + 1)
  /\ call = c + 14 * n => bit = 0 /\ Ready /\ Loaded(dataOUT, n)

(***************************************************************************)
(* targetInitialize.                                                       *)
(***************************************************************************)
\* A chip that missed the first frame.
Deaf == /\ phase = "deaf" /\ call \in 3..6
        /\ call = 3 => bit < 396 /\ output
        /\ call = 4 => bit = 0 /\ output
        /\ call \in {5, 6} => bit = 0 /\ ~output

Waking ==
  LET j == bit \div 22  i == bit % 22 IN
  /\ output /\ bit < 396
  /\ j = 0 => tMode = "run" /\ Took(Wake, 22, i)
  /\ j \in 1..5 => Ready
  /\ j > 5 => InVector(Init1Frames, 7, bit)

\* The frames of init3_3v: four moves queued, each run by the zeros that follow it, of
\* which the first comes at bit b.
Moving(b) ==
  /\ bit = b => tMode = "prog" /\ phase = "armed" /\ len = 0 /\ bits = 0
  /\ bit \in (b + 1)..(b + 21) =>
       tMode = "prog" /\ phase = "executing" /\ wait = b + 22 - bit /\ len = 0 /\ bits = 0

Trimming ==
  /\ output /\ bit < 836
  /\ ram[\hF8] = Trims[1] /\ ram[\hF9] = Trims[2]
  /\ bit \in 0..175 => InVector(Init3Frames, 1, bit)
  /\ Moving(176)
  /\ bit = 176 => reg[\hF8] = \h51 /\ reg[\hF9] = \hF8
  /\ bit \in 177..396 => reg[\hF0] = Trims[1]
  /\ bit \in 198..395 => InVector(Init3Frames, 10, bit)
  /\ Moving(396)
  /\ bit = 396 => reg[\hF8] = \h60 /\ reg[\hF9] = \hEA
  /\ bit \in 397..835 => reg[\hEA] = Trims[1]
  /\ bit \in 418..593 => InVector(Init3Frames, 20, bit)
  /\ Moving(594)
  /\ bit = 594 => reg[\hF8] = \h51 /\ reg[\hF9] = \hF9
  /\ bit \in 595..814 => reg[\hF0] = Trims[2]
  /\ bit \in 616..813 => InVector(Init3Frames, 29, bit)
  /\ Moving(814)
  /\ bit = 814 => reg[\hF8] = \h60 /\ reg[\hF9] = \hE8
  /\ bit \in 815..835 => reg[\hE8] = Trims[2]

\* What a function that gave up may have left running in the chip.
Stale ==
  phase \in {"working", "high"} =>
    ~ok /\ \E job \in JobsOf(failed[1]) : Queued(job, failed[2], failed[3])

Initializing ==
  /\ call \in {0, 1} => bit = 0 /\ Stale
  /\ call = 1 => ~output
  /\ call = 2 => /\ bit = 0 /\ ~output /\ tMode = "run" /\ phase = "listening"
                 /\ len = 0 /\ bits = 0
  /\ call = 3 => Waking \/ Deaf
  /\ call \in 4..10 => Polled(2, Init1Frames, 18, "init1") \/ Deaf
  /\ call \in 10..18 => Polled(10, Init2Frames, 13, "init2")
  /\ call = 19 => Trimming
  /\ call \in 20..25 =>
       /\ Ready /\ reg[\hEA] = Trims[1] /\ reg[\hE8] = Trims[2]
       /\ IF call = 23 THEN output /\ bit < 40 ELSE bit = 0
  /\ call \in {20, 24} => output
  /\ call \in {21, 22, 25} => ~output

(***************************************************************************)
(* The functions.                                                          *)
(***************************************************************************)
ReadID(n) == 5 * 256 + n

At ==
  CASE fn = "initialize" -> Initializing
    [] fn = "siliconID" ->
         /\ call \in 0..8 => Polled(0, IdSetupFrames, 15, "siliconID") /\ received = <<>>
         /\ call >= 8 => Effect("siliconID", blockNum, dataOUT)
         /\ call \in 8..25 => ReadingTwice(8, ReadID(\hF8), ReadID(\hF9))
         /\ call = 26 => bit = 0 /\ Ready /\ genuine
    [] fn = "erase" -> Polled(0, EraseAllFrames, 14, "erase")
    [] fn = "load" ->
         /\ call = 0 => bit = 0 /\ Ready
         /\ call >= 1 => WritingLoop(1, BlockSize)
    [] fn = "blockProgram" ->
         /\ call \in 0..5 => Loaded(dataOUT, BlockSize)
         /\ call \in 0..5 => Selecting(0)
         /\ call >= 6 => Polled(6, ProgramBlockFrames, 14, "blockProgram")
    [] fn = "blockVerify" ->
         /\ call \in 0..5 => Selecting(0) /\ received = <<>>
         /\ call \in 6..14 => Polled(6, VerifySetupFrames, 12, "blockVerify") /\ received = <<>>
         /\ call >= 14 => /\ Effect("blockVerify", blockNum, dataOUT)
                          /\ ComparingLoop(14, BlockSize)
    [] fn = "securityFlash" ->
         /\ call = 0 => bit = 0 /\ Ready
         /\ call \in 1..(1 + 4 * SecuritySize) => WritingLoop(1, SecuritySize)
         /\ call >= 1 + 4 * SecuritySize =>
              Polled(1 + 4 * SecuritySize, SecurityFFrames, 14, "securityFlash")
    [] fn = "securityVerify" ->
         /\ call \in 0..8 => Polled(0, SecurityVerificationFrames, 14, "securityVerify") /\ received = <<>>
         /\ call >= 8 => /\ Effect("securityVerify", blockNum, dataOUT)
                         /\ ComparingLoop(8, SecuritySize)
    [] fn = "bankChecksum" ->
         /\ call \in 0..8 => Polled(0, ChecksumFrames, 13, "bankChecksum") /\ received = <<>>
         /\ call >= 8 => /\ Effect("bankChecksum", blockNum, dataOUT)
                         /\ ReadingTwice(8, ReadID(\hF9), ReadID(\hF8))
    [] fn = "reStart" -> /\ bit = 0 /\ phase = "listening" /\ len = 0 /\ bits = 0
                         /\ call = 1 => tMode = "run"

Between ==
  /\ ok => /\ phase = "listening" /\ len = 0 /\ bits = 0
           /\ fn # "reStart" => tMode = "prog"
           /\ fn = "load" => Loaded(dataOUT, BlockSize)
           /\ fn = "initialize" => reg[\hEA] = Trims[1] /\ reg[\hE8] = Trims[2]
  /\ ~ok => Stale

\* No cell ever took a wrong value, and the chip counts down from something.
Solid ==
  /\ flash \in [BlockIdx -> Block \cup {Erased}] /\ security \in Security \cup {Erased}
  /\ phase \in {"low", "executing"} => wait > 0

Sound == ~malformed /\ Solid

WireIInv ==
  /\ WireTypeOK /\ Sound
  /\ running => At /\ (ok \/ fn = "initialize")
  /\ ~running => Between
=================================================================================
