------------------------------ MODULE WireChip ------------------------------
(***************************************************************************)
(* The chip at the end of the two wires, as the vectors of issp.c expect   *)
(* it to behave: it takes one bit at each falling edge of SCLK, gathers 22 *)
(* of them to a frame, and runs the instruction in its test queue when     *)
(* told to.  None of it is in the repository: it is what the tables and    *)
(* the comments of issp.c rely on.                                         *)
(***************************************************************************)
EXTENDS Target, Vectors

CONSTANTS
  Trims,           \* the two calibration bytes the chip was made with
  ForeignID        \* the silicon ID of a chip that is not genuine

ASSUME ChipAssumption ==
  /\ Trims \in Byte \X Byte
  /\ ForeignID \in (Byte \X Byte) \ {target_id_v}
  /\ BlockSize <= 64

VARIABLES
  phase,           \* what the chip does between two edges
  wait,            \* clocks it still needs before it listens again
  len, bits,       \* the frame so far: how many bits, and their number
  ram,             \* the bytes of its RAM that are used
  reg,             \* the registers that are used
  malformed        \* it was sent a frame that is none

chipVars == <<targetVars, phase, wait, len, bits, ram, reg, malformed>>

Phases == {"deaf", "listening", "armed", "working", "high", "low", "executing"}

DataAddr(i) == 127 + i                    \* of byte i of a block
RamUsed == {DataAddr(i) : i \in 1..BlockSize} \cup {\hF8, \hF9, \hFA}
RegUsed == {\hF0, \hF8, \hF9, \hEA, \hE8}

ChipTypeOK ==
  /\ TargetTypeOK
  /\ phase \in Phases
  /\ wait \in 0..40
  /\ len \in 0..21 /\ bits \in 0..(2^len - 1)
  /\ ram \in [RamUsed -> Byte] /\ reg \in [RegUsed -> Byte]
  /\ malformed \in BOOLEAN

\* After a reset, and before the first one.
AsReset ==
  /\ phase = "listening" /\ wait = 0 /\ len = 0 /\ bits = 0
  /\ ram = [a \in RamUsed |-> 0] /\ reg = [a \in RegUsed |-> 0]
  /\ tMode = "run"

Silicon == IF genuine THEN target_id_v ELSE ForeignID

(***************************************************************************)
(* The ROM routines, by the number in the accumulator, and the two moves   *)
(* that init3_3v queues.  A routine runs with the keys in RAM, and reports *)
(* its end by a pulse on SDATA.                                            *)
(***************************************************************************)
BlockNumber == ram[\hFA]
Buffer == [i \in 1..BlockSize |-> ram[DataAddr(i)]]
WithBuffer(data) ==
  [a \in RamUsed |-> IF \E i \in DOMAIN data : a = DataAddr(i)
                     THEN data[a - 127] ELSE ram[a]]
WithWords(lo, hi) == [ram EXCEPT ![\hF8] = lo, ![\hF9] = hi]
KeysSet == ram[\hF8] = \h3A /\ ram[\hF9] = 3
ProtectionRead == IF security = Erased THEN SecurityPart(ZeroBlock) ELSE security
Sum == BankSum([b \in BlockIdx |-> Reads(flash[b])])

\* What routine n leaves in the RAM.
Fetched(n) ==
  CASE n = 1 /\ BlockNumber \in BlockIdx -> WithBuffer(Reads(flash[BlockNumber]))
    [] n = 6 /\ BlockNumber = 1 -> WithWords(Trims[1], Trims[2])
    [] n = 6 /\ BlockNumber = 0 -> WithWords(Silicon[1], Silicon[2])
    [] n = 7  -> WithWords(Sum % 256, Sum \div 256)
    [] n = 16 -> WithBuffer(ProtectionRead)
    [] OTHER -> ram

\* And what it does to the cells.
Routine(n) ==
  /\ ram' = Fetched(n)
  /\ flash' = CASE n = 5 -> Blank
                [] n = 2 /\ BlockNumber \in BlockIdx -> [flash EXCEPT ![BlockNumber] = Buffer]
                [] OTHER -> flash
  /\ security' = CASE n = 5 -> Erased
                   [] n = 4 -> SecurityPart(Buffer)
                   [] OTHER -> security

\* "mov A, [x]" and "mov reg[x], A".
Move ==
  reg' = CASE reg[\hF8] = \h51 /\ reg[\hF9] \in RamUsed -> [reg EXCEPT ![\hF0] = ram[reg[\hF9]]]
           [] reg[\hF8] = \h60 /\ reg[\hF9] \in RegUsed -> [reg EXCEPT ![reg[\hF9]] = reg[\hF0]]
           [] OTHER -> reg

(***************************************************************************)
(* Frames: three bits of opcode, eight of address, eight of data, three    *)
(* ones.  A zero between two frames is none's first bit.                   *)
(***************************************************************************)
Wake == \h650 * 2^11                      \* the first frame of init1_v
Opcode(f) == f \div 2^19
Address(f) == (f \div 2^11) % 256
Value(f) == (f \div 8) % 256
WriteRam == 4
ReadRam  == 5
WriteReg == 6

Reading == len \in 13..20 /\ bits \div 2^(len - 3) = ReadRam
ReadAddress == (bits \div 2^(len - 11)) % 256

\* What the chip puts on SDATA.
Nothing == 2

Drives ==
  CASE phase = "high" -> 1
    [] phase = "low" -> 0
    [] phase = "listening" /\ Reading ->
         (IF ReadAddress \in RamUsed THEN ram[ReadAddress] \div 2^(20 - len) ELSE 0) % 2
    [] OTHER -> Nothing

\* A frame that reads is taken whatever its last three bits: read_id_v ends it with a zero,
\* read_checksum_v with a one, which here makes no difference.
Obey(f) ==
  /\ malformed' = (malformed \/ Opcode(f) \notin {WriteRam, ReadRam, WriteReg}
                     \/ (Opcode(f) # ReadRam /\ f % 8 # 7))
  /\ ram' = IF Opcode(f) = WriteRam /\ Address(f) \in RamUsed
            THEN [ram EXCEPT ![Address(f)] = Value(f)] ELSE ram
  /\ reg' = IF Opcode(f) = WriteReg /\ Address(f) \in RegUsed
            THEN [reg EXCEPT ![Address(f)] = Value(f)] ELSE reg
  /\ phase' = IF Opcode(f) = WriteReg /\ Address(f) = \hFF THEN "armed" ELSE phase

\* A frame is complete.  A chip that left its reset too late misses the first one.
Frame(f) ==
  \/ /\ tMode = "prog"
     /\ Obey(f)
     /\ UNCHANGED tMode
  \/ /\ tMode = "run"
     /\ \/ f = Wake /\ tMode' = "prog" /\ UNCHANGED phase
        \/ phase' = "deaf" /\ UNCHANGED tMode
     /\ UNCHANGED <<ram, reg, malformed>>

Listen(level) ==
  /\ IF len = 21
     THEN len' = 0 /\ bits' = 0 /\ Frame(2 * bits + level)
     ELSE /\ IF len = 0 /\ level = 0 THEN UNCHANGED <<len, bits>>
             ELSE len' = len + 1 /\ bits' = 2 * bits + level
          /\ UNCHANGED <<phase, tMode, ram, reg, malformed>>
  /\ UNCHANGED <<genuine, flash, security, wait>>

\* The queued instruction starts: a routine, or a move and the clocks it takes.
Execution ==
  /\ IF reg[\hF8] = 0
     THEN phase' = "working" /\ UNCHANGED <<reg, wait>>
     ELSE Move /\ phase' = "executing" /\ wait' = 21
  /\ UNCHANGED <<targetVars, len, bits, ram, malformed>>

CountDown ==
  /\ wait' = wait - 1
  /\ phase' = IF wait = 1 THEN "listening" ELSE phase
  /\ UNCHANGED <<targetVars, len, bits, ram, reg, malformed>>

\* A falling edge of SCLK, with SDATA at a level.
ChipClock(level) ==
  CASE phase = "listening" -> Listen(level)
    [] phase = "armed" -> Execution
    [] phase \in {"low", "executing"} -> CountDown
    [] OTHER -> UNCHANGED chipVars

\* SDATA goes high while a routine runs and low at its end, to be released within
\* forty clocks; the routine's time is its own.
RaiseSDATA ==
  /\ phase = "working"
  /\ phase' = "high"
  /\ UNCHANGED <<targetVars, wait, len, bits, ram, reg, malformed>>

FinishRoutine ==
  /\ phase = "high"
  /\ IF KeysSet THEN Routine(reg[\hF0]) ELSE UNCHANGED <<ram, flash, security>>
  /\ phase' = "low" /\ wait' = 40
  /\ UNCHANGED <<tMode, genuine, len, bits, reg, malformed>>

ChipReset ==
  /\ phase' = "listening" /\ wait' = 0 /\ len' = 0 /\ bits' = 0
  /\ ram' = [a \in RamUsed |-> 0] /\ reg' = [a \in RegUsed |-> 0]
  /\ tMode' = "run"
  /\ UNCHANGED <<genuine, flash, security, malformed>>
=============================================================================
