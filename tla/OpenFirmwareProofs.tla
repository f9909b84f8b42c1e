-------------------------- MODULE OpenFirmwareProofs -------------------------
(***************************************************************************)
(* Proofs about the firmware alone, for any number and size of blocks, any *)
(* queue and any items a host may send: what a success reply of the two    *)
(* block commands means, what the checksum holds, and what the answer to   *)
(* "g" says (OpenFirmware); and how long one poll of the target may last,  *)
(* for any timeout and timer (HiLoDetect).                                 *)
(***************************************************************************)
EXTENDS OpenFirmware, HiLoDetect, FirmwareProofs

OpenTypeOK == LineTypeOK /\ FirmwareTypeOK

-----------------------------------------------------------------------------
(***************************************************************************)
(* Sums of banks that are filled from the left.                            *)
(***************************************************************************)
\* The sums of the first blocks of a bank have sixteen bits.
LEMMA BankSumsInWord ==
  ASSUME NEW bank \in Image
  PROVE  BankSums(bank) \in [0..NumBlocks -> Word]
<1> DEFINE values == [i \in 1..NumBlocks |-> BlockSum(bank[i - 1])]
<1>1. NumBlocks \in Nat
  BY ProtocolAssumption DEF ProtocolAssumption
<1>2. ASSUME NEW i \in 1..NumBlocks PROVE values[i] \in Int
  <2>1. i - 1 \in BlockIdx
    BY <1>1 DEF BlockIdx
  <2>2. BlockSum(bank[i - 1]) \in Word
    BY <2>1, BlockSumInWord DEF Image
  <2>3. \A w \in Word : w \in Int
    BY DEF Word
  <2> QED
    BY <2>2, <2>3
<1>3. IsRunningSum(RunningSum(values, NumBlocks), values, NumBlocks)
  <2> HIDE DEF values
  <2> QED
    BY <1>1, <1>2, RunningSumIs
<1>4. BankSums(bank) = RunningSum(values, NumBlocks)
  BY DEF BankSums
<1> HIDE DEF values
<1> QED
  BY <1>3, <1>4 DEF IsRunningSum

\* targetLoad adds nothing for a block of zeros.
LEMMA ZeroBlockSum == BlockSum(ZeroBlock) = 0
<1> DEFINE sum == RunningSum(ZeroBlock, BlockSize)
<1>1. BlockSize \in Nat /\ \A i \in 1..BlockSize : ZeroBlock[i] = 0
  BY ProtocolAssumption DEF ProtocolAssumption, ZeroBlock
<1>2. IsRunningSum(sum, ZeroBlock, BlockSize)
  <2>1. \A i \in 1..BlockSize : ZeroBlock[i] \in Int
    BY <1>1
  <2> QED
    BY <1>1, <2>1, RunningSumIs
<1>3. SUFFICES ASSUME sum[BlockSize] # 0 PROVE FALSE
  BY DEF BlockSum
<1> HIDE DEF sum
<1> DEFINE T == {k \in 0..BlockSize : sum[k] # 0}
<1>4. PICK m \in T : \A k \in T : m <= k
  <2>1. T \subseteq Nat /\ BlockSize \in T
    BY <1>1, <1>3
  <2> QED
    BY <2>1, LeastNatural
<1>5. m # 0
  BY <1>1, <1>2 DEF IsRunningSum
<1>6. m - 1 \in 0..BlockSize /\ m \in 1..BlockSize
  BY <1>1, <1>5
<1>7. sum[m - 1] = 0
  BY <1>4, <1>6
<1>8. sum[m] = (sum[m - 1] + ZeroBlock[m]) % 65536
  BY <1>2, <1>5, <1>6 DEF IsRunningSum
<1> QED
  BY <1>1, <1>6, <1>7, <1>8

\* Zero adds nothing in sixteen bits.
LEMMA ZeroAddsNothing == \A w \in Word : (w + 0) % 65536 = w
<1>1. \A w \in Word : w \in Int /\ w >= 0 /\ w < 65536 /\ w + 0 = w
  BY DEF Word
<1>2. \A w \in Int : w >= 0 /\ w < 65536 => w % 65536 = w
  BY SMTT(60)
<1> QED
  BY <1>1, <1>2

\* Blocks of zeros at the end of a bank do not count.
LEMMA TrailingZeros ==
  ASSUME NEW bank \in Image, NEW n \in 0..NumBlocks,
         \A b \in BlockIdx : b >= n => bank[b] = ZeroBlock
  PROVE  BankSum(bank) = BankSums(bank)[n]
<1> DEFINE sum == BankSums(bank)
<1>1. NumBlocks \in Nat /\ BlockIdx = 0..(NumBlocks - 1)
  BY ProtocolAssumption DEF ProtocolAssumption, BlockIdx
<1>2. SUFFICES ASSUME sum[NumBlocks] # sum[n] PROVE FALSE
  BY SumsGrow
<1>3. sum \in [0..NumBlocks -> Word]
  BY BankSumsInWord
<1>4. \A b \in BlockIdx : sum[b + 1] = (sum[b] + BlockSum(bank[b])) % 65536
  BY SumsGrow
<1> HIDE DEF sum
<1> DEFINE T == {k \in n..NumBlocks : sum[k] # sum[n]}
<1>5. PICK m \in T : \A k \in T : m <= k
  <2>1. T \subseteq Nat /\ NumBlocks \in T
    BY <1>1, <1>2
  <2> QED
    BY <2>1, LeastNatural
<1>6. m # n /\ m - 1 \in n..NumBlocks /\ m - 1 \in BlockIdx /\ m - 1 >= n /\ (m - 1) + 1 = m
  BY <1>1
<1>7. sum[m - 1] = sum[n]
  BY <1>5, <1>6
<1>8. sum[m] = (sum[m - 1] + 0) % 65536
  <2>1. BlockSum(bank[m - 1]) = 0
    BY <1>6, ZeroBlockSum
  <2> QED
    BY <1>4, <1>6, <2>1
<1>9. sum[n] \in Word
  BY <1>3
<1>10. (sum[n] + 0) % 65536 = sum[n]
  BY <1>9, ZeroAddsNothing
<1> QED
  BY <1>7, <1>8, <1>10

\* Banks that agree on their first n blocks have the same sums so far.
LEMMA SamePrefix ==
  ASSUME NEW bank \in Image, NEW other \in Image, NEW n \in 0..NumBlocks,
         \A b \in BlockIdx : b < n => bank[b] = other[b]
  PROVE  BankSums(bank)[n] = BankSums(other)[n]
<1> DEFINE sum == BankSums(bank)
<1> DEFINE sum2 == BankSums(other)
<1>1. NumBlocks \in Nat /\ BlockIdx = 0..(NumBlocks - 1)
  BY ProtocolAssumption DEF ProtocolAssumption, BlockIdx
<1>2. SUFFICES ASSUME sum[n] # sum2[n] PROVE FALSE
  OBVIOUS
<1>3. /\ sum[0] = 0 /\ sum2[0] = 0
      /\ \A b \in BlockIdx : sum[b + 1] = (sum[b] + BlockSum(bank[b])) % 65536
      /\ \A b \in BlockIdx : sum2[b + 1] = (sum2[b] + BlockSum(other[b])) % 65536
  BY SumsGrow
<1> HIDE DEF sum, sum2
<1> DEFINE T == {k \in 0..n : sum[k] # sum2[k]}
<1>5. PICK m \in T : \A k \in T : m <= k
  <2>1. T \subseteq Nat /\ n \in T
    BY <1>1, <1>2
  <2> QED
    BY <2>1, LeastNatural
<1>6. m # 0
  BY <1>3
<1>7. m - 1 \in 0..n /\ m - 1 \in BlockIdx /\ m - 1 < n /\ (m - 1) + 1 = m
  BY <1>1, <1>6
<1>8. sum[m - 1] = sum2[m - 1]
  BY <1>5, <1>7
<1>9. bank[m - 1] = other[m - 1]
  BY <1>7
<1> QED
  BY <1>3, <1>7, <1>8, <1>9

\* A block written behind the others adds its sum.
LEMMA NextBlockSum ==
  ASSUME NEW bank \in Image, NEW other \in Image, NEW n \in BlockIdx,
         \A b \in BlockIdx : b >= n => bank[b] = ZeroBlock,
         \A b \in BlockIdx : b # n => other[b] = bank[b]
  PROVE  BankSum(other) = (BankSum(bank) + BlockSum(other[n])) % 65536
<1>1. n \in 0..NumBlocks /\ n + 1 \in 0..NumBlocks
  BY ProtocolAssumption DEF ProtocolAssumption, BlockIdx
<1>2. BankSum(bank) = BankSums(bank)[n]
  BY <1>1, TrailingZeros
<1>3. BankSum(other) = BankSums(other)[n + 1]
  <2>1. \A b \in BlockIdx : b >= n + 1 => other[b] = ZeroBlock
    BY ProtocolAssumption DEF ProtocolAssumption, BlockIdx
  <2> QED
    BY <1>1, <2>1, TrailingZeros
<1>4. BankSums(bank)[n] = BankSums(other)[n]
  <2>1. \A b \in BlockIdx : b < n => bank[b] = other[b]
    BY ProtocolAssumption DEF ProtocolAssumption, BlockIdx
  <2> QED
    BY <1>1, <2>1, SamePrefix
<1>5. BankSums(other)[n + 1] = (BankSums(other)[n] + BlockSum(other[n])) % 65536
  BY SumsGrow
<1> QED
  BY <1>2, <1>3, <1>4, <1>5

-----------------------------------------------------------------------------
(***************************************************************************)
(* The loop of a block command.  Between two of its blocks the firmware    *)
(* has the host's earlier blocks in the chip (c) or has found them there   *)
(* (d), one for each number it counted; nothing else touches the chip or   *)
(* the counter until the loop ends.                                        *)
(***************************************************************************)
InLoop == cmdID \in BlockCmds /\ pc \in {"readData", "work"}

Written == \A b \in BlockIdx : b < blockNum => flash[b] \in {good[b + 1], Damaged}
Matched == \A b \in BlockIdx : b < blockNum => Reads(flash[b]) = good[b + 1]

LoopInv ==
  InLoop =>
    /\ good \in Seq(Block) /\ Len(good) = blockNum
    /\ cmdID = CmdC => Written
    /\ cmdID = CmdD => Matched

\* The sum is that of the blocks the last "c" took, which inside its loop are as many as
\* it counted; so there are never more than the bank has.
SumInv ==
  /\ taken \in Seq(Block) /\ Len(taken) <= NumBlocks
  /\ InLoop /\ cmdID = CmdC => begun /\ Len(taken) = blockNum
  /\ begun \in BOOLEAN /\ SumFollowsBlocks

OpenInv == OpenTypeOK /\ LoopInv /\ SumInv

\* Noting one more block puts it behind the others.
LEMMA NotedGrows ==
  ASSUME good \in Seq(Block), Len(good) \in BlockIdx, NEW data \in Block,
         good' = Append(good, data)
  PROVE  /\ good' \in Seq(Block) /\ Len(good') = Len(good) + 1
         /\ good'[Len(good) + 1] = data
         /\ \A b \in BlockIdx : b < Len(good) => good'[b + 1] = good[b + 1]
<1>1. /\ Append(good, data) \in Seq(Block) /\ Len(Append(good, data)) = Len(good) + 1
      /\ Append(good, data)[Len(good) + 1] = data
      /\ \A i \in 1..Len(good) : Append(good, data)[i] = good[i]
  BY AppendProperties
<1>2. \A b \in BlockIdx : b < Len(good) => b + 1 \in 1..Len(good)
  BY DEF BlockIdx
<1> QED
  BY <1>1, <1>2

\* So does taking one more.
LEMMA TakenGrows ==
  ASSUME taken \in Seq(Block), Len(taken) \in BlockIdx, NEW data \in Block,
         taken' = Append(taken, data)
  PROVE  /\ taken' \in Seq(Block) /\ Len(taken') = Len(taken) + 1
         /\ taken'[Len(taken) + 1] = data
         /\ \A b \in BlockIdx : b < Len(taken) => taken'[b + 1] = taken[b + 1]
<1>1. /\ Append(taken, data) \in Seq(Block) /\ Len(Append(taken, data)) = Len(taken) + 1
      /\ Append(taken, data)[Len(taken) + 1] = data
      /\ \A i \in 1..Len(taken) : Append(taken, data)[i] = taken[i]
  BY AppendProperties
<1>2. \A b \in BlockIdx : b < Len(taken) => b + 1 \in 1..Len(taken)
  BY DEF BlockIdx
<1> QED
  BY <1>1, <1>2

\* The blocks taken are the beginning of a bank.
LEMMA TakenIsBank == taken \in Seq(Block) => Taken \in Image
<1> SUFFICES ASSUME taken \in Seq(Block) PROVE Taken \in Image
  OBVIOUS
<1>1. ASSUME NEW b \in BlockIdx
      PROVE  (IF b < Len(taken) THEN taken[b + 1] ELSE ZeroBlock) \in Block
  <2>1. CASE b < Len(taken)
    <3>1. b + 1 \in 1..Len(taken)
      BY <2>1 DEF BlockIdx
    <3> QED
      BY <2>1, <3>1
  <2>2. CASE ~(b < Len(taken))
    BY <2>2, DataShapes
  <2> QED
    BY <2>1, <2>2
<1> QED
  BY <1>1 DEF Taken, Image

\* Nothing taken, nothing summed.
LEMMA NothingTaken == taken = <<>> => BankSum(Taken) = 0
<1> SUFFICES ASSUME taken = <<>> PROVE BankSum(Taken) = 0
  OBVIOUS
<1>1. taken \in Seq(Block) /\ Len(taken) = 0
  OBVIOUS
<1>2. Taken \in Image
  BY <1>1, TakenIsBank
<1>3. 0 \in 0..NumBlocks /\ \A b \in BlockIdx : Taken[b] = ZeroBlock
  BY <1>1, ProtocolAssumption DEF Taken, ProtocolAssumption, BlockIdx
<1>4. BankSum(Taken) = BankSums(Taken)[0]
  <2> DEFINE bank == Taken
  <2>1. bank \in Image /\ \A b \in BlockIdx : b >= 0 => bank[b] = ZeroBlock
    BY <1>2, <1>3
  <2> HIDE DEF bank
  <2>2. BankSum(bank) = BankSums(bank)[0]
    BY <1>3, <2>1, TrailingZeros
  <2> QED
    BY <2>2 DEF bank
<1> QED
  BY <1>2, <1>4, SumsGrow

\* The sum of the blocks taken grows by that of the new one.
LEMMA TakenSum ==
  ASSUME taken \in Seq(Block), Len(taken) \in BlockIdx, NEW data \in Block,
         taken' = Append(taken, data)
  PROVE  BankSum(Taken') = (BankSum(Taken) + BlockSum(data)) % 65536
<1> DEFINE n == Len(taken)
<1>1. /\ taken' \in Seq(Block) /\ Len(taken') = n + 1 /\ taken'[n + 1] = data
      /\ \A b \in BlockIdx : b < n => taken'[b + 1] = taken[b + 1]
  BY TakenGrows
<1>2. Taken \in Image /\ Taken' \in Image
  <2>1. Taken \in Image
    BY TakenIsBank
  <2>2. (taken \in Seq(Block) => Taken \in Image)'
    BY TakenIsBank, PTL
  <2> QED
    BY <1>1, <2>1, <2>2
<1>3. \A b \in BlockIdx : b >= n => Taken[b] = ZeroBlock
  BY DEF Taken, BlockIdx
<1>4. Taken'[n] = data
  BY <1>1 DEF Taken, BlockIdx
<1>5. \A b \in BlockIdx : b # n => Taken'[b] = Taken[b]
  <2>1. ASSUME NEW b \in BlockIdx, b # n PROVE Taken'[b] = Taken[b]
    <3>1. b < n + 1 <=> b < n
      BY <2>1 DEF BlockIdx
    <3>2. /\ Taken[b] = IF b < n THEN taken[b + 1] ELSE ZeroBlock
          /\ Taken'[b] = IF b < Len(taken') THEN taken'[b + 1] ELSE ZeroBlock
      BY <2>1 DEF Taken
    <3> QED
      BY <1>1, <2>1, <3>1, <3>2
  <2> QED
    BY <2>1
<1>6. BankSum(Taken') = (BankSum(Taken) + BlockSum(data)) % 65536
  <2>1. PICK bank, other : bank = Taken /\ other = Taken'
    OBVIOUS
  <2>2. BankSum(other) = (BankSum(bank) + BlockSum(other[n])) % 65536
    BY <1>2, <1>3, <1>5, <2>1, NextBlockSum
  <2> QED
    BY <1>4, <2>1, <2>2
<1> QED
  BY <1>6

-----------------------------------------------------------------------------
(***************************************************************************)
(* The types, and the steps that do not concern a block.                   *)
(***************************************************************************)
\* Whatever the host sends, the firmware stays well formed.
LEMMA OpenNextType == OpenTypeOK /\ [OpenNext]_openVars => OpenTypeOK'
<1> SUFFICES ASSUME OpenTypeOK, [OpenNext]_openVars PROVE OpenTypeOK'
  OBVIOUS
<1>1. CASE HostSends
  <2>1. PICK item \in HostItems : wire' = item
    BY <1>1 DEF HostSends
  <2>2. wire' \in Seq(Byte) /\ toHost' = <<>>
    BY <1>1, <2>1, OpenAssumption DEF HostSends, OpenAssumption
  <2>3. FirmwareTypeOK'
    BY <1>1, FirmwareStutter DEF HostSends, OpenTypeOK
  <2> QED
    BY <2>2, <2>3 DEF OpenTypeOK, LineTypeOK
<1>2. CASE OpenReceive \/ OpenThread
  BY <1>2, FirmwareStepType DEF OpenReceive, OpenThread, FirmwareNext, OpenTypeOK
<1>3. CASE UNCHANGED openVars
  <2>1. FirmwareTypeOK'
    BY <1>3, FirmwareStutter DEF openVars, firmwareVars, lineVars, OpenTypeOK
  <2> QED
    BY <1>3, <2>1 DEF openVars, firmwareVars, lineVars, OpenTypeOK, LineTypeOK
<1> QED
  BY <1>1, <1>2, <1>3 DEF OpenNext

\* The firmware starts well formed and outside the loop.
LEMMA OpenInitInv == OpenInit => OpenInv
<1> SUFFICES ASSUME OpenInit PROVE OpenInv
  OBVIOUS
<1>1. LineTypeOK
  BY DEF OpenInit, LineInit, LineTypeOK
<1>2. FirmwareTypeOK
  <2>1. TargetTypeOK
    BY FreshTargetType DEF OpenInit, FirmwareInit
  <2>2. cmdID \in Byte /\ checksum \in Word
    BY FirmwareAssumption DEF OpenInit, FirmwareInit, FirmwareAssumption, Byte
  <2>3. iqueue = <<>> /\ dataOUT = <<>> /\ blockNum = 0 /\ pc = "readID"
    BY DEF OpenInit, FirmwareInit
  <2> QED
    BY <2>1, <2>2, <2>3, ProtocolAssumption DEF FirmwareTypeOK, ProtocolAssumption
<1>3. LoopInv
  BY DEF OpenInit, FirmwareInit, LoopInv, InLoop
<1>4. SumInv
  <2>1. NumBlocks \in Nat /\ taken \in Seq(Block) /\ Len(taken) = 0
    BY ProtocolAssumption DEF ProtocolAssumption, OpenInit
  <2>2. begun = FALSE /\ begun \in BOOLEAN /\ checksum \in StackGarbage /\ ~InLoop
    BY DEF OpenInit, FirmwareInit, InLoop
  <2> QED
    BY <2>1, <2>2 DEF SumInv, SumFollowsBlocks
<1> QED
  BY <1>1, <1>2, <1>3, <1>4 DEF OpenInv, OpenTypeOK

\* Nothing of the loop changes: the interrupt, the host, and the bytes of a block.
LEMMA LoopKeeps ==
  ASSUME LoopInv, InLoop' => InLoop, UNCHANGED <<cmdID, blockNum, good, targetVars>>
  PROVE  LoopInv'
BY DEF LoopInv, Written, Matched, Reads, targetVars

\* Nothing of the sum changes, and no block of a "c" is under way that was not before.
LEMMA SumKeeps ==
  ASSUME SumInv, UNCHANGED <<checksum, begun, taken>>,
         InLoop' /\ cmdID' = CmdC => InLoop /\ cmdID = CmdC /\ blockNum' = blockNum
  PROVE  SumInv'
<1>1. Taken' = Taken
  BY DEF Taken
<1> QED
  BY <1>1 DEF SumInv, SumFollowsBlocks

\* What a terminator does, byte by byte.
LEMMA TerminatorCases ==
  ASSUME ReadTerminator
  PROVE  /\ pc = "readTrm" /\ cmdID' = cmdID
         /\ \E b \in Byte :
              /\ pc' = IF b # NL \/ cmdID \notin Commands THEN "readID"
                       ELSE IF cmdID \in PlainCmds THEN "work" ELSE "readData"
              /\ blockNum' = IF b = NL /\ cmdID \in BlockCmds THEN 0 ELSE blockNum
              /\ checksum' = IF b = NL /\ cmdID = CmdC THEN 0 ELSE checksum
BY DEF ReadTerminator

\* The terminator of a block command starts its loop afresh.
LEMMA LoopStarts ==
  ASSUME ReadTerminator, Note
  PROVE  LoopInv'
<1> SUFFICES ASSUME InLoop' PROVE good' = <<>> /\ blockNum' = 0
  <2>1. \A b \in BlockIdx : ~(b < 0)
    BY ProtocolAssumption DEF ProtocolAssumption, BlockIdx
  <2> QED
    BY <2>1 DEF LoopInv, Written, Matched
<1>1. pc = "readTrm" /\ cmdID' = cmdID
  BY TerminatorCases
<1>2. PICK b \in Byte :
        /\ pc' = IF b # NL \/ cmdID \notin Commands THEN "readID"
                 ELSE IF cmdID \in PlainCmds THEN "work" ELSE "readData"
        /\ blockNum' = IF b = NL /\ cmdID \in BlockCmds THEN 0 ELSE blockNum
  BY TerminatorCases
<1>3. cmdID \in BlockCmds /\ cmdID \notin PlainCmds /\ b = NL /\ pc' = "readData"
  BY <1>1, <1>2, CommandsAreBytes DEF InLoop
<1> QED
  BY <1>1, <1>2, <1>3 DEF Note, Starts

\* The terminator of a "c" clears the sum, that of another command leaves it.
LEMMA SumStarts ==
  ASSUME SumInv, ReadTerminator, Take
  PROVE  SumInv'
<1>1. pc = "readTrm" /\ cmdID' = cmdID
  BY TerminatorCases
<1>2. PICK b \in Byte :
        /\ pc' = IF b # NL \/ cmdID \notin Commands THEN "readID"
                 ELSE IF cmdID \in PlainCmds THEN "work" ELSE "readData"
        /\ blockNum' = IF b = NL /\ cmdID \in BlockCmds THEN 0 ELSE blockNum
        /\ checksum' = IF b = NL /\ cmdID = CmdC THEN 0 ELSE checksum
  BY TerminatorCases
<1>3. ~Works({CmdC}) /\ ~Works({CmdZ})
  BY <1>1 DEF Works
<1>4. CmdC \in BlockCmds /\ CmdC \in Commands /\ CmdC \notin PlainCmds
  BY CommandsAreBytes DEF BlockCmds, Commands
<1>5. CASE cmdID = CmdC /\ pc' = "readData"
  <2>1. begun' /\ taken' = <<>>
    BY <1>1, <1>5 DEF Take, Starts
  <2>2. b = NL /\ checksum' = 0 /\ blockNum' = 0
    BY <1>2, <1>4, <1>5
  <2>3. BankSum(Taken') = 0
    <3>1. (taken = <<>> => BankSum(Taken) = 0)'
      BY NothingTaken, PTL
    <3> QED
      BY <2>1, <3>1
  <2>4. taken' \in Seq(Block) /\ Len(taken') = 0 /\ 0 <= NumBlocks
    BY <2>1, ProtocolAssumption DEF ProtocolAssumption
  <2> QED
    BY <2>1, <2>2, <2>3, <2>4 DEF SumInv, SumFollowsBlocks
<1>6. CASE ~(cmdID = CmdC /\ pc' = "readData")
  <2>1. UNCHANGED <<begun, taken>>
    BY <1>3, <1>6 DEF SumInv, Take, Starts
  <2>2. checksum' = checksum
    BY <1>2, <1>4, <1>6
  <2>3. ~(InLoop' /\ cmdID' = CmdC)
    BY <1>1, <1>2, <1>4, <1>6 DEF InLoop
  <2> QED
    BY <2>1, <2>2, <2>3, SumKeeps
<1> QED
  BY <1>5, <1>6

\* "c" adds every block it takes, the one it breaks off at as well.
LEMMA SumAdds ==
  ASSUME OpenTypeOK, SumInv, ProgramBlock, Take, InLoop' => blockNum' = blockNum + 1
  PROVE  SumInv'
<1>1. At(CmdC) /\ CmdC \in BlockCmds /\ CmdC \in Commands /\ CmdC # CmdZ
  BY DEF ProgramBlock, BlockCmds, Commands, CmdC, CmdZ
<1>2. cmdID = CmdC /\ pc = "work" /\ dataOUT \in Block /\ blockNum \in BlockIdx
  BY <1>1, AtType DEF OpenTypeOK, At
<1>3. begun /\ taken \in Seq(Block) /\ Len(taken) = blockNum /\ checksum = BankSum(Taken)
  BY <1>1, <1>2 DEF SumInv, SumFollowsBlocks, InLoop
<1>4. begun' /\ taken' = Append(taken, dataOUT)
  BY <1>1, <1>2, <1>3 DEF Take, Starts, Works
<1>5. taken' \in Seq(Block) /\ Len(taken') = blockNum + 1
  BY <1>2, <1>3, <1>4, TakenGrows
<1>6. checksum' = BankSum(Taken')
  <2>1. checksum' = (checksum + BlockSum(dataOUT)) % 65536
    BY DEF ProgramBlock
  <2>2. BankSum(Taken') = (BankSum(Taken) + BlockSum(dataOUT)) % 65536
    BY <1>2, <1>3, <1>4, TakenSum
  <2> QED
    BY <1>3, <2>1, <2>2
<1>7. blockNum + 1 <= NumBlocks
  BY <1>2, ProtocolAssumption DEF ProtocolAssumption, BlockIdx
<1> QED
  BY <1>4, <1>5, <1>6, <1>7 DEF SumInv, SumFollowsBlocks

\* "c": the block is in the chip, or damaged there, when the next one is asked for.
LEMMA ProgramKeeps ==
  ASSUME OpenTypeOK, LoopInv, ProgramBlock, Note, blockNum' = blockNum + 1
  PROVE  /\ good' \in Seq(Block) /\ Len(good') = blockNum' /\ blockNum \in BlockIdx
         /\ \A b \in BlockIdx : b < blockNum' => flash'[b] \in {good'[b + 1], Damaged}
<1>1. At(CmdC) /\ CmdC \in BlockCmds /\ CmdC \in Commands
  BY DEF ProgramBlock, BlockCmds, Commands
<1>2. cmdID = CmdC /\ pc = "work" /\ dataOUT \in Block /\ blockNum \in BlockIdx
  BY <1>1, AtType DEF OpenTypeOK, At
<1>3. good \in Seq(Block) /\ Len(good) = blockNum /\ Written
  BY <1>1, <1>2 DEF LoopInv, InLoop
<1>4. good' = Append(good, dataOUT)
  BY <1>1, <1>2 DEF Note, Starts, Works
<1>5. /\ good' \in Seq(Block) /\ Len(good') = blockNum + 1
      /\ good'[blockNum + 1] = dataOUT
      /\ \A b \in BlockIdx : b < blockNum => good'[b + 1] = good[b + 1]
  BY <1>2, <1>3, <1>4, NotedGrows
<1>6. PICK ok \in BOOLEAN : targetBlockProgram(blockNum, dataOUT, ok) /\ NextBlock(ok)
  BY DEF ProgramBlock
<1>7. ok
  <2>1. blockNum + 1 # blockNum
    BY <1>2 DEF BlockIdx
  <2> QED
    BY <1>6, <2>1 DEF NextBlock
<1>8. PICK cell \in {dataOUT, Damaged} : flash' = [flash EXCEPT ![blockNum] = cell]
  BY <1>6, <1>7 DEF targetBlockProgram
<1>9. flash'[blockNum] = cell /\ \A b \in BlockIdx : b # blockNum => flash'[b] = flash[b]
  BY <1>2, <1>8 DEF OpenTypeOK, FirmwareTypeOK, TargetTypeOK
<1>10. \A b \in BlockIdx : b < blockNum' => flash'[b] \in {good'[b + 1], Damaged}
  <2>1. \A b \in BlockIdx : b < blockNum + 1 => b < blockNum \/ b = blockNum
    BY <1>2 DEF BlockIdx
  <2>2. \A b \in BlockIdx : b < blockNum => b # blockNum
    BY <1>2 DEF BlockIdx
  <2> QED
    BY <1>3, <1>5, <1>8, <1>9, <2>1, <2>2 DEF Written
<1> QED
  BY <1>2, <1>5, <1>10

\* "d": the block was read back when the next one is asked for.
LEMMA VerifyKeeps ==
  ASSUME OpenTypeOK, LoopInv, VerifyBlock, Note, blockNum' = blockNum + 1
  PROVE  /\ good' \in Seq(Block) /\ Len(good') = blockNum' /\ blockNum \in BlockIdx
         /\ flash' = flash
         /\ \A b \in BlockIdx : b < blockNum' => Reads(flash[b]) = good'[b + 1]
<1>1. At(CmdD) /\ CmdD \in BlockCmds /\ CmdD \in Commands
  BY DEF VerifyBlock, BlockCmds, Commands
<1>2. cmdID = CmdD /\ pc = "work" /\ dataOUT \in Block /\ blockNum \in BlockIdx
  BY <1>1, AtType DEF OpenTypeOK, At
<1>3. good \in Seq(Block) /\ Len(good) = blockNum /\ Matched
  BY <1>1, <1>2 DEF LoopInv, InLoop
<1>4. good' = Append(good, dataOUT)
  BY <1>1, <1>2 DEF Note, Starts, Works
<1>5. /\ good' \in Seq(Block) /\ Len(good') = blockNum + 1
      /\ good'[blockNum + 1] = dataOUT
      /\ \A b \in BlockIdx : b < blockNum => good'[b + 1] = good[b + 1]
  BY <1>2, <1>3, <1>4, NotedGrows
<1>6. PICK ok \in BOOLEAN : targetBlockVerify(blockNum, dataOUT, ok) /\ NextBlock(ok)
  BY DEF VerifyBlock
<1>7. ok
  <2>1. blockNum + 1 # blockNum
    BY <1>2 DEF BlockIdx
  <2> QED
    BY <1>6, <2>1 DEF NextBlock
<1>8. Reads(flash[blockNum]) = dataOUT /\ flash' = flash
  BY <1>6, <1>7 DEF targetBlockVerify, targetVars
<1>9. \A b \in BlockIdx : b < blockNum' => Reads(flash[b]) = good'[b + 1]
  <2>1. \A b \in BlockIdx : b < blockNum + 1 => b < blockNum \/ b = blockNum
    BY <1>2 DEF BlockIdx
  <2> QED
    BY <1>3, <1>5, <1>8, <2>1 DEF Matched
<1> QED
  BY <1>2, <1>5, <1>8, <1>9

-----------------------------------------------------------------------------
(***************************************************************************)
(* The invariant of the loop.                                              *)
(***************************************************************************)
\* A case of the switch that is not a block command ends its command.
OtherWork ==
  \/ Initialize \/ Erase \/ ProgramSecurity \/ VerifySecurity \/ VerifyChecksum \/ Restart

\* Every command but the block commands goes back to reading a command.
LEMMA OtherWorkEnds == OtherWork \/ ResetProgrammer => pc' = "readID"
BY DEF OtherWork, Initialize, Erase, ProgramSecurity, VerifySecurity, VerifyChecksum,
       Restart, Done, ResetProgrammer

\* The next block is asked for only after one that went well.
LEMMA StaysInLoop ==
  ASSUME NEW ok, NextBlock(ok), pc' # "readID"
  PROVE  blockNum' = blockNum + 1
BY DEF NextBlock, Done

\* The cases that take no block of a "c" leave the sum and what it is of.
LEMMA OtherWorkKeepsSum ==
  ASSUME SumInv, OtherWork \/ VerifyBlock, Take
  PROVE  UNCHANGED <<checksum, begun, taken>>
<1>1. /\ pc = "work" /\ checksum' = checksum
      /\ cmdID \in {CmdA, CmdB, CmdD, CmdE, CmdF, CmdG, CmdX}
  BY DEF OtherWork, Initialize, Erase, VerifyBlock, ProgramSecurity, VerifySecurity,
         VerifyChecksum, Restart, At
<1>2. cmdID # CmdC /\ cmdID # CmdZ
  BY <1>1 DEF CmdA, CmdB, CmdC, CmdD, CmdE, CmdF, CmdG, CmdX, CmdZ
<1> QED
  BY <1>1, <1>2 DEF SumInv, Take, Starts, Works

\* Every step keeps what is known of the loop and of the sum.
LEMMA OpenNextInv == OpenInv /\ [OpenNext]_openVars => OpenInv'
<1> SUFFICES ASSUME OpenInv, [OpenNext]_openVars PROVE LoopInv' /\ SumInv'
  BY OpenNextType DEF OpenInv
<1>1. OpenTypeOK /\ LoopInv /\ SumInv
  BY DEF OpenInv
<1>2. CASE HostSends \/ OpenReceive \/ UNCHANGED openVars
  <2>1. UNCHANGED <<threadVars, targetVars, historyVars>>
    BY <1>2 DEF HostSends, OpenReceive, sdIncomingDataI, openVars, firmwareVars
  <2>2. InLoop' = InLoop
    BY <2>1 DEF InLoop, threadVars
  <2> QED
    BY <1>1, <2>1, <2>2, LoopKeeps, SumKeeps DEF threadVars, historyVars
<1>3. CASE OpenThread
  <2>1. /\ Note /\ Take
        /\ \/ ReadCommandID \/ ReadTerminator \/ ReadData \/ ProgramBlock \/ VerifyBlock
           \/ OtherWork \/ ResetProgrammer
    BY <1>3 DEF OpenThread, MainThread, Work, OtherWork
  <2>2. CASE ReadCommandID
    <3>1. ~InLoop' /\ pc = "readID" /\ checksum' = checksum
      BY <2>2 DEF ReadCommandID, InLoop
    <3>2. UNCHANGED <<begun, taken>>
      BY <1>1, <2>1, <3>1 DEF SumInv, Take, Starts, Works
    <3> QED
      BY <1>1, <3>1, <3>2, SumKeeps DEF LoopInv
  <2>3. CASE ReadTerminator
    BY <1>1, <2>1, <2>3, LoopStarts, SumStarts
  <2>4. CASE ReadData
    <3>1. UNCHANGED <<cmdID, blockNum, checksum, targetVars>> /\ pc = "readData"
      BY <2>4 DEF ReadData
    <3>2. UNCHANGED historyVars
      BY <1>1, <2>1, <3>1 DEF SumInv, Note, Take, Starts, Works, historyVars
    <3>3. InLoop' => InLoop
      BY <3>1 DEF InLoop
    <3> QED
      BY <1>1, <3>1, <3>2, <3>3, LoopKeeps, SumKeeps DEF historyVars
  <2>5. CASE ProgramBlock
    <3>1. cmdID' = CmdC /\ CmdC # CmdD
      BY <2>5 DEF ProgramBlock, At, CmdC, CmdD
    <3>2. InLoop' => blockNum' = blockNum + 1
      BY <2>5, StaysInLoop DEF ProgramBlock, InLoop
    <3>3. LoopInv'
      <4>1. SUFFICES ASSUME InLoop' PROVE LoopInv'
        BY DEF LoopInv
      <4>2. /\ good' \in Seq(Block) /\ Len(good') = blockNum'
            /\ \A b \in BlockIdx : b < blockNum' => flash'[b] \in {good'[b + 1], Damaged}
        BY <1>1, <2>1, <2>5, <3>2, <4>1, ProgramKeeps
      <4> QED
        BY <3>1, <4>2 DEF LoopInv, Written
    <3>4. SumInv'
      BY <1>1, <2>1, <2>5, <3>2, SumAdds
    <3> QED
      BY <3>3, <3>4
  <2>6. CASE VerifyBlock
    <3>1. cmdID' = CmdD /\ CmdC # CmdD
      BY <2>6 DEF VerifyBlock, At, CmdC, CmdD
    <3>2. LoopInv'
      <4>1. SUFFICES ASSUME InLoop' PROVE LoopInv'
        BY DEF LoopInv
      <4>2. blockNum' = blockNum + 1
        BY <2>6, <4>1, StaysInLoop DEF VerifyBlock, InLoop
      <4>3. /\ good' \in Seq(Block) /\ Len(good') = blockNum' /\ flash' = flash
            /\ \A b \in BlockIdx : b < blockNum' => Reads(flash[b]) = good'[b + 1]
        BY <1>1, <2>1, <2>6, <4>2, VerifyKeeps
      <4> QED
        BY <3>1, <4>3 DEF LoopInv, Matched, Reads
    <3>3. UNCHANGED <<checksum, begun, taken>>
      BY <1>1, <2>1, <2>6, OtherWorkKeepsSum
    <3> QED
      BY <1>1, <3>1, <3>2, <3>3, SumKeeps
  <2>7. CASE OtherWork
    <3>1. ~InLoop'
      BY <2>7, OtherWorkEnds DEF InLoop
    <3>2. UNCHANGED <<checksum, begun, taken>>
      BY <1>1, <2>1, <2>7, OtherWorkKeepsSum
    <3> QED
      BY <1>1, <3>1, <3>2, SumKeeps DEF LoopInv
  <2>8. CASE ResetProgrammer
    <3>1. ~InLoop'
      BY <2>8, OtherWorkEnds DEF InLoop
    <3>2. ~begun' /\ begun' \in BOOLEAN /\ taken' = <<>> /\ checksum' \in StackGarbage
      BY <2>1, <2>8 DEF ResetProgrammer, Take, Starts, Works
    <3>3. taken' \in Seq(Block) /\ Len(taken') = 0 /\ 0 <= NumBlocks
      BY <3>2, ProtocolAssumption DEF ProtocolAssumption
    <3> QED
      BY <3>1, <3>2, <3>3 DEF LoopInv, SumInv, SumFollowsBlocks
  <2> QED
    BY <2>1, <2>2, <2>3, <2>4, <2>5, <2>6, <2>7, <2>8
<1> QED
  BY <1>2, <1>3 DEF OpenNext

\* Between two blocks of "c" or "d" the blocks counted so far are in the chip, one after
\* the other, and at any time the checksum is that of the blocks the last "c" took, whatever
\* the host sent before or in between: main.c's loops of the cases 'c' and 'd'.
THEOREM LoopInvariant == OpenSpec => []OpenInv
BY OpenInitInv, OpenNextInv, PTL DEF OpenSpec

\* The sum that "c" clears (main.c's case 'c') and the next "g" compares is, at any time
\* from the first "c" on, that of the blocks the last "c" took: neither the uninitialised
\* variable nor an earlier or broken-off "c" leaves a trace in it.
THEOREM SumIsOfBlocks == OpenSpec => []SumFollowsBlocks
<1>1. OpenInv => SumFollowsBlocks
  BY DEF OpenInv, SumInv
<1> QED
  BY <1>1, LoopInvariant, PTL

-----------------------------------------------------------------------------
(***************************************************************************)
(* What a reply means.                                                     *)
(***************************************************************************)
\* Four bytes added to a sequence make it longer and can be read at its end.
LEMMA Addition ==
  ASSUME NEW s \in Seq(Byte), NEW r \in Seq(Byte), Len(r) = 4
  PROVE  /\ Len(s \o r) = Len(s) + 4
         /\ (s \o r)[Len(s) + 1] = r[1] /\ (s \o r)[Len(s) + 3] = r[3]
<1>1. Len(s) \in Nat
  OBVIOUS
<1>2. /\ Len(s \o r) = Len(s) + Len(r)
      /\ \A i \in 1..(Len(s) + Len(r)) :
           (s \o r)[i] = IF i <= Len(s) THEN s[i] ELSE r[i - Len(s)]
  BY ConcatProperties
<1> QED
  BY <1>1, <1>2

\* A reply is four bytes, the command first and its argument third.
LEMMA ReplyShape ==
  ASSUME NEW c \in Byte, NEW a \in Byte
  PROVE  /\ Reply(c, a) \in Seq(Byte) /\ Len(Reply(c, a)) = 4
         /\ Reply(c, a)[1] = c /\ Reply(c, a)[3] = a
BY DEF Reply, NL, Byte

\* So a reply that was added makes the line longer, and can be read there.
LEMMA AddedReply ==
  ASSUME NEW s \in Seq(Byte), NEW c \in Byte, NEW a \in Byte, NEW t, t = s \o Reply(c, a)
  PROVE  Len(t) = Len(s) + 4 /\ t[Len(s) + 1] = c /\ t[Len(s) + 3] = a
<1>1. PICK r : r = Reply(c, a)
  OBVIOUS
<1>2. r \in Seq(Byte) /\ Len(r) = 4 /\ r[1] = c /\ r[3] = a
  BY <1>1, ReplyShape
<1>3. /\ Len(s \o r) = Len(s) + 4
      /\ (s \o r)[Len(s) + 1] = c /\ (s \o r)[Len(s) + 3] = a
  BY <1>2, Addition
<1> QED
  BY <1>1, <1>3

\* A reply of four bytes comes from a case of the switch, and its argument is what that
\* case answered: neither the host, the interrupt nor a reset of the programmer adds one.
LEMMA ReplyIsOwn ==
  ASSUME OpenInv, [OpenNext]_openVars, NEW cmd \in Commands, NEW arg \in Byte,
         Replies(Reply(cmd, arg))
  PROVE  /\ ProgramBlock \/ VerifyBlock \/ OtherWork
         /\ Note /\ Take
         /\ \A a \in Byte : chnWrite(Reply(cmdID, a)) => cmd = cmdID /\ a = arg
<1>0. toHost \in Seq(Byte) /\ cmdID \in Byte /\ cmd \in Byte
  BY CommandsAreBytes DEF OpenInv, OpenTypeOK, LineTypeOK, FirmwareTypeOK
<1>1. /\ Len(toHost') = Len(toHost) + 4
      /\ toHost'[Len(toHost) + 1] = cmd /\ toHost'[Len(toHost) + 3] = arg
  <2>1. toHost' = toHost \o Reply(cmd, arg)
    BY DEF Replies
  <2> QED
    BY <1>0, <2>1, AddedReply
<1>2. ~HostSends
  BY <1>0, <1>1 DEF HostSends
<1>3. toHost' # toHost
  BY <1>0, <1>1
<1>4. ~OpenReceive /\ ~UNCHANGED openVars /\ ~ReadCommandID /\ ~ReadTerminator /\ ~ReadData
  BY <1>3 DEF OpenReceive, sdIncomingDataI, openVars, firmwareVars, lineVars,
              ReadCommandID, ReadTerminator, ReadData
<1>5. ~ResetProgrammer
  <2> SUFFICES ASSUME ResetProgrammer PROVE FALSE
    OBVIOUS
  <2>1. PICK n \in 0..Len(toHost) : toHost' = SubSeq(toHost, 1, n)
    BY DEF ResetProgrammer
  <2>2. Len(toHost') <= Len(toHost)
    BY <1>0, <2>1
  <2> QED
    BY <1>0, <1>1, <2>2
<1>6. Note /\ Take /\ (ProgramBlock \/ VerifyBlock \/ OtherWork)
  BY <1>2, <1>4, <1>5 DEF OpenNext, OpenThread, MainThread, Work, OtherWork
<1>7. ASSUME NEW a \in Byte, chnWrite(Reply(cmdID, a)) PROVE cmd = cmdID /\ a = arg
  <2>1. toHost' = toHost \o Reply(cmdID, a)
    BY <1>7 DEF chnWrite
  <2>2. PICK s, own, t : s = toHost /\ own = cmdID /\ t = toHost'
    OBVIOUS
  <2>3. s \in Seq(Byte) /\ own \in Byte /\ t = s \o Reply(own, a)
    BY <1>0, <2>1, <2>2
  <2>4. t[Len(s) + 1] = own /\ t[Len(s) + 3] = a
    BY <2>3, AddedReply, SMTT(30)
  <2> QED
    BY <1>1, <2>2, <2>4
<1> QED
  BY <1>6, <1>7

\* The arguments of a reply are different bytes.
LEMMA Arguments ==
  /\ Zero \in Byte /\ One \in Byte /\ Two \in Byte /\ Plus \in Byte
  /\ Zero # One /\ Zero # Two /\ Zero # Plus /\ One # Two
  /\ \A ok \in BOOLEAN : Outcome(ok) \in Byte
BY DEF Byte, Zero, One, Two, Plus, Outcome

\* The other cases of the switch answer once.
LEMMA OtherWorkAnswers ==
  ASSUME OtherWork
  PROVE  /\ cmdID \in {CmdA, CmdB, CmdE, CmdF, CmdG, CmdX}
         /\ \E a \in Byte : chnWrite(Reply(cmdID, a))
BY Arguments
   DEF OtherWork, Initialize, Erase, ProgramSecurity, VerifySecurity, VerifyChecksum,
       Restart, At, Done

\* After a block, the firmware answers once as well.
LEMMA NextBlockAnswers ==
  ASSUME NEW ok \in BOOLEAN, NextBlock(ok)
  PROVE  IF ok /\ blockNum < NumBlocks - 1
         THEN chnWrite(Reply(cmdID, Plus)) /\ blockNum' = blockNum + 1
         ELSE /\ chnWrite(Reply(cmdID, Outcome(ok)))
              /\ blockNum' = IF ok THEN blockNum + 1 ELSE blockNum
BY DEF NextBlock, Done

\* A success reply to a block command comes from its own case of the switch, and ends it:
\* neither another command nor a reset of the programmer can leave one behind.
LEMMA SuccessIsOwn ==
  ASSUME OpenInv, [OpenNext]_openVars, NEW cmd \in BlockCmds, Replies(Reply(cmd, Zero))
  PROVE  /\ Note
         /\ cmd = CmdC => ProgramBlock
         /\ cmd = CmdD => VerifyBlock
         /\ blockNum' = blockNum + 1 /\ blockNum' = NumBlocks
<1>1. cmd \in Commands
  BY DEF Commands
<1>2. /\ Note /\ (ProgramBlock \/ VerifyBlock \/ OtherWork)
      /\ \A a \in Byte : chnWrite(Reply(cmdID, a)) => cmd = cmdID /\ a = Zero
  BY <1>1, Arguments, ReplyIsOwn
<1>3. ~OtherWork
  <2> SUFFICES ASSUME OtherWork PROVE FALSE
    OBVIOUS
  <2>1. cmd \in {CmdA, CmdB, CmdE, CmdF, CmdG, CmdX}
    BY <1>2, OtherWorkAnswers
  <2> QED
    BY <2>1 DEF BlockCmds, CmdA, CmdB, CmdC, CmdD, CmdE, CmdF, CmdG, CmdX
<1>4. PICK ok \in BOOLEAN : NextBlock(ok)
  BY <1>2, <1>3 DEF ProgramBlock, VerifyBlock
<1>5. ~(ok /\ blockNum < NumBlocks - 1)
  BY <1>2, <1>4, NextBlockAnswers, Arguments
<1>6. cmd = cmdID /\ Outcome(ok) = Zero /\ blockNum' = IF ok THEN blockNum + 1 ELSE blockNum
  BY <1>2, <1>4, <1>5, NextBlockAnswers, Arguments
<1>7. ok
  BY <1>6, Arguments DEF Outcome
<1>8. /\ ProgramBlock => cmdID = CmdC /\ pc = "work"
      /\ VerifyBlock => cmdID = CmdD /\ pc = "work"
      /\ CmdC # CmdD
  BY DEF ProgramBlock, VerifyBlock, At, CmdC, CmdD
<1>9. blockNum' = blockNum + 1 /\ blockNum' = NumBlocks
  <2>1. blockNum \in 0..NumBlocks /\ blockNum < NumBlocks
    BY <1>2, <1>3, <1>6, <1>8 DEF OpenInv, OpenTypeOK, FirmwareTypeOK
  <2> QED
    BY <1>5, <1>6, <1>7, <2>1, ProtocolAssumption DEF ProtocolAssumption
<1> QED
  BY <1>2, <1>3, <1>6, <1>8, <1>9

\* main.c answers "c\n0\n" and "d\n0\n" only when every block of the bank was written, or
\* read back, once and in order, for every host, every number of blocks and every queue.
THEOREM SuccessIsWhole == OpenSpec => SuccessCoversBank
<1>1. ASSUME OpenInv, [OpenNext]_openVars
      PROVE  /\ Replies(Reply(CmdC, Zero)) =>
                  /\ Len(good') = NumBlocks
                  /\ \A b \in BlockIdx : flash'[b] \in {good'[b + 1], Damaged}
             /\ Replies(Reply(CmdD, Zero)) =>
                  /\ Len(good') = NumBlocks
                  /\ \A b \in BlockIdx : Reads(flash[b]) = good'[b + 1]
  <2>1. OpenTypeOK /\ LoopInv /\ CmdC \in BlockCmds /\ CmdD \in BlockCmds
    BY <1>1 DEF OpenInv, BlockCmds
  <2>2. \A b \in BlockIdx : b < NumBlocks
    BY ProtocolAssumption DEF ProtocolAssumption, BlockIdx
  <2>3. ASSUME Replies(Reply(CmdC, Zero))
        PROVE  /\ Len(good') = NumBlocks
               /\ \A b \in BlockIdx : flash'[b] \in {good'[b + 1], Damaged}
    <3>1. ProgramBlock /\ Note /\ blockNum' = blockNum + 1 /\ blockNum' = NumBlocks
      BY <1>1, <2>1, <2>3, SuccessIsOwn
    <3>2. /\ Len(good') = blockNum'
          /\ \A b \in BlockIdx : b < blockNum' => flash'[b] \in {good'[b + 1], Damaged}
      BY <2>1, <3>1, ProgramKeeps
    <3> QED
      BY <2>2, <3>1, <3>2
  <2>4. ASSUME Replies(Reply(CmdD, Zero))
        PROVE  /\ Len(good') = NumBlocks
               /\ \A b \in BlockIdx : Reads(flash[b]) = good'[b + 1]
    <3>1. VerifyBlock /\ Note /\ blockNum' = blockNum + 1 /\ blockNum' = NumBlocks
      BY <1>1, <2>1, <2>4, SuccessIsOwn
    <3>2. /\ Len(good') = blockNum'
          /\ \A b \in BlockIdx : b < blockNum' => Reads(flash[b]) = good'[b + 1]
      BY <2>1, <3>1, VerifyKeeps
    <3> QED
      BY <2>2, <3>1, <3>2
  <2> QED
    BY <2>3, <2>4
<1> QED
  BY <1>1, LoopInvariant, PTL DEF OpenSpec, SuccessCoversBank

\* An answer to "g" comes from the comparison of the case 'g', one that failed excepted.
LEMMA AnswerIsOwn ==
  ASSUME OpenInv, [OpenNext]_openVars, NEW arg \in {Zero, Two}, Replies(Reply(CmdG, arg))
  PROVE  \E sum \in ReportedSums : arg = IF sum = checksum THEN Zero ELSE Two
<1>1. CmdG \in Commands /\ arg \in Byte
  BY Arguments DEF Commands, PlainCmds
<1>2. /\ ProgramBlock \/ VerifyBlock \/ OtherWork
      /\ \A a \in Byte : chnWrite(Reply(cmdID, a)) => CmdG = cmdID /\ a = arg
  BY <1>1, ReplyIsOwn
<1>3. ~ProgramBlock /\ ~VerifyBlock
  <2> SUFFICES ASSUME ProgramBlock \/ VerifyBlock PROVE FALSE
    OBVIOUS
  <2>1. cmdID \in {CmdC, CmdD} /\ \E ok \in BOOLEAN : NextBlock(ok)
    BY DEF ProgramBlock, VerifyBlock, At
  <2>2. \E a \in Byte : chnWrite(Reply(cmdID, a))
    BY <2>1, NextBlockAnswers, Arguments
  <2> QED
    BY <1>2, <2>1, <2>2 DEF CmdC, CmdD, CmdG
<1>4. cmdID = CmdG
  BY <1>2, <1>3, OtherWorkAnswers
<1>5. VerifyChecksum
  BY <1>2, <1>3, <1>4
     DEF OtherWork, Initialize, Erase, ProgramSecurity, VerifySecurity, Restart, At,
         CmdA, CmdB, CmdE, CmdF, CmdG, CmdX
<1>6. ~Done(One)
  BY <1>2, Arguments DEF Done
<1>7. PICK sum \in ReportedSums : Done(IF sum = checksum THEN Zero ELSE Two)
  BY <1>5, <1>6 DEF VerifyChecksum
<1> QED
  BY <1>2, <1>7, Arguments DEF Done

\* main.c answers "g\n0\n" when the sum of the chip's bank is that of the blocks the last
\* "c" took and "g\n2\n" when it is not, for every host, every number of blocks and every
\* sum the uninitialised variable may start with, as long as the chip is not damaged.
THEOREM AnswersAreTrue == OpenSpec => ChecksumAnswers
<1>1. ASSUME OpenInv, [OpenNext]_openVars, begun,
             \A b \in BlockIdx : flash[b] # Damaged
      PROVE  LET held == BankSum([b \in BlockIdx |-> Reads(flash[b])])
             IN  /\ Replies(Reply(CmdG, Zero)) => held = BankSum(Taken)
                 /\ Replies(Reply(CmdG, Two))  => held # BankSum(Taken)
  <2> DEFINE held == BankSum([b \in BlockIdx |-> Reads(flash[b])])
  <2>1. ReportedSums = {held}
    BY <1>1 DEF ReportedSums
  <2>2. checksum = BankSum(Taken)
    BY <1>1 DEF OpenInv, SumInv, SumFollowsBlocks
  <2> HIDE DEF held
  <2>3. ASSUME NEW arg \in {Zero, Two}, Replies(Reply(CmdG, arg))
        PROVE  arg = IF held = BankSum(Taken) THEN Zero ELSE Two
    BY <1>1, <2>1, <2>2, <2>3, AnswerIsOwn
  <2>4. /\ Replies(Reply(CmdG, Zero)) => held = BankSum(Taken)
        /\ Replies(Reply(CmdG, Two))  => held # BankSum(Taken)
    BY <2>3, Arguments
  <2> QED
    BY <2>4 DEF held
<1> QED
  BY <1>1, LoopInvariant, PTL DEF OpenSpec, ChecksumAnswers

-----------------------------------------------------------------------------
(***************************************************************************)
(* transitionHiLoDetect, the poll at the end of every operation.           *)
(***************************************************************************)
\* The reads so far against the timer that is left: the first loop has used one budget
\* at most when the second one gets its own.
Budget ==
  /\ loop = "awaitHigh" => timer <= TransitionTimeout /\ reads = TransitionTimeout - timer
  /\ loop = "awaitLow" =>
       timer <= TransitionTimeout /\ reads <= 2 * TransitionTimeout + 1 - timer

DetectInv == DetectTypeOK /\ WaitBounded /\ Budget

\* A timer that is not at zero is decremented without wrapping; any decrement stays in
\* the width of the timer.
LEMMA Decrement ==
  ASSUME NEW t \in 0..(TimerModulus - 1)
  PROVE  /\ (t - 1) % TimerModulus \in 0..(TimerModulus - 1)
         /\ t > 0 => (t - 1) % TimerModulus = t - 1
BY TimerAssumption DEF TimerAssumption

\* The budget holds when the function is entered.
LEMMA DetectInitInv == DetectInit => DetectInv
BY TimerAssumption
   DEF TimerAssumption, DetectInit, DetectInv, DetectTypeOK, WaitBounded, Budget, MaxReads,
       Loops, Results

\* No pass of either loop, and no move of the pin, breaks the budget.
LEMMA DetectNextInv == DetectInv /\ [DetectNext]_detectVars => DetectInv'
<1> SUFFICES ASSUME DetectInv, [DetectNext]_detectVars PROVE DetectInv'
  OBVIOUS
<1> USE TimerAssumption
    DEF TimerAssumption, DetectInv, DetectTypeOK, WaitBounded, Budget, MaxReads, Loops,
        Results
<1>1. CASE TargetDrives
  BY <1>1 DEF TargetDrives
<1>2. CASE AwaitHigh
  <2>1. reads' = reads + 1
    BY <1>2 DEF AwaitHigh, CountRead
  <2>2. CASE sdata = 1
    BY <1>2, <2>1, <2>2 DEF AwaitHigh
  <2>3. CASE sdata = 0
    BY <1>2, <2>1, <2>3, Decrement DEF AwaitHigh, TickOrTimeout
  <2> QED
    BY <2>2, <2>3
<1>3. CASE AwaitLow
  <2>1. reads' = reads + 1
    BY <1>3 DEF AwaitLow, CountRead
  <2>2. CASE sdata = 0
    BY <1>3, <2>1, <2>2 DEF AwaitLow
  <2>3. CASE sdata = 1
    BY <1>3, <2>1, <2>3, Decrement DEF AwaitLow, TickOrTimeout
  <2> QED
    BY <2>2, <2>3
<1>4. CASE UNCHANGED detectVars
  BY <1>4 DEF detectVars
<1> QED
  BY <1>1, <1>2, <1>3, <1>4 DEF DetectNext, Poll

\* The variables of the function keep their ranges, whatever the chip does with SDATA.
THEOREM DetectTypeCorrect == DetectSpec => []DetectTypeOK
<1>1. DetectInv => DetectTypeOK
  BY DEF DetectInv
<1> QED
  BY DetectInitInv, DetectNextInv, <1>1, PTL DEF DetectSpec

\* One poll never holds the thread for more than two budgets, for every timeout.
THEOREM WaitIsBounded == DetectSpec => []WaitBounded
<1>1. DetectInv => WaitBounded
  BY DEF DetectInv
<1> QED
  BY DetectInitInv, DetectNextInv, <1>1, PTL DEF DetectSpec
=============================================================================
