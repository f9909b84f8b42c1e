---------------------------- MODULE FirmwareProofs ---------------------------
(***************************************************************************)
(* Facts about the operations on the target and the main thread, for       *)
(* every size of block, bank and queue and for every host: whatever bytes  *)
(* arrive, the receive queue never holds more than its buffer, and the     *)
(* main thread works only on commands it has, with a full block when the   *)
(* command needs one.                                                      *)
(***************************************************************************)
EXTENDS Firmware, OperatorProofs

(***************************************************************************)
(* The chip.                                                               *)
(***************************************************************************)
\* The block counter starts inside the bank, and its successor stays inside while it is
\* not the last one: the test of the block loops of main.c.
LEMMA BlockBounds ==
  /\ 0 \in BlockIdx
  /\ \A b \in BlockIdx : b < NumBlocks - 1 => b + 1 \in BlockIdx
BY ProtocolAssumption DEF ProtocolAssumption, BlockIdx

\* A block of zeros is a block; what targetSecurityFlash takes of a block is security data.
LEMMA DataShapes ==
  /\ ZeroBlock \in Block
  /\ \A data \in Block : SecurityPart(data) \in Security
<1>1. ZeroBlock \in Block
  BY DEF ZeroBlock, Block, Byte
<1>2. ASSUME NEW data \in Block
      PROVE  SecurityPart(data) \in Security
  <2>1. \A i \in 1..SecuritySize : i \in 1..BlockSize
    BY ProtocolAssumption DEF ProtocolAssumption
  <2>2. \A i \in 1..SecuritySize : data[i] \in Byte
    BY <2>1 DEF Block
  <2> QED
    BY <2>2 DEF SecurityPart, Security
<1> QED
  BY <1>1, <1>2

\* What a chip may come with is a whole block, a blank one or a damaged one in each place.
LEMMA ContentsAreSound ==
  ASSUME NEW content \in Contents
  PROVE  /\ content.flash \in [BlockIdx -> Block \cup {Erased, Damaged}]
         /\ content.security \in Security \cup {Erased, Damaged}
BY TargetAssumption DEF TargetAssumption, Content

\* The first chip on the connector is well formed.
LEMMA FreshTargetType == FreshTarget => TargetTypeOK
BY ContentsAreSound DEF FreshTarget, TargetTypeOK

\* And so is one that replaces it.
LEMMA ReplaceTargetType == ReplaceTarget => TargetTypeOK'
BY ContentsAreSound DEF ReplaceTarget, TargetTypeOK

\* Any operation of issp.c on one block, on the whole chip or on its mode.
Operation(b, data, ok, sum) ==
  \/ targetInitialize(ok) \/ targetErase(ok)
  \/ targetBlockProgram(b, data, ok) \/ targetBlockVerify(b, data, ok)
  \/ targetSecurityFlash(data, ok) \/ targetSecurityVerify(data, ok)
  \/ targetBankChecksumGet(ok, sum)
  \/ targetReStart \/ ReplaceTarget

\* Whether it succeeds or not, an operation leaves a well-formed chip: a whole block, a
\* blank one or a damaged one in every place.
LEMMA OperationType ==
  ASSUME TargetTypeOK, NEW b \in BlockIdx, NEW data \in Block, NEW ok \in BOOLEAN,
         NEW sum, Operation(b, data, ok, sum)
  PROVE  TargetTypeOK'
<1> USE DEF TargetTypeOK
<1>1. CASE targetInitialize(ok) \/ targetReStart
  BY <1>1 DEF targetInitialize, targetReStart
<1>2. CASE targetErase(ok)
  BY <1>2 DEF targetErase, Blank
<1>3. CASE targetBlockProgram(b, data, ok)
  BY <1>3 DEF targetBlockProgram
<1>4. CASE targetSecurityFlash(data, ok)
  BY <1>4, DataShapes DEF targetSecurityFlash
<1>5. CASE \/ targetBlockVerify(b, data, ok) \/ targetSecurityVerify(data, ok)
           \/ targetBankChecksumGet(ok, sum)
  BY <1>5 DEF targetBlockVerify, targetSecurityVerify, targetBankChecksumGet, targetVars
<1> QED
  BY <1>1, <1>2, <1>3, <1>4, <1>5, ReplaceTargetType DEF Operation

-----------------------------------------------------------------------------

(***************************************************************************)
(* Bytes and blocks.                                                       *)
(***************************************************************************)
\* What is sent for a block is its bytes; BlockSize bytes make a block.
LEMMA BlocksAreBytes ==
  /\ Block \subseteq Seq(Byte)
  /\ \A s \in Seq(Byte) : Len(s) = BlockSize => s \in Block
BY ProtocolAssumption DEF ProtocolAssumption, Block

\* The requests and the replies are made of bytes.
LEMMA MessagesAreBytes ==
  /\ \A cmd \in Byte : Request(cmd) \in Seq(Byte)
  /\ \A cmd \in Byte, arg \in {Plus, Zero, One, Two} : Reply(cmd, arg) \in Seq(Byte)
BY DEF Request, Reply, Byte, NL, Plus, Zero, One, Two

\* The commands are bytes, and the three kinds do not overlap.
LEMMA CommandsAreBytes ==
  /\ Commands \subseteq Byte
  /\ PlainCmds \cap (BlockCmds \cup SecurityCmds) = {}
  /\ BlockCmds \cap SecurityCmds = {}
BY DEF Commands, BlockCmds, SecurityCmds, PlainCmds, Byte,
       CmdA, CmdB, CmdC, CmdD, CmdE, CmdF, CmdG, CmdX, CmdZ

-----------------------------------------------------------------------------

(***************************************************************************)
(* The firmware.                                                           *)
(***************************************************************************)
\* The receive interrupt keeps the queue within its buffer.
LEMMA ReceiveType ==
  LineTypeOK /\ FirmwareTypeOK /\ sdIncomingDataI => LineTypeOK' /\ FirmwareTypeOK'
<1> SUFFICES ASSUME LineTypeOK, FirmwareTypeOK, sdIncomingDataI
             PROVE  LineTypeOK' /\ FirmwareTypeOK'
  OBVIOUS
<1>1. Head(wire) \in Byte /\ wire' \in Seq(Byte)
  BY HeadTailProperties DEF LineTypeOK, sdIncomingDataI
<1>2. iqueue' \in Seq(Byte) /\ Len(iqueue') <= QueueSize
  <2>1. CASE Len(iqueue) < QueueSize
    BY <1>1, <2>1, ProtocolAssumption
       DEF sdIncomingDataI, FirmwareTypeOK, ProtocolAssumption
  <2>2. CASE ~(Len(iqueue) < QueueSize)
    BY <2>2 DEF sdIncomingDataI, FirmwareTypeOK
  <2> QED
    BY <2>1, <2>2
<1>3. TargetTypeOK'
  BY DEF sdIncomingDataI, FirmwareTypeOK, TargetTypeOK, targetVars
<1> QED
  BY <1>1, <1>2, <1>3 DEF LineTypeOK, FirmwareTypeOK, sdIncomingDataI, threadVars

\* chnRead takes a byte and leaves a queue no longer than it was.
LEMMA ReadType ==
  ASSUME LineTypeOK, FirmwareTypeOK, NEW b, chnRead(b)
  PROVE  b \in Byte /\ iqueue' \in Seq(Byte) /\ Len(iqueue') <= QueueSize
BY HeadTailProperties, ProtocolAssumption
   DEF LineTypeOK, FirmwareTypeOK, chnRead, ProtocolAssumption

\* Each of the three reads leads to a state the thread can be in.
LEMMA ReadStepType ==
  ASSUME LineTypeOK, FirmwareTypeOK, ReadCommandID \/ ReadTerminator \/ ReadData
  PROVE  LineTypeOK' /\ FirmwareTypeOK'
<1> USE DEF FirmwareTypeOK
<1>1. CASE ReadCommandID
  <2>1. PICK b \in Byte : chnRead(b) /\ cmdID' = b
    BY <1>1 DEF ReadCommandID
  <2>2. TargetTypeOK'
    BY <1>1 DEF ReadCommandID, TargetTypeOK, targetVars
  <2> QED
    BY <1>1, <2>1, <2>2, ReadType DEF ReadCommandID, chnRead, LineTypeOK
<1>2. CASE ReadTerminator
  <2>1. PICK b \in Byte :
          /\ chnRead(b)
          /\ pc' = IF b # NL \/ cmdID \notin Commands THEN "readID"
                   ELSE IF cmdID \in PlainCmds THEN "work" ELSE "readData"
          /\ blockNum' = IF b = NL /\ cmdID \in BlockCmds THEN 0 ELSE blockNum
          /\ checksum' = IF b = NL /\ cmdID = CmdC THEN 0 ELSE checksum
          /\ dataOUT' = IF b = NL /\ cmdID \in BlockCmds \cup SecurityCmds
                        THEN <<>> ELSE dataOUT
    BY <1>2 DEF ReadTerminator
  <2>2. TargetTypeOK' /\ cmdID' = cmdID
    BY <1>2 DEF ReadTerminator, TargetTypeOK, targetVars
  <2>3. iqueue' \in Seq(Byte) /\ Len(iqueue') <= QueueSize /\ LineTypeOK'
    BY <1>2, <2>1, ReadType DEF ReadTerminator, chnRead, LineTypeOK
  <2>4. /\ blockNum' \in 0..NumBlocks /\ checksum' \in Word
        /\ dataOUT' \in Seq(Byte) /\ Len(dataOUT') <= BlockSize
    <3>1. /\ blockNum \in 0..NumBlocks /\ checksum \in Word
          /\ dataOUT \in Seq(Byte) /\ Len(dataOUT) <= BlockSize
      OBVIOUS
    <3> HIDE DEF FirmwareTypeOK
    <3>2. blockNum' = 0 \/ blockNum' = blockNum
      BY <2>1
    <3>3. checksum' = 0 \/ checksum' = checksum
      BY <2>1
    <3>4. dataOUT' = <<>> \/ dataOUT' = dataOUT
      BY <2>1
    <3>5. blockNum' \in 0..NumBlocks
      BY <3>1, <3>2, ProtocolAssumption DEF ProtocolAssumption
    <3>6. checksum' \in Word
      <4>1. 0 \in Word
        BY DEF Word
      <4> QED
        BY <3>1, <3>3, <4>1
    <3>7. dataOUT' \in Seq(Byte) /\ Len(dataOUT') <= BlockSize
      <4>1. <<>> \in Seq(Byte) /\ Len(<<>>) <= BlockSize
        BY ProtocolAssumption DEF ProtocolAssumption
      <4> QED
        BY <3>1, <3>4, <4>1
    <3> QED
      BY <3>5, <3>6, <3>7
  <2>5. CASE b # NL \/ cmdID \notin Commands
    <3>1. pc' = "readID"
      BY <2>1, <2>5
    <3>2. cmdID' \in Byte
      BY <2>2
    <3> QED
      BY <2>2, <2>3, <2>4, <3>1, <3>2
  <2>6. CASE b = NL /\ cmdID \in PlainCmds
    <3>1. cmdID \in Commands /\ cmdID \notin BlockCmds \cup SecurityCmds
      BY <2>6, CommandsAreBytes DEF Commands
    <3> QED
      BY <2>1, <2>2, <2>3, <2>4, <2>6, <3>1
  <2>7. CASE b = NL /\ cmdID \in BlockCmds \cup SecurityCmds
    <3>1. cmdID \in Commands /\ cmdID \notin PlainCmds
      BY <2>7, CommandsAreBytes DEF Commands
    <3>2. pc' = "readData" /\ dataOUT' = <<>> /\ (cmdID \in BlockCmds => blockNum' = 0)
      BY <2>1, <2>7, <3>1
    <3> QED
      BY <2>2, <2>3, <2>4, <2>7, <3>2, ProtocolAssumption DEF ProtocolAssumption
  <2> QED
    BY <2>5, <2>6, <2>7 DEF Commands
<1>3. CASE ReadData
  <2>1. PICK b \in Byte : chnRead(b) /\ dataOUT' = Append(dataOUT, b)
    BY <1>3 DEF ReadData
  <2>2. TargetTypeOK' /\ UNCHANGED <<cmdID, blockNum, checksum>> /\ pc = "readData"
    BY <1>3 DEF ReadData, TargetTypeOK, targetVars
  <2>3. iqueue' \in Seq(Byte) /\ Len(iqueue') <= QueueSize /\ LineTypeOK'
    BY <1>3, <2>1, ReadType DEF ReadData, chnRead, LineTypeOK
  <2>4. dataOUT' \in Seq(Byte) /\ Len(dataOUT') = Len(dataOUT) + 1
    BY <2>1
  <2>5. pc' = IF Len(dataOUT) + 1 = BlockSize THEN "work" ELSE "readData"
    BY <1>3 DEF ReadData
  <2>6. cmdID \in Commands
    BY <2>2 DEF Commands
  <2> QED
    BY <2>2, <2>3, <2>4, <2>5, <2>6, ProtocolAssumption DEF ProtocolAssumption
<1> QED
  BY <1>1, <1>2, <1>3

\* The state of a thread that is about to serve a command.
LEMMA AtType ==
  ASSUME FirmwareTypeOK, LineTypeOK, NEW cmd \in Commands, At(cmd)
  PROVE  /\ cmdID = cmd /\ cmd \in Byte /\ UNCHANGED <<wire, iqueue, cmdID>>
         /\ cmd \in BlockCmds \cup SecurityCmds => dataOUT \in Block
         /\ cmd \in BlockCmds => blockNum \in BlockIdx
<1>1. cmdID = cmd /\ cmd \in Byte /\ pc = "work" /\ UNCHANGED <<wire, iqueue, cmdID>>
  BY CommandsAreBytes DEF At
<1>2. cmd \in BlockCmds \cup SecurityCmds => dataOUT \in Block
  BY <1>1, BlocksAreBytes DEF FirmwareTypeOK
<1>3. cmd \in BlockCmds => blockNum \in BlockIdx
  BY <1>1, ProtocolAssumption DEF FirmwareTypeOK, BlockIdx, ProtocolAssumption
<1> QED
  BY <1>1, <1>2, <1>3

\* A command that is done answers with bytes and goes back to the top of the loop.
LEMMA DoneType ==
  ASSUME LineTypeOK, FirmwareTypeOK, NEW cmd \in Commands, At(cmd),
         NEW arg \in {Zero, One, Two}, Done(arg), TargetTypeOK',
         blockNum' \in 0..NumBlocks, checksum' \in Word,
         UNCHANGED dataOUT
  PROVE  LineTypeOK' /\ FirmwareTypeOK'
<1>1. Reply(cmdID, arg) \in Seq(Byte)
  BY AtType, MessagesAreBytes
<1>2. toHost' \in Seq(Byte) /\ wire' = wire /\ iqueue' = iqueue /\ cmdID' = cmdID
  BY <1>1, AtType, ConcatProperties DEF LineTypeOK, Done, chnWrite
<1>3. pc' = "readID"
  BY DEF Done
<1> QED
  BY <1>2, <1>3 DEF LineTypeOK, FirmwareTypeOK

\* After a block the thread is done, or waits for the next block of the bank.
LEMMA NextBlockType ==
  ASSUME LineTypeOK, FirmwareTypeOK, NEW cmd \in BlockCmds, At(cmd),
         NEW ok \in BOOLEAN, NextBlock(ok), TargetTypeOK', checksum' \in Word
  PROVE  LineTypeOK' /\ FirmwareTypeOK'
<1>0. cmd \in Commands /\ blockNum \in BlockIdx /\ blockNum + 1 \in 0..NumBlocks
  BY AtType, ProtocolAssumption DEF Commands, BlockIdx, ProtocolAssumption
<1>1. CASE ok /\ blockNum < NumBlocks - 1
  <2>1. Reply(cmdID, Plus) \in Seq(Byte)
    BY <1>0, AtType, MessagesAreBytes
  <2>2. toHost' = toHost \o Reply(cmdID, Plus)
    BY <1>1 DEF NextBlock, chnWrite
  <2>3. toHost' \in Seq(Byte) /\ wire' = wire /\ iqueue' = iqueue /\ cmdID' = cmdID
    BY <1>0, <2>1, <2>2, AtType, ConcatProperties DEF LineTypeOK
  <2>4. blockNum' = blockNum + 1 /\ dataOUT' = <<>> /\ pc' = "readData"
    BY <1>1 DEF NextBlock
  <2>5. cmdID = cmd
    BY <1>0, AtType
  <2>6. blockNum' < NumBlocks /\ Len(dataOUT') < BlockSize
    BY <1>0, <1>1, <2>4, ProtocolAssumption DEF BlockIdx, ProtocolAssumption
  <2> QED
    BY <1>0, <2>3, <2>4, <2>5, <2>6, ProtocolAssumption
       DEF LineTypeOK, FirmwareTypeOK, ProtocolAssumption
<1>2. CASE ~(ok /\ blockNum < NumBlocks - 1)
  <2>1. /\ Done(Outcome(ok)) /\ UNCHANGED dataOUT
        /\ blockNum' \in {blockNum, blockNum + 1}
    BY <1>2 DEF NextBlock
  <2>2. Outcome(ok) \in {Zero, One, Two}
    BY DEF Outcome
  <2>3. blockNum' \in 0..NumBlocks
    BY <1>0, <2>1 DEF FirmwareTypeOK
  <2> QED
    BY <1>0, <2>1, <2>2, <2>3, DoneType
<1> QED
  BY <1>1, <1>2

\* Each case of the switch leaves a state the thread can be in.
LEMMA WorkType ==
  ASSUME LineTypeOK, FirmwareTypeOK, Work
  PROVE  LineTypeOK' /\ FirmwareTypeOK'
<1> DEFINE Goal == LineTypeOK' /\ FirmwareTypeOK'
<1>0. /\ TargetTypeOK /\ 0 \in BlockIdx /\ ZeroBlock \in Block
      /\ blockNum \in 0..NumBlocks /\ checksum \in Word
      /\ \A ok \in BOOLEAN : Outcome(ok) \in {Zero, One, Two}
  BY BlockBounds, DataShapes DEF FirmwareTypeOK, Outcome
<1>1. CASE Initialize
  <2>1. /\ At(CmdA) /\ CmdA \in Commands /\ UNCHANGED <<blockNum, checksum, dataOUT>>
        /\ \E ok \in BOOLEAN : targetInitialize(ok)
        /\ \E arg \in {Zero, One, Two} : Done(arg)
    BY <1>1 DEF Initialize, Commands, PlainCmds
  <2>2. TargetTypeOK'
    BY <1>0, <2>1, OperationType DEF Operation
  <2> QED
    BY <1>0, <2>1, <2>2, DoneType
<1>2. CASE Erase
  <2>1. /\ At(CmdB) /\ CmdB \in Commands /\ UNCHANGED <<blockNum, checksum, dataOUT>>
        /\ \E ok \in BOOLEAN : targetErase(ok) /\ Done(Outcome(ok))
    BY <1>2 DEF Erase, Commands, PlainCmds
  <2>2. TargetTypeOK'
    BY <1>0, <2>1, OperationType DEF Operation
  <2> QED
    BY <1>0, <2>1, <2>2, DoneType
<1>3. CASE ProgramBlock
  <2>1. At(CmdC) /\ CmdC \in Commands /\ CmdC \in BlockCmds
    BY <1>3 DEF ProgramBlock, Commands, BlockCmds
  <2>2. PICK ok \in BOOLEAN : targetBlockProgram(blockNum, dataOUT, ok) /\ NextBlock(ok)
    BY <1>3 DEF ProgramBlock
  <2>3. dataOUT \in Block /\ blockNum \in BlockIdx
    BY <2>1, AtType
  <2>4. TargetTypeOK'
    BY <1>0, <2>2, <2>3, OperationType DEF Operation
  <2>5. checksum' \in Word
    <3>1. BlockSum(dataOUT) \in Word /\ checksum' = (checksum + BlockSum(dataOUT)) % 65536
      BY <1>3, <2>3, BlockSumInWord DEF ProgramBlock
    <3>2. \A w \in Word : w \in Int
      BY SMTT(30) DEF Word
    <3> QED
      BY <1>0, <3>1, <3>2, SumInWord
  <2> QED
    BY <2>1, <2>2, <2>4, <2>5, NextBlockType
<1>4. CASE VerifyBlock
  <2>1. At(CmdD) /\ CmdD \in Commands /\ CmdD \in BlockCmds /\ checksum' = checksum
    BY <1>4 DEF VerifyBlock, Commands, BlockCmds
  <2>2. PICK ok \in BOOLEAN : targetBlockVerify(blockNum, dataOUT, ok) /\ NextBlock(ok)
    BY <1>4 DEF VerifyBlock
  <2>3. dataOUT \in Block /\ blockNum \in BlockIdx
    BY <2>1, AtType
  <2>4. TargetTypeOK'
    BY <1>0, <2>2, <2>3, OperationType DEF Operation
  <2> QED
    BY <1>0, <2>1, <2>2, <2>4, NextBlockType
<1>5. CASE ProgramSecurity
  <2>1. /\ At(CmdE) /\ CmdE \in Commands /\ CmdE \in SecurityCmds
        /\ UNCHANGED <<blockNum, checksum, dataOUT>>
        /\ \E ok \in BOOLEAN : targetSecurityFlash(dataOUT, ok) /\ Done(Outcome(ok))
    BY <1>5 DEF ProgramSecurity, Commands, SecurityCmds
  <2>2. dataOUT \in Block
    BY <2>1, AtType
  <2>3. TargetTypeOK'
    BY <1>0, <2>1, <2>2, OperationType DEF Operation
  <2> QED
    BY <1>0, <2>1, <2>3, DoneType
<1>6. CASE VerifySecurity
  <2>1. /\ At(CmdF) /\ CmdF \in Commands /\ CmdF \in SecurityCmds
        /\ UNCHANGED <<blockNum, checksum, dataOUT>>
        /\ \E ok \in BOOLEAN : targetSecurityVerify(dataOUT, ok) /\ Done(Outcome(ok))
    BY <1>6 DEF VerifySecurity, Commands, SecurityCmds
  <2>2. dataOUT \in Block
    BY <2>1, AtType
  <2>3. TargetTypeOK'
    BY <1>0, <2>1, <2>2, OperationType DEF Operation
  <2> QED
    BY <1>0, <2>1, <2>3, DoneType
<1>7. CASE VerifyChecksum
  <2>1. /\ At(CmdG) /\ CmdG \in Commands /\ UNCHANGED <<blockNum, checksum, dataOUT>>
        /\ \E arg \in {Zero, One, Two} : Done(arg)
    BY <1>7 DEF VerifyChecksum, Commands, PlainCmds
  <2>2. PICK ok \in BOOLEAN : \E sum : targetBankChecksumGet(ok, sum)
    BY <1>7 DEF VerifyChecksum
  <2>3. TargetTypeOK'
    BY <1>0, <2>2, OperationType DEF Operation
  <2> QED
    BY <1>0, <2>1, <2>3, DoneType
<1>8. CASE Restart
  <2>1. /\ At(CmdX) /\ CmdX \in Commands /\ UNCHANGED <<blockNum, checksum, dataOUT>>
        /\ targetReStart /\ Done(Zero)
    BY <1>8 DEF Restart, Commands, PlainCmds
  <2>2. TargetTypeOK'
    BY <1>0, <2>1, OperationType DEF Operation
  <2> QED
    BY <1>0, <2>1, <2>2, DoneType
<1> QED
  BY <1>1, <1>2, <1>3, <1>4, <1>5, <1>6, <1>7, <1>8 DEF Work

\* "z" starts the thread again from the top, with queues emptied.
LEMMA ResetType ==
  ASSUME LineTypeOK, FirmwareTypeOK, ResetProgrammer
  PROVE  LineTypeOK' /\ FirmwareTypeOK'
<1>1. TargetTypeOK'
  BY DEF ResetProgrammer, FirmwareTypeOK, TargetTypeOK, targetVars
<1>2. LineTypeOK'
  <2>1. PICK n \in 0..Len(toHost) : toHost' = SubSeq(toHost, 1, n)
    BY DEF ResetProgrammer
  <2>2. \A i \in 1..n : toHost[i] \in Byte
    BY <2>1 DEF LineTypeOK
  <2>3. toHost' \in Seq(Byte)
    BY <2>1, <2>2, SubSeqProperties
  <2>4. PICK m \in 1..(Len(wire) + 1) : wire' = SubSeq(wire, m, Len(wire))
    BY DEF ResetProgrammer
  <2>5. \A i \in m..Len(wire) : wire[i] \in Byte
    BY <2>4 DEF LineTypeOK
  <2>6. wire' \in Seq(Byte)
    BY <2>4, <2>5, SubSeqProperties DEF LineTypeOK
  <2> QED
    BY <2>3, <2>6 DEF LineTypeOK
<1>3. cmdID' \in Byte /\ checksum' \in Word
  BY FirmwareAssumption DEF ResetProgrammer, FirmwareAssumption, Byte
<1>4. iqueue' = <<>> /\ dataOUT' = <<>> /\ blockNum' = 0 /\ pc' = "readID"
  BY DEF ResetProgrammer
<1> QED
  BY <1>1, <1>2, <1>3, <1>4, ProtocolAssumption DEF FirmwareTypeOK, ProtocolAssumption

\* The firmware stays well formed under every step of its own, whatever was sent to it.
LEMMA FirmwareStepType ==
  LineTypeOK /\ FirmwareTypeOK /\ FirmwareNext => LineTypeOK' /\ FirmwareTypeOK'
BY ReceiveType, ReadStepType, WorkType, ResetType DEF FirmwareNext, MainThread

\* It does not notice what leaves its variables alone.
LEMMA FirmwareStutter ==
  ASSUME FirmwareTypeOK, UNCHANGED <<iqueue, threadVars, targetVars>>
  PROVE  FirmwareTypeOK'
BY DEF FirmwareTypeOK, TargetTypeOK, threadVars, targetVars
==============================================================================
