------------------------------ MODULE Firmware ------------------------------
(***************************************************************************)
(* The main thread of the HSSP programmer (hssp/main.c): a loop that reads *)
(* a command, reads the data the command needs, works on the target and    *)
(* answers.  The USART interrupt feeds the thread through the receive      *)
(* queue while the thread is busy.                                         *)
(*                                                                         *)
(* One action per stretch of the thread between two blocking reads, so     *)
(* bytes arrive between any two of them.                                   *)
(***************************************************************************)
EXTENDS Target, Line

CONSTANT StackGarbage  \* what the uninitialised local "checksum" may hold at boot

ASSUME FirmwareAssumption == StackGarbage \subseteq Word /\ StackGarbage # {}

VARIABLES
  iqueue,    \* SD1.iqueue
  pc,        \* where the main thread is
  cmdID,
  blockNum,
  checksum,
  dataOUT    \* what the current chnRead has stored in targetDataOUT so far

lineVars     == <<wire, iqueue, toHost>>
threadVars   == <<pc, cmdID, blockNum, checksum, dataOUT>>
firmwareVars == <<lineVars, threadVars, targetVars>>

FirmwareTypeOK ==
  /\ TargetTypeOK
  /\ iqueue \in Seq(Byte)
  /\ Len(iqueue) <= QueueSize
  /\ pc \in {"readID", "readTrm", "readData", "work"}
  /\ cmdID \in Byte
  /\ blockNum \in 0..NumBlocks
  /\ checksum \in Word
  /\ dataOUT \in Seq(Byte) /\ Len(dataOUT) <= BlockSize
  /\ pc = "work" => cmdID \in Commands
  /\ pc = "readData" => cmdID \in BlockCmds \cup SecurityCmds
  /\ cmdID \in BlockCmds /\ pc \in {"readData", "work"} => blockNum < NumBlocks
  /\ pc = "readData" => Len(dataOUT) < BlockSize
  /\ pc = "work" /\ cmdID \in BlockCmds \cup SecurityCmds => Len(dataOUT) = BlockSize

FirmwareInit ==
  /\ FreshTarget
  /\ iqueue = <<>>
  /\ pc = "readID"
  /\ cmdID = 0
  /\ blockNum = 0
  /\ checksum \in StackGarbage
  /\ dataOUT = <<>>

(***************************************************************************)
(* Mutants.  A definition named after another one and a mistake stands     *)
(* before it; nothing refers to it but the tests of the properties.        *)
(***************************************************************************)

(***************************************************************************)
(* The USART receive interrupt: a byte that finds the queue full is lost   *)
(* and leaves SD_OVERRUN_ERROR, a flag main.c never reads.                 *)
(***************************************************************************)
sdIncomingDataI_NoFullCheck ==
  /\ wire # <<>>
  /\ wire' = Tail(wire)
  /\ iqueue' = Append(iqueue, Head(wire))
  /\ UNCHANGED <<toHost, threadVars, targetVars>>

sdIncomingDataI ==
  /\ wire # <<>>
  /\ wire' = Tail(wire)
  /\ iqueue' = IF Len(iqueue) < QueueSize THEN Append(iqueue, Head(wire)) ELSE iqueue
  /\ UNCHANGED <<toHost, threadVars, targetVars>>

\* chnRead takes one byte, and waits for it without a timeout.
chnRead(b) ==
  /\ iqueue # <<>>
  /\ b = Head(iqueue)
  /\ iqueue' = Tail(iqueue)
  /\ UNCHANGED wire

chnWrite(reply) == toHost' = toHost \o reply

(***************************************************************************)
(* Reading a command.                                                      *)
(***************************************************************************)
ReadCommandID ==
  /\ pc = "readID"
  /\ \E b \in Byte : chnRead(b) /\ cmdID' = b
  /\ pc' = "readTrm"
  /\ UNCHANGED <<toHost, blockNum, checksum, dataOUT, targetVars>>

ReadTerminator_SumNotCleared ==
  /\ pc = "readTrm"
  /\ \E b \in Byte :
       /\ chnRead(b)
       /\ pc' = IF b # NL \/ cmdID \notin Commands THEN "readID"
                ELSE IF cmdID \in PlainCmds THEN "work" ELSE "readData"
       /\ blockNum' = IF b = NL /\ cmdID \in BlockCmds THEN 0 ELSE blockNum
       /\ dataOUT' = IF b = NL /\ cmdID \in BlockCmds \cup SecurityCmds
                     THEN <<>> ELSE dataOUT
  /\ UNCHANGED <<cmdID, checksum, toHost, targetVars>>

\* The terminator is read and the switch entered: block commands start their
\* loop, "c" clears its sum, unknown pairs are dropped without an answer.
ReadTerminator ==
  /\ pc = "readTrm"
  /\ \E b \in Byte :
       /\ chnRead(b)
       /\ pc' = IF b # NL \/ cmdID \notin Commands THEN "readID"
                ELSE IF cmdID \in PlainCmds THEN "work" ELSE "readData"
       /\ blockNum' = IF b = NL /\ cmdID \in BlockCmds THEN 0 ELSE blockNum
       /\ checksum' = IF b = NL /\ cmdID = CmdC THEN 0 ELSE checksum
       /\ dataOUT' = IF b = NL /\ cmdID \in BlockCmds \cup SecurityCmds
                     THEN <<>> ELSE dataOUT
  /\ UNCHANGED <<cmdID, toHost, targetVars>>

\* chnRead(&SD1, targetDataOUT, TARGET_DATABUFF_LEN), byte by byte.
ReadData ==
  /\ pc = "readData"
  /\ \E b \in Byte : chnRead(b) /\ dataOUT' = Append(dataOUT, b)
  /\ pc' = IF Len(dataOUT) + 1 = BlockSize THEN "work" ELSE "readData"
  /\ UNCHANGED <<cmdID, blockNum, checksum, toHost, targetVars>>

(***************************************************************************)
(* The cases of the switch.                                                *)
(***************************************************************************)
At(cmd) == pc = "work" /\ cmdID = cmd /\ UNCHANGED <<wire, iqueue, cmdID>>

\* A command that answers arg and returns to the top of the loop.
Done(arg) ==
  /\ chnWrite(Reply(cmdID, arg))
  /\ pc' = "readID"

Outcome(ok) == IF ok THEN Zero ELSE One

Initialize_IDIgnored ==
  /\ At(CmdA)
  /\ \E ok \in BOOLEAN : targetInitialize(ok) /\ Done(Outcome(ok))
  /\ UNCHANGED <<blockNum, checksum, dataOUT>>

Initialize ==
  /\ At(CmdA)
  /\ \/ /\ targetInitialize(FALSE)
        /\ Done(One)
     \/ /\ targetInitialize(TRUE)
        /\ \E ok \in BOOLEAN : targetSiliconIDVerify(ok)
                               /\ Done(IF ok THEN Zero ELSE Two)
  /\ UNCHANGED <<blockNum, checksum, dataOUT>>

Erase ==
  /\ At(CmdB)
  /\ \E ok \in BOOLEAN : targetErase(ok) /\ Done(Outcome(ok))
  /\ UNCHANGED <<blockNum, checksum, dataOUT>>

NextBlock_PastTheEnd(ok) ==
  IF ok /\ blockNum < NumBlocks
  THEN /\ chnWrite(Reply(cmdID, Plus))
       /\ blockNum' = blockNum + 1
       /\ dataOUT' = <<>>
       /\ pc' = "readData"
  ELSE Done(Outcome(ok)) /\ UNCHANGED <<blockNum, dataOUT>>

NextBlock_PlusAtTheEnd(ok) ==
  IF ok /\ blockNum < NumBlocks - 1
  THEN /\ chnWrite(Reply(cmdID, Plus))
       /\ blockNum' = blockNum + 1
       /\ dataOUT' = <<>>
       /\ pc' = "readData"
  ELSE /\ chnWrite(Reply(cmdID, Plus) \o Reply(cmdID, Outcome(ok)))
       /\ pc' = "readID"
       /\ UNCHANGED <<blockNum, dataOUT>>

NextBlock_SilentEnd(ok) ==
  IF ok /\ blockNum < NumBlocks - 1
  THEN /\ chnWrite(Reply(cmdID, Plus))
       /\ blockNum' = blockNum + 1
       /\ dataOUT' = <<>>
       /\ pc' = "readData"
  ELSE pc' = "readID" /\ UNCHANGED <<toHost, blockNum, dataOUT>>

NextBlock_EarlyEnd(ok) ==
  IF ok /\ blockNum + 1 < NumBlocks - 1
  THEN /\ chnWrite(Reply(cmdID, Plus))
       /\ blockNum' = blockNum + 1
       /\ dataOUT' = <<>>
       /\ pc' = "readData"
  ELSE /\ Done(Outcome(ok))
       /\ blockNum' = IF ok THEN blockNum + 1 ELSE blockNum
       /\ UNCHANGED dataOUT

\* After a block: break on an error, ask for the next one, or conclude.
NextBlock(ok) ==
  IF ok /\ blockNum < NumBlocks - 1
  THEN /\ chnWrite(Reply(cmdID, Plus))
       /\ blockNum' = blockNum + 1
       /\ dataOUT' = <<>>
       /\ pc' = "readData"
  ELSE /\ Done(Outcome(ok))
       /\ blockNum' = IF ok THEN blockNum + 1 ELSE blockNum
       /\ UNCHANGED dataOUT

ProgramBlock ==
  /\ At(CmdC)
  /\ checksum' = (checksum + BlockSum(dataOUT)) % 65536
  /\ \E ok \in BOOLEAN : targetBlockProgram(blockNum, dataOUT, ok) /\ NextBlock(ok)

VerifyBlock_NoBreak ==
  /\ At(CmdD)
  /\ \E ok \in BOOLEAN :
       targetBlockVerify(blockNum, dataOUT, ok) /\ NextBlock(ok \/ blockNum < NumBlocks - 1)
  /\ UNCHANGED checksum

VerifyBlock ==
  /\ At(CmdD)
  /\ \E ok \in BOOLEAN : targetBlockVerify(blockNum, dataOUT, ok) /\ NextBlock(ok)
  /\ UNCHANGED checksum

ProgramSecurity ==
  /\ At(CmdE)
  /\ \E ok \in BOOLEAN : targetSecurityFlash(dataOUT, ok) /\ Done(Outcome(ok))
  /\ UNCHANGED <<blockNum, checksum, dataOUT>>

VerifySecurity ==
  /\ At(CmdF)
  /\ \E ok \in BOOLEAN : targetSecurityVerify(dataOUT, ok) /\ Done(Outcome(ok))
  /\ UNCHANGED <<blockNum, checksum, dataOUT>>

VerifyChecksum_ErrorIgnored ==
  /\ At(CmdG)
  /\ \E ok \in BOOLEAN, sum \in ReportedSums \cup {0} :
       /\ targetBankChecksumGet(ok, sum) /\ (~ok => sum = 0)
       /\ Done(IF sum = checksum THEN Zero ELSE Two)
  /\ UNCHANGED <<blockNum, checksum, dataOUT>>

VerifyChecksum ==
  /\ At(CmdG)
  /\ \/ targetBankChecksumGet(FALSE, 0) /\ Done(One)
     \/ \E sum \in ReportedSums :
          targetBankChecksumGet(TRUE, sum)
          /\ Done(IF sum = checksum THEN Zero ELSE Two)
  /\ UNCHANGED <<blockNum, checksum, dataOUT>>

Restart ==
  /\ At(CmdX)
  /\ targetReStart
  /\ Done(Zero)
  /\ UNCHANGED <<blockNum, checksum, dataOUT>>

\* "z": the driver is stopped, which empties its queues, and the CPU is reset.
\* What had left the output queue is still on its way to the host, and bytes that
\* arrive before the driver is started again are lost.
ResetProgrammer ==
  /\ pc = "work" /\ cmdID = CmdZ
  /\ iqueue' = <<>>
  /\ \E n \in 0..Len(toHost) : toHost' = SubSeq(toHost, 1, n)
  /\ pc' = "readID"
  /\ cmdID' = 0
  /\ blockNum' = 0
  /\ checksum' \in StackGarbage
  /\ dataOUT' = <<>>
  /\ \E n \in 1..(Len(wire) + 1) : wire' = SubSeq(wire, n, Len(wire))
  /\ UNCHANGED targetVars

Work ==
  \/ Initialize \/ Erase \/ ProgramBlock \/ VerifyBlock
  \/ ProgramSecurity \/ VerifySecurity \/ VerifyChecksum \/ Restart

MainThread == ReadCommandID \/ ReadTerminator \/ ReadData \/ Work \/ ResetProgrammer

FirmwareNext == sdIncomingDataI \/ MainThread
=============================================================================
