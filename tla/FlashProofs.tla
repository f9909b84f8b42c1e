----------------------------- MODULE FlashProofs ------------------------------
(***************************************************************************)
(* The flashing of one chip, in one module: the types of the whole system  *)
(* and the conversation of window and firmware; what the turns of that     *)
(* conversation mean for the chip; and that the system carries out         *)
(* FlashProcedure.  All of it for every number and size of blocks, every   *)
(* receive queue that has room for one request and its data, and every     *)
(* set of images.                                                          *)
(***************************************************************************)
EXTENDS FlashSystem, FlashProcedure, FlashImplements, FirmwareProofs

(***************************************************************************)
(* FlashProcedure by itself, for any number of blocks, any block size and  *)
(* any image.                                                              *)
(***************************************************************************)
\* The state of the chip, the image and the sequence stay well formed.
LEMMA ProcInitType == ProcInit => ProcTypeOK
BY BlockBounds, DataShapes, FreshTargetType DEF ProcInit, ProcTypeOK, Image, AtRest

\* Every operation, and every act of the operator, keeps the state well formed.
LEMMA ProcNextType == ProcTypeOK /\ [ProcNext]_procVars => ProcTypeOK'
<1> SUFFICES ASSUME ProcTypeOK, [ProcNext]_procVars PROVE ProcTypeOK'
  OBVIOUS
<1> USE DEF ProcTypeOK, TargetTypeOK
<1>1. CASE Start
  BY <1>1 DEF Start, targetVars, AtRest, Operations
<1>2. CASE Load
  BY <1>2, LoadableAssumption DEF Load, LoadableAssumption, Image, targetVars
<1>3. CASE Swap
  BY <1>3, ReplaceTargetType DEF Swap
<1>4. CASE DoInitialize
  BY <1>4, BlockBounds
     DEF DoInitialize, Doing, Then, targetInitialize, AtRest, Operations
<1>5. CASE DoErase
  BY <1>5, BlockBounds
     DEF DoErase, Doing, Then, targetErase, Blank, AtRest, Operations
<1>6. CASE DoProgram
  <2>1. PICK ok \in BOOLEAN :
          targetBlockProgram(block, image[block], ok) /\ ThenBlock(ok, "verify")
    BY <1>6 DEF DoProgram
  <2>2. image[block] \in Block
    BY DEF Image
  <2>3. TargetTypeOK'
    BY <2>1, <2>2 DEF targetBlockProgram
  <2> QED
    BY <1>6, <2>1, <2>3, BlockBounds
       DEF DoProgram, Doing, ThenBlock, Then, AtRest, Operations
<1>7. CASE DoVerify
  BY <1>7, BlockBounds
     DEF DoVerify, Doing, ThenBlock, Then, targetBlockVerify, targetVars, AtRest, Operations
<1>8. CASE DoSecure
  <2>1. PICK ok \in BOOLEAN : targetSecurityFlash(sec, ok) /\ Then(ok, "checkSecurity")
    BY <1>8 DEF DoSecure
  <2> QED
    BY <1>8, <2>1, BlockBounds, DataShapes
       DEF DoSecure, Doing, Then, targetSecurityFlash, AtRest, Operations
<1>9. CASE DoCheckSecurity
  BY <1>9, BlockBounds
     DEF DoCheckSecurity, Doing, Then, targetSecurityVerify, targetVars, AtRest, Operations
<1>10. CASE DoChecksum
  BY <1>10, BlockBounds
     DEF DoChecksum, Doing, Then, targetBankChecksumGet, targetVars, AtRest, Operations
<1>11. CASE DoRestart
  BY <1>11, BlockBounds DEF DoRestart, Doing, Then, targetReStart, AtRest, Operations
<1>12. CASE UNCHANGED procVars
  BY <1>12 DEF procVars, targetVars
<1> QED
  BY <1>1, <1>2, <1>3, <1>4, <1>5, <1>6, <1>7, <1>8, <1>9, <1>10, <1>11, <1>12
     DEF ProcNext, Sequence

\* FlashProcedure is well typed for every bank, block and security size.
THEOREM ProcTypeCorrect == ProcSpec => []ProcTypeOK
BY ProcInitType, ProcNextType, PTL DEF ProcSpec

\* What is known of the chip holds before the first sequence.
LEMMA ProcInitInv == ProcInit => ProcInv
BY ProcInitType
   DEF ProcInit, ProcInv, IDKnown, ProgrammedSoFar, VerifiedSoFar, BankVerified,
       SecurityWritten, SecurityVerified, Operations

\* Every step keeps what is known of the chip: the inductive step.
LEMMA ProcNextInv == ProcInv /\ [ProcNext]_procVars => ProcInv'
<1> SUFFICES ASSUME ProcInv, [ProcNext]_procVars PROVE ProcInv'
  OBVIOUS
<1> DEFINE Known == /\ IDKnown /\ ProgrammedSoFar /\ VerifiedSoFar
                    /\ BankVerified /\ SecurityWritten /\ SecurityVerified
<1>0. ProcTypeOK /\ ProcTypeOK'
  BY ProcNextType DEF ProcInv
<1> SUFFICES Known'
  BY <1>0 DEF ProcInv
<1> USE DEF IDKnown, ProgrammedSoFar, VerifiedSoFar, BankVerified, SecurityWritten,
            SecurityVerified, Flashed, Operations
<1>1. CASE Start \/ Load \/ Swap
  BY <1>1 DEF Start, Load, Swap, AtRest
<1>2. CASE DoInitialize
  BY <1>2 DEF DoInitialize, Doing, Then, targetInitialize, targetSiliconIDVerify
<1>3. CASE DoErase
  <2>1. PICK ok \in BOOLEAN : targetErase(ok) /\ Then(ok, "program")
    BY <1>3 DEF DoErase
  <2>2. genuine' /\ step = "erase"
    BY <1>3, <2>1 DEF ProcInv, DoErase, Doing, targetErase
  <2>3. CASE ok
    <3>1. flash' = Blank /\ step' = "program" /\ block' = 0
      BY <2>1, <2>3 DEF targetErase, Then
    <3>2. \A b \in BlockIdx : flash'[b] = Erased /\ ~(b < block')
      BY <3>1, ProtocolAssumption DEF Blank, BlockIdx, ProtocolAssumption
    <3> QED
      BY <2>2, <3>1, <3>2
  <2>4. CASE ~ok
    BY <2>1, <2>4 DEF Then
  <2> QED
    BY <2>3, <2>4
<1>4. CASE DoProgram
  <2>1. PICK ok \in BOOLEAN :
          targetBlockProgram(block, image[block], ok) /\ ThenBlock(ok, "verify")
    BY <1>4 DEF DoProgram
  <2>2. genuine' /\ step = "program" /\ image' = image
    BY <1>4, <2>1 DEF ProcInv, DoProgram, Doing, targetBlockProgram
  <2>3. CASE ok /\ block < NumBlocks - 1
    <3>1. step' = "program" /\ block' = block + 1
      BY <2>1, <2>2, <2>3 DEF ThenBlock
    <3>2. PICK cell \in {image[block], Damaged} : flash' = [flash EXCEPT ![block] = cell]
      BY <2>1, <2>3 DEF targetBlockProgram
    <3>3. ASSUME NEW b \in BlockIdx
          PROVE  IF b < block' THEN flash'[b] \in {image[b], Damaged} ELSE flash'[b] = Erased
      BY <1>0, <2>2, <3>1, <3>2 DEF ProcInv, ProcTypeOK, TargetTypeOK, BlockIdx
    <3> QED
      BY <2>2, <3>1, <3>3
  <2>4. CASE ok /\ ~(block < NumBlocks - 1)
    <3>1. step' = "verify" /\ block' = 0
      BY <2>1, <2>4 DEF ThenBlock, Then
    <3>2. \A b \in BlockIdx : ~(b < block')
      BY <3>1 DEF BlockIdx
    <3> QED
      BY <2>2, <3>1, <3>2
  <2>5. CASE ~ok
    BY <2>1, <2>5 DEF ThenBlock, Then
  <2> QED
    BY <2>3, <2>4, <2>5
<1>5. CASE DoVerify
  <2>1. PICK ok \in BOOLEAN :
          targetBlockVerify(block, image[block], ok) /\ ThenBlock(ok, "secure")
    BY <1>5 DEF DoVerify
  <2>2. genuine' /\ step = "verify" /\ image' = image /\ flash' = flash
    BY <1>5, <2>1 DEF ProcInv, DoVerify, Doing, targetBlockVerify, targetVars
  <2>3. ASSUME ok, NEW b \in BlockIdx, b < block \/ b = block
        PROVE  Reads(flash'[b]) = image'[b]
    BY <2>1, <2>2, <2>3 DEF ProcInv, targetBlockVerify, Reads
  <2>4. CASE ok /\ block < NumBlocks - 1
    <3>1. step' = "verify" /\ block' = block + 1
      BY <2>1, <2>2, <2>4 DEF ThenBlock
    <3>2. \A b \in BlockIdx : b < block' => b < block \/ b = block
      BY <1>0, <3>1 DEF ProcTypeOK, BlockIdx
    <3> QED
      BY <2>2, <2>3, <2>4, <3>1, <3>2
  <2>5. CASE ok /\ ~(block < NumBlocks - 1)
    <3>1. step' = "secure" /\ block' = 0
      BY <2>1, <2>5 DEF ThenBlock, Then
    <3>2. \A b \in BlockIdx : b < block \/ b = block
      BY <1>0, <2>5, ProtocolAssumption DEF ProcTypeOK, BlockIdx, ProtocolAssumption
    <3>3. Flashed'
      BY <2>3, <2>5, <3>2
    <3> QED
      BY <2>2, <3>1, <3>3
  <2>6. CASE ~ok
    BY <2>1, <2>6 DEF ThenBlock, Then
  <2> QED
    BY <2>4, <2>5, <2>6
<1>6. CASE DoSecure
  <2>1. PICK ok \in BOOLEAN : targetSecurityFlash(sec, ok) /\ Then(ok, "checkSecurity")
    BY <1>6 DEF DoSecure
  <2>2. genuine' /\ Flashed' /\ sec' = sec
    BY <1>6, <2>1 DEF ProcInv, DoSecure, Doing, targetSecurityFlash, Reads
  <2>3. ok => security' \in {SecurityPart(sec), Damaged}
    BY <2>1 DEF targetSecurityFlash
  <2> QED
    BY <2>1, <2>2, <2>3 DEF Then
<1>7. CASE DoCheckSecurity
  <2>1. PICK ok \in BOOLEAN : targetSecurityVerify(sec, ok) /\ Then(ok, "checksum")
    BY <1>7 DEF DoCheckSecurity
  <2>2. /\ genuine' /\ Flashed' /\ sec' = sec /\ security' = security
        /\ security \in {SecurityPart(sec), Damaged}
    BY <1>7, <2>1
       DEF ProcInv, DoCheckSecurity, Doing, targetSecurityVerify, targetVars, Reads
  <2>3. ok => security' = SecurityPart(sec')
    BY <2>1, <2>2 DEF targetSecurityVerify
  <2> QED
    BY <2>1, <2>2, <2>3 DEF Then
<1>8. CASE DoChecksum
  <2>1. PICK ok \in BOOLEAN : Then(ok, "restart")
    BY <1>8 DEF DoChecksum
  <2>2. /\ genuine' /\ Flashed' /\ sec' = sec
        /\ security' = SecurityPart(sec')
    BY <1>8 DEF ProcInv, DoChecksum, Doing, targetBankChecksumGet, targetVars, Reads
  <2> QED
    BY <2>1, <2>2 DEF Then
<1>9. CASE DoRestart
  BY <1>9 DEF DoRestart, Then
<1>10. CASE UNCHANGED procVars
  BY <1>10 DEF ProcInv, procVars, targetVars, Reads
<1> QED
  BY <1>1, <1>2, <1>3, <1>4, <1>5, <1>6, <1>7, <1>8, <1>9, <1>10 DEF ProcNext, Sequence

\* ProcInv: what is known of the chip at each step of the procedure is inductive.
THEOREM ProcInvariant == ProcSpec => []ProcInv
BY ProcInitInv, ProcNextInv, PTL DEF ProcSpec

\* DoneMeansFlashed: only DoRestart ends a sequence well, and what it finds is flashed.
THEOREM DoneIsFlashed == ProcSpec => DoneMeansFlashed
<1> DEFINE Promise == step' = "done" /\ step # "done" =>
                        /\ Flashed /\ genuine
                        /\ security = SecurityPart(sec)
                        /\ tMode' = "run"
<1>1. ASSUME ProcInv, [ProcNext]_procVars, step' = "done", step # "done"
      PROVE  DoRestart
  <2>1. ~(Start \/ Load \/ Swap \/ UNCHANGED procVars)
    BY <1>1 DEF Start, Load, Swap, procVars
  <2>2. ~(DoInitialize \/ DoErase \/ DoSecure \/ DoCheckSecurity \/ DoChecksum)
    BY <1>1 DEF DoInitialize, DoErase, DoSecure, DoCheckSecurity, DoChecksum, Then
  <2>3. ~(DoProgram \/ DoVerify)
    BY <1>1 DEF DoProgram, DoVerify, Doing, ThenBlock, Then
  <2> QED
    BY <1>1, <2>1, <2>2, <2>3 DEF ProcNext, Sequence
<1>2. ProcInv /\ [ProcNext]_procVars => Promise
  <2> SUFFICES ASSUME ProcInv, [ProcNext]_procVars, step' = "done", step # "done"
               PROVE  Promise
    OBVIOUS
  <2>1. DoRestart
    BY <1>1
  <2> QED
    BY <2>1
       DEF ProcInv, IDKnown, BankVerified, SecurityVerified, DoRestart, Doing, targetReStart,
           Operations
<1>3. ProcInv /\ [ProcNext]_procVars => [Promise]_procVars
  BY <1>2
<1> QED
  BY ProcInitInv, ProcNextInv, <1>3, PTL DEF ProcSpec, DoneMeansFlashed

\* ProgramsErasedCells: what a program operation meets is blank, for every block, also of
\* a chip that came programmed.
THEOREM ProgramsErased == ProcSpec => ProgramsErasedCells
<1> DEFINE Kept == Swap \/ \A b \in BlockIdx :
                             flash'[b] \in {flash[b], Erased} \/ flash[b] = Erased
<1>1. ASSUME ProcInv, [ProcNext]_procVars PROVE Kept
  <2>1. CASE Start \/ Load \/ DoInitialize \/ UNCHANGED procVars
    BY <2>1 DEF Start, Load, DoInitialize, targetInitialize, procVars, targetVars
  <2>2. CASE Swap \/ DoErase
    BY <2>2 DEF DoErase, targetErase, Blank
  <2>3. CASE DoProgram
    <3>1. flash[block] = Erased /\ block \in BlockIdx
      BY <1>1, <2>3 DEF ProcInv, ProcTypeOK, ProgrammedSoFar, DoProgram, Doing, BlockIdx
    <3>2. \A b \in BlockIdx : b # block => flash'[b] = flash[b]
      BY <1>1, <2>3 DEF ProcInv, ProcTypeOK, TargetTypeOK, DoProgram, targetBlockProgram
    <3> QED
      BY <3>1, <3>2
  <2>4. CASE DoVerify \/ DoSecure \/ DoCheckSecurity \/ DoChecksum \/ DoRestart
    BY <2>4
       DEF DoVerify, targetBlockVerify, DoSecure, targetSecurityFlash, DoCheckSecurity,
           targetSecurityVerify, DoChecksum, targetBankChecksumGet, DoRestart,
           targetReStart, targetVars
  <2> QED
    BY <1>1, <2>1, <2>2, <2>3, <2>4 DEF ProcNext, Sequence
<1>2. ProcInv /\ [ProcNext]_procVars => [Kept]_procVars
  BY <1>1
<1> QED
  BY ProcInitInv, ProcNextInv, <1>2, PTL DEF ProcSpec, ProgramsErasedCells

(***************************************************************************)
(* The types of the whole flashing system, and the conversation of window  *)
(* and firmware, for every number and size of blocks, every receive queue  *)
(* that has room for one request and its data, and every set of images.    *)
(* Window and firmware take turns: at any time exactly one of these holds: *)
(* nobody has anything to say; a request is on its way to the firmware or  *)
(* being served; its reply is on its way to the window.                    *)
(***************************************************************************)

-----------------------------------------------------------------------------

(***************************************************************************)
(* The initial state.                                                      *)
(***************************************************************************)
\* The system starts well formed, whatever the uninitialised checksum holds.
LEMMA SystemInitType == Init => TypeOK
<1> SUFFICES ASSUME Init PROVE TypeOK
  OBVIOUS
<1>1. LineTypeOK
  BY DEF Init, LineInit, LineTypeOK
<1>2. FirmwareTypeOK
  <2>1. TargetTypeOK
    BY FreshTargetType DEF Init, FirmwareInit
  <2>2. cmdID \in Byte /\ checksum \in Word
    BY FirmwareAssumption DEF Init, FirmwareInit, FirmwareAssumption, Byte
  <2>3. iqueue = <<>> /\ dataOUT = <<>> /\ blockNum = 0 /\ pc = "readID"
    BY DEF Init, FirmwareInit
  <2> QED
    BY <2>1, <2>2, <2>3, ProtocolAssumption DEF FirmwareTypeOK, ProtocolAssumption
<1>3. HostTypeOK
  <2>1. ZeroData \in Block
    BY DEF ZeroData, Block, Byte
  <2>2. rxBuf \in Seq(Byte) /\ events \in Seq(Seq(Byte))
    BY DEF Init, HostInit
  <2>3. programData \in Image /\ securityData \in Block
    BY <2>1 DEF Init, HostInit, Image
  <2>4. shown \in Results /\ dataLoaded \in BOOLEAN
    BY DEF Init, HostInit, Results
  <2>5. blockCntr \in 0..NumBlocks /\ pending \in 0..MaxPending
    BY HostAssumption, ProtocolAssumption DEF Init, HostInit, HostAssumption, ProtocolAssumption
  <2> QED
    BY <2>2, <2>3, <2>4, <2>5 DEF HostTypeOK
<1> QED
  BY <1>1, <1>2, <1>3 DEF TypeOK

-----------------------------------------------------------------------------

(***************************************************************************)
(* The host.                                                               *)
(***************************************************************************)
\* A burst, cut in groups of four, leaves bytes everywhere.
LEMMA BurstType ==
  ASSUME LineTypeOK, HostTypeOK, NEW n \in 1..Len(toHost), ReceiveBurst(n)
  PROVE  LineTypeOK' /\ HostTypeOK'
<1> DEFINE got == rxBuf \o SubSeq(toHost, 1, n)
           groups == Len(got) \div 4
<1>1. SubSeq(toHost, 1, n) \in Seq(Byte) /\ toHost' \in Seq(Byte)
  <2>1. \A i \in 1..Len(toHost) : toHost[i] \in Byte
    BY DEF LineTypeOK
  <2>2. toHost' = SubSeq(toHost, n + 1, Len(toHost))
    BY DEF ReceiveBurst
  <2>3. Len(toHost) \in Nat
    BY DEF LineTypeOK
  <2> QED
    BY <2>1, <2>2, <2>3, SubSeqProperties
<1>2. got \in Seq(Byte)
  BY <1>1, ConcatProperties DEF HostTypeOK
<1>3. /\ events' = events \o [k \in 1..groups |-> SubSeq(got, 1, 4 * k)]
      /\ rxBuf' = SubSeq(got, 4 * groups + 1, Len(got))
  BY DEF ReceiveBurst
<1> HIDE DEF got
<1>4. Len(got) \in Nat /\ groups \in Nat /\ 4 * groups <= Len(got)
  BY <1>2
<1>5. \A i \in 1..Len(got) : got[i] \in Byte
  BY <1>2
<1> HIDE DEF groups
<1>6. \A k \in 1..groups : SubSeq(got, 1, 4 * k) \in Seq(Byte)
  BY <1>4, <1>5, SubSeqProperties
<1>7. [k \in 1..groups |-> SubSeq(got, 1, 4 * k)] \in Seq(Seq(Byte))
  <2>1. [k \in 1..groups |-> SubSeq(got, 1, 4 * k)] \in [1..groups -> Seq(Byte)]
    BY <1>6
  <2> DEFINE S == Seq(Byte)
  <2>2. \A g \in Nat : \A f \in [1..g -> S] : f \in Seq(S)
    <3> HIDE DEF S
    <3> QED
      BY SeqDef
  <2> QED
    BY <1>4, <2>1, <2>2
<1>8. events' \in Seq(Seq(Byte))
  BY <1>3, <1>7, ConcatProperties DEF HostTypeOK
<1>9. rxBuf' \in Seq(Byte)
  BY <1>3, <1>4, <1>5, SubSeqProperties
<1>10. UNCHANGED <<wire, programData, securityData, blockCntr, dataLoaded, shown, pending>>
  BY DEF ReceiveBurst
<1> QED
  BY <1>1, <1>8, <1>9, <1>10 DEF LineTypeOK, HostTypeOK

\* What the window writes goes to the line.
LEMMA WriteType ==
  ASSUME LineTypeOK, NEW ba \in Seq(Byte), write(ba) PROVE wire' \in Seq(Byte)
BY ConcatProperties DEF LineTypeOK, write

\* What every case of serialData keeps.
HandledOK == /\ wire' \in Seq(Byte) /\ blockCntr' \in 0..NumBlocks
             /\ shown' \in Results /\ pending' \in 0..MaxPending

\* Printing a result counts a conclusion down to zero.
LEMMA PrintType ==
  ASSUME HostTypeOK, NEW result \in Results, Announce(result)
  PROVE  shown' \in Results /\ pending' \in 0..MaxPending
BY HostAssumption DEF HostTypeOK, Announce, HostAssumption

\* The ways a reply is answered: conclude, send a first block, another block, or a request.
LEMMA AnswersType ==
  ASSUME LineTypeOK, HostTypeOK
  PROVE  /\ \A r \in Results : Conclude(r) => HandledOK
         /\ \A r \in Results, cmd \in Byte : Announce(r) /\ SendFirstBlock(cmd) => HandledOK
         /\ \A r \in Results, cmd \in Byte : Continue(r, Request(cmd)) => HandledOK
         /\ \A r \in Results, cmd \in Byte :
              Continue(r, Request(cmd) \o securityData) => HandledOK
         /\ blockCntr < NumBlocks /\ SendNextBlock => HandledOK
<1> USE DEF HandledOK
<1>0. /\ programData[0] \in Seq(Byte) /\ securityData \in Seq(Byte)
      /\ \A b \in BlockIdx : programData[b] \in Seq(Byte)
  BY BlocksAreBytes, BlockBounds DEF HostTypeOK, Image
<1>1. ASSUME NEW r \in Results, Conclude(r) PROVE HandledOK
  BY <1>1, PrintType DEF Conclude, HostTypeOK, LineTypeOK
<1>2. ASSUME NEW r \in Results, NEW cmd \in Byte, Announce(r), SendFirstBlock(cmd)
      PROVE  HandledOK
  <2>1. Request(cmd) \o programData[0] \in Seq(Byte)
    BY <1>0, MessagesAreBytes, ConcatProperties
  <2>2. wire' \in Seq(Byte) /\ blockCntr' = 1
    BY <1>2, <2>1, WriteType DEF SendFirstBlock
  <2> QED
    BY <1>2, <2>2, PrintType, ProtocolAssumption DEF ProtocolAssumption
<1>3. ASSUME NEW r \in Results, NEW ba \in Seq(Byte), Continue(r, ba) PROVE HandledOK
  BY <1>3, WriteType, PrintType DEF Continue, HostTypeOK
<1>4. ASSUME blockCntr < NumBlocks, SendNextBlock PROVE HandledOK
  <2>1. blockCntr \in BlockIdx /\ blockCntr + 1 \in 0..NumBlocks
    BY <1>4, ProtocolAssumption DEF HostTypeOK, BlockIdx, ProtocolAssumption
  <2>2. wire' \in Seq(Byte)
    BY <1>0, <1>4, <2>1, WriteType DEF SendNextBlock
  <2> QED
    BY <1>4, <2>1, <2>2 DEF SendNextBlock, HostTypeOK
<1>5. \A cmd \in Byte : /\ Request(cmd) \in Seq(Byte)
                        /\ Request(cmd) \o securityData \in Seq(Byte)
  BY <1>0, MessagesAreBytes, ConcatProperties
<1> QED
  BY <1>1, <1>2, <1>3, <1>4, <1>5

\* Every case of serialData keeps the host well formed, whatever the event says.
LEMMA HandleType ==
  ASSUME LineTypeOK, HostTypeOK, NEW ba, Handle(ba) PROVE HandledOK
<1>0. /\ Failures \cup Progress \cup {"restarted"} \subseteq Results
      /\ {CmdB, CmdC, CmdD, CmdE, CmdF, CmdG, CmdX} \subseteq Byte
  BY CommandsAreBytes DEF Results, Endings, Commands, BlockCmds, SecurityCmds, PlainCmds
<1> USE DEF Failures, Progress
<1>1. CASE OnInitialized(ba)
  BY <1>0, <1>1, AnswersType DEF OnInitialized
<1>2. CASE OnErased(ba)
  BY <1>0, <1>2, AnswersType DEF OnErased
<1>3. CASE OnProgrammed(ba)
  BY <1>0, <1>3, AnswersType DEF OnProgrammed, WantsBlock
<1>4. CASE OnVerified(ba)
  BY <1>0, <1>4, AnswersType DEF OnVerified, WantsBlock
<1>5. CASE OnSecurityStored(ba)
  BY <1>0, <1>5, AnswersType DEF OnSecurityStored
<1>6. CASE OnSecurityVerified(ba)
  BY <1>0, <1>6, AnswersType DEF OnSecurityVerified
<1>7. CASE OnChecksum(ba)
  BY <1>0, <1>7, AnswersType DEF OnChecksum
<1>8. CASE OnRestarted(ba)
  BY <1>0, <1>8, AnswersType DEF OnRestarted, HandledOK, LineTypeOK, HostTypeOK
<1>9. CASE Conclude("unrecognized")
  BY <1>0, <1>9, AnswersType
<1> QED
  BY <1>1, <1>2, <1>3, <1>4, <1>5, <1>6, <1>7, <1>8, <1>9 DEF Handle

\* A file, whole, cut short or rejected, leaves a well-formed image.
LEMMA FileOpenType ==
  ASSUME LineTypeOK, HostTypeOK, NEW picture \in Images, NEW n, NEW ok \in BOOLEAN,
         fileOpen(picture, n, ok)
  PROVE  LineTypeOK' /\ HostTypeOK'
<1>1. picture.blocks \in Image /\ picture.security \in Block
  BY HostAssumption DEF HostAssumption
<1>2. programData' \in Image
  <2>1. \A b \in BlockIdx, i \in 1..BlockSize :
          picture.blocks[b][i] \in Byte /\ programData[b][i] \in Byte
    BY <1>1 DEF HostTypeOK, Image, Block
  <2>2. programData' =
          [b \in BlockIdx |->
             [i \in 1..BlockSize |-> IF b * BlockSize + i <= n
                                     THEN picture.blocks[b][i] ELSE programData[b][i]]]
    BY DEF fileOpen
  <2> QED
    BY <2>1, <2>2 DEF Image, Block
<1>3. securityData' \in Block
  <2>1. \A i \in 1..BlockSize : picture.security[i] \in Byte /\ securityData[i] \in Byte
    BY <1>1 DEF HostTypeOK, Block
  <2>2. securityData' =
          [i \in 1..BlockSize |-> IF NumBlocks * BlockSize + i <= n
                                  THEN picture.security[i] ELSE securityData[i]]
    BY DEF fileOpen
  <2> QED
    BY <2>1, <2>2 DEF Block
<1> QED
  BY <1>2, <1>3 DEF fileOpen, LineTypeOK, HostTypeOK

-----------------------------------------------------------------------------

(***************************************************************************)
(* The system.                                                             *)
(***************************************************************************)
\* A step of the host, the operator or the connector keeps every part well formed.
LEMMA SystemNextType == TypeOK /\ [Next \/ OpenFile]_vars => TypeOK'
<1> SUFFICES ASSUME LineTypeOK, FirmwareTypeOK, HostTypeOK, [Next \/ OpenFile]_vars
             PROVE  LineTypeOK' /\ FirmwareTypeOK' /\ HostTypeOK'
  BY DEF TypeOK
<1>1. CASE Programmer
  <2>1. LineTypeOK' /\ FirmwareTypeOK'
    BY <1>1, FirmwareStepType DEF Programmer
  <2>2. HostTypeOK'
    BY <1>1 DEF Programmer, hostVars, HostTypeOK
  <2> QED
    BY <2>1, <2>2
<1>2. CASE SerialThread
  BY <1>2, BurstType, FirmwareStutter DEF SerialThread
<1>3. CASE Window
  <2>1. HandledOK
    BY <1>3, HandleType DEF Window, serialData
  <2>2. events' \in Seq(Seq(Byte))
    BY <1>3, HeadTailProperties DEF Window, serialData, HostTypeOK
  <2>3. UNCHANGED <<toHost, rxBuf, programData, securityData, dataLoaded>>
    BY <1>3 DEF Window, serialData
  <2>4. FirmwareTypeOK'
    BY <1>3, FirmwareStutter DEF Window
  <2> QED
    BY <2>1, <2>2, <2>3, <2>4 DEF HandledOK, LineTypeOK, HostTypeOK
<1>4. CASE Flash
  <2>1. wire' \in Seq(Byte)
    BY <1>4, WriteType, MessagesAreBytes, CommandsAreBytes
       DEF Flash, targetFlash, Commands, PlainCmds
  <2>2. pending' \in 0..MaxPending
    BY <1>4, HostAssumption DEF Flash, targetFlash, HostTypeOK, HostAssumption
  <2>3. UNCHANGED <<toHost, rxBuf, events, programData, securityData, blockCntr,
                    dataLoaded, shown>>
    BY <1>4 DEF Flash, targetFlash
  <2>4. FirmwareTypeOK'
    BY <1>4, FirmwareStutter DEF Flash
  <2> QED
    BY <2>1, <2>2, <2>3, <2>4 DEF LineTypeOK, HostTypeOK
<1>5. CASE OpenFile
  BY <1>5, FileOpenType, FirmwareStutter DEF OpenFile
<1>6. CASE SwapTarget
  <2>1. TargetTypeOK'
    BY <1>6, ReplaceTargetType DEF SwapTarget
  <2> QED
    BY <1>6, <2>1
       DEF SwapTarget, lineVars, threadVars, hostVars, LineTypeOK, FirmwareTypeOK, HostTypeOK
<1>7. CASE UNCHANGED vars
  <2>1. UNCHANGED <<iqueue, threadVars, targetVars>>
    BY <1>7 DEF vars, lineVars
  <2> QED
    BY <1>7, <2>1, FirmwareStutter DEF vars, lineVars, hostVars, LineTypeOK, HostTypeOK
<1> QED
  BY <1>1, <1>2, <1>3, <1>4, <1>5, <1>6, <1>7 DEF Next, System, PatientOperator

\* The flashing system is well typed under the patient operator: block counters stay
\* inside the bank on both sides, the receive queue inside its buffer, and the thread
\* never works on a command it did not read or on a block that is not complete.
THEOREM TypeCorrect == Spec => []TypeOK
<1>1. TypeOK /\ [Next]_vars => TypeOK'
  BY SystemNextType
<1> QED
  BY SystemInitType, <1>1, PTL DEF Spec

\* It stays so when files are opened in the middle of a sequence.
THEOREM CuriousTypeCorrect == CuriousSpec => []TypeOK
<1>1. TypeOK /\ [CuriousNext]_vars => TypeOK'
  BY SystemNextType DEF CuriousNext, Next, PatientOperator
<1> QED
  BY SystemInitType, <1>1, PTL DEF CuriousSpec

-----------------------------------------------------------------------------

(***************************************************************************)
(* The turns.                                                              *)
(***************************************************************************)
\* The reply on its way to the window, in whatever pieces it is.
Outbound == rxBuf \o toHost

NoReply == events = <<>> /\ Outbound = <<>>

ReplyIs(reply) ==
  \/ events = <<reply>> /\ Outbound = <<>>
  \/ events = <<>> /\ Outbound = reply

\* The commands the window sends, and those of them that data follows.
HostCmds == Commands \ {CmdZ}

DataCmds == BlockCmds \cup SecurityCmds

Args     == {Plus, Zero, One, Two}

Payload(cmd) == IF cmd \in DataCmds THEN Block ELSE {<<>>}

\* What the window shows while it waits for the reply to a command.
Before(cmd) ==
  CASE cmd = CmdB -> {"initialized"}
    [] cmd = CmdC -> {"erased"}
    [] cmd = CmdD -> {"programmed"}
    [] cmd = CmdE -> {"verified"}
    [] cmd = CmdF -> {"securityStored"}
    [] cmd = CmdG -> {"securityVerified"}
    [] cmd = CmdX -> {"checksumVerified"}
    [] OTHER -> Endings \cup {"nothing"}

\* While a block is on its way the window counts one ahead of the firmware.
InStep(cmd) ==
  cmd \in BlockCmds =>
    blockCntr = IF pc \in {"readID", "readTrm"} THEN 1 ELSE blockNum + 1

Asked(cmd, data) ==
  /\ NoReply /\ pending = 1 /\ shown \in Before(cmd) /\ InStep(cmd)
  /\ pc # "readID" => cmdID = cmd
  /\ \/ pc = "readID"   /\ Inbound = Request(cmd) \o data
     \/ pc = "readTrm"  /\ Inbound = <<NL>> \o data
     \/ pc = "readData" /\ dataOUT \o Inbound = data /\ cmd \in DataCmds
     \/ pc = "work"     /\ Inbound = <<>> /\ (cmd \in DataCmds => dataOUT = data)

Answered(cmd, arg) ==
  /\ Inbound = <<>> /\ pending = 1 /\ shown \in Before(cmd) /\ ReplyIs(Reply(cmd, arg))
  /\ cmd = CmdX => arg = Zero
  /\ IF arg = Plus
     THEN /\ pc = "readData" /\ cmdID = cmd /\ cmd \in BlockCmds
          /\ dataOUT = <<>> /\ blockCntr = blockNum
     ELSE pc = "readID"

Quiet ==
  NoReply /\ Inbound = <<>> /\ pc = "readID" /\ pending = 0 /\ shown \in Before(CmdA)

Turn ==
  \/ Quiet
  \/ \E cmd \in HostCmds : \/ \E data \in Payload(cmd) : Asked(cmd, data)
                           \/ \E arg \in Args : Answered(cmd, arg)

-----------------------------------------------------------------------------

(***************************************************************************)
(* The two directions of the line.                                         *)
(***************************************************************************)
\* Everything on the line is bytes.
LEMMA LineBytes ==
  ASSUME TypeOK
  PROVE  /\ wire \in Seq(Byte) /\ iqueue \in Seq(Byte) /\ Inbound \in Seq(Byte)
         /\ toHost \in Seq(Byte) /\ rxBuf \in Seq(Byte) /\ Outbound \in Seq(Byte)
         /\ events \in Seq(Seq(Byte))
         /\ Len(Inbound) = Len(iqueue) + Len(wire)
         /\ Len(Outbound) = Len(rxBuf) + Len(toHost)
<1>1. /\ wire \in Seq(Byte) /\ iqueue \in Seq(Byte)
      /\ toHost \in Seq(Byte) /\ rxBuf \in Seq(Byte)
      /\ events \in Seq(Seq(Byte))
  BY DEF TypeOK, LineTypeOK, FirmwareTypeOK, HostTypeOK
<1> QED
  BY <1>1, ConcatProperties DEF Inbound, Outbound

\* Bytes in a row can be grouped in any way.
LEMMA Regrouped ==
  \A s, t, u \in Seq(Byte) : (s \o t) \o u = s \o (t \o u)
<1> DEFINE B == Byte
<1> HIDE DEF B
<1>1. \A s, t, u \in Seq(B) : (s \o t) \o u = s \o (t \o u)
  BY ConcatAssociative
<1> QED
  BY <1>1 DEF B

\* Nothing is on the way where both ends are empty.
LEMMA NothingOnTheWay ==
  ASSUME TypeOK
  PROVE  /\ Inbound = <<>> <=> wire = <<>> /\ iqueue = <<>>
         /\ Outbound = <<>> <=> rxBuf = <<>> /\ toHost = <<>>
BY LineBytes, ConcatEqualIffEmpty DEF Inbound, Outbound

\* The receive interrupt finds room and moves a byte from the line to the queue: what
\* the firmware has still to read stays the same.
LEMMA Delivered ==
  ASSUME TypeOK, sdIncomingDataI, Len(Inbound) <= QueueSize
  PROVE  Inbound' = Inbound
<1>1. wire # <<>> /\ wire' = Tail(wire)
  BY DEF sdIncomingDataI
<1>2. /\ Head(wire) \in Byte /\ Tail(wire) \in Seq(Byte)
      /\ Len(Tail(wire)) = Len(wire) - 1 /\ Len(wire) \in Nat /\ Len(iqueue) \in Nat
      /\ \A i \in 1..Len(Tail(wire)) : Tail(wire)[i] = wire[i + 1]
  BY <1>1, LineBytes, HeadTailProperties
<1>3. Len(iqueue) < QueueSize
  BY <1>2, LineBytes, ProtocolAssumption DEF ProtocolAssumption
<1>4. iqueue' = Append(iqueue, Head(wire))
  BY <1>3 DEF sdIncomingDataI
<1>5. <<Head(wire)>> \o Tail(wire) = wire
  BY <1>1, <1>2, LineBytes
<1>6. iqueue' = iqueue \o <<Head(wire)>>
  BY <1>2, <1>4, LineBytes, AppendIsConcat
<1>7. (iqueue \o <<Head(wire)>>) \o Tail(wire) = iqueue \o (<<Head(wire)>> \o Tail(wire))
  <2>1. iqueue \in Seq(Byte) /\ <<Head(wire)>> \in Seq(Byte) /\ Tail(wire) \in Seq(Byte)
    BY <1>2, LineBytes
  <2> QED
    BY <2>1, Regrouped
<1> QED
  BY <1>1, <1>5, <1>6, <1>7 DEF Inbound

\* chnRead takes the first of the bytes on the way.
LEMMA Taken ==
  ASSUME TypeOK, NEW b, chnRead(b)
  PROVE  Inbound # <<>> /\ b = Head(Inbound) /\ Inbound' = Tail(Inbound)
<1>1. /\ iqueue # <<>> /\ b = Head(iqueue) /\ iqueue' = Tail(iqueue) /\ wire' = wire
      /\ iqueue \in Seq(Byte) /\ wire \in Seq(Byte)
  BY LineBytes DEF chnRead
<1>2. /\ Head(iqueue \o wire) = Head(iqueue)
      /\ Tail(iqueue \o wire) = Tail(iqueue) \o wire
  BY <1>1
<1>3. Inbound # <<>>
  BY <1>1, NothingOnTheWay
<1> QED
  BY <1>1, <1>2, <1>3 DEF Inbound

\* What the window writes is on the way when nothing else is.
LEMMA Sent ==
  ASSUME TypeOK, Inbound = <<>>, NEW ba \in Seq(Byte), write(ba), UNCHANGED iqueue
  PROVE  Inbound' = ba
<1>1. wire = <<>> /\ iqueue = <<>>
  BY NothingOnTheWay
<1>2. iqueue' = <<>> /\ wire' = <<>> \o ba
  BY <1>1 DEF write
<1> QED
  BY <1>2, ConcatEmptySeq DEF Inbound

\* A reply is on the way when nothing else was.
LEMMA Replied ==
  ASSUME TypeOK, NoReply, NEW reply \in Seq(Byte), chnWrite(reply), UNCHANGED hostVars
  PROVE  ReplyIs(reply)'
<1>1. rxBuf = <<>> /\ toHost = <<>> /\ events = <<>>
  BY NothingOnTheWay DEF NoReply
<1>2. rxBuf' = <<>> /\ events' = <<>> /\ toHost' = <<>> \o reply
  BY <1>1 DEF chnWrite, hostVars
<1> QED
  BY <1>2, ConcatEmptySeq DEF ReplyIs, Outbound

\* Nothing is received when there is nothing.
LEMMA NothingReceived ==
  ASSUME TypeOK, Outbound = <<>>, NEW n \in 1..Len(toHost)
  PROVE  FALSE
BY NothingOnTheWay

\* In whatever bursts the four bytes of a reply come, they make one event that carries
\* that reply and nothing else.
LEMMA Received ==
  ASSUME TypeOK, NEW reply \in Seq(Byte), Len(reply) = 4, ReplyIs(reply),
         NEW n \in 1..Len(toHost), ReceiveBurst(n)
  PROVE  ReplyIs(reply)'
<1> DEFINE got == rxBuf \o SubSeq(toHost, 1, n)
           rest == SubSeq(toHost, n + 1, Len(toHost))
<1>1. events = <<>> /\ Outbound = reply
  BY NothingReceived DEF ReplyIs
<1>2. /\ SubSeq(toHost, 1, n) \in Seq(Byte) /\ Len(SubSeq(toHost, 1, n)) = n
      /\ rest \in Seq(Byte) /\ Len(rest) = Len(toHost) - n
  <2>1. \A i \in 1..Len(toHost) : toHost[i] \in Byte
    BY LineBytes
  <2>2. Len(toHost) \in Nat
    BY LineBytes
  <2>3. /\ SubSeq(toHost, 1, n) \in Seq(Byte) /\ Len(SubSeq(toHost, 1, n)) = n
    BY <2>1, <2>2, SubSeqProperties
  <2> QED
    BY <2>1, <2>2, <2>3, SubSeqProperties
<1>3. got \in Seq(Byte) /\ Len(got) = Len(rxBuf) + n
  BY <1>2, LineBytes, ConcatProperties
<1>4. got \o rest = reply
  <2>1. SubSeq(toHost, 1, n) \o rest = toHost
    <3>1. Len(toHost) \in Nat
      BY LineBytes
    <3>2. SubSeq(toHost, 1, n) \o rest = SubSeq(toHost, 1, Len(toHost))
      BY <3>1, LineBytes, ConcatAdjacentSubSeq
    <3>3. SubSeq(toHost, 1, Len(toHost)) = toHost
      BY LineBytes, SubSeqFull
    <3> QED
      BY <3>2, <3>3
  <2>2. got \o rest = rxBuf \o (SubSeq(toHost, 1, n) \o rest)
    <3>1. rxBuf \in Seq(Byte) /\ SubSeq(toHost, 1, n) \in Seq(Byte) /\ rest \in Seq(Byte)
      BY <1>2, LineBytes
    <3> QED
      BY <3>1, Regrouped
  <2> QED
    BY <1>1, <2>1, <2>2 DEF Outbound
<1>5. Len(got) \in Nat /\ Len(got) <= 4 /\ (Len(got) = 4 => rest = <<>>)
  <2>1. Len(rxBuf) + Len(toHost) = 4 /\ Len(rxBuf) \in Nat /\ Len(toHost) \in Nat
    <3>1. /\ rxBuf \in Seq(Byte) /\ toHost \in Seq(Byte)
          /\ Len(Outbound) = Len(rxBuf) + Len(toHost)
      BY LineBytes
    <3>2. Len(Outbound) = 4
      BY <1>1
    <3>3. Len(rxBuf) \in Nat /\ Len(toHost) \in Nat
      BY <3>1
    <3> QED
      BY <3>1, <3>2, <3>3, Zenon
  <2>2. Len(rest) \in Nat /\ (Len(rest) = 0 => rest = <<>>)
    BY <1>2
  <2> HIDE DEF got, rest
  <2> QED
    BY <1>2, <1>3, <2>1, <2>2
<1>6. /\ toHost' = rest
      /\ events' = events \o [k \in 1..(Len(got) \div 4) |-> SubSeq(got, 1, 4 * k)]
      /\ rxBuf' = SubSeq(got, 4 * (Len(got) \div 4) + 1, Len(got))
  BY DEF ReceiveBurst
<1> HIDE DEF got, rest
<1>7. CASE Len(got) = 4
  <2>1. rest = <<>> /\ got = reply
    BY <1>3, <1>4, <1>5, <1>7, ConcatEmptySeq
  <2>2. Len(got) \div 4 = 1 /\ 4 * 1 = 4 /\ 4 + 1 = 5
    BY <1>7
  <2>3. SubSeq(got, 1, 4) = got
    BY <1>3, <1>7, SubSeqFull
  <2>4. [k \in 1..1 |-> SubSeq(got, 1, 4 * k)] = <<got>>
    BY <2>2, <2>3
  <2>5. events' = <<got>>
    <3>1. events' = <<>> \o [k \in 1..1 |-> SubSeq(got, 1, 4 * k)]
      BY <1>1, <1>6, <2>2
    <3> QED
      BY <2>4, <3>1
  <2>6. rxBuf' = <<>>
    BY <1>6, <1>7, <2>2, SubSeqEmpty
  <2>7. Outbound' = <<>>
    BY <1>6, <2>1, <2>6 DEF Outbound
  <2> QED
    BY <2>1, <2>5, <2>7 DEF ReplyIs
<1>8. CASE Len(got) < 4
  <2>1. Len(got) \div 4 = 0
    BY <1>5, <1>8
  <2>2. [k \in 1..0 |-> SubSeq(got, 1, 4 * k)] = <<>>
    OBVIOUS
  <2>3. events' = <<>>
    BY <1>1, <1>6, <2>1, <2>2
  <2>4. rxBuf' = got
    BY <1>3, <1>6, <2>1, SubSeqFull
  <2>5. Outbound' = reply
    BY <1>4, <1>6, <2>4 DEF Outbound
  <2> QED
    BY <2>3, <2>5 DEF ReplyIs
<1>9. Len(got) = 4 \/ Len(got) < 4
  <2>1. \A x \in Nat : x <= 4 => x = 4 \/ x < 4
    OBVIOUS
  <2> QED
    BY <1>5, <2>1, Zenon
<1> QED
  BY <1>7, <1>8, <1>9

\* The window handles the reply that was sent, and nothing more is on the way.
LEMMA Handled ==
  ASSUME TypeOK, NEW reply, ReplyIs(reply), Window
  PROVE  /\ Handle(reply) /\ NoReply' /\ Outbound = <<>>
         /\ UNCHANGED <<iqueue, threadVars, targetVars, programData, securityData, dataLoaded>>
<1>1. events = <<reply>> /\ Outbound = <<>>
  BY DEF ReplyIs, Window, serialData
<1>2. Handle(reply) /\ events' = <<>>
  BY <1>1 DEF Window, serialData
<1>3. Outbound' = Outbound
  BY DEF Window, serialData, Outbound
<1> QED
  BY <1>1, <1>2, <1>3 DEF NoReply, Window, serialData

-----------------------------------------------------------------------------

(***************************************************************************)
(* The messages.                                                           *)
(***************************************************************************)
\* The window sends eight commands, all of them bytes.
LEMMA HostCommands ==
  /\ HostCmds = {CmdA, CmdB, CmdC, CmdD, CmdE, CmdF, CmdG, CmdX}
  /\ HostCmds \subseteq Byte /\ HostCmds \subseteq Commands
  /\ DataCmds = {CmdC, CmdD, CmdE, CmdF} /\ DataCmds \subseteq HostCmds
  /\ BlockCmds = {CmdC, CmdD} /\ SecurityCmds = {CmdE, CmdF}
  /\ HostCmds \cap PlainCmds = {CmdA, CmdB, CmdG, CmdX}
BY DEF HostCmds, DataCmds, Commands, BlockCmds, SecurityCmds, PlainCmds, Byte,
       CmdA, CmdB, CmdC, CmdD, CmdE, CmdF, CmdG, CmdX, CmdZ

\* What is shown tells which command is waited for.
LEMMA BeforeIs ==
  /\ Before(CmdA) = Endings \cup {"nothing"}
  /\ Before(CmdB) = {"initialized"}      /\ Before(CmdC) = {"erased"}
  /\ Before(CmdD) = {"programmed"}       /\ Before(CmdE) = {"verified"}
  /\ Before(CmdF) = {"securityStored"}   /\ Before(CmdG) = {"securityVerified"}
  /\ Before(CmdX) = {"checksumVerified"}
BY DEF Before, CmdA, CmdB, CmdC, CmdD, CmdE, CmdF, CmdG, CmdX

\* A result is shown before one command only.
LEMMA OneBefore ==
  ASSUME NEW cmd \in HostCmds, NEW other \in HostCmds,
         NEW result \in Before(cmd) \cap Before(other)
  PROVE  cmd = other
<1>1. ASSUME NEW c \in HostCmds, result \in Before(c)
      PROVE  \/ c = CmdA /\ result \in Endings \cup {"nothing"}
             \/ c = CmdB /\ result = "initialized"
             \/ c = CmdC /\ result = "erased"
             \/ c = CmdD /\ result = "programmed"
             \/ c = CmdE /\ result = "verified"
             \/ c = CmdF /\ result = "securityStored"
             \/ c = CmdG /\ result = "securityVerified"
             \/ c = CmdX /\ result = "checksumVerified"
  BY <1>1, HostCommands, BeforeIs
<1>2. Progress \cap (Endings \cup {"nothing"}) = {}
  BY DEF Progress, Endings, Failures
<1> QED
  BY <1>1, <1>2 DEF Progress

\* A request is read as its command, the end of the line, and its data.
LEMMA RequestParts ==
  ASSUME NEW cmd \in Byte, NEW data \in Seq(Byte)
  PROVE  /\ Request(cmd) \o data # <<>> /\ <<NL>> \o data # <<>>
         /\ Request(cmd) \o data \in Seq(Byte)
         /\ Head(Request(cmd) \o data) = cmd
         /\ Tail(Request(cmd) \o data) = <<NL>> \o data
         /\ Head(<<NL>> \o data) = NL /\ Tail(<<NL>> \o data) = data
         /\ Len(Request(cmd) \o data) = 2 + Len(data)
         /\ Len(<<NL>> \o data) = 1 + Len(data)
         /\ Request(cmd) \o <<>> = Request(cmd)
<1>1. NL \in Byte
  BY DEF NL, Byte
<1> QED
  BY <1>1 DEF Request

\* The parts of a reply.
LEMMA ReplyParts ==
  ASSUME NEW cmd \in HostCmds, NEW arg \in Args
  PROVE  /\ Reply(cmd, arg) \in Seq(Byte) /\ Len(Reply(cmd, arg)) = 4
         /\ Reply(cmd, arg)[1] = cmd /\ Reply(cmd, arg)[2] = NL
         /\ Reply(cmd, arg)[3] = arg /\ Reply(cmd, arg)[4] = NL
<1>1. cmd \in Byte /\ NL \in Byte /\ arg \in Byte
  BY HostCommands DEF NL, Args, Plus, Zero, One, Two, Byte
<1> QED
  BY <1>1 DEF Reply

\* A reply names its command and its argument.
LEMMA ReplyNames ==
  ASSUME NEW cmd \in HostCmds, NEW arg \in Args, NEW other \in HostCmds, NEW its \in Args,
         ReplyIs(Reply(cmd, arg)), ReplyIs(Reply(other, its))
  PROVE  cmd = other /\ arg = its
<1>1. \/ <<Reply(cmd, arg)>> = <<Reply(other, its)>>
      \/ Reply(cmd, arg) = Reply(other, its)
      \/ Reply(cmd, arg) = <<>> \/ Reply(other, its) = <<>>
  BY DEF ReplyIs
<1>2. Reply(cmd, arg) # <<>> /\ Reply(other, its) # <<>>
  BY ReplyParts
<1>3. Reply(cmd, arg) = Reply(other, its)
  BY <1>1, <1>2
<1> QED
  BY <1>3, ReplyParts

\* While a reply is on its way there is one.
LEMMA ReplyOrNone ==
  ASSUME NEW cmd \in HostCmds, NEW arg \in Args, ReplyIs(Reply(cmd, arg))
  PROVE  ~NoReply
<1>1. Reply(cmd, arg) # <<>>
  BY ReplyParts
<1> QED
  BY <1>1 DEF ReplyIs, NoReply

\* The data of a request is a block of bytes, or nothing.
LEMMA PayloadBytes ==
  ASSUME NEW cmd \in HostCmds, NEW data \in Payload(cmd)
  PROVE  /\ data \in Seq(Byte) /\ Len(data) \in Nat /\ Len(data) <= BlockSize
         /\ cmd \in DataCmds => Len(data) = BlockSize
         /\ cmd \notin DataCmds => data = <<>>
<1>1. CASE cmd \in DataCmds
  <2>1. data \in Block
    BY <1>1 DEF Payload
  <2>2. \A d \in Block : d \in Seq(Byte) /\ Len(d) = BlockSize
    BY ProtocolAssumption DEF Block, ProtocolAssumption
  <2> QED
    BY <1>1, <2>1, <2>2, ProtocolAssumption DEF ProtocolAssumption
<1>2. CASE cmd \notin DataCmds
  BY <1>2, ProtocolAssumption DEF Payload, ProtocolAssumption
<1> QED
  BY <1>1, <1>2

\* The receive queue has room for whatever is on the way to the firmware.
LEMMA RoomForRequest ==
  ASSUME TypeOK, NEW cmd \in HostCmds, NEW data \in Payload(cmd), Asked(cmd, data)
  PROVE  Len(Inbound) <= QueueSize
<1>1. /\ data \in Seq(Byte) /\ Len(data) \in Nat /\ Len(data) <= BlockSize
      /\ cmd \in Byte /\ BlockSize \in Nat /\ QueueSize \in Nat
      /\ QueueSize >= BlockSize + 2
  BY PayloadBytes, HostCommands, ProtocolAssumption, RoomAssumption DEF ProtocolAssumption
<1>2. CASE pc = "readID"
  BY <1>1, <1>2, RequestParts DEF Asked
<1>3. CASE pc = "readTrm"
  BY <1>1, <1>3, RequestParts DEF Asked
<1>4. CASE pc = "readData"
  <2>1. dataOUT \in Seq(Byte) /\ Inbound \in Seq(Byte) /\ dataOUT \o Inbound = data
    BY <1>4, LineBytes DEF Asked, TypeOK, FirmwareTypeOK
  <2>2. Len(Inbound) <= Len(data)
    BY <2>1
  <2>3. Len(Inbound) \in Nat
    BY <2>1
  <2> QED
    BY <1>1, <2>2, <2>3
<1>5. CASE pc = "work"
  BY <1>1, <1>5 DEF Asked
<1> QED
  BY <1>2, <1>3, <1>4, <1>5 DEF Asked

-----------------------------------------------------------------------------

(***************************************************************************)
(* The steps of a turn.                                                    *)
(***************************************************************************)
\* The steps that bring a request to the main thread without serving it.
Hears == sdIncomingDataI \/ ReadCommandID \/ ReadTerminator \/ ReadData

\* A request stays the same request while its bytes are delivered and read, one by one
\* and in any order of the interrupt and the thread, until it can be served.
LEMMA AskedHears ==
  ASSUME TypeOK, NEW cmd \in HostCmds, NEW data \in Payload(cmd), Asked(cmd, data),
         Hears, UNCHANGED hostVars
  PROVE  Asked(cmd, data)'
<1>1. NoReply' /\ pending' = 1 /\ shown' \in Before(cmd) /\ blockCntr' = blockCntr
  BY DEF Asked, NoReply, Outbound, hostVars, Hears, sdIncomingDataI, ReadCommandID,
         ReadTerminator, ReadData
<1>2. /\ cmd \in Byte /\ cmd \in Commands /\ data \in Seq(Byte) /\ Len(data) \in Nat
      /\ cmd \in DataCmds => Len(data) = BlockSize
      /\ cmd \notin DataCmds => data = <<>>
  BY PayloadBytes, HostCommands
<1>3. CASE sdIncomingDataI
  <2>1. Inbound' = Inbound
    BY <1>3, RoomForRequest, Delivered
  <2>2. UNCHANGED <<pc, cmdID, blockNum, dataOUT>>
    BY <1>3 DEF sdIncomingDataI, threadVars
  <2> QED
    BY <1>1, <2>1, <2>2 DEF Asked, InStep
<1>4. CASE ReadCommandID
  <2>1. PICK b \in Byte : chnRead(b) /\ cmdID' = b
    BY <1>4 DEF ReadCommandID
  <2>2. pc = "readID" /\ pc' = "readTrm" /\ Inbound = Request(cmd) \o data
    BY <1>4 DEF ReadCommandID, Asked
  <2>3. b = Head(Inbound) /\ Inbound' = Tail(Inbound)
    BY <2>1, Taken
  <2>4. cmdID' = cmd /\ Inbound' = <<NL>> \o data
    BY <1>2, <2>1, <2>2, <2>3, RequestParts
  <2>5. InStep(cmd)'
    BY <1>1, <2>2 DEF Asked, InStep
  <2> QED
    BY <1>1, <2>2, <2>4, <2>5 DEF Asked
<1>5. CASE ReadTerminator
  <2>1. pc = "readTrm" /\ cmdID = cmd /\ cmdID' = cmd /\ Inbound = <<NL>> \o data
    BY <1>5 DEF ReadTerminator, Asked
  <2>2. /\ chnRead(NL)
        /\ pc' = IF cmdID \notin Commands THEN "readID"
                 ELSE IF cmdID \in PlainCmds THEN "work" ELSE "readData"
        /\ blockNum' = IF cmdID \in BlockCmds THEN 0 ELSE blockNum
        /\ dataOUT' = IF cmdID \in DataCmds THEN <<>> ELSE dataOUT
    <3>1. PICK b \in Byte :
            /\ chnRead(b)
            /\ pc' = IF b # NL \/ cmdID \notin Commands THEN "readID"
                     ELSE IF cmdID \in PlainCmds THEN "work" ELSE "readData"
            /\ blockNum' = IF b = NL /\ cmdID \in BlockCmds THEN 0 ELSE blockNum
            /\ dataOUT' = IF b = NL /\ cmdID \in DataCmds THEN <<>> ELSE dataOUT
      BY <1>5 DEF ReadTerminator, DataCmds
    <3>2. b = NL
      BY <1>2, <2>1, <3>1, Taken, RequestParts
    <3> QED
      BY <3>1, <3>2
  <2>3. Inbound' = data
    BY <1>2, <2>1, <2>2, Taken, RequestParts
  <2>4. CASE cmd \in DataCmds
    <3>1. cmd \notin PlainCmds
      BY <2>4, CommandsAreBytes DEF DataCmds
    <3>2. pc' = "readData" /\ dataOUT' = <<>>
      BY <1>2, <2>1, <2>2, <2>4, <3>1
    <3>3. dataOUT' \o Inbound' = data
      BY <1>2, <2>3, <3>2, ConcatEmptySeq
    <3>4. InStep(cmd)'
      <4>1. cmd \in BlockCmds => blockNum' = 0 /\ blockCntr' = 1
        BY <1>1, <2>1, <2>2 DEF Asked, InStep
      <4> QED
        BY <3>2, <4>1 DEF InStep
    <3> QED
      BY <1>1, <2>1, <2>4, <3>2, <3>3, <3>4 DEF Asked
  <2>5. CASE cmd \notin DataCmds
    <3>1. cmd \in PlainCmds /\ cmd \notin BlockCmds
      BY <1>2, <2>5 DEF Commands, DataCmds
    <3>2. pc' = "work" /\ Inbound' = <<>>
      BY <1>2, <2>1, <2>2, <2>3, <2>5, <3>1
    <3> QED
      BY <1>1, <2>1, <2>5, <3>1, <3>2 DEF Asked, InStep
  <2> QED
    BY <2>4, <2>5
<1>6. CASE ReadData
  <2>1. PICK b \in Byte : chnRead(b) /\ dataOUT' = Append(dataOUT, b)
    BY <1>6 DEF ReadData
  <2>2. /\ pc = "readData" /\ cmdID = cmd /\ cmdID' = cmd /\ cmd \in DataCmds
        /\ dataOUT \o Inbound = data /\ blockNum' = blockNum
        /\ pc' = IF Len(dataOUT) + 1 = BlockSize THEN "work" ELSE "readData"
    BY <1>6 DEF ReadData, Asked
  <2>3. Inbound # <<>> /\ b = Head(Inbound) /\ Inbound' = Tail(Inbound)
    BY <2>1, Taken
  <2>4. dataOUT \in Seq(Byte) /\ Inbound \in Seq(Byte)
    BY LineBytes DEF TypeOK, FirmwareTypeOK
  <2>5. /\ dataOUT' \in Seq(Byte) /\ Inbound' \in Seq(Byte)
        /\ dataOUT' \o Inbound' = data /\ Len(dataOUT') = Len(dataOUT) + 1
    <3>1. Tail(Inbound) \in Seq(Byte) /\ <<b>> \in Seq(Byte)
      BY <2>3, <2>4, HeadTailProperties
    <3>2. dataOUT' = dataOUT \o <<b>> /\ Len(dataOUT') = Len(dataOUT) + 1
      BY <2>1, <2>4, AppendIsConcat
    <3>3. <<b>> \o Tail(Inbound) = Inbound
      BY <2>3, <2>4
    <3>4. (dataOUT \o <<b>>) \o Tail(Inbound) = dataOUT \o (<<b>> \o Tail(Inbound))
      BY <2>4, <3>1, Regrouped
    <3>5. dataOUT' \in Seq(Byte)
      BY <2>4, <3>1, <3>2, ConcatProperties
    <3> QED
      BY <2>2, <2>3, <3>1, <3>2, <3>3, <3>4, <3>5
  <2>6. InStep(cmd)'
    BY <1>1, <2>2 DEF Asked, InStep
  <2>7. CASE Len(dataOUT) + 1 = BlockSize
    <3>1. pc' = "work" /\ Len(dataOUT') = Len(data)
      BY <1>2, <2>2, <2>5, <2>7
    <3>2. Inbound' = <<>> /\ dataOUT' = data
      <4>1. \A s, t \in Seq(Byte) : Len(s) = Len(s \o t) => t = <<>> /\ s = s \o t
        OBVIOUS
      <4> QED
        BY <2>5, <3>1, <4>1
    <3> QED
      BY <1>1, <2>2, <2>6, <3>1, <3>2 DEF Asked
  <2>8. CASE Len(dataOUT) + 1 # BlockSize
    BY <1>1, <2>2, <2>5, <2>6, <2>8 DEF Asked
  <2> QED
    BY <2>7, <2>8
<1> QED
  BY <1>3, <1>4, <1>5, <1>6 DEF Hears

\* The thread serves the command that was asked, on the data that was sent with it.
LEMMA AskedAt ==
  ASSUME TypeOK, NEW cmd \in HostCmds, NEW data \in Payload(cmd), Asked(cmd, data),
         NEW other \in Commands, At(other)
  PROVE  /\ other = cmd /\ NoReply /\ Inbound = <<>> /\ InStep(cmd)
         /\ pc = "work" /\ (cmd \in DataCmds => dataOUT = data)
         /\ cmd \in BlockCmds => blockCntr = blockNum + 1
BY DEF At, Asked, InStep

\* A command that is done has answered.
LEMMA DoneAnswers ==
  ASSUME TypeOK, NEW cmd \in HostCmds, NEW data \in Payload(cmd), Asked(cmd, data),
         At(cmd), NEW arg \in Args \ {Plus}, Done(arg), cmd = CmdX => arg = Zero,
         UNCHANGED hostVars
  PROVE  Answered(cmd, arg)'
<1>1. cmd \in Commands /\ arg \in Args
  BY HostCommands
<1>2. NoReply /\ Inbound = <<>>
  BY <1>1, AskedAt
<1>3. chnWrite(Reply(cmd, arg)) /\ pc' = "readID" /\ Inbound' = Inbound
  BY DEF Done, At, Inbound
<1>4. ReplyIs(Reply(cmd, arg))'
  BY <1>1, <1>2, <1>3, ReplyParts, Replied
<1>5. pending' = 1 /\ shown' \in Before(cmd)
  BY DEF Asked, hostVars
<1>6. arg # Plus
  OBVIOUS
<1> QED
  BY <1>2, <1>3, <1>4, <1>5, <1>6 DEF Answered

\* After a block the thread asks for the next one, or it is done.
GoesOn(cmd, ok) ==
  IF ok /\ blockNum < NumBlocks - 1
  THEN Answered(cmd, Plus)' /\ blockNum' = blockNum + 1
  ELSE /\ Answered(cmd, Outcome(ok))'
       /\ blockNum' = IF ok THEN blockNum + 1 ELSE blockNum

\* nextBlock answers a block command by asking for the next block or by ending.
LEMMA NextBlockAnswers ==
  ASSUME TypeOK, NEW cmd \in BlockCmds, NEW data \in Payload(cmd), Asked(cmd, data),
         At(cmd), NEW ok \in BOOLEAN, NextBlock(ok), UNCHANGED hostVars
  PROVE  GoesOn(cmd, ok)
<1>0. cmd \in HostCmds /\ cmd # CmdX /\ cmd \in Commands /\ Plus \in Args
  BY HostCommands DEF CmdC, CmdD, CmdX, Args
<1>1. CASE ok /\ blockNum < NumBlocks - 1
  <2>1. /\ chnWrite(Reply(cmd, Plus)) /\ pc' = "readData" /\ dataOUT' = <<>>
        /\ blockNum' = blockNum + 1 /\ cmdID' = cmd /\ Inbound' = Inbound
    BY <1>1 DEF NextBlock, At, Inbound
  <2>2. NoReply /\ Inbound = <<>> /\ blockCntr = blockNum + 1
    BY <1>0, AskedAt
  <2>3. ReplyIs(Reply(cmd, Plus))'
    BY <1>0, <2>1, <2>2, ReplyParts, Replied
  <2>4. pending' = 1 /\ shown' \in Before(cmd) /\ blockCntr' = blockCntr
    BY DEF Asked, hostVars
  <2>5. Answered(cmd, Plus)'
    BY <1>0, <2>1, <2>2, <2>3, <2>4 DEF Answered
  <2> QED
    BY <1>1, <2>1, <2>5 DEF GoesOn
<1>2. CASE ~(ok /\ blockNum < NumBlocks - 1)
  <2>1. Done(Outcome(ok)) /\ blockNum' = IF ok THEN blockNum + 1 ELSE blockNum
    BY <1>2 DEF NextBlock
  <2>2. Outcome(ok) \in Args \ {Plus}
    BY DEF Outcome, Args, Zero, One, Plus
  <2>3. Answered(cmd, Outcome(ok))'
    BY <1>0, <2>1, <2>2, DoneAnswers
  <2> QED
    BY <1>2, <2>1, <2>3 DEF GoesOn
<1> QED
  BY <1>1, <1>2

\* What the thread does to the chip for each command, and what it answers.
Initializes ==
  /\ \/ targetInitialize(FALSE) /\ Answered(CmdA, One)'
     \/ /\ targetInitialize(TRUE)
        /\ \E ok \in BOOLEAN : /\ targetSiliconIDVerify(ok)
                               /\ Answered(CmdA, IF ok THEN Zero ELSE Two)'
  /\ UNCHANGED <<blockNum, checksum>>

Erases ==
  /\ \E ok \in BOOLEAN : targetErase(ok) /\ Answered(CmdB, Outcome(ok))'
  /\ UNCHANGED <<blockNum, checksum>>

SumWith(data) == (checksum + BlockSum(data)) % 65536

Programs(data) ==
  /\ checksum' = SumWith(data)
  /\ \E ok \in BOOLEAN : targetBlockProgram(blockNum, data, ok) /\ GoesOn(CmdC, ok)

Verifies(data) ==
  /\ \E ok \in BOOLEAN : targetBlockVerify(blockNum, data, ok) /\ GoesOn(CmdD, ok)
  /\ UNCHANGED checksum

Secures(data) ==
  /\ \E ok \in BOOLEAN : targetSecurityFlash(data, ok) /\ Answered(CmdE, Outcome(ok))'
  /\ UNCHANGED <<blockNum, checksum>>

ChecksSecurity(data) ==
  /\ \E ok \in BOOLEAN : targetSecurityVerify(data, ok) /\ Answered(CmdF, Outcome(ok))'
  /\ UNCHANGED <<blockNum, checksum>>

Compares ==
  /\ \/ targetBankChecksumGet(FALSE, 0) /\ Answered(CmdG, One)'
     \/ \E sum \in ReportedSums :
          /\ targetBankChecksumGet(TRUE, sum)
          /\ Answered(CmdG, IF sum = checksum THEN Zero ELSE Two)'
  /\ UNCHANGED <<blockNum, checksum>>

Restarts ==
  /\ targetReStart /\ Answered(CmdX, Zero)'
  /\ UNCHANGED <<blockNum, checksum>>

Serves(cmd, data) ==
  \/ cmd = CmdA /\ Initializes
  \/ cmd = CmdB /\ Erases
  \/ cmd = CmdC /\ Programs(data)
  \/ cmd = CmdD /\ Verifies(data)
  \/ cmd = CmdE /\ Secures(data)
  \/ cmd = CmdF /\ ChecksSecurity(data)
  \/ cmd = CmdG /\ Compares
  \/ cmd = CmdX /\ Restarts

\* Each case of the switch works on the data that was sent, and answers once.
LEMMA AskedServed ==
  ASSUME TypeOK, NEW cmd \in HostCmds, NEW data \in Payload(cmd), Asked(cmd, data),
         Work, UNCHANGED hostVars
  PROVE  Serves(cmd, data)
<1>0. /\ {Zero, One, Two} = Args \ {Plus}
      /\ \A ok \in BOOLEAN : Outcome(ok) \in {Zero, One, Two}
      /\ CmdX \notin {CmdA, CmdB, CmdE, CmdF, CmdG}
      /\ {CmdA, CmdB, CmdC, CmdD, CmdE, CmdF, CmdG, CmdX} \subseteq Commands
  BY HostCommands DEF Args, Outcome, Zero, One, Two, Plus,
       CmdA, CmdB, CmdE, CmdF, CmdG, CmdX
<1>1. ASSUME NEW c \in {CmdA, CmdB, CmdC, CmdD, CmdE, CmdF, CmdG, CmdX}, At(c)
      PROVE  c = cmd /\ (c \in DataCmds => dataOUT = data)
  BY <1>0, <1>1, AskedAt
<1>2. ASSUME NEW c \in {CmdA, CmdB, CmdE, CmdF, CmdG}, At(c),
             NEW arg \in {Zero, One, Two}, Done(arg)
      PROVE  Answered(cmd, arg)'
  <2>1. c = cmd /\ cmd # CmdX
    BY <1>0, <1>1, <1>2
  <2> QED
    BY <1>0, <1>2, <2>1, DoneAnswers
<1>3. ASSUME NEW c \in BlockCmds, At(c), NEW ok \in BOOLEAN, NextBlock(ok)
      PROVE  GoesOn(cmd, ok)
  <2>1. c = cmd
    BY <1>1, <1>3, HostCommands
  <2> QED
    BY <1>3, <2>1, NextBlockAnswers
<1>4. CASE Initialize
  <2>1. At(CmdA) /\ cmd = CmdA
    BY <1>1, <1>4 DEF Initialize
  <2>2. \/ targetInitialize(FALSE) /\ Done(One)
        \/ targetInitialize(TRUE)
           /\ \E ok \in BOOLEAN : targetSiliconIDVerify(ok)
                                  /\ Done(IF ok THEN Zero ELSE Two)
    BY <1>4 DEF Initialize
  <2>3. \A arg \in {Zero, One, Two} : Done(arg) => Answered(cmd, arg)'
    BY <1>2, <2>1
  <2>4. UNCHANGED <<blockNum, checksum>>
    BY <1>4 DEF Initialize
  <2>5. Initializes
    BY <2>1, <2>2, <2>3, <2>4 DEF Initializes
  <2> QED
    BY <2>1, <2>5 DEF Serves
<1>5. CASE Erase
  <2>1. At(CmdB) /\ cmd = CmdB
    BY <1>1, <1>5 DEF Erase
  <2>2. \A arg \in {Zero, One, Two} : Done(arg) => Answered(cmd, arg)'
    BY <1>2, <2>1
  <2>3. Erases
    BY <1>0, <1>5, <2>1, <2>2 DEF Erase, Erases
  <2> QED
    BY <2>1, <2>3 DEF Serves
<1>6. CASE ProgramBlock
  <2>1. At(CmdC) /\ cmd = CmdC /\ dataOUT = data /\ CmdC \in BlockCmds
    BY <1>1, <1>6, HostCommands DEF ProgramBlock
  <2>2. PICK ok \in BOOLEAN : targetBlockProgram(blockNum, dataOUT, ok) /\ NextBlock(ok)
    BY <1>6 DEF ProgramBlock
  <2>3. GoesOn(cmd, ok)
    BY <1>3, <2>1, <2>2
  <2>4. checksum' = SumWith(data)
    <3>1. checksum' = SumWith(dataOUT)
      BY <1>6 DEF ProgramBlock, SumWith
    <3> QED
      BY <2>1, <3>1
  <2>5. Programs(data)
    BY <2>1, <2>2, <2>3, <2>4 DEF Programs
  <2> QED
    BY <2>1, <2>5 DEF Serves
<1>7. CASE VerifyBlock
  <2>1. At(CmdD) /\ cmd = CmdD /\ dataOUT = data /\ CmdD \in BlockCmds
    BY <1>1, <1>7, HostCommands DEF VerifyBlock
  <2>2. PICK ok \in BOOLEAN : targetBlockVerify(blockNum, dataOUT, ok) /\ NextBlock(ok)
    BY <1>7 DEF VerifyBlock
  <2>3. GoesOn(cmd, ok)
    BY <1>3, <2>1, <2>2
  <2>4. Verifies(data)
    BY <1>7, <2>1, <2>2, <2>3 DEF VerifyBlock, Verifies
  <2> QED
    BY <2>1, <2>4 DEF Serves
<1>8. CASE ProgramSecurity
  <2>1. At(CmdE) /\ cmd = CmdE /\ dataOUT = data
    BY <1>1, <1>8, HostCommands DEF ProgramSecurity
  <2>2. \A arg \in {Zero, One, Two} : Done(arg) => Answered(cmd, arg)'
    BY <1>2, <2>1
  <2>3. Secures(data)
    BY <1>0, <1>8, <2>1, <2>2 DEF ProgramSecurity, Secures
  <2> QED
    BY <2>1, <2>3 DEF Serves
<1>9. CASE VerifySecurity
  <2>1. At(CmdF) /\ cmd = CmdF /\ dataOUT = data
    BY <1>1, <1>9, HostCommands DEF VerifySecurity
  <2>2. \A arg \in {Zero, One, Two} : Done(arg) => Answered(cmd, arg)'
    BY <1>2, <2>1
  <2>3. ChecksSecurity(data)
    BY <1>0, <1>9, <2>1, <2>2 DEF VerifySecurity, ChecksSecurity
  <2> QED
    BY <2>1, <2>3 DEF Serves
<1>10. CASE VerifyChecksum
  <2>1. At(CmdG) /\ cmd = CmdG
    BY <1>1, <1>10 DEF VerifyChecksum
  <2>2. \A arg \in {Zero, One, Two} : Done(arg) => Answered(cmd, arg)'
    BY <1>2, <2>1
  <2>3. Compares
    BY <1>10, <2>1, <2>2 DEF VerifyChecksum, Compares
  <2> QED
    BY <2>1, <2>3 DEF Serves
<1>11. CASE Restart
  <2>1. At(CmdX) /\ Done(Zero) /\ Zero \in Args \ {Plus}
    BY <1>0, <1>11 DEF Restart
  <2>2. CmdX = cmd
    BY <1>1, <2>1
  <2>3. Answered(cmd, Zero)'
    BY <2>1, <2>2, DoneAnswers
  <2>4. Restarts
    BY <1>11, <2>2, <2>3 DEF Restart, Restarts
  <2> QED
    BY <2>2, <2>4 DEF Serves
<1> QED
  BY <1>4, <1>5, <1>6, <1>7, <1>8, <1>9, <1>10, <1>11 DEF Work

\* Whatever it does, it answers.
LEMMA ServedAnswers ==
  ASSUME NEW cmd \in HostCmds, NEW data, Serves(cmd, data)
  PROVE  \E arg \in Args : Answered(cmd, arg)'
<1>1. {Plus, Zero, One, Two} \subseteq Args /\ \A ok \in BOOLEAN : Outcome(ok) \in Args
  BY DEF Outcome, Args
<1>2. CASE cmd = CmdA /\ Initializes
  BY <1>1, <1>2 DEF Initializes
<1>3. CASE cmd = CmdB /\ Erases
  BY <1>1, <1>3 DEF Erases
<1>4. CASE cmd = CmdC /\ Programs(data)
  <2>1. \E ok \in BOOLEAN : GoesOn(cmd, ok)
    BY <1>4 DEF Programs
  <2> QED
    BY <1>1, <2>1 DEF GoesOn
<1>5. CASE cmd = CmdD /\ Verifies(data)
  BY <1>1, <1>5 DEF Verifies, GoesOn
<1>6. CASE cmd = CmdE /\ Secures(data)
  BY <1>1, <1>6 DEF Secures
<1>7. CASE cmd = CmdF /\ ChecksSecurity(data)
  BY <1>1, <1>7 DEF ChecksSecurity
<1>8. CASE cmd = CmdG /\ Compares
  BY <1>1, <1>8 DEF Compares
<1>9. CASE cmd = CmdX /\ Restarts
  BY <1>1, <1>9 DEF Restarts
<1> QED
  BY <1>2, <1>3, <1>4, <1>5, <1>6, <1>7, <1>8, <1>9 DEF Serves

\* The window never sends "z": the programmer is not reset in the middle of a turn.
LEMMA NeverReset ==
  ASSUME TypeOK, Turn, ResetProgrammer
  PROVE  FALSE
<1>1. pc = "work" /\ cmdID = CmdZ
  BY DEF ResetProgrammer
<1>2. \A cmd \in HostCmds : \A data, arg : ~Asked(cmd, data) /\ ~Answered(cmd, arg)
  BY <1>1 DEF HostCmds, Asked, Answered
<1> QED
  BY <1>1, <1>2 DEF Turn, Quiet

\* Every case of the switch starts where the thread has what it works on.
LEMMA NothingToWork ==
  ASSUME pc # "work"
  PROVE  ~Work
<1>1. \A c : ~At(c)
  BY DEF At
<1>2. ~Initialize
  BY <1>1 DEF Initialize
<1>3. ~Erase
  BY <1>1 DEF Erase
<1>4. ~ProgramBlock
  BY <1>1 DEF ProgramBlock
<1>5. ~VerifyBlock
  BY <1>1 DEF VerifyBlock
<1>6. ~ProgramSecurity /\ ~VerifySecurity /\ ~VerifyChecksum /\ ~Restart
  BY <1>1 DEF ProgramSecurity, VerifySecurity, VerifyChecksum, Restart
<1> QED
  BY <1>2, <1>3, <1>4, <1>5, <1>6 DEF Work

\* The firmware has nothing to do until the next request comes.
LEMMA NothingToDo ==
  ASSUME TypeOK, Inbound = <<>>, pc # "work", FirmwareNext
  PROVE  FALSE
<1>1. ~sdIncomingDataI
  BY NothingOnTheWay DEF sdIncomingDataI
<1>2. ~ReadCommandID /\ ~ReadTerminator /\ ~ReadData
  <2>1. \A b : ~chnRead(b)
    BY Taken
  <2> QED
    BY <2>1 DEF ReadCommandID, ReadTerminator, ReadData
<1>3. ~Work /\ ~ResetProgrammer
  BY NothingToWork DEF ResetProgrammer
<1> QED
  BY <1>1, <1>2, <1>3 DEF FirmwareNext, MainThread

\* The window has nothing to do until a reply comes.
LEMMA NothingToHear ==
  ASSUME TypeOK, NoReply, SerialThread \/ Window
  PROVE  FALSE
BY NothingReceived DEF NoReply, SerialThread, Window, serialData

-----------------------------------------------------------------------------

(***************************************************************************)
(* What the window says next.                                              *)
(***************************************************************************)
\* The command that follows another one in the sequence.
Sequel == {<<CmdA, CmdB>>, <<CmdB, CmdC>>, <<CmdC, CmdD>>, <<CmdD, CmdE>>,
           <<CmdE, CmdF>>, <<CmdF, CmdG>>, <<CmdG, CmdX>>}

\* The data the window sends with a command.
Expected(cmd) ==
  IF cmd \in BlockCmds THEN programData[blockCntr - 1]
  ELSE IF cmd \in SecurityCmds THEN securityData ELSE <<>>

\* The case of MainWindow::serialData that a reply leads to, and the branch it takes.
LEMMA HandleIs ==
  ASSUME TypeOK, NEW cmd \in HostCmds, NEW arg \in Args, Handle(Reply(cmd, arg)),
         arg = Plus => cmd \in BlockCmds /\ blockCntr < NumBlocks
  PROVE  /\ arg = Plus => SendNextBlock
         /\ cmd = CmdA /\ arg # Plus =>
              IF arg = Zero THEN Continue("initialized", Request(CmdB))
                            ELSE Conclude("initFailed")
         /\ cmd = CmdB /\ arg # Plus =>
              IF arg = Zero THEN Announce("erased") /\ SendFirstBlock(CmdC)
                            ELSE Conclude("eraseFailed")
         /\ cmd = CmdC /\ arg # Plus =>
              IF arg = Zero THEN Announce("programmed") /\ SendFirstBlock(CmdD)
                            ELSE Conclude("programFailed")
         /\ cmd = CmdD /\ arg # Plus =>
              IF arg = Zero THEN Continue("verified", Request(CmdE) \o securityData)
                            ELSE Conclude("verifyFailed")
         /\ cmd = CmdE /\ arg # Plus =>
              IF arg = Zero THEN Continue("securityStored", Request(CmdF) \o securityData)
                            ELSE Conclude("securityFailed")
         /\ cmd = CmdF /\ arg # Plus =>
              IF arg = Zero THEN Continue("securityVerified", Request(CmdG))
                            ELSE Conclude("securityIncorrect")
         /\ cmd = CmdG /\ arg # Plus =>
              IF arg = Zero THEN Continue("checksumVerified", Request(CmdX))
                            ELSE Conclude("checksumFailed")
         /\ cmd = CmdX /\ arg = Zero => Conclude("restarted")
<1> DEFINE ba == Reply(cmd, arg)
<1>1. /\ ba[1] = cmd /\ ba[2] = NL /\ ba[3] = arg /\ ba[4] = NL
  BY ReplyParts
<1> HIDE DEF ba
<1>2. /\ Succeeded(ba) <=> arg = Zero
      /\ WantsBlock(ba) <=> arg = Plus /\ blockCntr < NumBlocks
      /\ cmd \in Letter /\ Plus # Zero
  BY <1>1, HostCommands DEF Succeeded, WantsBlock, Letter, CmdA, CmdB, CmdC, CmdD, CmdE,
     CmdF, CmdG, CmdX, Plus, Zero
<1>3. CASE cmd = CmdA
  <2>1. OnInitialized(ba)
    BY <1>1, <1>2, <1>3 DEF Handle, ba, CmdA, CmdB, CmdC, CmdD, CmdE, CmdF, CmdG, CmdX
  <2> QED
    BY <1>2, <1>3, <2>1, HostCommands
       DEF OnInitialized, CmdA, CmdB, CmdC, CmdD, CmdE, CmdF, CmdG, CmdX
<1>4. CASE cmd = CmdB
  <2>1. OnErased(ba)
    BY <1>1, <1>2, <1>4 DEF Handle, ba, CmdA, CmdB, CmdC, CmdD, CmdE, CmdF, CmdG, CmdX
  <2> QED
    BY <1>2, <1>4, <2>1, HostCommands
       DEF OnErased, CmdA, CmdB, CmdC, CmdD, CmdE, CmdF, CmdG, CmdX
<1>5. CASE cmd = CmdC
  <2>1. OnProgrammed(ba)
    BY <1>1, <1>2, <1>5 DEF Handle, ba, CmdA, CmdB, CmdC, CmdD, CmdE, CmdF, CmdG, CmdX
  <2> QED
    BY <1>2, <1>5, <2>1 DEF OnProgrammed, CmdA, CmdB, CmdC, CmdD, CmdE, CmdF, CmdG, CmdX
<1>6. CASE cmd = CmdD
  <2>1. OnVerified(ba)
    BY <1>1, <1>2, <1>6 DEF Handle, ba, CmdA, CmdB, CmdC, CmdD, CmdE, CmdF, CmdG, CmdX
  <2> QED
    BY <1>2, <1>6, <2>1 DEF OnVerified, CmdA, CmdB, CmdC, CmdD, CmdE, CmdF, CmdG, CmdX
<1>7. CASE cmd = CmdE
  <2>1. OnSecurityStored(ba)
    BY <1>1, <1>2, <1>7 DEF Handle, ba, CmdA, CmdB, CmdC, CmdD, CmdE, CmdF, CmdG, CmdX
  <2> QED
    BY <1>2, <1>7, <2>1, HostCommands
       DEF OnSecurityStored, CmdA, CmdB, CmdC, CmdD, CmdE, CmdF, CmdG, CmdX
<1>8. CASE cmd = CmdF
  <2>1. OnSecurityVerified(ba)
    BY <1>1, <1>2, <1>8 DEF Handle, ba, CmdA, CmdB, CmdC, CmdD, CmdE, CmdF, CmdG, CmdX
  <2> QED
    BY <1>2, <1>8, <2>1, HostCommands
       DEF OnSecurityVerified, CmdA, CmdB, CmdC, CmdD, CmdE, CmdF, CmdG, CmdX
<1>9. CASE cmd = CmdG
  <2>1. OnChecksum(ba)
    BY <1>1, <1>2, <1>9 DEF Handle, ba, CmdA, CmdB, CmdC, CmdD, CmdE, CmdF, CmdG, CmdX
  <2> QED
    BY <1>2, <1>9, <2>1, HostCommands
       DEF OnChecksum, CmdA, CmdB, CmdC, CmdD, CmdE, CmdF, CmdG, CmdX
<1>10. CASE cmd = CmdX
  <2>1. OnRestarted(ba)
    BY <1>1, <1>2, <1>10 DEF Handle, ba, CmdA, CmdB, CmdC, CmdD, CmdE, CmdF, CmdG, CmdX
  <2> QED
    BY <1>2, <1>10, <2>1, HostCommands
       DEF OnRestarted, CmdA, CmdB, CmdC, CmdD, CmdE, CmdF, CmdG, CmdX
<1> QED
  BY <1>3, <1>4, <1>5, <1>6, <1>7, <1>8, <1>9, <1>10, HostCommands

\* Where a reply leaves the line and the firmware when the window handles it.
LEMMA AnsweredIdle ==
  ASSUME TypeOK, NEW cmd \in HostCmds, NEW arg \in Args, Answered(cmd, arg), Window
  PROVE  /\ Handle(Reply(cmd, arg)) /\ NoReply' /\ Inbound = <<>>
         /\ UNCHANGED <<iqueue, threadVars, targetVars, programData, securityData,
                        dataLoaded>>
         /\ arg = Plus => cmd \in BlockCmds /\ blockCntr < NumBlocks
<1>1. ReplyIs(Reply(cmd, arg)) /\ Inbound = <<>>
  BY DEF Answered
<1>2. arg = Plus => cmd \in BlockCmds /\ blockCntr < NumBlocks
  BY DEF Answered, TypeOK, FirmwareTypeOK
<1> QED
  BY <1>1, <1>2, Handled

\* The next request, sent when nothing else is on the way, is asked.
LEMMA AsksNext ==
  ASSUME TypeOK, NEW cmd \in HostCmds, NEW arg \in Args \ {Plus}, Answered(cmd, arg), Window,
         NEW next \in HostCmds \ {CmdA}, NEW data \in Payload(next),
         NEW result \in Before(next), Announce(result), write(Request(next) \o data),
         next \in BlockCmds => blockCntr' = 1
  PROVE  Asked(next, data)'
<1>1. /\ NoReply' /\ Inbound = <<>> /\ pc = "readID"
      /\ UNCHANGED iqueue /\ pc' = pc
  <2>1. arg \in Args /\ arg # Plus
    OBVIOUS
  <2> QED
    BY <2>1, AnsweredIdle DEF Answered, threadVars
<1>2. Inbound' = Request(next) \o data
  <2>1. next \in Byte /\ data \in Seq(Byte)
    BY HostCommands, PayloadBytes
  <2> QED
    BY <1>1, <2>1, RequestParts, Sent
<1>3. pending' = 1 /\ shown' \in Before(next)
  <2>1. result \notin Endings
    <3>1. result \in Progress
      BY HostCommands, BeforeIs DEF Progress
    <3> QED
      BY <3>1 DEF Progress, Endings, Failures
  <2> QED
    BY <2>1 DEF Announce, Answered
<1> QED
  BY <1>1, <1>2, <1>3 DEF Asked, InStep

\* The data of the next request is what the window has loaded.
LEMMA ExpectedPayload ==
  ASSUME TypeOK, NEW cmd \in HostCmds, cmd \in BlockCmds => blockCntr \in 1..NumBlocks
  PROVE  Expected(cmd) \in Payload(cmd)
<1>1. programData \in [BlockIdx -> Block] /\ securityData \in Block /\ blockCntr \in Int
  BY ProtocolAssumption DEF TypeOK, HostTypeOK, Image, ProtocolAssumption
<1>2. CASE cmd \in BlockCmds
  <2>1. blockCntr - 1 \in BlockIdx
    BY <1>2, ProtocolAssumption DEF BlockIdx, ProtocolAssumption
  <2> QED
    BY <1>1, <1>2, <2>1 DEF Expected, Payload, DataCmds
<1>3. CASE cmd \notin BlockCmds
  BY <1>1, <1>3 DEF Expected, Payload, DataCmds
<1> QED
  BY <1>2, <1>3

\* A "+" makes the window send the block the firmware has gone on to.
LEMMA AsksBlock ==
  ASSUME TypeOK, NEW cmd \in HostCmds, Answered(cmd, Plus), Window
  PROVE  /\ Asked(cmd, Expected(cmd))' /\ cmd \in BlockCmds
         /\ blockCntr' = blockCntr + 1 /\ UNCHANGED <<shown, pending>>
         /\ blockCntr \in BlockIdx
<1>1. /\ SendNextBlock /\ NoReply' /\ Inbound = <<>> /\ UNCHANGED iqueue
      /\ UNCHANGED <<pc, cmdID, blockNum, dataOUT, programData>>
      /\ cmd \in BlockCmds /\ blockCntr < NumBlocks
  <2>1. Plus \in Args
    BY DEF Args
  <2> QED
    BY <2>1, AnsweredIdle, HandleIs DEF threadVars
<1>2. /\ pc = "readData" /\ cmdID = cmd /\ dataOUT = <<>> /\ blockCntr = blockNum
      /\ shown \in Before(cmd) /\ pending = 1
  BY DEF Answered
<1>3. blockCntr \in BlockIdx /\ blockCntr + 1 - 1 = blockCntr
  BY <1>1, ProtocolAssumption DEF TypeOK, HostTypeOK, BlockIdx, ProtocolAssumption
<1>4. programData[blockCntr] \in Seq(Byte)
  BY <1>3, BlocksAreBytes DEF TypeOK, HostTypeOK, Image
<1>5. Inbound' = programData[blockCntr]
  BY <1>1, <1>4, Sent DEF SendNextBlock
<1>6. blockCntr' = blockCntr + 1 /\ shown' = shown /\ pending' = pending
  BY <1>1 DEF SendNextBlock
<1>7. Expected(cmd)' = programData[blockCntr]
  <2>1. blockCntr' - 1 = blockCntr
    BY <1>3, <1>6 DEF BlockIdx
  <2> QED
    BY <1>1, <2>1 DEF Expected
<1>8. dataOUT' \o Inbound' = programData[blockCntr]
  BY <1>1, <1>2, <1>4, <1>5, ConcatEmptySeq
<1>9. InStep(cmd)' /\ cmd \in DataCmds
  BY <1>1, <1>2, <1>6 DEF InStep, DataCmds
<1>10. /\ pc' = "readData" /\ cmdID' = cmd /\ pending' = 1 /\ shown' \in Before(cmd)
  BY <1>1, <1>2, <1>6
<1>11. Asked(cmd, Expected(cmd))'
  BY <1>1, <1>7, <1>8, <1>9, <1>10 DEF Asked
<1> QED
  BY <1>1, <1>3, <1>6, <1>11

\* A success makes the window send the next command of the sequence, with its data.
LEMMA AsksCommand ==
  ASSUME TypeOK, NEW cmd \in HostCmds \ {CmdX}, Answered(cmd, Zero), Window
  PROVE  \E next \in HostCmds \ {CmdA} :
           /\ <<cmd, next>> \in Sequel
           /\ Asked(next, Expected(next))'
           /\ next \in BlockCmds => blockCntr' = 1
           /\ next \notin BlockCmds => blockCntr' = blockCntr
<1>0. Zero \in Args /\ Zero \in Args \ {Plus} /\ Zero # Plus
  BY DEF Args, Zero, Plus
<1>1. /\ Handle(Reply(cmd, Zero)) /\ UNCHANGED <<programData, securityData>>
  BY <1>0, AnsweredIdle
<1>2. /\ programData[0] \in Block /\ securityData \in Block
  BY BlockBounds DEF TypeOK, HostTypeOK, Image
<1>3. /\ <<>> \in Payload(CmdB) /\ <<>> \in Payload(CmdG) /\ <<>> \in Payload(CmdX)
      /\ programData[0] \in Payload(CmdC) /\ programData[0] \in Payload(CmdD)
      /\ securityData \in Payload(CmdE) /\ securityData \in Payload(CmdF)
  BY <1>2, HostCommands
     DEF Payload, CmdB, CmdC, CmdD, CmdE, CmdF, CmdG, CmdX
<1>4. \A c \in HostCmds : Request(c) \o <<>> = Request(c)
  BY HostCommands, RequestParts
<1>5. /\ {CmdB, CmdC, CmdD, CmdE, CmdF, CmdG, CmdX} \subseteq HostCmds \ {CmdA}
      /\ BlockCmds \cap {CmdB, CmdE, CmdF, CmdG, CmdX} = {}
      /\ SecurityCmds \cap {CmdB, CmdG, CmdX} = {}
      /\ {CmdC, CmdD} \subseteq BlockCmds /\ {CmdE, CmdF} \subseteq SecurityCmds
  BY HostCommands DEF CmdA, CmdB, CmdC, CmdD, CmdE, CmdF, CmdG, CmdX
<1>6. ASSUME NEW next \in {CmdB, CmdG, CmdX}, NEW result \in Before(next),
             Continue(result, Request(next)), <<cmd, next>> \in Sequel
      PROVE  \E n \in HostCmds \ {CmdA} :
               /\ <<cmd, n>> \in Sequel /\ Asked(n, Expected(n))'
               /\ n \in BlockCmds => blockCntr' = 1
               /\ n \notin BlockCmds => blockCntr' = blockCntr
  <2>1. /\ next \in HostCmds \ {CmdA} /\ next \in HostCmds
        /\ next \notin BlockCmds /\ next \notin SecurityCmds
    BY <1>5
  <2>2. /\ Announce(result) /\ write(Request(next) \o <<>>) /\ blockCntr' = blockCntr
        /\ <<>> \in Payload(next)
    BY <1>3, <1>4, <1>6, <2>1 DEF Continue
  <2>3. Asked(next, <<>>)'
    BY <1>0, <1>6, <2>1, <2>2, AsksNext
  <2>4. Expected(next)' = <<>>
    BY <2>1 DEF Expected
  <2>5. Asked(next, Expected(next))'
    BY <2>3, <2>4 DEF Asked
  <2> QED
    BY <1>6, <2>1, <2>2, <2>5
<1>7. ASSUME NEW next \in {CmdE, CmdF}, NEW result \in Before(next),
             Continue(result, Request(next) \o securityData), <<cmd, next>> \in Sequel
      PROVE  \E n \in HostCmds \ {CmdA} :
               /\ <<cmd, n>> \in Sequel /\ Asked(n, Expected(n))'
               /\ n \in BlockCmds => blockCntr' = 1
               /\ n \notin BlockCmds => blockCntr' = blockCntr
  <2>1. /\ next \in HostCmds \ {CmdA} /\ next \in HostCmds
        /\ next \notin BlockCmds /\ next \in SecurityCmds
    BY <1>5
  <2>2. /\ Announce(result) /\ write(Request(next) \o securityData)
        /\ blockCntr' = blockCntr /\ securityData \in Payload(next)
    BY <1>3, <1>7 DEF Continue
  <2>3. PICK data : data = securityData
    OBVIOUS
  <2>4. Asked(next, data)'
    BY <1>0, <1>7, <2>1, <2>2, <2>3, AsksNext
  <2>5. Expected(next)' = data
    BY <1>1, <2>1, <2>3 DEF Expected
  <2>6. Asked(next, Expected(next))'
    BY <2>4, <2>5 DEF Asked
  <2> QED
    BY <1>7, <2>1, <2>2, <2>6
<1>8. ASSUME NEW next \in {CmdC, CmdD}, NEW result \in Before(next),
             Announce(result), SendFirstBlock(next), <<cmd, next>> \in Sequel
      PROVE  \E n \in HostCmds \ {CmdA} :
               /\ <<cmd, n>> \in Sequel /\ Asked(n, Expected(n))'
               /\ n \in BlockCmds => blockCntr' = 1
               /\ n \notin BlockCmds => blockCntr' = blockCntr
  <2>1. next \in HostCmds \ {CmdA} /\ next \in HostCmds /\ next \in BlockCmds
    BY <1>5
  <2>2. /\ write(Request(next) \o programData[0]) /\ blockCntr' = 1
        /\ programData[0] \in Payload(next)
    BY <1>3, <1>8 DEF SendFirstBlock
  <2>3. PICK data : data = programData[0]
    OBVIOUS
  <2>4. Asked(next, data)'
    BY <1>0, <1>8, <2>1, <2>2, <2>3, AsksNext
  <2>5. Expected(next)' = data
    BY <1>1, <2>1, <2>2, <2>3 DEF Expected
  <2>6. Asked(next, Expected(next))'
    BY <2>4, <2>5 DEF Asked
  <2> QED
    BY <1>8, <2>1, <2>2, <2>6
<1>9. cmd \in {CmdA, CmdB, CmdC, CmdD, CmdE, CmdF, CmdG}
  BY HostCommands
<1>10. CASE cmd = CmdA
  BY <1>0, <1>1, <1>6, <1>10, HandleIs, BeforeIs DEF Sequel
<1>11. CASE cmd = CmdB
  BY <1>0, <1>1, <1>8, <1>11, HandleIs, BeforeIs DEF Sequel
<1>12. CASE cmd = CmdC
  BY <1>0, <1>1, <1>8, <1>12, HandleIs, BeforeIs DEF Sequel
<1>13. CASE cmd = CmdD
  BY <1>0, <1>1, <1>7, <1>13, HandleIs, BeforeIs DEF Sequel
<1>14. CASE cmd = CmdE
  BY <1>0, <1>1, <1>7, <1>14, HandleIs, BeforeIs DEF Sequel
<1>15. CASE cmd = CmdF
  BY <1>0, <1>1, <1>6, <1>15, HandleIs, BeforeIs DEF Sequel
<1>16. CASE cmd = CmdG
  BY <1>0, <1>1, <1>6, <1>16, HandleIs, BeforeIs DEF Sequel
<1> QED
  BY <1>9, <1>10, <1>11, <1>12, <1>13, <1>14, <1>15, <1>16

\* A failure, or the reply to the last command, ends the sequence.
LEMMA EndsTurn ==
  ASSUME TypeOK, NEW cmd \in HostCmds, NEW arg \in Args \ {Plus}, Answered(cmd, arg), Window,
         arg # Zero \/ cmd = CmdX
  PROVE  /\ Quiet' /\ UNCHANGED blockCntr
         /\ IF cmd = CmdX THEN shown' = "restarted" ELSE shown' \in Failures
<1>1. arg \in Args /\ arg # Plus /\ (cmd = CmdX => arg = Zero) /\ pending = 1 /\ pc = "readID"
  BY DEF Answered
<1>2. /\ Handle(Reply(cmd, arg)) /\ NoReply' /\ Inbound = <<>>
      /\ UNCHANGED <<iqueue, threadVars>>
  BY <1>1, AnsweredIdle
<1>3. \E result : /\ Conclude(result)
                  /\ IF cmd = CmdX THEN result = "restarted" ELSE result \in Failures
  BY <1>1, <1>2, HandleIs, HostCommands
     DEF Failures, CmdA, CmdB, CmdC, CmdD, CmdE, CmdF, CmdG, CmdX
<1>4. PICK result :
        /\ Conclude(result)
        /\ IF cmd = CmdX THEN result = "restarted" ELSE result \in Failures
  BY <1>3
<1>5. result \in Endings /\ result \in Before(CmdA)
  BY <1>4, BeforeIs DEF Endings
<1>6. shown' = result /\ pending' = 0 /\ wire' = wire /\ blockCntr' = blockCntr
  BY <1>1, <1>4, <1>5 DEF Conclude, Announce
<1>7. Inbound' = <<>> /\ pc' = "readID"
  BY <1>1, <1>2, <1>6 DEF Inbound, threadVars
<1> QED
  BY <1>2, <1>4, <1>5, <1>6, <1>7 DEF Quiet

-----------------------------------------------------------------------------

(***************************************************************************)
(* The turns of the curious operator's system.                             *)
(***************************************************************************)
\* What neither the line nor the two programs have to do with changes no turn.
LEMMA TurnFramed ==
  ASSUME UNCHANGED <<lineVars, threadVars, rxBuf, events, blockCntr, shown, pending>>
  PROVE  /\ Quiet => Quiet'
         /\ \A cmd, data : Asked(cmd, data) => Asked(cmd, data)'
         /\ \A cmd, arg : Answered(cmd, arg) => Answered(cmd, arg)'
<1>1. UNCHANGED <<wire, iqueue, toHost, pc, cmdID, blockNum, dataOUT>>
  BY DEF lineVars, threadVars
<1>2. (Inbound' = Inbound) /\ (Outbound' = Outbound) /\ (NoReply' <=> NoReply)
  BY <1>1 DEF Inbound, Outbound, NoReply
<1>3. Quiet => Quiet'
  BY <1>1, <1>2 DEF Quiet
<1>4. \A cmd, data : Asked(cmd, data) => Asked(cmd, data)'
  BY <1>1, <1>2 DEF Asked, InStep
<1>5. ASSUME NEW cmd, NEW arg, Answered(cmd, arg) PROVE Answered(cmd, arg)'
  <2>1. ReplyIs(Reply(cmd, arg))'
    BY <1>2, <1>5 DEF ReplyIs, Answered
  <2> QED
    BY <1>1, <1>2, <1>5, <2>1 DEF Answered
<1> QED
  BY <1>3, <1>4, <1>5

\* A conclusion was printed for every request only when nobody has anything to say.
LEMMA IdleIsQuiet ==
  ASSUME Turn, Idle
  PROVE  Quiet
BY DEF Turn, Idle, Asked, Answered

\* Pressing Flash begins a turn.
LEMMA FlashAsks ==
  ASSUME TypeOK, Quiet, Flash
  PROVE  Asked(CmdA, <<>>)'
<1>1. NoReply /\ Inbound = <<>> /\ pc = "readID" /\ pending = 0 /\ shown \in Before(CmdA)
  BY DEF Quiet
<1>2. /\ write(Request(CmdA)) /\ UNCHANGED <<iqueue, pc>>
      /\ UNCHANGED <<toHost, rxBuf, events, shown>> /\ pending' = 1
  BY <1>1 DEF Flash, targetFlash, threadVars
<1>3. Request(CmdA) \in Seq(Byte) /\ Request(CmdA) \o <<>> = Request(CmdA)
  BY RequestParts, MessagesAreBytes, HostCommands
<1>4. Inbound' = Request(CmdA) \o <<>>
  BY <1>1, <1>2, <1>3, Sent
<1>5. NoReply'
  BY <1>1, <1>2 DEF NoReply, Outbound
<1>6. CmdA \notin BlockCmds
  BY DEF BlockCmds, CmdA, CmdC, CmdD
<1> QED
  BY <1>1, <1>2, <1>4, <1>5, <1>6 DEF Asked, InStep

\* What can happen while a request is on the way or served: its bytes move on, or it is
\* answered.
LEMMA AskedStep ==
  ASSUME TypeOK, NEW cmd \in HostCmds, NEW data \in Payload(cmd), Asked(cmd, data), System
  PROVE  /\ UNCHANGED hostVars
         /\ \/ Hears /\ Asked(cmd, data)'
            \/ pc = "work" /\ Serves(cmd, data)
<1>1. NoReply
  BY DEF Asked
<1>2. FirmwareNext /\ UNCHANGED hostVars
  BY <1>1, NothingToHear DEF System, Programmer
<1>3. Turn
  BY DEF Turn
<1>4. ~ResetProgrammer
  BY <1>3, NeverReset
<1>5. Hears \/ Work
  BY <1>2, <1>4 DEF FirmwareNext, MainThread, Hears
<1>6. Work => pc = "work"
  BY NothingToWork
<1> QED
  BY <1>2, <1>5, <1>6, AskedHears, AskedServed

\* What can happen while a reply is on the way: a burst of it arrives, or the window
\* handles it.
LEMMA AnsweredStep ==
  ASSUME TypeOK, NEW cmd \in HostCmds, NEW arg \in Args, Answered(cmd, arg), System
  PROVE  \/ SerialThread /\ Answered(cmd, arg)'
         \/ Window
<1>1. Inbound = <<>> /\ pc # "work"
  BY DEF Answered
<1>2. SerialThread \/ Window
  BY <1>1, NothingToDo DEF System, Programmer
<1>3. ASSUME SerialThread PROVE Answered(cmd, arg)'
  <2>1. PICK n \in 1..Len(toHost) : ReceiveBurst(n)
    BY <1>3 DEF SerialThread
  <2>2. ReplyIs(Reply(cmd, arg))'
    BY <2>1, ReplyParts, Received DEF Answered
  <2>3. UNCHANGED <<iqueue, wire, shown, pending, blockCntr>>
    BY <1>3, <2>1 DEF SerialThread, ReceiveBurst
  <2>4. UNCHANGED <<pc, cmdID, blockNum, dataOUT>> /\ Inbound' = Inbound
    BY <1>3, <2>3 DEF SerialThread, threadVars, Inbound
  <2> QED
    BY <2>2, <2>3, <2>4 DEF Answered
<1> QED
  BY <1>2, <1>3

\* A reply is followed by the next block, by the next command, or by the end.
Follows(cmd, arg, next) ==
  \/ arg = Plus /\ next = cmd
  \/ arg = Zero /\ <<cmd, next>> \in Sequel

\* An answer handled either ends the work or asks for the command that follows.
LEMMA HandledStep ==
  ASSUME TypeOK, TypeOK', NEW cmd \in HostCmds, NEW arg \in Args, Answered(cmd, arg), Window
  PROVE  \/ Quiet'
         \/ \E next \in HostCmds : /\ Follows(cmd, arg, next)
                                   /\ Asked(next, Expected(next))'
                                   /\ Expected(next)' \in Payload(next)
<1>1. ASSUME NEW next \in HostCmds, next \in BlockCmds => blockCntr' - 1 \in BlockIdx
      PROVE  Expected(next)' \in Payload(next)
  <2>1. programData' \in [BlockIdx -> Block] /\ securityData' \in Block
    BY DEF TypeOK, HostTypeOK, Image
  <2> QED
    BY <1>1, <2>1 DEF Expected, Payload, DataCmds
<1>2. CASE arg = Plus
  <2>1. /\ Asked(cmd, Expected(cmd))' /\ blockCntr \in BlockIdx
        /\ blockCntr' = blockCntr + 1
    BY <1>2, AsksBlock
  <2>2. blockCntr' - 1 \in BlockIdx
    BY <2>1 DEF BlockIdx
  <2> QED
    BY <1>1, <1>2, <2>1, <2>2 DEF Follows
<1>3. CASE arg = Zero /\ cmd # CmdX
  <2>1. 1 - 1 \in BlockIdx
    BY BlockBounds
  <2>2. PICK next \in HostCmds : /\ <<cmd, next>> \in Sequel
                                 /\ Asked(next, Expected(next))'
                                 /\ next \in BlockCmds => blockCntr' = 1
    BY <1>3, AsksCommand
  <2> QED
    BY <1>1, <1>3, <2>1, <2>2 DEF Follows
<1>4. CASE arg # Plus /\ (arg # Zero \/ cmd = CmdX)
  BY <1>4, EndsTurn
<1>5. cmd = CmdX => arg = Zero
  BY DEF Answered
<1> QED
  BY <1>2, <1>3, <1>4, <1>5

\* While a block is on the way the counters are where the block is.
LEMMA CountersInBank ==
  ASSUME TypeOK, NEW cmd \in BlockCmds, NEW data, Asked(cmd, data)
  PROVE  blockCntr \in 1..NumBlocks
<1>1. CASE pc \in {"readID", "readTrm"}
  BY <1>1, ProtocolAssumption DEF Asked, InStep, ProtocolAssumption
<1>2. CASE pc \notin {"readID", "readTrm"}
  <2>1. pc \in {"readData", "work"} /\ cmdID = cmd /\ blockCntr = blockNum + 1
    BY <1>2 DEF Asked, InStep
  <2>2. blockNum \in 0..NumBlocks /\ blockNum < NumBlocks
    BY <2>1 DEF TypeOK, FirmwareTypeOK
  <2> QED
    BY <2>1, <2>2, ProtocolAssumption DEF ProtocolAssumption
<1> QED
  BY <1>1, <1>2

\* At first nothing is asked and nothing is on the line.
LEMMA InitQuiet == Init => Quiet
<1> SUFFICES ASSUME Init PROVE Quiet
  OBVIOUS
<1>1. wire = <<>> /\ toHost = <<>> /\ iqueue = <<>> /\ rxBuf = <<>> /\ events = <<>>
  BY DEF Init, LineInit, FirmwareInit, HostInit
<1>2. pc = "readID" /\ pending = 0 /\ shown = "nothing"
  BY DEF Init, FirmwareInit, HostInit
<1> QED
  BY <1>1, <1>2, BeforeIs DEF Quiet, NoReply, Inbound, Outbound

\* Both programs keep to their turns whatever is loaded meanwhile.
LEMMA TurnStep == TypeOK /\ TypeOK' /\ Turn /\ [CuriousNext]_vars => Turn'
<1> SUFFICES ASSUME TypeOK, TypeOK', Turn, [CuriousNext]_vars PROVE Turn'
  OBVIOUS
<1>1. CASE \/ UNCHANGED <<lineVars, threadVars, rxBuf, events, blockCntr, shown, pending>>
  BY <1>1, TurnFramed DEF Turn
<1>2. CASE Idle /\ Flash
  <2>1. Asked(CmdA, <<>>)'
    BY <1>2, IdleIsQuiet, FlashAsks
  <2>2. CmdA \in HostCmds /\ <<>> \in Payload(CmdA)
    BY HostCommands DEF Payload, CmdA, CmdC, CmdD, CmdE, CmdF
  <2> QED
    BY <2>1, <2>2 DEF Turn
<1>3. CASE System
  <2>1. CASE Quiet
    BY <1>3, <2>1, NothingToDo, NothingToHear DEF Quiet, System, Programmer
  <2>2. ASSUME NEW cmd \in HostCmds, NEW data \in Payload(cmd), Asked(cmd, data)
        PROVE  Turn'
    BY <1>3, <2>2, AskedStep, ServedAnswers DEF Turn
  <2>3. ASSUME NEW cmd \in HostCmds, NEW arg \in Args, Answered(cmd, arg)
        PROVE  Turn'
    <3>1. CASE SerialThread /\ Answered(cmd, arg)'
      BY <3>1 DEF Turn
    <3>2. CASE Window
      <4>1. CASE Quiet'
        BY <4>1 DEF Turn
      <4>2. ASSUME NEW next \in HostCmds, Asked(next, Expected(next))',
                   Expected(next)' \in Payload(next)
            PROVE  Turn'
        BY <4>2 DEF Turn
      <4> QED
        BY <2>3, <3>2, <4>1, <4>2, HandledStep
    <3> QED
      BY <1>3, <2>3, <3>1, <3>2, AnsweredStep
  <2> QED
    BY <2>1, <2>2, <2>3 DEF Turn
<1>4. CASE OpenFile
  BY <1>1, <1>4 DEF OpenFile, fileOpen, lineVars
<1>5. CASE SwapTarget
  BY <1>1, <1>5 DEF SwapTarget, hostVars
<1>6. CASE UNCHANGED vars
  BY <1>1, <1>6 DEF vars, hostVars
<1> QED
  BY <1>2, <1>3, <1>4, <1>5, <1>6 DEF CuriousNext

\* What the turns say of the line.
LEMMA TurnRoom ==
  ASSUME TypeOK, Turn
  PROVE  NeverOverrun /\ OneReply
<1>1. Len(Inbound) <= QueueSize
  <2>1. CASE Inbound = <<>>
    BY <2>1, ProtocolAssumption DEF ProtocolAssumption
  <2>2. CASE Inbound # <<>>
    <3>1. \E cmd \in HostCmds : \E data \in Payload(cmd) : Asked(cmd, data)
      BY <2>2 DEF Turn, Quiet, Answered
    <3> QED
      BY <3>1, RoomForRequest
  <2> QED
    BY <2>1, <2>2
<1>2. NeverOverrun
  <2>1. \A s \in Seq(Byte) : s # <<>> => Len(s) \in Nat \ {0}
    OBVIOUS
  <2>2. Len(Inbound) = Len(iqueue) + Len(wire) /\ Len(iqueue) \in Nat
        /\ (wire # <<>> => Len(wire) \in Nat \ {0})
    BY <2>1, LineBytes
  <2> QED
    BY <1>1, <2>2, ProtocolAssumption DEF NeverOverrun, ProtocolAssumption
<1>3. OneReply
  <2>1. Len(Outbound) = Len(rxBuf) + Len(toHost)
    BY LineBytes
  <2>2. CASE NoReply
    BY <2>1, <2>2, NothingOnTheWay DEF NoReply, OneReply
  <2>3. CASE ~NoReply
    <3>1. PICK cmd \in HostCmds, arg \in Args : Answered(cmd, arg)
      BY <2>3 DEF Turn, Quiet, Asked
    <3>2. Inbound = <<>> /\ ReplyIs(Reply(cmd, arg)) /\ Len(Reply(cmd, arg)) = 4
      BY <3>1, ReplyParts DEF Answered
    <3>3. \/ Len(events) = 1 /\ Len(Outbound) = 0
          \/ Len(events) = 0 /\ Len(Outbound) = 4
      BY <3>2 DEF ReplyIs
    <3>4. /\ Len(events) <= 1 /\ Len(Outbound) + 4 * Len(events) <= 4
      <4>1. 0 + 4 * 1 <= 4 /\ 4 + 4 * 0 <= 4 /\ 0 <= 1 /\ 1 <= 1
        OBVIOUS
      <4> QED
        BY <3>3, <4>1, Zenon
    <3> QED
      BY <2>1, <3>2, <3>4 DEF OneReply
  <2> QED
    BY <2>2, <2>3
<1> QED
  BY <1>2, <1>3

\* Window and firmware take turns, also under the operator who opens files in the middle
\* of a sequence: at any time the line carries one request, or one reply, or nothing.
THEOREM TakesTurns == CuriousSpec => []Turn
<1>1. TypeOK /\ [CuriousNext]_vars => TypeOK'
  BY SystemNextType DEF CuriousNext, Next, PatientOperator
<1>2. TypeOK /\ Turn /\ [CuriousNext]_vars => Turn'
  BY <1>1, TurnStep
<1>3. Init => Turn
  BY InitQuiet DEF Turn
<1> QED
  BY <1>1, <1>2, <1>3, SystemInitType, PTL DEF CuriousSpec

\* The receive interrupt of the firmware always finds room in its queue: no byte of a
\* request is ever dropped, and the flag that main.c does not read is never raised.
THEOREM NothingDropped == CuriousSpec => []NeverOverrun
<1>1. TypeOK /\ Turn => NeverOverrun
  BY TurnRoom
<1> QED
  BY <1>1, CuriousTypeCorrect, TakesTurns, PTL

\* No burst holds two replies, so the msg that serialthread.cpp does not clear between
\* the groups of a burst never carries more than the reply it is meant to carry.
THEOREM OneReplyAtATime == CuriousSpec => []OneReply
<1>1. TypeOK /\ Turn => OneReply
  BY TurnRoom
<1> QED
  BY <1>1, CuriousTypeCorrect, TakesTurns, PTL

(***************************************************************************)
(* What the turns mean for the chip: at every request   *)
(* and at every reply something is known of it, of the sum the firmware    *)
(* keeps and of the two block counters, whatever single cells and polls    *)
(* did, for every number and size of blocks and every set of images.  In   *)
(* the end the whole system is shown to carry out FlashProcedure.          *)
(***************************************************************************)

\* The command is being read or served: the loop of a block command has begun.
Served == pc \in {"readData", "work"}

-----------------------------------------------------------------------------

(***************************************************************************)
(* Under the curious operator.                                             *)
(***************************************************************************)
\* The chip's silicon ID was read before any command but the first, and the blocks that
\* are still to be programmed are blank.
BlankAhead ==
  IF Served THEN \A b \in BlockIdx : b >= blockNum => flash[b] = Erased
            ELSE flash = Blank

Known(cmd) ==
  /\ cmd # CmdA => genuine
  /\ cmd = CmdC => BlankAhead

\* A "+" leaves the same known, a success what the next command needs; what ends the
\* sequence was answered by a genuine chip.
Learned(cmd, arg) ==
  /\ \A next \in HostCmds : Follows(cmd, arg, next) => Known(next)
  /\ cmd = CmdX => genuine

CuriousInv ==
  \/ Quiet
  \/ \E cmd \in HostCmds :
       \/ Known(cmd) /\ \E data \in Payload(cmd) : Asked(cmd, data)
       \/ \E arg \in Args : Answered(cmd, arg) /\ Learned(cmd, arg)

\* The commands and the arguments are different bytes.
LEMMA Distinct ==
  /\ CmdA \notin {CmdB, CmdC, CmdD, CmdE, CmdF, CmdG, CmdX}
  /\ CmdB \notin {CmdC, CmdD, CmdE, CmdF, CmdG, CmdX}
  /\ CmdC \notin {CmdD, CmdE, CmdF, CmdG, CmdX}
  /\ CmdD \notin {CmdE, CmdF, CmdG, CmdX} /\ CmdE \notin {CmdF, CmdG, CmdX}
  /\ CmdF \notin {CmdG, CmdX} /\ CmdG # CmdX
  /\ Plus # Zero /\ Plus # One /\ Plus # Two /\ Zero # One /\ Zero # Two
  /\ {Plus, Zero, One, Two} = Args
  /\ \A ok \in BOOLEAN : /\ Outcome(ok) \in Args
                         /\ Outcome(ok) # Plus
                         /\ Outcome(ok) = Zero => ok
BY DEF CmdA, CmdB, CmdC, CmdD, CmdE, CmdF, CmdG, CmdX,
       Plus, Zero, One, Two, Args, Outcome

\* Each command but the last has one successor, and a block command goes on with itself.
LEMMA FollowsIs ==
  ASSUME NEW cmd, NEW arg, NEW next, Follows(cmd, arg, next)
  PROVE  /\ arg \in {Plus, Zero} /\ (arg = Plus => next = cmd)
         /\ arg # Plus => /\ cmd = CmdA => next = CmdB
                          /\ cmd = CmdB => next = CmdC
                          /\ cmd = CmdC => next = CmdD
                          /\ cmd = CmdD => next = CmdE
                          /\ cmd = CmdE => next = CmdF
                          /\ cmd = CmdF => next = CmdG
                          /\ cmd = CmdG => next = CmdX
                          /\ cmd # CmdX
<1>1. arg \in {Plus, Zero} /\ (arg = Plus => next = cmd) /\ Plus # Zero
  BY DEF Follows, Plus, Zero
<1>2. CASE <<cmd, next>> \in Sequel
  <2>1. \/ cmd = CmdA /\ next = CmdB
        \/ cmd = CmdB /\ next = CmdC
        \/ cmd = CmdC /\ next = CmdD
        \/ cmd = CmdD /\ next = CmdE
        \/ cmd = CmdE /\ next = CmdF
        \/ cmd = CmdF /\ next = CmdG
        \/ cmd = CmdG /\ next = CmdX
    BY <1>2 DEF Sequel
  <2> QED
    BY <1>1, <2>1 DEF CmdA, CmdB, CmdC, CmdD, CmdE, CmdF, CmdG, CmdX
<1>3. CASE arg = Plus
  BY <1>1, <1>3
<1> QED
  BY <1>2, <1>3 DEF Follows

\* What is known does not depend on the line or the window.
LEMMA KnownFramed ==
  ASSUME UNCHANGED <<genuine, flash, blockNum, pc>>
  PROVE  /\ \A cmd : Known(cmd) => Known(cmd)'
         /\ \A cmd, arg : Learned(cmd, arg) => Learned(cmd, arg)'
<1>1. \A cmd : Known(cmd) => Known(cmd)'
  BY DEF Known, BlankAhead, Served
<1> QED
  BY <1>1 DEF Learned

\* It stays known while a request is delivered and read: the loop over the blocks starts
\* at the first one.
LEMMA KnownHears ==
  ASSUME TypeOK, NEW cmd, Known(cmd), Hears
  PROVE  Known(cmd)'
<1>1. UNCHANGED <<genuine, flash>>
  BY DEF Hears, sdIncomingDataI, ReadCommandID, ReadTerminator, ReadData, targetVars
<1>2. ASSUME BlankAhead PROVE BlankAhead'
  <2>1. flash = Blank => \A b \in BlockIdx : flash[b] = Erased
    BY DEF Blank
  <2>2. CASE ReadTerminator
    <3>1. pc = "readTrm" /\ flash = Blank
      BY <1>2, <2>2 DEF ReadTerminator, BlankAhead, Served
    <3> QED
      BY <1>1, <2>1, <3>1 DEF BlankAhead
  <2>3. CASE ~ReadTerminator
    <3>1. blockNum' = blockNum /\ (Served' <=> Served)
      BY <2>3 DEF Hears, sdIncomingDataI, threadVars, ReadCommandID, ReadData, Served
    <3> QED
      BY <1>1, <1>2, <3>1 DEF BlankAhead
  <2> QED
    BY <2>2, <2>3
<1> QED
  BY <1>1, <1>2 DEF Known

\* No operation changes the silicon ID.
LEMMA GenuineStays ==
  ASSUME NEW cmd, NEW data, Serves(cmd, data)
  PROVE  genuine' = genuine
BY DEF Serves, Initializes, Erases, Programs, Verifies, Secures, ChecksSecurity,
       Compares, Restarts, targetInitialize, targetErase, targetBlockProgram,
       targetBlockVerify, targetSecurityFlash, targetSecurityVerify,
       targetBankChecksumGet, targetReStart, targetVars

\* The reply to a command that is served tells what the next one may rely on.
LEMMA KnownServes ==
  ASSUME TypeOK, NEW cmd \in HostCmds, NEW data, pc = "work", Known(cmd), Serves(cmd, data)
  PROVE  \E arg \in Args : (Answered(cmd, arg) /\ Learned(cmd, arg))'
<1>1. genuine' = genuine
  BY GenuineStays
<1>2. ASSUME NEW arg \in Args, Answered(cmd, arg)', cmd # CmdB, cmd # CmdC,
             arg = Zero => genuine
      PROVE  (Answered(cmd, arg) /\ Learned(cmd, arg))'
  <2>1. ASSUME NEW next \in HostCmds, Follows(cmd, arg, next) PROVE Known(next)'
    <3>1. arg = Plus => cmd \in BlockCmds /\ Known(cmd)
      BY <1>2 DEF Answered
    <3>2. genuine /\ next # CmdC
      <4>1. CASE arg = Plus
        BY <1>2, <2>1, <3>1, <4>1, FollowsIs, Distinct, HostCommands DEF Known
      <4>2. CASE arg = Zero
        BY <1>2, <2>1, <4>2, FollowsIs, Distinct, HostCommands
      <4> QED
        BY <2>1, <4>1, <4>2, FollowsIs
    <3> QED
      BY <1>1, <3>2 DEF Known
  <2>2. cmd = CmdX => genuine'
    BY <1>1, Distinct DEF Known
  <2> QED
    BY <1>2, <2>1, <2>2 DEF Learned
<1>3. CASE cmd = CmdA /\ Initializes
  BY <1>2, <1>3, Distinct DEF Initializes, targetSiliconIDVerify
<1>4. CASE cmd = CmdB /\ Erases
  <2>1. PICK ok \in BOOLEAN : targetErase(ok) /\ Answered(CmdB, Outcome(ok))'
    BY <1>4 DEF Erases
  <2>2. ASSUME Outcome(ok) = Zero PROVE Known(CmdC)'
    <3>1. ok /\ flash' = Blank
      BY <2>1, <2>2, Distinct DEF targetErase
    <3>2. pc' = "readID"
      BY <2>1, <2>2, Distinct DEF Answered
    <3>3. genuine
      BY <1>4, Distinct DEF Known
    <3> QED
      BY <1>1, <3>1, <3>2, <3>3 DEF Known, BlankAhead, Served
  <2>3. Learned(CmdB, Outcome(ok))'
    BY <2>2, FollowsIs, Distinct DEF Learned
  <2> QED
    BY <1>4, <2>1, <2>3, Distinct
<1>5. CASE cmd = CmdC /\ Programs(data)
  <2>1. PICK ok \in BOOLEAN : targetBlockProgram(blockNum, data, ok) /\ GoesOn(CmdC, ok)
    BY <1>5 DEF Programs
  <2>2. genuine /\ \A b \in BlockIdx : b >= blockNum => flash[b] = Erased
    BY <1>5, Distinct DEF Known, BlankAhead, Served
  <2>3. CASE ok /\ blockNum < NumBlocks - 1
    <3>1. Answered(CmdC, Plus)' /\ blockNum' = blockNum + 1
      BY <2>1, <2>3 DEF GoesOn
    <3>2. pc' = "readData"
      BY <3>1 DEF Answered
    <3>3. ASSUME NEW b \in BlockIdx, b >= blockNum' PROVE flash'[b] = Erased
      <4>1. b \in Int /\ blockNum \in Int
        BY DEF TypeOK, FirmwareTypeOK, BlockIdx
      <4>2. b # blockNum /\ b >= blockNum
        BY <3>1, <3>3, <4>1
      <4>3. flash' = flash \/ \E cell : flash' = [flash EXCEPT ![blockNum] = cell]
        BY <2>1 DEF targetBlockProgram
      <4>4. flash'[b] = flash[b]
        BY <4>2, <4>3 DEF TypeOK, FirmwareTypeOK, TargetTypeOK
      <4> QED
        BY <2>2, <4>2, <4>4
    <3>4. Known(CmdC)'
      BY <1>1, <2>2, <3>2, <3>3 DEF Known, BlankAhead, Served
    <3>5. Learned(CmdC, Plus)'
      BY <3>4, FollowsIs, Distinct DEF Learned
    <3> QED
      BY <1>5, <3>1, <3>5, Distinct
  <2>4. CASE ~(ok /\ blockNum < NumBlocks - 1)
    <3>1. Answered(CmdC, Outcome(ok))'
      BY <2>1, <2>4 DEF GoesOn
    <3>2. Known(CmdD)'
      BY <1>1, <2>2, Distinct DEF Known
    <3>3. Learned(CmdC, Outcome(ok))'
      BY <3>2, FollowsIs, Distinct DEF Learned
    <3> QED
      BY <1>5, <3>1, <3>3, Distinct
  <2> QED
    BY <2>3, <2>4
<1>6. ASSUME cmd \in {CmdD, CmdE, CmdF, CmdG, CmdX}
      PROVE  cmd # CmdB /\ cmd # CmdC /\ genuine
  BY <1>6, Distinct DEF Known
<1>7. CASE cmd \in {CmdD, CmdE, CmdF, CmdG, CmdX}
  <2>1. PICK arg \in Args : Answered(cmd, arg)'
    BY ServedAnswers
  <2> QED
    BY <1>2, <1>6, <1>7, <2>1
<1> QED
  BY <1>3, <1>4, <1>5, <1>7 DEF Serves

-----------------------------------------------------------------------------

(***************************************************************************)
(* The steps of the system, and what they may do to the chip.              *)
(***************************************************************************)
\* While a request is on the way only serving it touches the chip.
LEMMA AskedTouches ==
  ASSUME TypeOK, NEW cmd \in HostCmds, NEW data \in Payload(cmd), Asked(cmd, data), System
  PROVE  \/ Hears /\ UNCHANGED targetVars
         \/ Serves(cmd, data)
<1>1. Hears => UNCHANGED targetVars
  BY DEF Hears, sdIncomingDataI, ReadCommandID, ReadTerminator, ReadData
<1> QED
  BY <1>1, AskedStep

\* While a reply is on the way nothing touches the chip.
LEMMA AnsweredTouches ==
  ASSUME TypeOK, NEW cmd \in HostCmds, NEW arg \in Args, Answered(cmd, arg), System
  PROVE  UNCHANGED <<targetVars, threadVars>>
<1>1. SerialThread \/ Window
  BY AnsweredStep
<1> QED
  BY <1>1 DEF SerialThread, Window

\* Nothing happens in a system that is quiet but what the operator does.
LEMMA QuietWaits ==
  ASSUME TypeOK, Quiet, System
  PROVE  FALSE
BY NothingToDo, NothingToHear DEF Quiet, System, Programmer

\* With an impatient operator, too, the two ends take turns.
LEMMA CuriousTurn == CuriousInv => Turn
BY DEF CuriousInv, Turn

\* What is known at a request and at a reply stays known until the next one.
LEMMA CuriousStep == TypeOK /\ TypeOK' /\ CuriousInv /\ [CuriousNext]_vars => CuriousInv'
<1> SUFFICES ASSUME TypeOK, TypeOK', CuriousInv, [CuriousNext]_vars PROVE CuriousInv'
  OBVIOUS
<1>1. CASE UNCHANGED <<lineVars, threadVars, targetVars, rxBuf, events, blockCntr, shown,
                       pending>>
  <2>1. UNCHANGED <<genuine, flash, blockNum, pc>>
    BY <1>1 DEF threadVars, targetVars
  <2>2. UNCHANGED <<lineVars, threadVars, rxBuf, events, blockCntr, shown, pending>>
    BY <1>1
  <2> QED
    BY <2>1, <2>2, KnownFramed, TurnFramed DEF CuriousInv
<1>2. CASE Idle /\ Flash
  <2>1. Asked(CmdA, <<>>)'
    BY <1>2, CuriousTurn, IdleIsQuiet, FlashAsks
  <2>2. CmdA \in HostCmds /\ <<>> \in Payload(CmdA)
    BY HostCommands DEF Payload, CmdA, CmdC, CmdD, CmdE, CmdF
  <2>3. Known(CmdA)'
    BY Distinct DEF Known
  <2> QED
    BY <2>1, <2>2, <2>3 DEF CuriousInv
<1>3. CASE System
  <2>1. CASE Quiet
    BY <1>3, <2>1, QuietWaits
  <2>2. ASSUME NEW cmd \in HostCmds, Known(cmd), NEW data \in Payload(cmd), Asked(cmd, data)
        PROVE  CuriousInv'
    <3>1. CASE Hears /\ Asked(cmd, data)'
      <4>1. Known(cmd)'
        BY <2>2, <3>1, KnownHears
      <4> QED
        BY <3>1, <4>1 DEF CuriousInv
    <3>2. CASE pc = "work" /\ Serves(cmd, data)
      BY <2>2, <3>2, KnownServes DEF CuriousInv
    <3> QED
      BY <1>3, <2>2, <3>1, <3>2, AskedStep
  <2>3. ASSUME NEW cmd \in HostCmds, NEW arg \in Args, Answered(cmd, arg), Learned(cmd, arg)
        PROVE  CuriousInv'
    <3>1. UNCHANGED <<genuine, flash, blockNum, pc>>
      BY <1>3, <2>3, AnsweredTouches DEF targetVars, threadVars
    <3>2. CASE Answered(cmd, arg)'
      BY <2>3, <3>1, <3>2, KnownFramed DEF CuriousInv
    <3>3. CASE Window
      <4>1. CASE Quiet'
        BY <4>1 DEF CuriousInv
      <4>2. ASSUME NEW next \in HostCmds, Follows(cmd, arg, next),
                   Asked(next, Expected(next))', Expected(next)' \in Payload(next)
            PROVE  CuriousInv'
        <5>1. Known(next)'
          BY <2>3, <3>1, <4>2, KnownFramed DEF Learned
        <5> QED
          BY <4>2, <5>1 DEF CuriousInv
      <4> QED
        BY <2>3, <3>3, <4>1, <4>2, HandledStep
    <3> QED
      BY <1>3, <2>3, <3>2, <3>3, AnsweredStep
  <2> QED
    BY <2>1, <2>2, <2>3 DEF CuriousInv
<1>4. CASE OpenFile
  BY <1>1, <1>4 DEF OpenFile, fileOpen, lineVars
<1>5. CASE Idle /\ SwapTarget
  <2>1. Quiet'
    BY <1>5, CuriousTurn, IdleIsQuiet, TurnFramed DEF SwapTarget, hostVars
  <2> QED
    BY <2>1 DEF CuriousInv
<1>6. CASE UNCHANGED vars
  BY <1>1, <1>6 DEF vars, hostVars
<1> QED
  BY <1>2, <1>3, <1>4, <1>5, <1>6 DEF CuriousNext

\* What is known at a request and a reply holds however impatient the operator is.
LEMMA CuriousKnows == CuriousSpec => []CuriousInv
<1>1. TypeOK /\ [CuriousNext]_vars => TypeOK'
  BY SystemNextType DEF CuriousNext, Next, PatientOperator
<1>2. TypeOK /\ CuriousInv /\ [CuriousNext]_vars => CuriousInv'
  BY <1>1, CuriousStep
<1>3. Init => CuriousInv
  BY InitQuiet DEF CuriousInv
<1> QED
  BY <1>1, <1>2, <1>3, SystemInitType, PTL DEF CuriousSpec

\* The chip changes only when another one is connected, or when a command is served of
\* which that much is known.
LEMMA CuriousTouches ==
  ASSUME TypeOK, CuriousInv, [CuriousNext]_vars
  PROVE  \/ UNCHANGED targetVars
         \/ SwapTarget
         \/ \E cmd \in HostCmds : \E data \in Payload(cmd) :
              Known(cmd) /\ Asked(cmd, data) /\ Serves(cmd, data) /\ pc = "work"
<1>1. CASE System
  <2>1. CASE Quiet
    BY <1>1, <2>1, QuietWaits
  <2>2. ASSUME NEW cmd \in HostCmds, Known(cmd), NEW data \in Payload(cmd), Asked(cmd, data)
        PROVE  \/ UNCHANGED targetVars
               \/ Known(cmd) /\ Asked(cmd, data) /\ Serves(cmd, data) /\ pc = "work"
    <3>1. Hears => UNCHANGED targetVars
      BY DEF Hears, sdIncomingDataI, ReadCommandID, ReadTerminator, ReadData
    <3> QED
      BY <1>1, <2>2, <3>1, AskedStep
  <2>3. ASSUME NEW cmd \in HostCmds, NEW arg \in Args, Answered(cmd, arg)
        PROVE  UNCHANGED targetVars
    BY <1>1, <2>3, AnsweredTouches
  <2> QED
    BY <2>1, <2>2, <2>3 DEF CuriousInv
<1>2. CASE Flash \/ OpenFile \/ UNCHANGED vars
  BY <1>2 DEF Flash, OpenFile, vars
<1> QED
  BY <1>1, <1>2 DEF CuriousNext

\* A block is written only where there is a blank one, whatever the chip came with,
\* whatever polls and cells did and whichever files were opened meanwhile.
THEOREM BlocksWrittenOnce == CuriousSpec => WrittenOnceErased
<1> DEFINE Once == SwapTarget \/ \A b \in BlockIdx :
                                   flash'[b] \in {flash[b], Erased} \/ flash[b] = Erased
<1>1. TypeOK /\ CuriousInv /\ [CuriousNext]_vars => [Once]_flash
  <2> SUFFICES ASSUME TypeOK, CuriousInv, [CuriousNext]_vars PROVE Once \/ flash' = flash
    OBVIOUS
  <2>1. CASE UNCHANGED targetVars
    BY <2>1 DEF targetVars
  <2>2. CASE SwapTarget
    BY <2>2
  <2>3. ASSUME NEW cmd \in HostCmds, NEW data \in Payload(cmd), Known(cmd),
               Serves(cmd, data), pc = "work"
        PROVE  Once \/ flash' = flash
    <3>1. CASE cmd = CmdB /\ Erases
      BY <3>1 DEF Erases, targetErase, Blank
    <3>2. CASE cmd = CmdC /\ Programs(data)
      <4>1. \A b \in BlockIdx : b >= blockNum => flash[b] = Erased
        BY <2>3, <3>2, Distinct DEF Known, BlankAhead, Served
      <4>2. flash' = flash \/ \E cell : flash' = [flash EXCEPT ![blockNum] = cell]
        BY <3>2 DEF Programs, targetBlockProgram
      <4>3. ASSUME NEW b \in BlockIdx PROVE flash'[b] = flash[b] \/ flash[b] = Erased
        <5>1. b \in Int
          BY DEF BlockIdx
        <5>2. b = blockNum => b >= blockNum
          BY <5>1
        <5> QED
          BY <4>1, <4>2, <5>2 DEF TypeOK, FirmwareTypeOK, TargetTypeOK
      <4> QED
        BY <4>3
    <3>3. CASE cmd \notin {CmdB, CmdC}
      BY <2>3, <3>3 DEF Serves, Initializes, Verifies, Secures, ChecksSecurity,
         Compares, Restarts, targetInitialize, targetBlockVerify, targetSecurityFlash,
         targetSecurityVerify, targetBankChecksumGet, targetReStart, targetVars
    <3> QED
      BY <2>3, <3>1, <3>2, <3>3, Distinct DEF Serves
  <2> QED
    BY <2>1, <2>2, <2>3, CuriousTouches
<1> QED
  BY <1>1, CuriousTypeCorrect, CuriousKnows, PTL DEF CuriousSpec, WrittenOnceErased

\* A chip whose silicon ID is not target_id_v is neither erased nor programmed nor
\* secured: whatever it came with, it keeps.
THEOREM GenuineOnly == CuriousSpec => OnlyGenuineFlashed
<1>1. TypeOK /\ CuriousInv /\ [CuriousNext]_vars
        => [SwapTarget \/ genuine]_<<flash, security>>
  <2> SUFFICES ASSUME TypeOK, CuriousInv, [CuriousNext]_vars
               PROVE  SwapTarget \/ genuine \/ UNCHANGED <<flash, security>>
    OBVIOUS
  <2>1. CASE UNCHANGED targetVars
    BY <2>1 DEF targetVars
  <2>2. CASE SwapTarget
    BY <2>2
  <2>3. ASSUME NEW cmd \in HostCmds, NEW data \in Payload(cmd), Known(cmd),
               Serves(cmd, data)
        PROVE  genuine \/ UNCHANGED <<flash, security>>
    <3>1. CASE cmd = CmdA
      <4>1. Initializes
        BY <2>3, <3>1, Distinct DEF Serves
      <4> QED
        BY <4>1 DEF Initializes, targetInitialize
    <3>2. CASE cmd # CmdA
      BY <2>3, <3>2 DEF Known
    <3> QED
      BY <3>1, <3>2
  <2> QED
    BY <2>1, <2>2, <2>3, CuriousTouches
<1> QED
  BY <1>1, CuriousTypeCorrect, CuriousKnows, PTL DEF CuriousSpec, OnlyGenuineFlashed

-----------------------------------------------------------------------------

(***************************************************************************)
(* Under the patient operator the image stays the same while it is on its  *)
(* way, so more is known: the sum the firmware keeps is that of the blocks *)
(* it programmed, and what was verified is what the window has loaded.     *)
(***************************************************************************)
\* The commands that follow the verification of the blocks.
Final == {CmdE, CmdF, CmdG, CmdX}

Sure(cmd) ==
  /\ cmd = CmdC /\ Served => checksum = BankSums(programData)[blockNum]
  /\ cmd \in {CmdD, CmdE, CmdF, CmdG} => checksum = BankSum(programData)
  /\ cmd = CmdD /\ Served =>
       \A b \in BlockIdx : b < blockNum => Reads(flash[b]) = programData[b]
  /\ cmd \in Final => ImageFlashed
  /\ cmd = CmdF => security \in {SecurityPart(securityData), Damaged}
  /\ cmd \in {CmdG, CmdX} => security = SecurityPart(securityData)

Settled(cmd, arg) ==
  /\ \A next \in HostCmds : Follows(cmd, arg, next) => Sure(next)
  /\ cmd \in Final => ImageFlashed
  /\ cmd = CmdX => tMode = "run" /\ security = SecurityPart(securityData)

PatientInv ==
  \/ Quiet
  \/ \E cmd \in HostCmds :
       \/ Asked(cmd, Expected(cmd)) /\ Sure(cmd)
       \/ \E arg \in Args : Answered(cmd, arg) /\ Settled(cmd, arg)

\* The block that is programmed adds to the sum what it adds in the image.
LEMMA SumWithBlock ==
  ASSUME TypeOK, blockNum \in BlockIdx, checksum = BankSums(programData)[blockNum]
  PROVE  SumWith(programData[blockNum]) = BankSums(programData)[blockNum + 1]
<1>1. programData \in Image
  BY DEF TypeOK, HostTypeOK
<1>2. PICK bank, b : bank = programData /\ b = blockNum
  OBVIOUS
<1>3. BankSums(bank)[b + 1] = (BankSums(bank)[b] + BlockSum(bank[b])) % 65536
  BY <1>1, <1>2, SumsGrow
<1> QED
  BY <1>2, <1>3 DEF SumWith

\* All this does not depend on the line, on what is shown or on the window's counter.
LEMMA SureFramed ==
  ASSUME UNCHANGED <<tMode, flash, security, blockNum, checksum, pc, programData,
                     securityData>>
  PROVE  /\ \A cmd : Sure(cmd) => Sure(cmd)'
         /\ \A cmd, arg : Settled(cmd, arg) => Settled(cmd, arg)'
<1>1. ImageFlashed' = ImageFlashed /\ Served' = Served
  BY DEF ImageFlashed, Served
<1>2. \A cmd : Sure(cmd) => Sure(cmd)'
  BY <1>1 DEF Sure
<1> QED
  BY <1>1, <1>2 DEF Settled

\* It stays so while a request is delivered and read: "c" clears its sum when its loop
\* begins, no other command touches it.
LEMMA SureHears ==
  ASSUME TypeOK, NEW cmd \in HostCmds, NEW data, Asked(cmd, data), Sure(cmd), Hears,
         UNCHANGED hostVars
  PROVE  Sure(cmd)'
<1>1. UNCHANGED <<tMode, flash, security, programData, securityData>>
  BY DEF Hears, sdIncomingDataI, ReadCommandID, ReadTerminator, ReadData, targetVars, hostVars
<1>2. CASE ReadTerminator
  <2>1. /\ pc = "readTrm" /\ cmdID = cmd
        /\ cmd # CmdC => checksum' = checksum
        /\ Served' => /\ cmd \in BlockCmds => blockNum' = 0
                      /\ cmd = CmdC => checksum' = 0
    <3>1. pc = "readTrm" /\ cmdID = cmd
      BY <1>2 DEF ReadTerminator, Asked
    <3>2. PICK b \in Byte :
            /\ pc' = IF b # NL \/ cmdID \notin Commands THEN "readID"
                     ELSE IF cmdID \in PlainCmds THEN "work" ELSE "readData"
            /\ blockNum' = IF b = NL /\ cmdID \in BlockCmds THEN 0 ELSE blockNum
            /\ checksum' = IF b = NL /\ cmdID = CmdC THEN 0 ELSE checksum
      BY <1>2 DEF ReadTerminator
    <3>3. CASE b = NL
      BY <3>1, <3>2, <3>3 DEF Served
    <3>4. CASE b # NL
      BY <3>1, <3>2, <3>4 DEF Served
    <3> QED
      BY <3>3, <3>4
  <2>2. cmd = CmdC /\ Served' => checksum' = BankSums(programData)[blockNum]'
    <3>1. programData \in Image /\ CmdC \in BlockCmds
      BY HostCommands DEF TypeOK, HostTypeOK
    <3>2. BankSums(programData)[0] = 0
      BY <3>1, SumsGrow
    <3>3. CASE cmd = CmdC /\ Served'
      <4>1. checksum' = 0 /\ blockNum' = 0
        BY <2>1, <3>1, <3>3
      <4> QED
        BY <1>1, <3>2, <4>1
    <3> QED
      BY <3>3
  <2>3. cmd \in {CmdD, CmdE, CmdF, CmdG} => checksum' = checksum
    BY <2>1, Distinct
  <2>4. cmd = CmdD /\ Served' =>
          \A b \in BlockIdx : b < blockNum' => Reads(flash[b])' = programData'[b]
    <3>1. CmdD \in BlockCmds /\ \A b \in BlockIdx : ~(b < 0)
      BY HostCommands DEF BlockIdx
    <3> QED
      BY <2>1, <3>1
  <2> QED
    BY <1>1, <2>2, <2>3, <2>4 DEF Sure, ImageFlashed
<1>3. CASE ~ReadTerminator
  <2>1. blockNum' = blockNum /\ checksum' = checksum /\ (Served' <=> Served)
    BY <1>3 DEF Hears, sdIncomingDataI, threadVars, ReadCommandID, ReadData, Served
  <2> QED
    BY <1>1, <2>1 DEF Sure, ImageFlashed
<1> QED
  BY <1>2, <1>3

\* What an operation that leaves the bank alone keeps.
LEMMA ImageStays ==
  ASSUME UNCHANGED <<flash, programData>>
  PROVE  ImageFlashed' = ImageFlashed
BY DEF ImageFlashed

\* "c": each block that succeeds adds to the sum, and the last one completes it.
LEMMA SureProgram ==
  ASSUME TypeOK, NEW data, Asked(CmdC, data), data = Expected(CmdC), pc = "work",
         Sure(CmdC), Programs(data), UNCHANGED hostVars
  PROVE  \E arg \in Args : (Answered(CmdC, arg) /\ Settled(CmdC, arg))'
<1>1. /\ CmdC \in BlockCmds /\ CmdC \in HostCmds /\ CmdC \notin Final /\ CmdC # CmdX
      /\ CmdD \notin Final /\ CmdD # CmdC /\ CmdD \notin {CmdF, CmdG, CmdX}
      /\ CmdC \notin {CmdD, CmdE, CmdF, CmdG, CmdX}
  BY HostCommands, Distinct DEF Final
<1>2. /\ blockNum \in BlockIdx /\ blockNum \in Int /\ NumBlocks \in Int
      /\ blockCntr = blockNum + 1 /\ blockCntr - 1 = blockNum
  <2>1. cmdID = CmdC /\ blockCntr = blockNum + 1
    BY <1>1 DEF Asked, InStep
  <2>2. blockNum \in 0..NumBlocks /\ blockNum < NumBlocks
    BY <1>1, <2>1 DEF TypeOK, FirmwareTypeOK
  <2> QED
    BY <2>1, <2>2, ProtocolAssumption DEF ProtocolAssumption, BlockIdx
<1>3. data = programData[blockNum]
  BY <1>1, <1>2 DEF Expected
<1>4. checksum' = BankSums(programData)[blockNum + 1]
  <2>1. checksum = BankSums(programData)[blockNum]
    BY DEF Sure, Served
  <2>2. checksum' = SumWith(data)
    BY DEF Programs
  <2> QED
    BY <1>2, <1>3, <2>1, <2>2, SumWithBlock
<1>5. programData' = programData
  BY DEF hostVars
<1>6. PICK ok \in BOOLEAN : GoesOn(CmdC, ok)
  BY DEF Programs
<1>7. CASE ok /\ blockNum < NumBlocks - 1
  <2>1. Answered(CmdC, Plus)' /\ blockNum' = blockNum + 1
    BY <1>6, <1>7 DEF GoesOn
  <2>2. checksum' = BankSums(programData')[blockNum']
    BY <1>4, <1>5, <2>1
  <2>3. Sure(CmdC)'
    BY <1>1, <2>2 DEF Sure
  <2>4. Settled(CmdC, Plus)'
    BY <1>1, <2>3, FollowsIs DEF Settled
  <2> QED
    BY <2>1, <2>4, Distinct
<1>8. CASE ~(ok /\ blockNum < NumBlocks - 1)
  <2>1. Answered(CmdC, Outcome(ok))' /\ pc' = "readID"
    BY <1>6, <1>8, Distinct DEF GoesOn, Answered
  <2>2. ASSUME Outcome(ok) = Zero PROVE Sure(CmdD)'
    <3>1. blockNum + 1 = NumBlocks
      <4>1. ok /\ ~(blockNum < NumBlocks - 1) /\ blockNum < NumBlocks
        BY <1>2, <1>8, <2>2, Distinct DEF BlockIdx
      <4> QED
        BY <1>2, <4>1
    <3>2. checksum' = BankSum(programData')
      <4>1. programData \in Image
        BY DEF TypeOK, HostTypeOK
      <4>2. BankSums(programData)[NumBlocks] = BankSum(programData)
        BY <4>1, SumsGrow
      <4> QED
        BY <1>4, <1>5, <3>1, <4>2
    <3>3. ~Served'
      BY <2>1 DEF Served
    <3> QED
      BY <1>1, <3>2, <3>3 DEF Sure
  <2>3. Settled(CmdC, Outcome(ok))'
    BY <1>1, <2>2, FollowsIs, Distinct DEF Settled
  <2> QED
    BY <2>1, <2>3, Distinct
<1> QED
  BY <1>7, <1>8

\* "d": each block that succeeds was read back as it was sent, and after the last one
\* all of them were.
LEMMA SureVerify ==
  ASSUME TypeOK, NEW data, Asked(CmdD, data), data = Expected(CmdD), pc = "work",
         Sure(CmdD), Verifies(data), UNCHANGED hostVars
  PROVE  \E arg \in Args : (Answered(CmdD, arg) /\ Settled(CmdD, arg))'
<1>1. /\ CmdD \in BlockCmds /\ CmdD \in HostCmds /\ CmdD \notin Final /\ CmdD # CmdX
      /\ CmdE # CmdC /\ CmdD # CmdC /\ CmdE \notin {CmdD, CmdF, CmdG, CmdX}
      /\ CmdD \notin {CmdC, CmdF, CmdG, CmdX}
  BY HostCommands, Distinct DEF Final
<1>2. /\ blockNum \in BlockIdx /\ blockNum \in Int /\ NumBlocks \in Int
      /\ blockCntr = blockNum + 1 /\ blockCntr - 1 = blockNum
  <2>1. cmdID = CmdD /\ blockCntr = blockNum + 1
    BY <1>1 DEF Asked, InStep
  <2>2. blockNum \in 0..NumBlocks /\ blockNum < NumBlocks
    BY <1>1, <2>1 DEF TypeOK, FirmwareTypeOK
  <2> QED
    BY <2>1, <2>2, ProtocolAssumption DEF ProtocolAssumption, BlockIdx
<1>3. data = programData[blockNum]
  BY <1>1, <1>2 DEF Expected
<1>4. PICK ok \in BOOLEAN : targetBlockVerify(blockNum, data, ok) /\ GoesOn(CmdD, ok)
  BY DEF Verifies
<1>5. UNCHANGED <<programData, flash, checksum>>
  BY <1>4 DEF hostVars, Verifies, targetBlockVerify, targetVars
<1>6. checksum' = BankSum(programData')
  BY <1>5 DEF Sure
<1>7. ok => \A b \in BlockIdx : b < blockNum + 1 => Reads(flash[b]) = programData[b]
  <2>1. \A b \in BlockIdx : b < blockNum => Reads(flash[b]) = programData[b]
    BY DEF Sure, Served
  <2>2. ok => Reads(flash[blockNum]) = programData[blockNum]
    BY <1>3, <1>4 DEF targetBlockVerify
  <2>3. \A b \in BlockIdx : b < blockNum + 1 => b < blockNum \/ b = blockNum
    BY <1>2 DEF BlockIdx
  <2> QED
    BY <2>1, <2>2, <2>3
<1>8. CASE ok /\ blockNum < NumBlocks - 1
  <2>1. Answered(CmdD, Plus)' /\ blockNum' = blockNum + 1
    BY <1>4, <1>8 DEF GoesOn
  <2>2. \A b \in BlockIdx : b < blockNum' => Reads(flash'[b]) = programData'[b]
    BY <1>5, <1>7, <1>8, <2>1
  <2>3. Sure(CmdD)'
    BY <1>1, <1>6, <2>2 DEF Sure
  <2>4. Settled(CmdD, Plus)'
    BY <1>1, <2>3, FollowsIs DEF Settled
  <2> QED
    BY <2>1, <2>4, Distinct
<1>9. CASE ~(ok /\ blockNum < NumBlocks - 1)
  <2>1. Answered(CmdD, Outcome(ok))'
    BY <1>4, <1>9 DEF GoesOn
  <2>2. ASSUME Outcome(ok) = Zero PROVE Sure(CmdE)'
    <3>1. ok /\ \A b \in BlockIdx : b < blockNum + 1
      <4>1. ok /\ ~(blockNum < NumBlocks - 1)
        BY <1>9, <2>2, Distinct
      <4> QED
        BY <1>2, <4>1 DEF BlockIdx
    <3>2. ImageFlashed'
      BY <1>5, <1>7, <3>1 DEF ImageFlashed
    <3> QED
      BY <1>1, <1>6, <3>2 DEF Sure
  <2>3. Settled(CmdD, Outcome(ok))'
    BY <1>1, <2>2, FollowsIs, Distinct DEF Settled
  <2> QED
    BY <2>1, <2>3, Distinct
<1> QED
  BY <1>8, <1>9

\* "e": the security bits that are written over a verified bank are those of the image, or
\* they did not take.
LEMMA SureSecure ==
  ASSUME TypeOK, NEW data, data = Expected(CmdE), Sure(CmdE), Secures(data),
         UNCHANGED hostVars
  PROVE  \E arg \in Args : (Answered(CmdE, arg) /\ Settled(CmdE, arg))'
<1>1. /\ CmdE \in SecurityCmds /\ CmdE \notin BlockCmds /\ CmdE \in Final /\ CmdE # CmdX
      /\ CmdF \in Final /\ CmdF \notin {CmdC, CmdD, CmdG, CmdX}
      /\ CmdF \in {CmdD, CmdE, CmdF, CmdG}
  BY HostCommands, Distinct DEF Final
<1>2. data = securityData
  BY <1>1 DEF Expected
<1>3. PICK ok \in BOOLEAN : targetSecurityFlash(data, ok) /\ Answered(CmdE, Outcome(ok))'
  BY DEF Secures
<1>4. UNCHANGED <<programData, securityData, flash, checksum>>
  BY <1>3 DEF hostVars, Secures, targetSecurityFlash
<1>5. ImageFlashed' /\ checksum' = BankSum(programData')
  BY <1>1, <1>4, ImageStays DEF Sure
<1>6. ASSUME Outcome(ok) = Zero PROVE Sure(CmdF)'
  <2>1. security' \in {SecurityPart(securityData'), Damaged}
    BY <1>2, <1>3, <1>4, <1>6, Distinct DEF targetSecurityFlash
  <2> QED
    BY <1>1, <1>5, <2>1 DEF Sure
<1>7. Settled(CmdE, Outcome(ok))'
  BY <1>1, <1>5, <1>6, FollowsIs, Distinct DEF Settled
<1> QED
  BY <1>3, <1>7, Distinct

\* "f": security bits that are read back as they were sent are those of the image.
LEMMA SureSecurity ==
  ASSUME TypeOK, NEW data, data = Expected(CmdF), Sure(CmdF), ChecksSecurity(data),
         UNCHANGED hostVars
  PROVE  \E arg \in Args : (Answered(CmdF, arg) /\ Settled(CmdF, arg))'
<1>1. /\ CmdF \in Final /\ CmdF # CmdX
      /\ CmdG \in Final /\ CmdG \notin {CmdC, CmdD, CmdF, CmdX}
      /\ CmdG \in {CmdD, CmdE, CmdF, CmdG} /\ CmdF \in {CmdD, CmdE, CmdF, CmdG}
  BY HostCommands, Distinct DEF Final
<1>2. PICK ok \in BOOLEAN : targetSecurityVerify(data, ok) /\ Answered(CmdF, Outcome(ok))'
  BY DEF ChecksSecurity
<1>3. UNCHANGED <<programData, securityData, flash, security, checksum>>
  BY <1>2 DEF hostVars, ChecksSecurity, targetSecurityVerify, targetVars
<1>4. ImageFlashed' /\ checksum' = BankSum(programData')
  BY <1>1, <1>3, ImageStays DEF Sure
<1>5. ASSUME Outcome(ok) = Zero PROVE Sure(CmdG)'
  <2>1. security # Damaged
    BY <1>2, <1>5, Distinct DEF targetSecurityVerify
  <2>2. security' = SecurityPart(securityData')
    BY <1>3, <2>1 DEF Sure
  <2> QED
    BY <1>1, <1>4, <2>2 DEF Sure
<1>6. Settled(CmdF, Outcome(ok))'
  BY <1>1, <1>4, <1>5, FollowsIs, Distinct DEF Settled
<1> QED
  BY <1>2, <1>6, Distinct

\* "g" and "x" change nothing that is known, and "x" sets the chip running.
LEMMA SureEnd ==
  ASSUME TypeOK, NEW cmd \in {CmdG, CmdX}, Sure(cmd), NEW data, Serves(cmd, data),
         UNCHANGED hostVars
  PROVE  \E arg \in Args : (Answered(cmd, arg) /\ Settled(cmd, arg))'
<1>1. /\ cmd \in HostCmds /\ cmd \in Final
      /\ CmdX \in Final /\ CmdX \notin {CmdC, CmdD, CmdE, CmdF, CmdG}
      /\ cmd \notin {CmdA, CmdB, CmdC, CmdD, CmdE, CmdF} /\ cmd \notin BlockCmds
  BY HostCommands, Distinct DEF Final
<1>2. \/ cmd = CmdG /\ Compares
      \/ cmd = CmdX /\ Restarts
  BY <1>1 DEF Serves
<1>3. UNCHANGED <<programData, securityData, flash, security>>
  BY <1>2 DEF hostVars, Compares, Restarts, targetBankChecksumGet, targetReStart, targetVars
<1>4. ImageFlashed' /\ security' = SecurityPart(securityData')
  BY <1>1, <1>3, ImageStays DEF Sure
<1>5. Sure(CmdX)'
  BY <1>1, <1>4 DEF Sure
<1>6. cmd = CmdX => tMode' = "run"
  BY <1>1, <1>2 DEF Restarts, targetReStart
<1>7. PICK arg \in Args : Answered(cmd, arg)'
  BY <1>1, ServedAnswers
<1>8. \A next \in HostCmds : Follows(cmd, arg, next) => next = CmdX
  BY <1>1, <1>7, FollowsIs DEF Answered
<1> QED
  BY <1>4, <1>5, <1>6, <1>7, <1>8 DEF Settled

\* The reply to a command that is served tells what the next one may rely on.
LEMMA SureServes ==
  ASSUME TypeOK, NEW cmd \in HostCmds, NEW data, Asked(cmd, data), data = Expected(cmd),
         pc = "work", Sure(cmd), Serves(cmd, data), UNCHANGED hostVars
  PROVE  \E arg \in Args : (Answered(cmd, arg) /\ Settled(cmd, arg))'
<1>1. CASE cmd \in {CmdA, CmdB}
  <2>1. PICK arg \in Args : Answered(cmd, arg)'
    BY ServedAnswers
  <2>2. cmd \notin Final /\ cmd # CmdX /\ cmd \notin BlockCmds
    BY <1>1, HostCommands, Distinct DEF Final
  <2>3. \A next \in HostCmds : Follows(cmd, arg, next) =>
           next = CmdB \/ (next = CmdC /\ arg # Plus)
    BY <1>1, <2>1, <2>2, FollowsIs, Distinct DEF Answered
  <2>4. Sure(CmdB)'
    BY Distinct DEF Sure, Final
  <2>5. arg # Plus => Sure(CmdC)'
    <3>1. arg # Plus => ~Served'
      BY <2>1 DEF Answered, Served
    <3> QED
      BY <3>1, Distinct DEF Sure, Final
  <2>6. Settled(cmd, arg)'
    BY <2>2, <2>3, <2>4, <2>5 DEF Settled
  <2> QED
    BY <2>1, <2>6
<1>2. CASE cmd = CmdC
  <2>1. Programs(data)
    BY <1>2, Distinct DEF Serves
  <2> QED
    BY <1>2, <2>1, SureProgram
<1>3. CASE cmd = CmdD
  <2>1. Verifies(data)
    BY <1>3, Distinct DEF Serves
  <2> QED
    BY <1>3, <2>1, SureVerify
<1>4. CASE cmd = CmdE
  <2>1. Secures(data)
    BY <1>4, Distinct DEF Serves
  <2> QED
    BY <1>4, <2>1, SureSecure
<1>5. CASE cmd = CmdF
  <2>1. ChecksSecurity(data)
    BY <1>5, Distinct DEF Serves
  <2> QED
    BY <1>5, <2>1, SureSecurity
<1>6. CASE cmd \in {CmdG, CmdX}
  BY <1>6, SureEnd
<1> QED
  BY <1>1, <1>2, <1>3, <1>4, <1>5, <1>6, HostCommands

\* What is asked is a block of the image, or its security data, or nothing.
LEMMA PatientAsks ==
  ASSUME TypeOK, NEW cmd \in HostCmds, Asked(cmd, Expected(cmd))
  PROVE  Expected(cmd) \in Payload(cmd)
<1>1. PICK data : data = Expected(cmd)
  OBVIOUS
<1>2. cmd \in BlockCmds => blockCntr \in 1..NumBlocks
  BY <1>1, CountersInBank
<1> QED
  BY <1>2, ExpectedPayload

\* With a patient operator the two ends take turns.
LEMMA PatientTurn == TypeOK /\ PatientInv => Turn
BY PatientAsks DEF PatientInv, Turn

\* What is known at a request and at a reply stays known until the next one.
LEMMA PatientStep == TypeOK /\ TypeOK' /\ PatientInv /\ [Next]_vars => PatientInv'
<1> SUFFICES ASSUME TypeOK, TypeOK', PatientInv, [Next]_vars PROVE PatientInv'
  OBVIOUS
<1>1. CASE System
  <2>1. CASE Quiet
    BY <1>1, <2>1, QuietWaits
  <2>2. ASSUME NEW cmd \in HostCmds, Asked(cmd, Expected(cmd)), Sure(cmd)
        PROVE  PatientInv'
    <3>1. PICK data \in Payload(cmd) : data = Expected(cmd)
      BY <2>2, PatientAsks
    <3>2. Asked(cmd, data)
      BY <2>2, <3>1
    <3>3. UNCHANGED hostVars
      BY <1>1, <3>2, AskedStep
    <3>4. Expected(cmd)' = data
      BY <3>1, <3>3 DEF Expected, hostVars
    <3>5. CASE Hears /\ Asked(cmd, data)'
      <4>1. Sure(cmd)'
        BY <2>2, <3>2, <3>3, <3>5, SureHears
      <4>2. Asked(cmd, Expected(cmd))'
        BY <3>4, <3>5 DEF Asked
      <4> QED
        BY <4>1, <4>2 DEF PatientInv
    <3>6. CASE pc = "work" /\ Serves(cmd, data)
      BY <2>2, <3>1, <3>2, <3>3, <3>6, SureServes DEF PatientInv
    <3> QED
      BY <1>1, <3>2, <3>5, <3>6, AskedStep
  <2>3. ASSUME NEW cmd \in HostCmds, NEW arg \in Args, Answered(cmd, arg), Settled(cmd, arg)
        PROVE  PatientInv'
    <3>1. UNCHANGED <<tMode, flash, security, blockNum, checksum, pc>>
      BY <1>1, <2>3, AnsweredTouches DEF targetVars, threadVars
    <3>2. UNCHANGED <<programData, securityData>>
      <4>1. SerialThread => UNCHANGED <<programData, securityData>>
        BY DEF SerialThread, ReceiveBurst
      <4>2. Window => UNCHANGED <<programData, securityData>>
        BY DEF Window, serialData
      <4> QED
        BY <1>1, <2>3, <4>1, <4>2, AnsweredStep
    <3>3. Settled(cmd, arg)' /\ \A next : Sure(next) => Sure(next)'
      BY <2>3, <3>1, <3>2, SureFramed
    <3>4. CASE Answered(cmd, arg)'
      BY <3>3, <3>4 DEF PatientInv
    <3>5. CASE Window
      <4>1. CASE Quiet'
        BY <4>1 DEF PatientInv
      <4>2. ASSUME NEW next \in HostCmds, Follows(cmd, arg, next),
                   Asked(next, Expected(next))'
            PROVE  PatientInv'
        <5>1. Sure(next)'
          BY <2>3, <3>3, <4>2 DEF Settled
        <5> QED
          BY <4>2, <5>1 DEF PatientInv
      <4> QED
        BY <2>3, <3>5, <4>1, <4>2, HandledStep
    <3> QED
      BY <1>1, <2>3, <3>4, <3>5, AnsweredStep
  <2> QED
    BY <2>1, <2>2, <2>3 DEF PatientInv
<1>2. CASE Idle /\ Flash
  <2>1. Asked(CmdA, <<>>)'
    BY <1>2, PatientTurn, IdleIsQuiet, FlashAsks
  <2>2. CmdA \in HostCmds /\ Expected(CmdA)' = <<>>
    BY HostCommands, Distinct DEF Expected
  <2>3. Asked(CmdA, Expected(CmdA))'
    BY <2>1, <2>2 DEF Asked
  <2>4. Sure(CmdA)'
    BY Distinct DEF Sure, Final
  <2> QED
    BY <2>2, <2>3, <2>4 DEF PatientInv
<1>3. CASE Idle /\ (OpenFile \/ SwapTarget)
  <2>1. UNCHANGED <<lineVars, threadVars, rxBuf, events, blockCntr, shown, pending>>
    BY <1>3 DEF OpenFile, fileOpen, SwapTarget, hostVars, lineVars
  <2> QED
    BY <1>3, <2>1, PatientTurn, IdleIsQuiet, TurnFramed DEF PatientInv
<1>4. CASE UNCHANGED vars
  <2>1. /\ UNCHANGED <<lineVars, threadVars, rxBuf, events, blockCntr, shown, pending>>
        /\ UNCHANGED <<tMode, flash, security, blockNum, checksum, pc, programData,
                       securityData>>
    BY <1>4 DEF vars, hostVars, threadVars, targetVars
  <2>2. \A cmd : Asked(cmd, Expected(cmd)) => Asked(cmd, Expected(cmd))'
    <3>1. ASSUME NEW cmd, Asked(cmd, Expected(cmd)) PROVE Asked(cmd, Expected(cmd))'
      <4>1. PICK data : data = Expected(cmd)
        OBVIOUS
      <4>2. Asked(cmd, data)'
        BY <2>1, <3>1, <4>1, TurnFramed
      <4>3. Expected(cmd)' = data
        BY <2>1, <4>1 DEF Expected
      <4> QED
        BY <4>2, <4>3 DEF Asked
    <3> QED
      BY <3>1
  <2> QED
    BY <2>1, <2>2, SureFramed, TurnFramed DEF PatientInv
<1> QED
  BY <1>1, <1>2, <1>3, <1>4 DEF Next, PatientOperator

\* What is known at a request and a reply holds with a patient operator.
LEMMA PatientKnows == Spec => []PatientInv
<1>1. TypeOK /\ [Next]_vars => TypeOK'
  BY SystemNextType
<1>2. TypeOK /\ PatientInv /\ [Next]_vars => PatientInv'
  BY <1>1, PatientStep
<1>3. Init => PatientInv
  BY InitQuiet DEF PatientInv
<1> QED
  BY <1>1, <1>2, <1>3, SystemInitType, PTL DEF Spec

\* A patient operator does nothing the curious one could not do.
LEMMA PatientIsCurious == Spec => CuriousSpec
<1>1. [Next]_vars => [CuriousNext]_vars
  BY DEF Next, PatientOperator, CuriousNext
<1> QED
  BY <1>1, PTL DEF Spec, CuriousSpec

\* What is known says what the window, the firmware and the chip hold.
LEMMA PatientHolds ==
  ASSUME TypeOK, PatientInv
  PROVE  VerifiedMeansFlashed /\ BlocksInStep /\ ChecksumDefined
<1>1. CASE Quiet
  <2>1. shown \in Endings \cup {"nothing"} /\ pc = "readID"
    BY <1>1, BeforeIs DEF Quiet
  <2> QED
    BY <2>1 DEF VerifiedMeansFlashed, BlocksInStep, ChecksumDefined, AfterVerify,
                Endings, Failures
<1>2. ASSUME NEW cmd \in HostCmds, shown \in Before(cmd), shown \in AfterVerify
      PROVE  cmd \in Final
  <2>1. CASE cmd \in {CmdA, CmdB, CmdC, CmdD}
    BY <1>2, <2>1, BeforeIs DEF AfterVerify, Endings, Failures
  <2> QED
    BY <2>1, HostCommands DEF Final
<1>3. ASSUME NEW cmd \in HostCmds, Asked(cmd, Expected(cmd)), Sure(cmd)
      PROVE  VerifiedMeansFlashed /\ BlocksInStep /\ ChecksumDefined
  <2>1. VerifiedMeansFlashed
    BY <1>2, <1>3 DEF VerifiedMeansFlashed, Asked, Sure
  <2>2. BlocksInStep
    <3> SUFFICES ASSUME pc = "readData", cmdID \in BlockCmds
                 PROVE  /\ dataOUT \o Inbound = programData[blockNum]
                        /\ blockCntr = blockNum + 1
      BY DEF BlocksInStep
    <3>1. /\ cmdID = cmd /\ dataOUT \o Inbound = Expected(cmd)
          /\ blockCntr = blockNum + 1
      BY <1>3 DEF Asked, InStep
    <3>2. (blockNum + 1) - 1 = blockNum
      BY DEF TypeOK, FirmwareTypeOK
    <3> QED
      BY <3>1, <3>2 DEF Expected
  <2>3. ChecksumDefined
    BY <1>3, Distinct DEF ChecksumDefined, Asked, Sure
  <2> QED
    BY <2>1, <2>2, <2>3
<1>4. ASSUME NEW cmd \in HostCmds, NEW arg \in Args, Answered(cmd, arg), Settled(cmd, arg)
      PROVE  VerifiedMeansFlashed /\ BlocksInStep /\ ChecksumDefined
  <2>1. VerifiedMeansFlashed
    BY <1>2, <1>4 DEF VerifiedMeansFlashed, Answered, Settled
  <2>2. Inbound = <<>> /\ pc # "work" /\ (pc = "readData" => dataOUT = <<>>)
    BY <1>4 DEF Answered
  <2> QED
    BY <2>1, <2>2 DEF BlocksInStep, ChecksumDefined
<1> QED
  BY <1>1, <1>3, <1>4 DEF PatientInv

\* The counters of the host and of the firmware never drift apart: the block that is being
\* received is the one the firmware will write or compare, wherever the bytes are.
THEOREM BlocksKeepStep == Spec => []BlocksInStep
<1>1. TypeOK /\ PatientInv => BlocksInStep
  BY PatientHolds
<1> QED
  BY <1>1, TypeCorrect, PatientKnows, PTL

\* When "g" is served the local of main() that the code does not initialise holds the sum
\* of the image: "c" was completed before, in the same sequence and on the same blocks.
THEOREM SumIsOfImage == Spec => []ChecksumDefined
<1>1. TypeOK /\ PatientInv => ChecksumDefined
  BY PatientHolds
<1> QED
  BY <1>1, TypeCorrect, PatientKnows, PTL

\* "Verified!" means that the chip holds the image that is loaded.
THEOREM VerifiedIsTrue == Spec => []VerifiedMeansFlashed
<1>1. TypeOK /\ PatientInv => VerifiedMeansFlashed
  BY PatientHolds
<1> QED
  BY <1>1, TypeCorrect, PatientKnows, PTL

\* Security bits are written only over a bank that holds the image.
THEOREM SecuredAfterVerify == Spec => SecuredOnceVerified
<1>1. TypeOK /\ PatientInv /\ [Next]_vars
        => [SwapTarget \/ security' \in {security, Erased} \/ ImageFlashed]_security
  <2> SUFFICES ASSUME TypeOK, PatientInv, [Next]_vars
               PROVE  SwapTarget \/ security' \in {security, Erased} \/ ImageFlashed
    OBVIOUS
  <2>1. CASE System
    <3>1. CASE Quiet
      BY <2>1, <3>1, QuietWaits
    <3>2. ASSUME NEW cmd \in HostCmds, Asked(cmd, Expected(cmd)), Sure(cmd)
          PROVE  security' \in {security, Erased} \/ ImageFlashed
      <4>1. PICK data \in Payload(cmd) : data = Expected(cmd)
        BY <3>2, PatientAsks
      <4>2. CASE cmd \in Final
        BY <3>2, <4>2 DEF Sure
      <4>3. CASE cmd \notin Final /\ Serves(cmd, data)
        BY <4>3 DEF Final, Serves, Initializes, Erases, Programs, Verifies, targetInitialize,
           targetErase, targetBlockProgram, targetBlockVerify, targetVars
      <4>4. CASE UNCHANGED targetVars
        BY <4>4 DEF targetVars
      <4> QED
        BY <2>1, <3>2, <4>1, <4>2, <4>3, <4>4, AskedTouches
    <3>3. ASSUME NEW cmd \in HostCmds, NEW arg \in Args, Answered(cmd, arg)
          PROVE  security' = security
      BY <2>1, <3>3, AnsweredTouches DEF targetVars
    <3> QED
      BY <3>1, <3>2, <3>3 DEF PatientInv
  <2>2. CASE Flash \/ OpenFile \/ UNCHANGED vars
    BY <2>2 DEF Flash, OpenFile, vars, targetVars
  <2>3. CASE SwapTarget
    BY <2>3
  <2> QED
    BY <2>1, <2>2, <2>3 DEF Next, PatientOperator
<1> QED
  BY <1>1, TypeCorrect, PatientKnows, PTL DEF Spec, SecuredOnceVerified

\* A conclusion is printed only in a step of the window.
LEMMA WindowConcludes ==
  ASSUME TypeOK, [Next]_vars, pending' < pending
  PROVE  Window
<1>1. pending \in Nat
  BY DEF TypeOK, HostTypeOK
<1>2. Programmer => pending' = pending
  BY DEF Programmer, hostVars
<1>3. SerialThread => pending' = pending
  BY DEF SerialThread, ReceiveBurst
<1>4. Flash => pending' = pending + 1
  BY DEF Flash, targetFlash
<1>5. OpenFile \/ SwapTarget \/ UNCHANGED vars => pending' = pending
  BY DEF OpenFile, fileOpen, SwapTarget, vars, hostVars
<1> QED
  BY <1>1, <1>2, <1>3, <1>4, <1>5 DEF Next, System, PatientOperator

\* "Target ReStarted!" means a genuine chip that holds the image and its security bits,
\* and that runs.
THEOREM RestartedIsTrue == Spec => RestartedMeansDone
<1> DEFINE Finished == /\ ImageFlashed /\ genuine
                       /\ security = SecurityPart(securityData)
                       /\ tMode = "run"
<1>1. TypeOK /\ TypeOK' /\ CuriousInv /\ PatientInv /\ [Next]_vars
        => [shown' = "restarted" /\ pending' < pending => Finished]_vars
  <2> SUFFICES ASSUME TypeOK, TypeOK', CuriousInv, PatientInv, [Next]_vars,
                      shown' = "restarted", pending' < pending
               PROVE  Finished
    OBVIOUS
  <2>1. Window /\ System
    BY WindowConcludes DEF System
  <2>2. PICK cmd \in HostCmds, arg \in Args : Answered(cmd, arg) /\ Settled(cmd, arg)
    <3>1. ~NoReply
      BY <2>1, NothingToHear
    <3> QED
      BY <3>1 DEF PatientInv, Quiet, Asked
  <2>3. PICK other \in HostCmds, its \in Args : Answered(other, its) /\ Learned(other, its)
    <3>1. ~NoReply
      BY <2>1, NothingToHear
    <3> QED
      BY <3>1 DEF CuriousInv, Quiet, Asked
  <2>4. ASSUME NEW c \in HostCmds, NEW a \in Args, Answered(c, a) PROVE c = CmdX
    <3>1. CASE a = Plus
      <4>1. pending' = pending
        BY <2>1, <2>4, <3>1, AsksBlock
      <4>2. pending \in Nat
        BY DEF TypeOK, HostTypeOK
      <4> QED
        BY <4>1, <4>2
    <3>2. CASE a = Zero /\ c # CmdX
      <4>1. PICK next \in HostCmds \ {CmdA} : Asked(next, Expected(next))'
        BY <2>1, <2>4, <3>2, AsksCommand
      <4>2. shown' \in Before(next)
        BY <4>1 DEF Asked
      <4>3. "restarted" \in Before(CmdA)
        BY BeforeIs DEF Endings
      <4> QED
        BY <4>2, <4>3, OneBefore, HostCommands
    <3>3. CASE a # Plus /\ (a # Zero \/ c = CmdX)
      BY <2>1, <2>4, <3>3, EndsTurn DEF Failures
    <3> QED
      BY <3>1, <3>2, <3>3
  <2>5. cmd = CmdX /\ other = CmdX /\ CmdX \in Final
    BY <2>2, <2>3, <2>4 DEF Final
  <2>6. ImageFlashed /\ security = SecurityPart(securityData) /\ tMode = "run"
    BY <2>2, <2>5 DEF Settled
  <2>7. genuine
    BY <2>3, <2>5 DEF Learned
  <2> QED
    BY <2>6, <2>7
<1> QED
  BY <1>1, TypeCorrect, PatientKnows, PatientIsCurious, CuriousKnows, PTL
     DEF Spec, RestartedMeansDone

-----------------------------------------------------------------------------

(***************************************************************************)
(* The system carries out FlashProcedure: the step and the block of the    *)
(* procedure, as FlashImplements reads them off the window and the reply,  *)
(* at every turn; then each step of the system as one of the procedure.    *)
(***************************************************************************)
\* The operation a command asks for.
Asks(cmd) ==
  CASE cmd = CmdB -> "erase"
    [] cmd = CmdC -> "program"
    [] cmd = CmdD -> "verify"
    [] cmd = CmdE -> "secure"
    [] cmd = CmdF -> "checkSecurity"
    [] cmd = CmdG -> "checksum"
    [] cmd = CmdX -> "restart"
    [] OTHER -> "init"

\* The step bar each command is asked under.
LEMMA OperationIs ==
  /\ Asks(CmdA) = "init"    /\ Asks(CmdB) = "erase"
  /\ Asks(CmdC) = "program" /\ Asks(CmdD) = "verify"
  /\ Asks(CmdE) = "secure"  /\ Asks(CmdF) = "checkSecurity"
  /\ Asks(CmdG) = "checksum" /\ Asks(CmdX) = "restart"
BY DEF Asks, CmdA, CmdB, CmdC, CmdD, CmdE, CmdF, CmdG, CmdX

\* What was shown before a command names the operation it asks for.
LEMMA RequestedIs ==
  ASSUME NEW cmd \in HostCmds, shown \in Before(cmd)
  PROVE  Requested = Asks(cmd)
<1>1. CASE cmd = CmdA
  BY <1>1, BeforeIs, OperationIs DEF Requested, Endings, Failures
<1>2. CASE cmd \in {CmdB, CmdC, CmdD, CmdE, CmdF, CmdG, CmdX}
  BY <1>2, BeforeIs, OperationIs DEF Requested
<1> QED
  BY <1>1, <1>2, HostCommands

\* Only the block commands ask for operations on a block.
LEMMA BlockOperations ==
  ASSUME NEW cmd \in HostCmds
  PROVE  Asks(cmd) \in {"program", "verify"} <=> cmd \in BlockCmds
BY HostCommands, OperationIs, Distinct

\* What follows an operation is what the next command asks for.
LEMMA AfterIs ==
  /\ \A cmd, next \in HostCmds :
       <<cmd, next>> \in Sequel => After[Asks(cmd)] = Asks(next)
  /\ After[Asks(CmdX)] = "done"
<1>1. ASSUME NEW cmd \in HostCmds, NEW next \in HostCmds, <<cmd, next>> \in Sequel
      PROVE  After[Asks(cmd)] = Asks(next)
  <2>1. \/ cmd = CmdA /\ next = CmdB
        \/ cmd = CmdB /\ next = CmdC
        \/ cmd = CmdC /\ next = CmdD
        \/ cmd = CmdD /\ next = CmdE
        \/ cmd = CmdE /\ next = CmdF
        \/ cmd = CmdF /\ next = CmdG
        \/ cmd = CmdG /\ next = CmdX
    BY <1>1 DEF Sequel
  <2> QED
    BY <2>1, OperationIs DEF After
<1> QED
  BY <1>1, OperationIs DEF After

\* The reply in flight is the one that is on its way.
LEMMA InFlightIs ==
  /\ NoReply => ReplyInFlight = <<>>
  /\ \A cmd \in HostCmds, arg \in Args :
       ReplyIs(Reply(cmd, arg)) => ReplyInFlight # <<>> /\ ReplyInFlight[3] = arg
<1>1. ASSUME NEW cmd \in HostCmds, NEW arg \in Args, ReplyIs(Reply(cmd, arg))
      PROVE  ReplyInFlight = Reply(cmd, arg)
  <2>1. CASE events = <<Reply(cmd, arg)>>
    <3>1. events # <<>> /\ Head(events) = Reply(cmd, arg)
      BY <2>1
    <3> QED
      BY <3>1 DEF ReplyInFlight
  <2>2. CASE events = <<>> /\ Outbound = Reply(cmd, arg)
    BY <2>2 DEF ReplyInFlight, Outbound
  <2> QED
    BY <1>1, <2>1, <2>2 DEF ReplyIs
<1>2. \A cmd \in HostCmds, arg \in Args : Reply(cmd, arg) # <<>> /\ Reply(cmd, arg)[3] = arg
  BY ReplyParts DEF Reply
<1> QED
  BY <1>1, <1>2 DEF NoReply, ReplyInFlight, Outbound

\* The procedure between two sequences,
LEMMA BarQuiet ==
  ASSUME Quiet
  PROVE  stepBar = Rested /\ blockBar = 0 /\ stepBar \in {"none", "failed", "done"}
BY DEF Quiet, stepBar, blockBar, Rested

\* while a command is on its way or served,
LEMMA BarAsked ==
  ASSUME NEW cmd \in HostCmds, NEW data, Asked(cmd, data)
  PROVE  /\ stepBar = Asks(cmd)
         /\ blockBar = IF cmd \in BlockCmds THEN blockCntr - 1 ELSE 0
<1>1. NoReply /\ pending = 1 /\ shown \in Before(cmd)
  BY DEF Asked
<1>2. ReplyInFlight = <<>> /\ Requested = Asks(cmd)
  BY <1>1, InFlightIs, RequestedIs
<1>3. stepBar = Asks(cmd)
  BY <1>1, <1>2 DEF stepBar
<1> QED
  BY <1>2, <1>3, BlockOperations DEF blockBar

\* and while its reply is on the way.
LEMMA BarAnswered ==
  ASSUME NEW cmd \in HostCmds, NEW arg \in Args, Answered(cmd, arg)
  PROVE  /\ arg = Plus => stepBar = Asks(cmd) /\ blockBar = blockCntr
         /\ arg # Plus => /\ stepBar = IF arg = Zero THEN After[Asks(cmd)] ELSE "failed"
                          /\ blockBar = 0
<1>1. ReplyIs(Reply(cmd, arg)) /\ pending = 1 /\ shown \in Before(cmd)
      /\ (arg = Plus => cmd \in BlockCmds)
  BY DEF Answered
<1>2. ReplyInFlight # <<>> /\ ReplyInFlight[3] = arg /\ Requested = Asks(cmd)
  BY <1>1, InFlightIs, RequestedIs
<1>3. stepBar = IF arg = Plus THEN Asks(cmd)
                ELSE IF arg = Zero THEN After[Asks(cmd)] ELSE "failed"
  BY <1>1, <1>2 DEF stepBar
<1>4. arg # Plus => blockBar = 0
  BY <1>2 DEF blockBar
<1>5. arg = Plus => blockBar = blockCntr
  <2>1. arg = Plus => stepBar \in {"program", "verify"}
    BY <1>1, <1>3, BlockOperations
  <2> QED
    BY <1>2, <2>1 DEF blockBar
<1> QED
  BY <1>3, <1>4, <1>5

\* A request is on its way, of what the window has loaded or of anything else.
Asking(cmd) == Asked(cmd, Expected(cmd)) \/ \E data : Asked(cmd, data)

\* The three together, of any state and of the one after it.
Bars ==
  /\ Quiet => stepBar = Rested /\ blockBar = 0
  /\ \A cmd \in HostCmds : Asking(cmd) =>
       /\ stepBar = Asks(cmd)
       /\ blockBar = IF cmd \in BlockCmds THEN blockCntr - 1 ELSE 0
  /\ \A cmd \in HostCmds, arg \in Args : Answered(cmd, arg) =>
       /\ arg = Plus => stepBar = Asks(cmd) /\ blockBar = blockCntr
       /\ arg # Plus => /\ stepBar = IF arg = Zero THEN After[Asks(cmd)] ELSE "failed"
                        /\ blockBar = 0

\* The bars show the command asked for and the block asked for.
LEMMA BarsHold == Bars
<1>1. ASSUME NEW cmd \in HostCmds, Asking(cmd)
      PROVE  /\ stepBar = Asks(cmd)
             /\ blockBar = IF cmd \in BlockCmds THEN blockCntr - 1 ELSE 0
  <2>1. PICK data : Asked(cmd, data)
    <3>1. PICK data : data = Expected(cmd)
      OBVIOUS
    <3> QED
      BY <1>1, <3>1 DEF Asking
  <2> QED
    BY <2>1, BarAsked
<1> QED
  BY <1>1, BarQuiet, BarAnswered DEF Bars

\* The bars show the same after the step.
LEMMA BarsHoldNext == Bars'
BY BarsHold, PTL

\* The procedure's operators are those of the chip.
LEMMA SameTarget ==
  /\ Procedure!BlockIdx = BlockIdx /\ Procedure!Blank = Blank
  /\ \A bank : Procedure!BankSum(bank) = BankSum(bank)
  /\ Procedure!ReportedSums = ReportedSums
<1>1. \A bank : Procedure!BankSum(bank) = BankSum(bank)
  BY DEF Procedure!BankSum, BankSum, Procedure!RunningSum, RunningSum,
         Procedure!BlockSum, BlockSum
<1>2. Procedure!BlockIdx = BlockIdx
  BY DEF Procedure!BlockIdx, BlockIdx
<1> QED
  BY <1>1, <1>2 DEF Procedure!Blank, Blank, Procedure!ReportedSums, ReportedSums,
     Procedure!Reads, Reads, Procedure!ZeroBlock, ZeroBlock

-----------------------------------------------------------------------------

(***************************************************************************)
(* The steps.                                                              *)
(***************************************************************************)
\* What the procedure is about stays the same in a step that stutters.
LEMMA Stutters ==
  ASSUME UNCHANGED <<targetVars, programData, securityData, dataLoaded>>,
         stepBar' = stepBar, blockBar' = blockBar
  PROVE  UNCHANGED Procedure!procVars
BY DEF Procedure!procVars, Procedure!targetVars, targetVars

\* Between two sequences the operator starts one, loads a file or connects a chip.
LEMMA OperatorActs ==
  ASSUME TypeOK, TypeOK', Quiet, Flash \/ OpenFile \/ SwapTarget
  PROVE  Procedure!ProcNext
<1>0. stepBar = Rested /\ blockBar = 0 /\ stepBar \in Procedure!AtRest
  BY BarQuiet DEF Procedure!AtRest
<1>1. CASE Flash
  <2>1. UNCHANGED <<targetVars, programData, securityData, dataLoaded>> /\ dataLoaded
    BY <1>1 DEF Flash, targetFlash
  <2>2. Asked(CmdA, <<>>)'
    BY <1>1, FlashAsks
  <2>3. stepBar' = "init" /\ blockBar' = 0
    <3>1. Asking(CmdA)' /\ CmdA \in HostCmds /\ CmdA \notin BlockCmds
      BY <2>2, HostCommands, Distinct DEF Asking
    <3> QED
      BY <3>1, BarsHoldNext, OperationIs DEF Bars
  <2> QED
    BY <1>0, <2>1, <2>3 DEF Procedure!ProcNext, Procedure!Start, Procedure!targetVars, targetVars
<1>2. ASSUME UNCHANGED <<lineVars, threadVars, rxBuf, events, blockCntr, shown, pending>>
      PROVE  stepBar' = stepBar /\ blockBar' = 0
  <2>1. Quiet'
    BY <1>2, TurnFramed
  <2>2. stepBar' = Rested' /\ blockBar' = 0
    BY <2>1, BarsHoldNext DEF Bars
  <2> QED
    BY <1>0, <1>2, <2>2 DEF Rested
<1>3. CASE OpenFile
  <2>1. /\ UNCHANGED <<lineVars, threadVars, rxBuf, events, blockCntr, shown, pending>>
        /\ UNCHANGED targetVars
    BY <1>3 DEF OpenFile, fileOpen, lineVars
  <2>2. programData' \in [BlockIdx -> Block] /\ securityData' \in Block /\ dataLoaded' \in BOOLEAN
    BY DEF TypeOK, HostTypeOK, Image
  <2> QED
    BY <1>0, <1>2, <2>1, <2>2, SameTarget
       DEF Procedure!ProcNext, Procedure!Load, Procedure!targetVars, targetVars
<1>4. CASE SwapTarget
  <2>1. /\ UNCHANGED <<lineVars, threadVars, rxBuf, events, blockCntr, shown, pending>>
        /\ UNCHANGED <<programData, securityData, dataLoaded>> /\ ReplaceTarget
    BY <1>4 DEF SwapTarget, hostVars
  <2>2. Procedure!ReplaceTarget
    BY <2>1, SameTarget DEF Procedure!ReplaceTarget, ReplaceTarget
  <2> QED
    BY <1>0, <1>2, <2>1, <2>2 DEF Procedure!ProcNext, Procedure!Swap
<1> QED
  BY <1>1, <1>3, <1>4

\* The reply to an operation that is not on a block, or on the last one, is what the
\* procedure does next.
LEMMA DoneThen ==
  ASSUME NEW cmd \in HostCmds, NEW ok \in BOOLEAN,
         Answered(cmd, Outcome(ok))' \/ Answered(cmd, IF ok THEN Zero ELSE Two)'
  PROVE  Procedure!Then(ok, After[Asks(cmd)])
<1>1. PICK arg \in Args \ {Plus} : Answered(cmd, arg)' /\ (ok <=> arg = Zero)
  BY Distinct DEF Outcome
<1>2. stepBar' = (IF ok THEN After[Asks(cmd)] ELSE "failed") /\ blockBar' = 0
  BY <1>1, BarsHoldNext DEF Bars
<1> QED
  BY <1>2 DEF Procedure!Then

\* The reply to an operation on a block.
LEMMA GoesOnThen ==
  ASSUME NEW cmd \in BlockCmds, NEW ok \in BOOLEAN, GoesOn(cmd, ok), stepBar = Asks(cmd),
         blockBar = blockNum
  PROVE  Procedure!ThenBlock(ok, After[Asks(cmd)])
<1>0. cmd \in HostCmds /\ Plus \in Args
  BY HostCommands, Distinct
<1>1. CASE ok /\ blockNum < NumBlocks - 1
  <2>1. Answered(cmd, Plus)' /\ blockNum' = blockNum + 1
    BY <1>1 DEF GoesOn
  <2>2. blockBar' = blockNum + 1 /\ stepBar' = stepBar
    <3>1. blockCntr' = blockNum'
      BY <2>1 DEF Answered
    <3> QED
      BY <1>0, <2>1, <3>1, BarsHoldNext DEF Bars
  <2> QED
    BY <1>1, <2>2 DEF Procedure!ThenBlock
<1>2. CASE ~(ok /\ blockNum < NumBlocks - 1)
  <2>1. Answered(cmd, Outcome(ok))'
    BY <1>2 DEF GoesOn
  <2>2. Procedure!Then(ok, After[Asks(cmd)])
    BY <1>0, <2>1, DoneThen
  <2> QED
    BY <1>2, <2>2 DEF Procedure!ThenBlock
<1> QED
  BY <1>1, <1>2

\* What a command works on: for a block command, the block the firmware counts.
LEMMA AtBlock ==
  ASSUME TypeOK, NEW cmd \in BlockCmds, NEW data, Asked(cmd, data), data = Expected(cmd),
         pc = "work"
  PROVE  blockBar = blockNum /\ data = programData[blockNum]
<1>1. /\ cmd \in HostCmds /\ cmdID = cmd
      /\ blockCntr = blockNum + 1 /\ blockNum \in 0..NumBlocks
  BY HostCommands DEF Asked, InStep, TypeOK, FirmwareTypeOK
<1>2. blockCntr - 1 = blockNum
  BY <1>1
<1>3. blockBar = blockCntr - 1
  BY <1>1, BarAsked
<1> QED
  BY <1>2, <1>3 DEF Expected

\* Serving a command is the operation of the procedure.
LEMMA ServesActs ==
  ASSUME TypeOK, NEW cmd \in HostCmds, NEW data, Asked(cmd, data), data = Expected(cmd),
         pc = "work", Sure(cmd), Serves(cmd, data), UNCHANGED hostVars
  PROVE  Procedure!ProcNext
<1>1. stepBar = Asks(cmd)
  BY BarAsked
<1>2. UNCHANGED <<programData, securityData, dataLoaded>>
  BY DEF hostVars
<1>3. \A op : stepBar = op => Procedure!Doing(op)
  BY <1>2 DEF Procedure!Doing
<1>4. After = [init |-> "erase", erase |-> "program", program |-> "verify",
               verify |-> "secure", secure |-> "checkSecurity",
               checkSecurity |-> "checksum", checksum |-> "restart", restart |-> "done"]
  BY DEF After
<1>5. /\ After["init"] = "erase" /\ After["erase"] = "program"
      /\ After["program"] = "verify" /\ After["verify"] = "secure"
      /\ After["secure"] = "checkSecurity" /\ After["checkSecurity"] = "checksum"
      /\ After["checksum"] = "restart" /\ After["restart"] = "done"
  BY <1>4
<1>6. CASE cmd = CmdA
  <2>1. Initializes
    BY <1>6, Distinct DEF Serves
  <2>2. Procedure!Doing("init") /\ After[Asks(CmdA)] = "erase" /\ CmdA \in HostCmds
    BY <1>1, <1>3, <1>5, <1>6, OperationIs
  <2>3. CASE targetInitialize(FALSE) /\ Answered(CmdA, One)'
    <3>1. Outcome(FALSE) = One
      BY DEF Outcome
    <3>2. Procedure!Then(FALSE, "erase")
      BY <2>2, <2>3, <3>1, DoneThen
    <3>3. Procedure!targetInitialize(FALSE)
      BY <2>3 DEF targetInitialize, Procedure!targetInitialize
    <3>4. Procedure!DoInitialize
      BY <2>2, <3>2, <3>3 DEF Procedure!DoInitialize
    <3> QED
      BY <3>4 DEF Procedure!ProcNext, Procedure!Sequence
  <2>4. ASSUME targetInitialize(TRUE), NEW ok \in BOOLEAN, targetSiliconIDVerify(ok),
               Answered(CmdA, IF ok THEN Zero ELSE Two)'
        PROVE  Procedure!ProcNext
    <3>1. Procedure!Then(ok, "erase")
      BY <2>2, <2>4, DoneThen
    <3>2. Procedure!targetInitialize(TRUE) /\ Procedure!targetSiliconIDVerify(ok)
      BY <2>4 DEF targetInitialize, Procedure!targetInitialize, targetSiliconIDVerify,
                  Procedure!targetSiliconIDVerify
    <3>3. Procedure!DoInitialize
      BY <2>2, <3>1, <3>2 DEF Procedure!DoInitialize
    <3> QED
      BY <3>3 DEF Procedure!ProcNext, Procedure!Sequence
  <2> QED
    BY <2>1, <2>3, <2>4 DEF Initializes
<1>7. CASE cmd = CmdB
  <2>1. PICK ok \in BOOLEAN : targetErase(ok) /\ Answered(CmdB, Outcome(ok))'
    BY <1>7, Distinct DEF Serves, Erases
  <2>2. Procedure!Doing("erase") /\ After[Asks(CmdB)] = "program" /\ CmdB \in HostCmds
    BY <1>1, <1>3, <1>5, <1>7, OperationIs
  <2>3. Procedure!Then(ok, "program")
    BY <2>1, <2>2, DoneThen
  <2>4. Procedure!targetErase(ok)
    BY <2>1, SameTarget DEF targetErase, Procedure!targetErase, Answers, Procedure!Answers
  <2>5. Procedure!DoErase
    BY <2>2, <2>3, <2>4 DEF Procedure!DoErase
  <2> QED
    BY <2>5 DEF Procedure!ProcNext, Procedure!Sequence
<1>8. CASE cmd = CmdC
  <2>1. PICK ok \in BOOLEAN : targetBlockProgram(blockNum, data, ok) /\ GoesOn(CmdC, ok)
    BY <1>8, Distinct DEF Serves, Programs
  <2>2. Procedure!Doing("program") /\ After[Asks(CmdC)] = "verify" /\ CmdC \in BlockCmds
    BY <1>1, <1>3, <1>5, <1>8, OperationIs, HostCommands
  <2>3. blockBar = blockNum /\ data = programData[blockNum]
    BY <1>8, <2>2, AtBlock
  <2>4. Procedure!ThenBlock(ok, "verify")
    BY <1>1, <1>8, <2>1, <2>2, <2>3, GoesOnThen
  <2>5. Procedure!targetBlockProgram(blockBar, programData[blockBar], ok)
    BY <2>1, <2>3 DEF targetBlockProgram, Procedure!targetBlockProgram, Answers,
                      Procedure!Answers
  <2>6. Procedure!DoProgram
    BY <2>2, <2>4, <2>5 DEF Procedure!DoProgram
  <2> QED
    BY <2>6 DEF Procedure!ProcNext, Procedure!Sequence
<1>9. CASE cmd = CmdD
  <2>1. PICK ok \in BOOLEAN : targetBlockVerify(blockNum, data, ok) /\ GoesOn(CmdD, ok)
    BY <1>9, Distinct DEF Serves, Verifies
  <2>2. Procedure!Doing("verify") /\ After[Asks(CmdD)] = "secure" /\ CmdD \in BlockCmds
    BY <1>1, <1>3, <1>5, <1>9, OperationIs, HostCommands
  <2>3. blockBar = blockNum /\ data = programData[blockNum]
    BY <1>9, <2>2, AtBlock
  <2>4. Procedure!ThenBlock(ok, "secure")
    BY <1>1, <1>9, <2>1, <2>2, <2>3, GoesOnThen
  <2>5. Procedure!targetBlockVerify(blockBar, programData[blockBar], ok)
    BY <2>1, <2>3 DEF targetBlockVerify, Procedure!targetBlockVerify, Answers,
       Procedure!Answers, targetVars, Procedure!targetVars, Reads, Procedure!Reads,
       ZeroBlock, Procedure!ZeroBlock
  <2>6. Procedure!DoVerify
    BY <2>2, <2>4, <2>5 DEF Procedure!DoVerify
  <2> QED
    BY <2>6 DEF Procedure!ProcNext, Procedure!Sequence
<1>10. CASE cmd \in SecurityCmds
  <2>1. data = securityData /\ cmd \in {CmdE, CmdF}
    BY <1>10, Distinct, HostCommands DEF Expected
  <2>2. \A d : Procedure!SecurityPart(d) = SecurityPart(d)
    BY DEF SecurityPart, Procedure!SecurityPart
  <2>3. CASE cmd = CmdE
    <3>1. PICK ok \in BOOLEAN : targetSecurityFlash(data, ok) /\ Answered(CmdE, Outcome(ok))'
      BY <2>3, Distinct DEF Serves, Secures
    <3>2. Procedure!Doing("secure") /\ After[Asks(CmdE)] = "checkSecurity"
      BY <1>1, <1>3, <1>5, <2>3, OperationIs
    <3>3. Procedure!Then(ok, "checkSecurity")
      BY <2>3, <3>1, <3>2, DoneThen
    <3>4. Procedure!targetSecurityFlash(securityData, ok)
      BY <2>1, <2>2, <3>1 DEF targetSecurityFlash, Procedure!targetSecurityFlash, Answers,
         Procedure!Answers
    <3>5. Procedure!DoSecure
      BY <3>2, <3>3, <3>4 DEF Procedure!DoSecure
    <3> QED
      BY <3>5 DEF Procedure!ProcNext, Procedure!Sequence
  <2>4. CASE cmd = CmdF
    <3>1. PICK ok \in BOOLEAN : targetSecurityVerify(data, ok) /\ Answered(CmdF, Outcome(ok))'
      BY <2>4, Distinct DEF Serves, ChecksSecurity
    <3>2. Procedure!Doing("checkSecurity") /\ After[Asks(CmdF)] = "checksum"
      BY <1>1, <1>3, <1>5, <2>4, OperationIs
    <3>3. Procedure!Then(ok, "checksum")
      BY <2>4, <3>1, <3>2, DoneThen
    <3>4. Procedure!targetSecurityVerify(securityData, ok)
      BY <2>1, <2>2, <3>1 DEF targetSecurityVerify, Procedure!targetSecurityVerify, Answers,
         Procedure!Answers, targetVars, Procedure!targetVars, ZeroBlock, Procedure!ZeroBlock
    <3>5. Procedure!DoCheckSecurity
      BY <3>2, <3>3, <3>4 DEF Procedure!DoCheckSecurity
    <3> QED
      BY <3>5 DEF Procedure!ProcNext, Procedure!Sequence
  <2> QED
    BY <2>1, <2>3, <2>4
<1>11. CASE cmd = CmdG
  <2>1. checksum = BankSum(programData) /\ Procedure!BankSum(programData) = BankSum(programData)
    BY <1>11, SameTarget DEF Sure
  <2>2. Procedure!Doing("checksum") /\ After[Asks(CmdG)] = "restart" /\ CmdG \in HostCmds
    BY <1>1, <1>3, <1>5, <1>11, OperationIs
  <2>3. CASE targetBankChecksumGet(FALSE, 0) /\ Answered(CmdG, One)'
    <3>1. Outcome(FALSE) = One
      BY DEF Outcome
    <3>2. Procedure!Then(FALSE, "restart")
      BY <2>2, <2>3, <3>1, DoneThen
    <3>3. Procedure!targetBankChecksumGet(FALSE, 0)
      BY <2>3 DEF targetBankChecksumGet, Procedure!targetBankChecksumGet, targetVars,
                  Procedure!targetVars
    <3>4. Procedure!DoChecksum
      BY <2>2, <3>2, <3>3 DEF Procedure!DoChecksum
    <3> QED
      BY <3>4 DEF Procedure!ProcNext, Procedure!Sequence
  <2>4. ASSUME NEW sum \in ReportedSums, targetBankChecksumGet(TRUE, sum),
               Answered(CmdG, IF sum = checksum THEN Zero ELSE Two)', checksum' = checksum
        PROVE  Procedure!ProcNext
    <3>1. PICK ok \in BOOLEAN : ok <=> sum = checksum
      OBVIOUS
    <3>2. (IF ok THEN Zero ELSE Two) = (IF sum = checksum' THEN Zero ELSE Two)
      BY <2>4, <3>1
    <3>3. Procedure!Then(ok, "restart")
      <4>1. Answered(CmdG, IF ok THEN Zero ELSE Two)'
        BY <2>4, <3>2 DEF Answered
      <4> QED
        BY <2>2, <4>1, DoneThen
    <3>4. Procedure!Then(sum = Procedure!BankSum(programData), "restart")
      BY <2>1, <3>1, <3>3 DEF Procedure!Then
    <3>5. sum \in Procedure!ReportedSums /\ Procedure!targetBankChecksumGet(TRUE, sum)
      BY <2>4, SameTarget DEF targetBankChecksumGet, Procedure!targetBankChecksumGet,
         targetVars, Procedure!targetVars, Answers, Procedure!Answers
    <3>6. Procedure!DoChecksum
      BY <2>2, <3>4, <3>5 DEF Procedure!DoChecksum
    <3> QED
      BY <3>6 DEF Procedure!ProcNext, Procedure!Sequence
  <2> QED
    BY <1>11, <2>3, <2>4, Distinct DEF Serves, Compares
<1>12. CASE cmd = CmdX
  <2>1. targetReStart /\ Answered(CmdX, Zero)'
    BY <1>12, Distinct DEF Serves, Restarts
  <2>2. Procedure!Doing("restart") /\ After[Asks(CmdX)] = "done" /\ CmdX \in HostCmds
    BY <1>1, <1>3, <1>5, <1>12, OperationIs
  <2>3. Outcome(TRUE) = Zero
    BY DEF Outcome
  <2>4. Procedure!Then(TRUE, "done")
    BY <2>1, <2>2, <2>3, DoneThen
  <2>5. Procedure!targetReStart
    BY <2>1 DEF targetReStart, Procedure!targetReStart
  <2>6. Procedure!DoRestart
    BY <2>2, <2>4, <2>5 DEF Procedure!DoRestart
  <2> QED
    BY <2>6 DEF Procedure!ProcNext, Procedure!Sequence
<1> QED
  BY <1>6, <1>7, <1>8, <1>9, <1>10, <1>11, <1>12, HostCommands

\* A request that is being delivered is the same request.
LEMMA StillAsked ==
  ASSUME NEW cmd \in HostCmds, NEW data, Asked(cmd, data), Asked(cmd, data)',
         UNCHANGED hostVars
  PROVE  stepBar' = stepBar /\ blockBar' = blockBar
<1>1. Asking(cmd) /\ Asking(cmd)' /\ blockCntr' = blockCntr
  BY DEF Asking, hostVars
<1> QED
  BY <1>1, BarsHold, BarsHoldNext DEF Bars

\* So is a reply in pieces the same reply.
LEMMA StillAnswered ==
  ASSUME NEW cmd \in HostCmds, NEW arg \in Args, Answered(cmd, arg), Answered(cmd, arg)',
         blockCntr' = blockCntr
  PROVE  stepBar' = stepBar /\ blockBar' = blockBar
BY BarsHold, BarsHoldNext DEF Bars

\* What the window does with a reply is what the reply had already decided.
LEMMA HandledStutters ==
  ASSUME TypeOK, TypeOK', NEW cmd \in HostCmds, NEW arg \in Args, Answered(cmd, arg), Window
  PROVE  stepBar' = stepBar /\ blockBar' = blockBar
<1>1. CASE arg = Plus
  <2>1. /\ Asked(cmd, Expected(cmd))' /\ cmd \in BlockCmds
        /\ blockCntr' = blockCntr + 1 /\ blockCntr \in BlockIdx
    BY <1>1, AsksBlock
  <2>2. Asking(cmd)' /\ blockCntr' - 1 = blockCntr
    BY <2>1 DEF Asking, BlockIdx
  <2>3. stepBar = Asks(cmd) /\ blockBar = blockCntr
    BY <1>1, BarsHold DEF Bars
  <2>4. stepBar' = Asks(cmd) /\ blockBar' = blockCntr' - 1
    BY <2>1, <2>2, BarsHoldNext DEF Bars
  <2> QED
    BY <2>2, <2>3, <2>4
<1>2. CASE arg = Zero /\ cmd # CmdX
  <2>1. PICK next \in HostCmds \ {CmdA} :
          /\ <<cmd, next>> \in Sequel
          /\ Asked(next, Expected(next))'
          /\ next \in BlockCmds => blockCntr' = 1
    BY <1>2, AsksCommand
  <2>2. Asking(next)' /\ After[Asks(cmd)] = Asks(next)
    BY <2>1, AfterIs DEF Asking
  <2>3. stepBar = Asks(next) /\ blockBar = 0
    BY <1>2, <2>2, BarsHold, Distinct DEF Bars
  <2>4. stepBar' = Asks(next) /\ (blockBar' = IF next \in BlockCmds THEN blockCntr' - 1 ELSE 0)
    BY <2>2, BarsHoldNext DEF Bars
  <2> QED
    BY <2>1, <2>3, <2>4
<1>3. CASE arg # Plus /\ (arg # Zero \/ cmd = CmdX)
  <2>1. /\ Quiet' /\ (cmd = CmdX => arg = Zero)
        /\ IF cmd = CmdX THEN shown' = "restarted" ELSE shown' \in Failures
    BY <1>3, EndsTurn DEF Answered
  <2>2. /\ stepBar = IF cmd = CmdX THEN "done" ELSE "failed"
        /\ blockBar = 0
    BY <1>3, <2>1, BarsHold, AfterIs DEF Bars
  <2>3. stepBar' = Rested' /\ blockBar' = 0
    BY <2>1, BarsHoldNext DEF Bars
  <2>4. Rested' = IF cmd = CmdX THEN "done" ELSE "failed"
    BY <2>1 DEF Rested, Failures
  <2> QED
    BY <2>2, <2>3, <2>4
<1> QED
  BY <1>1, <1>2, <1>3

\* Each step of the system is one of the procedure, or changes nothing of it.
LEMMA ImplementsStep ==
  ASSUME TypeOK, TypeOK', PatientInv, [Next]_vars
  PROVE  Procedure!ProcNext \/ UNCHANGED Procedure!procVars
<1>1. CASE System
  <2>1. CASE Quiet
    BY <1>1, <2>1, QuietWaits
  <2>2. ASSUME NEW cmd \in HostCmds, Asked(cmd, Expected(cmd)), Sure(cmd)
        PROVE  Procedure!ProcNext \/ UNCHANGED Procedure!procVars
    <3>1. PICK data \in Payload(cmd) : data = Expected(cmd)
      BY <2>2, PatientAsks
    <3>2. Asked(cmd, data)
      BY <2>2, <3>1
    <3>3. UNCHANGED hostVars
      BY <1>1, <3>2, AskedStep
    <3>4. CASE Hears /\ Asked(cmd, data)'
      <4>1. stepBar' = stepBar /\ blockBar' = blockBar
        BY <3>2, <3>3, <3>4, StillAsked
      <4>2. UNCHANGED <<targetVars, programData, securityData, dataLoaded>>
        BY <3>3, <3>4 DEF Hears, sdIncomingDataI, ReadCommandID, ReadTerminator, ReadData,
                          hostVars
      <4> QED
        BY <4>1, <4>2, Stutters
    <3>5. CASE pc = "work" /\ Serves(cmd, data)
      BY <2>2, <3>1, <3>2, <3>3, <3>5, ServesActs
    <3> QED
      BY <1>1, <3>2, <3>4, <3>5, AskedStep
  <2>3. ASSUME NEW cmd \in HostCmds, NEW arg \in Args, Answered(cmd, arg)
        PROVE  UNCHANGED Procedure!procVars
    <3>1. UNCHANGED targetVars
      BY <1>1, <2>3, AnsweredTouches
    <3>2. CASE SerialThread /\ Answered(cmd, arg)'
      <4>1. UNCHANGED <<programData, securityData, dataLoaded, blockCntr>>
        BY <3>2 DEF SerialThread, ReceiveBurst
      <4> QED
        BY <2>3, <3>1, <3>2, <4>1, StillAnswered, Stutters
    <3>3. CASE Window
      <4>1. UNCHANGED <<programData, securityData, dataLoaded>>
        BY <3>3 DEF Window, serialData
      <4> QED
        BY <2>3, <3>1, <3>3, <4>1, HandledStutters, Stutters
    <3> QED
      BY <1>1, <2>3, <3>2, <3>3, AnsweredStep
  <2> QED
    BY <2>1, <2>2, <2>3 DEF PatientInv
<1>2. CASE PatientOperator
  BY <1>2, PatientTurn, IdleIsQuiet, OperatorActs DEF PatientOperator
<1>3. CASE UNCHANGED vars
  <2>1. /\ UNCHANGED <<targetVars, programData, securityData, dataLoaded>>
        /\ UNCHANGED <<shown, pending, events, rxBuf, toHost, blockCntr>>
    BY <1>3 DEF vars, hostVars, lineVars
  <2>2. Rested' = Rested /\ Requested' = Requested /\ ReplyInFlight' = ReplyInFlight
    BY <2>1 DEF Rested, Requested, ReplyInFlight
  <2>3. stepBar' = stepBar
    BY <2>1, <2>2 DEF stepBar
  <2>4. blockBar' = blockBar
    BY <2>1, <2>2, <2>3 DEF blockBar
  <2> QED
    BY <2>1, <2>3, <2>4, Stutters
<1> QED
  BY <1>1, <1>2, <1>3 DEF Next

\* The system starts where the procedure starts.
LEMMA ImplementsInit == Init => Procedure!ProcInit
<1> SUFFICES ASSUME Init PROVE Procedure!ProcInit
  OBVIOUS
<1>1. stepBar = Rested /\ blockBar = 0
  BY InitQuiet, BarQuiet
<1>2. Rested = "none"
  BY DEF Rested, Init, HostInit
<1>3. /\ programData = [b \in BlockIdx |-> ZeroData] /\ securityData = ZeroData
      /\ dataLoaded = FALSE /\ FreshTarget
  BY DEF Init, HostInit, FirmwareInit
<1>4. Procedure!ZeroBlock = ZeroData /\ Procedure!FreshTarget
  BY <1>3, SameTarget DEF FreshTarget, Procedure!FreshTarget, Procedure!ZeroBlock, ZeroData
<1> QED
  BY <1>1, <1>2, <1>3, <1>4, SameTarget DEF Procedure!ProcInit

\* What the bytes, the queues, the two block counters and the replies of host and firmware
\* do to the chip is FlashProcedure: the operations of issp.c one after the other, each on
\* the block it is meant for, up to the first that fails.
THEOREM CarriesOutProcedure == Spec => ImplementsProcedure
<1>1. TypeOK /\ TypeOK' /\ PatientInv /\ [Next]_vars
        => [Procedure!ProcNext]_(Procedure!procVars)
  BY ImplementsStep
<1> QED
  BY <1>1, TypeCorrect, PatientKnows, ImplementsInit, PTL
     DEF Spec, ImplementsProcedure, Procedure!ProcSpec
===============================================================================
