----------------------------- MODULE FlashSystem -----------------------------
(***************************************************************************)
(* The flashing sequence end to end: the window and the serial thread of   *)
(* the host, the line, the firmware and the target.                        *)
(*                                                                         *)
(* Two operators of the program are described.  The patient one waits for  *)
(* the printed conclusion of a flash request before touching the window or *)
(* the connector again.  The curious one also opens files while a sequence *)
(* runs, which nothing in the window prevents.                             *)
(***************************************************************************)
EXTENDS Firmware, HostWindow

\* One command and the data that follows it fit in the receive queue of the firmware:
\* 66 bytes of the SERIAL_BUFFERS_SIZE of halconf.h, 128.
ASSUME RoomAssumption == QueueSize >= BlockSize + 2

vars == <<lineVars, threadVars, targetVars, hostVars>>

TypeOK == LineTypeOK /\ FirmwareTypeOK /\ HostTypeOK

Init == LineInit /\ FirmwareInit /\ HostInit

Programmer == FirmwareNext /\ UNCHANGED hostVars

SerialThread ==
  /\ \E n \in 1..Len(toHost) : ReceiveBurst(n)
  /\ UNCHANGED <<iqueue, threadVars, targetVars>>

Window == serialData /\ UNCHANGED <<iqueue, threadVars, targetVars>>

Flash == targetFlash /\ UNCHANGED <<iqueue, threadVars, targetVars>>

OpenFile ==
  /\ \E image \in Images, ok \in BOOLEAN, n \in 0..((NumBlocks + 1) * BlockSize) :
       fileOpen(image, n, ok)
  /\ UNCHANGED <<iqueue, threadVars, targetVars>>

\* Another chip is put on the connector.
SwapTarget == ReplaceTarget /\ UNCHANGED <<lineVars, threadVars, hostVars>>

System == Programmer \/ SerialThread \/ Window

Idle == pending = 0

PatientOperator == Idle /\ (Flash \/ OpenFile \/ SwapTarget)

Next == System \/ PatientOperator

Spec == Init /\ [][Next]_vars

\* Interrupts and threads keep running: the USART delivers what was sent, the main
\* thread is the only one of the firmware that does not sleep, the serial thread
\* polls its port, Qt dispatches posted events.
Fairness ==
  /\ WF_vars(sdIncomingDataI /\ UNCHANGED hostVars)
  /\ WF_vars(MainThread /\ UNCHANGED hostVars)
  /\ WF_vars(SerialThread)
  /\ WF_vars(Window)

FairSpec == Spec /\ Fairness

\* The curious operator.
CuriousNext == System \/ OpenFile \/ (Idle /\ (Flash \/ SwapTarget))

CuriousSpec == Init /\ [][CuriousNext]_vars

-----------------------------------------------------------------------------
(***************************************************************************)
(* Properties of the patient operator's system.                            *)
(***************************************************************************)
\* The chip holds the image: every block, and nothing was damaged.
ImageFlashed == \A b \in BlockIdx : Reads(flash[b]) = programData[b]

\* Results printed only after the verification of every block succeeded.
AfterVerify == {"verified", "securityStored", "securityVerified", "checksumVerified"}

\* When the window says "Verified!" (case 'd' of MainWindow::serialData) and until
\* the sequence ends, the chip holds the image the window has loaded: no shifted,
\* skipped or repeated block between the counters of the host and of the firmware
\* escapes the verification of main.c, case 'd'.
VerifiedMeansFlashed == shown \in AfterVerify => ImageFlashed

\* When the sequence ends with "Target ReStarted!" the chip is a genuine one, holds
\* the image and its security bits, and runs.
RestartedMeansDone ==
  [][shown' = "restarted" /\ pending' < pending =>
       /\ ImageFlashed /\ genuine
       /\ security = SecurityPart(securityData)
       /\ tMode = "run"]_vars

\* Unless the chip is exchanged, a block of it is written only while it is blank: main.c
\* programs each block once per "b", in whatever order commands and replies cross, also
\* on a chip that came programmed.
WrittenOnceErased ==
  [][\/ SwapTarget
     \/ \A b \in BlockIdx : flash'[b] \in {flash[b], Erased} \/ flash[b] = Erased]_flash

\* The security bits are written only over a bank that was verified to hold the image.
SecuredOnceVerified ==
  [][SwapTarget \/ security' \in {security, Erased} \/ ImageFlashed]_security

\* No chip with another silicon ID is erased, programmed or secured: what such a chip
\* held when it was put on the connector it holds until it is taken off.
OnlyGenuineFlashed == [][SwapTarget \/ genuine]_<<flash, security>>

\* The request in flight: bytes the firmware has still to read.
Inbound == iqueue \o wire

\* While the firmware waits for a block, what it has stored and what is on the way
\* is exactly the block of that number, and the host counts one ahead.
BlocksInStep ==
  pc = "readData" /\ cmdID \in BlockCmds /\ (dataOUT # <<>> \/ Inbound # <<>>) =>
    /\ dataOUT \o Inbound = programData[blockNum]
    /\ blockCntr = blockNum + 1

\* The interrupt never finds the receive queue full: no byte is dropped.
NeverOverrun == wire # <<>> => Len(iqueue) < QueueSize

\* One conversation: at most one reply is on its way, so no burst has two replies
\* and msg never carries more than the reply it is meant to carry.
OneReply ==
  /\ Len(events) <= 1
  /\ Len(rxBuf) + Len(toHost) + 4 * Len(events) <= 4
  /\ Inbound # <<>> => events = <<>> /\ rxBuf = <<>> /\ toHost = <<>>

\* Checksum comparison never uses the uninitialised local of main(): when "g" is
\* served the sum is the one of the image.
ChecksumDefined ==
  pc = "work" /\ cmdID = CmdG => checksum = BankSum(programData)

\* Every flash request comes to a printed conclusion: neither side waits for the other
\* for ever although no read of the firmware has a timeout.
Concludes == pending > 0 ~> pending = 0
=============================================================================
