----------------------------- MODULE HostWindow -----------------------------
(***************************************************************************)
(* The window of the host program (ISSProgrammer/mainwindow.cpp) while it  *)
(* is connected: the image it holds, and the slots that run the flashing   *)
(* sequence, each reply choosing the next command.  Slots run one at a     *)
(* time in the GUI thread, on the events the serial thread posted.         *)
(***************************************************************************)
EXTENDS Line

CONSTANTS
  Images,          \* what the hex files of a model hold: [blocks, security]
  MaxPending       \* how many flash requests the operator may have open at once

ASSUME HostAssumption ==
  /\ Images \subseteq [blocks : Image, security : Block]
  /\ MaxPending \in Nat \ {0}

VARIABLES
  rxBuf,           \* m_rxBuf: received bytes short of a reply
  events,          \* serialData signals posted to the window, each with its msg
  programData,
  securityData,
  blockCntr,
  dataLoaded,      \* m_fDataLoaded, and with it the Flash action
  shown,           \* the last result printed in the window
  pending          \* flash requests whose conclusion was not printed yet

hostVars == <<rxBuf, events, programData, securityData, blockCntr, dataLoaded,
              shown, pending>>

(***************************************************************************)
(* The results printed, named after what they say.  The sequence ends with *)
(* a failure of one of its steps or with the restart of the target.        *)
(***************************************************************************)
Failures == {"initFailed", "eraseFailed", "programFailed", "verifyFailed",
             "securityFailed", "securityIncorrect", "checksumFailed", "unrecognized"}
Endings  == Failures \cup {"restarted"}
Progress == {"initialized", "erased", "programmed", "verified", "securityStored",
             "securityVerified", "checksumVerified"}
Results  == Endings \cup Progress \cup {"nothing"}

ZeroData == [i \in 1..BlockSize |-> 0]

HostTypeOK ==
  /\ rxBuf \in Seq(Byte)
  /\ events \in Seq(Seq(Byte))
  /\ programData \in Image
  /\ securityData \in Block
  /\ blockCntr \in 0..NumBlocks
  /\ dataLoaded \in BOOLEAN
  /\ shown \in Results
  /\ pending \in 0..MaxPending

HostInit ==
  /\ rxBuf = <<>> /\ events = <<>>
  /\ programData = [b \in BlockIdx |-> ZeroData]
  /\ securityData = ZeroData
  /\ blockCntr = 0
  /\ dataLoaded = FALSE
  /\ shown = "nothing"
  /\ pending = 0

(***************************************************************************)
(* Mutants.  A definition named after another one and a mistake stands     *)
(* before it; nothing refers to it but the tests of the properties.        *)
(***************************************************************************)

(***************************************************************************)
(* SerialThread: write appends to the transmit buffer, which the thread    *)
(* empties in order; a burst of n received bytes is cut into groups of     *)
(* four.  The msg each signal carries is not cleared between the groups of *)
(* a burst, so the k-th signal carries the first k groups.                 *)
(***************************************************************************)
write(ba) == wire' = wire \o ba

ReceiveBurst(n) ==
  LET got    == rxBuf \o SubSeq(toHost, 1, n)
      groups == Len(got) \div 4
  IN  /\ n \in 1..Len(toHost)
      /\ toHost' = SubSeq(toHost, n + 1, Len(toHost))
      /\ events' = events \o [k \in 1..groups |-> SubSeq(got, 1, 4 * k)]
      /\ rxBuf' = SubSeq(got, 4 * groups + 1, Len(got))
      /\ UNCHANGED <<wire, programData, securityData, blockCntr, dataLoaded, shown, pending>>

(***************************************************************************)
(* MainWindow::serialData, one operator per case of its switch.            *)
(***************************************************************************)
Announce(result) ==
  /\ shown' = result
  /\ pending' = IF result \in Endings /\ pending > 0 THEN pending - 1 ELSE pending

\* Prints how the sequence ended and sends nothing more.
Conclude(result) == Announce(result) /\ UNCHANGED <<wire, blockCntr>>

SendFirstBlock_Uncounted(cmd) ==
  /\ write(Request(cmd) \o programData[0])
  /\ blockCntr' = 0

SendFirstBlock_NoReset(cmd) ==
  /\ write(Request(cmd) \o programData[0])
  /\ blockCntr' = blockCntr + 1

SendFirstBlock_NotWaiting(cmd) ==
  /\ write(Request(cmd) \o programData[0] \o programData[NumBlocks - 1])
  /\ blockCntr' = 1

\* Sends a command followed by the first block of the image.
SendFirstBlock(cmd) ==
  /\ write(Request(cmd) \o programData[0])
  /\ blockCntr' = 1

\* Sends what follows a reply other than that of a block command.
Continue(result, ba) == Announce(result) /\ write(ba) /\ UNCHANGED blockCntr

Succeeded(ba) == ba[3] = Zero /\ ba[4] = NL

OnInitialized_NoErase(ba) ==
  IF Succeeded(ba)
  THEN Announce("erased") /\ SendFirstBlock(CmdC)
  ELSE Conclude("initFailed")

OnInitialized(ba) ==
  IF Succeeded(ba) THEN Continue("initialized", Request(CmdB)) ELSE Conclude("initFailed")

OnErased(ba) ==
  IF Succeeded(ba)
  THEN Announce("erased") /\ SendFirstBlock(CmdC)
  ELSE Conclude("eraseFailed")

WantsBlock(ba) == ba[3] = Plus /\ ba[4] = NL /\ blockCntr < NumBlocks

SendNextBlock ==
  /\ write(programData[blockCntr])
  /\ blockCntr' = blockCntr + 1
  /\ UNCHANGED <<shown, pending>>

OnProgrammed_Unverified(ba) ==
  IF WantsBlock(ba) THEN SendNextBlock
  ELSE IF Succeeded(ba) THEN Continue("verified", Request(CmdE) \o securityData)
  ELSE Conclude("programFailed")

OnProgrammed(ba) ==
  IF WantsBlock(ba) THEN SendNextBlock
  ELSE IF Succeeded(ba) THEN Announce("programmed") /\ SendFirstBlock(CmdD)
  ELSE Conclude("programFailed")

OnVerified(ba) ==
  IF WantsBlock(ba) THEN SendNextBlock
  ELSE IF Succeeded(ba) THEN Continue("verified", Request(CmdE) \o securityData)
  ELSE Conclude("verifyFailed")

OnSecurityStored_Unverified(ba) ==
  IF Succeeded(ba)
  THEN Continue("securityVerified", Request(CmdG))
  ELSE Conclude("securityFailed")

OnSecurityStored(ba) ==
  IF Succeeded(ba)
  THEN Continue("securityStored", Request(CmdF) \o securityData)
  ELSE Conclude("securityFailed")

OnSecurityVerified(ba) ==
  IF Succeeded(ba)
  THEN Continue("securityVerified", Request(CmdG))
  ELSE Conclude("securityIncorrect")

OnChecksum(ba) ==
  IF Succeeded(ba)
  THEN Continue("checksumVerified", Request(CmdX))
  ELSE Conclude("checksumFailed")

OnRestarted(ba) ==
  IF Succeeded(ba) THEN Conclude("restarted") ELSE UNCHANGED <<shown, pending, wire, blockCntr>>

Handle(ba) ==
  IF ba[1] \notin Letter \/ ba[2] # NL THEN Conclude("unrecognized")
  ELSE CASE ba[1] = CmdA -> OnInitialized(ba)
         [] ba[1] = CmdB -> OnErased(ba)
         [] ba[1] = CmdC -> OnProgrammed(ba)
         [] ba[1] = CmdD -> OnVerified(ba)
         [] ba[1] = CmdE -> OnSecurityStored(ba)
         [] ba[1] = CmdF -> OnSecurityVerified(ba)
         [] ba[1] = CmdG -> OnChecksum(ba)
         [] ba[1] = CmdX -> OnRestarted(ba)
         [] OTHER -> Conclude("unrecognized")

serialData ==
  /\ events # <<>>
  /\ events' = Tail(events)
  /\ Handle(Head(events))
  /\ UNCHANGED <<toHost, rxBuf, programData, securityData, dataLoaded>>

(***************************************************************************)
(* What the operator does.                                                 *)
(***************************************************************************)
\* The Flash action is enabled while data is loaded, also during a sequence.
targetFlash ==
  /\ dataLoaded
  /\ pending < MaxPending
  /\ pending' = pending + 1
  /\ write(Request(CmdA))
  /\ UNCHANGED <<toHost, rxBuf, events, programData, securityData, blockCntr,
                 dataLoaded, shown>>

\* Opening a file overwrites the image with its first n bytes: the blocks in order,
\* then the security data.  Loading succeeds at the end of the file wherever that
\* is, so with any number of whole records, and fails at a bad digit or line.
fileOpen(image, n, ok) ==
  /\ n \in 0..((NumBlocks + 1) * BlockSize)
  /\ ok => n % BlockSize = 0
  /\ programData' =
       [b \in BlockIdx |->
          [i \in 1..BlockSize |-> IF b * BlockSize + i <= n
                                  THEN image.blocks[b][i] ELSE programData[b][i]]]
  /\ securityData' =
       [i \in 1..BlockSize |-> IF NumBlocks * BlockSize + i <= n
                               THEN image.security[i] ELSE securityData[i]]
  /\ dataLoaded' = ok
  /\ UNCHANGED <<wire, toHost, rxBuf, events, blockCntr, shown, pending>>
=============================================================================
