---------------------------- MODULE OpenFirmware ----------------------------
(***************************************************************************)
(* The firmware alone, before a host that keeps to no protocol: commands   *)
(* in any order, bytes that belong to no command, data nobody asked for,   *)
(* blocks that never come, more bytes than the receive queue holds.  What  *)
(* a reply means must not depend on the host behaving well.                *)
(***************************************************************************)
EXTENDS Firmware

CONSTANTS
  HostItems,   \* the byte sequences the host chooses from
  MaxItems     \* bound: how many of them it sends

ASSUME OpenAssumption == HostItems \subseteq Seq(Byte) /\ MaxItems \in Nat

VARIABLES
  sent,        \* items sent so far
  good,        \* history: the blocks of the last block command that went well, in order
  begun,       \* history: a "c" was received since the programmer last started
  taken        \* history: the blocks the last "c" took from the host, in order

historyVars == <<good, begun, taken>>
openVars    == <<firmwareVars, sent, historyVars>>

OpenInit ==
  /\ LineInit /\ FirmwareInit
  /\ sent = 0
  /\ good = <<>> /\ begun = FALSE /\ taken = <<>>

\* The host reads what there is to read, and sends something.
HostSends ==
  /\ sent < MaxItems
  /\ wire = <<>>
  /\ \E item \in HostItems : wire' = item
  /\ toHost' = <<>>
  /\ sent' = sent + 1
  /\ UNCHANGED <<iqueue, threadVars, targetVars, historyVars>>

(***************************************************************************)
(* What is recorded of the main thread.  It constrains nothing.            *)
(***************************************************************************)
Starts(cmds) == pc = "readTrm" /\ cmdID \in cmds /\ pc' = "readData"
Works(cmds)  == pc = "work" /\ cmdID \in cmds

\* A block is noted when the firmware answers it with "+" or "0".
Note ==
  good' = IF Starts(BlockCmds) THEN <<>>
          ELSE IF Works(BlockCmds) /\ blockNum' = blockNum + 1
          THEN Append(good, dataOUT)
          ELSE good

\* A block of a "c" is taken whether or not the chip then takes it.
Take ==
  /\ begun' = (Starts({CmdC}) \/ (begun /\ ~Works({CmdZ})))
  /\ taken' = IF Starts({CmdC}) \/ Works({CmdZ}) THEN <<>>
              ELSE IF Works({CmdC}) THEN Append(taken, dataOUT)
              ELSE taken

OpenReceive == sdIncomingDataI /\ UNCHANGED <<sent, historyVars>>
OpenThread  == MainThread /\ Note /\ Take /\ UNCHANGED sent

OpenNext == HostSends \/ OpenReceive \/ OpenThread

OpenSpec == OpenInit /\ [][OpenNext]_openVars

-----------------------------------------------------------------------------
\* The reply this step adds for the host, if any.
Replies(reply) == toHost' = toHost \o reply

\* main.c answers "c\n0\n" only when the loop wrote every block of the bank, and
\* "d\n0\n" only when every block of the bank reads as what was sent for it, each block
\* once and in order, whatever the host sent in between.
SuccessCoversBank ==
  [][/\ Replies(Reply(CmdC, Zero)) =>
          Len(good') = NumBlocks /\ \A b \in BlockIdx : flash'[b] \in {good'[b + 1], Damaged}
     /\ Replies(Reply(CmdD, Zero)) =>
          Len(good') = NumBlocks /\ \A b \in BlockIdx : Reads(flash[b]) = good'[b + 1]]_openVars

\* The blocks the last "c" took, as the beginning of a bank.
Taken == [b \in BlockIdx |-> IF b < Len(taken) THEN taken[b + 1] ELSE ZeroBlock]

\* What the local checksum of main() is, at any time.  From the first "c" after a start of
\* the programmer on it is the sum of the blocks the last "c" took, no more and no less,
\* whether that "c" goes on, ended, or broke off at a block whose programming failed, and
\* whatever other commands and stray bytes came since: nothing of an earlier "c" is left
\* in it.  Before, and after a "z", it is what the uninitialised variable holds.
SumFollowsBlocks ==
  IF begun THEN checksum = BankSum(Taken) ELSE checksum \in StackGarbage

\* What the answer to "g" says, to any host: of a chip without damaged cells, "0" that its
\* bank has the sum of the blocks the last "c" took, "2" that it has not.  Of a "c" that
\* broke off these are only the blocks before the break and the one it broke off at; and
\* without a "c" since the programmer started the answer says nothing.
ChecksumAnswers ==
  [][begun /\ (\A b \in BlockIdx : flash[b] # Damaged) =>
       LET held == BankSum([b \in BlockIdx |-> Reads(flash[b])])
       IN  /\ Replies(Reply(CmdG, Zero)) => held = BankSum(Taken)
           /\ Replies(Reply(CmdG, Two))  => held # BankSum(Taken)]_openVars
=============================================================================
