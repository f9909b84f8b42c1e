------------------------------ MODULE Protocol ------------------------------
(***************************************************************************)
(* The vocabulary shared by the host program (ISSProgrammer) and the       *)
(* programmer firmware (HSSPFirmware/hssp): the bytes of a command, the    *)
(* four-byte replies, the shape of a program image and the 16-bit sums     *)
(* computed over it.  No state lives here.                                 *)
(***************************************************************************)
EXTENDS Integers, Sequences

CONSTANTS
  NumBlocks,     \* BLOCKS_PER_BANK in the firmware, NUM_BLOCKS on the host
  BlockSize,     \* TARGET_DATABUFF_LEN in the firmware, BLOCK_SIZE on the host
  SecuritySize,  \* SECURITY_BYTES_PER_BANK
  QueueSize      \* SERIAL_BUFFERS_SIZE, the receive queue of the firmware

\* The loop counters over the blocks are eight bits wide on both sides.
ASSUME ProtocolAssumption ==
  /\ NumBlocks \in 1..255
  /\ BlockSize \in Nat \ {0}
  /\ SecuritySize \in 1..BlockSize
  /\ QueueSize \in Nat \ {0}

Byte     == 0..255
BlockIdx == 0..(NumBlocks - 1)
Block    == [1..BlockSize -> Byte]
Image    == [BlockIdx -> Block]

(***************************************************************************)
(* The bytes that mean something, by their ASCII code.                     *)
(***************************************************************************)
NL   == 10
Plus == 43
Zero == 48
One  == 49
Two  == 50

CmdA == 97   \* initialise the target and verify its silicon ID
CmdB == 98   \* bulk erase
CmdC == 99   \* program the blocks of the bank
CmdD == 100  \* verify the blocks of the bank
CmdE == 101  \* program the security bits
CmdF == 102  \* verify the security bits
CmdG == 103  \* compare checksums
CmdX == 120  \* restart the target
CmdZ == 122  \* restart the programmer

Letter       == 97..122
BlockCmds    == {CmdC, CmdD}        \* commands that read one block per turn
SecurityCmds == {CmdE, CmdF}        \* commands that read one buffer
PlainCmds    == {CmdA, CmdB, CmdG, CmdX, CmdZ}
Commands     == BlockCmds \cup SecurityCmds \cup PlainCmds

Request(cmd)    == <<cmd, NL>>
Reply(cmd, arg) == <<cmd, NL, arg, NL>>

(***************************************************************************)
(* uint16_t sums: of the bytes of one block, and of a bank of blocks.      *)
(***************************************************************************)
Word == 0..65535

\* The running sum of the first n values, each addition kept to sixteen bits.
RunningSum(values, n) ==
  LET sum[i \in 0..n] == IF i = 0 THEN 0 ELSE (sum[i - 1] + values[i]) % 65536
  IN  sum

BlockSum(data) == RunningSum(data, BlockSize)[BlockSize]

BankSum(bank) ==
  RunningSum([i \in 1..NumBlocks |-> BlockSum(bank[i - 1])], NumBlocks)[NumBlocks]
=============================================================================
