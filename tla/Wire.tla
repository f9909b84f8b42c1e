-------------------------------- MODULE Wire --------------------------------
(***************************************************************************)
(* The functions of issp.c on the two wires, edge by edge, and the chip at *)
(* their end.  Target says what each function does to the chip; here it is *)
(* shown that the bits sent do that.  The functions are called in the      *)
(* order of main.c and of the window, which starts over after an error.    *)
(***************************************************************************)
EXTENDS WireChip

CONSTANT
  Data             \* what targetDataOUT may hold

\* Damaged cells are left to Target.
ASSUME WireAssumption ==
  /\ Data \subseteq Block
  /\ Contents \subseteq [flash : [BlockIdx -> Block \cup {Erased}], security : Security \cup {Erased}]

VARIABLES
  fn,              \* the function running, or the last one that returned
  running,
  call,            \* how many of its calls are over
  bit,             \* and bits of the present call
  output,          \* SDATA is in push-pull mode
  latch,           \* the level it drives then
  sclk,            \* the level of SCLK
  received,        \* bytes read from the chip by this function
  dataOUT,         \* targetDataOUT
  blockNum,
  ok,              \* the last function returned 0
  failed           \* history: the last one that returned 1, with its arguments

progVars == <<fn, running, call, bit, output, latch, sclk, received, dataOUT, blockNum, ok, failed>>
vars == <<chipVars, progVars>>

Arguments == <<fn, blockNum, dataOUT>>
Now == Calls[fn][call + 1]
Doing(c) == running /\ call < Len(Calls[fn]) /\ Now.do = c
Sends == {"send", "data", "block"}

WireTypeOK ==
  /\ ChipTypeOK
  /\ fn \in Functions /\ running \in BOOLEAN
  /\ call \in 0..Len(Calls[fn]) /\ bit \in Nat
  /\ output \in BOOLEAN /\ latch \in {0, 1} /\ sclk \in {0, 1}
  /\ received \in Seq(Byte)
  /\ dataOUT \in Data /\ blockNum \in BlockIdx /\ ok \in BOOLEAN
  /\ failed \in Functions \X BlockIdx \X Data

WireInit ==
  /\ FreshTarget /\ AsReset /\ malformed = FALSE
  /\ fn = "reStart" /\ running = FALSE /\ ok = TRUE
  /\ call = 0 /\ bit = 0
  /\ output = FALSE /\ latch = 0 /\ sclk = 0
  /\ received = <<>>
  /\ dataOUT \in Data /\ blockNum = 0
  /\ failed = Arguments

(***************************************************************************)
(* The level of SDATA; it is low when nobody drives it.                    *)
(***************************************************************************)
Level(driven, chip) == IF driven # Nothing THEN driven ELSE IF chip # Nothing THEN chip ELSE 0
Driven == IF output THEN latch ELSE Nothing

NextCall == call' = call + 1 /\ bit' = 0
NextBit == IF bit + 1 = Now.n THEN NextCall ELSE call' = call /\ bit' = bit + 1

Return(good) ==
  /\ running' = FALSE /\ ok' = good
  /\ failed' = IF good THEN failed ELSE Arguments

(***************************************************************************)
(* The helpers.                                                            *)
(***************************************************************************)
sdataPP ==
  /\ Doing("pp")
  /\ output' = TRUE
  /\ NextCall
  /\ UNCHANGED <<chipVars, fn, running, latch, sclk, received, dataOUT, blockNum, ok, failed>>

sdataHiZ ==
  /\ Doing("hiz")
  /\ output' = FALSE
  /\ NextCall
  /\ UNCHANGED <<chipVars, fn, running, latch, sclk, received, dataOUT, blockNum, ok, failed>>

\* The next bit of what byteSend is sending.
Sending ==
  CASE Now.do = "send"  -> BitOf(Now.bytes, bit + 1)
    [] Now.do = "data"  -> BitOf(<<dataOUT[Now.i]>>, bit + 1)
    [] Now.do = "block" -> BitOf(<<blockNum>>, bit + 1)

sendBit ==
  /\ \E c \in Sends : Doing(c)
  /\ latch' = Sending
  /\ sclk' = 0
  /\ ChipClock(Level(IF output THEN Sending ELSE Nothing, Drives))
  /\ NextBit
  /\ UNCHANGED <<fn, running, output, received, dataOUT, blockNum, ok, failed>>

\* sclkHigh(); sclkLow(); of which the first is no edge after bitReceive.
clockOnce ==
  /\ Doing("clock")
  /\ sclk' = 0
  /\ ChipClock(Level(Driven, Drives))
  /\ NextCall
  /\ UNCHANGED <<fn, running, output, latch, received, dataOUT, blockNum, ok, failed>>

\* sclkLow(); sclkHigh(); and SDATA is read.
bitReceive ==
  /\ Doing("receive")
  /\ IF sclk = 1 THEN ChipClock(Level(Driven, Drives)) ELSE UNCHANGED chipVars
  /\ sclk' = 1
  /\ LET read == Level(Driven, Drives')
     IN  received' = IF bit = 0 THEN Append(received, read)
                     ELSE [received EXCEPT ![Len(received)] = 2 * @ + read]
  /\ NextBit
  /\ UNCHANGED <<fn, running, output, latch, dataOUT, blockNum, ok, failed>>

\* transitionHiLoDetect: its two loops, each of which may run out.
sawHigh ==
  /\ Doing("poll") /\ bit = 0
  /\ Level(Driven, Drives) = 1
  /\ bit' = 1 /\ call' = call
  /\ UNCHANGED <<chipVars, fn, running, output, latch, sclk, received, dataOUT, blockNum, ok, failed>>

sawLow ==
  /\ Doing("poll") /\ bit = 1
  /\ Level(Driven, Drives) = 0
  /\ NextCall
  /\ UNCHANGED <<chipVars, fn, running, output, latch, sclk, received, dataOUT, blockNum, ok, failed>>

pollTimeout ==
  /\ Doing("poll")
  /\ Return(FALSE)
  /\ UNCHANGED <<chipVars, fn, call, bit, output, latch, sclk, received, dataOUT, blockNum>>

resetTarget ==
  /\ Doing("reset")
  /\ ChipReset
  /\ NextCall
  /\ UNCHANGED <<fn, running, output, latch, sclk, received, dataOUT, blockNum, ok, failed>>

\* What was received is compared: with the data, with the silicon ID.
Expected ==
  IF Now.do = "id" THEN received = target_id_v ELSE received[Now.i] = dataOUT[Now.i]

check ==
  /\ Doing("compare") \/ Doing("id")
  /\ IF Expected THEN NextCall /\ UNCHANGED <<running, ok, failed>>
     ELSE Return(FALSE) /\ UNCHANGED <<call, bit>>
  /\ UNCHANGED <<chipVars, fn, output, latch, sclk, received, dataOUT, blockNum>>

returnOK ==
  /\ running /\ call = Len(Calls[fn])
  /\ Return(TRUE)
  /\ UNCHANGED <<chipVars, fn, call, bit, output, latch, sclk, received, dataOUT, blockNum>>

(***************************************************************************)
(* The caller: the cases of main.c as the window goes through them, each   *)
(* function after the one before it returned 0, the first one after an     *)
(* error.                                                                  *)
(***************************************************************************)
LastBlock_OffByOne == blockNum = NumBlocks
LastBlock == blockNum = NumBlocks - 1

Follows ==
  IF ~ok \/ fn = "reStart" THEN {<<"initialize", 0>>}
  ELSE CASE fn = "initialize"   -> {<<"siliconID", 0>>}
         [] fn = "siliconID"    -> {<<"erase", 0>>}
         [] fn = "erase"        -> {<<"load", 0>>}
         [] fn = "load"         -> {<<"blockProgram", blockNum>>}
         [] fn = "blockProgram" -> {IF LastBlock THEN <<"blockVerify", 0>> ELSE <<"load", blockNum + 1>>}
         [] fn = "blockVerify"  -> {IF LastBlock THEN <<"securityFlash", 0>>
                                    ELSE <<"blockVerify", blockNum + 1>>}
         [] fn = "securityFlash"  -> {<<"securityVerify", 0>>}
         [] fn = "securityVerify" -> {<<"bankChecksum", 0>>}
         [] fn = "bankChecksum"   -> {<<"reStart", 0>>}

\* chnRead fills targetDataOUT before these.
TakesData == {"load", "blockVerify", "securityFlash", "securityVerify"}

Begin ==
  /\ ~running
  /\ \E next \in Follows :
        /\ fn' = next[1] /\ blockNum' = next[2]
        /\ dataOUT' \in (IF next[1] \in TakesData THEN Data ELSE {dataOUT})
  /\ running' = TRUE
  /\ call' = 0 /\ bit' = 0
  /\ received' = <<>>
  /\ UNCHANGED <<chipVars, output, latch, sclk, ok, failed>>

ChipStep == (RaiseSDATA \/ FinishRoutine) /\ UNCHANGED progVars

Next ==
  \/ Begin \/ sdataPP \/ sdataHiZ \/ sendBit \/ clockOnce \/ bitReceive
  \/ sawHigh \/ sawLow \/ pollTimeout \/ resetTarget \/ check \/ returnOK
  \/ ChipStep

Spec == WireInit /\ [][Next]_vars

-----------------------------------------------------------------------------
(***************************************************************************)
(* Properties.                                                             *)
(***************************************************************************)
\* What the programmer drives at the next edge of SCLK.
AtEdge ==
  IF \E c \in Sends : Doing(c) THEN (IF output THEN Sending ELSE Nothing) ELSE Driven

\* Programmer and chip never pull SDATA different ways at an edge of SCLK: not while the
\* chip answers a read, not while it holds SDATA after a routine, and not in the vectors
\* that follow a poll which gave up while the chip was still at work.
NoContention ==
  \A c \in Sends \cup {"clock", "receive"} :
    Doing(c) /\ Drives # Nothing /\ AtEdge # Nothing => AtEdge = Drives

\* The vectors, the bytes sent between them and the clocks around reads add up to whole
\* frames: the chip takes every one, and a function that succeeded leaves it listening
\* at the start of a frame.
InStep ==
  /\ ~malformed
  /\ ~running /\ ok => len = 0 /\ phase = "listening"

\* targetInitialize read the trim bytes of this chip and set its two registers with
\* them: the sequence of three vectors, two polls and the instructions init3_3v queues.
InitSetsTrims ==
  ~running /\ ok /\ fn = "initialize" => reg[\hEA] = Trims[1] /\ reg[\hE8] = Trims[2]

\* The sum targetBankChecksumGet hands to main.c.
SumRead == received[1] * 256 + received[2]

\* The operation of Target that a function is.
Operation(f, b, data, good) ==
  CASE f = "initialize"     -> targetInitialize(good)
    [] f = "siliconID"      -> targetSiliconIDVerify(good) /\ UNCHANGED targetVars
    [] f = "erase"          -> targetErase(good)
    [] f = "load"           -> UNCHANGED targetVars
    [] f = "blockProgram"   -> targetBlockProgram(b, data, good)
    [] f = "blockVerify"    -> targetBlockVerify(b, data, good)
    [] f = "securityFlash"  -> targetSecurityFlash(data, good)
    [] f = "securityVerify" -> targetSecurityVerify(data, good)
    [] f = "bankChecksum"   -> targetBankChecksumGet(good, IF good THEN SumRead ELSE 0)
    [] f = "reStart"        -> targetReStart

\* Bit by bit the functions of issp.c do what Target says of them as a whole.  A function
\* returns 0 only when its operation may; and what changes in the cells is the operation
\* running, at the block and with the bytes it was called with, or that of a function
\* which gave up and whose routine ended before the chip was reset.
ImplementsTarget ==
  [][IF running /\ ~running' /\ ok' THEN Operation(fn, blockNum, dataOUT, TRUE)
     ELSE \/ UNCHANGED targetVars
          \/ running /\ Operation(fn, blockNum, dataOUT, FALSE)
          \/ ~ok /\ Operation(failed[1], failed[2], failed[3], FALSE)]_vars
=============================================================================
