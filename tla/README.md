# DSM2Rx6ChTools: a TLA+ model of the flashing tools

The repository holds a programmer for the Cypress CY8C21x34 chip of a DSM2
receiver: `HSSPFirmware/hssp`, a firmware for an STM32F1 that speaks the chip's
serial programming protocol (ISSP) on two pins, and `ISSProgrammer`, a Qt
program that reads an Intel hex file and drives the firmware over a serial port.
These modules model the two programs, the line between them and the chip at the
end, as far as their correctness depends on it.

## 1. Inventory

| part | state it keeps | operations | what makes it correct |
|---|---|---|---|
| firmware main loop, `hssp/main.c` | place in the loop, `cmdID`, `blockNum`, `checksum` (uninitialised), `targetDataOUT` | read a two-byte command, read its data, cases `a b c d e f g x z` | a success reply is true of the chip; the sum is that of the blocks of the last `c`, and `g` compares that; never stuck |
| chip operations, `hssp/issp.c` | the pins; the chip's mode, flash and security bits | `targetInitialize`, `targetSiliconIDVerify`, `targetErase`, `targetLoad`, `targetBlockProgram`, `targetBlockVerify`, `targetBankChecksumGet`, `targetSecurityFlash`, `targetSecurityVerify`, `targetReStart` | nothing written to a foreign chip or to cells not erased; an error return on every poll that fails |
| poll, `transitionHiLoDetect` | timer | wait for high, wait for low | returns, within its budget |
| window sequence, `mainwindow.cpp` | `programData`, `securityData`, `blockCntr`, `m_fDataLoaded`, `m_fConnected` | `targetFlash`, `serialData` (one case per reply), `serialConnect`, `serialError`, `serialTimeout` | the printed result is true; one request at a time |
| hex loader, `mainwindow.cpp` | `blockCounter`, the two address flags, the image | `fileOpen`, `load`, `hexDataProcess` | the image is what the file says; a complete file is accepted |
| serial thread, `serialthread.cpp` | `m_txBuf`, `m_rxBuf`, `m_quit`, the port | `connect`, `disconnect`, `write`, `run` | bytes in order, one signal per reply, at most one thread |
| serial driver of ChibiOS | two ring buffers of 128 bytes | interrupt, `chnRead`, `chnWrite`, `sdStop` | a bounded FIFO |
| blinker thread, port list, layout, build files, vendored kernel, `DSM2Firmware/*.zip` | | | not modelled, see section 8 |

How they interact. The window writes a request into the thread's transmit
buffer; the thread sends it; the USART interrupt puts each byte into the receive
queue of the firmware, which drops it when full; the main thread reads the queue
with an infinite timeout, works on the chip and writes a four-byte reply; the
serial thread gathers what arrives into a burst, cuts it into groups of four and
posts one signal per group; the window's slot handles the signal and writes the
next request. There are four independent actors (GUI thread, serial thread,
interrupt, main thread), besides the chip and the person at the window.

What is hard: two block counters tied only by `+` replies; commands that are
pairs of bytes with no framing, so one byte too many turns data into commands; a
chip that writes and does not acknowledge, or acknowledges and does not write; a
stop-and-wait protocol in which nobody has a timeout; a sum that outlives the
command that made it; a window whose actions stay enabled while a sequence runs;
two threads with a mutex around half of what they share, and a disconnect that
may give up waiting; vectors whose lengths, clocks and pin directions are apart
from their bits; an interrupt handler that writes back a register it read before.
`PROJECT.json`, "hazards", lists them at their lines.

## 2. Modules

| module | models | corresponds to |
|---|---|---|
| `Protocol` | bytes, commands, replies, images, 16-bit sums | `issp.h`, `targetLoad`, the literals of both programs |
| `Target` | the chip as the functions of `issp.c` act on it | one operator per function, with `ok` for its return value |
| `Line` | the bytes on their way | `m_txBuf`, the port, `SD1.oqueue` |
| `Firmware` | `main.c` and the receive interrupt | one action per stretch between two blocking reads, one per case of the switch |
| `HostWindow` | `mainwindow.cpp` connected, with the receiving side of `SerialThread::run` | one operator per case of `serialData` |
| `FlashSystem` | all of it together, with two kinds of operator | |
| `FlashProcedure` | the abstract specification: one actor applies the operations in order and stops at the first failure | |
| `FlashImplements` | the mapping from `FlashSystem` to `FlashProcedure` | `INSTANCE ... WITH` |
| `OpenFirmware` | `Firmware` before a host that sends anything | |
| `HiLoDetect` | `transitionHiLoDetect`, pass by pass | |
| `Vectors` | the tables of `issp.c`, and each function as the sequence of pin operations it makes | one operator per table and per function |
| `WireChip` | the chip at the other end of SDATA and SCLK: frames, test queue, ROM routines | external: what the tables rely on |
| `Wire` | the functions running call by call and bit by bit, and their caller | `sdataPP`, `byteSend`, `bitReceive`, `transitionHiLoDetect`, ... |
| `HexLoader` | `fileOpen`, `load`, `hexDataProcess` | one action per line of a file, one predicate per branch |
| `SerialThread` | `serialthread.cpp`, the side of `run()` | one action per stretch between lock, driver call and signal |
| `Connection` | the window's slots around it, with the two threads composed | `serialConnect`, `serialError`, `serialTimeout`, the destructors, `connect`, `disconnect`, `write` |
| `SerialDriver` | `SD1`: ring buffers, blocking calls, the interrupt handler | `hal_queues.c`, `hal_serial.c`, `serve_interrupt` |
| `BoundedFifo` | the abstract specification of each of its queues | |
| `MCFlash`, `MCOpenFirmware`, `MCFlashProcedure`, `MCWire`, `MCHexLoader` | instances for TLC | |
| `VectorFrames` | what the bytes of each table say: the frames the chip reads in them | the tables of `issp.c`, read once more |
| `WireInductive` | the inductive invariant of `Wire`, function by function and call by call | |
| `OperatorProofs` | lemmas about sums, bits, tables, frames and calls, for the proofs of the others | |
| `FirmwareProofs`, `FlashProofs` | lemmas and theorems about `Firmware`, and about `FlashProcedure`, `FlashSystem` and the mapping between them | the second extends the first |
| `WireProofs` | theorems and lemmas about `Wire` | |
| `OpenFirmwareProofs` (with `HiLoDetect`), `HexLoaderProofs`, `ConnectionProofs`, `SerialDriverProofs` | theorems and lemmas about the module named | |

State. `pc` is where the main thread blocks (`readID`, `readTrm`, `readData`) or
that it has all it needs (`work`); `chnRead` takes one byte per step, so the
interrupt can come between any two. A case of the switch is one action: what it
does between the read and the reply is seen by nobody else. `wire` is everything
on its way to the firmware, `toHost` everything on its way back; `events` are the
queued signals, each with its own message, and message *k* of a burst starts with
the groups before it because the code never clears `msg`. `blockCntr` is the
static of `serialData`; `blockNum` and `checksum` are the locals of `main`.
A slot that sends a command and a block calls `write` twice; the model appends
both at once, which the bytes on the line cannot tell from two calls, the window
being the only writer. `shown` stands for the text in the window, and `pending` counts requests whose
last line was not printed yet: it is the patient operator's memory.

The chip is not in the repository. `Target` assumes of it what `issp.c` relies
on: it answers polls only in programming mode, an answer can come too late, a
cell can come out `Damaged` although the chip acknowledged (a mark that is neither
data nor security bits), erased cells read as zeros, and a damaged bank reports any sum of `NoiseSums`. A chip that had its ID
refused, or never initialised fully, may still be in programming mode. A chip comes
to the connector with whatever `Contents` allows: the instances have a blank one and
ones that hold a program, locked or half damaged, of the right silicon ID or another.

A file (`HostWindow!fileOpen`) is any prefix of an image, accepted when it ends at
a record boundary (the loader never asks for the end record) or refused anywhere:
in both cases what was read stays in the image, as in the code. `HexLoader` has the
same file line by line, and `LoadIsOpen` shows that each load is one such step. A
line there is what the reader finds in its columns, numbers or unreadable digits.

How the modules fit. `Firmware` uses `Target` for the chip; `Wire` shows that the
bits of `issp.c` do what `Target` says (`ImplementsTarget`). `HostWindow` loads an
image at once; `HexLoader` shows that it may. `Firmware` has a bounded queue;
`SerialDriver` shows that the ring buffers are one (`QueuesAreFifo`).
`FlashSystem` composes the parts while a connection lasts; `Connection` is about
its beginning and end, and sees of the replies only which connection they came over.

The wire. `Calls[f]` is what function `f` does to the pins in order; `call` and
`bit` are how far it is. The chip takes a bit at each falling edge of SCLK.
`WireChip` follows from the tables themselves: cut at the first one-bit, every
vector is a row of frames of 22 bits (opcode, address, data, three ones), which
load two key bytes, a number into the accumulator and a start; the numbers are the
chip's routines for erase, program, verify, protect, checksum, read trims and ID.
The edges of XRES and its 10 ms are one step. A routine ends when it likes,
so `transitionHiLoDetect` may give up before or after; the chip then still holds
SDATA, and a routine of a function that gave up may end before the next reset
(`failed` remembers it). The functions are called in the order of `main.c` and the
window, which starts over with `a` after any error: that order is an assumption
the source of the firmware alone does not enforce, and with another one `issp.c`
would drive against a chip still at work. SDATA is taken as low when nobody drives
it. Between the second clock of a read and the `sdataHiZ` behind it (`issp.c:713-716`)
programmer and chip both drive, which no edge of SCLK sees. The chip does not test the
three closing ones of a frame that reads, which the tables end in different ways
(`read_id_v`, `read_checksum_v`). The `sclkLow` of `issp.c:461` is left out, since SCLK
is low there already. Damaged cells are in `Target` only, so the chips of `Wire` come
without any.

The connection. The GUI thread runs one slot at a time and blocks on the mutex and
in `wait()`; a click takes several steps of `gui`. A request and a byte are known
by the connection they belong to, so a stale one can be told. `m_fDataLoaded` is
taken as true. What may go wrong is chosen at the start of a behaviour:

| fault | what it is |
|---|---|
| `expiry` | the 5 s of `disconnect()` run out: the driver takes that long to open or close the port, or a device never stops sending, so that the inner loop of `run()` does not end |
| `hurry` | a click is served before a signal that was posted earlier |
| `overlap` | the operator reconnects while a thread that gave up by itself is still in `run()` |

The driver. A step of the thread is what it does under one system lock; the
handler is one step, for the thread cannot run meanwhile. It reads CR1 once and runs
every branch whoever called for it, as in the code. The code reads SR again after each
received byte and takes another one if it came in the meantime
(`hal_serial_lld.c:185-201`); here that byte is taken by the handler's next run, which
the pending interrupt asks for at once.

Mutated forms of definitions, used to confirm that the properties notice
mistakes, stand before the definition they change and are named after it
(`NextBlock_SilentEnd`). No specification refers to them.

## 3. The operators

`PatientOperator` waits for the printed conclusion of a request before it
flashes again, opens another file or changes the chip. `CuriousNext` also opens
files while a sequence runs, which the window allows. With the curious operator
`VerifiedMeansFlashed` and `SecuredOnceVerified` do not hold, since the image
they speak of changes under them; what remains true is the run `flash_curious`.
An operator who clicks Flash again during a sequence makes the firmware read
`a\n` as payload, and the conversation has no meaning left: no property of the
composed system is claimed of it. What a reply of the firmware means in itself,
whatever it is sent, is the run `open_firmware`; its properties speak of the blocks the
firmware read, which after such a click are not those the window meant.

## 4. Runs

| run | instance | shows |
|---|---|---|
| `flash_patient` | 2 blocks of 2 bytes, queue of 4, two images | the safety properties of the whole system |
| `flash_fair` | 2 blocks of 2 bytes, one image | `Concludes`, under fairness; the system implements `FlashProcedure` |
| `flash_curious` | 2 blocks of 2 bytes, queue of 4, two images that differ in a byte | what survives a file opened in mid-sequence, and so holds for the patient operator too |
| `open_firmware` | 2 blocks of 1 byte, queue of 2, five items from a lawless host | `SuccessCoversBank`, `SumFollowsBlocks`, `ChecksumAnswers` |
| `flash_procedure` | 3 blocks of 1 byte with two contents each, every image | the promises of the abstract procedure, and `ProcInv` |
| `hilo_detect` | budget 9, timer of 4 bits | `WaitBounded`, `Returns` |
| `hilo_detect_comment` | the same | the comment's bound is not the code's |
| `wire` | the real 64, 32 and 128 bytes, 2 blocks, two contents of a block | the bits of `issp.c` do what `Target` says; no contention on SDATA at an edge of SCLK |
| `hex_loader` | 2 blocks of 3 bytes, files of up to 7 lines of 8 kinds, any number of files | which image a file leaves, and which files are refused |
| `connection` | 3 connections, replies of 2 bytes, bursts of up to 2 bytes at a time, 2 signals waiting | the two host threads, under each set of faults |
| `connection_race` | the same | `m_rxBuf` is not protected as the comment says |
| `serial_driver` | queues of 2 bytes, transfers of up to 3 | the queues, the sleeping thread and the handler |

The properties, by what they would catch:

* `VerifiedMeansFlashed`, `RestartedMeansDone`: the window says "Verified!" or
  "Target ReStarted!" of a chip that holds something else. They relate two
  counters, the queues, the chip's cells and the text.
* `BlocksInStep`, `OneReply`, `NeverOverrun`: the conversation is stop-and-wait,
  although nothing enforces it: the bytes on their way are exactly the block
  `blockNum`, no burst holds two replies, the queue never fills.
* `WrittenOnceErased`, `SecuredOnceVerified`, `OnlyGenuineFlashed`: what a step
  may never do to a chip, across sequences, failures and swapped chips. Chips come with
  a program or without, so a missing erase shows at the first sequence, and a foreign
  chip must keep what it came with, erase included.
* `ChecksumDefined`: before the window's operators the uninitialised or stale sum is
  never compared.
* `SumFollowsBlocks`, `ChecksumAnswers`: before any other host it may be. From the first
  `c` after a start of the programmer on, at any time, the sum is that of the blocks
  the last `c` took, be it under way, ended or broken off; and the answers `0` and `2`
  to `g` tell whether an undamaged bank has that sum. A `g` before any `c` compares
  what the stack held: its answer says nothing, and nothing is claimed of it.
* `SuccessCoversBank`: `c\n0\n` and `d\n0\n` mean every block the firmware read, once
  and in order, for any host. That these are the blocks a host meant is
  `BlocksInStep`, for the window.
* `Concludes`, `Returns`, `WriteReturns`, `GuiNeverStuck`: nobody waits for ever:
  not host and firmware on each other, nor the poll, nor a blocking write, nor the
  window on the mutex or on the thread.
* `ImplementsTarget`, `InStep`: a vector too long or short, an address not
  left-justified, a clock too few: the chip is at another frame than the
  programmer, and the wrong byte goes to the wrong cell.
* `NoContention`: a pin left driving, or left floating, at some edge of SCLK, in the
  vectors after a poll that gave up too.
* `InitSetsTrims`: the second poll of `targetInitialize` is what makes the chip's
  calibration bytes be there when the third vector uses them.
* `ImageIsOfFile`, `EndMeansWhole`, `GoodFileAccepted`: counter and flags that are
  left over from a file refused half way, or count past the end.
* `NothingStale`, `ConnectedIsServed`, `GoneIsEnded`, `RequestLeaves`: the ends of
  connections: a request for another port, a reply made of two connections' bytes,
  a window that thinks it is connected to a thread that ended, a thread destroyed
  while it runs, a request forgotten.
* `NoLostWakeup`, `TransmitterArmed`, `QueuesAreFifo`: the classic mistakes of a
  driver: a sleep after the wake-up, a bit of CR1 overwritten, a wrap one off.

What does not hold is worth as much to a reader. With `expiry`, `NothingStale` and
`ConnectedIsServed` fail: the window goes on as if the thread had ended, the next
`connect()` finds it running, starts none, and the old thread either carries on with
the old port or ends unannounced. With `hurry`, a reply posted before a disconnect
is answered into the transmit buffer of the next connection, because `serialData`
does not look at `m_fConnected`. With `overlap`, a thread that reported a timeout
may still be in `run()` when the next connection asks `isRunning()`, and no thread
serves that connection. With `hurry` or `expiry` a `serialTimeout` of an old thread can also mark a new
connection as closed; `ConnectedIsServed` is the converse. Of a hex file, the addresses
of its records are never compared with anything (`ImageIsOfFile` orders blocks by
their place in the file), the checksum of the program is read and not used, and a
file that stops early is accepted: without a security record the image keeps the
security data of the file before.

`open_firmware` sets `CHECK_DEADLOCK FALSE` because the host stops after
`MaxItems` items and the firmware then rightly waits; `connection` and
`connection_race` because a program whose window was closed has ended. In all
others the system never stops.

Bounds. Two blocks are the fewest with a first and a last one, so `+`, `0` and
the break between are all taken; three in `flash_procedure` add a middle one. Two
bytes per block allow a block to be half delivered, and to be the bytes of a
command (`b\n` is a block of the image). The queue is exactly as long as a
request with its block, the tightest size the real numbers (66 of 128) allow; in
`open_firmware` it is shorter, so it overflows. Two images that share a block
tell a shifted block from a correct one and leave a partly overwritten image
behind. Of the chips of the three `flash_` runs of `MCFlash` one is blank and one holds
the first image and is locked. Five items are enough for a broken-off `c`, a stray byte, a reset and a
second `c`, and for an `a`, a `c` with its blocks and a `g`. `MaxPending = 1` follows from the patient operator. `MaxReads`
in `HiLoDetect` caps a history variable above every value it reaches, and the
timer's modulus is smaller than two budgets so that a wrap would show.

`wire` has the real lengths, so every vector, address and read is there; two blocks
give the `blockNum` a 0 and a 1, and the two contents differ in the first and last
byte. In `hex_loader` a complete file has seven lines, and the lines include
one with a wrong sum, one with an unreadable digit in the middle and one without a
colon; since the counters are reset by the code, a second file is enough to find
what the first left, and there is no limit on how many. In `connection` the third
connection can meet what the first left behind; replies of two bytes can be cut by
a disconnect; `MaxEvents` keeps a burst from beginning while two signals wait. In
`serial_driver` a transfer is longer than the queue, so that both calls sleep and
both pointers wrap (with 128 bytes the firmware's replies never fill a queue;
the driver is checked for any caller).

The type invariants `ConnTypeOK` and `WireTypeOK` say what the variables hold. They
are proved (section 6) and in no run's list.

## 5. Fairness

`Fairness` is weak fairness of the interrupt, the main thread, the serial thread
and the window's event loop, each on its own. The interrupt fires while bytes
arrive; the main thread competes only with a blinker that sleeps; the serial
thread polls its port in a loop with 20 ms timeouts; Qt dispatches queued
signals. Nothing is assumed of the operator. `HiLoDetect` assumes that the
busy loop runs, and nothing of the chip.

In `Connection` both threads are scheduled (weak fairness), and the window gets the
mutex when it asks again and again (strong fairness): a `QMutex` is no queue, but
`run()` leaves it free during at least one wait of 20 ms in every pass. Posted
signals are delivered although clicks come in between. A burst ends, unless the
faults include a device that never pauses. Nobody has to click, and the port may
stay silent. In `SerialDriver` the thread runs when it is ready, an interrupt that
is enabled is served and the USART shifts; nothing makes the host send.

## 6. What is proved

Every safety property of the passing runs is a theorem, and so are the refinements.
All constants are arbitrary under the named assumptions:
1 to 255 blocks (the counters have eight bits), blocks of at least one byte,
`SecuritySize` at most a block, `Erased` and `Damaged` no blocks, a receive queue
that holds a command with its block (`RoomAssumption` of `FlashSystem`; 66 of the
128 bytes are needed), any timer that fits its word. `OpenFirmware` has no such
room and needs none. What a hex reader can find in two or four columns is a byte or
a word, or nothing (`LoaderAssumption`); the loader's three record sizes are told
apart by `BlockSize # 2`. Chips come with any contents, of which there is at least
one, and the mark for damaged cells is no block and no security bits
(`TargetAssumption`). `Wire` has blocks of at most 64 bytes, because the chip's
buffer has no more (`ChipAssumption`), any two trim bytes, any foreign ID, and
chips that come undamaged (`WireAssumption`).

* `OperatorProofs`: facts with no state in them. The recursive function of
  `RunningSum` exists, stays in sixteen bits (`BlockSumInWord`), and the sum of a bank
  grows by one block at a time. The prover cannot use an induction theorem, since it
  has an operator as parameter; the arguments take the least number at which the claim
  would fail. Then the wires: the bits `byteSend` shifts out are those of the number
  its bytes make; a frame of 22 bits lies among three bytes at one of four offsets; so
  each table of `issp.c` is the row of frames `VectorFrames` writes out in the chip's
  instructions; and the calls of each function, loops included, stand where they are
  counted to stand.
* `FirmwareProofs`: the types of the firmware's thread for any host.
* `FlashProofs`, the system: `TypeOK` for both operators, which is inductive because it says
  more than types (the queue is never longer than its buffer, a thread at work has a
  known command and a full block when the command takes one, the block number is
  inside the bank wherever a block is used). Then `Turn`: at any time nobody has
  anything to say (`Quiet`), or one request is on its way or being served (`Asked`:
  the bytes on the line, in the queue and read by the thread are together that
  command and that block), or one reply is on its way (`Answered`: the bytes in the
  line, in `m_rxBuf` and in a posted signal are together that reply). Each byte the
  interrupt or a burst moves keeps the whole. `NeverOverrun` and `OneReply` follow,
  for the curious operator and so for the patient one.
* `FlashProofs`, the chip: what the turns mean. `Turn` alone says nothing of the chip, and
  the safety properties alone are not inductive, since each promises something at the
  end of a sequence of which nothing is said on the way. `CuriousInv` says what is
  known at each request and each reply whichever files are opened: the ID was read,
  the blocks still to be programmed are blank. `PatientInv` adds what rests on the
  image staying the same: the sum is that of the blocks programmed, the blocks
  verified read as the image, and after the last of them the bank does; then the
  security bits. From them `WrittenOnceErased` and `OnlyGenuineFlashed` (curious),
  `BlocksInStep`, `ChecksumDefined`, `VerifiedMeansFlashed`, `SecuredOnceVerified`,
  `RestartedMeansDone` (patient), and `CarriesOutProcedure`: every step of
  `FlashSystem` is, under the mapping of `FlashImplements`, one operation of
  `FlashProcedure` or none.
* `FlashProofs`, the procedure: `ProcInvariant`, `DoneIsFlashed`, `ProgramsErased`. `ProcInv` adds to the promises what is known at each step: while
  programming, blocks behind the index hold their data or are damaged and those
  ahead are blank; while verifying, blocks behind it read as the image; and the
  ID was read. The last verified block turns the second into the whole bank.
* `OpenFirmwareProofs`: before a lawless host there are no turns. One part of the
  invariant (`LoopInv`) is about the two block loops: the blocks noted so far are as
  many as the block number says, those written hold them or are damaged, those compared
  read as them. The other (`SumInv`) is about all times: the sum is that of the blocks
  the last `c` took, and while its loop runs they are as many as the block number says,
  without which one more could be past the bank. `SumFollowsBlocks` is part of it;
  `SuccessCoversBank` and `ChecksumAnswers` follow because a reply of four bytes comes
  from one case of the switch, with that case's argument (`ReplyIsOwn`). The module also has the poll: `WaitIsBounded` ties reads to the timer, which
  add up to one budget in the first loop and to two in the second.
* `HexLoaderProofs`: `LoadInv` holds for any lines and any sequence of files. The two
  flags come in order and only after the last block; as long as no line was refused
  the counter is the number of data records (up to the size of the bank) and the
  image is theirs: `HexTypeOK`, `ImageIsOfFile`, `EndMeansWhole`. `GoodFileAccepted`
  needs that while a file in form is read, its length alone determines counter and
  flags (`InPlace`), and that the sum kept beside the parsing is that of the bytes of
  the line. `LoadIsOpen`: a file refused in the middle of a block has filled a prefix
  of it, so in every case the image is the first *n* bytes of the file.
* `ConnectionProofs`: `ConnTypeOK` and `GoneIsEnded`, which needs nothing more.
  `ConnectedIsServed` rests on `ServedInv`: without an expired wait `m_quit` is seen
  only by a thread that is waited for, and one that ends by itself posted its notice
  before. `NothingStale` rests on `FreshInv`: a window that is not connected has no
  thread that still reads or writes, so a connection begins with nothing posted.
  Both hold under the faults their statements name, and only those (section 4).
* `SerialDriverProofs`: `DriverInv` is the types, both rings in step (the pointers are
  the count apart), a transfer that is under way has something left, and the two
  properties `NoLostWakeup` and `TransmitterArmed`. `RingsAreQueues` maps a ring to
  the bytes between its pointers: each step of the driver puts, gets, resets or
  leaves that sequence.

* `WireProofs`: the wire, for every bit of every vector. The properties of the run say
  what holds at edges and at returns; an invariant has to say what holds at every bit
  between. `WireIInv` does, per function and call: how many bits of which frame the
  chip has taken, which are the upper bits of that frame's number (`Heard`,
  `InVector`); what the frames before it left in RAM and registers (`Written`); which
  routine is queued and with what keys (`Queued`); what a finished routine has done
  (`Effect`); how many bytes of a loop are loaded or compared (`Loaded`); which bits of
  a byte were received (`Receiving`); which way SDATA points; and what a function that
  gave up may have left at work (`Stale`). The proof does not run the bits one by one:
  at bit *b* of a vector the chip is at bit *b* mod 22 of frame *b* div 22, and only
  the last bit of a frame does something, namely what the instruction says
  (`VectorBit`). On it stand the vector with its poll and its forty zeros (`Polled`),
  the reading of two bytes, the loops that write and compare a byte, the selection of
  a block and the moves that set the trims; each of the ten functions is a row of
  these. From `WireIInv` follow `WireTypeCorrect`, `WiresNeverFought`
  (`NoContention`), `FramesInStep` (`InStep`), `TrimsAreSet` (`InitSetsTrims`) and,
  with the step itself, `BitsDoWhatTargetSays` (`ImplementsTarget`): on the way only
  the chip's routines change cells, and the answer of a function is the one `Target`
  gives. The blocks a function does not address are covered: `Target` leaves them.

`ProcInv` and the invariants of `SerialDriver` are checked by TLC in runs. `WireIInv`
was checked by TLC with blocks of 4 bytes and 3 of security (1.4 million states)
before it was proved. `Turn`, `CuriousInv`, `PatientInv`, `LoopInv`, `SumInv`, `LoadInv`, `ServedInv` and `FreshInv` are
proved only.

## 7. What is only model-checked

* Liveness: `Concludes`, `Returns`, `GuiNeverStuck`, `RequestLeaves`, `WriteReturns`.
  The prover does not handle fairness, which is about ENABLED.
* The two disagreements of section 8, which are single behaviours.

## 8. What is not modelled

The repository is two small programs of about 1900 lines on top of a vendored
ChibiOS of more than a hundred thousand, nearly all of it register definitions,
ports to other chips and kernel services this firmware does not use. Of the two
programs everything that changes state is modelled, except what this section
names; of ChibiOS, only the serial path the firmware calls. The share of mapped
lines in the whole repository is therefore small, and would stay so.

The blinker shares nothing. Layout, port enumeration and application start are
pure I/O; the build files only give constants. Of the serial driver, event flags
(nobody listens), transfers with a timeout, LIN and the other USARTs are left out,
and of the kernel the scheduler: a thread that is woken becomes ready. The `.zip`
files are opaque. Electrical levels and real time are left out: a poll counts
passes of its loop, or gives up when it likes. The line loses no byte in
`FlashSystem`; `OpenFirmware` has the effect of lost and stray bytes on the
firmware. Status texts and enabled buttons appear as far as they let an action
happen.

Two disagreements between code and comment were met. `issp.c:322` says the wait of
both loops together is limited to 100 ms; `issp.c:343` loads the timer anew, so
it is each loop's own (`TotalWithinOneBudget`, run `hilo_detect_comment`).
`serialthread.cpp:72` says the shared resources are protected while the thread
works; `m_rxBuf` is used from line 93 on without the mutex under which `connect()`
clears it (`BufferProtected`, run `connection_race`).

## 9. State of the plan

The modules of the plan are written, every safety property and every refinement that
a passing run checks is proved, and the liveness properties are checked on their
instances. What could still be added:

1. Damaged cells in `Wire`: a routine that acknowledges and leaves a cell that reads
   otherwise, which is in `Target` only.
2. The count of the poll in `Wire`, where it gives up when it likes; `HiLoDetect` has
   the counting of its loops.
