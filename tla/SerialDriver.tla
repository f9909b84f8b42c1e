---------------------------- MODULE SerialDriver ----------------------------
(***************************************************************************)
(* The serial driver under the firmware: the two queues of SD1 (ChibiOS    *)
(* hal_queues.c), the calls that the main thread makes (hal_serial.c), and *)
(* the interrupt of the USART (hal_serial_lld.c).  A step of the thread is *)
(* what it does between taking and releasing the system lock; the handler  *)
(* is one step for the thread, which cannot run meanwhile.                 *)
(***************************************************************************)
EXTENDS Integers, Sequences

CONSTANTS
  Size,            \* SERIAL_BUFFERS_SIZE
  Bytes,
  MaxTransfer      \* bound: bytes of one chnRead or chnWrite

ASSUME DriverAssumption ==
  /\ Size \in Nat \ {0} /\ MaxTransfer \in Nat \ {0}
  /\ Bytes # {}

VARIABLES
  iq, oq,          \* SD1.iqueue, SD1.oqueue
  pc,              \* what the main thread is doing
  left,            \* bytes its read still wants
  toWrite,         \* bytes its write has still to queue
  got,             \* the byte its read took last
  txeie, tcie,     \* two bits of CR1: interrupt when DR is empty, when all is sent
  dr,              \* the data register: the byte in it, <<>> when TXE is set
  shifting,        \* a byte, or the idle frame of the start, is on the wire
  tc,              \* the flag of SR for the end of the transmission
  sent             \* the byte the handler took last

queueVars == <<iq, oq>>
callVars  == <<pc, left, toWrite, got>>
usartVars == <<txeie, tcie, dr, shifting, tc, sent>>
driverVars == <<queueVars, callVars, usartVars>>

Index == 0..(Size - 1)

\* q_counter is the bytes waiting in the input queue, the slots free in the output queue.
Queue == [buffer : [Index -> Bytes], rdptr : Index, wrptr : Index, counter : 0..Size]

DriverTypeOK ==
  /\ iq \in Queue /\ oq \in Queue
  /\ pc \in {"idle", "reading", "readWait", "writing", "writeWait"}
  /\ left \in 0..MaxTransfer
  /\ toWrite \in Seq(Bytes) /\ Len(toWrite) <= MaxTransfer
  /\ got \in Bytes /\ sent \in Bytes
  /\ {txeie, tcie, shifting, tc} \subseteq BOOLEAN
  /\ dr \in {<<>>} \cup {<<b>> : b \in Bytes}

\* The input queue is empty when its counter is zero, and the output queue is full then;
\* of the two other tests the counter is only half.
Exhausted(q) == q.counter = 0
Brimming(q)  == q.wrptr = q.rdptr /\ q.counter # 0

InFull   == Brimming(iq)
OutEmpty == Brimming(oq)

DriverInit ==
  /\ \E content \in [Index -> Bytes] :
        /\ iq = [buffer |-> content, rdptr |-> 0, wrptr |-> 0, counter |-> 0]
        /\ oq = [buffer |-> content, rdptr |-> 0, wrptr |-> 0, counter |-> Size]
  /\ pc = "idle" /\ left = 0 /\ toWrite = <<>>
  /\ got \in Bytes /\ sent \in Bytes
  /\ txeie = FALSE /\ tcie = FALSE /\ dr = <<>> /\ shifting = TRUE /\ tc = FALSE

(***************************************************************************)
(* The ring buffers.  A pointer that reaches the top goes to the start.    *)
(***************************************************************************)
Advance_TooFar(p) == IF p + 1 > Size THEN 0 ELSE p + 1

Advance(p) == IF p + 1 >= Size THEN 0 ELSE p + 1

Stored(q, b, counter) ==
  [q EXCEPT !.counter = counter, !.buffer[q.wrptr] = b, !.wrptr = Advance(q.wrptr)]

Fetched(q, counter) == [q EXCEPT !.counter = counter, !.rdptr = Advance(q.rdptr)]

NextByte(q) == q.buffer[q.rdptr]

(***************************************************************************)
(* The main thread: chnRead of n bytes, chnWrite of some, both without a   *)
(* timeout, and sdStop, after which the chip resets.                       *)
(***************************************************************************)
chnRead ==
  /\ pc = "idle"
  /\ left' \in 1..MaxTransfer
  /\ pc' = "reading"
  /\ UNCHANGED <<queueVars, toWrite, got, usartVars>>

chnWrite ==
  /\ pc = "idle"
  /\ \E n \in 1..MaxTransfer : toWrite' \in [1..n -> Bytes]
  /\ pc' = "writing"
  /\ UNCHANGED <<queueVars, left, got, usartVars>>

\* iqReadTimeout: a byte, or to sleep until iqPutI wakes it.
ReadByte ==
  /\ pc = "reading"
  /\ IF Exhausted(iq)
     THEN pc' = "readWait" /\ UNCHANGED <<iq, left, got>>
     ELSE /\ iq' = Fetched(iq, iq.counter - 1)
          /\ got' = NextByte(iq)
          /\ left' = left - 1
          /\ pc' = IF left = 1 THEN "idle" ELSE "reading"
  /\ UNCHANGED <<oq, toWrite, usartVars>>

WriteByte_Unnotified ==
  /\ pc = "writing"
  /\ IF Exhausted(oq)
     THEN pc' = "writeWait" /\ UNCHANGED <<oq, toWrite, txeie>>
     ELSE /\ oq' = Stored(oq, Head(toWrite), oq.counter - 1)
          /\ toWrite' = Tail(toWrite)
          /\ txeie' = (txeie \/ Tail(toWrite) = <<>>)
          /\ pc' = IF Tail(toWrite) = <<>> THEN "idle" ELSE "writing"
  /\ UNCHANGED <<iq, left, got, tcie, dr, shifting, tc, sent>>

\* oqWriteTimeout: a byte, and notify1 enables the interrupt; or to sleep.
WriteByte ==
  /\ pc = "writing"
  /\ IF Exhausted(oq)
     THEN pc' = "writeWait" /\ UNCHANGED <<oq, toWrite, txeie>>
     ELSE /\ oq' = Stored(oq, Head(toWrite), oq.counter - 1)
          /\ toWrite' = Tail(toWrite)
          /\ txeie' = TRUE
          /\ pc' = IF Tail(toWrite) = <<>> THEN "idle" ELSE "writing"
  /\ UNCHANGED <<iq, left, got, tcie, dr, shifting, tc, sent>>

Cleared_ReadKept(q, counter) == [q EXCEPT !.wrptr = 0, !.counter = counter]

Cleared(q, counter) == [q EXCEPT !.rdptr = 0, !.wrptr = 0, !.counter = counter]

\* The unsent bytes of a reply go with the queues.
sdStop ==
  /\ pc = "idle"
  /\ iq' = Cleared(iq, 0) /\ oq' = Cleared(oq, Size)
  /\ txeie' = FALSE /\ tcie' = FALSE
  /\ dr' = <<>> /\ shifting' = TRUE /\ tc' = FALSE
  /\ UNCHANGED <<callVars, sent>>

(***************************************************************************)
(* The interrupt handler.  It reads CR1 and SR once, and runs all of its   *)
(* branches whichever of them asked for it; rx is the byte received.       *)
(***************************************************************************)
\* iqPutI: a byte for which there is no room is dropped.
Stores(rx) == rx # <<>> /\ ~InFull

iqPutI(rx) == iq' = IF Stores(rx) THEN Stored(iq, rx[1], iq.counter + 1) ELSE iq

TransmitDue == txeie /\ dr = <<>>
Fetches == TransmitDue /\ ~OutEmpty

oqGetI ==
  IF Fetches
  THEN oq' = Fetched(oq, oq.counter + 1) /\ sent' = NextByte(oq) /\ dr' = <<NextByte(oq)>>
  ELSE UNCHANGED <<oq, sent, dr>>

Woken_WriterOnly(stores, fetches) == IF pc = "writeWait" /\ fetches THEN "writing" ELSE pc

\* Who sleeps on a queue wakes when a byte goes in, or comes out of the other one.
Woken(stores, fetches) ==
  IF pc = "readWait" /\ stores THEN "reading"
  ELSE IF pc = "writeWait" /\ fetches THEN "writing" ELSE pc

\* With nothing to send, to wait for the end of the transmission instead; when that has
\* come CR1 is written again, with the bits it had at the start.
WriteCR1 ==
  /\ txeie' = (txeie /\ (tc \/ ~TransmitDue \/ ~OutEmpty))
  /\ tcie' = (~tc /\ (tcie \/ (TransmitDue /\ OutEmpty)))

\* CR1 is read once.  SR is read again after each byte received, so one run takes as many
\* as arrive while it lasts; here each byte has a run of its own.
serve_interrupt(rx) ==
  /\ rx # <<>> \/ TransmitDue \/ (tcie /\ tc)
  /\ iqPutI(rx)
  /\ oqGetI
  /\ pc' = Woken(Stores(rx), Fetches)
  /\ WriteCR1
  /\ tc' = FALSE
  /\ UNCHANGED <<left, toWrite, got, shifting>>

Receive == \E b \in Bytes : serve_interrupt(<<b>>)
Transmit == serve_interrupt(<<>>)

\* The USART: DR goes to the wire when that is free.
Load ==
  /\ dr # <<>> /\ ~shifting
  /\ dr' = <<>> /\ shifting' = TRUE
  /\ UNCHANGED <<queueVars, callVars, txeie, tcie, tc, sent>>

Shifted ==
  /\ shifting
  /\ shifting' = FALSE
  /\ tc' = (dr = <<>>)
  /\ UNCHANGED <<queueVars, callVars, txeie, tcie, dr, sent>>

-----------------------------------------------------------------------------
ThreadStep == ReadByte \/ WriteByte

DriverNext ==
  chnRead \/ chnWrite \/ ThreadStep \/ sdStop \/ Receive \/ Transmit \/ Load \/ Shifted

\* The main thread is ready as soon as it is woken, an enabled interrupt is served, the
\* USART sends; nothing makes the host send.
DriverFairness ==
  WF_driverVars(ThreadStep) /\ WF_driverVars(Transmit) /\ WF_driverVars(Load)
    /\ WF_driverVars(Shifted)

DriverSpec == DriverInit /\ [][DriverNext]_driverVars /\ DriverFairness

-----------------------------------------------------------------------------
(***************************************************************************)
(* Properties.                                                             *)
(***************************************************************************)
\* The slot that lies n after slot p.
Place(p, n) == (p + n) % Size

Content(q, n) == [i \in 1..n |-> q.buffer[Place(q.rdptr, i - 1)]]

\* The two ring buffers are first-in, first-out queues of Size bytes to the thread and
\* the handler, across the wrap of their pointers and across sdStop.
InputFifo == INSTANCE BoundedFifo WITH
  Items <- Bytes, waiting <- Content(iq, iq.counter), taken <- got

OutputFifo == INSTANCE BoundedFifo WITH
  Items <- Bytes, waiting <- Content(oq, Size - oq.counter), taken <- sent

QueuesAreFifo == InputFifo!FifoSpec /\ OutputFifo!FifoSpec

\* The thread never sleeps on a queue that has what it waits for: the check and the
\* sleep are under one lock, and every byte put in or taken out wakes it.
NoLostWakeup ==
  /\ pc = "readWait" => iq.counter = 0
  /\ pc = "writeWait" => oq.counter = 0

\* While there are bytes to send their interrupt is enabled: neither the handler, which
\* writes CR1 from a value it read earlier, nor the thread loses the bit.
TransmitterArmed == ~OutEmpty => txeie

\* chnWrite has no timeout and comes back all the same.
WriteReturns == (pc = "writing") ~> (pc = "idle")
=============================================================================
