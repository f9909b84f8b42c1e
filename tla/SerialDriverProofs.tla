-------------------------- MODULE SerialDriverProofs --------------------------
(***************************************************************************)
(* The serial driver, for queues of any size, any bytes and transfers of   *)
(* any length: its types, its sleeping thread, its transmit interrupt, and *)
(* that its two ring buffers implement first-in, first-out queues.         *)
(***************************************************************************)
EXTENDS SerialDriver, TLAPS

\* In a ring of Size slots one subtraction does what the remainder says.
LEMMA Wrap ==
  ASSUME NEW p \in Index, NEW n \in 0..Size
  PROVE  Place(p, n) = IF p + n < Size THEN p + n ELSE p + n - Size
BY DriverAssumption DEF DriverAssumption, Index, Place

-----------------------------------------------------------------------------
(***************************************************************************)
(* The inductive invariant.  The firmware keeps two pointers and a count   *)
(* for a queue, and tests now these and now that; all of it rests on the   *)
(* pointers being the count apart.                                         *)
(***************************************************************************)
Ring(q, n) == n \in 0..Size /\ q.wrptr = Place(q.rdptr, n)

RingsInStep == Ring(iq, iq.counter) /\ Ring(oq, Size - oq.counter)

\* A transfer that is under way has something left to do.
TransferUnderWay ==
  /\ pc \in {"reading", "readWait"} => left > 0
  /\ pc \in {"writing", "writeWait"} => toWrite # <<>>

DriverInv ==
  DriverTypeOK /\ RingsInStep /\ TransferUnderWay /\ NoLostWakeup /\ TransmitterArmed

\* hal_queues.c takes equal pointers for full or empty by the counter: right, when the
\* pointers are the count apart.
LEMMA EqualPointers ==
  ASSUME NEW q \in Queue, NEW n, Ring(q, n)
  PROVE  q.wrptr = q.rdptr <=> n \in {0, Size}
<1>1. q.rdptr \in Index /\ n \in 0..Size
  BY DEF Queue, Ring
<1>2. q.wrptr = IF q.rdptr + n < Size THEN q.rdptr + n ELSE q.rdptr + n - Size
  BY <1>1, Wrap DEF Ring
<1> QED
  BY <1>1, <1>2, DriverAssumption DEF Index, DriverAssumption

\* A pointer moves to the next slot of the ring.
LEMMA AdvanceWraps ==
  ASSUME NEW p \in Index PROVE Advance(p) \in Index /\ Advance(p) = Place(p, 1)
<1>1. 1 \in 0..Size /\ p + 1 <= Size /\ p \in Nat
  BY DriverAssumption DEF Index, DriverAssumption
<1>2. Place(p, 1) = IF p + 1 < Size THEN p + 1 ELSE p + 1 - Size
  BY <1>1, Wrap
<1> QED
  BY <1>1, <1>2, DriverAssumption DEF Advance, Index, DriverAssumption

\* The fields of a queue after a byte was put in, and after one was taken out.
LEMMA Fields ==
  ASSUME NEW q \in Queue, NEW b \in Bytes, NEW c \in 0..Size
  PROVE  /\ Stored(q, b, c) \in Queue
         /\ Stored(q, b, c).buffer = [q.buffer EXCEPT ![q.wrptr] = b]
         /\ Stored(q, b, c).rdptr = q.rdptr
         /\ Stored(q, b, c).wrptr = Advance(q.wrptr)
         /\ Stored(q, b, c).counter = c
         /\ Fetched(q, c) \in Queue
         /\ Fetched(q, c).buffer = q.buffer
         /\ Fetched(q, c).rdptr = Advance(q.rdptr)
         /\ Fetched(q, c).wrptr = q.wrptr
         /\ Fetched(q, c).counter = c
<1>1. q.rdptr \in Index /\ q.wrptr \in Index /\ q.buffer \in [Index -> Bytes]
  BY DEF Queue
<1>2. Advance(q.rdptr) \in Index /\ Advance(q.wrptr) \in Index
  BY <1>1, AdvanceWraps
<1>3. [q.buffer EXCEPT ![q.wrptr] = b] \in [Index -> Bytes]
  BY <1>1
<1>4. /\ Stored(q, b, c) \in Queue
      /\ Stored(q, b, c).buffer = [q.buffer EXCEPT ![q.wrptr] = b]
      /\ Stored(q, b, c).rdptr = q.rdptr
      /\ Stored(q, b, c).wrptr = Advance(q.wrptr)
      /\ Stored(q, b, c).counter = c
  BY <1>1, <1>2, <1>3 DEF Stored, Queue
<1>5. /\ Fetched(q, c) \in Queue
      /\ Fetched(q, c).buffer = q.buffer
      /\ Fetched(q, c).rdptr = Advance(q.rdptr)
      /\ Fetched(q, c).wrptr = q.wrptr
      /\ Fetched(q, c).counter = c
  BY <1>1, <1>2 DEF Fetched, Queue
<1> QED
  BY <1>4, <1>5

\* What the two operations make of a queue that holds n bytes.
LEMMA RingSteps ==
  ASSUME NEW q \in Queue, NEW n, Ring(q, n), NEW b \in Bytes, NEW c \in 0..Size
  PROVE  /\ Stored(q, b, c) \in Queue /\ Fetched(q, c) \in Queue /\ NextByte(q) \in Bytes
         /\ n < Size => Ring(Stored(q, b, c), n + 1)
         /\ n > 0 => Ring(Fetched(q, c), n - 1)
<1>1. /\ q.rdptr \in Index /\ q.wrptr \in Index /\ n \in 0..Size
      /\ q.buffer \in [Index -> Bytes]
  BY DEF Queue, Ring
<1>2. NextByte(q) \in Bytes
  BY <1>1 DEF NextByte
<1>3. q.wrptr = IF q.rdptr + n < Size THEN q.rdptr + n ELSE q.rdptr + n - Size
  BY <1>1, Wrap DEF Ring
<1>4. ASSUME n < Size PROVE Ring(Stored(q, b, c), n + 1)
  <2>1. n + 1 \in 0..Size
    BY <1>1, <1>4, DriverAssumption DEF DriverAssumption
  <2>2. Place(q.rdptr, n + 1) =
          IF q.rdptr + (n + 1) < Size THEN q.rdptr + (n + 1) ELSE q.rdptr + (n + 1) - Size
    BY <1>1, <2>1, Wrap
  <2>3. Advance(q.wrptr) = Place(q.rdptr, n + 1)
    BY <1>1, <1>3, <1>4, <2>2, DriverAssumption DEF Advance, Index, DriverAssumption
  <2>4. Stored(q, b, c).rdptr = q.rdptr /\ Stored(q, b, c).wrptr = Advance(q.wrptr)
    BY Fields, ZenonT(30)
  <2> QED
    BY <2>1, <2>3, <2>4 DEF Ring
<1>5. ASSUME n > 0 PROVE Ring(Fetched(q, c), n - 1)
  <2>1. n - 1 \in 0..Size /\ Advance(q.rdptr) \in Index
    BY <1>1, <1>5, AdvanceWraps, DriverAssumption DEF DriverAssumption
  <2>2. Place(Advance(q.rdptr), n - 1) =
          IF Advance(q.rdptr) + (n - 1) < Size
          THEN Advance(q.rdptr) + (n - 1) ELSE Advance(q.rdptr) + (n - 1) - Size
    BY <2>1, Wrap
  <2>3. q.wrptr = Place(Advance(q.rdptr), n - 1)
    <3>1. CASE q.rdptr + 1 < Size
      BY <1>1, <1>3, <1>5, <2>2, <3>1, DriverAssumption DEF Advance, Index, DriverAssumption
    <3>2. CASE ~(q.rdptr + 1 < Size)
      <4>1. q.rdptr = Size - 1 /\ Advance(q.rdptr) = 0
        BY <1>1, <3>2, DriverAssumption DEF Advance, Index, DriverAssumption
      <4> QED
        BY <1>1, <1>3, <1>5, <2>2, <4>1, DriverAssumption DEF DriverAssumption
    <3> QED
      BY <3>1, <3>2
  <2> QED
    BY <1>1, <2>1, <2>3, Fields DEF Ring, Index
<1> QED
  BY <1>2, <1>4, <1>5, Fields

\* A byte put in comes last, a byte taken out was the first.
LEMMA ContentSteps ==
  ASSUME NEW q \in Queue, NEW n, Ring(q, n), NEW b \in Bytes, NEW c \in 0..Size
  PROVE  /\ Content(q, n) \in Seq(Bytes) /\ Len(Content(q, n)) = n
         /\ n < Size => Content(Stored(q, b, c), n + 1) = Append(Content(q, n), b)
         /\ n > 0 => /\ NextByte(q) = Head(Content(q, n))
                     /\ Content(Fetched(q, c), n - 1) = Tail(Content(q, n))
<1>1. /\ q.rdptr \in Index /\ q.wrptr \in Index /\ n \in 0..Size
      /\ q.buffer \in [Index -> Bytes]
  BY DEF Queue, Ring
<1>2. q.wrptr = IF q.rdptr + n < Size THEN q.rdptr + n ELSE q.rdptr + n - Size
  BY <1>1, Wrap DEF Ring
<1>3. 0 \in 0..Size /\ \A i \in 1..n : i - 1 \in 0..Size
  BY <1>1, DriverAssumption DEF DriverAssumption
<1>4. \A i \in 1..n : Place(q.rdptr, i - 1) =
        IF q.rdptr + (i - 1) < Size THEN q.rdptr + (i - 1) ELSE q.rdptr + (i - 1) - Size
  BY <1>1, <1>3, Wrap
<1>5. \A i \in 1..n : Place(q.rdptr, i - 1) \in Index
  <2> SUFFICES ASSUME NEW i \in 1..n PROVE Place(q.rdptr, i - 1) \in Index
    OBVIOUS
  <2>1. Place(q.rdptr, i - 1) =
          IF q.rdptr + (i - 1) < Size THEN q.rdptr + (i - 1) ELSE q.rdptr + (i - 1) - Size
    BY <1>4
  <2> QED
    BY <1>1, <2>1, DriverAssumption DEF Index, DriverAssumption
<1>6. Content(q, n) = [i \in 1..n |-> q.buffer[Place(q.rdptr, i - 1)]]
  BY DEF Content
<1>7. Content(q, n) \in [1..n -> Bytes]
  BY <1>1, <1>5, <1>6
<1>8. Content(q, n) \in Seq(Bytes) /\ Len(Content(q, n)) = n
  BY <1>1, <1>7, DriverAssumption DEF DriverAssumption
<1>9. ASSUME n < Size PROVE Content(Stored(q, b, c), n + 1) = Append(Content(q, n), b)
  <2>1. \A i \in 1..n : Place(q.rdptr, i - 1) # q.wrptr
    <3> SUFFICES ASSUME NEW i \in 1..n PROVE Place(q.rdptr, i - 1) # q.wrptr
      OBVIOUS
    <3>1. Place(q.rdptr, i - 1) =
            IF q.rdptr + (i - 1) < Size THEN q.rdptr + (i - 1) ELSE q.rdptr + (i - 1) - Size
      BY <1>4
    <3> QED
      BY <1>1, <1>2, <1>9, <3>1, DriverAssumption DEF Index, DriverAssumption
  <2>2. q.wrptr = Place(q.rdptr, n)
    BY <1>1 DEF Ring, Index
  <2> DEFINE s == Stored(q, b, c)
  <2>3. s.buffer = [q.buffer EXCEPT ![q.wrptr] = b] /\ s.rdptr = q.rdptr
    BY Fields
  <2> HIDE DEF s
  <2>4. Content(s, n + 1) = [i \in 1..(n + 1) |-> s.buffer[Place(q.rdptr, i - 1)]]
    BY <2>3 DEF Content
  <2>5. \A i \in 1..(n + 1) : s.buffer[Place(q.rdptr, i - 1)]
                              = IF i = n + 1 THEN b ELSE q.buffer[Place(q.rdptr, i - 1)]
    <3> SUFFICES ASSUME NEW i \in 1..(n + 1)
                 PROVE  s.buffer[Place(q.rdptr, i - 1)]
                          = IF i = n + 1 THEN b ELSE q.buffer[Place(q.rdptr, i - 1)]
      OBVIOUS
    <3>1. CASE i = n + 1
      <4>1. i - 1 = n
        BY <1>1, <3>1
      <4> QED
        BY <1>1, <2>2, <2>3, <3>1, <4>1
    <3>2. CASE i # n + 1
      <4>1. i \in 1..n
        BY <1>1, <3>2
      <4> QED
        BY <1>1, <1>5, <2>1, <2>3, <3>2, <4>1
    <3> QED
      BY <3>1, <3>2
  <2>6. Content(s, n + 1)
          = [i \in 1..(n + 1) |-> IF i = n + 1 THEN b ELSE q.buffer[Place(q.rdptr, i - 1)]]
    BY <2>4, <2>5
  <2> QED
    BY <1>1, <1>6, <1>8, <2>6 DEF s
<1>10. ASSUME n > 0
       PROVE  /\ NextByte(q) = Head(Content(q, n))
              /\ Content(Fetched(q, c), n - 1) = Tail(Content(q, n))
  <2>1. Place(q.rdptr, 0) = q.rdptr
    <3>1. Place(q.rdptr, 0) = IF q.rdptr + 0 < Size THEN q.rdptr + 0 ELSE q.rdptr + 0 - Size
      BY <1>1, <1>3, Wrap
    <3> QED
      BY <1>1, <3>1, DriverAssumption DEF Index, DriverAssumption
  <2>2. \A i \in 1..(n - 1) : Place(Advance(q.rdptr), i - 1) = Place(q.rdptr, i)
    <3> SUFFICES ASSUME NEW i \in 1..(n - 1)
                 PROVE  Place(Advance(q.rdptr), i - 1) = Place(q.rdptr, i)
      OBVIOUS
    <3>1. i - 1 \in 0..Size /\ i \in 0..Size /\ Advance(q.rdptr) \in Index
      BY <1>1, <1>10, AdvanceWraps, DriverAssumption DEF DriverAssumption
    <3>2. Place(Advance(q.rdptr), i - 1) = IF Advance(q.rdptr) + (i - 1) < Size
            THEN Advance(q.rdptr) + (i - 1) ELSE Advance(q.rdptr) + (i - 1) - Size
      BY <3>1, Wrap
    <3>3. Place(q.rdptr, i) = IF q.rdptr + i < Size THEN q.rdptr + i ELSE q.rdptr + i - Size
      BY <1>1, <3>1, Wrap
    <3> QED
      <4>1. CASE q.rdptr + 1 < Size
        <5>1. Advance(q.rdptr) = q.rdptr + 1 /\ Advance(q.rdptr) + (i - 1) = q.rdptr + i
          BY <1>1, <4>1, DriverAssumption DEF Advance, Index, DriverAssumption
        <5> QED
          BY <1>1, <3>1, <3>2, <3>3, <5>1, DriverAssumption DEF Index, DriverAssumption
      <4>2. CASE ~(q.rdptr + 1 < Size)
        <5>1. q.rdptr = Size - 1 /\ Advance(q.rdptr) = 0
          BY <1>1, <4>2, DriverAssumption DEF Advance, Index, DriverAssumption
        <5> QED
          BY <1>1, <1>10, <3>2, <3>3, <5>1, DriverAssumption DEF DriverAssumption
      <4> QED
        BY <4>1, <4>2
  <2> DEFINE s == Fetched(q, c)
  <2>3. Content(s, n - 1) = [i \in 1..(n - 1) |-> q.buffer[Place(q.rdptr, i)]]
    <3>1. s.buffer = q.buffer /\ s.rdptr = Advance(q.rdptr)
      BY Fields
    <3> HIDE DEF s
    <3>2. Content(s, n - 1) = [i \in 1..(n - 1) |-> q.buffer[Place(Advance(q.rdptr), i - 1)]]
      BY <3>1 DEF Content
    <3> QED
      BY <2>2, <3>2
  <2>4. Head(Content(q, n)) = NextByte(q)
    BY <1>1, <1>6, <1>8, <1>10, <2>1 DEF NextByte
  <2>5. Tail(Content(q, n)) = [i \in 1..(n - 1) |-> q.buffer[Place(q.rdptr, i)]]
    BY <1>1, <1>6, <1>8, <1>10
  <2> QED
    BY <2>3, <2>4, <2>5
<1> QED
  BY <1>8, <1>9, <1>10

-----------------------------------------------------------------------------
(***************************************************************************)
(* The invariant holds in every state.                                     *)
(***************************************************************************)
\* A driver that was started, or started again, has two empty queues.
LEMMA EmptyRings ==
  ASSUME NEW q \in Queue, NEW c \in 0..Size
  PROVE  /\ Cleared(q, c) \in Queue /\ Cleared(q, c).counter = c
         /\ Ring(Cleared(q, c), 0) /\ Cleared(q, c).wrptr = Cleared(q, c).rdptr
<1>1. 0 \in Index /\ 0 \in 0..Size
  BY DriverAssumption DEF Index, DriverAssumption
<1>2. /\ Cleared(q, c) \in Queue /\ Cleared(q, c).counter = c
      /\ Cleared(q, c).rdptr = 0 /\ Cleared(q, c).wrptr = 0
  BY <1>1 DEF Cleared, Queue
<1>3. Place(0, 0) = 0
  BY <1>1, Wrap, DriverAssumption DEF Index, DriverAssumption
<1> QED
  BY <1>1, <1>2, <1>3 DEF Ring

\* sdStart: nothing to send, nobody asleep.
LEMMA DriverInitInv == DriverInit => DriverInv
<1> SUFFICES ASSUME DriverInit PROVE DriverInv
  OBVIOUS
<1>1. 0 \in Index /\ 0 \in 0..Size /\ Size \in 0..Size /\ Size - Size = 0
  BY DriverAssumption DEF Index, DriverAssumption
<1>2. /\ iq \in Queue /\ iq.counter = 0 /\ iq.rdptr = 0 /\ iq.wrptr = 0
      /\ oq \in Queue /\ oq.counter = Size /\ oq.rdptr = 0 /\ oq.wrptr = 0
  BY <1>1 DEF DriverInit, Queue
<1>3. Place(0, 0) = 0
  BY <1>1, Wrap, DriverAssumption DEF Index, DriverAssumption
<1>4. Ring(iq, iq.counter) /\ Ring(oq, Size - oq.counter)
  BY <1>1, <1>2, <1>3 DEF Ring
<1>5. DriverTypeOK
  <2>1. {txeie, tcie, shifting, tc} \subseteq BOOLEAN
    BY Zenon DEF DriverInit
  <2>2. left \in 0..MaxTransfer /\ toWrite \in Seq(Bytes) /\ Len(toWrite) <= MaxTransfer
    BY DriverAssumption DEF DriverInit, DriverAssumption
  <2>3. /\ pc \in {"idle", "reading", "readWait", "writing", "writeWait"}
        /\ got \in Bytes /\ sent \in Bytes /\ dr \in {<<>>} \cup {<<b>> : b \in Bytes}
    BY DEF DriverInit
  <2> QED
    BY <1>2, <2>1, <2>2, <2>3 DEF DriverTypeOK
<1> QED
  BY <1>2, <1>4, <1>5, DriverAssumption
     DEF DriverInit, DriverInv, RingsInStep, TransferUnderWay, NoLostWakeup, TransmitterArmed,
         OutEmpty, Brimming, DriverAssumption

\* What the tests of the two queues mean: a byte fits in, a byte is to be sent.
LEMMA Tests ==
  ASSUME DriverInv
  PROVE  /\ iq \in Queue /\ oq \in Queue /\ iq.counter \in 0..Size /\ oq.counter \in 0..Size
         /\ Size - oq.counter \in 0..Size
         /\ Ring(iq, iq.counter) /\ Ring(oq, Size - oq.counter)
         /\ InFull <=> iq.counter = Size
         /\ OutEmpty <=> oq.counter = Size
<1>1. /\ iq \in Queue /\ oq \in Queue /\ Ring(iq, iq.counter) /\ Ring(oq, Size - oq.counter)
      /\ iq.counter \in 0..Size /\ oq.counter \in 0..Size
  BY DEF DriverInv, DriverTypeOK, RingsInStep, Queue
<1>2. InFull <=> iq.counter = Size
  BY <1>1, EqualPointers, DriverAssumption DEF InFull, Brimming, DriverAssumption
<1>3. /\ Size - oq.counter \in 0..Size
      /\ Size - oq.counter = 0 <=> oq.counter = Size
      /\ Size - oq.counter = Size <=> oq.counter = 0
  BY <1>1, DriverAssumption DEF DriverAssumption
<1>4. OutEmpty <=> oq.counter = Size
  BY <1>1, <1>3, EqualPointers, DriverAssumption DEF OutEmpty, Brimming, DriverAssumption
<1> QED
  BY <1>1, <1>2, <1>3, <1>4

\* The bytes waiting to be read and to be sent, as the abstract queues see them.
Waiting == Content(iq, iq.counter)
Unsent  == Content(oq, Size - oq.counter)

\* What a step does to a queue: it stays, takes a byte in, gives one out, or is cleared.
InputStep ==
  \/ UNCHANGED <<Waiting, got>>
  \/ Len(Waiting) < Size /\ (\E b \in Bytes : Waiting' = Append(Waiting, b)) /\ UNCHANGED got
  \/ Waiting # <<>> /\ got' = Head(Waiting) /\ Waiting' = Tail(Waiting)
  \/ Waiting' = <<>> /\ UNCHANGED got

OutputStep ==
  \/ UNCHANGED <<Unsent, sent>>
  \/ Len(Unsent) < Size /\ (\E b \in Bytes : Unsent' = Append(Unsent, b)) /\ UNCHANGED sent
  \/ Unsent # <<>> /\ sent' = Head(Unsent) /\ Unsent' = Tail(Unsent)
  \/ Unsent' = <<>> /\ UNCHANGED sent

\* A step keeps the invariant, and does to each queue what a queue allows.
Good == DriverInv' /\ InputStep /\ OutputStep

\* Nothing is seen of a queue that is left alone.
LEMMA QueueKept ==
  /\ UNCHANGED <<iq, got>> => InputStep
  /\ UNCHANGED <<oq, sent>> => OutputStep
BY DEF InputStep, OutputStep, Waiting, Unsent

\* chnRead and chnWrite begin a transfer.
LEMMA BeginGood == DriverInv /\ (chnRead \/ chnWrite) => Good
<1> SUFFICES ASSUME DriverInv, chnRead \/ chnWrite PROVE Good
  OBVIOUS
<1>1. UNCHANGED <<iq, oq, got, sent, txeie, tcie, shifting, tc, dr>>
  BY DEF chnRead, chnWrite, queueVars, usartVars
<1>2. InputStep /\ OutputStep
  BY <1>1, QueueKept
<1>3. RingsInStep' /\ TransmitterArmed' /\ NoLostWakeup'
  BY <1>1 DEF DriverInv, RingsInStep, TransmitterArmed, NoLostWakeup, OutEmpty, Brimming, Ring,
              Place, chnRead, chnWrite
<1>4. TransferUnderWay' /\ left' \in 0..MaxTransfer
      /\ toWrite' \in Seq(Bytes) /\ Len(toWrite') <= MaxTransfer
  <2>1. CASE chnRead
    BY <2>1, DriverAssumption
       DEF chnRead, DriverInv, DriverTypeOK, TransferUnderWay, DriverAssumption
  <2>2. CASE chnWrite
    <3>1. PICK n \in 1..MaxTransfer : toWrite' \in [1..n -> Bytes]
      BY <2>2 DEF chnWrite
    <3>2. toWrite' \in Seq(Bytes) /\ Len(toWrite') = n /\ toWrite' # <<>>
      BY <3>1
    <3> QED
      BY <2>2, <3>2, DriverAssumption
         DEF chnWrite, DriverInv, DriverTypeOK, TransferUnderWay, DriverAssumption
  <2> QED
    BY <2>1, <2>2
<1>5. pc' \in {"idle", "reading", "readWait", "writing", "writeWait"}
  BY DEF chnRead, chnWrite
<1>6. {txeie, tcie, shifting, tc}' \subseteq BOOLEAN
  BY <1>1, Zenon DEF DriverInv, DriverTypeOK
<1>7. DriverTypeOK'
  BY <1>1, <1>4, <1>5, <1>6 DEF DriverInv, DriverTypeOK
<1> QED
  BY <1>2, <1>3, <1>4, <1>7 DEF Good, DriverInv

\* iqReadTimeout takes the first byte waiting, or goes to sleep because there is none.
LEMMA ReadByteGood == DriverInv /\ ReadByte => Good
<1> SUFFICES ASSUME DriverInv, ReadByte PROVE Good
  OBVIOUS
<1>1. UNCHANGED <<oq, toWrite, sent, txeie, tcie, shifting, tc, dr>> /\ pc = "reading"
  BY DEF ReadByte, usartVars
<1>2. OutputStep /\ {txeie, tcie, shifting, tc}' \subseteq BOOLEAN
  BY <1>1, QueueKept, Zenon DEF DriverInv, DriverTypeOK
<1>3. TransmitterArmed' /\ Ring(oq, Size - oq.counter)'
  BY <1>1, Tests DEF DriverInv, TransmitterArmed, OutEmpty, Brimming, Ring, Place
<1>4. CASE iq.counter = 0
  <2>1. pc' = "readWait" /\ UNCHANGED <<iq, left, got>>
    BY <1>4 DEF ReadByte, Exhausted
  <2>2. InputStep
    BY <2>1, QueueKept
  <2>3. DriverTypeOK'
    BY <1>1, <1>2, <2>1 DEF DriverInv, DriverTypeOK
  <2>4. RingsInStep' /\ TransferUnderWay' /\ NoLostWakeup'
    BY <1>1, <1>3, <1>4, <2>1, Tests
       DEF DriverInv, RingsInStep, TransferUnderWay, NoLostWakeup, Ring, Place
  <2> QED
    BY <1>2, <1>3, <2>2, <2>3, <2>4 DEF Good, DriverInv
<1>5. CASE iq.counter # 0
  <2>1. /\ iq' = Fetched(iq, iq.counter - 1) /\ got' = NextByte(iq) /\ left' = left - 1
        /\ pc' = IF left = 1 THEN "idle" ELSE "reading"
    BY <1>5 DEF ReadByte, Exhausted
  <2>2. iq.counter - 1 \in 0..Size /\ iq.counter > 0
    BY <1>5, Tests, DriverAssumption DEF DriverAssumption
  <2>3. PICK b \in Bytes : TRUE
    BY DriverAssumption DEF DriverAssumption
  <2>4. /\ iq' \in Queue /\ iq'.counter = iq.counter - 1 /\ got' \in Bytes
        /\ Ring(iq', iq.counter - 1)
    BY <2>1, <2>2, <2>3, Tests, RingSteps, Fields
  <2>5. InputStep
    <3>1. /\ Content(iq, iq.counter) \in Seq(Bytes) /\ Len(Content(iq, iq.counter)) = iq.counter
          /\ NextByte(iq) = Head(Content(iq, iq.counter))
          /\ Content(Fetched(iq, iq.counter - 1), iq.counter - 1) = Tail(Content(iq, iq.counter))
      BY <2>2, <2>3, Tests, ContentSteps
    <3>2. Waiting' = Tail(Waiting) /\ got' = Head(Waiting) /\ Waiting # <<>>
      BY <2>1, <2>2, <2>4, <3>1 DEF Waiting
    <3> QED
      BY <3>2 DEF InputStep
  <2>6. left' \in 0..MaxTransfer /\ (pc' = "reading" => left' > 0)
    BY <1>1, <2>1, DriverAssumption
       DEF DriverInv, DriverTypeOK, TransferUnderWay, DriverAssumption
  <2>7. DriverTypeOK'
    BY <1>1, <1>2, <2>1, <2>4, <2>6 DEF DriverInv, DriverTypeOK
  <2>8. RingsInStep' /\ TransferUnderWay' /\ NoLostWakeup'
    BY <1>1, <1>3, <2>1, <2>4, <2>6
       DEF RingsInStep, TransferUnderWay, NoLostWakeup, Ring, Place
  <2> QED
    BY <1>2, <1>3, <2>5, <2>7, <2>8 DEF Good, DriverInv
<1> QED
  BY <1>4, <1>5

\* oqWriteTimeout puts the byte last, or goes to sleep because there is no room.
LEMMA WriteByteGood == DriverInv /\ WriteByte => Good
<1> SUFFICES ASSUME DriverInv, WriteByte PROVE Good
  OBVIOUS
<1>1. UNCHANGED <<iq, left, got, tcie, dr, shifting, tc, sent>> /\ pc = "writing"
  BY DEF WriteByte
<1>2. InputStep /\ Ring(iq, iq.counter)'
  BY <1>1, QueueKept, Tests DEF Ring, Place
<1>3. toWrite \in Seq(Bytes) /\ Len(toWrite) <= MaxTransfer /\ toWrite # <<>>
  BY <1>1 DEF DriverInv, DriverTypeOK, TransferUnderWay
<1>4. CASE oq.counter = 0
  <2>1. pc' = "writeWait" /\ UNCHANGED <<oq, toWrite, txeie>>
    BY <1>4 DEF WriteByte, Exhausted
  <2>2. OutputStep /\ {txeie, tcie, shifting, tc}' \subseteq BOOLEAN
    BY <1>1, <2>1, QueueKept, Zenon DEF DriverInv, DriverTypeOK
  <2>3. DriverTypeOK'
    BY <1>1, <2>1, <2>2 DEF DriverInv, DriverTypeOK
  <2>4. RingsInStep' /\ TransferUnderWay' /\ NoLostWakeup' /\ TransmitterArmed'
    BY <1>1, <1>2, <1>3, <1>4, <2>1, Tests
       DEF DriverInv, RingsInStep, TransferUnderWay, NoLostWakeup, TransmitterArmed, OutEmpty,
           Brimming, Ring, Place
  <2> QED
    BY <1>2, <2>2, <2>3, <2>4 DEF Good, DriverInv
<1>5. CASE oq.counter # 0
  <2>1. /\ oq' = Stored(oq, Head(toWrite), oq.counter - 1) /\ toWrite' = Tail(toWrite)
        /\ txeie' = TRUE
        /\ pc' = IF Tail(toWrite) = <<>> THEN "idle" ELSE "writing"
    BY <1>5 DEF WriteByte, Exhausted
  <2>2. /\ oq.counter - 1 \in 0..Size /\ Size - oq.counter < Size
        /\ (Size - oq.counter) + 1 = Size - (oq.counter - 1)
    BY <1>5, Tests, DriverAssumption DEF DriverAssumption
  <2>3. /\ Head(toWrite) \in Bytes /\ toWrite' \in Seq(Bytes) /\ Len(toWrite') <= MaxTransfer
        /\ pc' = "writing" => toWrite' # <<>>
    BY <1>3, <2>1, DriverAssumption DEF DriverAssumption
  <2>4. /\ oq' \in Queue /\ oq'.counter = oq.counter - 1
        /\ Ring(oq', Size - (oq.counter - 1))
    BY <2>1, <2>2, <2>3, Tests, RingSteps, Fields
  <2>5. OutputStep
    <3>1. /\ Len(Content(oq, Size - oq.counter)) = Size - oq.counter
          /\ Content(Stored(oq, Head(toWrite), oq.counter - 1), (Size - oq.counter) + 1)
               = Append(Content(oq, Size - oq.counter), Head(toWrite))
      BY <2>2, <2>3, Tests, ContentSteps
    <3>2. Unsent' = Append(Unsent, Head(toWrite)) /\ Len(Unsent) < Size /\ UNCHANGED sent
      BY <1>1, <2>1, <2>2, <2>4, <3>1 DEF Unsent
    <3> QED
      BY <2>3, <3>2 DEF OutputStep
  <2>6. {txeie, tcie, shifting, tc}' \subseteq BOOLEAN
    BY <1>1, <2>1, Zenon DEF DriverInv, DriverTypeOK
  <2>7. DriverTypeOK'
    BY <1>1, <2>1, <2>3, <2>4, <2>6 DEF DriverInv, DriverTypeOK
  <2>8. RingsInStep' /\ TransferUnderWay' /\ NoLostWakeup' /\ TransmitterArmed'
    BY <1>1, <1>2, <2>1, <2>3, <2>4
       DEF RingsInStep, TransferUnderWay, NoLostWakeup, TransmitterArmed, Ring, Place
  <2> QED
    BY <1>2, <2>5, <2>7, <2>8 DEF Good, DriverInv
<1> QED
  BY <1>4, <1>5

\* sdStop empties both queues, between two transfers of the thread.
LEMMA StopGood == DriverInv /\ sdStop => Good
<1> SUFFICES ASSUME DriverInv, sdStop PROVE Good
  OBVIOUS
<1>1. /\ iq' = Cleared(iq, 0) /\ oq' = Cleared(oq, Size) /\ pc = "idle"
      /\ UNCHANGED <<pc, left, toWrite, got, sent>>
      /\ txeie' = FALSE /\ tcie' = FALSE /\ dr' = <<>> /\ shifting' = TRUE /\ tc' = FALSE
  BY DEF sdStop, callVars
<1>2. 0 \in 0..Size /\ Size \in 0..Size /\ Size - Size = 0 /\ Size # 0
  BY DriverAssumption DEF DriverAssumption
<1>3. /\ iq' \in Queue /\ iq'.counter = 0 /\ Ring(iq', 0)
      /\ oq' \in Queue /\ oq'.counter = Size /\ Ring(oq', 0) /\ oq'.wrptr = oq'.rdptr
  BY <1>1, <1>2, Tests, EmptyRings
<1>4. PICK b \in Bytes : TRUE
  BY DriverAssumption DEF DriverAssumption
<1>5. InputStep /\ OutputStep
  <2>1. Content(iq', 0) = <<>> /\ Content(oq', 0) = <<>>
    BY <1>2, <1>3, <1>4, ContentSteps
  <2>2. Waiting' = <<>> /\ Unsent' = <<>>
    BY <1>2, <1>3, <2>1 DEF Waiting, Unsent
  <2> QED
    BY <1>1, <2>2 DEF InputStep, OutputStep
<1>6. {txeie, tcie, shifting, tc}' \subseteq BOOLEAN
  BY <1>1, Zenon
<1>7. DriverTypeOK'
  BY <1>1, <1>3, <1>6 DEF DriverInv, DriverTypeOK
<1>8. RingsInStep' /\ TransferUnderWay' /\ NoLostWakeup' /\ TransmitterArmed'
  BY <1>1, <1>2, <1>3 DEF RingsInStep, TransferUnderWay, NoLostWakeup, TransmitterArmed,
                         OutEmpty, Brimming, Ring, Place
<1> QED
  BY <1>5, <1>7, <1>8 DEF Good, DriverInv

\* The input queue in the handler: a byte put in where there is room, or none.
LEMMA ReceiveKeepsRing ==
  ASSUME DriverInv, NEW rx \in {<<>>} \cup {<<b>> : b \in Bytes}, iqPutI(rx), UNCHANGED got
  PROVE  /\ InputStep /\ iq' \in Queue /\ Ring(iq', iq'.counter)
         /\ ~Stores(rx) => iq' = iq
         /\ iq.counter = 0 /\ rx # <<>> => Stores(rx)
<1>1. CASE Stores(rx)
  <2>1. rx[1] \in Bytes /\ iq' = Stored(iq, rx[1], iq.counter + 1) /\ ~InFull
    BY <1>1 DEF iqPutI, Stores
  <2>2. iq.counter + 1 \in 0..Size /\ iq.counter < Size
    BY <2>1, Tests, DriverAssumption DEF DriverAssumption
  <2>3. iq' \in Queue /\ iq'.counter = iq.counter + 1 /\ Ring(iq', iq.counter + 1)
    <3>1. iq \in Queue /\ Ring(iq, iq.counter)
      BY Tests
    <3>2. Ring(Stored(iq, rx[1], iq.counter + 1), iq.counter + 1)
      BY <2>1, <2>2, <3>1, RingSteps
    <3>3. /\ Stored(iq, rx[1], iq.counter + 1) \in Queue
          /\ Stored(iq, rx[1], iq.counter + 1).counter = iq.counter + 1
      BY <2>1, <2>2, <3>1, Fields
    <3> QED
      BY <2>1, <3>2, <3>3
  <2>4. /\ Len(Content(iq, iq.counter)) = iq.counter
        /\ Content(Stored(iq, rx[1], iq.counter + 1), iq.counter + 1)
             = Append(Content(iq, iq.counter), rx[1])
    BY <2>1, <2>2, Tests, ContentSteps
  <2>5. Len(Waiting) < Size /\ Waiting' = Append(Waiting, rx[1])
    BY <2>1, <2>2, <2>3, <2>4 DEF Waiting
  <2>6. InputStep
    BY <2>1, <2>5 DEF InputStep
  <2> QED
    BY <1>1, <2>3, <2>6
<1>2. CASE ~Stores(rx)
  <2>1. iq' = iq
    BY <1>2 DEF iqPutI
  <2>2. iq.counter = 0 => ~InFull
    BY Tests, DriverAssumption DEF DriverAssumption
  <2> QED
    BY <1>2, <2>1, <2>2, Tests, QueueKept DEF Stores
<1> QED
  BY <1>1, <1>2

\* The output queue in the handler: the first byte goes to the data register, or none.
LEMMA TransmitKeepsRing ==
  ASSUME DriverInv, oqGetI
  PROVE  /\ OutputStep /\ oq' \in Queue /\ Ring(oq', Size - oq'.counter)
         /\ sent' \in Bytes /\ dr' \in {<<>>} \cup {<<b>> : b \in Bytes}
         /\ ~Fetches => oq' = oq
         /\ Fetches => TransmitDue /\ ~OutEmpty /\ oq'.counter = oq.counter + 1
<1>1. CASE Fetches
  <2>1. /\ oq' = Fetched(oq, oq.counter + 1) /\ sent' = NextByte(oq) /\ dr' = <<NextByte(oq)>>
        /\ ~OutEmpty /\ TransmitDue
    BY <1>1 DEF oqGetI, Fetches
  <2>2. /\ oq.counter + 1 \in 0..Size /\ Size - oq.counter > 0
        /\ (Size - oq.counter) - 1 = Size - (oq.counter + 1)
    BY <2>1, Tests, DriverAssumption DEF DriverAssumption
  <2>3. PICK b \in Bytes : TRUE
    BY DriverAssumption DEF DriverAssumption
  <2>4. /\ oq' \in Queue /\ oq'.counter = oq.counter + 1 /\ NextByte(oq) \in Bytes
        /\ Ring(oq', Size - (oq.counter + 1))
    BY <2>1, <2>2, <2>3, Tests, RingSteps, Fields
  <2>5. /\ Content(oq, Size - oq.counter) \in Seq(Bytes)
        /\ Len(Content(oq, Size - oq.counter)) = Size - oq.counter
        /\ NextByte(oq) = Head(Content(oq, Size - oq.counter))
        /\ Content(Fetched(oq, oq.counter + 1), (Size - oq.counter) - 1)
             = Tail(Content(oq, Size - oq.counter))
    BY <2>2, <2>3, Tests, ContentSteps
  <2>6. Unsent' = Tail(Unsent) /\ sent' = Head(Unsent) /\ Unsent # <<>>
    BY <2>1, <2>2, <2>4, <2>5 DEF Unsent
  <2>7. OutputStep
    BY <2>6 DEF OutputStep
  <2> QED
    BY <1>1, <2>1, <2>4, <2>7
<1>2. CASE ~Fetches
  <2>1. UNCHANGED <<oq, sent, dr>>
    BY <1>2 DEF oqGetI
  <2>2. sent \in Bytes /\ dr \in {<<>>} \cup {<<b>> : b \in Bytes}
    BY DEF DriverInv, DriverTypeOK
  <2> QED
    BY <1>2, <2>1, <2>2, Tests, QueueKept
<1> QED
  BY <1>1, <1>2

\* The handler wakes whoever it worked for, and gives up the interrupt of an empty data
\* register only with nothing left to send.
LEMMA InterruptGood ==
  ASSUME DriverInv, NEW rx \in {<<>>} \cup {<<b>> : b \in Bytes}, serve_interrupt(rx)
  PROVE  Good
<1>1. /\ iqPutI(rx) /\ oqGetI /\ pc' = Woken(Stores(rx), Fetches)
      /\ txeie' = (txeie /\ (tc \/ ~TransmitDue \/ ~OutEmpty))
      /\ tcie' = (~tc /\ (tcie \/ (TransmitDue /\ OutEmpty)))
      /\ tc' = FALSE /\ UNCHANGED <<left, toWrite, got, shifting>>
  BY DEF serve_interrupt, WriteCR1
<1>2. /\ InputStep /\ iq' \in Queue /\ Ring(iq', iq'.counter)
      /\ ~Stores(rx) => iq' = iq
  BY <1>1, ReceiveKeepsRing
<1>3. /\ OutputStep /\ oq' \in Queue /\ Ring(oq', Size - oq'.counter)
      /\ sent' \in Bytes /\ dr' \in {<<>>} \cup {<<b>> : b \in Bytes}
      /\ ~Fetches => oq' = oq
      /\ Fetches => TransmitDue /\ ~OutEmpty
  BY <1>1, TransmitKeepsRing
<1>4. {txeie, tcie, shifting, tc}' \subseteq BOOLEAN
  <2>1. txeie' \in BOOLEAN /\ tcie' \in BOOLEAN /\ tc' \in BOOLEAN
    BY <1>1, Zenon
  <2>2. shifting' \in BOOLEAN
    BY <1>1, Zenon DEF DriverInv, DriverTypeOK
  <2> QED
    BY <2>1, <2>2, Zenon
<1>5. /\ pc' \in {"idle", "reading", "readWait", "writing", "writeWait"}
      /\ pc' = "readWait" => pc = "readWait" /\ ~Stores(rx)
      /\ pc' = "writeWait" => pc = "writeWait" /\ ~Fetches
      /\ pc' = "reading" => pc \in {"reading", "readWait"}
      /\ pc' = "writing" => pc \in {"writing", "writeWait"}
  BY <1>1 DEF Woken, DriverInv, DriverTypeOK
<1>6. DriverTypeOK'
  BY <1>1, <1>2, <1>3, <1>4, <1>5 DEF DriverInv, DriverTypeOK
<1>7. RingsInStep' /\ TransferUnderWay' /\ NoLostWakeup'
  BY <1>1, <1>2, <1>3, <1>5
     DEF DriverInv, RingsInStep, TransferUnderWay, NoLostWakeup, Ring, Place
<1>8. TransmitterArmed'
  <2>1. CASE OutEmpty
    <3>1. OutEmpty'
      BY <1>3, <2>1 DEF OutEmpty, Brimming
    <3> QED
      BY <3>1 DEF TransmitterArmed
  <2>2. CASE ~OutEmpty
    BY <1>1, <2>2, Zenon DEF DriverInv, TransmitterArmed
  <2> QED
    BY <2>1, <2>2
<1> QED
  BY <1>2, <1>3, <1>6, <1>7, <1>8 DEF Good, DriverInv

\* The shift register takes a byte and sends it; the queues do not notice.
LEMMA UsartGood == DriverInv /\ (Load \/ Shifted \/ UNCHANGED driverVars) => Good
<1> SUFFICES ASSUME DriverInv, Load \/ Shifted \/ UNCHANGED driverVars PROVE Good
  OBVIOUS
<1>1. UNCHANGED <<iq, oq, pc, left, toWrite, got, sent, txeie, tcie>>
  BY DEF Load, Shifted, queueVars, callVars, usartVars, driverVars
<1>2. InputStep /\ OutputStep
  BY <1>1, QueueKept
<1>3. {txeie, tcie, shifting, tc}' \subseteq BOOLEAN
  <2>1. {txeie, tcie, shifting, tc} \subseteq BOOLEAN
    BY DEF DriverInv, DriverTypeOK
  <2>2. CASE Load
    BY <1>1, <2>1, <2>2, Zenon DEF Load
  <2>3. CASE Shifted
    BY <1>1, <2>1, <2>3, Zenon DEF Shifted
  <2>4. CASE UNCHANGED driverVars
    BY <1>1, <2>1, <2>4, Zenon DEF driverVars, usartVars
  <2> QED
    BY <2>2, <2>3, <2>4
<1>4. dr' \in {<<>>} \cup {<<b>> : b \in Bytes}
  BY DEF Load, Shifted, DriverInv, DriverTypeOK, driverVars, usartVars
<1>5. DriverTypeOK'
  BY <1>1, <1>3, <1>4 DEF DriverInv, DriverTypeOK
<1>6. RingsInStep' /\ TransferUnderWay' /\ NoLostWakeup' /\ TransmitterArmed'
  BY <1>1 DEF DriverInv, RingsInStep, TransferUnderWay, NoLostWakeup, TransmitterArmed,
              OutEmpty, Brimming, Ring, Place
<1> QED
  BY <1>2, <1>5, <1>6 DEF Good, DriverInv

\* Every step of the thread, the handler and the USART.
LEMMA DriverStepGood == DriverInv /\ [DriverNext]_driverVars => Good
<1>1. \A rx \in {<<>>} \cup {<<b>> : b \in Bytes} : DriverInv /\ serve_interrupt(rx) => Good
  BY InterruptGood
<1>2. DriverInv /\ (Receive \/ Transmit) => Good
  BY <1>1 DEF Receive, Transmit
<1> QED
  BY <1>2, BeginGood, ReadByteGood, WriteByteGood, StopGood, UsartGood DEF DriverNext, ThreadStep

\* The driver is in step in every state: its pointers are the count apart, whatever the
\* thread and the handler did.
THEOREM DriverInvariant == DriverSpec => []DriverInv
<1>1. DriverInv /\ [DriverNext]_driverVars => DriverInv'
  BY DriverStepGood DEF Good
<1> QED
  BY DriverInitInv, <1>1, PTL DEF DriverSpec

\* The counters and pointers stay within the buffers, the transfers within their bounds.
THEOREM DriverTypeCorrect == DriverSpec => []DriverTypeOK
BY DriverInvariant, PTL DEF DriverInv

\* The thread never sleeps on a queue that has what it waits for.
THEOREM NeverSleepsOnWork == DriverSpec => []NoLostWakeup
BY DriverInvariant, PTL DEF DriverInv

\* Whatever is queued for the host has its interrupt enabled.
THEOREM AlwaysArmed == DriverSpec => []TransmitterArmed
BY DriverInvariant, PTL DEF DriverInv

\* The ring buffers of hal_queues.c implement the queues that the rest of the firmware
\* takes them for.
THEOREM RingsAreQueues == DriverSpec => QueuesAreFifo
<1>1. DriverInit => InputFifo!FifoInit /\ OutputFifo!FifoInit
  <2> SUFFICES ASSUME DriverInit PROVE InputFifo!FifoInit /\ OutputFifo!FifoInit
    OBVIOUS
  <2>1. DriverInv /\ iq.counter = 0 /\ oq.counter = Size /\ Size - Size = 0
    BY DriverInitInv, DriverAssumption DEF DriverInit, DriverAssumption
  <2>2. PICK b \in Bytes : TRUE
    BY DriverAssumption DEF DriverAssumption
  <2>3. 0 \in 0..Size
    BY DriverAssumption DEF DriverAssumption
  <2>4. Ring(iq, 0) /\ Ring(oq, 0)
    BY <2>1, Tests
  <2>5. Content(iq, 0) = <<>> /\ Content(oq, 0) = <<>>
    BY <2>1, <2>2, <2>3, <2>4, Tests, ContentSteps
  <2>6. got \in Bytes /\ sent \in Bytes
    BY DEF DriverInit
  <2> QED
    BY <2>1, <2>5, <2>6 DEF InputFifo!FifoInit, OutputFifo!FifoInit
<1>2. Good => [InputFifo!Put \/ InputFifo!Take \/ InputFifo!Clear]_(InputFifo!fifoVars)
  BY DEF Good, InputStep, Waiting, InputFifo!Put, InputFifo!Take, InputFifo!Clear,
         InputFifo!fifoVars
<1>3. Good => [OutputFifo!Put \/ OutputFifo!Take \/ OutputFifo!Clear]_(OutputFifo!fifoVars)
  BY DEF Good, OutputStep, Unsent, OutputFifo!Put, OutputFifo!Take, OutputFifo!Clear,
         OutputFifo!fifoVars
<1> QED
  BY <1>1, <1>2, <1>3, DriverStepGood, DriverInvariant, PTL
     DEF DriverSpec, QueuesAreFifo, InputFifo!FifoSpec, OutputFifo!FifoSpec
=============================================================================
