--------------------------- MODULE HexLoaderProofs ---------------------------
(***************************************************************************)
(* Proofs about HexLoader, for any number and size of blocks, any lines    *)
(* and any sequence of files: what the image holds after a file, and what  *)
(* an accepted end record means.                                           *)
(***************************************************************************)
EXTENDS HexLoader, OperatorProofs

-----------------------------------------------------------------------------
(***************************************************************************)
(* The data records of a file.  The induction over its lines is carried by *)
(* the least number at which a claim would fail.                           *)
(***************************************************************************)
IsData(l) == Record(l, BlockSize, 0)

\* Going through the first n lines of f, the data records met so far.
Sifts(g, f, n) ==
  /\ g \in [0..n -> Seq(Lines)]
  /\ \A i \in 0..n :
       g[i] = IF i = 0 THEN <<>>
              ELSE IF IsData(f[i]) THEN Append(g[i - 1], f[i]) ELSE g[i - 1]

\* Every file can be gone through.
LEMMA SiftExists ==
  ASSUME NEW n \in Nat, NEW f, \A i \in 1..n : f[i] \in Lines
  PROVE  \E g : Sifts(g, f, n)
<1> DEFINE T == {k \in 0..n : ~ \E g : Sifts(g, f, k)}
<1>1. SUFFICES ASSUME n \in T PROVE FALSE
  OBVIOUS
<1>2. PICK m \in T : \A k \in T : m <= k
  <2>1. T \subseteq Nat
    OBVIOUS
  <2> QED
    BY <1>1, <2>1, LeastNatural
<1>3. CASE m = 0
  <2> DEFINE z == [i \in 0..0 |-> <<>>]
  <2>1. z \in [0..0 -> Seq(Lines)]
    OBVIOUS
  <2>2. \A i \in 0..0 : i = 0 /\ z[i] = <<>>
    OBVIOUS
  <2>3. Sifts(z, f, 0)
    BY <2>1, <2>2 DEF Sifts
  <2> QED
    BY <1>2, <1>3, <2>3
<1>4. CASE m # 0
  <2>1. m \in 1..n /\ m - 1 \in 0..n /\ m - 1 \notin T /\ f[m] \in Lines
    BY <1>2, <1>4
  <2>2. PICK g : Sifts(g, f, m - 1)
    BY <2>1
  <2> DEFINE last == IF IsData(f[m]) THEN Append(g[m - 1], f[m]) ELSE g[m - 1]
  <2>3. \A i \in 0..(m - 1) : g[i] \in Seq(Lines)
    BY <2>2 DEF Sifts
  <2>4. last \in Seq(Lines)
    <3>1. g[m - 1] \in Seq(Lines)
      BY <2>1, <2>3
    <3>2. Append(g[m - 1], f[m]) \in Seq(Lines)
      BY <2>1, <3>1, AppendProperties
    <3> QED
      BY <3>1, <3>2
  <2> HIDE DEF last
  <2> DEFINE h == [i \in 0..m |-> IF i < m THEN g[i] ELSE last]
  <2>5. h \in [0..m -> Seq(Lines)]
    BY <2>1, <2>3, <2>4
  <2>6. ASSUME NEW i \in 0..m
        PROVE  h[i] = IF i = 0 THEN <<>>
                      ELSE IF IsData(f[i]) THEN Append(h[i - 1], f[i]) ELSE h[i - 1]
    <3>1. CASE i = m
      <4>1. h[i] = last /\ h[i - 1] = g[m - 1] /\ i # 0
        BY <2>1, <3>1
      <4> QED
        BY <3>1, <4>1 DEF last
    <3>2. CASE i # m
      <4>1. i \in 0..(m - 1) /\ i < m /\ i - 1 < m
        BY <2>1, <3>2
      <4>2. g[i] = IF i = 0 THEN <<>>
                   ELSE IF IsData(f[i]) THEN Append(g[i - 1], f[i]) ELSE g[i - 1]
        BY <2>2, <4>1 DEF Sifts
      <4>3. h[i] = g[i] /\ (i # 0 => h[i - 1] = g[i - 1])
        BY <2>1, <4>1
      <4> QED
        BY <4>2, <4>3
    <3> QED
      BY <3>1, <3>2
  <2>7. Sifts(h, f, m)
    BY <2>5, <2>6 DEF Sifts
  <2> QED
    BY <1>2, <2>7
<1> QED
  BY <1>3, <1>4

\* Files that agree on their first n lines have the same data records there.
LEMMA SiftUnique ==
  ASSUME NEW n \in Nat, NEW f, NEW f2, NEW g, NEW g2, NEW N \in Nat, NEW N2 \in Nat,
         n <= N, n <= N2, Sifts(g, f, N), Sifts(g2, f2, N2), \A i \in 1..n : f[i] = f2[i]
  PROVE  g[n] = g2[n]
<1> DEFINE T == {k \in 0..n : g[k] # g2[k]}
<1>1. SUFFICES ASSUME n \in T PROVE FALSE
  OBVIOUS
<1>2. PICK m \in T : \A k \in T : m <= k
  <2>1. T \subseteq Nat
    OBVIOUS
  <2> QED
    BY <1>1, <2>1, LeastNatural
<1>3. m # 0
  BY DEF Sifts
<1>4. m \in 1..n /\ m - 1 \in 0..n /\ m - 1 \notin T /\ m \in 0..N /\ m \in 0..N2
  BY <1>2, <1>3
<1>5. g[m - 1] = g2[m - 1] /\ f[m] = f2[m]
  BY <1>4
<1> QED
  BY <1>3, <1>4, <1>5 DEF Sifts

\* The recursive definition goes through a file like that.
LEMMA RecordsSift ==
  ASSUME NEW f \in Seq(Lines)
  PROVE  \E g : Sifts(g, f, Len(f)) /\ DataRecords(f) = g[Len(f)]
<1> DEFINE Body(g, i) == IF i = 0 THEN <<>>
                         ELSE IF IsData(f[i]) THEN Append(g[i - 1], f[i]) ELSE g[i - 1]
<1> DEFINE taken == CHOOSE t : t = [i \in 0..Len(f) |-> Body(t, i)]
<1>1. PICK g : Sifts(g, f, Len(f))
  BY SiftExists
<1>2. g = [i \in 0..Len(f) |-> Body(g, i)]
  BY <1>1 DEF Sifts
<1>3. taken = [i \in 0..Len(f) |-> Body(taken, i)]
  <2> HIDE DEF Body
  <2> QED
    BY <1>2
<1>4. DataRecords(f) = taken[Len(f)]
  BY DEF DataRecords, IsData
<1>5. \A i \in 0..Len(f) : g[i] = Body(g, i) /\ taken[i] = Body(taken, i)
  <2> HIDE DEF Body, taken
  <2> QED
    BY <1>2, <1>3
<1> HIDE DEF taken
<1>6. taken[Len(f)] = g[Len(f)]
  <2> DEFINE T == {k \in 0..Len(f) : taken[k] # g[k]}
  <2>1. SUFFICES ASSUME Len(f) \in T PROVE FALSE
    BY DEF T
  <2>2. PICK m \in T : \A k \in T : m <= k
    <3>1. T \subseteq Nat
      OBVIOUS
    <3> QED
      BY <2>1, <3>1, LeastNatural
  <2>3. m # 0
    BY <1>5
  <2>4. m \in 0..Len(f) /\ m - 1 \in 0..Len(f) /\ m - 1 \notin T
    BY <2>2, <2>3
  <2>5. taken[m - 1] = g[m - 1]
    BY <2>4
  <2> QED
    BY <1>5, <2>3, <2>4, <2>5
<1> QED
  BY <1>1, <1>4, <1>6

\* One more line is one more data record, or none.
LEMMA RecordsGrow ==
  ASSUME NEW f \in Seq(Lines), NEW l \in Lines
  PROVE  /\ DataRecords(f) \in Seq(Lines)
         /\ DataRecords(Append(f, l)) =
              IF IsData(l) THEN Append(DataRecords(f), l) ELSE DataRecords(f)
<1>1. PICK g : Sifts(g, f, Len(f)) /\ DataRecords(f) = g[Len(f)]
  BY RecordsSift
<1>2. PICK e : e = Append(f, l)
  OBVIOUS
<1>3. /\ e \in Seq(Lines) /\ Len(e) = Len(f) + 1 /\ e[Len(f) + 1] = l
      /\ \A i \in 1..Len(f) : f[i] = e[i]
  BY <1>2, AppendProperties
<1>4. PICK h : Sifts(h, e, Len(e)) /\ DataRecords(e) = h[Len(e)]
  BY <1>3, RecordsSift
<1>5. Len(f) \in Nat /\ Len(e) \in Nat /\ Len(f) <= Len(e) /\ Len(f) <= Len(f)
  BY <1>3
<1>6. g[Len(f)] = h[Len(f)]
  BY <1>1, <1>3, <1>4, <1>5, SiftUnique, SMTT(30)
<1>7. h[Len(e)] = IF IsData(e[Len(e)]) THEN Append(h[Len(e) - 1], e[Len(e)]) ELSE h[Len(e) - 1]
  <2>1. PICK n : n = Len(e)
    OBVIOUS
  <2>2. n \in 0..n /\ n # 0 /\ Sifts(h, e, n)
    BY <1>3, <1>4, <1>5, <2>1
  <2>3. h[n] = IF IsData(e[n]) THEN Append(h[n - 1], e[n]) ELSE h[n - 1]
    BY <2>2 DEF Sifts
  <2> QED
    BY <2>1, <2>3
<1>8. g[Len(f)] \in Seq(Lines)
  BY <1>1, <1>5 DEF Sifts
<1>9. Len(e) - 1 = Len(f) /\ e[Len(e)] = l
  BY <1>3, <1>5
<1> QED
  BY <1>1, <1>2, <1>4, <1>6, <1>7, <1>8, <1>9

\* The data records of a file are lines.
LEMMA RecordsType ==
  ASSUME NEW f \in Seq(Lines)
  PROVE  DataRecords(f) \in Seq(Lines) /\ Len(DataRecords(f)) \in Nat
<1>1. PICK g : Sifts(g, f, Len(f)) /\ DataRecords(f) = g[Len(f)]
  BY RecordsSift
<1>2. Len(f) \in 0..Len(f)
  OBVIOUS
<1>3. DataRecords(f) \in Seq(Lines)
  BY <1>1, <1>2 DEF Sifts
<1> QED
  BY <1>3

\* A file without a line has no record.
LEMMA NoRecords == DataRecords(<<>>) = <<>>
<1>1. PICK g : Sifts(g, <<>>, Len(<<>>)) /\ DataRecords(<<>>) = g[Len(<<>>)]
  <2>1. <<>> \in Seq(Lines)
    OBVIOUS
  <2> QED
    BY <2>1, RecordsSift
<1> QED
  BY <1>1 DEF Sifts

-----------------------------------------------------------------------------
(***************************************************************************)
(* What is known while a file is read.  The two flags come one after the   *)
(* other and only after the last block; as long as no line was refused,    *)
(* the counter is the number of data records, up to the size of the bank,  *)
(* and the image is theirs.                                                *)
(***************************************************************************)
FlagsInOrder ==
  /\ securityAddrAcquired => blockCounter = NumBlocks
  /\ checksumAddrAcquired => securityAddrAcquired

Counted ==
  Unrefused =>
    /\ Len(Stored) <= NumBlocks => blockCounter = Len(Stored)
    /\ Len(Stored) > NumBlocks => securityAddrAcquired

EndComesLast ==
  Unrefused /\ file # <<>> /\ Record(Last(file), 0, 1) => blockCounter = NumBlocks

LoadInv == HexTypeOK /\ FlagsInOrder /\ Counted /\ EndComesLast /\ ImageIsOfFile

\* The line of a data record has the bytes of a block, some of them perhaps unreadable.
LEMMA DataLine ==
  ASSUME NEW l \in Lines, IsData(l)
  PROVE  /\ l.data \in Seq(Byte \cup {Unreadable}) /\ Len(l.data) = BlockSize
         /\ Readable(l.data) => l.data \in Block
<1>1. l.data \in Seq(Byte \cup {Unreadable}) /\ Len(l.data) = BlockSize
  BY LoaderAssumption DEF LoaderAssumption, IsData, Record
<1>2. ASSUME Readable(l.data) PROVE l.data \in Block
  <2>1. \A i \in 1..BlockSize : l.data[i] \in Byte \cup {Unreadable} /\ l.data[i] # Unreadable
    BY <1>1, <1>2 DEF Readable
  <2>2. l.data \in [1..BlockSize -> Byte \cup {Unreadable}]
    BY <1>1, ProtocolAssumption DEF ProtocolAssumption
  <2> QED
    BY <2>1, <2>2 DEF Block
<1> QED
  BY <1>1, <1>2

\* A buffer that is filled from such a line holds a block; all of it when it can be read.
LEMMA FilledIsBlock ==
  ASSUME NEW l \in Lines, IsData(l), NEW old \in Block
  PROVE  /\ Filled(old, l.data) \in Block
         /\ Readable(l.data) => Filled(old, l.data) = l.data
<1>1. PICK bytes : bytes = l.data
  OBVIOUS
<1>2. /\ bytes \in Seq(Byte \cup {Unreadable}) /\ Len(bytes) = BlockSize
      /\ Readable(bytes) => bytes \in Block
  BY <1>1, DataLine
<1>3. BlockSize \in Nat
  BY ProtocolAssumption DEF ProtocolAssumption
<1>4. ASSUME NEW i \in 1..BlockSize
      PROVE  /\ Readable(SubSeq(bytes, 1, i)) => bytes[i] \in Byte
             /\ Readable(bytes) => Readable(SubSeq(bytes, 1, i))
  <2>1. /\ SubSeq(bytes, 1, i) \in Seq(Byte \cup {Unreadable}) /\ Len(SubSeq(bytes, 1, i)) = i
        /\ \A k \in 1..i : SubSeq(bytes, 1, i)[k] = bytes[k]
    <3>1. \A k \in 1..i : bytes[k] \in Byte \cup {Unreadable}
      BY <1>2, <1>3
    <3> QED
      BY <3>1, SubSeqProperties
  <2>2. DOMAIN SubSeq(bytes, 1, i) = 1..i /\ DOMAIN bytes = 1..BlockSize /\ i \in 1..i
    BY <1>2, <2>1
  <2>3. bytes[i] \in Byte \cup {Unreadable}
    BY <1>2, <1>3
  <2>4. \A k \in 1..i : k \in 1..BlockSize
    BY <1>3
  <2> QED
    BY <2>1, <2>2, <2>3, <2>4 DEF Readable
<1>5. \A i \in 1..BlockSize : old[i] \in Byte
  BY DEF Block
<1>6. Filled(old, bytes) \in Block
  BY <1>4, <1>5 DEF Filled, Block
<1>7. ASSUME Readable(bytes) PROVE Filled(old, bytes) = bytes
  <2>1. Filled(old, bytes) = [i \in 1..BlockSize |-> bytes[i]]
    BY <1>4, <1>7 DEF Filled
  <2>2. bytes \in [1..BlockSize -> Byte]
    BY <1>2, <1>7 DEF Block
  <2> QED
    BY <2>1, <2>2
<1> QED
  BY <1>1, <1>6, <1>7

-----------------------------------------------------------------------------
(***************************************************************************)
(* One line.                                                               *)
(***************************************************************************)
\* A line is refused, or taken in whole; in both cases at most one thing is stored.
Refused     == loading' = FALSE /\ dataLoaded' = FALSE
Accepted(l) == UNCHANGED <<loading, dataLoaded>> /\ Readable(l.data)

Stores(l) ==
  \/ IsBlock(l) /\ StoreBlock(l)
  \/ IsSecurity(l) /\ StoreSecurity(l)
  \/ IsSecurityAddr(l) /\ AcquireSecurityAddr(l)
  \/ IsChecksumAddr(l) /\ AcquireChecksumAddr(l)
  \/ (IsChecksum(l) \/ IsEnd(l)) /\ NothingToStore

\* A line is refused, or it is accepted and stored.
LEMMA LineCases ==
  ASSUME NEW l, hexDataProcess(l)
  PROVE  \/ Refused /\ (NothingToStore \/ Stores(l))
         \/ Accepted(l) /\ Stores(l)
BY DEF hexDataProcess, Judge, Refused, Accepted, Stores

\* No line makes the loader write outside the image, or what is not a byte into it.
LEMMA LineType ==
  ASSUME HexTypeOK, FlagsInOrder, NEW l \in Lines, NothingToStore \/ Stores(l)
  PROVE  /\ programData' \in Image /\ securityData' \in Block
         /\ blockCounter' \in 0..NumBlocks
         /\ securityAddrAcquired' \in BOOLEAN /\ checksumAddrAcquired' \in BOOLEAN
         /\ FlagsInOrder'
<1>0. NumBlocks \in Nat /\ BlockIdx = 0..(NumBlocks - 1)
  BY ProtocolAssumption DEF ProtocolAssumption, BlockIdx
<1>1. CASE NothingToStore \/ ((IsChecksum(l) \/ IsEnd(l)) /\ NothingToStore)
  BY <1>1 DEF NothingToStore, found, HexTypeOK, FlagsInOrder
<1>2. CASE IsBlock(l) /\ StoreBlock(l)
  <2>1. IsData(l) /\ blockCounter < NumBlocks /\ ~securityAddrAcquired /\ ~checksumAddrAcquired
    BY <1>2 DEF IsBlock, IsData
  <2>2. blockCounter \in BlockIdx
    BY <1>0, <2>1 DEF HexTypeOK
  <2>3. Filled(programData[blockCounter], l.data) \in Block
    BY <2>1, <2>2, FilledIsBlock DEF HexTypeOK, Image
  <2>4. programData' \in Image
    BY <1>2, <2>3 DEF StoreBlock, HexTypeOK, Image
  <2>5. blockCounter' \in 0..NumBlocks
    BY <1>0, <1>2, <2>2 DEF StoreBlock, HexTypeOK
  <2> QED
    BY <1>2, <2>1, <2>4, <2>5 DEF StoreBlock, HexTypeOK, FlagsInOrder
<1>3. CASE IsSecurity(l) /\ StoreSecurity(l)
  <2>1. IsData(l)
    BY <1>3 DEF IsSecurity, IsData
  <2>2. Filled(securityData, l.data) \in Block
    BY <2>1, FilledIsBlock DEF HexTypeOK
  <2> QED
    BY <1>3, <2>2 DEF StoreSecurity, found, HexTypeOK, FlagsInOrder
<1>4. CASE IsSecurityAddr(l) /\ AcquireSecurityAddr(l)
  BY <1>4 DEF IsSecurityAddr, AcquireSecurityAddr, HexTypeOK, FlagsInOrder, Readable
<1>5. CASE IsChecksumAddr(l) /\ AcquireChecksumAddr(l)
  BY <1>5 DEF IsChecksumAddr, AcquireChecksumAddr, HexTypeOK, FlagsInOrder, Readable
<1> QED
  BY <1>1, <1>2, <1>3, <1>4, <1>5 DEF Stores

\* The records of the file after one more line.
LEMMA StoredGrows ==
  ASSUME HexTypeOK, NEW l \in Lines, file' = Append(file, l)
  PROVE  /\ Stored \in Seq(Lines) /\ Len(Stored) \in Nat
         /\ IsData(l) => /\ Len(Stored') = Len(Stored) + 1 /\ Last(Stored') = l
                         /\ Stored'[Len(Stored) + 1] = l
                         /\ \A i \in 1..Len(Stored) : Stored'[i] = Stored[i]
         /\ ~IsData(l) => Stored' = Stored
         /\ file' \in Seq(Lines) /\ file' # <<>> /\ Last(file') = l
<1>1. file \in Seq(Lines)
  BY DEF HexTypeOK
<1>2. PICK old, new : old = Stored /\ new = Stored'
  OBVIOUS
<1>3. old \in Seq(Lines) /\ new = IF IsData(l) THEN Append(old, l) ELSE old
  BY <1>1, <1>2, RecordsGrow DEF Stored
<1>4. Len(old) \in Nat
  BY <1>3
<1>5. ASSUME IsData(l)
      PROVE  /\ Len(new) = Len(old) + 1 /\ Last(new) = l /\ new[Len(old) + 1] = l
             /\ \A i \in 1..Len(old) : new[i] = old[i]
  <2>1. new = Append(old, l)
    BY <1>3, <1>5
  <2> QED
    BY <1>3, <2>1, AppendProperties DEF Last
<1>6. /\ file' \in Seq(Lines) /\ Len(file') = Len(file) + 1 /\ file'[Len(file) + 1] = l
  BY <1>1, AppendProperties
<1>7. file' # <<>> /\ Last(file') = l
  BY <1>1, <1>6 DEF Last
<1> QED
  BY <1>2, <1>3, <1>4, <1>5, <1>6, <1>7

\* An accepted line leaves the image that of the file, in each of the six kinds.
LEMMA LineKeeps ==
  ASSUME LoadInv, loading, NEW l \in Lines, Accepted(l), Stores(l),
         file' = Append(file, l), before' = before
  PROVE  Counted' /\ EndComesLast' /\ ImageIsOfFile'
<1>0. NumBlocks \in Nat /\ BlockIdx = 0..(NumBlocks - 1)
  BY ProtocolAssumption DEF ProtocolAssumption, BlockIdx
<1>1. /\ HexTypeOK /\ Unrefused /\ Readable(l.data) /\ blockCounter \in 0..NumBlocks
      /\ Len(Stored) <= NumBlocks => blockCounter = Len(Stored)
      /\ Len(Stored) > NumBlocks => securityAddrAcquired
      /\ securityAddrAcquired => blockCounter = NumBlocks
      /\ \A b \in BlockIdx :
           programData[b] = IF b < Len(Stored) THEN Stored[b + 1].data ELSE before.blocks[b]
      /\ securityData = IF Len(Stored) > NumBlocks THEN Last(Stored).data ELSE before.security
      /\ programData \in Image /\ securityData \in Block
  BY DEF LoadInv, HexTypeOK, FlagsInOrder, Counted, ImageIsOfFile, Unrefused, Accepted
<1>2. /\ Len(Stored) \in Nat
      /\ IsData(l) => /\ Len(Stored') = Len(Stored) + 1 /\ Last(Stored') = l
                      /\ Stored'[Len(Stored) + 1] = l
                      /\ \A i \in 1..Len(Stored) : Stored'[i] = Stored[i]
      /\ ~IsData(l) => Stored' = Stored
      /\ Last(file') = l
  BY <1>1, StoredGrows
<1> DEFINE Goal ==
      /\ Len(Stored') <= NumBlocks => blockCounter' = Len(Stored')
      /\ Len(Stored') > NumBlocks => securityAddrAcquired'
      /\ Record(l, 0, 1) => blockCounter' = NumBlocks
      /\ \A b \in BlockIdx :
           programData'[b] = IF b < Len(Stored') THEN Stored'[b + 1].data ELSE before.blocks[b]
      /\ securityData' = IF Len(Stored') > NumBlocks THEN Last(Stored').data ELSE before.security
<1>3. SUFFICES Goal
  BY <1>2 DEF Counted, EndComesLast, ImageIsOfFile
<1>4. BlockSize # 2 /\ BlockSize # 0
  BY ProtocolAssumption, LoaderAssumption DEF ProtocolAssumption, LoaderAssumption
<1>5. CASE IsBlock(l) /\ StoreBlock(l)
  <2>1. IsData(l) /\ blockCounter < NumBlocks /\ ~securityAddrAcquired /\ ~Record(l, 0, 1)
    BY <1>5 DEF IsBlock, IsData, Record
  <2>2. blockCounter = Len(Stored) /\ blockCounter \in BlockIdx
    BY <1>0, <1>1, <1>2, <2>1
  <2>3. Filled(programData[blockCounter], l.data) = l.data
    BY <1>1, <2>1, <2>2, FilledIsBlock DEF Image
  <2>4. /\ programData' = [programData EXCEPT ![blockCounter] = l.data]
        /\ blockCounter' = blockCounter + 1 /\ securityData' = securityData
    BY <1>1, <1>5, <2>3 DEF StoreBlock
  <2>5. Len(Stored') = blockCounter + 1 /\ Len(Stored') <= NumBlocks
    BY <1>0, <1>1, <1>2, <2>1, <2>2
  <2>6. ASSUME NEW b \in BlockIdx
        PROVE  programData'[b] =
                 IF b < Len(Stored') THEN Stored'[b + 1].data ELSE before.blocks[b]
    <3>1. CASE b = blockCounter
      <4>1. programData'[b] = l.data
        BY <1>1, <2>2, <2>4, <3>1 DEF Image
      <4>2. Stored'[b + 1] = l /\ b < Len(Stored')
        BY <1>0, <1>2, <2>1, <2>2, <2>5, <3>1
      <4> QED
        BY <4>1, <4>2
    <3>2. CASE b # blockCounter
      <4>1. programData'[b] = programData[b]
        BY <1>1, <2>2, <2>4, <3>2 DEF Image
      <4>2. b < Len(Stored') <=> b < Len(Stored)
        BY <1>0, <2>2, <2>5, <3>2
      <4>3. b < Len(Stored) => Stored'[b + 1] = Stored[b + 1]
        BY <1>0, <1>2, <2>1
      <4> QED
        BY <1>1, <4>1, <4>2, <4>3
    <3> QED
      BY <3>1, <3>2
  <2>7. securityData' = before.security
    BY <1>0, <1>1, <2>2, <2>4
  <2>8. ~(Len(Stored') > NumBlocks)
    BY <1>0, <1>1, <2>5
  <2> QED
    BY <2>1, <2>4, <2>5, <2>6, <2>7, <2>8
<1>6. CASE IsSecurity(l) /\ StoreSecurity(l)
  <2>1. IsData(l) /\ blockCounter = NumBlocks /\ securityAddrAcquired /\ ~Record(l, 0, 1)
    BY <1>6 DEF IsSecurity, IsData, Record
  <2>2. Len(Stored) >= NumBlocks
    BY <1>0, <1>1, <1>2, <2>1
  <2>3. Filled(securityData, l.data) = l.data
    BY <1>1, <2>1, FilledIsBlock
  <2>4. /\ securityData' = l.data /\ programData' = programData
        /\ blockCounter' = blockCounter /\ securityAddrAcquired'
    BY <1>6, <2>1, <2>3 DEF StoreSecurity, found
  <2>5. Len(Stored') > NumBlocks /\ ~(Len(Stored') <= NumBlocks) /\ Last(Stored') = l
    BY <1>0, <1>2, <2>1, <2>2
  <2>6. \A b \in BlockIdx :
          /\ b < Len(Stored') /\ b < Len(Stored)
          /\ Stored'[b + 1] = Stored[b + 1]
    BY <1>0, <1>2, <2>1, <2>2
  <2> QED
    BY <1>1, <2>1, <2>4, <2>5, <2>6
<1>7. CASE IsSecurityAddr(l) /\ AcquireSecurityAddr(l)
  <2>1. ~IsData(l) /\ ~Record(l, 0, 1)
    BY <1>4, <1>7 DEF IsSecurityAddr, IsData, Record
  <2>2. /\ securityAddrAcquired' /\ UNCHANGED <<programData, securityData, blockCounter>>
    BY <1>1, <1>7 DEF AcquireSecurityAddr
  <2> QED
    BY <1>1, <1>2, <2>1, <2>2
<1>8. CASE IsChecksumAddr(l) /\ AcquireChecksumAddr(l)
  <2>1. ~IsData(l) /\ ~Record(l, 0, 1)
    BY <1>4, <1>8 DEF IsChecksumAddr, IsData, Record
  <2>2. UNCHANGED <<programData, securityData, blockCounter, securityAddrAcquired>>
    BY <1>8 DEF AcquireChecksumAddr
  <2> QED
    BY <1>1, <1>2, <2>1, <2>2
<1>9. CASE (IsChecksum(l) \/ IsEnd(l)) /\ NothingToStore
  <2>1. ~IsData(l) /\ blockCounter = NumBlocks
    BY <1>4, <1>9 DEF IsChecksum, IsEnd, IsData, Record
  <2>2. UNCHANGED <<programData, securityData, blockCounter, securityAddrAcquired>>
    BY <1>9 DEF NothingToStore, found
  <2> QED
    BY <1>1, <1>2, <2>1, <2>2
<1> QED
  BY <1>5, <1>6, <1>7, <1>8, <1>9 DEF Stores

-----------------------------------------------------------------------------
(***************************************************************************)
(* The invariant of the loader.                                            *)
(***************************************************************************)
\* The image in memory is blocks and security data; a file can be empty.
LEMMA PictureType ==
  /\ programData \in Image /\ securityData \in Block =>
       image \in [blocks : Image, security : Block]
  /\ <<>> \in Seq(Lines) /\ 0 \in 0..NumBlocks
BY ProtocolAssumption DEF image, ProtocolAssumption

\* The loader starts with zeros and no file.
LEMMA HexInitInv == HexInit => LoadInv
<1> SUFFICES ASSUME HexInit PROVE LoadInv
  OBVIOUS
<1>1. ZeroData \in Block
  BY DEF ZeroData, Block, Byte
<1>2. HexTypeOK
  <2>1. programData \in Image /\ securityData \in Block
    BY <1>1 DEF HexInit, Image
  <2>2. before \in [blocks : Image, security : Block]
    BY <2>1, PictureType DEF HexInit
  <2> QED
    BY <2>1, <2>2, PictureType DEF HexInit, HexTypeOK
<1>3. ~Unrefused
  BY DEF HexInit, Unrefused
<1> QED
  BY <1>2, <1>3
     DEF LoadInv, FlagsInOrder, Counted, EndComesLast, ImageIsOfFile, HexInit

\* A file that is opened begins with nothing found, whatever the last one left.
LEMMA BeginKeeps == LoadInv /\ BeginLoad => LoadInv'
<1> SUFFICES ASSUME LoadInv, BeginLoad PROVE LoadInv'
  OBVIOUS
<1>1. HexTypeOK'
  <2>1. before' \in [blocks : Image, security : Block]
    BY PictureType DEF LoadInv, HexTypeOK, BeginLoad
  <2> QED
    BY <2>1, PictureType DEF LoadInv, HexTypeOK, BeginLoad
<1>2. Stored' = <<>>
  BY NoRecords DEF Stored, BeginLoad
<1>3. Len(Stored') = 0 /\ blockCounter' = 0 /\ file' = <<>> /\ NumBlocks \in Nat
  BY <1>2, ProtocolAssumption DEF BeginLoad, ProtocolAssumption
<1>4. FlagsInOrder' /\ Counted' /\ EndComesLast'
  BY <1>3 DEF BeginLoad, FlagsInOrder, Counted, EndComesLast
<1>5. before'.blocks = programData' /\ before'.security = securityData'
  BY DEF BeginLoad, image
<1>6. \A b \in BlockIdx : ~(b < 0)
  BY ProtocolAssumption DEF ProtocolAssumption, BlockIdx
<1>7. ImageIsOfFile'
  BY <1>3, <1>5, <1>6 DEF ImageIsOfFile
<1> QED
  BY <1>1, <1>4, <1>7 DEF LoadInv

\* Every line, taken or refused, keeps what is known.
LEMMA ReadLineKeeps == LoadInv /\ ReadLine => LoadInv'
<1> SUFFICES ASSUME LoadInv, ReadLine PROVE LoadInv'
  OBVIOUS
<1>1. PICK l \in Lines : hexDataProcess(l) /\ file' = Append(file, l)
  BY DEF ReadLine
<1>2. loading /\ before' = before /\ HexTypeOK /\ FlagsInOrder
  BY DEF ReadLine, LoadInv
<1>3. \/ Refused /\ (NothingToStore \/ Stores(l))
      \/ Accepted(l) /\ Stores(l)
  BY <1>1, LineCases
<1>4. /\ programData' \in Image /\ securityData' \in Block
      /\ blockCounter' \in 0..NumBlocks
      /\ securityAddrAcquired' \in BOOLEAN /\ checksumAddrAcquired' \in BOOLEAN
      /\ FlagsInOrder'
  BY <1>2, <1>3, LineType
<1>5. loading' \in BOOLEAN /\ dataLoaded' \in BOOLEAN
  BY <1>2, <1>3 DEF Refused, Accepted, HexTypeOK
<1>6. file' \in Seq(Lines)
  BY <1>1, <1>2, StoredGrows
<1>7. HexTypeOK'
  BY <1>2, <1>4, <1>5, <1>6 DEF HexTypeOK
<1>8. CASE Refused
  <2>1. ~Unrefused'
    BY <1>8 DEF Refused, Unrefused
  <2> QED
    BY <1>4, <1>7, <2>1 DEF LoadInv, Counted, EndComesLast, ImageIsOfFile
<1>9. CASE Accepted(l) /\ Stores(l)
  <2>1. Counted' /\ EndComesLast' /\ ImageIsOfFile'
    BY <1>1, <1>2, <1>9, LineKeeps
  <2> QED
    BY <1>4, <1>7, <2>1 DEF LoadInv
<1> QED
  BY <1>3, <1>8, <1>9

\* The end of a file, and a dialog left with a file that cannot be opened.
LEMMA EndKeeps == LoadInv /\ (AtEnd \/ NoSuchFile \/ UNCHANGED loaderVars) => LoadInv'
<1> SUFFICES ASSUME LoadInv, AtEnd \/ NoSuchFile \/ UNCHANGED loaderVars PROVE LoadInv'
  OBVIOUS
<1>1. CASE AtEnd \/ UNCHANGED loaderVars
  <2>1. /\ UNCHANGED <<programData, securityData, blockCounter, securityAddrAcquired,
                       checksumAddrAcquired, file, before>>
        /\ loading' \in BOOLEAN /\ dataLoaded' \in BOOLEAN
    BY <1>1 DEF AtEnd, loaderVars, found, LoadInv, HexTypeOK
  <2>2. Unrefused' => Unrefused
    BY <1>1 DEF AtEnd, loaderVars, Unrefused
  <2>3. Stored' = Stored
    BY <2>1 DEF Stored
  <2>4. HexTypeOK' /\ FlagsInOrder'
    BY <2>1 DEF LoadInv, HexTypeOK, FlagsInOrder
  <2>5. Counted' /\ EndComesLast' /\ ImageIsOfFile'
    BY <2>1, <2>2, <2>3 DEF LoadInv, Counted, EndComesLast, ImageIsOfFile
  <2> QED
    BY <2>4, <2>5 DEF LoadInv
<1>2. CASE NoSuchFile
  <2>1. ~Unrefused'
    BY <1>2 DEF NoSuchFile, Unrefused
  <2>2. before' \in [blocks : Image, security : Block]
    BY <1>2, PictureType DEF NoSuchFile, LoadInv, HexTypeOK
  <2>3. HexTypeOK' /\ FlagsInOrder'
    BY <1>2, <2>2, PictureType DEF NoSuchFile, found, LoadInv, HexTypeOK, FlagsInOrder
  <2> QED
    BY <2>1, <2>3 DEF LoadInv, Counted, EndComesLast, ImageIsOfFile
<1> QED
  BY <1>1, <1>2

\* Every step of the loader keeps its invariant.
LEMMA HexNextInv == LoadInv /\ [HexNext]_loaderVars => LoadInv'
BY BeginKeeps, ReadLineKeeps, EndKeeps DEF HexNext

\* The loader's inductive invariant.
LEMMA LoaderInvariant == HexSpec => []LoadInv
BY HexInitInv, HexNextInv, PTL DEF HexSpec

\* hexDataProcess stores no record outside the arrays, and nothing but bytes in them,
\* whatever lines a file has and however it breaks off.
THEOREM LoaderTypeCorrect == HexSpec => []HexTypeOK
<1>1. LoadInv => HexTypeOK
  BY DEF LoadInv
<1> QED
  BY <1>1, LoaderInvariant, PTL

\* The image is that of the file, record by record, while a file is read and after it was
\* accepted, however many were refused before it: the counter and the flags of load().
THEOREM ImageIsFaithful == HexSpec => []ImageIsOfFile
<1>1. LoadInv => ImageIsOfFile
  BY DEF LoadInv
<1> QED
  BY <1>1, LoaderInvariant, PTL

\* A file whose end record was accepted has a record for every block of the bank.
THEOREM EndIsWhole == HexSpec => []EndMeansWhole
<1>1. LoadInv => EndMeansWhole
  <2> SUFFICES ASSUME LoadInv, ~loading, dataLoaded, file # <<>>, Record(Last(file), 0, 1)
               PROVE  Len(Stored) >= NumBlocks
    BY DEF EndMeansWhole
  <2>1. Unrefused /\ blockCounter = NumBlocks
    BY DEF LoadInv, EndComesLast, Unrefused
  <2>2. Len(Stored) <= NumBlocks => blockCounter = Len(Stored)
    BY <2>1 DEF LoadInv, Counted
  <2>3. Len(Stored) \in Nat /\ NumBlocks \in Nat
    <3>1. file \in Seq(Lines)
      BY DEF LoadInv, HexTypeOK
    <3>2. Len(Stored) \in Nat
      BY <3>1, RecordsType DEF Stored
    <3> QED
      BY <3>2, ProtocolAssumption DEF ProtocolAssumption
  <2> QED
    BY <2>1, <2>2, <2>3
<1> QED
  BY <1>1, LoaderInvariant, PTL

-----------------------------------------------------------------------------
(***************************************************************************)
(* The window of the flashing sequence sees a file in one step: the first  *)
(* n bytes of a picture.  In the image, byte i of block b is byte          *)
(* b * BlockSize + i, so n is k whole records and j bytes of the next.     *)
(***************************************************************************)
LEMMA ByteOrder ==
  ASSUME NEW B \in Nat \ {0}, NEW b \in Nat, NEW k \in Nat, NEW i \in 1..B, NEW j \in 0..B
  PROVE  b * B + i <= k * B + j <=> b < k \/ (b = k /\ i <= j)
<1>1. CASE b = k
  BY <1>1
<1>2. CASE b < k
  <2>1. PICK d \in Nat : k = b + 1 + d
    <3>1. k - b - 1 \in Nat /\ k = b + 1 + (k - b - 1)
      BY <1>2
    <3> QED
      BY <3>1
  <2>2. k * B = b * B + B + d * B /\ d * B \in Nat /\ b * B \in Nat
    BY <2>1
  <2> QED
    BY <1>2, <2>2
<1>3. CASE b > k
  <2>1. PICK d \in Nat : b = k + 1 + d
    <3>1. b - k - 1 \in Nat /\ b = k + 1 + (b - k - 1)
      BY <1>3
    <3> QED
      BY <3>1
  <2>2. b * B = k * B + B + d * B /\ d * B \in Nat /\ k * B \in Nat
    BY <2>1
  <2> QED
    BY <1>3, <2>2
<1> QED
  BY <1>1, <1>2, <1>3

\* Whole records end on a record's boundary.
LEMMA WholeRecords ==
  ASSUME NEW B \in Nat \ {0}, NEW k \in Nat
  PROVE  (k * B) % B = 0
OBVIOUS

\* An image whose first k blocks, and j bytes of the next, are those of a picture, and
\* which is the old one from there on, is what fileOpen leaves after some n bytes.
FirstBytes(picture, k, j, old, oldSecurity, new, newSecurity) ==
  /\ \A b \in BlockIdx, i \in 1..BlockSize :
       new[b][i] = IF b < k \/ (b = k /\ i <= j) THEN picture.blocks[b][i] ELSE old[b][i]
  /\ \A i \in 1..BlockSize :
       newSecurity[i] = IF NumBlocks < k \/ (NumBlocks = k /\ i <= j)
                        THEN picture.security[i] ELSE oldSecurity[i]

OpensWith(picture, n, old, oldSecurity, new, newSecurity) ==
  /\ new = [b \in BlockIdx |->
              [i \in 1..BlockSize |-> IF b * BlockSize + i <= n
                                      THEN picture.blocks[b][i] ELSE old[b][i]]]
  /\ newSecurity = [i \in 1..BlockSize |-> IF NumBlocks * BlockSize + i <= n
                                           THEN picture.security[i] ELSE oldSecurity[i]]

\* A record broken off inside a block is a number of bytes of the picture.
LEMMA FirstBytesOpen ==
  ASSUME NEW picture, NEW k \in 0..(NumBlocks + 1), NEW j \in 0..BlockSize,
         k = NumBlocks + 1 => j = 0,
         NEW old \in Image, NEW oldSecurity \in Block,
         NEW new \in Image, NEW newSecurity \in Block,
         FirstBytes(picture, k, j, old, oldSecurity, new, newSecurity)
  PROVE  \E n \in 0..((NumBlocks + 1) * BlockSize) :
           /\ j = 0 => n % BlockSize = 0
           /\ OpensWith(picture, n, old, oldSecurity, new, newSecurity)
<1>0. BlockSize \in Nat \ {0} /\ NumBlocks \in Nat /\ k \in Nat
      /\ \A b \in BlockIdx : b \in Nat
  BY ProtocolAssumption DEF ProtocolAssumption, BlockIdx
<1>1. PICK n : n = k * BlockSize + j
  OBVIOUS
<1>2. \A b \in Nat, i \in 1..BlockSize :
        b * BlockSize + i <= n <=> b < k \/ (b = k /\ i <= j)
  BY <1>0, <1>1, ByteOrder
<1>3. n \in 0..((NumBlocks + 1) * BlockSize)
  <2>1. k * BlockSize \in Nat /\ (NumBlocks + 1) * BlockSize \in Nat
    BY <1>0
  <2>2. n \in Nat
    BY <1>1, <2>1
  <2>3. CASE k = NumBlocks + 1
    BY <1>1, <2>1, <2>2, <2>3
  <2>4. CASE k # NumBlocks + 1
    <3>1. PICK d \in Nat : NumBlocks = k + d
      <4>1. NumBlocks - k \in Nat /\ NumBlocks = k + (NumBlocks - k)
        BY <1>0, <2>4
      <4> QED
        BY <4>1
    <3>2. (NumBlocks + 1) * BlockSize = k * BlockSize + d * BlockSize + BlockSize
          /\ d * BlockSize \in Nat
      BY <1>0, <3>1
    <3> QED
      BY <1>0, <1>1, <2>1, <2>2, <3>2
  <2> QED
    BY <2>3, <2>4
<1>4. j = 0 => n % BlockSize = 0
  <2> SUFFICES ASSUME j = 0 PROVE n % BlockSize = 0
    OBVIOUS
  <2>1. n = k * BlockSize
    <3>1. k * BlockSize \in Nat
      BY <1>0
    <3> QED
      BY <1>1, <3>1
  <2> QED
    BY <1>0, <2>1, WholeRecords
<1> DEFINE opened == [b \in BlockIdx |->
                        [i \in 1..BlockSize |-> IF b * BlockSize + i <= n
                                                THEN picture.blocks[b][i] ELSE old[b][i]]]
<1>5. new = opened
  <2>1. ASSUME NEW b \in BlockIdx PROVE new[b] = opened[b]
    <3>1. new[b] \in [1..BlockSize -> Byte]
      BY DEF Image, Block
    <3>2. ASSUME NEW i \in 1..BlockSize PROVE new[b][i] = opened[b][i]
      <4>1. b * BlockSize + i <= n <=> b < k \/ (b = k /\ i <= j)
        BY <1>0, <1>2
      <4>2. new[b][i] = IF b < k \/ (b = k /\ i <= j) THEN picture.blocks[b][i] ELSE old[b][i]
        BY DEF FirstBytes
      <4> QED
        BY <4>1, <4>2
    <3> QED
      BY <3>1, <3>2
  <2>2. new = [b \in BlockIdx |-> new[b]]
    BY DEF Image
  <2> HIDE DEF opened
  <2>3. opened = [b \in BlockIdx |-> opened[b]]
    BY DEF opened
  <2> QED
    BY <2>1, <2>2, <2>3
<1>6. newSecurity = [i \in 1..BlockSize |-> IF NumBlocks * BlockSize + i <= n
                                            THEN picture.security[i] ELSE oldSecurity[i]]
  <2>1. newSecurity \in [1..BlockSize -> Byte]
    BY DEF Block
  <2>2. ASSUME NEW i \in 1..BlockSize
        PROVE  newSecurity[i] = IF NumBlocks * BlockSize + i <= n
                                THEN picture.security[i] ELSE oldSecurity[i]
    <3>1. NumBlocks * BlockSize + i <= n <=> NumBlocks < k \/ (NumBlocks = k /\ i <= j)
      BY <1>0, <1>2
    <3> QED
      BY <3>1 DEF FirstBytes
  <2> QED
    BY <2>1, <2>2
<1>7. OpensWith(picture, n, old, oldSecurity, new, newSecurity)
  BY <1>5, <1>6 DEF OpensWith
<1> QED
  BY <1>3, <1>4, <1>7

\* What a line that cannot be read fills is a first part of the buffer.
LEMMA FilledIsPrefix ==
  ASSUME NEW l \in Lines, IsData(l), NEW old \in Block
  PROVE  \E j \in 0..BlockSize : \A i \in 1..BlockSize :
           Filled(old, l.data)[i] = IF i <= j THEN l.data[i] ELSE old[i]
<1>1. PICK bytes : bytes = l.data
  OBVIOUS
<1>2. bytes \in Seq(Byte \cup {Unreadable}) /\ Len(bytes) = BlockSize
  BY <1>1, DataLine
<1>3. BlockSize \in Nat
  BY ProtocolAssumption DEF ProtocolAssumption
<1>4. ASSUME NEW i \in 1..BlockSize
      PROVE  Readable(SubSeq(bytes, 1, i)) <=> \A k \in 1..i : bytes[k] # Unreadable
  <2>1. /\ SubSeq(bytes, 1, i) \in Seq(Byte \cup {Unreadable}) /\ Len(SubSeq(bytes, 1, i)) = i
        /\ \A k \in 1..i : SubSeq(bytes, 1, i)[k] = bytes[k]
    <3>1. \A k \in 1..i : bytes[k] \in Byte \cup {Unreadable}
      BY <1>2, <1>3
    <3> QED
      BY <3>1, SubSeqProperties
  <2>2. DOMAIN SubSeq(bytes, 1, i) = 1..i
    BY <2>1
  <2> QED
    BY <2>1, <2>2 DEF Readable
<1> DEFINE T == {k \in 1..BlockSize : bytes[k] = Unreadable}
<1>5. \E j \in 0..BlockSize : \A i \in 1..BlockSize :
        (\A k \in 1..i : bytes[k] # Unreadable) <=> i <= j
  <2>1. CASE T = {}
    <3>1. \A i \in 1..BlockSize : \A k \in 1..i : k \in 1..BlockSize
      BY <1>3
    <3>2. \A i \in 1..BlockSize : \A k \in 1..i : bytes[k] # Unreadable
      BY <2>1, <3>1
    <3>3. BlockSize \in 0..BlockSize /\ \A i \in 1..BlockSize : i <= BlockSize
      BY <1>3
    <3> QED
      BY <3>2, <3>3
  <2>2. CASE T # {}
    <3>0. T \subseteq Nat
      OBVIOUS
    <3>1. PICK m \in T : \A k \in T : m <= k
      BY <2>2, <3>0, LeastNatural
    <3>2. m \in 1..BlockSize /\ bytes[m] = Unreadable /\ m - 1 \in 0..BlockSize
      BY <1>3, <3>1
    <3>3. ASSUME NEW i \in 1..BlockSize
          PROVE  (\A k \in 1..i : bytes[k] # Unreadable) <=> i <= m - 1
      <4>1. CASE i <= m - 1
        <5>1. \A k \in 1..i : k \in 1..BlockSize /\ ~(m <= k)
          BY <1>3, <3>2, <4>1
        <5> QED
          BY <3>1, <4>1, <5>1
      <4>2. CASE ~(i <= m - 1)
        <5>1. m \in 1..i
          BY <3>2, <4>2
        <5> QED
          BY <3>2, <4>2, <5>1
      <4> QED
        BY <4>1, <4>2
    <3> QED
      BY <3>2, <3>3
  <2> QED
    BY <2>1, <2>2
<1>6. PICK j \in 0..BlockSize : \A i \in 1..BlockSize :
        (\A k \in 1..i : bytes[k] # Unreadable) <=> i <= j
  BY <1>5
<1>7. \A i \in 1..BlockSize : Filled(old, bytes)[i] = IF i <= j THEN bytes[i] ELSE old[i]
  BY <1>4, <1>6 DEF Filled
<1> QED
  BY <1>1, <1>7

\* The image the window sees: the one of before while a file is being read.
seen         == IF loading THEN before.blocks ELSE programData
seenSecurity == IF loading THEN before.security ELSE securityData

\* A step after which the image is a first part of the file is a fileOpen of the window.
LEMMA OpenStep ==
  ASSUME NEW k \in 0..(NumBlocks + 1), NEW j \in 0..BlockSize, k = NumBlocks + 1 => j = 0,
         dataLoaded' => j = 0, loading' = FALSE,
         seen \in Image, seenSecurity \in Block, programData' \in Image, securityData' \in Block,
         FirstBytes(FileImage', k, j, seen, seenSecurity, programData', securityData')
  PROVE  \E picture \in {FileImage'} : \E n \in 0..((NumBlocks + 1) * BlockSize) :
           Window!fileOpen(picture, n, dataLoaded')
<1>1. PICK n \in 0..((NumBlocks + 1) * BlockSize) :
        /\ j = 0 => n % BlockSize = 0
        /\ OpensWith(FileImage', n, seen, seenSecurity, programData', securityData')
  BY FirstBytesOpen
<1>2. Window!fileOpen(FileImage', n, dataLoaded')
  BY <1>1 DEF OpensWith, Window!fileOpen, Window!BlockIdx, BlockIdx, seen, seenSecurity
<1> QED
  BY <1>2

\* When a file is finished or refused and no block was stored by that, the image is the
\* records stored before.
LEMMA WholeOpen ==
  ASSUME HexTypeOK, ImageIsOfFile, loading, loading' = FALSE,
         programData' = programData, securityData' \in Block,
         securityData' = securityData \/ Len(Stored) >= NumBlocks,
         Len(Stored) \in Nat, Len(Stored') \in Nat, Len(Stored) <= Len(Stored'),
         \A i \in 1..Len(Stored) : Stored'[i] = Stored[i]
  PROVE  \E picture \in {FileImage'} : \E n \in 0..((NumBlocks + 1) * BlockSize) :
           Window!fileOpen(picture, n, dataLoaded')
<1>0. NumBlocks \in Nat /\ BlockSize \in Nat /\ BlockIdx = 0..(NumBlocks - 1)
  BY ProtocolAssumption DEF ProtocolAssumption, BlockIdx
<1>1. /\ \A b \in BlockIdx :
           programData[b] = IF b < Len(Stored) THEN Stored[b + 1].data ELSE before.blocks[b]
      /\ securityData = IF Len(Stored) > NumBlocks THEN Last(Stored).data ELSE before.security
  BY DEF ImageIsOfFile, Unrefused
<1>2. /\ seen = before.blocks /\ seenSecurity = before.security
      /\ seen \in Image /\ seenSecurity \in Block /\ programData' \in Image
  BY DEF seen, seenSecurity, HexTypeOK
<1> DEFINE all == Len(Stored) > NumBlocks \/ securityData' # securityData
           k == IF all THEN NumBlocks + 1 ELSE Len(Stored)
<1>3. k \in 0..(NumBlocks + 1) /\ 0 \in 0..BlockSize
  BY <1>0
<1>4. ASSUME NEW b \in BlockIdx
      PROVE  /\ b < k <=> b < Len(Stored)
             /\ b < Len(Stored) => Stored'[b + 1] = Stored[b + 1] /\ b < Len(Stored')
  BY <1>0
<1>5. FileImage'.security = securityData'
      /\ \A b \in BlockIdx :
           FileImage'.blocks[b] = IF b < Len(Stored') THEN Stored'[b + 1].data ELSE ZeroData
  BY DEF FileImage
<1>6. ASSUME NEW b \in BlockIdx
      PROVE  programData'[b] = IF b < k THEN FileImage'.blocks[b] ELSE seen[b]
  <2>1. programData'[b] = IF b < Len(Stored) THEN Stored[b + 1].data ELSE seen[b]
    BY <1>1, <1>2
  <2> QED
    BY <1>4, <1>5, <2>1
<1>7. securityData' = IF NumBlocks < k THEN FileImage'.security ELSE seenSecurity
  BY <1>0, <1>1, <1>2, <1>5
<1>8. \A b \in Nat, i \in 1..BlockSize : ~(i <= 0)
  BY <1>0
<1> HIDE DEF k
<1>9. FirstBytes(FileImage', k, 0, seen, seenSecurity, programData', securityData')
  BY <1>6, <1>7, <1>8, <1>0 DEF FirstBytes
<1> QED
  BY <1>2, <1>3, <1>9, OpenStep

\* When a block is refused, what its digits gave until then is stored.
LEMMA BrokenOpen ==
  ASSUME LoadInv, loading, Refused, NEW l \in Lines, IsBlock(l), StoreBlock(l),
         programData' \in Image, securityData' \in Block, file' = Append(file, l)
  PROVE  \E picture \in {FileImage'} : \E n \in 0..((NumBlocks + 1) * BlockSize) :
           Window!fileOpen(picture, n, dataLoaded')
<1>0. NumBlocks \in Nat /\ BlockSize \in Nat /\ BlockIdx = 0..(NumBlocks - 1)
  BY ProtocolAssumption DEF ProtocolAssumption, BlockIdx
<1>1. /\ HexTypeOK /\ programData \in Image /\ blockCounter \in 0..NumBlocks
      /\ IsData(l) /\ blockCounter < NumBlocks /\ ~securityAddrAcquired
      /\ \A b \in BlockIdx :
           programData[b] = IF b < Len(Stored) THEN Stored[b + 1].data ELSE before.blocks[b]
      /\ securityData = IF Len(Stored) > NumBlocks THEN Last(Stored).data ELSE before.security
  BY DEF LoadInv, HexTypeOK, ImageIsOfFile, Unrefused, IsBlock, IsData
<1>2. /\ Len(Stored) \in Nat /\ Len(Stored') = Len(Stored) + 1
      /\ Stored'[Len(Stored) + 1] = l
      /\ \A i \in 1..Len(Stored) : Stored'[i] = Stored[i]
  BY <1>1, StoredGrows
<1>3. PICK k : k = blockCounter
  OBVIOUS
<1>4. k = Len(Stored) /\ k \in BlockIdx /\ k \in 0..(NumBlocks + 1) /\ k < NumBlocks
  <2>1. ~(Len(Stored) > NumBlocks)
    BY <1>1 DEF LoadInv, Counted, Unrefused
  <2>2. blockCounter = Len(Stored)
    BY <1>0, <1>2, <2>1 DEF LoadInv, Counted, Unrefused
  <2> QED
    BY <1>0, <1>1, <1>3, <2>2
<1>5. /\ seen = before.blocks /\ seenSecurity = before.security
      /\ seen \in Image /\ seenSecurity \in Block
  BY <1>1 DEF seen, seenSecurity, HexTypeOK
<1>6. programData[k] \in Block /\ programData[k] = seen[k]
  BY <1>0, <1>1, <1>4, <1>5 DEF Image
<1>7. PICK j \in 0..BlockSize : \A i \in 1..BlockSize :
        Filled(programData[k], l.data)[i] = IF i <= j THEN l.data[i] ELSE programData[k][i]
  BY <1>1, <1>6, FilledIsPrefix
<1>8. programData' = [programData EXCEPT ![k] = Filled(programData[k], l.data)]
      /\ securityData' = securityData
  BY <1>3 DEF StoreBlock
<1>9. \A b \in BlockIdx :
        FileImage'.blocks[b] = IF b < Len(Stored') THEN Stored'[b + 1].data ELSE ZeroData
  BY DEF FileImage
<1>10. ASSUME NEW b \in BlockIdx, NEW i \in 1..BlockSize
       PROVE  programData'[b][i] = IF b < k \/ (b = k /\ i <= j)
                                   THEN FileImage'.blocks[b][i] ELSE seen[b][i]
  <2>1. CASE b = k
    <3>1. programData'[b] = Filled(programData[k], l.data)
      BY <1>1, <1>4, <1>8, <2>1 DEF Image
    <3>2. FileImage'.blocks[b] = l.data /\ ~(b < k)
      BY <1>0, <1>2, <1>4, <1>9, <2>1
    <3> QED
      BY <1>6, <1>7, <2>1, <3>1, <3>2
  <2>2. CASE b # k
    <3>1. programData'[b] = programData[b]
      BY <1>1, <1>4, <1>8, <2>2 DEF Image
    <3>2. b < k => FileImage'.blocks[b] = Stored[b + 1].data
      BY <1>0, <1>2, <1>4, <1>9
    <3> QED
      BY <1>1, <1>4, <1>5, <2>2, <3>1, <3>2
  <2> QED
    BY <2>1, <2>2
<1>11. securityData' = seenSecurity /\ ~(NumBlocks < k) /\ NumBlocks # k
  BY <1>0, <1>1, <1>2, <1>4, <1>5, <1>8
<1>12. FirstBytes(FileImage', k, j, seen, seenSecurity, programData', securityData')
  BY <1>10, <1>11 DEF FirstBytes
<1>13. ~dataLoaded' /\ loading' = FALSE /\ k # NumBlocks + 1
  BY <1>0, <1>4 DEF Refused
<1> QED
  BY <1>4, <1>5, <1>12, <1>13, OpenStep

\* Every step of the loader is one of the window's fileOpen, or one it does not see.
LEMMA LoadStep ==
  ASSUME LoadInv, LoadInv', [HexNext]_loaderVars
  PROVE  [\E picture \in {FileImage'} : \E n \in 0..((NumBlocks + 1) * BlockSize) :
            Window!fileOpen(picture, n, dataLoaded')]_(Window!hostVars)
<1> DEFINE Opens == \E picture \in {FileImage'} : \E n \in 0..((NumBlocks + 1) * BlockSize) :
                      Window!fileOpen(picture, n, dataLoaded')
           Unseen == UNCHANGED <<seen, seenSecurity, dataLoaded>>
<1>1. SUFFICES Opens \/ Unseen
  BY DEF Window!hostVars, seen, seenSecurity
<1>2. HexTypeOK /\ HexTypeOK' /\ programData' \in Image /\ securityData' \in Block
  BY DEF LoadInv, HexTypeOK
<1>3. CASE BeginLoad
  BY <1>3 DEF BeginLoad, image, seen, seenSecurity
<1>4. CASE NoSuchFile
  <2>1. /\ seen = programData /\ seenSecurity = securityData /\ loading' = FALSE
        /\ programData' = seen /\ securityData' = seenSecurity /\ ~dataLoaded'
    BY <1>4, <1>2 DEF NoSuchFile, seen, seenSecurity, HexTypeOK
  <2>2. NumBlocks \in Nat /\ BlockSize \in Nat /\ NumBlocks # 0
        /\ \A b \in BlockIdx : ~(b < 0)
    BY ProtocolAssumption DEF ProtocolAssumption, BlockIdx
  <2>3. FirstBytes(FileImage', 0, 0, seen, seenSecurity, programData', securityData')
    BY <2>1, <2>2 DEF FirstBytes
  <2>4. /\ 0 \in 0..(NumBlocks + 1) /\ 0 \in 0..BlockSize
        /\ 0 = NumBlocks + 1 => 0 = 0
        /\ dataLoaded' => 0 = 0
        /\ seen \in Image /\ seenSecurity \in Block
    BY <1>2, <2>1, <2>2
  <2>5. Opens
    BY <1>2, <2>1, <2>3, <2>4, OpenStep
  <2> QED
    BY <2>5
<1>5. CASE ReadLine
  <2>1. PICK l \in Lines : hexDataProcess(l) /\ file' = Append(file, l)
    BY <1>5 DEF ReadLine
  <2>2. loading /\ before' = before /\ ImageIsOfFile
    BY <1>5 DEF ReadLine, LoadInv
  <2>3. \/ Refused /\ (NothingToStore \/ Stores(l))
        \/ Accepted(l) /\ Stores(l)
    BY <2>1, LineCases
  <2>4. CASE Accepted(l)
    BY <2>2, <2>4 DEF Accepted, seen, seenSecurity
  <2>5. CASE Refused /\ IsBlock(l) /\ StoreBlock(l)
    BY <1>2, <2>1, <2>2, <2>5, BrokenOpen
  <2>6. CASE Refused /\ (NothingToStore \/ (Stores(l) /\ ~(IsBlock(l) /\ StoreBlock(l))))
    <3>1. /\ Len(Stored) \in Nat
          /\ IsData(l) => /\ Len(Stored') = Len(Stored) + 1
                          /\ \A i \in 1..Len(Stored) : Stored'[i] = Stored[i]
          /\ ~IsData(l) => Stored' = Stored
      BY <1>2, <2>1, StoredGrows
    <3>2. /\ Len(Stored') \in Nat /\ Len(Stored) <= Len(Stored')
          /\ \A i \in 1..Len(Stored) : Stored'[i] = Stored[i]
      BY <3>1
    <3>3. programData' = programData
          /\ (securityData' = securityData \/ (IsSecurity(l) /\ blockCounter = NumBlocks))
      BY <2>6 DEF Stores, StoreSecurity, AcquireSecurityAddr, AcquireChecksumAddr,
                  NothingToStore, IsSecurity
    <3>4. securityData' = securityData \/ Len(Stored) >= NumBlocks
      <4>1. ASSUME blockCounter = NumBlocks PROVE Len(Stored) >= NumBlocks
        <5>1. Len(Stored) <= NumBlocks => blockCounter = Len(Stored)
          BY <2>2 DEF LoadInv, Counted, Unrefused
        <5>2. NumBlocks \in Nat
          BY ProtocolAssumption DEF ProtocolAssumption
        <5> QED
          BY <3>1, <4>1, <5>1, <5>2
      <4> QED
        BY <3>3, <4>1
    <3>5. loading' = FALSE
      BY <2>6 DEF Refused
    <3>6. Opens
      BY <1>2, <2>2, <3>1, <3>2, <3>3, <3>4, <3>5, WholeOpen
    <3> QED
      BY <3>6
  <2> QED
    BY <2>3, <2>4, <2>5, <2>6
<1>6. CASE AtEnd
  <2>1. /\ loading /\ loading' = FALSE /\ programData' = programData
        /\ securityData' = securityData /\ file' = file /\ ImageIsOfFile
    BY <1>6 DEF AtEnd, LoadInv
  <2>2. Stored' = Stored /\ Len(Stored) \in Nat
    <3>1. file \in Seq(Lines)
      BY <1>2 DEF HexTypeOK
    <3>2. Stored \in Seq(Lines)
      BY <3>1, RecordsType DEF Stored
    <3> QED
      BY <2>1, <3>2 DEF Stored
  <2>3. /\ securityData' = securityData \/ Len(Stored) >= NumBlocks
        /\ Len(Stored') \in Nat /\ Len(Stored) <= Len(Stored')
        /\ \A i \in 1..Len(Stored) : Stored'[i] = Stored[i]
    BY <2>1, <2>2
  <2>4. Opens
    BY <1>2, <2>1, <2>2, <2>3, WholeOpen
  <2> QED
    BY <2>4
<1>7. CASE UNCHANGED loaderVars
  BY <1>7 DEF loaderVars, seen, seenSecurity
<1> QED
  BY <1>3, <1>4, <1>5, <1>6, <1>7 DEF HexNext

\* The flashing sequence may be reasoned about with a file opened in one step: load() and
\* hexDataProcess leave the image fileOpen allows, whichever line they stop at.
THEOREM LoadImplementsOpen == HexSpec => LoadIsOpen
<1>1. LoadInv /\ LoadInv' /\ [HexNext]_loaderVars =>
        [\E picture \in {FileImage'} : \E n \in 0..((NumBlocks + 1) * BlockSize) :
           Window!fileOpen(picture, n, dataLoaded')]_(Window!hostVars)
  BY LoadStep
<1> QED
  BY <1>1, LoaderInvariant, PTL DEF HexSpec, LoadIsOpen

-----------------------------------------------------------------------------
(***************************************************************************)
(* The sum of a line.  What hexDataProcess adds up while it parses is the  *)
(* sum of all bytes but the last, so a line whose bytes sum to zero passes *)
(* its test.                                                               *)
(***************************************************************************)
\* g holds the running sums of the first n numbers of f.
Adds(g, f, n) ==
  /\ g \in [0..n -> Nat]
  /\ \A i \in 0..n : g[i] = IF i = 0 THEN 0 ELSE g[i - 1] + f[i]

\* Finitely many bytes have a running sum.
LEMMA AddsExists ==
  ASSUME NEW n \in Nat, NEW f, \A i \in 1..n : f[i] \in Nat
  PROVE  \E g : Adds(g, f, n)
<1> DEFINE T == {k \in 0..n : ~ \E g : Adds(g, f, k)}
<1>1. SUFFICES ASSUME n \in T PROVE FALSE
  OBVIOUS
<1>2. PICK m \in T : \A k \in T : m <= k
  <2>1. T \subseteq Nat
    OBVIOUS
  <2> QED
    BY <1>1, <2>1, LeastNatural
<1>3. CASE m = 0
  <2> DEFINE z == [i \in 0..0 |-> 0]
  <2>1. Adds(z, f, 0)
    BY DEF Adds
  <2> QED
    BY <1>2, <1>3, <2>1
<1>4. CASE m # 0
  <2>1. m \in 1..n /\ m - 1 \in 0..n /\ m - 1 \notin T /\ f[m] \in Nat
    BY <1>2, <1>4
  <2>2. PICK g : Adds(g, f, m - 1)
    BY <2>1
  <2> DEFINE h == [i \in 0..m |-> IF i < m THEN g[i] ELSE g[m - 1] + f[m]]
  <2>3. \A i \in 0..(m - 1) : g[i] \in Nat
    BY <2>2 DEF Adds
  <2>4. h \in [0..m -> Nat]
    BY <2>1, <2>3
  <2>5. ASSUME NEW i \in 0..m
        PROVE  h[i] = IF i = 0 THEN 0 ELSE h[i - 1] + f[i]
    <3>1. CASE i = m
      <4>1. h[i] = g[m - 1] + f[m] /\ h[i - 1] = g[m - 1] /\ i # 0
        BY <2>1, <3>1
      <4> QED
        BY <3>1, <4>1
    <3>2. CASE i # m
      <4>1. i \in 0..(m - 1) /\ i < m /\ i - 1 < m
        BY <2>1, <3>2
      <4>2. g[i] = IF i = 0 THEN 0 ELSE g[i - 1] + f[i]
        BY <2>2, <4>1 DEF Adds
      <4>3. h[i] = g[i] /\ (i # 0 => h[i - 1] = g[i - 1])
        BY <2>1, <4>1
      <4> QED
        BY <4>2, <4>3
    <3> QED
      BY <3>1, <3>2
  <2>6. Adds(h, f, m)
    BY <2>4, <2>5 DEF Adds
  <2> QED
    BY <1>2, <2>6
<1> QED
  BY <1>3, <1>4

\* Where n numbers stand d places further on, their running sums are ahead by the same.
LEMMA AddsShifted ==
  ASSUME NEW d \in Nat, NEW n \in Nat, NEW N \in Nat, d + n <= N, NEW f, NEW e, NEW g, NEW h,
         Adds(g, f, n), Adds(h, e, N), \A i \in 1..n : e[d + i] = f[i] /\ f[i] \in Nat
  PROVE  h[d + n] = h[d] + g[n]
<1> DEFINE T == {k \in 0..n : h[d + k] # h[d] + g[k]}
<1>1. SUFFICES ASSUME n \in T PROVE FALSE
  OBVIOUS
<1>2. PICK m \in T : \A k \in T : m <= k
  <2>1. T \subseteq Nat
    OBVIOUS
  <2> QED
    BY <1>1, <2>1, LeastNatural
<1>3. m # 0
  <2>1. h[d] \in Nat /\ g[0] = 0
    BY DEF Adds
  <2> QED
    BY <2>1
<1>4. m \in 1..n /\ m - 1 \in 0..n /\ m - 1 \notin T /\ d + m \in 0..N /\ d + m # 0
      /\ d + m - 1 \in 0..N
  BY <1>2, <1>3
<1>5. h[d + (m - 1)] = h[d] + g[m - 1]
  BY <1>4
<1>6. h[d + m] = h[d + m - 1] + e[d + m] /\ g[m] = g[m - 1] + f[m] /\ e[d + m] = f[m]
  BY <1>3, <1>4 DEF Adds
<1>7. h[d] \in Nat /\ g[m - 1] \in Nat /\ f[m] \in Nat /\ d + (m - 1) = d + m - 1
  BY <1>4 DEF Adds
<1>8. h[d + m] = h[d] + g[m]
  BY <1>5, <1>6, <1>7
<1> QED
  BY <1>8

\* The recursive definition adds up like that.
LEMMA TotalAdds ==
  ASSUME NEW f, Len(f) \in Nat, \A i \in 1..Len(f) : f[i] \in Nat
  PROVE  \E g : Adds(g, f, Len(f)) /\ Total(f) = g[Len(f)]
<1> DEFINE Body(g, i) == IF i = 0 THEN 0 ELSE g[i - 1] + f[i]
           taken == CHOOSE t : t = [i \in 0..Len(f) |-> Body(t, i)]
<1>1. PICK g : Adds(g, f, Len(f))
  BY AddsExists
<1>2. g = [i \in 0..Len(f) |-> Body(g, i)]
  BY <1>1 DEF Adds
<1>3. taken = [i \in 0..Len(f) |-> Body(taken, i)]
  <2> HIDE DEF Body
  <2> QED
    BY <1>2
<1>4. Total(f) = taken[Len(f)]
  BY DEF Total
<1>5. \A i \in 0..Len(f) : g[i] = Body(g, i) /\ taken[i] = Body(taken, i)
  <2> HIDE DEF Body, taken
  <2> QED
    BY <1>2, <1>3
<1> HIDE DEF taken
<1>6. taken[Len(f)] = g[Len(f)]
  <2> DEFINE T == {k \in 0..Len(f) : taken[k] # g[k]}
  <2>1. SUFFICES ASSUME Len(f) \in T PROVE FALSE
    BY DEF T
  <2>2. PICK m \in T : \A k \in T : m <= k
    <3>1. T \subseteq Nat
      OBVIOUS
    <3> QED
      BY <2>1, <3>1, LeastNatural
  <2>3. m # 0
    BY <1>5
  <2>4. m \in 0..Len(f) /\ m - 1 \in 0..Len(f) /\ m - 1 \notin T
    BY <2>2, <2>3
  <2>5. taken[m - 1] = g[m - 1]
    BY <2>4
  <2> QED
    BY <1>5, <2>3, <2>4, <2>5
<1> QED
  BY <1>1, <1>4, <1>6

\* A byte is a natural number.
LEMMA ByteNat == \A v \in Byte : v \in Nat
BY DEF Byte

\* A line can be added up.
LEMMA LineTotal ==
  ASSUME NEW a \in Byte, NEW b \in Byte, NEW c \in Byte, NEW d \in Byte,
         NEW data \in Seq(Byte), NEW z \in Byte
  PROVE  /\ Total(data) \in Nat
         /\ Total(<<a, b, c, d>> \o data \o <<z>>) = a + b + c + d + Total(data) + z
<1>1. PICK n, N, head, e :
        n = Len(data) /\ N = n + 5 /\ head = <<a, b, c, d>> /\ e = head \o data \o <<z>>
  OBVIOUS
<1>2. head \in Seq(Byte) /\ Len(head) = 4 /\ head[1] = a /\ head[2] = b /\ head[3] = c
      /\ head[4] = d /\ <<z>> \in Seq(Byte) /\ Len(<<z>>) = 1 /\ n \in Nat /\ N \in Nat
  BY <1>1
<1>3. PICK r : r = head \o data
  OBVIOUS
<1>4. /\ r \in Seq(Byte) /\ Len(r) = 4 + n
      /\ \A i \in 1..4 : r[i] = head[i]
      /\ \A i \in 1..n : r[4 + i] = data[i]
  <2>1. /\ Len(r) = Len(head) + Len(data) /\ r \in Seq(Byte)
        /\ \A i \in 1..(Len(head) + Len(data)) :
             r[i] = IF i <= Len(head) THEN head[i] ELSE data[i - Len(head)]
    BY <1>2, <1>3, ConcatProperties
  <2>2. \A i \in 1..(4 + n) : r[i] = IF i <= 4 THEN head[i] ELSE data[i - 4]
    BY <1>1, <1>2, <2>1
  <2>3. ASSUME NEW i \in 1..n PROVE r[4 + i] = data[i]
    <3>1. 4 + i \in 1..(4 + n) /\ ~(4 + i <= 4) /\ (4 + i) - 4 = i
      BY <1>2
    <3> QED
      BY <2>2, <3>1
  <2> QED
    BY <1>1, <1>2, <2>1, <2>2, <2>3
<1>5. /\ e \in Seq(Byte) /\ Len(e) = N /\ e[N] = z
      /\ \A i \in 1..(4 + n) : e[i] = r[i]
  <2>1. e = r \o <<z>>
    BY <1>1, <1>3
  <2>2. /\ Len(e) = Len(r) + Len(<<z>>) /\ e \in Seq(Byte)
        /\ \A i \in 1..(Len(r) + Len(<<z>>)) :
             e[i] = IF i <= Len(r) THEN r[i] ELSE <<z>>[i - Len(r)]
    BY <1>2, <1>4, <2>1, ConcatProperties
  <2> QED
    BY <1>1, <1>2, <1>4, <2>2
<1>6. \A i \in 1..N : e[i] \in Nat
  <2>1. \A i \in 1..N : e[i] \in Byte
    BY <1>5
  <2> QED
    BY <2>1, ByteNat
<1>7. \A i \in 1..n : data[i] \in Nat
  <2>1. \A i \in 1..n : data[i] \in Byte
    BY <1>1
  <2> QED
    BY <2>1, ByteNat
<1>8. PICK g : Adds(g, data, n) /\ Total(data) = g[n]
  BY <1>1, <1>2, <1>7, TotalAdds
<1>9. PICK h : Adds(h, e, N) /\ Total(e) = h[N]
  BY <1>2, <1>5, <1>6, TotalAdds
<1>10. e[1] = a /\ e[2] = b /\ e[3] = c /\ e[4] = d /\ \A i \in 1..n : e[4 + i] = data[i]
  <2>1. \A i \in 1..n : 4 + i \in 1..(4 + n)
    BY <1>2
  <2> QED
    BY <1>2, <1>4, <1>5, <2>1
<1>11. h[4] = a + b + c + d
  <2>1. \A i \in 0..N : h[i] = IF i = 0 THEN 0 ELSE h[i - 1] + e[i]
    BY <1>9 DEF Adds
  <2>2. h[0] = 0 /\ h[1] = h[0] + e[1] /\ h[2] = h[1] + e[2] /\ h[3] = h[2] + e[3]
        /\ h[4] = h[3] + e[4]
    BY <1>1, <1>2, <2>1
  <2> QED
    BY <1>10, <2>2 DEF Byte
<1>12. h[4 + n] = h[4] + g[n]
  <2>1. 4 \in Nat /\ n \in Nat /\ N \in Nat /\ 4 + n <= N
    BY <1>1, <1>2
  <2>2. \A i \in 1..n : e[4 + i] = data[i] /\ data[i] \in Nat
    BY <1>7, <1>10
  <2> QED
    BY <1>8, <1>9, <2>1, <2>2, AddsShifted
<1>13. h[N] = h[4 + n] + z
  <2>1. N \in 0..N /\ N # 0 /\ N - 1 = 4 + n
    BY <1>1, <1>2
  <2> QED
    BY <1>5, <1>9, <2>1 DEF Adds
<1>14. g[n] \in Nat
  BY <1>2, <1>8 DEF Adds
<1> QED
  BY <1>1, <1>8, <1>9, <1>11, <1>12, <1>13, <1>14 DEF Byte

\* The bytes of an address, and the byte that completes a sum to zero.
LEMMA WordBytes ==
  ASSUME NEW w \in Word
  PROVE  w \div 256 \in Byte /\ w % 256 \in Byte
<1>1. w \in Nat /\ w <= 65535
  BY SMTT(30) DEF Word
<1>2. w \div 256 \in Int /\ w \div 256 >= 0
  BY <1>1
<1>3. w \div 256 <= 255
  BY <1>1
<1>4. w % 256 \in 0..255
  BY <1>1
<1> QED
  BY <1>2, <1>3, <1>4 DEF Byte

\* The checksum byte of a line is the one that makes its bytes add up to 0 modulo 256.
LEMMA CheckByte ==
  ASSUME NEW s \in Nat, NEW z \in Byte, (s + z) % 256 = 0
  PROVE  z = (256 - (s % 256)) % 256
BY DEF Byte

\* A complete line passes the test at its end.
LEMMA CompletePasses ==
  ASSUME NEW l \in Lines, Complete(l)
  PROVE  Readable(l.data) /\ l.check # Unreadable /\ l.check = (256 - LineSum(l)) % 256
<1>1. /\ l.size \in Byte /\ l.type \in Byte /\ l.check \in Byte /\ l.addr \in Word
      /\ l.data \in Seq(Byte \cup {Unreadable}) /\ Readable(l.data) /\ l.check # Unreadable
  BY LoaderAssumption DEF LoaderAssumption, Complete, ReadableHeader
<1>2. l.data \in Seq(Byte)
  <2>1. PICK bytes : bytes = l.data
    OBVIOUS
  <2>2. \A i \in 1..Len(bytes) : bytes[i] \in Byte
    BY <1>1, <2>1 DEF Readable
  <2> QED
    BY <1>1, <2>1, <2>2
<1>3. l.addr \div 256 \in Byte /\ l.addr % 256 \in Byte
  BY <1>1, WordBytes
<1>4. /\ Total(l.data) \in Nat
      /\ Total(BytesOf(l)) = l.size + (l.addr \div 256) + (l.addr % 256) + l.type
                               + Total(l.data) + l.check
  BY <1>1, <1>2, <1>3, LineTotal DEF BytesOf
<1>5. Total(BytesOf(l)) % 256 = 0
  BY DEF Complete
<1>6. /\ l.size \in Nat /\ l.type \in Nat /\ l.addr \div 256 \in Nat /\ l.addr % 256 \in Nat
      /\ l.check \in Nat
  BY <1>1, <1>3, ByteNat
<1>7. PICK s : s = l.size + l.type + (l.addr % 256) + (l.addr \div 256) + Total(l.data)
  OBVIOUS
<1>8. s \in Nat /\ s + l.check = Total(BytesOf(l))
  BY <1>4, <1>6, <1>7
<1>9. LineSum(l) = s % 256
  BY <1>7 DEF LineSum
<1>10. l.check = (256 - (s % 256)) % 256
  BY <1>1, <1>5, <1>8, CheckByte
<1> QED
  BY <1>1, <1>9, <1>10

-----------------------------------------------------------------------------
(***************************************************************************)
(* A file in the form of the chip's tools.  While one is read, the counter *)
(* and the flags are at the place of its last line, so the next line is    *)
(* the one they ask for.                                                   *)
(***************************************************************************)
InPlace ==
  loading /\ InForm(file) =>
    /\ blockCounter = IF Len(file) <= NumBlocks THEN Len(file) ELSE NumBlocks
    /\ securityAddrAcquired <=> Len(file) > NumBlocks
    /\ checksumAddrAcquired <=> Len(file) > NumBlocks + 2

\* The form of a complete file, record by record.
LEMMA FormParts ==
  /\ Len(Form) = NumBlocks + 5
  /\ \A i \in 1..NumBlocks : Form[i] = <<BlockSize, 0>>
  /\ Form[NumBlocks + 1] = <<2, 4>> /\ Form[NumBlocks + 2] = <<BlockSize, 0>>
  /\ Form[NumBlocks + 3] = <<2, 4>> /\ Form[NumBlocks + 4] = <<2, 0>>
  /\ Form[NumBlocks + 5] = <<0, 1>>
<1>1. PICK blocks, rest :
        /\ blocks = [i \in 1..NumBlocks |-> <<BlockSize, 0>>]
        /\ rest = << <<2, 4>>, <<BlockSize, 0>>, <<2, 4>>, <<2, 0>>, <<0, 1>> >>
  OBVIOUS
<1>2. NumBlocks \in Nat /\ BlockSize \in Nat
  BY ProtocolAssumption DEF ProtocolAssumption
<1>3. blocks \in Seq(Nat \X Nat) /\ Len(blocks) = NumBlocks
  BY <1>1, <1>2
<1>4. /\ rest \in Seq(Nat \X Nat) /\ Len(rest) = 5
      /\ rest[1] = <<2, 4>> /\ rest[2] = <<BlockSize, 0>> /\ rest[3] = <<2, 4>>
      /\ rest[4] = <<2, 0>> /\ rest[5] = <<0, 1>>
  BY <1>1, <1>2
<1>5. PICK all : all = blocks \o rest
  OBVIOUS
<1>6. /\ Len(all) = NumBlocks + 5
      /\ \A i \in 1..(NumBlocks + 5) :
           all[i] = IF i <= NumBlocks THEN blocks[i] ELSE rest[i - NumBlocks]
  <2>1. /\ Len(all) = Len(blocks) + Len(rest)
        /\ \A i \in 1..(Len(blocks) + Len(rest)) :
             all[i] = IF i <= Len(blocks) THEN blocks[i] ELSE rest[i - Len(blocks)]
    BY <1>3, <1>4, <1>5, ConcatProperties
  <2> QED
    BY <1>3, <1>4, <2>1
<1>7. \A i \in 1..NumBlocks : all[i] = <<BlockSize, 0>>
  BY <1>1, <1>2, <1>6
<1>8. \A k \in 1..5 : all[NumBlocks + k] = rest[k]
  <2> SUFFICES ASSUME NEW k \in 1..5 PROVE all[NumBlocks + k] = rest[k]
    OBVIOUS
  <2>1. PICK i : i = NumBlocks + k
    OBVIOUS
  <2>2. i \in 1..(NumBlocks + 5) /\ ~(i <= NumBlocks) /\ i - NumBlocks = k
    BY <1>2, <2>1
  <2>3. all[i] = rest[k]
    BY <1>6, <2>2
  <2> QED
    BY <2>1, <2>3
<1>9. Form = all
  BY <1>1, <1>5 DEF Form
<1> QED
  BY <1>4, <1>6, <1>7, <1>8, <1>9

\* A file in form, less its last line, is in form, and that line is the one of its place.
LEMMA FormGrows ==
  ASSUME NEW f \in Seq(Lines), NEW l \in Lines, InForm(Append(f, l))
  PROVE  /\ InForm(f) /\ Complete(l) /\ Len(f) \in Nat /\ Len(f) + 1 <= NumBlocks + 5
         /\ Record(l, Form[Len(f) + 1][1], Form[Len(f) + 1][2])
<1>1. PICK e : e = Append(f, l)
  OBVIOUS
<1>2. /\ e \in Seq(Lines) /\ Len(e) = Len(f) + 1 /\ e[Len(f) + 1] = l
      /\ \A i \in 1..Len(f) : e[i] = f[i]
  BY <1>1, AppendProperties
<1>3. Len(f) \in Nat /\ DOMAIN e = 1..(Len(f) + 1) /\ DOMAIN f = 1..Len(f)
  BY <1>2
<1>4. Len(e) <= Len(Form) /\ \A i \in DOMAIN e : Record(e[i], Form[i][1], Form[i][2]) /\ Complete(e[i])
  BY <1>1 DEF InForm
<1>5. Len(f) + 1 <= NumBlocks + 5 /\ Len(f) <= Len(Form)
  <2>1. NumBlocks + 5 \in Nat
    BY ProtocolAssumption DEF ProtocolAssumption
  <2> QED
    BY <1>2, <1>3, <1>4, <2>1, FormParts
<1>6. \A i \in DOMAIN f : Record(f[i], Form[i][1], Form[i][2]) /\ Complete(f[i])
  <2>1. \A i \in DOMAIN f : i \in DOMAIN e
    BY <1>3
  <2> QED
    BY <1>2, <1>3, <1>4, <2>1
<1>7. Len(f) + 1 \in DOMAIN e
  BY <1>3
<1> QED
  BY <1>2, <1>3, <1>4, <1>5, <1>6, <1>7 DEF InForm

\* A complete line of a kind that is looked for is taken.
LEMMA WantedIsTaken ==
  ASSUME NEW l \in Lines, Complete(l), hexDataProcess(l),
         \/ IsBlock(l) \/ IsSecurity(l) \/ IsSecurityAddr(l)
         \/ IsChecksumAddr(l) \/ IsChecksum(l) \/ IsEnd(l)
  PROVE  UNCHANGED <<loading, dataLoaded>> /\ Stores(l) /\ Readable(l.data)
<1>1. Readable(l.data) /\ l.check # Unreadable /\ l.check = (256 - LineSum(l)) % 256
  BY CompletePasses
<1>2. ReadableHeader(l)
  BY DEF Complete
<1> QED
  BY <1>1, <1>2 DEF hexDataProcess, Judge, Stores

\* The next line of a file in form is taken, and moves the place by one.
LEMMA NextInForm ==
  ASSUME HexTypeOK, InPlace, loading, NEW l \in Lines, hexDataProcess(l),
         file' = Append(file, l), InForm(file')
  PROVE  loading' /\ InPlace'
<1>0. NumBlocks \in Nat /\ BlockSize \in Nat \ {0, 2} /\ file \in Seq(Lines)
  BY ProtocolAssumption, LoaderAssumption
     DEF ProtocolAssumption, LoaderAssumption, HexTypeOK
<1>1. /\ InForm(file) /\ Complete(l) /\ Len(file) \in Nat /\ Len(file) + 1 <= NumBlocks + 5
      /\ Record(l, Form[Len(file) + 1][1], Form[Len(file) + 1][2])
  BY <1>0, FormGrows
<1>2. PICK n : n = Len(file)
  OBVIOUS
<1>3. Len(file') = n + 1 /\ n \in Nat
  BY <1>0, <1>1, <1>2, AppendProperties
<1>4. /\ blockCounter = IF n <= NumBlocks THEN n ELSE NumBlocks
      /\ securityAddrAcquired <=> n > NumBlocks
      /\ checksumAddrAcquired <=> n > NumBlocks + 2
  BY <1>1, <1>2 DEF InPlace
<1> DEFINE Moved ==
      /\ blockCounter' = IF n + 1 <= NumBlocks THEN n + 1 ELSE NumBlocks
      /\ securityAddrAcquired' <=> n + 1 > NumBlocks
      /\ checksumAddrAcquired' <=> n + 1 > NumBlocks + 2
<1>5. SUFFICES loading' /\ Moved
  BY <1>3 DEF InPlace
<1>6. CASE n < NumBlocks
  <2>1. n + 1 \in 1..NumBlocks
    BY <1>0, <1>3, <1>6
  <2>2. Record(l, BlockSize, 0)
    BY <1>1, <1>2, <2>1, FormParts
  <2>3. blockCounter = n /\ ~securityAddrAcquired /\ ~checksumAddrAcquired
    BY <1>0, <1>3, <1>4, <1>6
  <2>4. IsBlock(l) /\ ~IsSecurity(l) /\ ~IsSecurityAddr(l) /\ ~IsChecksumAddr(l)
        /\ ~IsChecksum(l) /\ ~IsEnd(l)
    BY <1>0, <1>3, <1>6, <2>2, <2>3
       DEF IsBlock, IsSecurity, IsSecurityAddr, IsChecksumAddr, IsChecksum, IsEnd, Record
  <2>5. UNCHANGED <<loading, dataLoaded>> /\ StoreBlock(l) /\ Readable(l.data)
    BY <1>1, <2>4, WantedIsTaken DEF Stores
  <2>6. blockCounter' = n + 1 /\ ~securityAddrAcquired' /\ ~checksumAddrAcquired'
    BY <2>3, <2>5 DEF StoreBlock
  <2> QED
    BY <1>0, <1>3, <1>6, <2>5, <2>6
<1>7. CASE n = NumBlocks
  <2>1. Record(l, 2, 4)
    BY <1>1, <1>2, <1>7, FormParts
  <2>2. blockCounter = NumBlocks /\ ~securityAddrAcquired /\ ~checksumAddrAcquired
    BY <1>0, <1>4, <1>7
  <2>3. IsSecurityAddr(l) /\ ~IsBlock(l) /\ ~IsSecurity(l) /\ ~IsChecksumAddr(l)
        /\ ~IsChecksum(l) /\ ~IsEnd(l)
    BY <1>0, <2>1, <2>2
       DEF IsBlock, IsSecurity, IsSecurityAddr, IsChecksumAddr, IsChecksum, IsEnd, Record
  <2>4. UNCHANGED <<loading, dataLoaded>> /\ AcquireSecurityAddr(l) /\ Readable(l.data)
    BY <1>1, <2>3, WantedIsTaken DEF Stores
  <2>5. blockCounter' = NumBlocks /\ securityAddrAcquired' /\ ~checksumAddrAcquired'
    BY <2>2, <2>4 DEF AcquireSecurityAddr
  <2> QED
    BY <1>0, <1>7, <2>4, <2>5
<1>8. CASE n = NumBlocks + 1
  <2>1. Record(l, BlockSize, 0)
    <3>1. n + 1 = NumBlocks + 2
      BY <1>0, <1>8
    <3> QED
      BY <1>1, <1>2, <3>1, FormParts
  <2>2. blockCounter = NumBlocks /\ securityAddrAcquired /\ ~checksumAddrAcquired
    BY <1>0, <1>4, <1>8
  <2>3. IsSecurity(l) /\ ~IsBlock(l) /\ ~IsSecurityAddr(l) /\ ~IsChecksumAddr(l)
        /\ ~IsChecksum(l) /\ ~IsEnd(l)
    BY <1>0, <2>1, <2>2
       DEF IsBlock, IsSecurity, IsSecurityAddr, IsChecksumAddr, IsChecksum, IsEnd, Record
  <2>4. UNCHANGED <<loading, dataLoaded>> /\ StoreSecurity(l)
    BY <1>1, <2>3, WantedIsTaken DEF Stores
  <2>5. blockCounter' = NumBlocks /\ securityAddrAcquired' /\ ~checksumAddrAcquired'
    BY <2>2, <2>4 DEF StoreSecurity, found
  <2> QED
    BY <1>0, <1>8, <2>4, <2>5
<1>9. CASE n = NumBlocks + 2
  <2>1. Record(l, 2, 4)
    <3>1. n + 1 = NumBlocks + 3
      BY <1>0, <1>9
    <3> QED
      BY <1>1, <1>2, <3>1, FormParts
  <2>2. blockCounter = NumBlocks /\ securityAddrAcquired /\ ~checksumAddrAcquired
    BY <1>0, <1>4, <1>9
  <2>3. IsChecksumAddr(l) /\ ~IsBlock(l) /\ ~IsSecurityAddr(l) /\ ~IsSecurity(l)
        /\ ~IsChecksum(l) /\ ~IsEnd(l)
    BY <1>0, <2>1, <2>2
       DEF IsBlock, IsSecurity, IsSecurityAddr, IsChecksumAddr, IsChecksum, IsEnd, Record
  <2>4. UNCHANGED <<loading, dataLoaded>> /\ AcquireChecksumAddr(l) /\ Readable(l.data)
    BY <1>1, <2>3, WantedIsTaken DEF Stores
  <2>5. blockCounter' = NumBlocks /\ securityAddrAcquired' /\ checksumAddrAcquired'
    BY <2>2, <2>4 DEF AcquireChecksumAddr
  <2> QED
    BY <1>0, <1>9, <2>4, <2>5
<1>10. CASE n = NumBlocks + 3 \/ n = NumBlocks + 4
  <2>1. Record(l, 2, 0) \/ Record(l, 0, 1)
    <3>1. n + 1 = NumBlocks + 4 \/ n + 1 = NumBlocks + 5
      BY <1>0, <1>10
    <3> QED
      BY <1>1, <1>2, <3>1, FormParts
  <2>2. blockCounter = NumBlocks /\ securityAddrAcquired /\ checksumAddrAcquired
    BY <1>0, <1>4, <1>10
  <2>3. (IsChecksum(l) \/ IsEnd(l)) /\ ~IsBlock(l) /\ ~IsSecurityAddr(l) /\ ~IsSecurity(l)
        /\ ~IsChecksumAddr(l)
    BY <2>1, <2>2
       DEF IsBlock, IsSecurity, IsSecurityAddr, IsChecksumAddr, IsChecksum, IsEnd, Record
  <2>4. UNCHANGED <<loading, dataLoaded>> /\ NothingToStore
    BY <1>1, <2>3, WantedIsTaken DEF Stores
  <2>5. blockCounter' = NumBlocks /\ securityAddrAcquired' /\ checksumAddrAcquired'
    BY <2>2, <2>4 DEF NothingToStore, found
  <2> QED
    BY <1>0, <1>10, <2>4, <2>5
<1> QED
  BY <1>0, <1>1, <1>2, <1>3, <1>6, <1>7, <1>8, <1>9, <1>10

\* No step of the loader refuses a file in form.
LEMMA FormKept ==
  ASSUME LoadInv, InPlace, GoodFileAccepted, [HexNext]_loaderVars
  PROVE  InPlace' /\ GoodFileAccepted'
<1>0. NumBlocks \in Nat /\ HexTypeOK
  BY ProtocolAssumption DEF ProtocolAssumption, LoadInv
<1>1. CASE BeginLoad
  <2>1. /\ loading' /\ file' = <<>> /\ blockCounter' = 0 /\ Len(file') = 0
        /\ ~securityAddrAcquired' /\ ~checksumAddrAcquired'
    BY <1>1 DEF BeginLoad
  <2> QED
    BY <1>0, <2>1 DEF InPlace, GoodFileAccepted
<1>2. CASE NoSuchFile
  BY <1>2 DEF NoSuchFile, InPlace, GoodFileAccepted
<1>3. CASE ReadLine
  <2>1. PICK l \in Lines : hexDataProcess(l) /\ file' = Append(file, l)
    BY <1>3 DEF ReadLine
  <2>2. loading
    BY <1>3 DEF ReadLine
  <2>3. CASE InForm(file')
    <3>1. loading' /\ InPlace'
      BY <1>0, <2>1, <2>2, <2>3, NextInForm
    <3> QED
      BY <3>1 DEF GoodFileAccepted, Unrefused
  <2>4. CASE ~InForm(file')
    BY <2>4 DEF InPlace, GoodFileAccepted
  <2> QED
    BY <2>3, <2>4
<1>4. CASE AtEnd
  BY <1>4 DEF AtEnd, InPlace, GoodFileAccepted, Unrefused
<1>5. CASE UNCHANGED loaderVars
  BY <1>5 DEF loaderVars, found, InPlace, GoodFileAccepted, Unrefused, InForm
<1> QED
  BY <1>1, <1>2, <1>3, <1>4, <1>5 DEF HexNext

\* A file in the form of the chip's tools is never refused, whatever was opened, read
\* half and refused before it: load() resets the counter and both flags, and the sums
\* hexDataProcess keeps are those of the line.
THEOREM GoodIsAccepted == HexSpec => []GoodFileAccepted
<1>1. HexInit => InPlace /\ GoodFileAccepted
  BY DEF HexInit, InPlace, GoodFileAccepted
<1>2. LoadInv /\ InPlace /\ GoodFileAccepted /\ [HexNext]_loaderVars =>
        InPlace' /\ GoodFileAccepted'
  BY FormKept
<1> QED
  BY <1>1, <1>2, LoaderInvariant, PTL DEF HexSpec
=============================================================================
