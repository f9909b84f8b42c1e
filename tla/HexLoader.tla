------------------------------ MODULE HexLoader ------------------------------
(***************************************************************************)
(* Loading an Intel hex file (mainwindow.cpp: fileOpen, load and           *)
(* hexDataProcess): a file is read line by line into the image in place,   *)
(* and refused at the first line that does not fit.  A line is what the    *)
(* reader finds in its places, each a number or unreadable: a line that is *)
(* too short has something unreadable, or by chance readable, there.       *)
(***************************************************************************)
EXTENDS Protocol, SequencesExt

CONSTANTS
  Unreadable,      \* the digits of a number are none
  Lines,           \* the lines the files of a model are made of
  MaxLines         \* bound: lines of a file

ASSUME LoaderAssumption ==
  /\ Unreadable \notin Byte
  /\ MaxLines \in Nat
  /\ \A l \in Lines :
        /\ {l.size, l.type, l.check} \subseteq Byte \cup {Unreadable}
        /\ l.addr \in Word \cup {Unreadable}
        /\ l.data \in Seq(Byte \cup {Unreadable})
        /\ l.size \in {0, 2, BlockSize} => Len(l.data) = l.size
  /\ BlockSize # 2

VARIABLES
  programData,
  securityData,
  dataLoaded,      \* m_fDataLoaded
  loading,         \* load() has the file open
  blockCounter,
  securityAddrAcquired,
  checksumAddrAcquired,
  file,            \* history: the lines read of the file opened last
  before           \* history: the image when that file was opened

image  == [blocks |-> programData, security |-> securityData]
found  == <<blockCounter, securityAddrAcquired, checksumAddrAcquired>>
loaderVars == <<programData, securityData, dataLoaded, loading, found, file, before>>

ZeroData == [i \in 1..BlockSize |-> 0]

HexTypeOK ==
  /\ programData \in Image /\ securityData \in Block
  /\ dataLoaded \in BOOLEAN /\ loading \in BOOLEAN
  /\ blockCounter \in 0..NumBlocks
  /\ securityAddrAcquired \in BOOLEAN /\ checksumAddrAcquired \in BOOLEAN
  /\ file \in Seq(Lines)
  /\ before \in [blocks : Image, security : Block]

HexInit ==
  /\ programData = [b \in BlockIdx |-> ZeroData]
  /\ securityData = ZeroData
  /\ dataLoaded = FALSE /\ loading = FALSE
  /\ blockCounter = 0
  /\ securityAddrAcquired = FALSE /\ checksumAddrAcquired = FALSE
  /\ file = <<>>
  /\ before = image

(***************************************************************************)
(* One line.  The eight-bit sum of its bytes is kept beside the parsing;   *)
(* the byte at its end completes the sum to zero.                          *)
(***************************************************************************)
Readable(bytes) == \A i \in DOMAIN bytes : bytes[i] # Unreadable

Total(bytes) ==
  LET sum[i \in 0..Len(bytes)] == IF i = 0 THEN 0 ELSE sum[i - 1] + bytes[i]
  IN  sum[Len(bytes)]

LineSum(l) ==
  (l.size + l.type + (l.addr % 256) + (l.addr \div 256) + Total(l.data)) % 256

\* The line is taken, or the file is refused at it.
Judge(l) ==
  IF Readable(l.data) /\ l.check # Unreadable /\ l.check = (256 - LineSum(l)) % 256
  THEN UNCHANGED <<loading, dataLoaded>>
  ELSE loading' = FALSE /\ dataLoaded' = FALSE

\* A buffer is filled byte by byte as far as the digits can be read.
Filled(old, bytes) ==
  [i \in 1..BlockSize |-> IF Readable(SubSeq(bytes, 1, i)) THEN bytes[i] ELSE old[i]]

Record(l, size, type) == l.size = size /\ l.type = type

IsBlock_Uncounted(l) ==
  Record(l, BlockSize, 0) /\ ~securityAddrAcquired /\ ~checksumAddrAcquired

IsBlock(l) ==
  /\ Record(l, BlockSize, 0) /\ blockCounter < NumBlocks
  /\ ~securityAddrAcquired /\ ~checksumAddrAcquired

IsSecurity(l) ==
  /\ Record(l, BlockSize, 0) /\ blockCounter = NumBlocks
  /\ securityAddrAcquired /\ ~checksumAddrAcquired

IsSecurityAddr(l) ==
  /\ Record(l, 2, 4) /\ blockCounter = NumBlocks
  /\ ~securityAddrAcquired /\ ~checksumAddrAcquired

IsChecksumAddr(l) ==
  /\ Record(l, 2, 4) /\ blockCounter = NumBlocks
  /\ securityAddrAcquired /\ ~checksumAddrAcquired

IsChecksum(l) ==
  /\ Record(l, 2, 0) /\ blockCounter = NumBlocks
  /\ securityAddrAcquired /\ checksumAddrAcquired

IsEnd_Anywhere(l) == Record(l, 0, 1)

IsEnd(l) ==
  /\ Record(l, 0, 1) /\ blockCounter = NumBlocks
  /\ securityAddrAcquired /\ checksumAddrAcquired

StoreBlock_Shifted(l) ==
  LET b == (blockCounter + 1) % NumBlocks
  IN  /\ programData' = [programData EXCEPT ![b] = Filled(@, l.data)]
      /\ blockCounter' = IF Readable(l.data) THEN blockCounter + 1 ELSE blockCounter
      /\ UNCHANGED <<securityData, securityAddrAcquired, checksumAddrAcquired>>

StoreBlock(l) ==
  /\ programData' = [programData EXCEPT ![blockCounter] = Filled(@, l.data)]
  /\ blockCounter' = IF Readable(l.data) THEN blockCounter + 1 ELSE blockCounter
  /\ UNCHANGED <<securityData, securityAddrAcquired, checksumAddrAcquired>>

StoreSecurity(l) ==
  /\ securityData' = Filled(securityData, l.data)
  /\ UNCHANGED <<programData, found>>

AcquireSecurityAddr(l) ==
  /\ securityAddrAcquired' = Readable(l.data)
  /\ UNCHANGED <<programData, securityData, blockCounter, checksumAddrAcquired>>

AcquireChecksumAddr(l) ==
  /\ checksumAddrAcquired' = Readable(l.data)
  /\ UNCHANGED <<programData, securityData, blockCounter, securityAddrAcquired>>

\* The checksum of the program is read and kept, and compared with nothing.
NothingToStore == UNCHANGED <<programData, securityData, found>>

ReadableHeader(l) ==
  l.start /\ l.size # Unreadable /\ l.addr # Unreadable /\ l.type # Unreadable

hexDataProcess(l) ==
  IF ReadableHeader(l) /\ (IsBlock(l) \/ IsSecurity(l) \/ IsSecurityAddr(l)
                             \/ IsChecksumAddr(l) \/ IsChecksum(l) \/ IsEnd(l))
  THEN /\ Judge(l)
       /\ \/ IsBlock(l) /\ StoreBlock(l)
          \/ IsSecurity(l) /\ StoreSecurity(l)
          \/ IsSecurityAddr(l) /\ AcquireSecurityAddr(l)
          \/ IsChecksumAddr(l) /\ AcquireChecksumAddr(l)
          \/ (IsChecksum(l) \/ IsEnd(l)) /\ NothingToStore
  ELSE loading' = FALSE /\ dataLoaded' = FALSE /\ NothingToStore

(***************************************************************************)
(* fileOpen and load.  The dialog may be left without a file: nothing      *)
(* happens then.                                                           *)
(***************************************************************************)
BeginLoad_FlagsKept ==
  /\ ~loading
  /\ loading' = TRUE
  /\ blockCounter' = 0
  /\ file' = <<>> /\ before' = image
  /\ UNCHANGED <<programData, securityData, dataLoaded, securityAddrAcquired, checksumAddrAcquired>>

BeginLoad_CounterKept ==
  /\ ~loading
  /\ loading' = TRUE
  /\ securityAddrAcquired' = FALSE /\ checksumAddrAcquired' = FALSE
  /\ file' = <<>> /\ before' = image
  /\ UNCHANGED <<programData, securityData, dataLoaded, blockCounter>>

BeginLoad ==
  /\ ~loading
  /\ loading' = TRUE
  /\ blockCounter' = 0
  /\ securityAddrAcquired' = FALSE /\ checksumAddrAcquired' = FALSE
  /\ file' = <<>> /\ before' = image
  /\ UNCHANGED <<programData, securityData, dataLoaded>>

NoSuchFile ==
  /\ ~loading
  /\ dataLoaded' = FALSE
  /\ file' = <<>> /\ before' = image
  /\ UNCHANGED <<programData, securityData, loading, found>>

ReadLine ==
  /\ loading /\ Len(file) < MaxLines
  /\ \E l \in Lines : hexDataProcess(l) /\ file' = Append(file, l)
  /\ UNCHANGED before

AtEnd ==
  /\ loading
  /\ loading' = FALSE /\ dataLoaded' = TRUE
  /\ UNCHANGED <<programData, securityData, found, file, before>>

HexNext == BeginLoad \/ NoSuchFile \/ ReadLine \/ AtEnd

HexSpec == HexInit /\ [][HexNext]_loaderVars

-----------------------------------------------------------------------------
(***************************************************************************)
(* Properties.                                                             *)
(***************************************************************************)
\* The data records of a file, in its order.
DataRecords(f) ==
  LET among[i \in 0..Len(f)] ==     \* those among its first i lines
        IF i = 0 THEN <<>>
        ELSE IF Record(f[i], BlockSize, 0) THEN Append(among[i - 1], f[i]) ELSE among[i - 1]
  IN  among[Len(f)]

Stored == DataRecords(file)

\* No line of the file was refused: it is being read, or was accepted.
Unrefused == loading \/ (dataLoaded /\ file # <<>>)

\* hexDataProcess fills the image in the order of the file: block b is data record b,
\* the security data the last record after them, and what the file does not reach is
\* as it was when the file was opened.
ImageIsOfFile ==
  LET stored == Stored
  IN  Unrefused =>
        /\ \A b \in BlockIdx :
             programData[b] = IF b < Len(stored) THEN stored[b + 1].data ELSE before.blocks[b]
        /\ securityData = IF Len(stored) > NumBlocks THEN Last(stored).data ELSE before.security

\* A file that was accepted and closes with an end record left no block of an earlier
\* file in the image: load() accepts at the end of any file, but the end record only
\* after the last block.
EndMeansWhole ==
  ~loading /\ dataLoaded /\ file # <<>> /\ Record(Last(file), 0, 1) => Len(Stored) >= NumBlocks

(***************************************************************************)
(* The form of a file as the chip's tools write it, whatever was opened    *)
(* and refused before: its lines, each complete, in this order.            *)
(***************************************************************************)
Form == [i \in 1..NumBlocks |-> <<BlockSize, 0>>]
          \o << <<2, 4>>, <<BlockSize, 0>>, <<2, 4>>, <<2, 0>>, <<0, 1>> >>

BytesOf(l) == <<l.size, l.addr \div 256, l.addr % 256, l.type>> \o l.data \o <<l.check>>

Complete(l) ==
  /\ ReadableHeader(l) /\ Readable(l.data) /\ l.check # Unreadable
  /\ Total(BytesOf(l)) % 256 = 0

InForm(f) ==
  Len(f) <= Len(Form) /\ \A i \in DOMAIN f : Record(f[i], Form[i][1], Form[i][2]) /\ Complete(f[i])

\* No line of such a file is refused: what an earlier file left in the counter and in
\* the two flags does not matter.
GoodFileAccepted == file # <<>> /\ ~Unrefused => ~InForm(file)

(***************************************************************************)
(* The window of the flashing sequence sees a file opened in one step, the *)
(* slot being one: HostWindow!fileOpen, of the first n bytes of the file.  *)
(***************************************************************************)
Window == INSTANCE HostWindow WITH
  programData  <- IF loading THEN before.blocks ELSE programData,
  securityData <- IF loading THEN before.security ELSE securityData,
  wire <- <<>>, toHost <- <<>>, rxBuf <- <<>>, events <- <<>>,
  blockCntr <- 0, shown <- "nothing", pending <- 0,
  Images <- {}, MaxPending <- 1

FileImage ==
  LET stored == Stored
  IN  [blocks   |-> [b \in BlockIdx |-> IF b < Len(stored) THEN stored[b + 1].data ELSE ZeroData],
       security |-> securityData]

\* Reading a file line by line is one fileOpen step of the window: a refused file has
\* overwritten the image up to the byte it was refused at, an accepted one in whole records.
LoadIsOpen ==
  [][\E picture \in {FileImage'} : \E n \in 0..((NumBlocks + 1) * BlockSize) :
       Window!fileOpen(picture, n, dataLoaded')]_(Window!hostVars)
=============================================================================
