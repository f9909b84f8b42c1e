------------------------------- MODULE Target -------------------------------
(***************************************************************************)
(* The CY8C21x34 chip on the programming connector, as the functions of    *)
(* issp.c act on it.  Every function ends in one of two ways: ok, or an    *)
(* error return because SDATA showed no high-to-low transition in time or  *)
(* a value read back was wrong.  The chip itself is not in the repository: *)
(* a chip outside programming mode never answers a poll, an answer that    *)
(* comes too late leaves the operation done, and a cell may take a wrong   *)
(* value although the chip acknowledged.                                   *)
(***************************************************************************)
EXTENDS Protocol

CONSTANTS
  Erased,     \* content of a block, or of the security bits, after a bulk erase
  Damaged,    \* content of a block that did not take the data written
  NoiseSums,  \* what the chip may return as the checksum of a damaged bank
  Contents    \* what a chip may hold when it is put on the connector

Security == [1..SecuritySize -> Byte]
Content  == [flash    : [BlockIdx -> Block \cup {Erased, Damaged}],
             security : Security \cup {Erased, Damaged}]

ASSUME TargetAssumption ==
  /\ Erased \notin Block /\ Damaged \notin Block /\ Erased # Damaged
  /\ Damaged \notin Security
  /\ NoiseSums \subseteq Word
  /\ Contents \subseteq Content /\ Contents # {}

VARIABLES
  tMode,      \* "run", or "prog" once it caught the vectors after a reset
  genuine,    \* its silicon ID is target_id_v
  flash,      \* what each block of the bank holds
  security    \* what its security bits hold

targetVars == <<tMode, genuine, flash, security>>

Blank == [b \in BlockIdx |-> Erased]

TargetTypeOK ==
  /\ tMode \in {"run", "prog"}
  /\ genuine \in BOOLEAN
  /\ flash \in [BlockIdx -> Block \cup {Erased, Damaged}]
  /\ security \in Security \cup {Erased, Damaged}

\* The first chip on the connector: blank, or programmed by somebody before.
FreshTarget ==
  /\ tMode = "run"
  /\ genuine \in BOOLEAN
  /\ \E content \in Contents : flash = content.flash /\ security = content.security

\* Another one is put there.
ReplaceTarget ==
  /\ tMode' = "run"
  /\ genuine' \in BOOLEAN
  /\ \E content \in Contents : flash' = content.flash /\ security' = content.security

(***************************************************************************)
(* Reading back.  Erased cells read as zeros, a damaged block reads as     *)
(* nothing the programmer ever sent.                                       *)
(***************************************************************************)
ZeroBlock == [i \in 1..BlockSize |-> 0]

Reads(cell) == IF cell = Erased THEN ZeroBlock ELSE cell

SecurityPart(data) == [i \in 1..SecuritySize |-> data[i]]

Answers == tMode = "prog"

(***************************************************************************)
(* The functions of issp.c, one operator each.                             *)
(***************************************************************************)
\* Reset by XRES, three initialisation vectors, two polls.
targetInitialize(ok) ==
  /\ tMode' \in (IF ok THEN {"prog"} ELSE {"run", "prog"})
  /\ UNCHANGED <<genuine, flash, security>>

\* Called only after targetInitialize returned ok; changes nothing.
targetSiliconIDVerify(ok) == ok => genuine

targetErase(ok) ==
  /\ ok => Answers
  /\ \/ /\ Answers
        /\ flash' = Blank
        /\ security' = Erased
     \/ /\ ~ok
        /\ UNCHANGED <<flash, security>>
  /\ UNCHANGED <<tMode, genuine>>

\* The block loaded in the chip's RAM by targetLoad goes to block b.
targetBlockProgram(b, data, ok) ==
  /\ ok => Answers
  /\ \/ /\ Answers
        /\ \E cell \in {data, Damaged} : flash' = [flash EXCEPT ![b] = cell]
     \/ /\ ~ok
        /\ UNCHANGED flash
  /\ UNCHANGED <<tMode, genuine, security>>

targetBlockVerify(b, data, ok) ==
  /\ ok => Answers /\ Reads(flash[b]) = data
  /\ UNCHANGED targetVars

targetSecurityFlash(data, ok) ==
  /\ ok => Answers
  /\ \/ /\ Answers
        /\ security' \in {SecurityPart(data), Damaged}
     \/ /\ ~ok
        /\ UNCHANGED security
  /\ UNCHANGED <<tMode, genuine, flash>>

targetSecurityVerify(data, ok) ==
  /\ ok => /\ Answers
           /\ security # Damaged
           /\ (IF security = Erased THEN SecurityPart(ZeroBlock) ELSE security)
                = SecurityPart(data)
  /\ UNCHANGED targetVars

\* The sums the chip may report for the content of its bank.
ReportedSums ==
  IF \E b \in BlockIdx : flash[b] = Damaged
  THEN NoiseSums
  ELSE {BankSum([b \in BlockIdx |-> Reads(flash[b])])}

targetBankChecksumGet(ok, sum) ==
  /\ ok => Answers /\ sum \in ReportedSums
  /\ UNCHANGED targetVars

targetReStart ==
  /\ tMode' = "run"
  /\ UNCHANGED <<genuine, flash, security>>
=============================================================================
