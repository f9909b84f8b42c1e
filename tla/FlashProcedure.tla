--------------------------- MODULE FlashProcedure ---------------------------
(***************************************************************************)
(* What the flashing sequence promises, without the machinery that carries *)
(* it out: no bytes, no queues, no replies, no counters kept on two sides. *)
(* One actor applies the operations of issp.c to the chip one after the    *)
(* other, in the order MainWindow::serialData asks for them, and stops at  *)
(* the first that fails.                                                   *)
(***************************************************************************)
EXTENDS Target

CONSTANT Loadable   \* the blocks a file can be made of

ASSUME LoadableAssumption == Loadable \subseteq Block

VARIABLES
  image,    \* the blocks the window has loaded
  sec,      \* the security data it has loaded
  loaded,   \* the last file was accepted
  step,     \* the next operation, or how the last sequence ended
  block     \* the block that operation is about

procVars == <<targetVars, image, sec, loaded, step, block>>

AtRest     == {"none", "failed", "done"}
Operations == {"init", "erase", "program", "verify", "secure", "checkSecurity",
               "checksum", "restart"}

ProcTypeOK ==
  /\ TargetTypeOK
  /\ image \in Image /\ sec \in Block
  /\ loaded \in BOOLEAN
  /\ step \in AtRest \cup Operations
  /\ block \in BlockIdx
  /\ step \notin {"program", "verify"} => block = 0

ProcInit ==
  /\ FreshTarget
  /\ image = [b \in BlockIdx |-> ZeroBlock] /\ sec = ZeroBlock
  /\ loaded = FALSE
  /\ step = "none"
  /\ block = 0

(***************************************************************************)
(* The operator, between two sequences.                                    *)
(***************************************************************************)
Start ==
  /\ step \in AtRest /\ loaded
  /\ step' = "init"
  /\ UNCHANGED <<targetVars, image, sec, loaded, block>>

\* Another file: whatever could be read of it is kept, accepted or not.
Load ==
  /\ step \in AtRest
  /\ image' \in [BlockIdx -> Loadable] /\ sec' \in Loadable
  /\ loaded' \in BOOLEAN
  /\ UNCHANGED <<targetVars, step, block>>

Swap ==
  /\ step \in AtRest
  /\ ReplaceTarget
  /\ UNCHANGED <<image, sec, loaded, step, block>>

(***************************************************************************)
(* The sequence.                                                           *)
(***************************************************************************)
Doing(op) == step = op /\ UNCHANGED <<image, sec, loaded>>

\* An operation that succeeds leads to the next one, a failure ends the sequence.
Then(ok, next) ==
  /\ step' = IF ok THEN next ELSE "failed"
  /\ block' = 0

\* Definitions named after another one and a mistake are mutants of it, for the tests
\* of the properties; nothing else refers to them.
ThenBlock_LastSkipped(ok, next) ==
  IF ok /\ block < NumBlocks - 2
  THEN block' = block + 1 /\ UNCHANGED step
  ELSE Then(ok, next)

ThenBlock_PastTheEnd(ok, next) ==
  IF ok /\ block < NumBlocks
  THEN block' = block + 1 /\ UNCHANGED step
  ELSE Then(ok, next)

ThenBlock(ok, next) ==
  IF ok /\ block < NumBlocks - 1
  THEN block' = block + 1 /\ UNCHANGED step
  ELSE Then(ok, next)

DoInitialize ==
  /\ Doing("init")
  /\ \/ targetInitialize(FALSE) /\ Then(FALSE, "erase")
     \/ targetInitialize(TRUE)
        /\ \E ok \in BOOLEAN : targetSiliconIDVerify(ok) /\ Then(ok, "erase")

DoErase_Skipped ==
  Doing("erase") /\ UNCHANGED targetVars /\ Then(TRUE, "program")

DoErase ==
  Doing("erase") /\ \E ok \in BOOLEAN : targetErase(ok) /\ Then(ok, "program")

DoProgram ==
  /\ Doing("program")
  /\ \E ok \in BOOLEAN :
       targetBlockProgram(block, image[block], ok) /\ ThenBlock(ok, "verify")

DoVerify ==
  /\ Doing("verify")
  /\ \E ok \in BOOLEAN :
       targetBlockVerify(block, image[block], ok) /\ ThenBlock(ok, "secure")

DoSecure_Unverified ==
  /\ Doing("secure")
  /\ \E ok \in BOOLEAN : targetSecurityFlash(sec, ok) /\ Then(ok, "checksum")

DoSecure ==
  /\ Doing("secure")
  /\ \E ok \in BOOLEAN : targetSecurityFlash(sec, ok) /\ Then(ok, "checkSecurity")

DoCheckSecurity ==
  /\ Doing("checkSecurity")
  /\ \E ok \in BOOLEAN : targetSecurityVerify(sec, ok) /\ Then(ok, "checksum")

DoChecksum ==
  /\ Doing("checksum")
  /\ \/ targetBankChecksumGet(FALSE, 0) /\ Then(FALSE, "restart")
     \/ \E sum \in ReportedSums :
          targetBankChecksumGet(TRUE, sum) /\ Then(sum = BankSum(image), "restart")

DoRestart == Doing("restart") /\ targetReStart /\ Then(TRUE, "done")

Sequence ==
  \/ DoInitialize \/ DoErase \/ DoProgram \/ DoVerify
  \/ DoSecure \/ DoCheckSecurity \/ DoChecksum \/ DoRestart

ProcNext == Start \/ Load \/ Swap \/ Sequence

ProcSpec == ProcInit /\ [][ProcNext]_procVars

-----------------------------------------------------------------------------
\* Every block of the chip reads as the image has it.
Flashed == \A b \in BlockIdx : Reads(flash[b]) = image[b]

(***************************************************************************)
(* What is known of the chip at each step.                                 *)
(***************************************************************************)
\* Nothing is done to a chip whose silicon ID is another.
IDKnown == step \in Operations \ {"init"} => genuine

\* While programming: the blocks before the current one took their data or were
\* damaged, the others are still blank.
ProgrammedSoFar ==
  step = "program" =>
    \A b \in BlockIdx : IF b < block THEN flash[b] \in {image[b], Damaged}
                                     ELSE flash[b] = Erased

VerifiedSoFar ==
  step = "verify" => \A b \in BlockIdx : b < block => Reads(flash[b]) = image[b]

BankVerified ==
  step \in {"secure", "checkSecurity", "checksum", "restart"} => Flashed

SecurityWritten  == step = "checkSecurity" => security \in {SecurityPart(sec), Damaged}
SecurityVerified == step \in {"checksum", "restart"} => security = SecurityPart(sec)

\* Inductive: what the promises below rest on.
ProcInv ==
  /\ ProcTypeOK
  /\ IDKnown
  /\ ProgrammedSoFar
  /\ VerifiedSoFar
  /\ BankVerified
  /\ SecurityWritten
  /\ SecurityVerified

(***************************************************************************)
(* The promises.                                                           *)
(***************************************************************************)
\* A sequence that ends with "Target ReStarted!" leaves a genuine chip that runs, with
\* the image and the security bits in it.
DoneMeansFlashed ==
  [][step' = "done" /\ step # "done" =>
       /\ Flashed /\ genuine
       /\ security = SecurityPart(sec)
       /\ tMode' = "run"]_procVars

\* targetBlockProgram only ever meets blank cells, whatever the chip held when it was put
\* on the connector: flash cells are never written twice between two erasures.
ProgramsErasedCells ==
  [][\/ Swap
     \/ \A b \in BlockIdx : flash'[b] \in {flash[b], Erased} \/ flash[b] = Erased]_procVars
=============================================================================
