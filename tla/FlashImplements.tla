-------------------------- MODULE FlashImplements ---------------------------
(***************************************************************************)
(* The patient operator's system carries out FlashProcedure: the bytes,    *)
(* the queues, the replies and the two block counters change nothing of    *)
(* what happens to the chip.                                               *)
(***************************************************************************)
EXTENDS FlashSystem

\* The reply the window has not handled yet, in whatever pieces it is.
ReplyInFlight == IF events # <<>> THEN Head(events) ELSE rxBuf \o toHost

\* The operation requested last, from the last result the window printed.
Requested ==
  CASE shown = "initialized"      -> "erase"
    [] shown = "erased"           -> "program"
    [] shown = "programmed"       -> "verify"
    [] shown = "verified"         -> "secure"
    [] shown = "securityStored"   -> "checkSecurity"
    [] shown = "securityVerified" -> "checksum"
    [] shown = "checksumVerified" -> "restart"
    [] OTHER                      -> "init"

After == [init |-> "erase", erase |-> "program", program |-> "verify",
          verify |-> "secure", secure |-> "checkSecurity",
          checkSecurity |-> "checksum", checksum |-> "restart", restart |-> "done"]

Rested ==
  IF shown = "nothing" THEN "none" ELSE IF shown = "restarted" THEN "done" ELSE "failed"

stepBar ==
  IF pending = 0 THEN Rested
  ELSE IF ReplyInFlight = <<>> \/ ReplyInFlight[3] = Plus THEN Requested
  ELSE IF ReplyInFlight[3] = Zero THEN After[Requested]
  ELSE "failed"

\* The block the host sent last, or the one a "+" makes it send.
blockBar ==
  IF stepBar \notin {"program", "verify"} THEN 0
  ELSE IF ReplyInFlight = <<>> THEN blockCntr - 1
  ELSE IF ReplyInFlight[3] = Plus THEN blockCntr
  ELSE 0

Procedure == INSTANCE FlashProcedure WITH
  Loadable <- Block,
  image  <- programData,
  sec    <- securityData,
  loaded <- dataLoaded,
  step   <- stepBar,
  block  <- blockBar

-----------------------------------------------------------------------------
\* Each operation of main.c on the chip is the next one of the procedure, applied to the
\* block the procedure is at; every other step of host, line and firmware stutters.
ImplementsProcedure == Procedure!ProcSpec
=============================================================================
