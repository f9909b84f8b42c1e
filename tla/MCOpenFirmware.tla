--------------------------- MODULE MCOpenFirmware ---------------------------
(***************************************************************************)
(* OpenFirmware for TLC: two blocks of one byte, commands, a letter that   *)
(* is no command and a stray byte, which also puts all that follows it out *)
(* of step with the pairs the firmware reads.                              *)
(***************************************************************************)
EXTENDS OpenFirmware

MCHostItems ==
  {Request(cmd) : cmd \in {CmdA, CmdC, CmdD, CmdG, CmdZ, 104}} \cup {<<1>>}

\* The chip comes with a program in it.
MCContents ==
  {[flash |-> [b \in {0, 1} |-> <<3 - b>>], security |-> <<1>>]}

MCNoiseSums == {2}

MCStackGarbage == {9}
=============================================================================
