------------------------------- MODULE MCWire -------------------------------
(***************************************************************************)
(* Two blocks of the real size; two contents, that differ in the first and *)
(* the last byte.                                                          *)
(***************************************************************************)
EXTENDS Wire

MCContent == [i \in 1..BlockSize |-> (37 * i + 128) % 256]
MCData == {MCContent, [MCContent EXCEPT ![1] = 164, ![BlockSize] = 1]}

\* A chip comes blank, or programmed and locked.
MCContents ==
  {[flash |-> Blank, security |-> Erased],
   [flash |-> [b \in {0, 1} |-> MCContent], security |-> SecurityPart(MCContent)]}

MCTrims == <<90, 197>>
MCForeignID == <<0, 57>>
=============================================================================
