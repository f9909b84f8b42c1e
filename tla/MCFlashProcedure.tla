-------------------------- MODULE MCFlashProcedure --------------------------
(***************************************************************************)
(* FlashProcedure for TLC: three blocks of one byte, each of two contents. *)
(***************************************************************************)
EXTENDS FlashProcedure

MCLoadable == {<<0>>, <<1>>}

\* A chip comes blank, or with a program in which one block was damaged.
MCContents ==
  {[flash |-> Blank, security |-> Erased],
   [flash |-> [b \in 0..2 |-> IF b = 1 THEN Damaged ELSE <<1>>], security |-> <<1>>]}

MCNoiseSums == {0, 2}
=============================================================================
