------------------------------ MODULE MCFlash -------------------------------
(***************************************************************************)
(* The flashing sequence for TLC: two blocks of two bytes; two images that *)
(* share a block and whose bytes can be taken for a command.               *)
(***************************************************************************)
EXTENDS FlashImplements

MCImage == [blocks   |-> [b \in {0, 1} |-> IF b = 0 THEN <<CmdB, NL>> ELSE <<7, 1>>],
            security |-> <<1, 2>>]

MCOtherImage == [blocks   |-> [b \in {0, 1} |-> IF b = 0 THEN <<3, 4>> ELSE <<7, 1>>],
                 security |-> <<1, 3>>]

MCOneImage  == {MCImage}
MCTwoImages == {MCImage, MCOtherImage}

\* They differ in one byte only, for the operator who mixes them.
MCAlike == {MCImage, [MCImage EXCEPT !.blocks[0] = <<CmdB, 3>>]}

\* A chip comes blank, or with the first image in it and locked.
MCContents ==
  {[flash |-> Blank, security |-> Erased],
   [flash |-> MCImage.blocks, security |-> <<1>>]}

\* A damaged bank may show the sum of the first image.
MCNoiseSums == {0, 116}

\* No sum of a block or of a bank of these images.
MCStackGarbage == {9}
=============================================================================
