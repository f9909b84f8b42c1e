----------------------------- MODULE BoundedFifo -----------------------------
(***************************************************************************)
(* What the firmware expects of a queue of its serial driver: the bytes    *)
(* come out in the order they went in, at most Size of them wait.          *)
(***************************************************************************)
EXTENDS Integers, Sequences

CONSTANTS Size, Items

VARIABLES
  waiting,         \* the items inside
  taken            \* the item taken out last

fifoVars == <<waiting, taken>>

FifoInit == waiting = <<>> /\ taken \in Items

Put ==
  /\ Len(waiting) < Size
  /\ \E b \in Items : waiting' = Append(waiting, b)
  /\ UNCHANGED taken

Take ==
  /\ waiting # <<>>
  /\ taken' = Head(waiting)
  /\ waiting' = Tail(waiting)

Clear == waiting' = <<>> /\ UNCHANGED taken

FifoSpec == FifoInit /\ [][Put \/ Take \/ Clear]_fifoVars
=============================================================================
