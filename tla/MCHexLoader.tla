----------------------------- MODULE MCHexLoader -----------------------------
(***************************************************************************)
(* Hex files for TLC: two blocks of three bytes.                           *)
(***************************************************************************)
EXTENDS HexLoader

Rec(addr, type, data) ==
  LET l == [start |-> TRUE, size |-> Len(data), addr |-> addr, type |-> type, data |-> data,
            check |-> 0]
  IN  IF Readable(data)
      THEN [l EXCEPT !.check = (256 - (Total(BytesOf(l)) % 256)) % 256]
      ELSE l

Blocks == {Rec(0, 0, <<1, 2, 3>>), Rec(259, 0, <<250, 2, 9>>)}

MCLines ==
  Blocks
  \cup {Rec(0, 4, <<16, 0>>), Rec(0, 0, <<1, 5>>), Rec(0, 1, <<>>)}
  \cup {Rec(0, 0, <<7, Unreadable, 8>>)}
  \cup {[Rec(64, 0, <<4, 5, 6>>) EXCEPT !.check = 1],      \* a wrong sum
        [Rec(0, 1, <<>>) EXCEPT !.start = FALSE]}
=============================================================================
