-------------------------------- MODULE Line --------------------------------
(***************************************************************************)
(* The serial line between the host and the programmer: bytes arrive in    *)
(* order, none is lost or changed on the way.                              *)
(***************************************************************************)
EXTENDS Protocol

VARIABLES
  wire,     \* bytes for the programmer: the host's transmit buffer and the line
  toHost    \* bytes for the host: SD1.oqueue, the line and the host's port

LineTypeOK == wire \in Seq(Byte) /\ toHost \in Seq(Byte)

LineInit == wire = <<>> /\ toHost = <<>>
=============================================================================
