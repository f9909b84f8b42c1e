------------------------------- MODULE Vectors -------------------------------
(***************************************************************************)
(* What the functions of issp.c put on the two wires: the vectors as the   *)
(* tables of the file hold them, and each function as the sequence of the  *)
(* calls it makes to the helpers below it.  A call is                      *)
(*   pp, hiz      sdataPP(), sdataHiZ()                                    *)
(*   send         byteSend of the first n bits of some bytes               *)
(*   data, block  byteSend of targetDataOUT[i], of the block number        *)
(*   clock        sclkHigh(); sclkLow()                                    *)
(*   receive      byteReceive()                                            *)
(*   poll         transitionHiLoDetect(), returning 1 when it does         *)
(*   reset        targetReStart()                                          *)
(*   compare, id  returning 1 when what was received is not as expected    *)
(***************************************************************************)
EXTENDS Protocol

init1_v ==
  << \hCA, \h00, \h00, \h00, \h00, \h00, \h00, \h00, \h00, \h00, \h00, \h00,
     \h00, \h00, \h00, \h00, \h0D, \hEE, \h01, \hF7, \hB0, \h07, \h9F, \h07,
     \h5E, \h7C, \h81, \hFD, \hEA, \h01, \hF7, \hA0, \h1F, \h9F, \h70, \h1F,
     \h7C, \h98, \h7D, \hF4, \h81, \hF7, \h80, \h4F, \hDF, \h00, \h1F, \h7F,
     \h89, \h70 >>

init2_v ==
  << \hDE, \hE0, \h1F, \h7B, \h00, \h79, \hF0, \h75, \hE7, \hC8, \h1F, \hDE,
     \hA0, \h1F, \h7A, \h01, \hF9, \hF7, \h01, \hF7, \hC9, \h87, \hDF, \h48,
     \h1E, \h7D, \h00, \hFD, \hE0, \h0D, \hF7, \hC0, \h07, \hDF, \hE2, \h5C >>

init3_3v ==
  << \hDE, \hE0, \h1F, \h7A, \h01, \hFD, \hEA, \h01, \hF7, \hB0, \h47, \hDF,
     \h0A, \h3F, \h7C, \hFC, \h7D, \hF4, \h61, \hF7, \hF8, \h97, \h00, \h00,
     \h03, \h7B, \h80, \h7D, \hE8, \h07, \hF7, \hA8, \h07, \hDE, \hC1, \h1F,
     \h7C, \h30, \h7D, \hF3, \hD5, \hF7, \hD1, \h87, \hDE, \hE2, \h1F, \h7F,
     \h89, \h70, \h00, \h00, \h37, \hB8, \h07, \hDE, \h80, \h7F, \h7A, \h80,
     \h7D, \hEC, \h11, \hF7, \hC2, \h8F, \hDF, \h3F, \h3F, \h7D, \h18, \h7D,
     \hFE, \h25, \hC0, \h00, \h00, \hDE, \hE0, \h1F, \h7A, \h01, \hFD, \hEA,
     \h01, \hF7, \hB0, \h47, \hDF, \h0C, \h1F, \h7C, \hF4, \h7D, \hF4, \h61,
     \hF7, \hB8, \h87, \hDF, \hE2, \h5C, \h00, \h00, \h00 >>

id_setup_v ==
  << \hDE, \hE2, \h1F, \h70, \h01, \h7D, \hEE, \h01, \hF7, \hB0, \h07, \h9F,
     \h07, \h5E, \h7C, \h81, \hFD, \hEA, \h01, \hF7, \hA0, \h1F, \h9F, \h70,
     \h1F, \h7C, \h98, \h7D, \hF4, \h81, \hE7, \hD0, \h07, \hDE, \h00, \hDF,
     \h7C, \h00, \h7D, \hFE, \h25, \hC0 >>

erase_all_v ==
  << \h9F, \h82, \hBE, \h7F, \h2B, \h7D, \hEE, \h01, \hF7, \hB0, \h07, \h9F,
     \h07, \h5E, \h7C, \h81, \hFD, \hEA, \h01, \hF7, \hA0, \h1F, \h9F, \h70,
     \h1F, \h7C, \h98, \h7D, \hF4, \h81, \hF7, \h80, \h2F, \hDF, \h00, \h1F,
     \h7F, \h89, \h70 >>

program_block ==
  << \h9F, \h8A, \h9E, \h7F, \h2B, \h7D, \hEE, \h01, \hF7, \hB0, \h07, \h9F,
     \h07, \h5E, \h7C, \h81, \hFD, \hEA, \h01, \hF7, \hA0, \h1F, \h9F, \h70,
     \h1F, \h7C, \h98, \h7D, \hF4, \h81, \hF7, \h80, \h17, \hDF, \h00, \h1F,
     \h7F, \h89, \h70 >>

verify_setup_v ==
  << \hDE, \hE0, \h1F, \h7B, \h00, \h79, \hF0, \h75, \hE7, \hC8, \h1F, \hDE,
     \hA0, \h1F, \h7A, \h01, \hF9, \hF7, \h01, \hF7, \hC9, \h87, \hDF, \h48,
     \h1F, \h78, \h00, \hFD, \hF0, \h01, \hF7, \hF8, \h97 >>

checksum_v ==
  << \hDE, \hE0, \h1F, \h7B, \h00, \h79, \hF0, \h75, \hE7, \hC8, \h1F, \hDE,
     \hA0, \h1F, \h7A, \h01, \hF9, \hF7, \h01, \hF7, \hC9, \h87, \hDF, \h48,
     \h1E, \h7D, \h00, \h7D, \hE0, \h0F, \hF7, \hC0, \h07, \hDF, \hE2, \h5C >>

security_v ==
  << \h9F, \h8A, \h9E, \h7F, \h2B, \h7D, \hEE, \h01, \hF7, \hB0, \h07, \h9F,
     \h07, \h5E, \h7C, \h81, \hFD, \hEA, \h01, \hF7, \hA0, \h1F, \h9F, \h70,
     \h1F, \h7C, \h98, \h7D, \hF4, \h81, \hF7, \h80, \h27, \hDF, \h00, \h1F,
     \h7F, \h89, \h70 >>

securityVerification_v ==
  << \hDE, \hE0, \h1F, \h7B, \h00, \h79, \hF0, \h75, \hE7, \hC8, \h1F, \h9F,
     \hA0, \h1E, \h7F, \h80, \h7D, \hEA, \h01, \hF7, \hA0, \h1F, \h9F, \h70,
     \h1F, \h7C, \h98, \h7D, \hF4, \h81, \hF7, \h80, \h87, \hDF, \h00, \h1F,
     \h7F, \h89, \h70 >>

read_id_v == << \hBF, \h00, \hDF, \h90, \h00 >>
read_checksum_v == << \hBF, \h20, \hDF, \h80, \h80 >>
read_byte_v == << \hB0, \h80 >>
set_block_number == << \h9F, \h40, \hE0 >>

wait_and_poll_end == << 0, 0, 0, 0, 0 >>

target_id_v == << 0, \h38 >>

-----------------------------------------------------------------------------
pp    == [do |-> "pp"]
hiz   == [do |-> "hiz"]
clock == [do |-> "clock"]
reset == [do |-> "reset"]
poll  == [do |-> "poll"]
receive == [do |-> "receive", n |-> 8]
byteSend(byte, n) == [do |-> "send", bytes |-> <<byte>>, n |-> n]

vectorSend(vect, n) == << pp, [do |-> "send", bytes |-> vect, n |-> n], hiz >>

\* From a vector's byte on, as in `read_id_v + 2'.
From(vect, k) == SubSeq(vect, k + 1, Len(vect))

\* One clock starts the instructions of the test queue; a poll, forty zeros.
Execute == << clock, poll >> \o vectorSend(wait_and_poll_end, 40)

initializeCalls_Unpolled ==
  << hiz, reset >>
    \o vectorSend(init1_v, 396) \o Execute
    \o vectorSend(init2_v, 286) \o << clock >> \o vectorSend(wait_and_poll_end, 40)
    \o vectorSend(init3_3v, 836) \o << clock >> \o vectorSend(wait_and_poll_end, 40)

initializeCalls_NoReset ==
  << hiz >>
    \o vectorSend(init1_v, 396) \o Execute
    \o vectorSend(init2_v, 286) \o Execute
    \o vectorSend(init3_3v, 836) \o << clock >> \o vectorSend(wait_and_poll_end, 40)

\* sclkLow() after sdataHiZ() is left out: SCLK is low at power-up and every function
\* leaves it low.
initializeCalls ==
  << hiz, reset >>
    \o vectorSend(init1_v, 396) \o Execute
    \o vectorSend(init2_v, 286) \o Execute
    \o vectorSend(init3_3v, 836) \o << clock >> \o vectorSend(wait_and_poll_end, 40)

\* Two clocks between writing and reading, eight bits, and the clock after them.
ReadTwice(vect) ==
  vectorSend(vect, 11) \o << clock, clock, receive, clock >>
    \o vectorSend(From(vect, 2), 12) \o << clock, clock, receive, clock >>

siliconIDCalls ==
  vectorSend(id_setup_v, 330) \o Execute \o ReadTwice(read_id_v)
    \o vectorSend(From(read_id_v, 4), 1) \o << [do |-> "id"] >>

eraseCalls == vectorSend(erase_all_v, 308) \o Execute

\* The address is left-justified: it is counted in fours.
WriteByte_RightJustified(i) ==
  << byteSend(\h90, 5), byteSend(i - 1, 6), [do |-> "data", i |-> i, n |-> 8], byteSend(\hE0, 3) >>

WriteByte(i) ==
  << byteSend(\h90, 5), byteSend((4 * (i - 1)) % 256, 6), [do |-> "data", i |-> i, n |-> 8],
     byteSend(\hE0, 3) >>

\* The calls of a loop over the bytes: call k is one of byte i = (k - 1) / size + 1.
WriteBytes(n) ==
  << pp >> \o [k \in 1..(4 * n) |-> WriteByte(((k - 1) \div 4) + 1)[((k - 1) % 4) + 1]]

loadCalls == WriteBytes(BlockSize)

SelectBlock_Floating ==
  vectorSend(set_block_number, 11) \o << [do |-> "block", n |-> 8], byteSend(\hE0, 3) >>

SelectBlock ==
  vectorSend(set_block_number, 11) \o << pp, [do |-> "block", n |-> 8], byteSend(\hE0, 3) >>

blockProgramCalls == SelectBlock \o vectorSend(program_block, 308) \o Execute

ReadByte(i) ==
  vectorSend(read_byte_v, 5) \o << pp, byteSend((4 * (i - 1)) % 256, 6), clock, clock, hiz, receive, clock >>
    \o vectorSend(From(read_byte_v, 1), 1) \o << [do |-> "compare", i |-> i] >>

ReadBytes(n) ==
  [k \in 1..(14 * n) |-> ReadByte(((k - 1) \div 14) + 1)[((k - 1) % 14) + 1]]

blockVerifyCalls ==
  SelectBlock \o vectorSend(verify_setup_v, 264) \o Execute \o ReadBytes(BlockSize)

bankChecksumCalls ==
  vectorSend(checksum_v, 286) \o Execute \o ReadTwice(read_checksum_v)
    \o vectorSend(From(read_checksum_v, 3), 1)

securityFlashCalls ==
  WriteBytes(SecuritySize) \o vectorSend(security_v, 308) \o Execute

securityVerifyCalls ==
  vectorSend(securityVerification_v, 308) \o Execute \o ReadBytes(SecuritySize)

Functions == {"initialize", "siliconID", "erase", "load", "blockProgram", "blockVerify",
              "securityFlash", "securityVerify", "bankChecksum", "reStart"}

Calls ==
  [f \in Functions |->
     CASE f = "initialize"     -> initializeCalls
       [] f = "siliconID"      -> siliconIDCalls
       [] f = "erase"          -> eraseCalls
       [] f = "load"           -> loadCalls
       [] f = "blockProgram"   -> blockProgramCalls
       [] f = "blockVerify"    -> blockVerifyCalls
       [] f = "securityFlash"  -> securityFlashCalls
       [] f = "securityVerify" -> securityVerifyCalls
       [] f = "bankChecksum"   -> bankChecksumCalls
       [] f = "reStart"        -> << reset >>]

\* The bits a call puts on SDATA, the most significant of a byte first.
BitOf(bytes, k) == (bytes[((k - 1) \div 8) + 1] \div 2^(7 - ((k - 1) % 8))) % 2
=============================================================================
