------------------------------- MODULE RtpSeq -------------------------------
(***************************************************************************)
(* RTP sequence numbers.  A packet is its extended number, of which the    *)
(* sequence number is the part modulo RTP_SEQ_MOD.                         *)
(***************************************************************************)
EXTENDS Integers, FiniteSets

CONSTANT RTP_SEQ_MOD  \* 2^16 in the code

ASSUME SeqModAssumption == RTP_SEQ_MOD \in Nat /\ RTP_SEQ_MOD > 3

get_seq(n) == n % RTP_SEQ_MOD
=============================================================================
