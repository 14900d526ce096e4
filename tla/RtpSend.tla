------------------------------ MODULE RtpSend -------------------------------
(***************************************************************************)
(* The sending side of a WebRTC stream: rtp_send_stream keeps copies of    *)
(* the last packets it relayed to a subscriber, by sequence number, to     *)
(* answer the subscriber's NACKs.  The packets come in the order in which  *)
(* the publisher's packets reached the server: with losses, late by any    *)
(* number of packets, and more than once.                                  *)
(*                                                                         *)
(* Left out: how often and how soon a packet may be sent again, which the  *)
(* time decides, and how the numbers are read from the NACK.               *)
(***************************************************************************)
EXTENDS RtpSeq

CONSTANTS
  RTP_BUFFER_MAX,  \* 800 for video, 100 for audio
  MaxNumber        \* bound: numbers of the packets relayed

(* A buffer of one packet would hold the last one to come, not the newest. *)
ASSUME RelayAssumption ==
  {RTP_BUFFER_MAX, MaxNumber} \subseteq Nat /\ RTP_BUFFER_MAX > 1

VARIABLES
  sender,   \* rtp_buffer_map_ and first_seq_; 0 stands for no first_seq_
  newest,   \* history: the newest RTP_BUFFER_MAX packets that were relayed
  troubled  \* history: a packet came that upsets the order of the buffer

send_vars == <<sender, newest, troubled>>

Packets == 0 .. MaxNumber

SendTypeOK ==
  /\ sender.first_seq_ \in 0 .. RTP_SEQ_MOD - 1
  /\ DOMAIN sender.map \subseteq 0 .. RTP_SEQ_MOD - 1
  /\ \A s \in DOMAIN sender.map : sender.map[s] \in Packets
  /\ newest \subseteq Packets
  /\ troubled \in BOOLEAN

SendInit ==
  /\ sender = [map |-> [s \in {} |-> 0], first_seq_ |-> 0]
  /\ newest = {}
  /\ troubled = FALSE

-----------------------------------------------------------------------------
(* The key behind s in the order of the map, from the end to the beginning. *)
next_key(keys, s) ==
  LET behind == {k \in keys : k > s}
      least(S) == CHOOSE k \in S : \A l \in S : k <= l
  IN  least(IF behind # {} THEN behind ELSE keys)

(* Variant: at the limit the packet with the lowest number goes. *)
save_buffer_lowest(b, n) ==
  LET keys == DOMAIN b.map \cup {get_seq(n)}
      map == [s \in keys |-> IF s = get_seq(n) THEN n ELSE b.map[s]]
      first == next_key(keys, RTP_SEQ_MOD)
      kept == keys \ {first}
  IN  IF Cardinality(keys) <= RTP_BUFFER_MAX THEN [map |-> map, first_seq_ |-> first]
      ELSE [map |-> [s \in kept |-> map[s]], first_seq_ |-> next_key(kept, first)]

(* Variant: the number after the first, not the next key, becomes the first. *)
save_buffer_next_number(b, n) ==
  LET keys == DOMAIN b.map \cup {get_seq(n)}
      map == [s \in keys |-> IF s = get_seq(n) THEN n ELSE b.map[s]]
      first == IF b.first_seq_ = 0 THEN get_seq(n) ELSE b.first_seq_
      kept == keys \ {first}
  IN  IF Cardinality(keys) <= RTP_BUFFER_MAX THEN [map |-> map, first_seq_ |-> first]
      ELSE [map |-> [s \in kept |-> map[s]], first_seq_ |-> get_seq(first + 1)]

(***************************************************************************)
(* The packet replaces one of the same number; at the limit the packet     *)
(* first_seq_ names goes, and the next one by number becomes the first.    *)
(***************************************************************************)
save_buffer(b, n) ==
  LET keys == DOMAIN b.map \cup {get_seq(n)}
      map == [s \in keys |-> IF s = get_seq(n) THEN n ELSE b.map[s]]
      first == IF b.first_seq_ = 0 THEN get_seq(n) ELSE b.first_seq_
      kept == keys \ {first}
  IN  IF Cardinality(keys) <= RTP_BUFFER_MAX THEN [map |-> map, first_seq_ |-> first]
      ELSE [map |-> [s \in kept |-> map[s]], first_seq_ |-> next_key(kept, first)]

(* The packets that a NACK for the numbers S has sent again. *)
handle_fb_rtp_nack(b, S) == {b.map[s] : s \in S \cap DOMAIN b.map}

Newest(S) == {n \in S : Cardinality({m \in S : m > n}) < RTP_BUFFER_MAX}

(***************************************************************************)
(* What upsets the order of the buffer, W being the newest packets so far. *)
(* A packet older than all of them keeps its place until the numbers come  *)
(* round, or evicts a newer one; a packet a whole round of numbers newer   *)
(* than one of them comes before that one; and when the packet with        *)
(* sequence number 0 is the oldest, first_seq_ looks unset and the next    *)
(* packet takes its place.                                                 *)
(***************************************************************************)
Upsets(W, n) ==
  \/ W # {} /\ \A m \in W : n < m
  \/ \E m \in W : n - m >= RTP_SEQ_MOD
  \/ \E m \in (W \cup {n}) \ Newest(W \cup {n}) : get_seq(m) = 0

(* on_send_rtp_packet *)
Relay(n) ==
  /\ sender' = save_buffer(sender, n)
  /\ newest' = Newest(newest \cup {n})
  /\ troubled' = (troubled \/ Upsets(newest, n))

SendNext == \E n \in Packets : Relay(n)

SendSpec == SendInit /\ [][SendNext]_send_vars
-----------------------------------------------------------------------------
(***************************************************************************)
(* A subscriber whose NACK names any of the newest packets gets them       *)
(* again, and gets the packets it named, whatever was lost, late or        *)
(* repeated before and although the numbers wrap, until a packet comes     *)
(* that upsets the order of the buffer (rtp_send_stream's save_buffer and  *)
(* handle_fb_rtp_nack).                                                    *)
(***************************************************************************)
NewestAreSentAgain ==
  ~troubled => handle_fb_rtp_nack(sender, {get_seq(n) : n \in newest}) = newest

(***************************************************************************)
(* save_buffer looks first_seq_ up in the map and deletes what it finds    *)
(* without asking whether it found anything: after every sequence of       *)
(* arrivals the first packet is in the map, or first_seq_ is unset and the *)
(* next packet sets it; and the map never holds more than RTP_BUFFER_MAX   *)
(* packets, each under its own number.                                     *)
(***************************************************************************)
FirstIsBuffered ==
  /\ sender.first_seq_ # 0 => sender.first_seq_ \in DOMAIN sender.map
  /\ Cardinality(DOMAIN sender.map) <= RTP_BUFFER_MAX
  /\ \A s \in DOMAIN sender.map : get_seq(sender.map[s]) = s
=============================================================================
