----------------------------- MODULE RtpReceive -----------------------------
(***************************************************************************)
(* The receiving side of a WebRTC video stream: rtp_recv_stream's count of *)
(* sequence numbers and nack_generator's list of the lost ones.            *)
(*                                                                         *)
(* The publisher numbers its packets 0, 1, 2, ... and sends number n with  *)
(* the sequence number (first_ + n) modulo RTP_SEQ_MOD.  The network loses *)
(* packets, delivers them in any order and more than once; a packet that   *)
(* was asked for comes as RTX and takes the same path.  All this is one    *)
(* action, Receive(n), for any n that is not too late.  A packet that      *)
(* arrives is relayed to the subscribers, see RtpSend.                     *)
(*                                                                         *)
(* update_rtt has no caller, so rtt_ (20 ms) is below the timer's 30 ms    *)
(* and every entry is due at every tick.  Abstracted: timestamps, jitter,  *)
(* byte counts.                                                            *)
(***************************************************************************)
EXTENDS RtpSeq, Sequences

CONSTANTS
  MAX_DROPOUT,     \* 3000
  MAX_MISORDER,    \* 100
  NACK_RETRY_MAX,  \* 20
  NACK_LIST_MAX,   \* 5000
  BITMAP_LEN,      \* 16: the width of lost_bitmap
  first_,          \* the publisher's first sequence number
  MaxPackets,      \* bound: packets sent
  PerTick,         \* bound: packets sent between two ticks of the timer
  MaxLate          \* bound: how far behind the newest a packet may arrive

ASSUME LimitsAssumption ==
  /\ {MAX_DROPOUT, MAX_MISORDER} \subseteq Nat \ {0}
  /\ MAX_DROPOUT + MAX_MISORDER <= RTP_SEQ_MOD
  /\ NACK_RETRY_MAX \in Nat /\ NACK_LIST_MAX \in Nat
  /\ BITMAP_LEN \in Nat \ {0}
ASSUME FirstAssumption == first_ \in 0 .. RTP_SEQ_MOD - 1
ASSUME BoundsAssumption ==
  {MaxPackets, PerTick, MaxLate} \subseteq Nat /\ MaxLate < RTP_SEQ_MOD \div 2

(***************************************************************************)
(* An entry of the list is gone before its number is used again: it lives  *)
(* for NACK_RETRY_MAX + 2 ticks of 30 ms, in which no publisher sends 2^15 *)
(* packets.                                                                *)
(***************************************************************************)
ASSUME RateAssumption == PerTick * (NACK_RETRY_MAX + 3) < RTP_SEQ_MOD \div 2

VARIABLES
  burst,    \* how far the newest number moved since the last tick
  stat,     \* rtp_recv_stream's sequence state
  last_seq, \* nack_generator's last_seq_
  nack_map, \* its list: sequence numbers and how often each was asked for
  base,     \* history: the number of the first packet that arrived
  high,     \* history: the newest number that arrived
  got,      \* history: the recent numbers that arrived
  gone,     \* history: missing numbers that were given up or dropped
  unseen,   \* history: missing numbers of gaps that contain the last number
  disturbed \* history: a packet came too late or after too long a gap

vars == <<burst, stat, last_seq, nack_map, base, high, got, gone, unseen, disturbed>>

SEQUENCE_MAX == RTP_SEQ_MOD - 1
Seqs == 0 .. SEQUENCE_MAX
Numbers == 0 .. MaxPackets - 1
seq(n) == get_seq(first_ + n)

(* init_flag_ and first_pkt_ agree: both are set by the first packet. *)
Started == stat.started

TypeOK ==
  /\ burst \in 0 .. PerTick
  /\ stat \in [started : BOOLEAN, max_seq : Seqs, cycles : Nat, bad_seq : 0 .. RTP_SEQ_MOD + 1]
  /\ last_seq \in Seqs
  /\ DOMAIN nack_map \subseteq Seqs
  /\ \A s \in DOMAIN nack_map : nack_map[s] \in 0 .. NACK_RETRY_MAX + 1
  /\ base \in Nat /\ high \in Nat
  /\ {got, gone, unseen} \subseteq SUBSET Numbers
  /\ disturbed \in BOOLEAN

NoBadSeq == RTP_SEQ_MOD + 1

Init ==
  /\ burst = 0
  /\ stat = [started |-> FALSE, max_seq |-> 0, cycles |-> 0, bad_seq |-> NoBadSeq]
  /\ last_seq = 0
  /\ nack_map = [s \in {} |-> 0]
  /\ base = 0 /\ high = 0
  /\ got = {} /\ gone = {} /\ unseen = {}
  /\ disturbed = FALSE

-----------------------------------------------------------------------------
(* History is kept of half the number space. *)
Recent(S, h) == {n \in S : h - n < RTP_SEQ_MOD \div 2}

(* init_seq and update_seq, from RFC 3550. *)
init_seq(s) == [started |-> TRUE, max_seq |-> s, cycles |-> 0, bad_seq |-> NoBadSeq]

(* Variant: a packet that is older is taken for a wrap. *)
update_seq_any_order(r, s) ==
  [r EXCEPT !.max_seq = s, !.cycles = IF s < r.max_seq THEN @ + RTP_SEQ_MOD ELSE @]

update_seq(r, s) ==
  LET udelta == (s - r.max_seq) % RTP_SEQ_MOD
  IN  IF udelta < MAX_DROPOUT
      THEN [r EXCEPT !.max_seq = s, !.cycles = IF s < r.max_seq THEN @ + RTP_SEQ_MOD ELSE @]
      ELSE IF udelta > RTP_SEQ_MOD - MAX_MISORDER THEN r
      ELSE IF s = r.bad_seq THEN init_seq(s)
      ELSE [r EXCEPT !.bad_seq = (s + 1) % RTP_SEQ_MOD]

seq_lower_than(s, t) ==
  \/ s > t /\ s - t > SEQUENCE_MAX \div 2
  \/ s < t /\ t - s <= SEQUENCE_MAX \div 2

(***************************************************************************)
(* update_nacklist: an old packet is taken off the list; the numbers       *)
(* between the last one and a newer one are put on it.  The loop compares  *)
(* the numbers themselves: when the gap contains the last number, the      *)
(* first one of the loop is beyond its end and none is added.              *)
(***************************************************************************)
lost_between(from, to) == {s \in Seqs : get_seq(from + 1) <= s /\ s < to}

without(m, S) == [s \in DOMAIN m \ S |-> m[s]]

with_new(m, S) == [s \in DOMAIN m \cup S |-> IF s \in DOMAIN m THEN m[s] ELSE 0]

(* Variant: an old packet stays on the list. *)
update_nacklist_keeps(m, s) ==
  IF s = last_seq \/ seq_lower_than(s, last_seq) THEN m
  ELSE with_new(m, lost_between(last_seq, s))

update_nacklist(m, s) ==
  IF s = last_seq THEN m
  ELSE IF seq_lower_than(s, last_seq) THEN without(m, {s})
  ELSE with_new(m, lost_between(last_seq, s))

newer(s) == s # last_seq /\ ~seq_lower_than(s, last_seq)

(* A packet of the stream, or its retransmission, arrives. *)
ReceiveFirst(n) ==
  /\ ~Started /\ n <= MaxLate
  /\ stat' = init_seq(seq(n))
  /\ last_seq' = seq(n)
  /\ base' = n /\ high' = n /\ got' = {n}
  /\ UNCHANGED <<burst, nack_map, gone, unseen, disturbed>>

Receive(n) ==
  LET step == IF n > high THEN n - high ELSE 0
      h == high + step
  IN  /\ Started
      /\ high - n <= MaxLate /\ burst + step <= PerTick
      /\ stat' = update_seq(stat, seq(n))
      /\ nack_map' = update_nacklist(nack_map, seq(n))
      /\ last_seq' = IF newer(seq(n)) THEN seq(n) ELSE last_seq
      /\ burst' = burst + step
      /\ high' = h
      /\ got' = Recent(got \cup {n}, h)
      /\ gone' = Recent(gone, h)
      /\ unseen' = Recent(unseen \cup {k \in high + 1 .. n - 1 : seq(n) < seq(high + 1)}, h)
      /\ disturbed' = (disturbed \/ high - n >= MAX_MISORDER \/ step >= MAX_DROPOUT)
      /\ UNCHANGED base

(***************************************************************************)
(* on_timer: entries that were asked for too often are given up, the       *)
(* others are asked for; then the smallest numbers are dropped while the   *)
(* list is too long.                                                       *)
(***************************************************************************)
(* Variant: asking is not counted. *)
asked_again_uncounted(m) == [s \in {t \in DOMAIN m : m[t] <= NACK_RETRY_MAX} |-> m[s]]

asked_again(m) == [s \in {t \in DOMAIN m : m[t] <= NACK_RETRY_MAX} |-> m[s] + 1]

overflow(m) ==
  {s \in DOMAIN m : Cardinality({t \in DOMAIN m : t >= s}) > NACK_LIST_MAX}

(***************************************************************************)
(* generate_nacklist: the numbers asked for go out as blocks of a first    *)
(* number and a bitmap.  A number too far from the first of its block is   *)
(* noticed only when it is in the block, which it closes.  Its shift is    *)
(* negative: the processors the server is built for take it modulo the     *)
(* width of an int, which is two bitmaps, and what is left of the bitmap   *)
(* is cut off.                                                             *)
(***************************************************************************)
shift(d) == (BITMAP_LEN - d) % (2 * BITMAP_LEN)

insert_block(seqs) ==
  [packet_id |-> seqs[1],
   bitmap |-> {shift(seqs[r] - seqs[1]) : r \in 2 .. Len(seqs)} \cap 0 .. BITMAP_LEN - 1]

report(acc, s) ==
  LET open == Append(acc.open, s)
  IN  IF s - open[1] > BITMAP_LEN
      THEN [blocks |-> acc.blocks \cup {insert_block(open)}, open |-> <<>>]
      ELSE [acc EXCEPT !.open = open]

(* The numbers of S are reported in their order: on_timer has sorted them. *)
insert_seq_list(S) ==
  LET acc[i \in 0 .. RTP_SEQ_MOD] ==
        IF i = 0 THEN [blocks |-> {}, open |-> <<>>]
        ELSE IF i - 1 \in S THEN report(acc[i - 1], i - 1)
        ELSE acc[i - 1]
      end == acc[RTP_SEQ_MOD]
  IN  end.blocks \cup (IF end.open = <<>> THEN {} ELSE {insert_block(end.open)})

(* The numbers the publisher reads: its lowest bit stands for the number      *)
(* after the first (RFC 4585).                                               *)
asked_of_publisher(blocks) ==
  UNION {{b.packet_id} \cup {get_seq(b.packet_id + 1 + i) : i \in b.bitmap} : b \in blocks}

(* The numbers that are due when the timer ticks, and what the packet made *)
(* of them asks for.                                                       *)
due == DOMAIN asked_again(nack_map)

generate_nacklist == asked_of_publisher(insert_seq_list(due))

(* The missing number that an entry stands for: the newest one below high. *)
NumbersOf(S) == {n \in Recent(0 .. high, high) : seq(n) \in S}

OnTimer ==
  LET m == asked_again(nack_map)
      kept == without(m, overflow(m))
  IN  /\ nack_map' = kept
      /\ gone' = gone \cup (NumbersOf(DOMAIN nack_map \ DOMAIN kept) \ got)
      /\ burst' = 0
      /\ UNCHANGED <<stat, last_seq, base, high, got, unseen, disturbed>>

Next ==
  \/ \E n \in Numbers : ReceiveFirst(n) \/ Receive(n)
  \/ OnTimer

(* The timer is started by the constructor and restarts itself. *)
Fairness == WF_vars(OnTimer)

Spec == Init /\ [][Next]_vars

FairSpec == Spec /\ Fairness
-----------------------------------------------------------------------------
(***************************************************************************)
(* Every packet that is missing between the first and the newest one is on *)
(* the list, or was given up after its retries or dropped at the limit, or *)
(* belongs to a gap that contains the last number before the wrap.         *)
(***************************************************************************)
MissingIsListed ==
  \A n \in Recent(base + 1 .. high - 1, high) :
    n \notin got =>
      n \in gone \/ n \in unseen \/ seq(n) \in DOMAIN nack_map

(* Every entry of the list stands for a packet that is really missing. *)
ListedIsMissing ==
  \A s \in DOMAIN nack_map :
    \E n \in Recent(0 .. high - 1, high) : seq(n) = s /\ n \notin got

(***************************************************************************)
(* nack_generator asks for what is missing and for nothing else: no packet *)
(* is lost silently and none is asked for that arrived, in spite of        *)
(* reordering, retransmissions that come twice or late, and numbers that   *)
(* are used again.                                                         *)
(***************************************************************************)
NackListIsExact == MissingIsListed /\ ListedIsMissing

(***************************************************************************)
(* A NACK packet asks the publisher for the numbers that are due, for all  *)
(* of them and for no other.  rtcpfb_nack.hpp calls the packet a generic   *)
(* NACK, FMT=1 PT=205, with a "packet identifier" and a "bitmap of loss    *)
(* packets"; the code fills the bitmap from the high end, where a receiver *)
(* of such a packet looks for the number farthest from the first.          *)
(***************************************************************************)
NackAsksForTheList == generate_nacklist = due

(***************************************************************************)
(* The highest sequence number that receiver reports carry, cycles_ +      *)
(* max_seq_, counts every wrap exactly once under reordering and loss,     *)
(* until a packet comes MAX_MISORDER or more late, as a retransmission     *)
(* may, or after a gap of MAX_DROPOUT.                                     *)
(***************************************************************************)
HighestIsExact ==
  Started /\ ~disturbed => stat.cycles + stat.max_seq = seq(base) + (high - base)

(***************************************************************************)
(* Every entry leaves the list: its packet comes or is given up, so that   *)
(* the list is empty some time after the last packet.                      *)
(***************************************************************************)
ListDrains == <>[](DOMAIN nack_map = {})
=============================================================================
