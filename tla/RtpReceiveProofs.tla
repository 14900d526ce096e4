-------------------------- MODULE RtpReceiveProofs ---------------------------
(***************************************************************************)
(* The safety of the receiving side for every size of the number space,    *)
(* any number of packets, any first number and any limits that the         *)
(* assumptions of RtpReceive allow.                                        *)
(*                                                                         *)
(* First the arithmetic modulo RTP_SEQ_MOD, which the provers only know as *)
(* x = m * (x \div m) + (x % m) with a remainder in 0 .. m - 1; then the   *)
(* sequence numbers of packets that are close together; then the inductive *)
(* invariant, one lemma per kind of step; then the retransmission buffer   *)
(* of RtpSend and its own invariant.                                       *)
(***************************************************************************)
EXTENDS RtpReceive, RtpSend, FiniteSetTheorems, WellFoundedInduction, TLAPS

LEMMA ModIsRemainder ==
  ASSUME NEW m \in Nat \ {0}, NEW x \in Nat
  PROVE  /\ x % m \in 0 .. m - 1
         /\ x \div m \in Nat
         /\ x = m * (x \div m) + (x % m)
  OBVIOUS

LEMMA RemainderIsUnique ==
  ASSUME NEW m \in Nat \ {0}, NEW p \in Int, NEW q \in Int,
         NEW r \in 0 .. m - 1, NEW s \in 0 .. m - 1,
         m * p + r = m * q + s
  PROVE  r = s
<1>1. CASE p = q
  BY <1>1
<1>2. CASE p > q
  <2>1. m * p >= m * (q + 1)
    BY <1>2
  <2> QED
    BY <2>1
<1>3. CASE p < q
  <2>1. m * q >= m * (p + 1)
    BY <1>3
  <2> QED
    BY <2>1
<1> QED
  BY <1>1, <1>2, <1>3

(* x and r differ by a multiple of m. *)
LEMMA RemainderIs ==
  ASSUME NEW m \in Nat \ {0}, NEW x \in Int, NEW q \in Int, NEW r \in 0 .. m - 1,
         x = m * q + r
  PROVE  x % m = r
<1>1. /\ x % m \in 0 .. m - 1 /\ x \div m \in Int
      /\ x = m * (x \div m) + (x % m)
  OBVIOUS
<1> QED
  BY <1>1, RemainderIsUnique

LEMMA ModOfDistance ==
  ASSUME NEW m \in Nat \ {0}, NEW x \in Int, NEW d \in 0 .. m - 1, x = d \/ x = d - m
  PROVE  x % m = d
<1>1. m * 0 = 0 /\ m * (-1) = -m /\ 0 \in Int /\ -1 \in Int
  OBVIOUS
<1>2. CASE x = d
  <2>1. x = m * 0 + d
    BY <1>1, <1>2
  <2> QED
    BY <1>1, <2>1, RemainderIs
<1>3. CASE x = d - m
  <2>1. x = m * (-1) + d
    BY <1>1, <1>3
  <2> QED
    BY <1>1, <2>1, RemainderIs
<1> QED
  BY <1>2, <1>3

LEMMA ModPlus ==
  ASSUME NEW m \in Nat \ {0}, NEW x \in Nat, NEW d \in 0 .. m - 1
  PROVE  (x + d) % m = IF (x % m) + d < m THEN (x % m) + d ELSE (x % m) + d - m
<1> DEFINE q == x \div m
           r == x % m
<1>1. q \in Int /\ r \in 0 .. m - 1 /\ x = m * q + r
  BY ModIsRemainder
<1> HIDE DEF q, r
<1>2. CASE r + d < m
  <2>1. x + d = m * q + (r + d) /\ r + d \in 0 .. m - 1
    BY <1>1, <1>2
  <2>2. (x + d) % m = r + d
    BY <1>1, <2>1, RemainderIs
  <2> QED
    BY <1>2, <2>2 DEF r
<1>3. CASE r + d >= m
  <2>1. m * (q + 1) = m * q + m
    BY <1>1
  <2>2. r + d - m \in 0 .. m - 1 /\ q + 1 \in Int /\ m * q \in Int
    BY <1>1, <1>3
  <2>3. x + d = m * (q + 1) + (r + d - m)
    BY <1>1, <2>1, <2>2
  <2> DEFINE y == x + d
             p == q + 1
             e == r + d - m
  <2>4. y \in Int /\ p \in Int /\ e \in 0 .. m - 1 /\ y = m * p + e
    BY <2>2, <2>3
  <2> HIDE DEF y, p, e
  <2>5. y % m = e
    BY <2>4, RemainderIs
  <2> QED
    BY <1>1, <1>3, <2>5 DEF r, y, e
<1> QED
  BY <1>1, <1>2, <1>3

-----------------------------------------------------------------------------
(***************************************************************************)
(* Sequence numbers of packets that are less than half the space apart.    *)
(***************************************************************************)
Half == RTP_SEQ_MOD \div 2

LEMMA HalfFacts ==
  /\ Half \in Nat /\ Half + Half <= RTP_SEQ_MOD /\ RTP_SEQ_MOD <= Half + Half + 1
  /\ SEQUENCE_MAX \div 2 \in {Half, Half - 1}
  /\ RTP_SEQ_MOD \in Nat \ {0} /\ first_ \in Nat
  /\ MaxLate \in Nat /\ MaxLate < Half /\ PerTick \in Nat /\ NACK_RETRY_MAX \in Nat
  BY SeqModAssumption, FirstAssumption, BoundsAssumption, LimitsAssumption DEF Half, SEQUENCE_MAX

LEMMA SeqPlus ==
  ASSUME NEW n \in Nat, NEW d \in 0 .. RTP_SEQ_MOD - 1
  PROVE  /\ seq(n) \in Seqs
         /\ seq(n + d) = IF seq(n) + d < RTP_SEQ_MOD THEN seq(n) + d
                        ELSE seq(n) + d - RTP_SEQ_MOD
<1> DEFINE x == first_ + n
<1>1. x \in Nat /\ first_ + (n + d) = x + d /\ RTP_SEQ_MOD \in Nat \ {0}
  BY HalfFacts
<1>2. seq(n) = x % RTP_SEQ_MOD /\ seq(n + d) = (x + d) % RTP_SEQ_MOD
  BY <1>1 DEF seq, get_seq
<1> HIDE DEF x
<1>3. x % RTP_SEQ_MOD \in 0 .. RTP_SEQ_MOD - 1
  BY <1>1, ModIsRemainder
<1> QED
  BY <1>1, <1>2, <1>3, ModPlus DEF Seqs, SEQUENCE_MAX

(* The number k - n packets further on, with or without a wrap. *)
LEMMA SeqDistance ==
  ASSUME NEW n \in Nat, NEW k \in Nat, n <= k, k - n < RTP_SEQ_MOD
  PROVE  /\ seq(n) \in Seqs /\ seq(k) \in Seqs
         /\ seq(k) \in {seq(n) + (k - n), seq(n) + (k - n) - RTP_SEQ_MOD}
<1> DEFINE d == k - n
<1>1. d \in 0 .. RTP_SEQ_MOD - 1 /\ k = n + d /\ 0 \in 0 .. RTP_SEQ_MOD - 1
  BY HalfFacts
<1> HIDE DEF d
<1>2. seq(n) \in Seqs /\ seq(k) \in Seqs
  BY <1>1, SeqPlus
<1>3. seq(k) \in {seq(n) + d, seq(n) + d - RTP_SEQ_MOD}
  BY <1>1, SeqPlus
<1> QED
  BY <1>2, <1>3 DEF d

LEMMA SeqsDiffer ==
  ASSUME NEW n \in Nat, NEW k \in Nat, n < k, k - n < RTP_SEQ_MOD
  PROVE  seq(n) # seq(k)
<1>1. /\ seq(n) \in Int /\ RTP_SEQ_MOD \in Nat
      /\ seq(k) \in {seq(n) + (k - n), seq(n) + (k - n) - RTP_SEQ_MOD}
  BY SeqDistance, HalfFacts DEF Seqs, SEQUENCE_MAX
<1> QED
  BY <1>1

(* seq_lower_than orders such packets as they were sent. *)
LEMMA OlderIsLower ==
  ASSUME NEW n \in Nat, NEW k \in Nat, n < k, k - n < Half
  PROVE  seq_lower_than(seq(n), seq(k)) /\ ~seq_lower_than(seq(k), seq(n))
<1>1. /\ seq(n) \in 0 .. RTP_SEQ_MOD - 1 /\ seq(k) \in 0 .. RTP_SEQ_MOD - 1
      /\ seq(k) \in {seq(n) + (k - n), seq(n) + (k - n) - RTP_SEQ_MOD}
  BY SeqDistance, HalfFacts DEF Seqs, SEQUENCE_MAX
<1> QED
  BY <1>1, HalfFacts DEF seq_lower_than

LEMMA PerTickFacts ==
  ASSUME NEW c \in 0 .. NACK_RETRY_MAX + 1, NEW b \in 0 .. PerTick
  PROVE  PerTick * c + b < Half /\ PerTick < Half
<1>1. PerTick * c <= PerTick * (NACK_RETRY_MAX + 1)
  BY HalfFacts
<1>2. PerTick * (NACK_RETRY_MAX + 3) = PerTick * (NACK_RETRY_MAX + 1) + PerTick + PerTick
  BY HalfFacts
<1>3. PerTick * (NACK_RETRY_MAX + 3) < Half
  BY RateAssumption DEF Half
<1>4. PerTick * c \in Nat /\ PerTick * (NACK_RETRY_MAX + 1) \in Nat
  BY HalfFacts
<1> QED
  BY <1>1, <1>2, <1>3, <1>4, HalfFacts

-----------------------------------------------------------------------------
(***************************************************************************)
(* The inductive invariant.  The generator's last number is the newest     *)
(* packet's; an entry that was asked for c times stands for a packet that  *)
(* is missing and at most c + 1 ticks old, which keeps its number from     *)
(* being used again; max_seq_ is the newest packet's until a disturbance.  *)
(***************************************************************************)
EmptyAtFirst == ~Started => DOMAIN nack_map = {}

NewestIsLast ==
  Started => last_seq = seq(high) /\ high \in got /\ got \subseteq 0 .. high

EntryStandsFor(s, n) ==
  seq(n) = s /\ n \notin got /\ high - n <= PerTick * nack_map[s] + burst

EntriesAreYoung ==
  \A s \in DOMAIN nack_map : \E n \in 0 .. high - 1 : EntryStandsFor(s, n)

MaxIsNewest ==
  Started /\ ~disturbed =>
    /\ stat.max_seq = seq(high)
    /\ stat.cycles + stat.max_seq = seq(base) + (high - base)

IInv ==
  /\ TypeOK
  /\ EmptyAtFirst
  /\ NewestIsLast
  /\ EntriesAreYoung
  /\ MissingIsListed
  /\ MaxIsNewest

LEMMA InitInv == Init => IInv
<1> SUFFICES ASSUME Init PROVE IInv
  OBVIOUS
<1>1. DOMAIN nack_map = {} /\ ~Started /\ base = 0 /\ high = 0
  BY DEF Init, Started
<1>2. TypeOK
  <2>1. 0 \in Seqs /\ 0 \in 0 .. PerTick /\ NoBadSeq \in 0 .. RTP_SEQ_MOD + 1
    BY HalfFacts DEF Seqs, SEQUENCE_MAX, NoBadSeq
  <2>2. stat \in [started : BOOLEAN, max_seq : Seqs, cycles : Nat, bad_seq : 0 .. RTP_SEQ_MOD + 1]
    BY <2>1 DEF Init
  <2>3. /\ burst = 0 /\ last_seq = 0 /\ got = {} /\ gone = {} /\ unseen = {}
        /\ disturbed = FALSE
    BY DEF Init
  <2> QED
    BY <1>1, <2>1, <2>2, <2>3 DEF TypeOK
<1>3. EmptyAtFirst /\ NewestIsLast /\ EntriesAreYoung /\ MaxIsNewest
  BY <1>1 DEF EmptyAtFirst, NewestIsLast, EntriesAreYoung, MaxIsNewest
<1>4. MissingIsListed
  BY <1>1 DEF MissingIsListed, Recent
<1> QED
  BY <1>2, <1>3, <1>4 DEF IInv

LEMMA SeqIsSeq ==
  ASSUME NEW n \in Nat
  PROVE  seq(n) \in Seqs
<1>1. 0 \in 0 .. RTP_SEQ_MOD - 1
  BY HalfFacts
<1> QED
  BY <1>1, SeqPlus

LEMMA InRecent ==
  ASSUME NEW S, NEW h
  PROVE  /\ Recent(S, h) \subseteq S
         /\ \A x \in S : h - x < RTP_SEQ_MOD \div 2 => x \in Recent(S, h)
  BY DEF Recent

LEMMA FirstStep ==
  ASSUME IInv, NEW n \in Numbers, ReceiveFirst(n)
  PROVE  IInv'
<1>1. n \in Nat /\ n \in Numbers /\ seq(n) \in Seqs
  BY SeqIsSeq, BoundsAssumption DEF Numbers
<1>2. /\ stat' = init_seq(seq(n)) /\ last_seq' = seq(n)
      /\ base' = n /\ high' = n /\ got' = {n}
      /\ UNCHANGED <<burst, nack_map, gone, unseen, disturbed>>
      /\ ~Started
  BY DEF ReceiveFirst
<1>3. /\ stat'.started = TRUE /\ stat'.max_seq = seq(n) /\ stat'.cycles = 0
      /\ stat' \in [started : BOOLEAN, max_seq : Seqs, cycles : Nat, bad_seq : 0 .. RTP_SEQ_MOD + 1]
  BY <1>1, <1>2, HalfFacts DEF init_seq, NoBadSeq
<1>4. DOMAIN nack_map = {} /\ nack_map' = nack_map
  BY <1>2 DEF IInv, EmptyAtFirst
<1>5. TypeOK'
  BY <1>1, <1>2, <1>3, <1>4 DEF IInv, TypeOK
<1>6. EmptyAtFirst' /\ EntriesAreYoung'
  BY <1>4 DEF EmptyAtFirst, EntriesAreYoung
<1>7. NewestIsLast'
  BY <1>1, <1>2 DEF NewestIsLast
<1>8. MissingIsListed'
  BY <1>1, <1>2 DEF MissingIsListed, Recent
<1>9. MaxIsNewest'
  BY <1>1, <1>2, <1>3 DEF MaxIsNewest, Seqs, SEQUENCE_MAX
<1> QED
  BY <1>5, <1>6, <1>7, <1>8, <1>9 DEF IInv

LEMMA TimerStep ==
  ASSUME IInv, OnTimer
  PROVE  IInv'
<1> DEFINE m == asked_again(nack_map)
           removed == DOMAIN nack_map \ DOMAIN nack_map'
<1>1. /\ DOMAIN m \subseteq DOMAIN nack_map
      /\ \A s \in DOMAIN m : nack_map[s] <= NACK_RETRY_MAX /\ m[s] = nack_map[s] + 1
  BY DEF asked_again
<1>2. /\ nack_map' = without(m, overflow(m))
      /\ gone' = gone \cup (NumbersOf(removed) \ got)
      /\ burst' = 0
      /\ UNCHANGED <<stat, last_seq, base, high, got, unseen, disturbed>>
  BY DEF OnTimer
<1> HIDE DEF m
<1>3. /\ DOMAIN nack_map' \subseteq DOMAIN nack_map
      /\ \A s \in DOMAIN nack_map' :
           nack_map[s] <= NACK_RETRY_MAX /\ nack_map'[s] = nack_map[s] + 1
  BY <1>1, <1>2 DEF without
<1>4. TypeOK
  BY DEF IInv
<1>5. \A s \in DOMAIN nack_map : nack_map[s] \in 0 .. NACK_RETRY_MAX + 1
  BY <1>4 DEF TypeOK
<1>6. TypeOK'
  <2>1. burst' \in 0 .. PerTick
    BY <1>2, HalfFacts
  <2>2. \A s \in DOMAIN nack_map' : nack_map'[s] \in 0 .. NACK_RETRY_MAX + 1
    BY <1>3, <1>5, HalfFacts
  <2>3. ASSUME NEW x \in NumbersOf(removed) PROVE x \in Numbers
    <3>1. x \in 0 .. high /\ removed # {}
      BY DEF NumbersOf, Recent
    <3>2. Started
      BY <3>1 DEF IInv, EmptyAtFirst
    <3>3. high \in Numbers
      BY <1>4, <3>2 DEF IInv, NewestIsLast, TypeOK
    <3> QED
      BY <3>1, <3>3, BoundsAssumption DEF Numbers
  <2> QED
    BY <1>2, <1>3, <1>4, <2>1, <2>2, <2>3 DEF TypeOK
<1>7. EmptyAtFirst' /\ NewestIsLast' /\ MaxIsNewest'
  BY <1>2, <1>3 DEF IInv, EmptyAtFirst, NewestIsLast, MaxIsNewest, Started
<1>8. EntriesAreYoung'
  <2> SUFFICES ASSUME NEW s \in DOMAIN nack_map'
               PROVE  \E n \in 0 .. high' - 1 : EntryStandsFor(s, n)'
    BY DEF EntriesAreYoung
  <2> DEFINE c == nack_map[s]
  <2>1. PICK n \in 0 .. high - 1 : EntryStandsFor(s, n)
    BY <1>3 DEF IInv, EntriesAreYoung
  <2>2. c \in Nat /\ nack_map'[s] = c + 1 /\ PerTick \in Nat /\ burst \in 0 .. PerTick
    BY <1>3, <1>4, <1>5, HalfFacts DEF TypeOK
  <2>3. high - n <= PerTick * c + burst
    BY <2>1 DEF EntryStandsFor
  <2> HIDE DEF c
  <2>4. PerTick * (c + 1) = PerTick * c + PerTick /\ PerTick * c \in Nat
    BY <2>2
  <2>5. high - n <= PerTick * (c + 1) + 0
    BY <1>4, <2>2, <2>3, <2>4 DEF TypeOK
  <2>6. EntryStandsFor(s, n)'
    BY <1>2, <2>1, <2>2, <2>5 DEF EntryStandsFor
  <2> QED
    BY <1>2, <2>6
<1>9. MissingIsListed'
  <2> SUFFICES ASSUME NEW n \in Recent(base + 1 .. high - 1, high), n \notin got
               PROVE  n \in gone' \/ n \in unseen \/ seq(n) \in DOMAIN nack_map'
    BY <1>2 DEF MissingIsListed
  <2>1. n \in gone \/ n \in unseen \/ seq(n) \in DOMAIN nack_map
    BY DEF IInv, MissingIsListed
  <2>2. n \in Recent(0 .. high, high)
    BY <1>4 DEF Recent, TypeOK
  <2>3. seq(n) \in removed => n \in NumbersOf(removed)
    BY <2>2 DEF NumbersOf
  <2> QED
    BY <1>2, <2>1, <2>3
<1> QED
  BY <1>6, <1>7, <1>8, <1>9 DEF IInv

-----------------------------------------------------------------------------
(* A packet that arrives is within half the number space of the newest. *)
LEMMA ArrivalFacts ==
  ASSUME IInv, NEW n \in Numbers, Receive(n)
  PROVE  /\ n \in Nat /\ high \in Nat /\ base \in Nat /\ burst \in 0 .. PerTick
         /\ seq(n) \in Seqs /\ seq(high) \in Seqs
         /\ Started /\ last_seq = seq(high) /\ high \in got /\ got \subseteq 0 .. high
         /\ n <= high => high - n < Half
         /\ n > high => n - high < Half
<1>1. n \in Nat /\ high \in Nat /\ base \in Nat /\ burst \in 0 .. PerTick /\ Started
  BY BoundsAssumption DEF Numbers, IInv, TypeOK, Receive
<1>2. high - n <= MaxLate /\ (n > high => burst + (n - high) <= PerTick)
  BY DEF Receive
<1>3. 0 \in 0 .. NACK_RETRY_MAX + 1 /\ 0 \in 0 .. PerTick
  BY HalfFacts
<1>4. PerTick < Half
  BY <1>3, PerTickFacts
<1> QED
  BY <1>1, <1>2, <1>4, HalfFacts, SeqIsSeq DEF IInv, NewestIsLast

(* What happens to the generator. *)
LEMMA OldArrival ==
  ASSUME IInv, NEW n \in Numbers, Receive(n), n <= high
  PROVE  /\ nack_map' = IF n = high THEN nack_map ELSE without(nack_map, {seq(n)})
         /\ last_seq' = last_seq /\ burst' = burst /\ high' = high /\ base' = base
         /\ got' = Recent(got \cup {n}, high)
         /\ gone' = Recent(gone, high) /\ unseen' = Recent(unseen, high)
<1>1. n \in Nat /\ high \in Nat /\ last_seq = seq(high) /\ high - n < Half
  BY ArrivalFacts
<1>2. burst \in Nat /\ burst + 0 = burst /\ high + 0 = high
  BY ArrivalFacts, HalfFacts
<1>3. /\ burst' = burst /\ high' = high /\ base' = base
      /\ got' = Recent(got \cup {n}, high)
      /\ gone' = Recent(gone, high) /\ unseen' = Recent(unseen, high)
  <2>1. high + 1 .. n - 1 = {}
    BY <1>1
  <2>2. unseen \cup {k \in high + 1 .. n - 1 : seq(n) < seq(high + 1)} = unseen
    BY <2>1
  <2> QED
    BY <1>1, <1>2, <2>2 DEF Receive
<1>4. n # high => seq_lower_than(seq(n), seq(high)) /\ seq(n) # seq(high)
  BY <1>1, OlderIsLower, SeqsDiffer, HalfFacts
<1>5. last_seq' = last_seq
  BY <1>1, <1>4 DEF Receive, newer
<1>6. nack_map' = IF n = high THEN nack_map ELSE without(nack_map, {seq(n)})
  BY <1>1, <1>4 DEF Receive, update_nacklist
<1> QED
  BY <1>3, <1>5, <1>6

LEMMA NewArrival ==
  ASSUME IInv, NEW n \in Numbers, Receive(n), n > high
  PROVE  /\ nack_map' = with_new(nack_map, lost_between(seq(high), seq(n)))
         /\ last_seq' = seq(n) /\ burst' = burst + (n - high) /\ high' = n /\ base' = base
         /\ burst' \in 0 .. PerTick
         /\ got' = Recent(got \cup {n}, n) /\ gone' = Recent(gone, n)
         /\ unseen' = Recent(unseen \cup {k \in high + 1 .. n - 1 : seq(n) < seq(high + 1)}, n)
<1>1. n \in Nat /\ high \in Nat /\ last_seq = seq(high) /\ n - high < Half
  BY ArrivalFacts
<1>2. high + (n - high) = n /\ burst \in Nat /\ PerTick \in Nat
  BY <1>1, ArrivalFacts, HalfFacts
<1>3. burst + (n - high) <= PerTick
  BY DEF Receive
<1>4. /\ burst' = burst + (n - high) /\ high' = n /\ base' = base
      /\ got' = Recent(got \cup {n}, n) /\ gone' = Recent(gone, n)
      /\ unseen' = Recent(unseen \cup {k \in high + 1 .. n - 1 : seq(n) < seq(high + 1)}, n)
  BY <1>1, <1>2 DEF Receive
<1>5. burst' \in 0 .. PerTick
  BY <1>1, <1>2, <1>3, <1>4
<1>6. ~seq_lower_than(seq(n), seq(high)) /\ seq(n) # seq(high)
  BY <1>1, OlderIsLower, SeqsDiffer, HalfFacts
<1>7. last_seq' = seq(n)
  BY <1>1, <1>6 DEF Receive, newer
<1>8. nack_map' = with_new(nack_map, lost_between(seq(high), seq(n)))
  BY <1>1, <1>6 DEF Receive, update_nacklist
<1> QED
  BY <1>4, <1>5, <1>7, <1>8

(* What happens to the count of sequence numbers. *)
StatType == [started : BOOLEAN, max_seq : Seqs, cycles : Nat, bad_seq : 0 .. RTP_SEQ_MOD + 1]

LEMMA UpdateSeqType ==
  ASSUME NEW r \in StatType, NEW s \in Seqs
  PROVE  update_seq(r, s) \in StatType /\ (r.started => update_seq(r, s).started)
<1>1. (s + 1) % RTP_SEQ_MOD \in 0 .. RTP_SEQ_MOD + 1 /\ NoBadSeq \in 0 .. RTP_SEQ_MOD + 1
  BY HalfFacts DEF Seqs, SEQUENCE_MAX, NoBadSeq
<1>2. r.cycles \in Nat /\ r.cycles + RTP_SEQ_MOD \in Nat
  BY HalfFacts DEF StatType
<1>3. /\ [r EXCEPT !.max_seq = s, !.cycles = IF s < r.max_seq THEN @ + RTP_SEQ_MOD ELSE @] \in StatType
      /\ r.started => [r EXCEPT !.max_seq = s, !.cycles = IF s < r.max_seq THEN @ + RTP_SEQ_MOD ELSE @].started
  BY <1>2 DEF StatType
<1>4. init_seq(s) \in StatType /\ init_seq(s).started
  BY <1>1 DEF init_seq, StatType
<1>5. /\ [r EXCEPT !.bad_seq = (s + 1) % RTP_SEQ_MOD] \in StatType
      /\ r.started => [r EXCEPT !.bad_seq = (s + 1) % RTP_SEQ_MOD].started
  BY <1>1 DEF StatType
<1> QED
  BY <1>3, <1>4, <1>5 DEF update_seq

LEMMA Undisturbed ==
  ASSUME NEW n, Receive(n)
  PROVE  /\ disturbed' \in BOOLEAN
         /\ ~disturbed' => /\ ~disturbed /\ ~(high - n >= MAX_MISORDER)
                           /\ n > high => ~(n - high >= MAX_DROPOUT)
<1> DEFINE step == IF n > high THEN n - high ELSE 0
<1>1. disturbed' = (disturbed \/ high - n >= MAX_MISORDER \/ step >= MAX_DROPOUT)
  BY DEF Receive
<1>2. disturbed' \in BOOLEAN
  BY <1>1
<1>3. ~disturbed' => ~disturbed /\ ~(high - n >= MAX_MISORDER) /\ ~(step >= MAX_DROPOUT)
  BY <1>1, Zenon
<1> QED
  BY <1>2, <1>3

LEMMA StatStep ==
  ASSUME IInv, NEW n \in Numbers, Receive(n)
  PROVE  stat' \in StatType /\ stat'.started /\ MaxIsNewest'
<1>1. /\ stat \in StatType /\ stat.started /\ stat' = update_seq(stat, seq(n))
      /\ seq(n) \in Seqs
  BY ArrivalFacts DEF IInv, TypeOK, StatType, Started, Receive
<1>2. stat' \in StatType /\ stat'.started
  BY <1>1, UpdateSeqType
<1>3. /\ n \in Nat /\ high \in Nat /\ base \in Nat
      /\ seq(n) \in 0 .. RTP_SEQ_MOD - 1 /\ seq(high) \in 0 .. RTP_SEQ_MOD - 1
      /\ RTP_SEQ_MOD \in Nat \ {0}
  BY ArrivalFacts, HalfFacts DEF Seqs, SEQUENCE_MAX
<1>4. /\ MAX_DROPOUT \in Nat \ {0} /\ MAX_MISORDER \in Nat \ {0}
      /\ MAX_DROPOUT + MAX_MISORDER <= RTP_SEQ_MOD
  BY LimitsAssumption
<1> SUFFICES ASSUME ~disturbed'
             PROVE  /\ stat'.max_seq = seq(high')
                    /\ stat'.cycles + stat'.max_seq = seq(base') + (high' - base')
  BY <1>2 DEF MaxIsNewest
<1>5. /\ stat.max_seq = seq(high) /\ stat.cycles \in Nat /\ seq(base) \in Int
      /\ stat.cycles + stat.max_seq = seq(base) + (high - base)
  <2>1. ~disturbed
    BY Undisturbed
  <2>2. seq(base) \in Int
    BY <1>3, SeqIsSeq, HalfFacts DEF Seqs, SEQUENCE_MAX
  <2> QED
    BY <1>1, <2>1, <2>2 DEF IInv, MaxIsNewest, Started, StatType
<1> DEFINE udelta == (seq(n) - seq(high)) % RTP_SEQ_MOD
           up == [stat EXCEPT !.max_seq = seq(n),
                              !.cycles = IF seq(n) < stat.max_seq THEN @ + RTP_SEQ_MOD ELSE @]
<1>6. CASE n >= high
  <2> DEFINE d == n - high
  <2>1. high' = n /\ base' = base /\ d < MAX_DROPOUT
    <3>1. CASE n = high
      <4>1. high' = high /\ base' = base
        <5>1. n <= high
          BY <1>3, <3>1
        <5> QED
          BY <5>1, OldArrival, Zenon
      <4> QED
        BY <1>3, <1>4, <3>1, <4>1
    <3>2. CASE n > high
      <4>1. high' = n /\ base' = base
        BY <3>2, NewArrival
      <4>2. ~(n - high >= MAX_DROPOUT)
        BY <3>2, Undisturbed
      <4> QED
        BY <1>3, <1>4, <4>1, <4>2
    <3> QED
      BY <1>3, <1>6, <3>1, <3>2
  <2>2. d \in 0 .. RTP_SEQ_MOD - 1 /\ d < RTP_SEQ_MOD
    BY <1>3, <1>4, <1>6, <2>1
  <2>3. seq(n) \in {seq(high) + d, seq(high) + d - RTP_SEQ_MOD}
    BY <1>3, <1>6, <2>2, SeqDistance
  <2> HIDE DEF d
  <2>4. seq(n) - seq(high) \in Int
        /\ (seq(n) - seq(high) = d \/ seq(n) - seq(high) = d - RTP_SEQ_MOD)
    BY <1>3, <2>2, <2>3
  <2>5. udelta = d
    BY <1>3, <2>2, <2>4, ModOfDistance
  <2>6. stat' = up
    BY <1>1, <1>5, <2>1, <2>5 DEF update_seq
  <2>7. /\ stat'.max_seq = seq(n)
        /\ stat'.cycles = IF seq(n) < seq(high) THEN stat.cycles + RTP_SEQ_MOD ELSE stat.cycles
    BY <1>1, <1>5, <2>6 DEF StatType
  <2>8. stat'.cycles + stat'.max_seq = stat.cycles + stat.max_seq + d
    BY <1>3, <1>5, <2>2, <2>3, <2>7
  <2> QED
    BY <1>3, <1>5, <2>1, <2>7, <2>8 DEF d
<1>7. CASE n < high
  <2> DEFINE d == high - n
             e == RTP_SEQ_MOD - d
  <2>1. high' = high /\ base' = base /\ d < MAX_MISORDER
    <3>1. high' = high /\ base' = base
      <4>1. n <= high
        BY <1>3, <1>7
      <4> QED
        BY <4>1, OldArrival, Zenon
    <3>2. ~(high - n >= MAX_MISORDER)
      BY Undisturbed
    <3> QED
      BY <1>3, <1>4, <3>1, <3>2
  <2>2. d \in 1 .. RTP_SEQ_MOD - 1 /\ d < RTP_SEQ_MOD /\ e \in 0 .. RTP_SEQ_MOD - 1
        /\ ~(e < MAX_DROPOUT) /\ e > RTP_SEQ_MOD - MAX_MISORDER
    BY <1>3, <1>4, <1>7, <2>1
  <2>3. seq(high) \in {seq(n) + d, seq(n) + d - RTP_SEQ_MOD}
    BY <1>3, <1>7, <2>2, SeqDistance
  <2>4. seq(n) - seq(high) \in Int
        /\ (seq(n) - seq(high) = e \/ seq(n) - seq(high) = e - RTP_SEQ_MOD)
    BY <1>3, <2>2, <2>3
  <2> HIDE DEF d, e
  <2>5. udelta = e
    BY <1>3, <2>2, <2>4, ModOfDistance
  <2>6. stat' = stat
    BY <1>1, <1>5, <2>2, <2>5 DEF update_seq
  <2> QED
    BY <1>5, <2>1, <2>6
<1> QED
  BY <1>3, <1>6, <1>7

-----------------------------------------------------------------------------
LEMMA OldStep ==
  ASSUME IInv, NEW n \in Numbers, Receive(n), n <= high
  PROVE  IInv'
<1>1. /\ n \in Nat /\ high \in Nat /\ base \in Nat /\ Half \in Nat /\ Half <= RTP_SEQ_MOD
      /\ Started /\ last_seq = seq(high) /\ high \in got /\ got \subseteq 0 .. high
      /\ high - n < Half /\ Half > 0 /\ RTP_SEQ_MOD \in Nat
  BY ArrivalFacts, HalfFacts
<1>2. /\ DOMAIN nack_map' \subseteq DOMAIN nack_map
      /\ \A s \in DOMAIN nack_map' : nack_map'[s] = nack_map[s]
      /\ n # high => seq(n) \notin DOMAIN nack_map'
      /\ \A s \in DOMAIN nack_map : s # seq(n) => s \in DOMAIN nack_map'
      /\ n = high => nack_map' = nack_map
  <2>1. CASE n = high
    BY <2>1, OldArrival
  <2>2. CASE n # high
    BY <2>2, OldArrival DEF without
  <2> QED
    BY <2>1, <2>2
<1>3. /\ last_seq' = last_seq /\ burst' = burst /\ high' = high /\ base' = base
      /\ got' = Recent(got \cup {n}, high)
      /\ gone' = Recent(gone, high) /\ unseen' = Recent(unseen, high)
  BY OldArrival
<1>4. stat' \in StatType /\ stat'.started /\ MaxIsNewest'
  BY StatStep
<1>5. TypeOK'
  <2>1. TypeOK
    BY DEF IInv
  <2>2. got' \subseteq Numbers /\ gone' \subseteq Numbers /\ unseen' \subseteq Numbers
    BY <1>3, <2>1 DEF Recent, TypeOK
  <2>3. disturbed' \in BOOLEAN
    BY Undisturbed
  <2> QED
    BY <1>2, <1>3, <1>4, <2>1, <2>2, <2>3 DEF TypeOK, StatType
<1>6. EmptyAtFirst'
  BY <1>4 DEF EmptyAtFirst, Started
<1>7. NewestIsLast'
  <2>1. high - high < RTP_SEQ_MOD \div 2
    BY <1>1 DEF Half
  <2>2. got \cup {n} \subseteq 0 .. high
    BY <1>1
  <2>3. high \in got' /\ got' \subseteq 0 .. high
    BY <1>1, <1>3, <2>1, <2>2, InRecent
  <2> QED
    BY <1>1, <1>3, <2>3 DEF NewestIsLast
<1>8. EntriesAreYoung'
  <2> SUFFICES ASSUME NEW s \in DOMAIN nack_map'
               PROVE  \E k \in 0 .. high - 1 : EntryStandsFor(s, k)'
    BY <1>3 DEF EntriesAreYoung
  <2>1. PICK k \in 0 .. high - 1 : EntryStandsFor(s, k)
    BY <1>2 DEF IInv, EntriesAreYoung
  <2>2. k # n
    BY <1>1, <1>2, <2>1 DEF EntryStandsFor
  <2>3. k \notin got'
    BY <1>3, <2>1, <2>2 DEF Recent, EntryStandsFor
  <2>4. EntryStandsFor(s, k)'
    BY <1>2, <1>3, <2>1, <2>3 DEF EntryStandsFor
  <2> QED
    BY <2>4
<1>9. MissingIsListed'
  <2> SUFFICES ASSUME NEW k \in Recent(base + 1 .. high - 1, high), k \notin got'
               PROVE  k \in gone' \/ k \in unseen' \/ seq(k) \in DOMAIN nack_map'
    BY <1>3 DEF MissingIsListed
  <2>1. k \in Nat /\ k < high /\ high - k < Half
    BY <1>1 DEF Recent, Half
  <2>2. k # n /\ k \notin got
    BY <1>3, <2>1 DEF Recent, Half
  <2>3. k \in gone \/ k \in unseen \/ seq(k) \in DOMAIN nack_map
    BY <2>2 DEF IInv, MissingIsListed
  <2>4. seq(k) # seq(n)
    <3>1. CASE k < n
      BY <1>1, <2>1, <3>1, SeqsDiffer
    <3>2. CASE n < k
      BY <1>1, <2>1, <3>2, SeqsDiffer
    <3> QED
      BY <1>1, <2>1, <2>2, <3>1, <3>2
  <2>5. k \in gone => k \in gone'
    BY <1>3, <2>1 DEF Recent, Half
  <2>6. k \in unseen => k \in unseen'
    BY <1>3, <2>1 DEF Recent, Half
  <2> QED
    BY <1>2, <2>3, <2>4, <2>5, <2>6
<1> QED
  BY <1>4, <1>5, <1>6, <1>7, <1>8, <1>9 DEF IInv

LEMMA NewStep ==
  ASSUME IInv, NEW n \in Numbers, Receive(n), n > high
  PROVE  IInv'
<1> DEFINE lost == lost_between(seq(high), seq(n))
<1>1. /\ n \in Nat /\ high \in Nat /\ base \in Nat /\ Half \in Nat /\ Half <= RTP_SEQ_MOD
      /\ Started /\ last_seq = seq(high) /\ high \in got /\ got \subseteq 0 .. high
      /\ n - high < Half /\ Half > 0 /\ RTP_SEQ_MOD \in Nat /\ burst \in Nat
  BY ArrivalFacts, HalfFacts
<1>2. /\ DOMAIN nack_map' = DOMAIN nack_map \cup lost
      /\ \A s \in DOMAIN nack_map' :
           nack_map'[s] = IF s \in DOMAIN nack_map THEN nack_map[s] ELSE 0
  BY NewArrival DEF with_new
<1>3. /\ last_seq' = seq(n) /\ burst' = burst + (n - high) /\ high' = n /\ base' = base
      /\ burst' \in 0 .. PerTick
      /\ got' = Recent(got \cup {n}, n) /\ gone' = Recent(gone, n)
      /\ unseen' = Recent(unseen \cup {k \in high + 1 .. n - 1 : seq(n) < seq(high + 1)}, n)
  BY NewArrival
<1>4. stat' \in StatType /\ stat'.started /\ MaxIsNewest'
  BY StatStep
<1>5. \A s \in DOMAIN nack_map : nack_map[s] \in 0 .. NACK_RETRY_MAX + 1
  BY DEF IInv, TypeOK
<1>6. /\ seq(n) \in 0 .. RTP_SEQ_MOD - 1 /\ seq(high) \in 0 .. RTP_SEQ_MOD - 1
      /\ seq(n) \in {seq(high) + (n - high), seq(high) + (n - high) - RTP_SEQ_MOD}
  BY <1>1, SeqDistance, HalfFacts DEF Seqs, SEQUENCE_MAX
<1> DEFINE next == IF seq(high) = RTP_SEQ_MOD - 1 THEN 0 ELSE seq(high) + 1
<1>12. seq(high + 1) = next /\ get_seq(seq(high) + 1) = next
  <2>1. 1 \in 0 .. RTP_SEQ_MOD - 1 /\ RTP_SEQ_MOD \in Nat \ {0}
    BY SeqModAssumption
  <2>2. seq(high + 1) = IF seq(high) + 1 < RTP_SEQ_MOD THEN seq(high) + 1
                       ELSE seq(high) + 1 - RTP_SEQ_MOD
    BY <1>1, <2>1, SeqPlus
  <2>3. get_seq(seq(high) + 1) = next
    BY <1>6, <2>1 DEF get_seq
  <2> QED
    BY <1>6, <2>1, <2>2, <2>3
<1>7. TypeOK'
  <2>1. TypeOK
    BY DEF IInv
  <2>2. high + 1 .. n - 1 \subseteq Numbers
    BY <1>1, BoundsAssumption DEF Numbers
  <2>3. got' \subseteq Numbers /\ gone' \subseteq Numbers /\ unseen' \subseteq Numbers
    BY <1>3, <2>1, <2>2 DEF Recent, TypeOK
  <2>4. disturbed' \in BOOLEAN
    BY Undisturbed
  <2>5. \A s \in DOMAIN nack_map' : nack_map'[s] \in 0 .. NACK_RETRY_MAX + 1
    BY <1>2, <1>5, HalfFacts
  <2>6. DOMAIN nack_map' \subseteq Seqs
    BY <1>2, <2>1 DEF TypeOK, lost_between
  <2>7. last_seq' \in Seqs
    BY <1>1, <1>3, SeqIsSeq
  <2> QED
    BY <1>1, <1>3, <1>4, <2>1, <2>3, <2>4, <2>5, <2>6, <2>7 DEF TypeOK, StatType
<1>8. EmptyAtFirst'
  BY <1>4 DEF EmptyAtFirst, Started
<1>9. NewestIsLast'
  <2>1. n - n < RTP_SEQ_MOD \div 2
    BY <1>1 DEF Half
  <2>2. n \in got \cup {n} /\ got \cup {n} \subseteq 0 .. n
    BY <1>1
  <2>3. n \in got' /\ got' \subseteq 0 .. n
    BY <1>3, <2>1, <2>2, InRecent
  <2> QED
    BY <1>3, <2>3 DEF NewestIsLast
<1>10. EntriesAreYoung'
  <2> SUFFICES ASSUME NEW s \in DOMAIN nack_map'
               PROVE  \E k \in 0 .. n - 1 : EntryStandsFor(s, k)'
    BY <1>3 DEF EntriesAreYoung
  <2>1. CASE s \in DOMAIN nack_map
    <3> DEFINE age == PerTick * nack_map[s]
    <3>1. PICK k \in 0 .. high - 1 : EntryStandsFor(s, k)
      BY <2>1 DEF IInv, EntriesAreYoung
    <3>2. seq(k) = s /\ k \notin got /\ high - k <= age + burst /\ age \in Nat
      BY <1>5, <2>1, <3>1, HalfFacts DEF EntryStandsFor
    <3>3. nack_map'[s] = nack_map[s]
      BY <1>2, <2>1
    <3> HIDE DEF age
    <3>4. k \in 0 .. n - 1 /\ n - k <= age + (burst + (n - high))
      BY <1>1, <3>2
    <3>5. k \notin got'
      BY <1>1, <1>3, <3>2, <3>4 DEF Recent
    <3>6. EntryStandsFor(s, k)'
      BY <1>3, <3>2, <3>3, <3>4, <3>5 DEF EntryStandsFor, age
    <3> QED
      BY <3>4, <3>6
  <2>2. CASE s \notin DOMAIN nack_map
    <3> DEFINE d == IF seq(high) = RTP_SEQ_MOD - 1 THEN s + 1 ELSE s - seq(high)
    <3>1. s \in 0 .. RTP_SEQ_MOD - 1 /\ next <= s /\ s < seq(n)
      BY <1>2, <1>12, <2>2 DEF lost_between, Seqs, SEQUENCE_MAX
    <3>2. d \in 1 .. RTP_SEQ_MOD - 1 /\ high + d \in 0 .. n - 1
      BY <1>1, <1>6, <3>1
    <3>3. PICK k \in 0 .. n - 1 : k = high + d
      BY <3>2
    <3>4. seq(k) = s
      <4>1. d \in 0 .. RTP_SEQ_MOD - 1
        BY <1>1, <3>2
      <4>2. seq(high + d) = IF seq(high) + d < RTP_SEQ_MOD THEN seq(high) + d
                           ELSE seq(high) + d - RTP_SEQ_MOD
        BY <1>1, <4>1, SeqPlus
      <4>3. (IF seq(high) + d < RTP_SEQ_MOD THEN seq(high) + d
             ELSE seq(high) + d - RTP_SEQ_MOD) = s
        BY <1>1, <1>6, <3>1
      <4> QED
        BY <3>3, <4>2, <4>3
    <3>5. k \notin got'
      BY <1>1, <1>3, <3>2, <3>3 DEF Recent
    <3>6. nack_map'[s] = 0 /\ PerTick * 0 = 0
      BY <1>2, <2>2, HalfFacts
    <3>7. n - k <= PerTick * 0 + (burst + (n - high))
      BY <1>1, <3>2, <3>3, <3>6
    <3>8. EntryStandsFor(s, k)'
      BY <1>3, <3>4, <3>5, <3>6, <3>7 DEF EntryStandsFor
    <3> QED
      BY <3>8
  <2> QED
    BY <2>1, <2>2
<1>11. MissingIsListed'
  <2> SUFFICES ASSUME NEW k \in Recent(base + 1 .. n - 1, n), k \notin got'
               PROVE  k \in gone' \/ k \in unseen' \/ seq(k) \in DOMAIN nack_map'
    BY <1>3 DEF MissingIsListed
  <2>1. /\ k \in Nat /\ base + 1 <= k /\ k < n /\ n - k < RTP_SEQ_MOD \div 2
        /\ high - k < RTP_SEQ_MOD \div 2
    BY <1>1 DEF Recent, Half
  <2>2. k \notin got /\ k # high
    BY <1>1, <1>3, <2>1 DEF Recent
  <2>3. CASE k < high
    <3>1. k \in Recent(base + 1 .. high - 1, high)
      BY <1>1, <2>1, <2>3 DEF Recent
    <3>2. k \in gone \/ k \in unseen \/ seq(k) \in DOMAIN nack_map
      BY <2>2, <3>1 DEF IInv, MissingIsListed
    <3>3. k \in gone => k \in gone'
      BY <1>3, <2>1 DEF Recent
    <3>4. k \in unseen => k \in unseen'
      BY <1>3, <2>1 DEF Recent
    <3> QED
      BY <1>2, <3>2, <3>3, <3>4
  <2>4. CASE k > high /\ seq(n) < seq(high + 1)
    <3>1. k \in high + 1 .. n - 1
      BY <1>1, <2>1, <2>4
    <3> QED
      BY <1>3, <2>1, <2>4, <3>1 DEF Recent
  <2>5. CASE k > high /\ ~(seq(n) < seq(high + 1))
    <3> DEFINE d == k - high
    <3>1. d \in 0 .. RTP_SEQ_MOD - 1 /\ d > 0 /\ d < n - high /\ k = high + d
      BY <1>1, <2>1, <2>5
    <3> HIDE DEF d
    <3>2. seq(n) = next + (n - high) - 1
      BY <1>1, <1>6, <1>12, <2>5, <3>1
    <3>3. seq(k) = next + d - 1
      <4>1. seq(k) = IF seq(high) + d < RTP_SEQ_MOD THEN seq(high) + d
                     ELSE seq(high) + d - RTP_SEQ_MOD
        BY <1>1, <3>1, SeqPlus
      <4> QED
        BY <1>1, <1>6, <3>1, <3>2, <4>1
    <3>4. seq(k) \in 0 .. RTP_SEQ_MOD - 1 /\ next <= seq(k) /\ seq(k) < seq(n)
      BY <1>1, <1>6, <3>1, <3>2, <3>3
    <3>5. seq(k) \in lost
      BY <1>12, <3>4 DEF lost_between, Seqs, SEQUENCE_MAX
    <3> QED
      BY <1>2, <3>5
  <2> QED
    BY <1>1, <2>1, <2>2, <2>3, <2>4, <2>5
<1> QED
  BY <1>4, <1>7, <1>8, <1>9, <1>10, <1>11 DEF IInv

LEMMA NextInv == IInv /\ [Next]_vars => IInv'
<1> SUFFICES ASSUME IInv, [Next]_vars PROVE IInv'
  OBVIOUS
<1>1. CASE \E n \in Numbers : ReceiveFirst(n)
  BY <1>1, FirstStep
<1>2. CASE \E n \in Numbers : Receive(n)
  <2>1. PICK n \in Numbers : Receive(n)
    BY <1>2
  <2>2. n \in Nat /\ high \in Nat
    BY <2>1, ArrivalFacts
  <2> QED
    BY <2>1, <2>2, OldStep, NewStep
<1>3. CASE OnTimer
  BY <1>3, TimerStep
<1>4. CASE UNCHANGED vars
  <2>1. /\ UNCHANGED <<burst, stat, last_seq, nack_map, base>>
        /\ UNCHANGED <<high, got, gone, unseen, disturbed>>
    BY <1>4 DEF vars
  <2>2. TypeOK' /\ EmptyAtFirst' /\ NewestIsLast' /\ MaxIsNewest' /\ MissingIsListed'
    BY <2>1 DEF IInv, TypeOK, EmptyAtFirst, NewestIsLast, MaxIsNewest, MissingIsListed, Started
  <2>3. EntriesAreYoung'
    BY <2>1 DEF IInv, EntriesAreYoung, EntryStandsFor
  <2> QED
    BY <2>2, <2>3 DEF IInv
<1> QED
  BY <1>1, <1>2, <1>3, <1>4 DEF Next

LEMMA InductiveInvariant == Spec => []IInv
  BY InitInv, NextInv, PTL DEF Spec

-----------------------------------------------------------------------------
(***************************************************************************)
(* Retransmission: the buffer holds a window of the packets seen, the      *)
(* newest ones.  The window spans fewer numbers than there are, so that    *)
(* every packet of it has a key of its own and the keys, read from that of *)
(* the oldest packet on and around the end of the map, are in the order of *)
(* the packets.                                                            *)
(***************************************************************************)
LEMMA RelayFacts ==
  /\ RTP_SEQ_MOD \in Nat \ {0} /\ RTP_BUFFER_MAX \in Nat /\ MaxNumber \in Nat
  /\ RTP_BUFFER_MAX > 1
  BY RelayAssumption, SeqModAssumption

LEMMA KeyAfter ==
  ASSUME NEW n \in Nat, NEW k \in Nat, n <= k, k - n < RTP_SEQ_MOD
  PROVE  /\ get_seq(n) \in 0 .. RTP_SEQ_MOD - 1
         /\ get_seq(k) = IF get_seq(n) + (k - n) < RTP_SEQ_MOD THEN get_seq(n) + (k - n)
                         ELSE get_seq(n) + (k - n) - RTP_SEQ_MOD
<1> DEFINE d == k - n
<1>1. d \in 0 .. RTP_SEQ_MOD - 1 /\ k = n + d /\ RTP_SEQ_MOD \in Nat \ {0}
  BY RelayFacts
<1> HIDE DEF d
<1>2. n % RTP_SEQ_MOD \in 0 .. RTP_SEQ_MOD - 1
  BY <1>1, ModIsRemainder
<1>3. (n + d) % RTP_SEQ_MOD = IF (n % RTP_SEQ_MOD) + d < RTP_SEQ_MOD THEN (n % RTP_SEQ_MOD) + d
                              ELSE (n % RTP_SEQ_MOD) + d - RTP_SEQ_MOD
  BY <1>1, ModPlus
<1>4. get_seq(n) = n % RTP_SEQ_MOD /\ get_seq(k) = (n + d) % RTP_SEQ_MOD
  BY <1>1 DEF get_seq
<1> QED
  BY <1>2, <1>3, <1>4 DEF d

LEMMA KeysDiffer ==
  ASSUME NEW n \in Nat, NEW k \in Nat, n < k, k - n < RTP_SEQ_MOD
  PROVE  get_seq(n) # get_seq(k)
<1> DEFINE s == get_seq(n)
           t == get_seq(k)
<1>1. /\ s \in 0 .. RTP_SEQ_MOD - 1
      /\ t = IF s + (k - n) < RTP_SEQ_MOD THEN s + (k - n) ELSE s + (k - n) - RTP_SEQ_MOD
  BY KeyAfter
<1>2. RTP_SEQ_MOD \in Nat
  BY RelayFacts
<1> HIDE DEF s, t
<1>3. s # t
  BY <1>1, <1>2
<1> QED
  BY <1>3 DEF s, t

(* Fewer than RTP_SEQ_MOD numbers from lo on.                                *)
Close(V, lo) == V \subseteq Nat /\ \A m \in V : lo <= m /\ m - lo < RTP_SEQ_MOD

LEMMA KeysOfClose ==
  ASSUME NEW lo \in Nat, NEW V, Close(V, lo), IsFiniteSet(V)
  PROVE  /\ \A m, n \in V : get_seq(m) = get_seq(n) => m = n
         /\ Cardinality({get_seq(m) : m \in V}) = Cardinality(V)
<1>1. ASSUME NEW m \in V, NEW n \in V, m # n PROVE get_seq(m) # get_seq(n)
  <2>1. m \in Nat /\ n \in Nat /\ lo <= m /\ lo <= n /\ m - lo < RTP_SEQ_MOD /\ n - lo < RTP_SEQ_MOD
    BY DEF Close
  <2>2. RTP_SEQ_MOD \in Nat
    BY RelayFacts
  <2>3. CASE m < n
    <3>1. n - m < RTP_SEQ_MOD
      BY <2>1, <2>2
    <3> QED
      BY <2>1, <2>3, <3>1, KeysDiffer
  <2>4. CASE n < m
    <3>1. m - n < RTP_SEQ_MOD
      BY <2>1, <2>2
    <3> QED
      BY <2>1, <2>4, <3>1, KeysDiffer
  <2> QED
    BY <1>1, <2>1, <2>3, <2>4
<1> DEFINE T == {get_seq(m) : m \in V}
           f == [m \in V |-> get_seq(m)]
<1>2. f \in Bijection(V, T)
  <2>1. f \in [V -> T]
    OBVIOUS
  <2>2. \A a, b \in V : f[a] = f[b] => a = b
    BY <1>1
  <2>3. \A t \in T : \E s \in V : f[s] = t
    OBVIOUS
  <2> QED
    BY <2>1, <2>2, <2>3 DEF Bijection, Injection, Surjection, IsInjective
<1>3. ExistsBijection(V, T)
  BY <1>2 DEF ExistsBijection
<1>4. Cardinality(T) = Cardinality(V)
  BY <1>3, FS_Bijection
<1> QED
  BY <1>1, <1>4

(* What follows the oldest packet's key is that of the next oldest packet.   *)
LEMMA NextKey ==
  ASSUME NEW lo \in Nat, NEW V, Close(V, lo), NEW min \in V,
         \A m \in V : lo < m /\ min <= m
  PROVE  next_key({get_seq(m) : m \in V}, get_seq(lo)) = get_seq(min)
<1> DEFINE K == {get_seq(m) : m \in V}
           s == get_seq(lo)
           t == get_seq(min)
           M == RTP_SEQ_MOD
           behind == {k \in K : k > s}
           S == IF behind # {} THEN behind ELSE K
<1>1. M \in Nat \ {0}
  BY RelayFacts
<1>2. /\ s \in 0 .. M - 1
      /\ \A m \in V : /\ m \in Nat /\ lo < m /\ min <= m /\ m - lo < M
                      /\ get_seq(m) = IF s + (m - lo) < M THEN s + (m - lo) ELSE s + (m - lo) - M
  <2>1. ASSUME NEW m \in V
        PROVE  /\ m \in Nat /\ lo < m /\ min <= m /\ m - lo < M /\ s \in 0 .. M - 1
               /\ get_seq(m) = IF s + (m - lo) < M THEN s + (m - lo) ELSE s + (m - lo) - M
    <3>1. m \in Nat /\ lo < m /\ min <= m /\ m - lo < M
      BY DEF Close
    <3> QED
      BY <3>1, KeyAfter
  <2> QED
    BY <2>1
<1>3. \A k \in K : \E m \in V : k = get_seq(m)
  OBVIOUS
<1>4. t \in K /\ min \in V /\ t = IF s + (min - lo) < M THEN s + (min - lo) ELSE s + (min - lo) - M
  BY <1>2
<1> HIDE DEF s, t, K, M
<1>5. K \subseteq Int
  BY <1>1, <1>2, <1>3
<1>6. t \in S /\ \A k \in S : t <= k
  <2>1. ASSUME NEW m \in V
        PROVE  /\ get_seq(m) > s => t > s /\ t <= get_seq(m)
               /\ ~(t > s) => t <= get_seq(m)
    <3> DEFINE k == get_seq(m)
    <3>1. /\ k = IF s + (m - lo) < M THEN s + (m - lo) ELSE s + (m - lo) - M
          /\ m \in Nat /\ lo < m /\ min <= m /\ m - lo < M /\ min \in Nat /\ lo < min /\ min - lo < M
      BY <1>2
    <3> HIDE DEF k
    <3> QED
      BY <1>1, <1>2, <1>4, <3>1 DEF k
  <2>2. CASE t > s
    <3>1. t \in behind
      BY <1>4, <2>2
    <3>2. ASSUME NEW k \in behind PROVE t <= k
      <4>1. PICK m \in V : k = get_seq(m)
        BY <1>3
      <4> QED
        BY <2>1, <4>1
    <3> QED
      BY <3>1, <3>2
  <2>3. CASE ~(t > s)
    <3>1. behind = {}
      BY <1>3, <2>1, <2>3
    <3>2. ASSUME NEW k \in K PROVE t <= k
      <4>1. PICK m \in V : k = get_seq(m)
        BY <1>3
      <4> QED
        BY <2>1, <2>3, <4>1
    <3> QED
      BY <1>4, <3>1, <3>2
  <2> QED
    BY <2>2, <2>3
<1>7. S \subseteq Int
  BY <1>5
<1>8. next_key(K, s) = CHOOSE k \in S : \A l \in S : k <= l
  BY DEF next_key
<1> HIDE DEF S
<1>9. (CHOOSE k \in S : \A l \in S : k <= l) = t
  <2>1. \A k \in S : (\A l \in S : k <= l) => k = t
    BY <1>6, <1>7
  <2> QED
    BY <1>6, <2>1
<1> QED
  BY <1>8, <1>9 DEF K, s, t

Above(S, n) == {m \in S : m > n}

LEMMA AboveIsFinite ==
  ASSUME NEW S, IsFiniteSet(S), NEW n
  PROVE  IsFiniteSet(Above(S, n)) /\ Cardinality(Above(S, n)) \in Nat
<1>1. Above(S, n) \in SUBSET S
  BY DEF Above
<1> QED
  BY <1>1, FS_Subset, FS_CardinalityType

(* As long as there is room all packets are among the newest.                *)
LEMMA AllAreNewest ==
  ASSUME NEW V, V \subseteq Nat, IsFiniteSet(V), Cardinality(V) <= RTP_BUFFER_MAX
  PROVE  Newest(V) = V
<1>1. ASSUME NEW n \in V PROVE Cardinality(Above(V, n)) < RTP_BUFFER_MAX
  <2>1. IsFiniteSet(V \ {n}) /\ Cardinality(V \ {n}) = Cardinality(V) - 1
    BY FS_RemoveElement
  <2>2. Above(V, n) \in SUBSET (V \ {n})
    BY DEF Above
  <2>3. /\ Cardinality(Above(V, n)) <= Cardinality(V \ {n}) /\ Cardinality(Above(V, n)) \in Nat
        /\ Cardinality(V) \in Nat
    BY <2>1, <2>2, FS_Subset, AboveIsFinite, FS_CardinalityType
  <2> QED
    BY <2>1, <2>3, RelayFacts
<1> QED
  BY <1>1 DEF Newest, Above

(* One packet too many: all but the oldest.                                  *)
LEMMA AllButOldest ==
  ASSUME NEW V, V \subseteq Nat, IsFiniteSet(V), Cardinality(V) = RTP_BUFFER_MAX + 1,
         NEW lo \in V, \A m \in V : lo <= m
  PROVE  Newest(V) = V \ {lo}
<1> DEFINE B == RTP_BUFFER_MAX
           X == V \ {lo}
<1>1. B \in Nat
  BY RelayFacts
<1>2. IsFiniteSet(X) /\ Cardinality(X) = B
  <2>1. IsFiniteSet(X) /\ Cardinality(X) = Cardinality(V) - 1
    BY FS_RemoveElement
  <2> QED
    BY <1>1, <2>1
<1>3. ~(Cardinality(Above(V, lo)) < B)
  <2>1. Above(V, lo) = X
    <3>1. ASSUME NEW m \in V PROVE m > lo <=> m # lo
      <4>1. m \in Nat /\ lo \in Nat /\ lo <= m
        OBVIOUS
      <4> QED
        BY <4>1
    <3> QED
      BY <3>1 DEF Above
  <2>2. Cardinality(Above(V, lo)) = B
    BY <1>2, <2>1
  <2> QED
    BY <1>1, <2>2
<1>4. ASSUME NEW n \in X PROVE Cardinality(Above(V, n)) < B
  <2>1. IsFiniteSet(X \ {n}) /\ Cardinality(X \ {n}) = Cardinality(X) - 1
    BY <1>2, FS_RemoveElement
  <2>2. Above(V, n) \in SUBSET (X \ {n})
    <3>1. n \in Nat /\ lo \in Nat /\ lo <= n
      OBVIOUS
    <3>2. ~(lo > n) /\ ~(n > n)
      BY <3>1
    <3> QED
      BY <3>2 DEF Above
  <2>3. Cardinality(Above(V, n)) <= Cardinality(X \ {n}) /\ Cardinality(Above(V, n)) \in Nat
    BY <2>1, <2>2, FS_Subset, AboveIsFinite
  <2> QED
    BY <1>1, <1>2, <2>1, <2>3
<1> QED
  BY <1>3, <1>4 DEF Newest, Above

(* The buffer b holds the packets of W, each under its key; first_seq_ is    *)
(* the key of the oldest one, unless that is 0.                              *)
Holds(W, lo, b) ==
  /\ DOMAIN b.map = {get_seq(m) : m \in W}
  /\ \A m \in W : b.map[get_seq(m)] = m
  /\ get_seq(lo) = 0 \/ b.first_seq_ = get_seq(lo)

(* What save_buffer makes of b and n before anything leaves.                 *)
KeysWith(b, n) == DOMAIN b.map \cup {get_seq(n)}

MapWith(b, n) == [s \in KeysWith(b, n) |-> IF s = get_seq(n) THEN n ELSE b.map[s]]

FirstWith(b, n) == IF b.first_seq_ = 0 THEN get_seq(n) ELSE b.first_seq_

Stores(V, lo, b, n) ==
  /\ KeysWith(b, n) = {get_seq(m) : m \in V}
  /\ \A m \in V : MapWith(b, n)[get_seq(m)] = m
  /\ get_seq(lo) = 0 \/ FirstWith(b, n) = get_seq(lo)

LEMMA PacketStored ==
  ASSUME NEW W, NEW lo \in W, NEW b, Holds(W, lo, b), NEW n,
         \A m \in W : get_seq(m) = get_seq(n) => m = n
  PROVE  Stores(W \cup {n}, lo, b, n)
<1>1. KeysWith(b, n) = {get_seq(m) : m \in W \cup {n}}
  BY DEF Holds, KeysWith
<1>2. ASSUME NEW m \in W \cup {n} PROVE MapWith(b, n)[get_seq(m)] = m
  <2>1. get_seq(m) \in KeysWith(b, n)
    BY <1>1
  <2>2. CASE get_seq(m) = get_seq(n)
    BY <2>1, <2>2 DEF MapWith
  <2>3. CASE get_seq(m) # get_seq(n)
    BY <2>1, <2>3 DEF Holds, MapWith
  <2> QED
    BY <2>2, <2>3
<1>3. get_seq(lo) = 0 \/ FirstWith(b, n) = get_seq(lo)
  BY DEF Holds, FirstWith
<1> QED
  BY <1>1, <1>2, <1>3 DEF Stores

LEMMA LeastOf ==
  ASSUME NEW V, V \subseteq Nat, V # {}
  PROVE  \E l \in V : \A m \in V : l <= m
<1> DEFINE R == OpToRel(<, Nat)
<1>1. IsWellFoundedOn(R, Nat)
  BY NatLessThanWellFounded
<1>2. \A a, b \in Nat : a < b => <<a, b>> \in R
  BY DEF OpToRel
<1> HIDE DEF R
<1>3. PICK l \in V : \A y \in V : ~(<<y, l>> \in R)
  BY <1>1, WFMin
<1>4. ASSUME NEW m \in V PROVE l <= m
  <2>1. m \in Nat /\ l \in Nat /\ ~(m < l)
    BY <1>2, <1>3
  <2> QED
    BY <2>1
<1> QED
  BY <1>3, <1>4

(* The newest packets are within one round of numbers and in the buffer.     *)
Buffered(W, b) ==
  \/ W = {} /\ DOMAIN b.map = {} /\ b.first_seq_ = 0
  \/ \E lo \in W : Close(W, lo) /\ Holds(W, lo, b)

(* One packet relayed: it is among the newest, or there is room for it, or   *)
(* the oldest one leaves, which is not the one with number 0 by assumption.  *)
LEMMA PacketSaved ==
  ASSUME NEW W, W \subseteq Nat, IsFiniteSet(W), Cardinality(W) <= RTP_BUFFER_MAX,
         NEW lo \in W, Close(W, lo), NEW b, Holds(W, lo, b),
         NEW n \in Nat, ~Upsets(W, n)
  PROVE  Buffered(Newest(W \cup {n}), save_buffer(b, n))
<1> DEFINE B == RTP_BUFFER_MAX
           keys == KeysWith(b, n)
           map == MapWith(b, n)
           first == FirstWith(b, n)
           kept == keys \ {first}
           saved == [map |-> map, first_seq_ |-> first]
           rest == [map |-> [s \in kept |-> map[s]], first_seq_ |-> next_key(kept, first)]
           V == W \cup {n}
<1>1. save_buffer(b, n) = IF Cardinality(keys) <= B THEN saved ELSE rest
  BY DEF save_buffer, KeysWith, MapWith, FirstWith
<1>2. B \in Nat /\ B > 1 /\ RTP_SEQ_MOD \in Nat
  BY RelayFacts
<1> HIDE DEF B
<1>3. \A m \in W : m \in Nat /\ lo <= m /\ m - lo < RTP_SEQ_MOD
  BY DEF Close
<1>4. lo <= n /\ n - lo < RTP_SEQ_MOD
  <2>1. PICK m \in W : ~(n < m)
    BY DEF Upsets
  <2>2. ~(n - lo >= RTP_SEQ_MOD)
    BY DEF Upsets
  <2>3. m \in Nat /\ lo \in Nat /\ lo <= m
    BY <1>3
  <2> QED
    BY <1>2, <2>1, <2>2, <2>3
<1>5. V \subseteq Nat /\ lo \in V /\ lo \in Nat /\ Close(V, lo)
  BY <1>3, <1>4 DEF Close
<1>6. IsFiniteSet(V) /\ Cardinality(V) \in Nat /\ Cardinality(V) <= B + 1
  <2>1. IsFiniteSet(V) /\ Cardinality(V) = IF n \in W THEN Cardinality(W) ELSE Cardinality(W) + 1
    BY FS_AddElement
  <2>2. Cardinality(W) \in Nat /\ Cardinality(W) <= B
    BY FS_CardinalityType DEF B
  <2> QED
    BY <1>2, <2>1, <2>2
<1>7. /\ \A m, k \in V : get_seq(m) = get_seq(k) => m = k
      /\ Cardinality({get_seq(m) : m \in V}) = Cardinality(V)
  BY <1>5, <1>6, KeysOfClose
<1>8. /\ keys = {get_seq(m) : m \in V}
      /\ \A m \in V : map[get_seq(m)] = m
      /\ get_seq(lo) = 0 \/ first = get_seq(lo)
  <2>1. \A m \in W : get_seq(m) = get_seq(n) => m = n
    BY <1>7
  <2>2. Stores(W \cup {n}, lo, b, n)
    BY <2>1, PacketStored
  <2> QED
    BY <2>2 DEF Stores
<1> HIDE DEF V
<1>9. CASE Cardinality(V) <= B
  <2>1. Newest(V) = V
    BY <1>5, <1>6, <1>9, AllAreNewest DEF B
  <2>2. save_buffer(b, n) = saved
    BY <1>1, <1>7, <1>8, <1>9
  <2>3. DOMAIN saved.map = keys /\ saved.map = map /\ saved.first_seq_ = first
    BY DEF MapWith
  <2> HIDE DEF saved, keys, map, first
  <2>4. Holds(V, lo, saved)
    BY <1>8, <2>3 DEF Holds
  <2> QED
    BY <1>5, <2>1, <2>2, <2>4 DEF Buffered, V
<1>10. CASE ~(Cardinality(V) <= B)
  <2> DEFINE X == V \ {lo}
  <2>1. Cardinality(V) = RTP_BUFFER_MAX + 1
    BY <1>2, <1>6, <1>10 DEF B
  <2>2. Newest(V) = X
    <3>1. \A m \in V : lo <= m
      BY <1>5 DEF Close
    <3> QED
      BY <1>5, <1>6, <2>1, <3>1, AllButOldest
  <2>3. X \subseteq Nat /\ X # {} /\ \A m \in X : lo < m
    <3>1. Cardinality(X) = Cardinality(V) - 1
      BY <1>5, <1>6, FS_RemoveElement
    <3>2. Cardinality(X) = B
      BY <1>2, <2>1, <3>1 DEF B
    <3>3. X # {}
      BY <1>2, <3>2, FS_EmptySet
    <3>4. ASSUME NEW m \in X PROVE lo < m
      <4>1. m \in Nat /\ lo \in Nat /\ lo <= m /\ m # lo
        BY <1>5 DEF Close
      <4> QED
        BY <4>1
    <3> QED
      BY <1>5, <3>3, <3>4
  <2>4. PICK l \in X : \A m \in X : l <= m
    BY <2>3, LeastOf
  <2>5. first = get_seq(lo)
    <3>1. lo \in V \ Newest(V)
      BY <1>5, <2>2
    <3>2. get_seq(lo) # 0
      BY <3>1 DEF Upsets, V
    <3> QED
      BY <1>8, <3>2
  <2>6. kept = {get_seq(m) : m \in X}
    BY <1>5, <1>7, <1>8, <2>5
  <2>7. Close(X, lo)
    BY <1>5 DEF Close
  <2>8. next_key(kept, first) = get_seq(l)
    BY <1>5, <2>3, <2>4, <2>5, <2>6, <2>7, NextKey
  <2>9. save_buffer(b, n) = rest
    BY <1>1, <1>7, <1>8, <1>10
  <2>10. /\ DOMAIN rest.map = kept /\ rest.first_seq_ = next_key(kept, first)
         /\ \A s \in kept : rest.map[s] = map[s]
    OBVIOUS
  <2>11. \A m \in X : get_seq(m) \in kept /\ map[get_seq(m)] = m
    BY <1>8, <2>6
  <2> HIDE DEF rest, kept, map, first, keys
  <2>12. Holds(X, l, rest)
    BY <2>6, <2>8, <2>10, <2>11 DEF Holds
  <2>13. Close(X, l)
    <3>1. ASSUME NEW m \in X PROVE m \in Nat /\ l <= m /\ m - l < RTP_SEQ_MOD
      <4>1. m \in Nat /\ l \in Nat /\ l <= m /\ lo < l /\ m - lo < RTP_SEQ_MOD /\ lo \in Nat
        BY <1>5, <2>3, <2>4, <2>7 DEF Close
      <4> QED
        BY <1>2, <4>1
    <3> QED
      BY <3>1 DEF Close
  <2> HIDE DEF X
  <2> QED
    BY <2>2, <2>4, <2>9, <2>12, <2>13 DEF Buffered, V
<1> QED
  BY <1>9, <1>10

LEMMA FirstSaved ==
  ASSUME NEW b, DOMAIN b.map = {}, b.first_seq_ = 0, NEW n \in Nat
  PROVE  Buffered(Newest({} \cup {n}), save_buffer(b, n))
<1> DEFINE keys == KeysWith(b, n)
           map == MapWith(b, n)
           first == FirstWith(b, n)
           saved == [map |-> map, first_seq_ |-> first]
<1>1. keys = {get_seq(n)} /\ first = get_seq(n) /\ map[get_seq(n)] = n /\ DOMAIN map = keys
  BY DEF KeysWith, FirstWith, MapWith
<1>2. Cardinality(keys) = 1 /\ Cardinality({n}) = 1 /\ IsFiniteSet({n})
  BY <1>1, FS_Singleton
<1>3. RTP_BUFFER_MAX \in Nat /\ RTP_BUFFER_MAX > 1 /\ RTP_SEQ_MOD \in Nat \ {0}
  BY RelayFacts
<1>4. save_buffer(b, n) = saved
  <2>1. Cardinality(keys) <= RTP_BUFFER_MAX
    BY <1>2, <1>3
  <2> QED
    BY <2>1 DEF save_buffer, KeysWith, MapWith, FirstWith
<1>5. saved.map = map /\ saved.first_seq_ = first
  OBVIOUS
<1>6. Newest({} \cup {n}) = {n}
  <2>1. {} \cup {n} = {n} /\ {n} \subseteq Nat /\ Cardinality({n}) <= RTP_BUFFER_MAX
    BY <1>2, <1>3
  <2> QED
    BY <1>2, <2>1, AllAreNewest
<1> HIDE DEF saved, keys, map, first
<1>7. Holds({n}, n, saved)
  BY <1>1, <1>5 DEF Holds
<1>8. Close({n}, n)
  BY <1>3 DEF Close
<1> QED
  BY <1>4, <1>6, <1>7, <1>8 DEF Buffered

(* What holds of the buffer even when its order is upset.                    *)
FirstFound(b) ==
  /\ b.first_seq_ # 0 => b.first_seq_ \in DOMAIN b.map
  /\ Cardinality(DOMAIN b.map) <= RTP_BUFFER_MAX
  /\ \A s \in DOMAIN b.map : get_seq(b.map[s]) = s

Typed(b) ==
  /\ b.first_seq_ \in 0 .. RTP_SEQ_MOD - 1
  /\ DOMAIN b.map \subseteq 0 .. RTP_SEQ_MOD - 1
  /\ \A s \in DOMAIN b.map : b.map[s] \in Packets

LEMMA KeyIsSeq ==
  ASSUME NEW n \in Nat
  PROVE  get_seq(n) \in 0 .. RTP_SEQ_MOD - 1
  BY RelayFacts, ModIsRemainder DEF get_seq

LEMMA FirstStays ==
  ASSUME NEW b, Typed(b), FirstFound(b), NEW n \in Packets
  PROVE  Typed(save_buffer(b, n)) /\ FirstFound(save_buffer(b, n))
<1> DEFINE B == RTP_BUFFER_MAX
           keys == KeysWith(b, n)
           map == MapWith(b, n)
           first == FirstWith(b, n)
           kept == keys \ {first}
           saved == [map |-> map, first_seq_ |-> first]
           next == next_key(kept, first)
           rest == [map |-> [s \in kept |-> map[s]], first_seq_ |-> next]
<1>1. save_buffer(b, n) = IF Cardinality(keys) <= B THEN saved ELSE rest
  BY DEF save_buffer, KeysWith, MapWith, FirstWith
<1>2. B \in Nat /\ B > 1 /\ RTP_SEQ_MOD \in Nat \ {0} /\ n \in Nat
  BY RelayFacts DEF Packets
<1>3. get_seq(n) \in 0 .. RTP_SEQ_MOD - 1
  BY <1>2, KeyIsSeq
<1>4. keys \subseteq 0 .. RTP_SEQ_MOD - 1 /\ first \in keys
  BY <1>3 DEF KeysWith, FirstWith, Typed, FirstFound
<1>5. /\ DOMAIN map = keys
      /\ \A s \in keys : map[s] \in Packets /\ get_seq(map[s]) = s
  BY DEF KeysWith, MapWith, Typed, FirstFound
<1>6. IsFiniteSet(keys) /\ Cardinality(keys) \in Nat /\ Cardinality(keys) <= B + 1
  <2>1. IsFiniteSet(0 .. RTP_SEQ_MOD - 1)
    BY <1>2, FS_Interval
  <2>2. IsFiniteSet(DOMAIN b.map)
    BY <2>1, FS_Subset DEF Typed
  <2>3. /\ IsFiniteSet(keys)
        /\ Cardinality(keys) = IF get_seq(n) \in DOMAIN b.map THEN Cardinality(DOMAIN b.map)
                               ELSE Cardinality(DOMAIN b.map) + 1
    BY <2>2, FS_AddElement DEF KeysWith
  <2>4. Cardinality(DOMAIN b.map) \in Nat /\ Cardinality(DOMAIN b.map) <= B
    BY <2>2, FS_CardinalityType DEF FirstFound
  <2> QED
    BY <1>2, <2>3, <2>4
<1> HIDE DEF keys, map, first, B
<1>7. CASE Cardinality(keys) <= B
  <2>1. save_buffer(b, n) = saved
    BY <1>1, <1>7
  <2>2. saved.map = map /\ saved.first_seq_ = first
    OBVIOUS
  <2> HIDE DEF saved
  <2>3. Typed(saved) /\ FirstFound(saved)
    BY <1>4, <1>5, <1>7, <2>2 DEF Typed, FirstFound, B
  <2> QED
    BY <2>1, <2>3
<1>8. CASE ~(Cardinality(keys) <= B)
  <2>1. save_buffer(b, n) = rest
    BY <1>1, <1>8
  <2>2. IsFiniteSet(kept) /\ Cardinality(kept) = B
    <3>1. IsFiniteSet(kept) /\ Cardinality(kept) = Cardinality(keys) - 1
      BY <1>4, <1>6, FS_RemoveElement
    <3> QED
      BY <1>2, <1>6, <1>8, <3>1
  <2>3. kept # {}
    BY <1>2, <2>2, FS_EmptySet
  <2>4. kept \subseteq Nat /\ kept \subseteq keys
    BY <1>2, <1>4
  <2> HIDE DEF kept
  <2>5. next \in kept
    <3> DEFINE behind == {k \in kept : k > first}
               S == IF behind # {} THEN behind ELSE kept
    <3>1. S \subseteq kept /\ S \subseteq Nat /\ S # {}
      BY <2>3, <2>4
    <3>2. next = CHOOSE k \in S : \A l \in S : k <= l
      BY DEF next_key
    <3> HIDE DEF S, next
    <3>3. \E k \in S : \A l \in S : k <= l
      BY <3>1, LeastOf
    <3>4. next \in S
      BY <3>2, <3>3
    <3> QED
      BY <3>1, <3>4
  <2> HIDE DEF next
  <2>6. /\ DOMAIN rest.map = kept /\ rest.first_seq_ = next
        /\ \A s \in kept : rest.map[s] = map[s]
    OBVIOUS
  <2> HIDE DEF rest
  <2>7. Typed(rest)
    BY <1>4, <1>5, <2>4, <2>5, <2>6 DEF Typed
  <2>8. FirstFound(rest)
    <3>1. Cardinality(DOMAIN rest.map) <= B
      BY <1>2, <2>2, <2>6
    <3> QED
      BY <1>5, <2>4, <2>5, <2>6, <3>1 DEF FirstFound, B
  <2> QED
    BY <2>1, <2>7, <2>8
<1> QED
  BY <1>7, <1>8

(* The newest of a few packets and one more are few again.                   *)
LEMMA NewestAreFew ==
  ASSUME NEW W, W \subseteq Nat, IsFiniteSet(W), Cardinality(W) <= RTP_BUFFER_MAX, NEW n \in Nat
  PROVE  /\ Newest(W \cup {n}) \subseteq W \cup {n}
         /\ IsFiniteSet(Newest(W \cup {n}))
         /\ Cardinality(Newest(W \cup {n})) <= RTP_BUFFER_MAX
<1> DEFINE V == W \cup {n}
<1>1. Newest(V) \in SUBSET V
  BY DEF Newest
<1>2. IsFiniteSet(V) /\ Cardinality(V) = IF n \in W THEN Cardinality(W) ELSE Cardinality(W) + 1
  BY FS_AddElement
<1>3. Cardinality(W) \in Nat /\ RTP_BUFFER_MAX \in Nat
  BY FS_CardinalityType, RelayFacts
<1>4. IsFiniteSet(Newest(V))
  BY <1>1, <1>2, FS_Subset
<1>5. V \subseteq Nat /\ V # {}
  OBVIOUS
<1> HIDE DEF V
<1>6. CASE Cardinality(V) <= RTP_BUFFER_MAX
  BY <1>1, <1>2, <1>4, <1>5, <1>6, AllAreNewest DEF V
<1>7. CASE ~(Cardinality(V) <= RTP_BUFFER_MAX)
  <2>1. Cardinality(V) = RTP_BUFFER_MAX + 1
    BY <1>2, <1>3, <1>7
  <2>2. PICK lo \in V : \A m \in V : lo <= m
    BY <1>5, LeastOf
  <2>3. Newest(V) = V \ {lo}
    BY <1>2, <1>5, <2>1, <2>2, AllButOldest
  <2>4. Cardinality(V \ {lo}) = Cardinality(V) - 1
    BY <1>2, <2>2, FS_RemoveElement
  <2>5. Cardinality(Newest(V)) <= RTP_BUFFER_MAX
    BY <1>3, <2>1, <2>3, <2>4
  <2> QED
    BY <1>1, <1>4, <2>5 DEF V
<1> QED
  BY <1>6, <1>7

SendInv ==
  /\ SendTypeOK
  /\ FirstFound(sender)
  /\ IsFiniteSet(newest) /\ Cardinality(newest) <= RTP_BUFFER_MAX
  /\ ~troubled => Buffered(newest, sender)

LEMMA SendInitInv ==
  ASSUME SendInit
  PROVE  SendInv
<1>1. DOMAIN sender.map = {} /\ sender.first_seq_ = 0 /\ newest = {} /\ troubled = FALSE
  BY DEF SendInit
<1>2. Cardinality({}) = 0 /\ IsFiniteSet({})
  BY FS_EmptySet
<1>3. RTP_SEQ_MOD \in Nat \ {0} /\ RTP_BUFFER_MAX \in Nat
  BY RelayFacts
<1>4. SendTypeOK
  <2>1. sender.first_seq_ \in 0 .. RTP_SEQ_MOD - 1 /\ newest \subseteq Packets
    BY <1>1, <1>3
  <2>2. /\ DOMAIN sender.map \subseteq 0 .. RTP_SEQ_MOD - 1
        /\ \A s \in DOMAIN sender.map : sender.map[s] \in Packets
    BY <1>1
  <2>3. troubled \in BOOLEAN
    BY <1>1
  <2> QED
    BY <2>1, <2>2, <2>3 DEF SendTypeOK
<1>5. FirstFound(sender)
  <2>1. Cardinality(DOMAIN sender.map) = 0
    BY <1>1, <1>2
  <2>2. Cardinality(DOMAIN sender.map) <= RTP_BUFFER_MAX
    BY <1>3, <2>1
  <2> QED
    BY <1>1, <2>2 DEF FirstFound
<1>6. IsFiniteSet(newest) /\ Cardinality(newest) <= RTP_BUFFER_MAX
  <2>1. IsFiniteSet(newest) /\ Cardinality(newest) = 0
    BY <1>1, <1>2
  <2> QED
    BY <1>3, <2>1
<1>7. Buffered(newest, sender)
  BY <1>1 DEF Buffered
<1> QED
  BY <1>4, <1>5, <1>6, <1>7 DEF SendInv

LEMMA RelayKeepsInv ==
  ASSUME SendInv, NEW n \in Packets, Relay(n)
  PROVE  SendInv'
<1>1. /\ sender' = save_buffer(sender, n)
      /\ newest' = Newest(newest \cup {n})
      /\ troubled' = (troubled \/ Upsets(newest, n))
  BY DEF Relay
<1>2. n \in Nat /\ newest \subseteq Nat /\ newest \subseteq Packets
  BY RelayFacts DEF SendInv, SendTypeOK, Packets
<1>3. Typed(sender) /\ FirstFound(sender)
  BY DEF SendInv, SendTypeOK, Typed
<1>4. Typed(sender') /\ FirstFound(sender')
  BY <1>1, <1>3, FirstStays
<1>5. /\ newest' \subseteq newest \cup {n} /\ IsFiniteSet(newest')
      /\ Cardinality(newest') <= RTP_BUFFER_MAX
  BY <1>1, <1>2, NewestAreFew DEF SendInv
<1>6. SendTypeOK'
  BY <1>1, <1>2, <1>4, <1>5 DEF SendTypeOK, SendInv, Typed
<1>7. ASSUME ~troubled' PROVE Buffered(newest', sender')
  <2>1. ~troubled /\ ~Upsets(newest, n) /\ Buffered(newest, sender)
    BY <1>1, <1>7 DEF SendInv
  <2>2. CASE newest = {} /\ DOMAIN sender.map = {} /\ sender.first_seq_ = 0
    BY <1>1, <1>2, <2>2, FirstSaved
  <2>3. CASE \E lo \in newest : Close(newest, lo) /\ Holds(newest, lo, sender)
    BY <1>1, <1>2, <2>1, <2>3, PacketSaved DEF SendInv
  <2> QED
    BY <2>1, <2>2, <2>3 DEF Buffered
<1> QED
  BY <1>4, <1>5, <1>6, <1>7 DEF SendInv

LEMMA SendInvariant == SendSpec => []SendInv
<1>1. SendInit => SendInv
  BY SendInitInv
<1>2. SendInv /\ [SendNext]_send_vars => SendInv'
  <2>1. ASSUME SendInv, SendNext PROVE SendInv'
    BY <2>1, RelayKeepsInv DEF SendNext
  <2>2. ASSUME SendInv, UNCHANGED send_vars PROVE SendInv'
    BY <2>2 DEF SendInv, SendTypeOK, send_vars
  <2> QED
    BY <2>1, <2>2
<1> QED
  BY <1>1, <1>2, PTL DEF SendSpec

-----------------------------------------------------------------------------
(***************************************************************************)
(* The type invariant, for every size of the number space.                 *)
(***************************************************************************)
THEOREM TypeCorrect == Spec => []TypeOK
<1>1. IInv => TypeOK
  BY DEF IInv
<1> QED
  BY <1>1, InductiveInvariant, PTL

(***************************************************************************)
(* nack_generator lists what is missing and nothing else, for any number   *)
(* of packets and however often the sequence numbers wrap.                 *)
(***************************************************************************)
THEOREM NackListHolds == Spec => []NackListIsExact
<1>1. ASSUME IInv PROVE ListedIsMissing
  <2> SUFFICES ASSUME NEW s \in DOMAIN nack_map
               PROVE  \E n \in Recent(0 .. high - 1, high) : seq(n) = s /\ n \notin got
    BY DEF ListedIsMissing
  <2>1. PICK n \in 0 .. high - 1 : EntryStandsFor(s, n)
    BY <1>1 DEF IInv, EntriesAreYoung
  <2> DEFINE age == PerTick * nack_map[s] + burst
  <2>2. age < Half
    BY <1>1, PerTickFacts DEF IInv, TypeOK
  <2>3. high - n <= age /\ high \in Nat /\ age \in Int /\ Half \in Nat
    BY <1>1, <2>1, HalfFacts DEF EntryStandsFor, IInv, TypeOK
  <2> HIDE DEF age
  <2>4. high - n < RTP_SEQ_MOD \div 2
    BY <2>2, <2>3 DEF Half
  <2> QED
    BY <2>1, <2>4 DEF EntryStandsFor, Recent
<1>2. IInv => NackListIsExact
  BY <1>1 DEF IInv, NackListIsExact
<1> QED
  BY <1>2, InductiveInvariant, PTL

(***************************************************************************)
(* cycles_ + max_seq_ counts every wrap once, until a packet comes too     *)
(* late or after too long a gap.                                           *)
(***************************************************************************)
THEOREM HighestIsExactHolds == Spec => []HighestIsExact
<1>1. IInv => HighestIsExact
  BY DEF IInv, MaxIsNewest, HighestIsExact
<1> QED
  BY <1>1, InductiveInvariant, PTL

(***************************************************************************)
(* rtp_send_stream's state keeps its type, for every size of the number    *)
(* space and of the buffer and every sequence of packets.                  *)
(***************************************************************************)
THEOREM SendTypeCorrect == SendSpec => []SendTypeOK
<1>1. SendInv => SendTypeOK
  BY DEF SendInv
<1> QED
  BY <1>1, SendInvariant, PTL

(***************************************************************************)
(* rtp_send_stream answers a NACK for any of the newest RTP_BUFFER_MAX     *)
(* packets with these packets until a packet upsets the order of the       *)
(* buffer: for every sequence of packets, with any losses, late and        *)
(* repeated ones, every size of the number space and of the buffer.        *)
(***************************************************************************)
THEOREM NewestAreSentAgainHolds == SendSpec => []NewestAreSentAgain
<1>1. ASSUME SendInv PROVE NewestAreSentAgain
  <2> SUFFICES ASSUME ~troubled
               PROVE  handle_fb_rtp_nack(sender, {get_seq(n) : n \in newest}) = newest
    BY DEF NewestAreSentAgain
  <2>1. Buffered(newest, sender)
    BY <1>1 DEF SendInv
  <2>2. CASE newest = {}
    BY <2>2 DEF handle_fb_rtp_nack
  <2>3. CASE newest # {}
    <3>1. /\ DOMAIN sender.map = {get_seq(m) : m \in newest}
          /\ \A m \in newest : sender.map[get_seq(m)] = m
      BY <2>1, <2>3 DEF Buffered, Holds
    <3> QED
      BY <3>1 DEF handle_fb_rtp_nack
  <2> QED
    BY <2>2, <2>3
<1>2. SendInv => NewestAreSentAgain
  BY <1>1
<1> QED
  BY <1>2, SendInvariant, PTL

(***************************************************************************)
(* Whatever arrives, in whatever order, save_buffer finds the packet that  *)
(* first_seq_ names when it has to make room, keeps every packet under its *)
(* own number and no more than RTP_BUFFER_MAX of them.                     *)
(***************************************************************************)
THEOREM FirstIsBufferedHolds == SendSpec => []FirstIsBuffered
<1>1. SendInv => FirstIsBuffered
  BY DEF SendInv, FirstIsBuffered, FirstFound
<1> QED
  BY <1>1, SendInvariant, PTL
=============================================================================
