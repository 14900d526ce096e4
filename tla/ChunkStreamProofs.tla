-------------------------- MODULE ChunkStreamProofs ---------------------------
(***************************************************************************)
(* Proofs about ChunkStream, for every set of chunk stream ids, message    *)
(* lengths, chunk sizes and timestamps: the reader takes no unit for what  *)
(* it is not unless one of the four odd things happened, and what it       *)
(* delivers is what was sent.                                              *)
(*                                                                         *)
(* The argument.  The reader is an automaton over units, and reading them  *)
(* one by one, as they come, comes to the same as read_chunk_stream does   *)
(* in its larger steps.  So the invariant speaks of the state the          *)
(* automaton will be in once it has read all that is on its way: its       *)
(* streams are then the peer's, or it has gone astray.  A step of the      *)
(* reader or of TCP does not change that state; a step of the peer adds    *)
(* one chunk.                                                              *)
(***************************************************************************)
EXTENDS ChunkStream, SequenceTheorems, FiniteSetTheorems, WellFoundedInduction, TLAPS

-----------------------------------------------------------------------------
(***************************************************************************)
(* The automaton.  need is the number of cells of this chunk it still      *)
(* waits for.  It is lost where the reader is lost, and stuck where no     *)
(* peer of this model leads it: a long basic header without its second     *)
(* part, a chunk without payload.                                          *)
(***************************************************************************)
Modes == {"idle", "basic2", "header", "payload", "lost", "stuck"}

Automaton == [mode : Modes, fmt : 0 .. 3, csid : Csids, need : Nat, chunk_size : Sizes,
              cs : [Csids -> Stream], delivered : Seq(Message)]

State(mode, fmt, c, need, size, streams, out) ==
  [mode |-> mode, fmt |-> fmt, csid |-> c, need |-> need, chunk_size |-> size,
   cs |-> streams, delivered |-> out]

InMode(A, mode) == State(mode, A.fmt, A.csid, A.need, A.chunk_size, A.cs, A.delivered)

(* The look-up in cs_map_. *)
Lookup(s, fmt, size) ==
  IF s.known THEN s ELSE [s EXCEPT !.known = TRUE, !.fmt = fmt, !.chunk_size = size]

Found(A, fmt, c) ==
  State("header", fmt, c, 0, A.chunk_size,
        [A.cs EXCEPT ![c] = Lookup(A.cs[c], fmt, A.chunk_size)], A.delivered)

(* The header of this chunk has made the stream s. *)
InPayload(A, s) ==
  State(IF s.remain = 0 THEN "stuck" ELSE "payload", A.fmt, A.csid, require_len(s), A.chunk_size,
        [A.cs EXCEPT ![A.csid] = s], A.delivered)

(* The chunk is complete, data is the payload of its message so far. *)
HandledSize(s, data, size) ==
  CASE s.type_id = "size" -> data[1].value
    [] s.type_id = "connect" -> g_config_chunk_size
    [] s.type_id = "other" -> size

FinishStream(s, data) ==
  [s EXCEPT !.phase = "header", !.remain = s.remain - require_len(s),
            !.chunk_data = IF is_ready(s, require_len(s)) THEN <<>> ELSE data]

ReadyMessage(c, s, data) ==
  [csid |-> c, type |-> s.type_id, ts |-> s.timestamp32, drifted |-> FALSE, data |-> data]

Finish(A, s, data) ==
  LET ready == is_ready(s, require_len(s))
  IN  State("idle", A.fmt, A.csid, 0,
            IF ready THEN HandledSize(s, data, A.chunk_size) ELSE A.chunk_size,
            [A.cs EXCEPT ![A.csid] = FinishStream(s, data)],
            IF ready THEN Append(A.delivered, ReadyMessage(A.csid, s, data)) ELSE A.delivered)

(* The chunk needs n more cells. *)
Filled(A, data, n) ==
  State("payload", A.fmt, A.csid, n, A.chunk_size,
        [A.cs EXCEPT ![A.csid] = [A.cs[A.csid] EXCEPT !.chunk_data = data]], A.delivered)

Take(A, u) ==
  LET data == Append(A.cs[A.csid].chunk_data, u)
  IN  IF A.mode = "stuck" THEN A
      ELSE IF u.unit # "cell" THEN InMode(A, "lost")
      ELSE IF A.need > 1 THEN Filled(A, data, A.need - 1)
      ELSE Finish(A, A.cs[A.csid], data)

Wrong3(s, u) == takes_ext(s) /\ begins(s) /\ u.unit # "ext"
Skip3(s, u) == takes_ext(s) /\ u.unit = "ext" /\ (begins(s) \/ u.ts = s.timestamp32)

StepIdle(A, u) ==
  IF u.unit # "basic" THEN InMode(A, "lost")
  ELSE IF u.csid \in LongCsids
  THEN State("basic2", u.fmt, u.csid, 0, A.chunk_size, A.cs, A.delivered)
  ELSE Found(A, u.fmt, u.csid)

StepBasic2(A, u) == IF u.unit = "basic2" THEN Found(A, A.fmt, A.csid) ELSE InMode(A, "stuck")

StepHeader(A, u) ==
  LET s == A.cs[A.csid]
  IN  IF A.fmt # 3
      THEN IF is_header(u) THEN InPayload(A, read_msg_format(s, A.fmt, u)) ELSE InMode(A, "lost")
      ELSE IF Wrong3(s, u) THEN InMode(A, "lost")
      ELSE IF Skip3(s, u) THEN InPayload(A, read_msg_format3(s, u))
      ELSE Take(InPayload(A, read_msg_format3(s, u)), u)

Step(A, u) ==
  IF A.mode = "idle" THEN StepIdle(A, u)
  ELSE IF A.mode = "basic2" THEN StepBasic2(A, u)
  ELSE IF A.mode = "header" THEN StepHeader(A, u)
  ELSE IF A.mode = "payload" THEN Take(A, u)
  ELSE A

(* The state after reading the units of s. *)
Run(A, s) ==
  LET run[i \in 0 .. Len(s)] == IF i = 0 THEN A ELSE Step(run[i - 1], s[i])
  IN  run[Len(s)]

(* The state of the reader, as one of the automaton. *)
Now ==
  LET s == cs[rd.csid]
      payload == rd.fmt_ready /\ s.phase = "payload"
  IN  State(IF rd.lost THEN "lost"
            ELSE IF ~rd.fmt_ready THEN "idle"
            ELSE IF s.phase = "header" THEN "header"
            ELSE IF s.remain = 0 THEN "stuck"
            ELSE "payload",
            rd.fmt, rd.csid, IF payload THEN require_len(s) ELSE 0,
            rd.chunk_size, cs, delivered)

Join(s, t) == s \o t

(* What is on its way. *)
Pending == Join(recv, wire)

-----------------------------------------------------------------------------
(* The invariant. *)

TimeOdd(o) == o \cap {"ext", "truncated"} # {}

(* What a stream and the peer's stream have in common, within a chunk or not. *)
Agrees(s, t, o) ==
  /\ s.known <=> t.opened
  /\ s.remain = t.left
  /\ t.left <= t.len
  /\ t.left > 0 => t.opened
  /\ s.chunk_size = t.agreed
  /\ s.msg_len = t.len
  /\ s.type_id = t.type
  /\ s.fmt = t.last
  /\ s.ext_ts_flag <=> t.had_ext
  /\ t.ext => t.had_ext
  /\ t.header # 0 => s.timestamp_delta = t.field
  /\ t.header = 0 /\ t.ext => s.timestamp32 = t.field
  /\ ~t.drifted /\ ~TimeOdd(o) => s.timestamp32 = t.ts
  /\ t.last # 3 => t.last = t.header

StreamOf(s, t, o) ==
  /\ Agrees(s, t, o)
  /\ s.phase = "header"
  /\ s.chunk_data = IF t.left > 0 THEN Cells(t, 1, t.len - t.left) ELSE <<>>

Match(d, m, o) ==
  /\ d.csid = m.csid
  /\ d.type = m.type
  /\ d.data = m.data
  /\ TimeOdd(o) \/ d.ts = m.ts \/ m.drifted

Matches(out, msgs, o) ==
  /\ Len(out) <= Len(msgs)
  /\ \A i \in 1 .. Len(out) : Match(out[i], msgs[i], o)

Synced(R, peer, msgs, size, o) ==
  /\ R.mode = "idle"
  /\ R.chunk_size = size
  /\ \A c \in Csids : StreamOf(R.cs[c], peer[c], o)
  /\ Len(R.delivered) = Len(msgs)
  /\ Matches(R.delivered, msgs, o)

Astray(R, msgs, o) ==
  /\ R.mode \in {"payload", "lost"}
  /\ o # {}
  /\ Matches(R.delivered, msgs, o)

PeerOK == \A c \in Csids : tx[c].left <= tx[c].len

(* Only the stream of the chunk that is being read is past its header. *)
PhasesOK == \A c \in Csids : cs[c].phase = "payload" => rd.fmt_ready /\ c = rd.csid

Inv ==
  /\ TypeOK
  /\ PeerOK
  /\ PhasesOK
  /\ \/ Synced(Run(Now, Pending), tx, sent, announced, odd)
     \/ Astray(Run(Now, Pending), sent, odd)

-----------------------------------------------------------------------------
(* Induction, and sequences put together.                                    *)

(* Induction over the natural numbers: a set that holds 0 and with a number  *)
(* the next one holds them all.                                              *)
LEMMA SetInduction ==
    ASSUME NEW T, 0 \in T, \A n \in Nat : n \in T => n + 1 \in T
    PROVE  Nat \subseteq T
<1> SUFFICES ASSUME NEW x \in Nat, x \notin T PROVE FALSE
    OBVIOUS
<1> DEFINE R == OpToRel(<, Nat)
           U == Nat \ T
<1>1. IsWellFoundedOn(R, Nat)
    BY NatLessThanWellFounded
<1>2. \A a, b \in Nat : a < b => <<a, b>> \in R
    BY DEF OpToRel
<1> HIDE DEF R
<1>3. PICK m \in U : \A y \in U : ~(<<y, m>> \in R)
    BY <1>1, WFMin
<1>4. m # 0 /\ m - 1 \in Nat /\ m - 1 < m
    BY <1>3
<1>5. m - 1 \in T
    BY <1>2, <1>3, <1>4
<1>6. (m - 1) + 1 = m
    BY <1>3
<1> QED
    BY <1>3, <1>4, <1>5, <1>6

(* A set of natural numbers that holds one holds a least one.                *)
LEMMA LeastNumber ==
    ASSUME NEW T \in SUBSET Nat, NEW x \in T
    PROVE  \E m \in T : \A y \in T : m <= y
<1> DEFINE R == OpToRel(<, Nat)
<1>1. IsWellFoundedOn(R, Nat)
    BY NatLessThanWellFounded
<1>2. \A a, b \in Nat : a < b => <<a, b>> \in R
    BY DEF OpToRel
<1> HIDE DEF R
<1>3. PICK m \in T : \A y \in T : ~(<<y, m>> \in R)
    BY <1>1, WFMin
<1>4. ASSUME NEW y \in T PROVE m <= y
    <2>1. m \in Nat /\ y \in Nat
        BY <1>3
    <2>2. ~(y < m)
        BY <1>2, <1>3, <2>1
    <2> QED
        BY <2>1, <2>2
<1> QED
    BY <1>3, <1>4

LEMMA JoinIsUnits ==
    ASSUME NEW s \in Seq(Unit), NEW t \in Seq(Unit)
    PROVE  Join(s, t) \in Seq(Unit) /\ Len(Join(s, t)) = Len(s) + Len(t)
BY DEF Join

LEMMA JoinIsCells ==
    ASSUME NEW s \in Seq(Cell), NEW t \in Seq(Cell)
    PROVE  Join(s, t) \in Seq(Cell) /\ Len(Join(s, t)) = Len(s) + Len(t)
BY DEF Join

LEMMA JoinEmpty ==
    ASSUME NEW s \in Seq(Unit)
    PROVE  Join(s, <<>>) = s /\ Join(<<>>, s) = s
BY DEF Join

LEMMA JoinIsAssociative ==
    ASSUME NEW s \in Seq(Unit), NEW t \in Seq(Unit), NEW v \in Seq(Unit)
    PROVE  Join(Join(s, t), v) = Join(s, Join(t, v))
BY DEF Join

LEMMA JoinAppend ==
    ASSUME NEW s \in Seq(Unit), NEW t \in Seq(Unit), NEW u \in Unit
    PROVE  Join(s, Append(t, u)) = Append(Join(s, t), u)
BY DEF Join

(* A sequence is its first element and the rest, or the last and the rest.   *)
LEMMA HeadAndTail ==
    ASSUME NEW s \in Seq(Unit), s # <<>>
    PROVE  /\ Head(s) \in Unit
           /\ Tail(s) \in Seq(Unit)
           /\ s = Join(<<Head(s)>>, Tail(s))
BY DEF Join

LEMMA FrontAndLast ==
    ASSUME NEW s \in Seq(Unit), NEW n \in Nat, Len(s) = n + 1
    PROVE  \E f \in Seq(Unit) : \E u \in Unit : Len(f) = n /\ s = Append(f, u) /\ u = s[n + 1]
<1> DEFINE f == [i \in 1 .. n |-> s[i]]
<1>1. s[n + 1] \in Unit /\ \A i \in 1 .. n : s[i] \in Unit
    BY ElementOfSeq
<1>2. f \in Seq(Unit) /\ Len(f) = n
    BY <1>1
<1>3. s = Append(f, s[n + 1])
    <2>1. Append(f, s[n + 1]) \in Seq(Unit) /\ Len(Append(f, s[n + 1])) = n + 1
        BY <1>1, <1>2
    <2>2. \A i \in 1 .. n + 1 : Append(f, s[n + 1])[i] = s[i]
        BY <1>1, <1>2
    <2> QED
        BY <2>1, <2>2, SeqEqual
<1> QED
    BY <1>1, <1>2, <1>3

LEMMA FrontAndLastCell ==
    ASSUME NEW s \in Seq(Cell), NEW n \in Nat, Len(s) = n + 1
    PROVE  \E f \in Seq(Cell) : \E u \in Cell : Len(f) = n /\ s = Append(f, u) /\ u = s[n + 1]
<1> DEFINE f == [i \in 1 .. n |-> s[i]]
<1>1. s[n + 1] \in Cell /\ \A i \in 1 .. n : s[i] \in Cell
    BY ElementOfSeq
<1>2. f \in Seq(Cell) /\ Len(f) = n
    BY <1>1
<1>3. s = Append(f, s[n + 1])
    <2>1. Append(f, s[n + 1]) \in Seq(Cell) /\ Len(Append(f, s[n + 1])) = n + 1
        BY <1>1, <1>2
    <2>2. \A i \in 1 .. n + 1 : Append(f, s[n + 1])[i] = s[i]
        BY <1>1, <1>2
    <2> QED
        BY <2>1, <2>2, SeqEqual
<1> QED
    BY <1>1, <1>2, <1>3

-----------------------------------------------------------------------------
(* Reading a sequence of units.                                              *)

(* The states on the way through the units of s.                             *)
IsRun(run, A, s, n) ==
  run = [i \in 0 .. n |-> IF i = 0 THEN A ELSE Step(run[i - 1], s[i])]

(* There are such states, for any number of units.                           *)
LEMMA RunExists ==
    ASSUME NEW A, NEW s, NEW n \in Nat
    PROVE  \E run : IsRun(run, A, s, n)
<1> DEFINE T == {k \in Nat : \E run : IsRun(run, A, s, k)}
<1>1. 0 \in T
    <2> DEFINE r == [i \in 0 .. 0 |-> A]
    <2>1. r = [i \in 0 .. 0 |-> IF i = 0 THEN A ELSE Step(r[i - 1], s[i])]
        OBVIOUS
    <2>2. IsRun(r, A, s, 0)
        BY <2>1, Zenon DEF IsRun
    <2> QED
        BY <2>2
<1>2. ASSUME NEW k \in Nat, k \in T PROVE k + 1 \in T
    <2>1. PICK r : r = [i \in 0 .. k |-> IF i = 0 THEN A ELSE Step(r[i - 1], s[i])]
        BY <1>2, Zenon DEF IsRun
    <2> DEFINE q == [i \in 0 .. k + 1 |-> IF i = k + 1 THEN Step(r[k], s[k + 1]) ELSE r[i]]
    <2>2. ASSUME NEW i \in 0 .. k + 1
          PROVE  q[i] = IF i = 0 THEN A ELSE Step(q[i - 1], s[i])
        <3>1. CASE i = k + 1
            BY <3>1
        <3>2. CASE i # k + 1 /\ i # 0
            <4>1. i \in 0 .. k /\ i - 1 \in 0 .. k
                BY <3>2
            <4>2. r[i] = Step(r[i - 1], s[i])
                BY <2>1, <3>2, <4>1
            <4> QED
                BY <3>2, <4>1, <4>2
        <3>3. CASE i = 0
            BY <2>1, <3>3
        <3> QED
            BY <3>1, <3>2, <3>3
    <2>3. q = [i \in 0 .. k + 1 |-> q[i]]
        OBVIOUS
    <2> HIDE DEF q
    <2>4. q = [i \in 0 .. k + 1 |-> IF i = 0 THEN A ELSE Step(q[i - 1], s[i])]
        BY <2>2, <2>3
    <2>5. IsRun(q, A, s, k + 1)
        BY <2>4, Zenon DEF IsRun
    <2> QED
        BY <2>5
<1>3. Nat \subseteq T
    BY <1>1, <1>2, SetInduction
<1> QED
    BY <1>3

(* What the recursive function of Run computes.                              *)
LEMMA RunEquation ==
    ASSUME NEW A, NEW s, Len(s) \in Nat
    PROVE  \E run : /\ run = [i \in 0 .. Len(s) |-> IF i = 0 THEN A ELSE Step(run[i - 1], s[i])]
                    /\ Run(A, s) = run[Len(s)]
<1>1. \E r : r = [i \in 0 .. Len(s) |-> IF i = 0 THEN A ELSE Step(r[i - 1], s[i])]
    <2> DEFINE n == Len(s)
    <2>1. n \in Nat
        OBVIOUS
    <2> HIDE DEF n
    <2>2. \E r : IsRun(r, A, s, n)
        BY <2>1, RunExists
    <2> QED
        BY <2>2, Zenon DEF n, IsRun
<1> DEFINE run[i \in 0 .. Len(s)] == IF i = 0 THEN A ELSE Step(run[i - 1], s[i])
<1>2. run = [i \in 0 .. Len(s) |-> IF i = 0 THEN A ELSE Step(run[i - 1], s[i])]
    BY <1>1, Zenon
<1>3. Run(A, s) = run[Len(s)]
    BY Zenon DEF Run
<1> HIDE DEF run
<1> QED
    BY <1>2, <1>3, Zenon

LEMMA RunEmpty ==
    ASSUME NEW A
    PROVE  Run(A, <<>>) = A
<1>1. Len(<<>>) = 0
    OBVIOUS
<1>2. PICK run : /\ run = [i \in 0 .. Len(<<>>) |-> IF i = 0 THEN A ELSE Step(run[i - 1], <<>>[i])]
                 /\ Run(A, <<>>) = run[Len(<<>>)]
    <2> DEFINE none == <<>>
    <2>1. Len(none) \in Nat
        OBVIOUS
    <2> HIDE DEF none
    <2>2. \E run : /\ run = [i \in 0 .. Len(none) |-> IF i = 0 THEN A ELSE Step(run[i - 1], none[i])]
                   /\ Run(A, none) = run[Len(none)]
        BY <2>1, RunEquation, Zenon
    <2> QED
        BY <2>2, Zenon DEF none
<1>3. run[0] = A
    BY <1>1, <1>2
<1> QED
    BY <1>1, <1>2, <1>3

LEMMA RunAppend ==
    ASSUME NEW A, NEW s \in Seq(Unit), NEW u \in Unit
    PROVE  Run(A, Append(s, u)) = Step(Run(A, s), u)
<1> DEFINE w == Append(s, u)
<1>1. /\ Len(s) \in Nat /\ Len(w) \in Nat /\ Len(w) = Len(s) + 1
      /\ w[Len(s) + 1] = u /\ \A i \in 1 .. Len(s) : w[i] = s[i]
    OBVIOUS
<1> HIDE DEF w
<1>2. PICK run : /\ run = [i \in 0 .. Len(s) |-> IF i = 0 THEN A ELSE Step(run[i - 1], s[i])]
                 /\ Run(A, s) = run[Len(s)]
    BY <1>1, RunEquation, Zenon
<1>3. PICK runw : /\ runw = [i \in 0 .. Len(w) |-> IF i = 0 THEN A ELSE Step(runw[i - 1], w[i])]
                  /\ Run(A, w) = runw[Len(w)]
    BY <1>1, RunEquation, Zenon
<1> DEFINE T == {i \in Nat : i <= Len(s) => runw[i] = run[i]}
<1>4. 0 \in T
    BY <1>1, <1>2, <1>3
<1>5. ASSUME NEW n \in Nat, n \in T PROVE n + 1 \in T
    <2> SUFFICES ASSUME n + 1 <= Len(s) PROVE runw[n + 1] = run[n + 1]
        OBVIOUS
    <2>1. runw[n] = run[n] /\ n + 1 \in 1 .. Len(s)
        BY <1>1, <1>5
    <2>2. w[n + 1] = s[n + 1]
        BY <1>1, <2>1
    <2>3. run[n + 1] = Step(run[n], s[n + 1])
        BY <1>2, <2>1
    <2>4. runw[n + 1] = Step(runw[n], w[n + 1])
        BY <1>1, <1>3, <2>1
    <2> QED
        BY <2>1, <2>2, <2>3, <2>4
<1>6. Nat \subseteq T
    BY <1>4, <1>5, SetInduction
<1>7. runw[Len(s)] = run[Len(s)]
    BY <1>1, <1>6
<1>8. runw[Len(s) + 1] = Step(runw[Len(s)], w[Len(s) + 1])
    BY <1>1, <1>3
<1> QED
    BY <1>1, <1>2, <1>3, <1>7, <1>8 DEF w

LEMMA RunOne ==
    ASSUME NEW A, NEW u \in Unit
    PROVE  Run(A, <<u>>) = Step(A, u)
<1>1. <<>> \in Seq(Unit) /\ Append(<<>>, u) = <<u>>
    OBVIOUS
<1> QED
    BY <1>1, RunAppend, RunEmpty

(* Reading one sequence and then another.                                    *)
LEMMA RunJoin ==
    ASSUME NEW A, NEW s \in Seq(Unit), NEW t \in Seq(Unit)
    PROVE  Run(A, Join(s, t)) = Run(Run(A, s), t)
<1> DEFINE T == {n \in Nat : \A v \in Seq(Unit) :
                   Len(v) = n => Run(A, Join(s, v)) = Run(Run(A, s), v)}
<1>1. 0 \in T
    <2> SUFFICES ASSUME NEW v \in Seq(Unit), Len(v) = 0
                 PROVE  Run(A, Join(s, v)) = Run(Run(A, s), v)
        OBVIOUS
    <2>1. v = <<>>
        OBVIOUS
    <2> QED
        BY <2>1, JoinEmpty, RunEmpty
<1>2. ASSUME NEW n \in Nat, n \in T PROVE n + 1 \in T
    <2> SUFFICES ASSUME NEW v \in Seq(Unit), Len(v) = n + 1
                 PROVE  Run(A, Join(s, v)) = Run(Run(A, s), v)
        OBVIOUS
    <2>1. PICK f \in Seq(Unit) : \E u \in Unit : Len(f) = n /\ v = Append(f, u)
        BY FrontAndLast
    <2>2. PICK u \in Unit : Len(f) = n /\ v = Append(f, u)
        BY <2>1
    <2>3. Run(A, Join(s, f)) = Run(Run(A, s), f)
        BY <1>2, <2>2
    <2>4. Run(A, Join(s, v)) = Step(Run(A, Join(s, f)), u)
        <3>1. Join(s, v) = Append(Join(s, f), u)
            BY <2>2, JoinAppend
        <3>2. Join(s, f) \in Seq(Unit)
            BY JoinIsUnits
        <3> QED
            BY <3>1, <3>2, RunAppend
    <2>5. Run(Run(A, s), v) = Step(Run(Run(A, s), f), u)
        BY <2>2, RunAppend
    <2> QED
        BY <2>3, <2>4, <2>5
<1>3. Nat \subseteq T
    BY <1>1, <1>2, SetInduction
<1>4. Len(t) \in Nat
    OBVIOUS
<1> QED
    BY <1>3, <1>4

LEMMA RunHead ==
    ASSUME NEW A, NEW s \in Seq(Unit), s # <<>>
    PROVE  Run(A, s) = Run(Step(A, Head(s)), Tail(s))
<1>1. Head(s) \in Unit /\ Tail(s) \in Seq(Unit) /\ s = Join(<<Head(s)>>, Tail(s))
    BY HeadAndTail
<1>2. <<Head(s)>> \in Seq(Unit)
    BY <1>1
<1>3. Run(A, Join(<<Head(s)>>, Tail(s))) = Run(Run(A, <<Head(s)>>), Tail(s))
    BY <1>1, <1>2, RunJoin
<1> QED
    BY <1>1, <1>3, RunOne

(* The automaton stays where it is lost or stuck.                            *)
LEMMA RunStays ==
    ASSUME NEW A, A.mode \in {"lost", "stuck"}, NEW s \in Seq(Unit)
    PROVE  Run(A, s) = A
<1> DEFINE T == {n \in Nat : \A v \in Seq(Unit) : Len(v) = n => Run(A, v) = A}
<1>1. 0 \in T
    <2> SUFFICES ASSUME NEW v \in Seq(Unit), Len(v) = 0
                 PROVE  Run(A, v) = A
        OBVIOUS
    <2>1. v = <<>>
        OBVIOUS
    <2> QED
        BY <2>1, RunEmpty
<1>2. ASSUME NEW n \in Nat, n \in T PROVE n + 1 \in T
    <2> SUFFICES ASSUME NEW v \in Seq(Unit), Len(v) = n + 1
                 PROVE  Run(A, v) = A
        OBVIOUS
    <2>1. PICK f \in Seq(Unit) : \E u \in Unit : Len(f) = n /\ v = Append(f, u)
        BY FrontAndLast
    <2>2. PICK u \in Unit : Len(f) = n /\ v = Append(f, u)
        BY <2>1
    <2>3. Run(A, f) = A
        BY <1>2, <2>2
    <2>4. Step(A, u) = A
        BY DEF Step
    <2> QED
        BY <2>2, <2>3, <2>4, RunAppend
<1>3. Nat \subseteq T
    BY <1>1, <1>2, SetInduction
<1>4. Len(s) \in Nat
    OBVIOUS
<1> QED
    BY <1>3, <1>4

-----------------------------------------------------------------------------
(* Types.                                                                    *)

LEMMA SizesAreNat == Sizes \subseteq Nat \ {0}
BY SizesAssumption DEF Sizes

LEMMA UnitKinds ==
    ASSUME NEW u \in Unit
    PROVE  /\ u.unit = "basic" => u.csid \in Csids /\ u.fmt \in 0 .. 3
           /\ u.unit = "header" => /\ u.ts \in Stamps /\ u.ext \in BOOLEAN
                                   /\ u.len \in Nat /\ u.type \in Types
           /\ u.unit = "ext" => u.ts \in Stamps
           /\ u.unit = "cell" => u \in Cell
           /\ u \in Cell => u.unit = "cell"
BY DEF Unit, Cell

LEMMA CellsAreUnits ==
    ASSUME NEW s \in Seq(Cell)
    PROVE  s \in Seq(Unit)
<1>1. Cell \subseteq Unit
    BY DEF Unit
<1> QED
    BY <1>1, SeqMonotonic

LEMMA StateIsAutomaton ==
    ASSUME NEW mode \in Modes, NEW fmt \in 0 .. 3, NEW c \in Csids, NEW need \in Nat,
           NEW size \in Sizes, NEW streams \in [Csids -> Stream], NEW out \in Seq(Message)
    PROVE  State(mode, fmt, c, need, size, streams, out) \in Automaton
BY DEF State, Automaton

LEMMA AutomatonParts ==
    ASSUME NEW A \in Automaton
    PROVE  /\ A.mode \in Modes /\ A.fmt \in 0 .. 3 /\ A.csid \in Csids /\ A.need \in Nat
           /\ A.chunk_size \in Sizes /\ A.cs \in [Csids -> Stream]
           /\ A.delivered \in Seq(Message) /\ A.cs[A.csid] \in Stream
BY DEF Automaton

LEMMA InModeType ==
    ASSUME NEW A \in Automaton, NEW mode \in Modes
    PROVE  InMode(A, mode) \in Automaton
BY AutomatonParts, StateIsAutomaton DEF InMode

LEMMA StreamParts ==
    ASSUME NEW s \in Stream
    PROVE  /\ s.known \in BOOLEAN /\ s.phase \in {"header", "payload"} /\ s.fmt \in 0 .. 3
           /\ s.chunk_size \in Sizes /\ s.ext_ts_flag \in BOOLEAN /\ s.timestamp32 \in Stamps
           /\ s.timestamp_delta \in Stamps /\ s.msg_len \in Nat /\ s.type_id \in Types
           /\ s.remain \in Nat /\ s.chunk_data \in Seq(Cell)
BY DEF Stream

LEMMA LookupType ==
    ASSUME NEW s \in Stream, NEW fmt \in 0 .. 3, NEW size \in Sizes
    PROVE  Lookup(s, fmt, size) \in Stream
BY DEF Lookup, Stream

LEMMA FoundType ==
    ASSUME NEW A \in Automaton, NEW fmt \in 0 .. 3, NEW c \in Csids
    PROVE  Found(A, fmt, c) \in Automaton
<1> DEFINE x == Lookup(A.cs[c], fmt, A.chunk_size)
<1>1. A.cs[c] \in Stream /\ A.chunk_size \in Sizes
    BY AutomatonParts
<1>2. x \in Stream
    BY <1>1, LookupType
<1> HIDE DEF x
<1>3. [A.cs EXCEPT ![c] = x] \in [Csids -> Stream]
    BY <1>2, AutomatonParts
<1>4. "header" \in Modes /\ 0 \in Nat
    BY DEF Modes
<1> QED
    BY <1>3, <1>4, AutomatonParts, StateIsAutomaton DEF Found, x

LEMMA RequireLenType ==
    ASSUME NEW s \in Stream
    PROVE  /\ require_len(s) \in Nat
           /\ require_len(s) <= s.remain /\ require_len(s) <= s.chunk_size
           /\ s.remain > 0 => require_len(s) > 0
           /\ require_len(s) = s.remain \/ require_len(s) = s.chunk_size
<1>1. s.remain \in Nat /\ s.chunk_size \in Nat \ {0}
    BY StreamParts, SizesAreNat
<1> QED
    BY <1>1 DEF require_len, Smaller

LEMMA InPayloadType ==
    ASSUME NEW A \in Automaton, NEW s \in Stream
    PROVE  InPayload(A, s) \in Automaton
<1>1. [A.cs EXCEPT ![A.csid] = s] \in [Csids -> Stream]
    BY AutomatonParts
<1>2. (IF s.remain = 0 THEN "stuck" ELSE "payload") \in Modes
    BY DEF Modes
<1>3. require_len(s) \in Nat
    BY RequireLenType
<1> QED
    BY <1>1, <1>2, <1>3, AutomatonParts, StateIsAutomaton DEF InPayload

LEMMA StampSum ==
    ASSUME NEW a \in Stamps, NEW b \in Stamps
    PROVE  (a + b) % TsWrap \in Stamps
<1>1. TsWrap \in Nat \ {0} /\ a + b \in Nat
    BY StampsAssumption DEF Stamps
<1>2. (a + b) % TsWrap \in 0 .. TsWrap - 1
    BY <1>1
<1> QED
    BY <1>2 DEF Stamps

LEMMA FormatType ==
    ASSUME NEW s \in Stream, NEW fmt \in 0 .. 3, NEW u \in Unit, is_header(u)
    PROVE  read_msg_format(s, fmt, u) \in Stream
<1>1. u.ts \in Stamps /\ u.len \in Nat /\ u.type \in Types
    BY UnitKinds DEF is_header
<1>2. (s.timestamp32 + u.ts) % TsWrap \in Stamps /\ s.msg_len \in Nat
    BY <1>1, StampSum, StreamParts
<1>3. 0 \in Stamps
    BY StampsAssumption DEF Stamps
<1>4. (s.ext_ts_flag \/ u.ts >= ExtLimit) \in BOOLEAN
    OBVIOUS
<1> QED
    BY <1>1, <1>2, <1>3, <1>4 DEF read_msg_format, Stream

LEMMA Format3Records ==
    ASSUME NEW s \in Stream, NEW fmt \in 0 .. 3, NEW n \in Nat, NEW ts \in Stamps, NEW data \in Seq(Cell)
    PROVE  [s EXCEPT !.phase = "payload", !.fmt = fmt, !.remain = n,
                     !.chunk_data = data, !.timestamp32 = ts] \in Stream
BY DEF Stream

LEMMA Format3Record ==
    ASSUME NEW s \in Stream, NEW fmt \in 0 .. 3
    PROVE  [s EXCEPT !.phase = "payload", !.fmt = fmt] \in Stream
BY DEF Stream

LEMMA Format3Type ==
    ASSUME NEW s \in Stream, NEW u \in Unit, ~Wrong3(s, u)
    PROVE  read_msg_format3(s, u) \in Stream
<1> DEFINE three == 3
<1>1. 0 \in Stamps /\ three \in 0 .. 3
    BY StampsAssumption DEF Stamps
<1>2. CASE begins(s)
    <2>1. s.ext_ts_flag /\ s.fmt # 3 => u.ts \in Stamps
        BY <1>2, UnitKinds DEF Wrong3, takes_ext
    <2>2. s.fmt = 0 /\ s.ext_ts_flag => u.ts \in Stamps
        BY <2>1
    <2>3. delta3(s, u) \in Stamps
        BY <1>1, <2>1, StreamParts DEF delta3
    <2>4. (s.timestamp32 + delta3(s, u)) % TsWrap \in Stamps
        BY <2>3, StampSum, StreamParts
    <2> DEFINE ts == IF s.fmt = 0 /\ s.ext_ts_flag THEN u.ts
                     ELSE (s.timestamp32 + delta3(s, u)) % TsWrap
               none == <<>>
               n == s.msg_len
    <2>5. ts \in Stamps /\ none \in Seq(Cell) /\ n \in Nat
        BY <2>2, <2>4, StreamParts
    <2>6. read_msg_format3(s, u) = [s EXCEPT !.phase = "payload", !.fmt = three, !.remain = n,
                                             !.chunk_data = none, !.timestamp32 = ts]
        BY <1>2 DEF read_msg_format3
    <2> HIDE DEF ts, none, n, three
    <2>7. [s EXCEPT !.phase = "payload", !.fmt = three, !.remain = n,
                    !.chunk_data = none, !.timestamp32 = ts] \in Stream
        BY <1>1, <2>5, Format3Records
    <2> QED
        BY <2>6, <2>7
<1>3. CASE ~begins(s)
    <2>1. read_msg_format3(s, u) = [s EXCEPT !.phase = "payload", !.fmt = three]
        BY <1>3 DEF read_msg_format3
    <2> HIDE DEF three
    <2> QED
        BY <1>1, <2>1, Format3Record
<1> QED
    BY <1>2, <1>3

LEMMA FinishType ==
    ASSUME NEW A \in Automaton, NEW data \in Seq(Cell), data # <<>>
    PROVE  Finish(A, A.cs[A.csid], data) \in Automaton
<1> DEFINE s == A.cs[A.csid]
           f == FinishStream(s, data)
           z == HandledSize(s, data, A.chunk_size)
           m == ReadyMessage(A.csid, s, data)
<1>1. s \in Stream /\ A.chunk_size \in Sizes /\ A.csid \in Csids
    BY AutomatonParts
<1> HIDE DEF s
<1>2. require_len(s) \in Nat /\ s.remain - require_len(s) \in Nat
    BY <1>1, RequireLenType, StreamParts
<1>3. f \in Stream
    <2> DEFINE rest == IF is_ready(s, require_len(s)) THEN <<>> ELSE data
    <2>1. rest \in Seq(Cell)
        OBVIOUS
    <2>2. f = [s EXCEPT !.phase = "header", !.remain = s.remain - require_len(s), !.chunk_data = rest]
        BY DEF FinishStream
    <2> HIDE DEF rest
    <2> QED
        BY <1>1, <1>2, <2>1, <2>2 DEF Stream
<1>4. data[1] \in Cell
    OBVIOUS
<1>5. z \in Sizes
    BY <1>1, <1>4, StreamParts DEF HandledSize, Cell, Types, Sizes
<1>6. m \in Message
    BY <1>1, StreamParts DEF ReadyMessage, Message
<1> HIDE DEF f, z, m
<1>7. [A.cs EXCEPT ![A.csid] = f] \in [Csids -> Stream]
    BY <1>3, AutomatonParts
<1>8. Append(A.delivered, m) \in Seq(Message)
    BY <1>6, AutomatonParts
<1>9. "idle" \in Modes /\ 0 \in Nat
    BY DEF Modes
<1> DEFINE ready == is_ready(s, require_len(s))
           z2 == IF ready THEN z ELSE A.chunk_size
           o2 == IF ready THEN Append(A.delivered, m) ELSE A.delivered
           c2 == [A.cs EXCEPT ![A.csid] = f]
<1>10. z2 \in Sizes /\ o2 \in Seq(Message) /\ c2 \in [Csids -> Stream]
    BY <1>1, <1>5, <1>7, <1>8, AutomatonParts
<1>11. Finish(A, s, data) = State("idle", A.fmt, A.csid, 0, z2, c2, o2)
    BY DEF Finish, f, z, m
<1> HIDE DEF z2, o2, c2
<1>12. State("idle", A.fmt, A.csid, 0, z2, c2, o2) \in Automaton
    BY <1>9, <1>10, AutomatonParts, StateIsAutomaton
<1> QED
    BY <1>11, <1>12 DEF s

LEMMA FilledType ==
    ASSUME NEW A \in Automaton, NEW data \in Seq(Cell), NEW n \in Nat
    PROVE  Filled(A, data, n) \in Automaton
<1> DEFINE f == [A.cs[A.csid] EXCEPT !.chunk_data = data]
<1>1. f \in Stream
    BY AutomatonParts DEF Stream
<1> HIDE DEF f
<1>2. [A.cs EXCEPT ![A.csid] = f] \in [Csids -> Stream]
    BY <1>1, AutomatonParts
<1>3. "payload" \in Modes
    BY DEF Modes
<1> QED
    BY <1>2, <1>3, AutomatonParts, StateIsAutomaton DEF Filled, f

LEMMA TakeType ==
    ASSUME NEW A \in Automaton, NEW u \in Unit
    PROVE  Take(A, u) \in Automaton
<1> DEFINE data == Append(A.cs[A.csid].chunk_data, u)
<1>1. CASE A.mode = "stuck"
    BY <1>1 DEF Take
<1>2. CASE A.mode # "stuck" /\ u.unit # "cell"
    BY <1>2, InModeType DEF Take, Modes
<1>3. CASE A.mode # "stuck" /\ u.unit = "cell"
    <2>1. A.cs[A.csid].chunk_data \in Seq(Cell) /\ u \in Cell
        BY <1>3, AutomatonParts, StreamParts, UnitKinds
    <2>2. data \in Seq(Cell) /\ data # <<>>
        BY <2>1
    <2>3. A.need \in Nat
        BY AutomatonParts
    <2> HIDE DEF data
    <2>4. CASE A.need > 1
        <3>1. A.need - 1 \in Nat
            BY <2>3, <2>4
        <3> QED
            BY <1>3, <2>2, <2>4, <3>1, FilledType DEF Take, data
    <2>5. CASE ~(A.need > 1)
        BY <1>3, <2>2, <2>5, FinishType DEF Take, data
    <2> QED
        BY <2>4, <2>5
<1> QED
    BY <1>1, <1>2, <1>3

LEMMA StepType ==
    ASSUME NEW A \in Automaton, NEW u \in Unit
    PROVE  Step(A, u) \in Automaton
<1> DEFINE s == A.cs[A.csid]
<1>1. s \in Stream /\ A.fmt \in 0 .. 3 /\ A.csid \in Csids
    BY AutomatonParts
<1>2. "lost" \in Modes /\ "stuck" \in Modes /\ "basic2" \in Modes /\ 0 \in Nat
    BY DEF Modes
<1>3. CASE A.mode = "idle"
    <2>1. CASE u.unit # "basic"
        BY <1>2, <1>3, <2>1, InModeType DEF Step, StepIdle
    <2>2. CASE u.unit = "basic"
        <3>1. u.csid \in Csids /\ u.fmt \in 0 .. 3
            BY <2>2, UnitKinds
        <3>2. Found(A, u.fmt, u.csid) \in Automaton
            BY <3>1, FoundType
        <3>3. State("basic2", u.fmt, u.csid, 0, A.chunk_size, A.cs, A.delivered) \in Automaton
            BY <1>2, <3>1, AutomatonParts, StateIsAutomaton
        <3> QED
            BY <1>3, <2>2, <3>2, <3>3 DEF Step, StepIdle
    <2> QED
        BY <2>1, <2>2
<1>4. CASE A.mode = "basic2"
    BY <1>1, <1>2, <1>4, FoundType, InModeType DEF Step, StepBasic2
<1>5. CASE A.mode = "header"
    <2>1. CASE A.fmt # 3
        <3>1. is_header(u) => InPayload(A, read_msg_format(s, A.fmt, u)) \in Automaton
            BY <1>1, FormatType, InPayloadType
        <3> QED
            BY <1>2, <1>5, <2>1, <3>1, InModeType DEF Step, StepHeader
    <2>2. CASE A.fmt = 3
        <3>1. CASE Wrong3(s, u)
            BY <1>2, <1>5, <2>2, <3>1, InModeType DEF Step, StepHeader
        <3>2. CASE ~Wrong3(s, u)
            <4>1. InPayload(A, read_msg_format3(s, u)) \in Automaton
                BY <1>1, <3>2, Format3Type, InPayloadType
            <4>2. Take(InPayload(A, read_msg_format3(s, u)), u) \in Automaton
                BY <4>1, TakeType
            <4> QED
                BY <1>5, <2>2, <3>2, <4>1, <4>2 DEF Step, StepHeader
        <3> QED
            BY <3>1, <3>2
    <2> QED
        BY <2>1, <2>2
<1>6. CASE A.mode = "payload"
    BY <1>6, TakeType DEF Step
<1>7. CASE A.mode \in {"lost", "stuck"}
    BY <1>7 DEF Step
<1> QED
    BY <1>3, <1>4, <1>5, <1>6, <1>7, AutomatonParts DEF Modes

LEMMA RunType ==
    ASSUME NEW A \in Automaton, NEW s \in Seq(Unit)
    PROVE  Run(A, s) \in Automaton
<1> DEFINE T == {n \in Nat : \A v \in Seq(Unit) : Len(v) = n => Run(A, v) \in Automaton}
<1>1. 0 \in T
    <2> SUFFICES ASSUME NEW v \in Seq(Unit), Len(v) = 0
                 PROVE  Run(A, v) \in Automaton
        OBVIOUS
    <2>1. v = <<>>
        OBVIOUS
    <2> QED
        BY <2>1, RunEmpty
<1>2. ASSUME NEW n \in Nat, n \in T PROVE n + 1 \in T
    <2> SUFFICES ASSUME NEW v \in Seq(Unit), Len(v) = n + 1
                 PROVE  Run(A, v) \in Automaton
        OBVIOUS
    <2>1. PICK f \in Seq(Unit) : \E u \in Unit : Len(f) = n /\ v = Append(f, u)
        BY FrontAndLast
    <2>2. PICK u \in Unit : Len(f) = n /\ v = Append(f, u)
        BY <2>1
    <2>3. Run(A, f) \in Automaton
        BY <1>2, <2>2
    <2>4. Step(Run(A, f), u) \in Automaton
        BY <2>3, StepType
    <2> QED
        BY <2>2, <2>4, RunAppend
<1>3. Nat \subseteq T
    BY <1>1, <1>2, SetInduction
<1>4. Len(s) \in Nat
    OBVIOUS
<1> QED
    BY <1>3, <1>4

-----------------------------------------------------------------------------
(* What was delivered stays delivered.                                       *)
Extends(a, b) == Len(a) <= Len(b) /\ \A i \in 1 .. Len(a) : b[i] = a[i]

Grown(a, b) == a = b \/ \E m : b = Append(a, m)

LEMMA FinishGrows ==
    ASSUME NEW A \in Automaton, NEW s, NEW data
    PROVE  Grown(A.delivered, Finish(A, s, data).delivered)
<1> DEFINE m == ReadyMessage(A.csid, s, data)
<1>1. Finish(A, s, data).delivered = A.delivered \/ Finish(A, s, data).delivered = Append(A.delivered, m)
    BY DEF Finish, State
<1> HIDE DEF m
<1> QED
    BY <1>1, Zenon DEF Grown

LEMMA TakeGrows ==
    ASSUME NEW A \in Automaton, NEW u
    PROVE  Grown(A.delivered, Take(A, u).delivered)
<1> DEFINE data == Append(A.cs[A.csid].chunk_data, u)
           s == A.cs[A.csid]
<1>1. Grown(A.delivered, Finish(A, s, data).delivered)
    BY FinishGrows
<1>2. Filled(A, data, A.need - 1).delivered = A.delivered
    BY DEF Filled, State
<1>3. InMode(A, "lost").delivered = A.delivered
    BY DEF InMode, State
<1>4. Grown(A.delivered, A.delivered)
    BY DEF Grown
<1>5. \/ Take(A, u) = A
      \/ Take(A, u) = InMode(A, "lost")
      \/ Take(A, u) = Filled(A, data, A.need - 1)
      \/ Take(A, u) = Finish(A, s, data)
    BY DEF Take
<1> HIDE DEF data, s
<1> QED
    BY <1>1, <1>2, <1>3, <1>4, <1>5

LEMMA StepGrows ==
    ASSUME NEW A \in Automaton, NEW u \in Unit
    PROVE  Grown(A.delivered, Step(A, u).delivered)
<1> DEFINE s == A.cs[A.csid]
           P0 == InPayload(A, read_msg_format(s, A.fmt, u))
           P3 == InPayload(A, read_msg_format3(s, u))
<1>1. /\ P0.delivered = A.delivered
      /\ P3.delivered = A.delivered
    BY DEF InPayload, State
<1>2. ~Wrong3(s, u) => P3 \in Automaton
    BY AutomatonParts, Format3Type, InPayloadType
<1>3. ~Wrong3(s, u) => Grown(P3.delivered, Take(P3, u).delivered)
    BY <1>2, TakeGrows
<1>4. Grown(A.delivered, A.delivered)
    BY DEF Grown
<1>5. InMode(A, "lost").delivered = A.delivered /\ InMode(A, "stuck").delivered = A.delivered
    BY DEF InMode, State
<1>6. \A fmt, c : Found(A, fmt, c).delivered = A.delivered
    BY DEF Found, State
<1>7. Grown(A.delivered, Take(A, u).delivered)
    BY TakeGrows
<1>8. StepIdle(A, u).delivered = A.delivered
    BY <1>5, <1>6 DEF StepIdle, State
<1>9. StepBasic2(A, u).delivered = A.delivered
    BY <1>5, <1>6 DEF StepBasic2
<1>10. \/ StepHeader(A, u) = P0
       \/ StepHeader(A, u) = InMode(A, "lost")
       \/ StepHeader(A, u) = P3
       \/ ~Wrong3(s, u) /\ StepHeader(A, u) = Take(P3, u)
    BY DEF StepHeader
<1> HIDE DEF P0, P3, s
<1>11. Grown(A.delivered, StepHeader(A, u).delivered)
    BY <1>1, <1>3, <1>4, <1>5, <1>10
<1> QED
    BY <1>4, <1>7, <1>8, <1>9, <1>11 DEF Step

LEMMA GrownExtends ==
    ASSUME NEW S, NEW a \in Seq(S), NEW b \in Seq(S), NEW c, Extends(a, b), Grown(b, c)
    PROVE  Extends(a, c)
<1>1. CASE b = c
    BY <1>1
<1>2. CASE \E m : c = Append(b, m)
    <2>1. PICK m : c = Append(b, m)
        BY <1>2
    <2>2. Len(c) = Len(b) + 1 /\ \A i \in 1 .. Len(b) : c[i] = b[i]
        BY <2>1
    <2>3. Len(a) \in Nat /\ Len(b) \in Nat
        OBVIOUS
    <2> QED
        BY <2>2, <2>3 DEF Extends
<1> QED
    BY <1>1, <1>2 DEF Grown

LEMMA RunGrows ==
    ASSUME NEW A \in Automaton, NEW s \in Seq(Unit)
    PROVE  Extends(A.delivered, Run(A, s).delivered)
<1> DEFINE d == A.delivered
           T == {n \in Nat : \A v \in Seq(Unit) : Len(v) = n => Extends(d, Run(A, v).delivered)}
<1>1. d \in Seq(Message)
    BY AutomatonParts
<1>2. 0 \in T
    <2> SUFFICES ASSUME NEW v \in Seq(Unit), Len(v) = 0
                 PROVE  Extends(d, Run(A, v).delivered)
        OBVIOUS
    <2>1. v = <<>>
        OBVIOUS
    <2>2. Extends(d, d)
        BY <1>1 DEF Extends
    <2> QED
        BY <2>1, <2>2, RunEmpty
<1>3. ASSUME NEW n \in Nat, n \in T PROVE n + 1 \in T
    <2> SUFFICES ASSUME NEW v \in Seq(Unit), Len(v) = n + 1
                 PROVE  Extends(d, Run(A, v).delivered)
        OBVIOUS
    <2>1. PICK f \in Seq(Unit) : \E u \in Unit : Len(f) = n /\ v = Append(f, u)
        BY FrontAndLast
    <2>2. PICK u \in Unit : Len(f) = n /\ v = Append(f, u)
        BY <2>1
    <2> DEFINE B == Run(A, f)
    <2>3. Extends(d, B.delivered)
        BY <1>3, <2>2
    <2>4. B \in Automaton
        BY RunType
    <2>5. Run(A, v) = Step(B, u)
        BY <2>2, RunAppend
    <2> HIDE DEF B, d
    <2>6. Grown(B.delivered, Step(B, u).delivered) /\ B.delivered \in Seq(Message)
        BY <2>4, StepGrows, AutomatonParts
    <2> QED
        BY <1>1, <2>3, <2>5, <2>6, GrownExtends
<1>4. Nat \subseteq T
    BY <1>2, <1>3, SetInduction
<1>5. Len(s) \in Nat
    OBVIOUS
<1> QED
    BY <1>4, <1>5

(* A match of more is a match of less.                                       *)
LEMMA MatchesLess ==
    ASSUME NEW a \in Seq(Message), NEW b \in Seq(Message), Extends(a, b),
           NEW m \in Seq(Message), NEW o, Matches(b, m, o)
    PROVE  Matches(a, m, o)
<1>1. Len(a) \in Nat /\ Len(b) \in Nat /\ Len(m) \in Nat
    OBVIOUS
<1> QED
    BY <1>1 DEF Extends, Matches

-----------------------------------------------------------------------------
(* Payload.                                                                  *)

LEMMA FilledAgain ==
    ASSUME NEW A \in Automaton, NEW d \in Seq(Cell), NEW e \in Seq(Cell), NEW n \in Nat, NEW k \in Nat
    PROVE  Filled(Filled(A, d, n), e, k) = Filled(A, e, k)
<1> DEFINE s == A.cs[A.csid]
           B == Filled(A, d, n)
           sd == [s EXCEPT !.chunk_data = d]
           se == [s EXCEPT !.chunk_data = e]
           cd == [A.cs EXCEPT ![A.csid] = sd]
<1>1. s \in Stream /\ A.cs \in [Csids -> Stream] /\ A.csid \in Csids
    BY AutomatonParts
<1>2. /\ B.cs = cd /\ B.fmt = A.fmt /\ B.csid = A.csid
      /\ B.chunk_size = A.chunk_size /\ B.delivered = A.delivered
    BY DEF Filled, State
<1> HIDE DEF B
<1>3. [sd EXCEPT !.chunk_data = e] = se
    BY <1>1 DEF Stream
<1>4. cd[A.csid] = sd
    BY <1>1
<1> HIDE DEF s, sd, se
<1>5. [cd EXCEPT ![A.csid] = se] = [A.cs EXCEPT ![A.csid] = se]
    BY <1>1
<1> HIDE DEF cd
<1>6. Filled(B, e, k) = State("payload", A.fmt, A.csid, k, A.chunk_size,
                              [cd EXCEPT ![A.csid] = se], A.delivered)
    BY <1>2, <1>3, <1>4 DEF Filled
<1>7. Filled(A, e, k) = State("payload", A.fmt, A.csid, k, A.chunk_size,
                              [A.cs EXCEPT ![A.csid] = se], A.delivered)
    BY DEF Filled, s, se
<1> QED
    BY <1>5, <1>6, <1>7 DEF B

LEMMA FilledSame ==
    ASSUME NEW A \in Automaton, A.mode = "payload"
    PROVE  Filled(A, A.cs[A.csid].chunk_data, A.need) = A
<1> DEFINE s == A.cs[A.csid]
           c2 == [A.cs EXCEPT ![A.csid] = s]
<1>1. s \in Stream /\ A.cs \in [Csids -> Stream] /\ A.csid \in Csids
    BY AutomatonParts
<1>2. [s EXCEPT !.chunk_data = s.chunk_data] = s
    BY <1>1 DEF Stream
<1>3. c2 = A.cs
    BY <1>1
<1> HIDE DEF s, c2
<1>4. Filled(A, s.chunk_data, A.need)
        = State("payload", A.fmt, A.csid, A.need, A.chunk_size, c2, A.delivered)
    BY <1>2 DEF Filled, s, c2
<1>5. State("payload", A.fmt, A.csid, A.need, A.chunk_size, A.cs, A.delivered) = A
    BY DEF State, Automaton
<1> QED
    BY <1>3, <1>4, <1>5 DEF s

LEMMA FinishFilled ==
    ASSUME NEW A \in Automaton, NEW d \in Seq(Cell), NEW e \in Seq(Cell), NEW n \in Nat
    PROVE  Finish(Filled(A, d, n), Filled(A, d, n).cs[A.csid], e) = Finish(A, A.cs[A.csid], e)
<1> DEFINE s == A.cs[A.csid]
           B == Filled(A, d, n)
           sd == [s EXCEPT !.chunk_data = d]
           cd == [A.cs EXCEPT ![A.csid] = sd]
           fs == FinishStream(s, e)
<1>1. s \in Stream /\ A.cs \in [Csids -> Stream] /\ A.csid \in Csids
    BY AutomatonParts
<1>2. /\ B.cs = cd /\ B.fmt = A.fmt /\ B.csid = A.csid
      /\ B.chunk_size = A.chunk_size /\ B.delivered = A.delivered
    BY DEF Filled, State
<1> HIDE DEF B
<1>3. cd[A.csid] = sd
    BY <1>1
<1>4. /\ sd.remain = s.remain /\ sd.chunk_size = s.chunk_size /\ sd.type_id = s.type_id
      /\ sd.timestamp32 = s.timestamp32
    BY <1>1 DEF Stream
<1>5. require_len(sd) = require_len(s)
    BY <1>4 DEF require_len
<1>6. is_ready(sd, require_len(sd)) <=> is_ready(s, require_len(s))
    BY <1>4, <1>5 DEF is_ready
<1>7. HandledSize(sd, e, A.chunk_size) = HandledSize(s, e, A.chunk_size)
    BY <1>4 DEF HandledSize
<1>8. ReadyMessage(A.csid, sd, e) = ReadyMessage(A.csid, s, e)
    BY <1>4 DEF ReadyMessage
<1>9. FinishStream(sd, e) = fs
    <2> DEFINE rest == IF is_ready(s, require_len(s)) THEN <<>> ELSE e
               left == s.remain - require_len(s)
    <2>1. FinishStream(s, e) = [s EXCEPT !.phase = "header", !.remain = left, !.chunk_data = rest]
        BY DEF FinishStream
    <2>2. FinishStream(sd, e) = [sd EXCEPT !.phase = "header", !.remain = left, !.chunk_data = rest]
        BY <1>4, <1>5, <1>6 DEF FinishStream
    <2> HIDE DEF rest, left
    <2>3. [sd EXCEPT !.phase = "header", !.remain = left, !.chunk_data = rest]
            = [s EXCEPT !.phase = "header", !.remain = left, !.chunk_data = rest]
        BY <1>1 DEF Stream
    <2> QED
        BY <2>1, <2>2, <2>3
<1> HIDE DEF s, sd, fs
<1>10. [cd EXCEPT ![A.csid] = fs] = [A.cs EXCEPT ![A.csid] = fs]
    BY <1>1
<1> HIDE DEF cd
<1>11. Finish(B, sd, e) = Finish(A, s, e)
    BY <1>2, <1>5, <1>6, <1>7, <1>8, <1>9, <1>10 DEF Finish, fs
<1> QED
    BY <1>2, <1>3, <1>11 DEF B, s

LEMMA StepCell ==
    ASSUME NEW A \in Automaton, NEW d \in Seq(Cell), NEW n \in Nat \ {0}, NEW u \in Cell
    PROVE  Step(Filled(A, d, n), u) = IF n > 1 THEN Filled(A, Append(d, u), n - 1)
                                      ELSE Finish(A, A.cs[A.csid], Append(d, u))
<1> DEFINE B == Filled(A, d, n)
           e == Append(d, u)
<1>1. u.unit = "cell" /\ e \in Seq(Cell)
    BY DEF Cell
<1>2. /\ B.mode = "payload" /\ B.need = n /\ B.csid = A.csid
      /\ B.cs = [A.cs EXCEPT ![A.csid] = [A.cs[A.csid] EXCEPT !.chunk_data = d]]
    BY DEF Filled, State
<1>3. B.cs[A.csid].chunk_data = d
    BY <1>2, AutomatonParts DEF Stream
<1>4. n > 1 => Filled(B, e, n - 1) = Filled(A, e, n - 1)
    <2> DEFINE k == n - 1
    <2>1. k \in Nat
        OBVIOUS
    <2> HIDE DEF k, e
    <2>2. Filled(B, e, k) = Filled(A, e, k)
        BY <1>1, <2>1, FilledAgain
    <2> QED
        BY <2>2 DEF k
<1>5. Finish(B, B.cs[A.csid], e) = Finish(A, A.cs[A.csid], e)
    BY <1>1, FinishFilled
<1> HIDE DEF B
<1>6. Step(B, u) = IF n > 1 THEN Filled(B, e, n - 1) ELSE Finish(B, B.cs[A.csid], e)
    BY <1>1, <1>2, <1>3 DEF Step, Take
<1> QED
    BY <1>4, <1>5, <1>6 DEF B

LEMMA JoinAppendCell ==
    ASSUME NEW s \in Seq(Cell), NEW t \in Seq(Cell), NEW u \in Cell
    PROVE  Join(s, Append(t, u)) = Append(Join(s, t), u)
BY DEF Join

(* Cells that do not complete the chunk.                                     *)
LEMMA RunCells ==
    ASSUME NEW A \in Automaton, A.mode = "payload", NEW q \in Seq(Cell), Len(q) < A.need
    PROVE  Run(A, q) = Filled(A, Join(A.cs[A.csid].chunk_data, q), A.need - Len(q))
<1> DEFINE d == A.cs[A.csid].chunk_data
           T == {n \in Nat : \A v \in Seq(Cell) :
                   Len(v) = n /\ n < A.need => Run(A, v) = Filled(A, Join(d, v), A.need - n)}
<1>1. d \in Seq(Cell) /\ A.need \in Nat
    BY AutomatonParts, StreamParts
<1>2. 0 \in T
    <2> SUFFICES ASSUME NEW v \in Seq(Cell), Len(v) = 0
                 PROVE  Run(A, v) = Filled(A, Join(d, v), A.need - 0)
        OBVIOUS
    <2>1. v = <<>> /\ A.need - 0 = A.need
        BY <1>1
    <2>2. Join(d, <<>>) = d
        BY <1>1 DEF Join
    <2> QED
        BY <2>1, <2>2, RunEmpty, FilledSame
<1>3. ASSUME NEW n \in Nat, n \in T PROVE n + 1 \in T
    <2> SUFFICES ASSUME NEW v \in Seq(Cell), Len(v) = n + 1, n + 1 < A.need
                 PROVE  Run(A, v) = Filled(A, Join(d, v), A.need - (n + 1))
        OBVIOUS
    <2>1. PICK f \in Seq(Cell) : \E u \in Cell : Len(f) = n /\ v = Append(f, u)
        BY FrontAndLastCell
    <2>2. PICK u \in Cell : Len(f) = n /\ v = Append(f, u)
        BY <2>1
    <2> DEFINE e == Join(d, f)
               k == A.need - n
    <2>3. Run(A, f) = Filled(A, e, k)
        BY <1>1, <1>3, <2>2
    <2>4. f \in Seq(Unit) /\ u \in Unit
        BY CellsAreUnits DEF Unit
    <2>5. Run(A, v) = Step(Filled(A, e, k), u)
        BY <2>2, <2>3, <2>4, RunAppend
    <2>6. e \in Seq(Cell)
        BY <1>1, JoinIsCells
    <2>7. k \in Nat \ {0} /\ k > 1 /\ k - 1 = A.need - (n + 1)
        BY <1>1
    <2>8. Join(d, v) = Append(e, u)
        BY <1>1, <2>2, JoinAppendCell
    <2> HIDE DEF e, k, d
    <2> QED
        BY <2>5, <2>6, <2>7, <2>8, StepCell
<1>4. Nat \subseteq T
    BY <1>2, <1>3, SetInduction
<1>5. Len(q) \in Nat
    OBVIOUS
<1> QED
    BY <1>4, <1>5

(* Cells that complete it.                                                   *)
LEMMA RunChunk ==
    ASSUME NEW A \in Automaton, A.mode = "payload", NEW q \in Seq(Cell), Len(q) = A.need, A.need > 0
    PROVE  Run(A, q) = Finish(A, A.cs[A.csid], Join(A.cs[A.csid].chunk_data, q))
<1> DEFINE d == A.cs[A.csid].chunk_data
           n == A.need - 1
<1>1. d \in Seq(Cell) /\ A.need \in Nat /\ n \in Nat /\ Len(q) = n + 1
    BY AutomatonParts, StreamParts
<1>2. PICK f \in Seq(Cell) : \E u \in Cell : Len(f) = n /\ q = Append(f, u)
    BY <1>1, FrontAndLastCell
<1>3. PICK u \in Cell : Len(f) = n /\ q = Append(f, u)
    BY <1>2
<1> DEFINE e == Join(d, f)
           one == A.need - Len(f)
<1>4. Len(f) < A.need /\ one = 1 /\ one \in Nat \ {0} /\ ~(one > 1)
    <2>1. Len(f) = A.need - 1 /\ A.need \in Nat
        BY <1>1, <1>3
    <2> HIDE DEF n
    <2> QED
        BY <2>1
<1>5. Run(A, f) = Filled(A, e, one)
    BY <1>4, RunCells
<1>6. f \in Seq(Unit) /\ u \in Unit
    BY CellsAreUnits DEF Unit
<1>7. Run(A, q) = Step(Filled(A, e, one), u)
    BY <1>3, <1>5, <1>6, RunAppend
<1>8. e \in Seq(Cell)
    BY <1>1, JoinIsCells
<1>9. Join(d, q) = Append(e, u)
    BY <1>1, <1>3, JoinAppendCell
<1> HIDE DEF e, one, d
<1> QED
    BY <1>4, <1>7, <1>8, <1>9, StepCell DEF d

-----------------------------------------------------------------------------
(* Cutting what is on its way.                                               *)

LEMMA CutAt ==
    ASSUME NEW s \in Seq(Unit), NEW n \in 0 .. Len(s)
    PROVE  /\ SubSeq(s, 1, n) \in Seq(Unit) /\ Len(SubSeq(s, 1, n)) = n
           /\ \A i \in 1 .. n : SubSeq(s, 1, n)[i] = s[i]
           /\ From(s, n + 1) \in Seq(Unit) /\ Len(From(s, n + 1)) = Len(s) - n
           /\ \A i \in 1 .. Len(s) - n : From(s, n + 1)[i] = s[n + i]
           /\ s = Join(SubSeq(s, 1, n), From(s, n + 1))
<1>1. Len(s) \in Nat /\ \A i \in 1 .. Len(s) : s[i] \in Unit
    OBVIOUS
<1>2. /\ SubSeq(s, 1, n) \in Seq(Unit) /\ Len(SubSeq(s, 1, n)) = n
      /\ \A i \in 1 .. n : SubSeq(s, 1, n)[i] = s[i]
    BY <1>1
<1> DEFINE r == From(s, n + 1)
           w == Join(SubSeq(s, 1, n), r)
<1>3. /\ r \in Seq(Unit) /\ Len(r) = Len(s) - n
      /\ \A i \in 1 .. Len(s) - n : r[i] = s[n + i]
    BY <1>1 DEF From
<1> HIDE DEF r
<1>4. /\ w \in Seq(Unit) /\ Len(w) = Len(s)
      /\ \A i \in 1 .. Len(s) : w[i] = IF i <= n THEN SubSeq(s, 1, n)[i] ELSE r[i - n]
    BY <1>1, <1>2, <1>3 DEF Join
<1>5. \A i \in 1 .. Len(s) : w[i] = s[i]
    <2> TAKE i \in 1 .. Len(s)
    <2>1. CASE i <= n
        BY <1>2, <1>4, <2>1
    <2>2. CASE i > n
        <3>1. i - n \in 1 .. Len(s) - n /\ n + (i - n) = i
            BY <1>1, <2>2
        <3> QED
            BY <1>3, <1>4, <2>2, <3>1
    <2> QED
        BY <2>1, <2>2
<1> HIDE DEF w
<1>6. w = s
    BY <1>4, <1>5, SeqEqual
<1> QED
    BY <1>2, <1>3, <1>6 DEF w, r

LEMMA UnitsOfCells ==
    ASSUME NEW s \in Seq(Unit), \A i \in 1 .. Len(s) : s[i].unit = "cell"
    PROVE  s \in Seq(Cell)
<1>1. \A i \in 1 .. Len(s) : s[i] \in Unit
    OBVIOUS
<1>2. \A i \in 1 .. Len(s) : s[i] \in Cell
    BY <1>1, UnitKinds
<1> QED
    BY <1>2

(* Anything but a cell within a chunk, and the automaton is lost.            *)
LEMMA RunMistaken ==
    ASSUME NEW A \in Automaton, A.mode = "payload", NEW s \in Seq(Unit),
           NEW j \in 1 .. Len(s), j <= A.need, s[j].unit # "cell"
    PROVE  Run(A, s).mode = "lost"
<1> DEFINE T == {i \in 1 .. Len(s) : s[i].unit # "cell"}
<1>1. Len(s) \in Nat /\ A.need \in Nat
    BY AutomatonParts
<1>2. T \in SUBSET Nat /\ j \in T
    BY <1>1
<1>3. PICK m \in T : \A y \in T : m <= y
    BY <1>2, LeastNumber
<1>4. m \in 1 .. Len(s) /\ m <= j /\ s[m].unit # "cell"
    BY <1>2, <1>3
<1> DEFINE n == m - 1
           f == SubSeq(s, 1, n)
           r == From(s, n + 1)
<1>5. n \in 0 .. Len(s) /\ n < A.need
    BY <1>1, <1>4
<1>6. /\ f \in Seq(Unit) /\ Len(f) = n /\ r \in Seq(Unit) /\ s = Join(f, r)
      /\ \A i \in 1 .. n : f[i] = s[i]
      /\ Len(r) = Len(s) - n /\ \A i \in 1 .. Len(s) - n : r[i] = s[n + i]
    BY <1>5, CutAt
<1>7. \A i \in 1 .. n : f[i].unit = "cell"
    <2> TAKE i \in 1 .. n
    <2>1. i \in 1 .. Len(s) /\ ~(m <= i)
        BY <1>1, <1>4
    <2>2. i \notin T
        BY <1>3, <2>1
    <2> QED
        BY <1>6, <2>1, <2>2
<1>8. r # <<>> /\ Head(r) = s[m]
    <2>1. 1 \in 1 .. Len(s) - n /\ n + 1 = m
        BY <1>1, <1>4
    <2> HIDE DEF r, n
    <2>2. r[1] = s[m] /\ Len(r) > 0
        BY <1>6, <2>1
    <2> QED
        BY <1>6, <2>2
<1>9. s[m] \in Unit
    BY <1>4
<1> HIDE DEF n, f, r, T
<1>10. f \in Seq(Cell)
    BY <1>6, <1>7, UnitsOfCells
<1> DEFINE d == Join(A.cs[A.csid].chunk_data, f)
           B == Filled(A, d, A.need - n)
<1>11. Run(A, f) = B
    BY <1>5, <1>6, <1>10, RunCells
<1>12. B.mode = "payload"
    BY DEF Filled, State
<1> HIDE DEF B
<1>13. Step(B, s[m]).mode = "lost"
    BY <1>4, <1>12 DEF Step, Take, InMode, State
<1>14. Tail(r) \in Seq(Unit)
    BY <1>6, <1>8, HeadAndTail
<1>15. Run(B, r) = Run(Step(B, s[m]), Tail(r))
    BY <1>6, <1>8, RunHead
<1>16. Run(Step(B, s[m]), Tail(r)) = Step(B, s[m])
    <2> DEFINE C == Step(B, s[m])
               x == Tail(r)
    <2>1. C.mode \in {"lost", "stuck"} /\ x \in Seq(Unit)
        BY <1>13, <1>14
    <2> HIDE DEF C, x
    <2>2. Run(C, x) = C
        BY <2>1, RunStays
    <2> QED
        BY <2>2 DEF C, x
<1>17. Run(A, s) = Run(B, r)
    BY <1>6, <1>11, RunJoin
<1> QED
    BY <1>13, <1>15, <1>16, <1>17

-----------------------------------------------------------------------------
(* The reader, seen as the automaton.                                        *)

LEMMA NowType ==
    ASSUME TypeOK
    PROVE  /\ Now \in Automaton
           /\ Pending \in Seq(Unit)
           /\ cs[rd.csid] \in Stream
<1> DEFINE s == cs[rd.csid]
           mode == IF rd.lost THEN "lost"
                   ELSE IF ~rd.fmt_ready THEN "idle"
                   ELSE IF s.phase = "header" THEN "header"
                   ELSE IF s.remain = 0 THEN "stuck"
                   ELSE "payload"
           need == IF rd.fmt_ready /\ s.phase = "payload" THEN require_len(s) ELSE 0
<1>1. /\ rd.fmt \in 0 .. 3 /\ rd.csid \in Csids /\ rd.chunk_size \in Sizes
      /\ cs \in [Csids -> Stream] /\ delivered \in Seq(Message)
    BY DEF TypeOK, Reader
<1>2. s \in Stream
    BY <1>1
<1>3. mode \in Modes
    BY DEF Modes
<1>4. need \in Nat
    BY <1>2, RequireLenType
<1>5. Now = State(mode, rd.fmt, rd.csid, need, rd.chunk_size, cs, delivered)
    BY DEF Now
<1> HIDE DEF mode, need
<1>6. Now \in Automaton
    BY <1>1, <1>3, <1>4, <1>5, StateIsAutomaton
<1>7. Pending \in Seq(Unit)
    BY JoinIsUnits DEF TypeOK, Pending
<1> QED
    BY <1>2, <1>6, <1>7

LEMMA NowParts ==
    /\ Now.fmt = rd.fmt /\ Now.csid = rd.csid /\ Now.chunk_size = rd.chunk_size
    /\ Now.cs = cs /\ Now.delivered = delivered
    /\ rd.lost => Now.mode = "lost"
    /\ ~rd.lost /\ ~rd.fmt_ready => Now.mode = "idle" /\ Now.need = 0
    /\ InPhase("header") => Now.mode = "header" /\ Now.need = 0
    /\ InPhase("payload") => /\ Now.mode = IF cs[rd.csid].remain = 0 THEN "stuck" ELSE "payload"
                             /\ Now.need = require_len(cs[rd.csid])
BY DEF Now, State, InPhase

LEMMA RunFirst ==
    ASSUME NEW A, NEW s \in Seq(Unit), s # <<>>, NEW v \in Seq(Unit)
    PROVE  /\ Head(s) \in Unit /\ Tail(s) \in Seq(Unit)
           /\ Join(Tail(s), v) \in Seq(Unit)
           /\ Run(A, Join(s, v)) = Run(Step(A, Head(s)), Join(Tail(s), v))
<1> DEFINE h == Head(s)
           r == Tail(s)
           w == Join(r, v)
<1>1. h \in Unit /\ r \in Seq(Unit) /\ s = Join(<<h>>, r)
    BY HeadAndTail
<1> HIDE DEF h, r
<1>2. <<h>> \in Seq(Unit)
    BY <1>1
<1>3. Join(s, v) = Join(<<h>>, w)
    BY <1>1, <1>2, JoinIsAssociative
<1>4. w \in Seq(Unit)
    BY <1>1, JoinIsUnits
<1> HIDE DEF w
<1>5. Run(A, Join(<<h>>, w)) = Run(Run(A, <<h>>), w)
    BY <1>2, <1>4, RunJoin
<1>6. Run(A, <<h>>) = Step(A, h)
    BY <1>1, RunOne
<1> QED
    BY <1>1, <1>3, <1>4, <1>5, <1>6 DEF h, r, w

LEMMA ReadOne ==
    ASSUME TypeOK, recv # <<>>
    PROVE  /\ Head(recv) \in Unit /\ Tail(recv) \in Seq(Unit)
           /\ Join(Tail(recv), wire) \in Seq(Unit)
           /\ Run(Now, Pending) = Run(Step(Now, Head(recv)), Join(Tail(recv), wire))
<1>1. recv \in Seq(Unit) /\ wire \in Seq(Unit)
    BY DEF TypeOK
<1>2. /\ Head(recv) \in Unit /\ Tail(recv) \in Seq(Unit)
      /\ Join(Tail(recv), wire) \in Seq(Unit)
      /\ Run(Now, Join(recv, wire)) = Run(Step(Now, Head(recv)), Join(Tail(recv), wire))
    BY <1>1, RunFirst
<1> QED
    BY <1>2 DEF Pending

LEMMA TailIsFrom ==
    ASSUME NEW s \in Seq(Unit), s # <<>>
    PROVE  /\ From(s, 2) = Tail(s)
           /\ Tail(s) # <<>> => From(s, 3) = Tail(Tail(s))
BY DEF From

(* A basic header that is whole.                                             *)
LEMMA ReadWholeBasicHeader ==
    ASSUME TypeOK, PhasesOK, ReadBasicHeader,
           Run(Now, Pending).mode \in {"idle", "payload", "lost"},
           Head(recv).csid \in LongCsids => Len(recv) >= 2
    PROVE  TypeOK' /\ PhasesOK' /\ Run(Now', Pending') = Run(Now, Pending) /\ odd' = odd
<1> DEFINE b == Head(recv)
           c == b.csid
           l == Lookup(cs[c], b.fmt, rd.chunk_size)
<1>1. /\ recv # <<>> /\ ~rd.lost /\ ~rd.fmt_ready /\ b.unit = "basic"
      /\ rd' = [rd EXCEPT !.fmt_ready = TRUE, !.fmt = b.fmt, !.csid = b.csid]
      /\ recv' = From(recv, IF b.csid \in LongCsids THEN 3 ELSE 2)
      /\ odd' = odd
      /\ cs' = IF ~cs[b.csid].known
               THEN [cs EXCEPT ![b.csid].known = TRUE, ![b.csid].fmt = b.fmt,
                               ![b.csid].chunk_size = rd.chunk_size]
               ELSE cs
      /\ tx' = tx /\ tx_size' = tx_size /\ wire' = wire /\ sent' = sent /\ delivered' = delivered
    <2> DEFINE W == b.csid \in LongCsids => Len(recv) >= 2
    <2>1. W = TRUE
        OBVIOUS
    <2>2. /\ recv # <<>> /\ ~rd.lost /\ ~rd.fmt_ready /\ b.unit = "basic"
          /\ rd' = [rd EXCEPT !.fmt_ready = W, !.fmt = b.fmt, !.csid = b.csid]
          /\ recv' = From(recv, IF W THEN (IF b.csid \in LongCsids THEN 2 ELSE 1) + 1 ELSE 2)
          /\ odd' = IF W THEN odd ELSE odd \cup {"split"}
          /\ cs' = IF W /\ ~cs[b.csid].known
                   THEN [cs EXCEPT ![b.csid].known = TRUE, ![b.csid].fmt = b.fmt,
                                   ![b.csid].chunk_size = rd.chunk_size]
                   ELSE cs
          /\ tx' = tx /\ tx_size' = tx_size /\ wire' = wire /\ sent' = sent /\ delivered' = delivered
        BY DEF ReadBasicHeader, Reading
    <2>3. (IF b.csid \in LongCsids THEN 2 ELSE 1) + 1 = IF b.csid \in LongCsids THEN 3 ELSE 2
        OBVIOUS
    <2> HIDE DEF W, b
    <2> QED
        BY <2>1, <2>2, <2>3
<1>2. /\ recv \in Seq(Unit) /\ wire \in Seq(Unit) /\ rd \in Reader /\ cs \in [Csids -> Stream]
      /\ rd.chunk_size \in Sizes /\ delivered \in Seq(Message)
    BY DEF TypeOK, Reader
<1>3. b \in Unit /\ Tail(recv) \in Seq(Unit)
    BY <1>1, <1>2, ReadOne
<1>4. c \in Csids /\ b.fmt \in 0 .. 3
    BY <1>1, <1>3, UnitKinds
<1> HIDE DEF b
<1>5. cs[c] \in Stream /\ cs[c].phase = "header"
    BY <1>1, <1>2, <1>4, StreamParts DEF PhasesOK
<1>6. l \in Stream
    BY <1>2, <1>4, <1>5, LookupType
<1>7. l.phase = "header"
    BY <1>5 DEF Lookup, Stream
<1>8. cs' = [cs EXCEPT ![c] = l]
    <2>1. CASE ~cs[c].known
        <3>1. l = [[[cs[c] EXCEPT !.known = TRUE] EXCEPT !.fmt = b.fmt] EXCEPT !.chunk_size = rd.chunk_size]
            BY <2>1 DEF Lookup
        <3>2. cs' = [cs EXCEPT ![c].known = TRUE, ![c].fmt = b.fmt, ![c].chunk_size = rd.chunk_size]
            BY <1>1, <2>1
        <3> HIDE DEF l
        <3> QED
            BY <1>2, <1>4, <3>1, <3>2
    <2>2. CASE cs[c].known
        <3>1. l = cs[c]
            BY <2>2 DEF Lookup
        <3>2. [cs EXCEPT ![c] = cs[c]] = cs
            BY <1>2, <1>4
        <3> QED
            BY <1>1, <2>2, <3>1, <3>2
    <2> QED
        BY <2>1, <2>2
<1>9. Found(Now, b.fmt, c) = State("header", b.fmt, c, 0, rd.chunk_size, [cs EXCEPT ![c] = l], delivered)
    BY NowParts DEF Found
<1>10. /\ rd'.fmt_ready /\ ~rd'.lost /\ rd'.fmt = b.fmt /\ rd'.csid = c
       /\ rd'.chunk_size = rd.chunk_size /\ rd' \in Reader
    BY <1>1, <1>2, <1>4 DEF Reader
<1> HIDE DEF l
<1>11. cs' \in [Csids -> Stream] /\ cs'[c] = l /\ \A d \in Csids \ {c} : cs'[d] = cs[d]
    BY <1>2, <1>4, <1>6, <1>8
<1>12. Now' = State("header", b.fmt, c, 0, rd.chunk_size, cs', delivered)
    BY <1>1, <1>7, <1>10, <1>11 DEF Now
<1>13. Now' = Found(Now, b.fmt, c)
    BY <1>8, <1>9, <1>12
<1>14. PhasesOK'
    BY <1>1, <1>4, <1>7, <1>10, <1>11 DEF PhasesOK
<1>15. Run(Now, Pending) = Run(Step(Now, b), Join(Tail(recv), wire))
    BY <1>1, ReadOne DEF b
<1>16. Now.mode = "idle"
    BY <1>1, NowParts
<1>17. CASE c \notin LongCsids
    <2>1. recv' = Tail(recv)
        BY <1>1, <1>2, <1>17, TailIsFrom
    <2>2. Step(Now, b) = Found(Now, b.fmt, c)
        BY <1>1, <1>16, <1>17 DEF Step, StepIdle
    <2>3. Run(Now', Pending') = Run(Now, Pending)
        BY <1>1, <1>13, <1>15, <2>1, <2>2 DEF Pending
    <2>4. TypeOK'
        BY <1>1, <1>3, <1>10, <1>11, <2>1 DEF TypeOK
    <2> QED
        BY <1>1, <1>14, <2>3, <2>4
<1>18. CASE c \in LongCsids
    <2> DEFINE B == State("basic2", b.fmt, c, 0, Now.chunk_size, Now.cs, Now.delivered)
               r == Tail(recv)
               u == Head(r)
               v == Join(Tail(r), wire)
    <2>1. r # <<>> /\ r \in Seq(Unit)
        <3>1. Len(recv) >= 2
            BY <1>18 DEF b
        <3>2. Len(r) = Len(recv) - 1
            BY <1>1, <1>2
        <3>3. Len(recv) \in Nat /\ r \in Seq(Unit)
            BY <1>2, <1>3
        <3> HIDE DEF r
        <3>4. Len(r) > 0
            BY <3>1, <3>2, <3>3
        <3> QED
            BY <3>3, <3>4
    <2>2. recv' = Tail(r)
        BY <1>1, <1>2, <1>18, <2>1, TailIsFrom
    <2>3. Step(Now, b) = B
        BY <1>1, <1>16, <1>18 DEF Step, StepIdle
    <2> HIDE DEF r
    <2>4. u \in Unit /\ Tail(r) \in Seq(Unit) /\ v \in Seq(Unit) /\ Run(B, Join(r, wire)) = Run(Step(B, u), v)
        BY <1>2, <2>1, RunFirst
    <2>5. B.mode = "basic2" /\ B.fmt = b.fmt /\ B.csid = c
        BY DEF State
    <2>6. Found(B, b.fmt, c) = Found(Now, b.fmt, c)
        BY DEF Found, State
    <2> HIDE DEF u, v, B
    <2>7. u.unit = "basic2"
        <3> SUFFICES ASSUME u.unit # "basic2" PROVE FALSE
            OBVIOUS
        <3> DEFINE C == Step(B, u)
        <3>1. C.mode = "stuck"
            BY <2>5 DEF Step, StepBasic2, InMode, State
        <3> HIDE DEF C
        <3>2. Run(C, v) = C
            BY <2>4, <3>1, RunStays
        <3> QED
            BY <1>15, <2>3, <2>4, <3>1, <3>2 DEF r, C
    <2>8. Step(B, u) = Found(Now, b.fmt, c)
        BY <2>5, <2>6, <2>7 DEF Step, StepBasic2
    <2>9. Run(Now', Pending') = Run(Now, Pending)
        BY <1>1, <1>13, <1>15, <2>2, <2>3, <2>4, <2>8 DEF Pending, r, v
    <2>10. TypeOK'
        BY <1>1, <1>10, <1>11, <2>2, <2>4 DEF TypeOK
    <2> QED
        BY <1>1, <1>14, <2>9, <2>10
<1> QED
    BY <1>17, <1>18

(* A basic header that is cut: the second part is taken for a first one.     *)
LEMMA ReadSplitBasicHeader ==
    ASSUME TypeOK, PhasesOK, ReadBasicHeader,
           Run(Now, Pending).mode \in {"idle", "payload", "lost"},
           Head(recv).csid \in LongCsids, Len(recv) < 2
    PROVE  /\ TypeOK' /\ PhasesOK'
           /\ Run(Now', Pending').mode = "lost"
           /\ Run(Now', Pending').delivered = delivered
           /\ odd' = odd \cup {"split"} /\ sent' = sent
<1> DEFINE b == Head(recv)
           c == b.csid
           r == Join(Tail(recv), wire)
           B == State("basic2", b.fmt, c, 0, Now.chunk_size, Now.cs, Now.delivered)
<1>1. recv \in Seq(Unit) /\ wire \in Seq(Unit) /\ rd \in Reader /\ cs \in [Csids -> Stream]
    BY DEF TypeOK
<1>2. /\ recv # <<>> /\ ~rd.lost /\ ~rd.fmt_ready /\ b.unit = "basic"
      /\ rd' = [rd EXCEPT !.fmt_ready = FALSE, !.fmt = b.fmt, !.csid = b.csid]
      /\ recv' = From(recv, 2)
      /\ odd' = odd \cup {"split"}
      /\ cs' = cs
      /\ tx' = tx /\ tx_size' = tx_size /\ wire' = wire /\ sent' = sent /\ delivered' = delivered
    <2> DEFINE W == b.csid \in LongCsids => Len(recv) >= 2
    <2>1. W = FALSE
        <3>1. Len(recv) \in Nat
            BY <1>1
        <3>2. ~(Len(recv) >= 2)
            BY <3>1
        <3> QED
            BY <3>2
    <2>2. /\ recv # <<>> /\ ~rd.lost /\ ~rd.fmt_ready /\ b.unit = "basic"
          /\ rd' = [rd EXCEPT !.fmt_ready = W, !.fmt = b.fmt, !.csid = b.csid]
          /\ recv' = From(recv, IF W THEN (IF b.csid \in LongCsids THEN 2 ELSE 1) + 1 ELSE 2)
          /\ odd' = IF W THEN odd ELSE odd \cup {"split"}
          /\ cs' = IF W /\ ~cs[b.csid].known
                   THEN [cs EXCEPT ![b.csid].known = TRUE, ![b.csid].fmt = b.fmt,
                                   ![b.csid].chunk_size = rd.chunk_size]
                   ELSE cs
          /\ tx' = tx /\ tx_size' = tx_size /\ wire' = wire /\ sent' = sent /\ delivered' = delivered
        BY DEF ReadBasicHeader, Reading
    <2> HIDE DEF W, b
    <2> QED
        BY <2>1, <2>2
<1>3. /\ b \in Unit /\ Tail(recv) \in Seq(Unit) /\ r \in Seq(Unit)
      /\ Run(Now, Pending) = Run(Step(Now, b), r)
    BY <1>2, ReadOne
<1>4. c \in Csids /\ b.fmt \in 0 .. 3 /\ c \in LongCsids
    BY <1>2, <1>3, UnitKinds
<1>5. recv' = Tail(recv)
    BY <1>1, <1>2, TailIsFrom
<1>6. Pending' = r
    BY <1>2, <1>5 DEF Pending
<1> HIDE DEF b, r
<1>7. rd' \in Reader /\ ~rd'.fmt_ready /\ ~rd'.lost
    BY <1>1, <1>2, <1>4 DEF Reader
<1>8. TypeOK'
    BY <1>2, <1>3, <1>5, <1>7 DEF TypeOK
<1>9. PhasesOK'
    BY <1>2, <1>7 DEF PhasesOK
<1>10. Step(Now, b) = B
    BY <1>2, <1>4, NowParts DEF Step, StepIdle
<1>11. B.mode = "basic2"
    BY DEF State
<1> HIDE DEF B
<1>12. r # <<>>
    BY <1>3, <1>10, <1>11, RunEmpty
<1> DEFINE u == Head(r)
           v == Tail(r)
<1>13. u \in Unit /\ v \in Seq(Unit) /\ \A A : Run(A, r) = Run(Step(A, u), v)
    BY <1>3, <1>12, HeadAndTail, RunHead
<1> HIDE DEF u, v
<1>14. u.unit = "basic2"
    <2> SUFFICES ASSUME u.unit # "basic2" PROVE FALSE
        OBVIOUS
    <2> DEFINE C == Step(B, u)
    <2>1. C.mode = "stuck"
        BY <1>11 DEF Step, StepBasic2, InMode, State
    <2> HIDE DEF C
    <2>2. Run(C, v) = C
        BY <1>13, <2>1, RunStays
    <2>3. Run(B, r) = Run(C, v)
        BY <1>13 DEF C
    <2> QED
        BY <1>3, <1>10, <2>1, <2>2, <2>3
<1> DEFINE N == Now'
           C == Step(N, u)
<1>15. N.mode = "idle" /\ N.delivered = delivered
    BY <1>2, <1>7 DEF Now, State
<1> HIDE DEF N
<1>16. C.mode = "lost" /\ C.delivered = delivered
    BY <1>14, <1>15 DEF Step, StepIdle, InMode, State
<1>17. Run(N, r) = Run(C, v)
    BY <1>13
<1> HIDE DEF C
<1>18. Run(C, v) = C
    BY <1>13, <1>16, RunStays
<1> QED
    BY <1>2, <1>6, <1>8, <1>9, <1>16, <1>17, <1>18 DEF N

(* The header of a chunk.                                                    *)
LEMMA NowAfterHeader ==
    ASSUME TypeOK, PhasesOK, InPhase("header"), NEW x \in Stream, x.phase = "payload",
           rd' = rd, cs' = [cs EXCEPT ![rd.csid] = x], delivered' = delivered
    PROVE  Now' = InPayload(Now, x) /\ cs' \in [Csids -> Stream] /\ PhasesOK'
<1>1. /\ rd.csid \in Csids /\ cs \in [Csids -> Stream] /\ rd.fmt_ready /\ ~rd.lost
    BY DEF TypeOK, Reader, InPhase
<1>2. cs' \in [Csids -> Stream] /\ cs'[rd.csid] = x /\ \A d \in Csids \ {rd.csid} : cs'[d] = cs[d]
    BY <1>1
<1>3. Now' = State(IF x.remain = 0 THEN "stuck" ELSE "payload", rd.fmt, rd.csid, require_len(x),
                   rd.chunk_size, cs', delivered)
    BY <1>1, <1>2 DEF Now
<1>4. InPayload(Now, x) = State(IF x.remain = 0 THEN "stuck" ELSE "payload", rd.fmt, rd.csid,
                                require_len(x), rd.chunk_size, [cs EXCEPT ![rd.csid] = x], delivered)
    BY NowParts DEF InPayload
<1>5. PhasesOK'
    BY <1>1, <1>2 DEF PhasesOK
<1> QED
    BY <1>2, <1>3, <1>4, <1>5

LEMMA ReadHeaderRuns ==
    ASSUME TypeOK, PhasesOK, ReadHeader
    PROVE  TypeOK' /\ PhasesOK' /\ Run(Now', Pending') = Run(Now, Pending) /\ odd' = odd
<1> DEFINE h == Head(recv)
           s == cs[rd.csid]
           x == read_msg_format(s, rd.fmt, h)
<1>1. /\ InPhase("header") /\ rd.fmt # 3 /\ recv # <<>> /\ is_header(h)
      /\ cs' = [cs EXCEPT ![rd.csid] = read_msg_format(cs[rd.csid], rd.fmt, h)]
      /\ recv' = Tail(recv) /\ tx' = tx /\ tx_size' = tx_size /\ wire' = wire /\ rd' = rd
      /\ sent' = sent /\ delivered' = delivered /\ odd' = odd
    BY DEF ReadHeader, Reading
<1>2. /\ h \in Unit /\ Tail(recv) \in Seq(Unit)
      /\ Run(Now, Pending) = Run(Step(Now, h), Join(Tail(recv), wire))
    BY <1>1, ReadOne
<1> HIDE DEF h
<1>3. s \in Stream /\ rd.fmt \in 0 .. 3
    BY NowType DEF TypeOK, Reader
<1>4. x \in Stream
    BY <1>1, <1>2, <1>3, FormatType
<1>5. x.phase = "payload"
    BY <1>3 DEF read_msg_format, Stream
<1>6. Step(Now, h) = InPayload(Now, x)
    BY <1>1, NowParts DEF Step, StepHeader
<1> HIDE DEF x
<1>7. Now' = InPayload(Now, x) /\ cs' \in [Csids -> Stream] /\ PhasesOK'
    BY <1>1, <1>4, <1>5, NowAfterHeader DEF x
<1>8. TypeOK'
    BY <1>1, <1>2, <1>7 DEF TypeOK
<1> QED
    BY <1>1, <1>2, <1>6, <1>7, <1>8 DEF Pending

(* A type 3 chunk looks at the next unit only where it may begin a message   *)
(* with an extended timestamp.                                               *)
LEMMA Format3Ignores ==
    ASSUME NEW s \in Stream, ~(takes_ext(s) /\ begins(s)), NEW h, NEW u
    PROVE  read_msg_format3(s, h) = read_msg_format3(s, u)
<1>1. CASE begins(s)
    <2>1. ~s.ext_ts_flag \/ s.fmt = 3
        BY <1>1 DEF takes_ext
    <2>2. s.fmt \in {1, 2} \/ s.fmt \in {0, 3}
        BY StreamParts
    <2>3. delta3(s, h) = delta3(s, u)
        BY <2>1, <2>2 DEF delta3
    <2>4. ~(s.fmt = 0 /\ s.ext_ts_flag)
        BY <2>1
    <2> QED
        BY <1>1, <2>3, <2>4 DEF read_msg_format3
<1>2. CASE ~begins(s)
    BY <1>2 DEF read_msg_format3
<1> QED
    BY <1>1, <1>2

LEMMA Format3Phase ==
    ASSUME NEW s \in Stream, NEW u
    PROVE  read_msg_format3(s, u).phase = "payload"
<1> DEFINE ts == IF s.fmt = 0 /\ s.ext_ts_flag THEN u.ts
                 ELSE (s.timestamp32 + delta3(s, u)) % TsWrap
           n == s.msg_len
           none == <<>>
<1>1. \/ read_msg_format3(s, u) = [s EXCEPT !.phase = "payload", !.fmt = 3, !.remain = n,
                                            !.chunk_data = none, !.timestamp32 = ts]
      \/ read_msg_format3(s, u) = [s EXCEPT !.phase = "payload", !.fmt = 3]
    BY DEF read_msg_format3
<1> HIDE DEF ts, n, none
<1> QED
    BY <1>1 DEF Stream

(* Where four bytes are asked for and are there, something is.               *)
LEMMA AskedIsThere ==
    ASSUME TypeOK, require_ext
    PROVE  recv # <<>>
<1> SUFFICES ASSUME recv = <<>> PROVE FALSE
    OBVIOUS
<1>1. Len(recv) = 0
    OBVIOUS
<1>2. EXT_TS_LEN \in Nat /\ EXT_TS_LEN # 0
    BY ExtLenAssumption
<1>3. ~ (Len(recv) >= EXT_TS_LEN)
    BY <1>1, <1>2
<1>4. ~ \E i \in 1 .. Len(recv) : recv[i].unit \in {"header", "ext"}
    BY <1>1
<1> QED
    BY <1>3, <1>4 DEF require_ext

LEMMA ReadHeader3Runs ==
    ASSUME TypeOK, PhasesOK, ReadHeader3,
           Run(Now, Pending).mode \in {"idle", "payload", "lost"}
    PROVE  TypeOK' /\ PhasesOK' /\ Run(Now', Pending') = Run(Now, Pending) /\ odd' = odd
<1> DEFINE h == Head(recv)
           u == Head(Pending)
           s == cs[rd.csid]
           x == read_msg_format3(s, u)
<1>1. /\ InPhase("header") /\ rd.fmt = 3
      /\ takes_ext(s) => recv # <<>> /\ ~Wrong3(s, h)
      /\ cs' = [cs EXCEPT ![rd.csid] = read_msg_format3(s, h)]
      /\ recv' = IF Skip3(s, h) THEN Tail(recv) ELSE recv
      /\ tx' = tx /\ tx_size' = tx_size /\ wire' = wire /\ rd' = rd
      /\ sent' = sent /\ delivered' = delivered /\ odd' = odd
    BY AskedIsThere DEF ReadHeader3, Wrong3, Skip3
<1>2. s \in Stream /\ recv \in Seq(Unit) /\ wire \in Seq(Unit) /\ Pending \in Seq(Unit)
    BY NowType DEF TypeOK
<1>3. Now.mode = "header" /\ Now.fmt = 3 /\ Now.csid = rd.csid /\ Now.cs = cs
    BY <1>1, NowParts
<1>4. Pending # <<>>
    BY <1>3, RunEmpty
<1>5. u \in Unit /\ Tail(Pending) \in Seq(Unit)
    BY <1>2, <1>4, HeadAndTail
<1>6. recv # <<>> => u = h /\ Tail(Pending) = Join(Tail(recv), wire)
    BY <1>2 DEF Pending, Join
<1> HIDE DEF h, u
<1>7. ~Wrong3(s, u)
    BY <1>1, <1>6 DEF Wrong3
<1>8. read_msg_format3(s, h) = x
    <2>1. CASE takes_ext(s)
        BY <1>1, <1>6, <2>1
    <2>2. CASE ~takes_ext(s)
        BY <1>2, <2>2, Format3Ignores
    <2> QED
        BY <2>1, <2>2
<1>9. x \in Stream /\ x.phase = "payload"
    BY <1>2, <1>5, <1>7, Format3Type, Format3Phase
<1> HIDE DEF s, x
<1>10. cs' = [cs EXCEPT ![rd.csid] = x]
    BY <1>1, <1>8
<1>11. Now' = InPayload(Now, x) /\ cs' \in [Csids -> Stream] /\ PhasesOK'
    BY <1>1, <1>9, <1>10, NowAfterHeader
<1>12. recv' \in Seq(Unit)
    <2>1. Skip3(s, h) => recv # <<>>
        BY <1>1 DEF Skip3
    <2> QED
        BY <1>1, <1>2, <2>1
<1>13. TypeOK'
    BY <1>1, <1>11, <1>12 DEF TypeOK
<1>14. Run(Now, Pending) = Run(Step(Now, u), Tail(Pending))
    BY <1>2, <1>4, RunHead DEF u
<1>15. CASE Skip3(s, h)
    <2>1. recv # <<>> /\ u = h
        BY <1>1, <1>6, <1>15 DEF Skip3
    <2>2. Step(Now, u) = InPayload(Now, x)
        BY <1>3, <1>7, <1>15, <2>1 DEF Step, StepHeader, s, x
    <2>3. Pending' = Tail(Pending)
        BY <1>1, <1>6, <1>15, <2>1 DEF Pending
    <2> QED
        BY <1>1, <1>11, <1>13, <1>14, <2>2, <2>3
<1>16. CASE ~Skip3(s, h)
    <2> DEFINE P == InPayload(Now, x)
    <2>1. ~Skip3(s, u)
        BY <1>1, <1>6, <1>16 DEF Skip3
    <2>2. Step(Now, u) = Take(P, u)
        BY <1>3, <1>7, <2>1 DEF Step, StepHeader, s, x
    <2>3. P.mode \in {"payload", "stuck"}
        BY DEF InPayload, State
    <2> HIDE DEF P
    <2>4. Step(P, u) = Take(P, u)
        BY <2>3 DEF Step, Take
    <2>5. Run(P, Pending) = Run(Step(P, u), Tail(Pending))
        BY <1>2, <1>4, RunHead DEF u
    <2>6. Pending' = Pending
        BY <1>1, <1>16 DEF Pending
    <2> QED
        BY <1>1, <1>11, <1>13, <1>14, <2>2, <2>4, <2>5, <2>6 DEF P
<1> QED
    BY <1>15, <1>16

(* The payload of a chunk.                                                   *)
LEMMA NotStuck ==
    ASSUME TypeOK, InPhase("payload"), Run(Now, Pending).mode # "stuck"
    PROVE  /\ Now.mode = "payload" /\ Now.need = require_len(cs[rd.csid]) /\ Now.need > 0
           /\ cs[rd.csid].remain > 0
<1>1. Now \in Automaton /\ Pending \in Seq(Unit) /\ cs[rd.csid] \in Stream
    BY NowType
<1>2. Now.mode # "stuck"
    <2> DEFINE N == Now
               p == Pending
    <2>1. p \in Seq(Unit)
        BY <1>1
    <2> HIDE DEF N, p
    <2>2. N.mode = "stuck" => Run(N, p) = N
        BY <2>1, RunStays
    <2> QED
        BY <2>2 DEF N, p
<1>3. cs[rd.csid].remain # 0 /\ Now.mode = "payload" /\ Now.need = require_len(cs[rd.csid])
    BY <1>2, NowParts
<1>4. cs[rd.csid].remain > 0
    BY <1>1, <1>3, StreamParts
<1> QED
    BY <1>1, <1>3, <1>4, RequireLenType

LEMMA ReadPayloadRuns ==
    ASSUME TypeOK, PhasesOK, ReadPayload,
           Run(Now, Pending).mode \in {"idle", "payload", "lost"}
    PROVE  TypeOK' /\ PhasesOK' /\ Run(Now', Pending') = Run(Now, Pending) /\ odd' = odd
<1> DEFINE s == cs[rd.csid]
           n == require_len(s)
           q == SubSeq(recv, 1, n)
           r == From(recv, n + 1)
           data == Join(s.chunk_data, q)
           ready == is_ready(s, n)
           f == FinishStream(s, data)
           z == IF ready THEN HandledSize(s, data, rd.chunk_size) ELSE rd.chunk_size
           out == IF ready THEN Append(delivered, ReadyMessage(rd.csid, s, data)) ELSE delivered
<1>1. /\ InPhase("payload") /\ Len(recv) >= n /\ ~Mistaken(n)
      /\ recv' = r
      /\ cs' = [cs EXCEPT ![rd.csid] = f]
      /\ rd' = [rd EXCEPT !.fmt_ready = FALSE, !.chunk_size = z]
      /\ delivered' = out
      /\ tx' = tx /\ tx_size' = tx_size /\ wire' = wire /\ sent' = sent /\ odd' = odd
    BY DEF ReadPayload, FinishStream, HandledSize, handled_size, ReadyMessage, Join
<1>2. /\ recv \in Seq(Unit) /\ wire \in Seq(Unit) /\ rd \in Reader /\ cs \in [Csids -> Stream]
      /\ rd.csid \in Csids /\ Now \in Automaton /\ s \in Stream
    BY NowType DEF TypeOK, Reader
<1>3. Now.mode = "payload" /\ Now.need = n /\ n > 0 /\ n \in Nat
    BY <1>1, <1>2, NotStuck, RequireLenType
<1>4. n \in 0 .. Len(recv)
    BY <1>1, <1>2, <1>3
<1> HIDE DEF n
<1>5. /\ q \in Seq(Unit) /\ Len(q) = n /\ r \in Seq(Unit) /\ recv = Join(q, r)
      /\ \A i \in 1 .. n : q[i] = recv[i]
    BY <1>2, <1>4, CutAt
<1>6. \A i \in 1 .. n : q[i].unit = "cell"
    <2>1. Smaller(n, Len(recv)) = n
        BY <1>2, <1>4 DEF Smaller
    <2> QED
        BY <1>1, <1>5, <2>1 DEF Mistaken
<1> HIDE DEF q, r
<1>7. q \in Seq(Cell)
    BY <1>5, <1>6, UnitsOfCells
<1>8. /\ Now.csid = rd.csid /\ Now.cs = cs /\ Now.fmt = rd.fmt /\ Now.chunk_size = rd.chunk_size
      /\ Now.delivered = delivered
    BY NowParts
<1>9. Run(Now, q) = Finish(Now, s, data)
    BY <1>2, <1>3, <1>5, <1>7, <1>8, RunChunk
<1>10. data \in Seq(Cell) /\ data # <<>>
    <2>1. s.chunk_data \in Seq(Cell)
        BY <1>2, StreamParts
    <2>2. data \in Seq(Cell) /\ Len(data) = Len(s.chunk_data) + n
        BY <1>5, <1>7, <2>1, JoinIsCells
    <2>3. Len(s.chunk_data) \in Nat
        BY <2>1
    <2> HIDE DEF data
    <2> QED
        BY <1>3, <2>2, <2>3
<1> HIDE DEF data
<1>11. Finish(Now, s, data) = State("idle", rd.fmt, rd.csid, 0, z, [cs EXCEPT ![rd.csid] = f], out)
    BY <1>8 DEF Finish, n
<1>12. Finish(Now, s, data) \in Automaton
    BY <1>2, <1>8, <1>10, FinishType
<1> DEFINE F == Finish(Now, s, data)
<1>13. F.chunk_size = z /\ F.cs = [cs EXCEPT ![rd.csid] = f] /\ F.delivered = out
    BY <1>11 DEF State
<1>14. f.phase = "header"
    BY <1>2 DEF FinishStream, Stream
<1> HIDE DEF z, out, f, F, s
<1>15. z \in Sizes /\ [cs EXCEPT ![rd.csid] = f] \in [Csids -> Stream] /\ out \in Seq(Message)
    BY <1>12, <1>13, AutomatonParts DEF F
<1>16. /\ rd' \in Reader /\ ~rd'.fmt_ready /\ rd'.fmt = rd.fmt /\ rd'.csid = rd.csid /\ rd'.chunk_size = z
       /\ rd'.lost = rd.lost
    BY <1>1, <1>2, <1>15 DEF Reader
<1>17. ~rd.lost
    BY <1>1 DEF InPhase
<1>18. Now' = State("idle", rd.fmt, rd.csid, 0, z, cs', out)
    BY <1>1, <1>16, <1>17 DEF Now
<1>19. Now' = F
    BY <1>1, <1>11, <1>18 DEF F
<1>20. TypeOK'
    BY <1>1, <1>5, <1>15, <1>16 DEF TypeOK
<1>21. PhasesOK'
    <2> SUFFICES ASSUME NEW c \in Csids, cs'[c].phase = "payload" PROVE FALSE
        BY DEF PhasesOK
    <2>1. CASE c = rd.csid
        BY <1>1, <1>2, <1>14, <2>1
    <2>2. CASE c # rd.csid
        <3>1. cs'[c] = cs[c]
            BY <1>1, <1>2, <2>2
        <3> QED
            BY <2>2, <3>1 DEF PhasesOK
    <2> QED
        BY <2>1, <2>2
<1>22. Pending = Join(q, Join(r, wire))
    BY <1>2, <1>5, JoinIsAssociative DEF Pending
<1>23. Join(r, wire) \in Seq(Unit)
    BY <1>2, <1>5, JoinIsUnits
<1>24. Run(Now, Pending) = Run(F, Join(r, wire))
    BY <1>5, <1>9, <1>22, <1>23, RunJoin DEF F
<1>25. Pending' = Join(r, wire)
    BY <1>1 DEF Pending
<1> QED
    BY <1>1, <1>19, <1>20, <1>21, <1>24, <1>25

(* Where the reader is lost, so is the automaton.                            *)
LEMMA LostAtHead ==
    ASSUME TypeOK, recv # <<>>, Step(Now, Head(recv)).mode = "lost"
    PROVE  Run(Now, Pending).mode = "lost"
<1> DEFINE C == Step(Now, Head(recv))
           w == Join(Tail(recv), wire)
<1>1. w \in Seq(Unit) /\ Run(Now, Pending) = Run(C, w)
    BY ReadOne
<1>2. C.mode = "lost"
    OBVIOUS
<1> HIDE DEF C, w
<1>3. Run(C, w) = C
    BY <1>1, <1>2, RunStays
<1> QED
    BY <1>1, <1>2, <1>3

LEMMA MistakesAreSeen ==
    ASSUME TypeOK, Run(Now, Pending).mode \in {"idle", "payload", "lost"},
           MistakeBasicHeader \/ MistakeHeader \/ MistakeHeader3 \/ MistakePayload
    PROVE  Run(Now, Pending).mode = "lost" /\ Lose
<1> DEFINE h == Head(recv)
           s == cs[rd.csid]
<1>1. Now.csid = rd.csid /\ Now.cs = cs /\ Now.fmt = rd.fmt
    BY NowParts
<1>2. CASE MistakeBasicHeader
    <2>1. recv # <<>> /\ ~rd.lost /\ ~rd.fmt_ready /\ h.unit # "basic" /\ Lose
        BY <1>2 DEF MistakeBasicHeader, Reading
    <2>2. Step(Now, h).mode = "lost"
        BY <2>1, NowParts DEF Step, StepIdle, InMode, State
    <2> QED
        BY <2>1, <2>2, LostAtHead
<1>3. CASE MistakeHeader
    <2>1. recv # <<>> /\ InPhase("header") /\ rd.fmt # 3 /\ ~is_header(h) /\ Lose
        BY <1>3 DEF MistakeHeader, Reading
    <2>2. Step(Now, h).mode = "lost"
        BY <1>1, <2>1, NowParts DEF Step, StepHeader, InMode, State
    <2> QED
        BY <2>1, <2>2, LostAtHead
<1>4. CASE MistakeHeader3
    <2>1. recv # <<>> /\ InPhase("header") /\ rd.fmt = 3 /\ Wrong3(s, h) /\ Lose
        BY <1>4 DEF MistakeHeader3, Reading, Wrong3
    <2>2. Step(Now, h).mode = "lost"
        BY <1>1, <2>1, NowParts DEF Step, StepHeader, InMode, State
    <2> QED
        BY <2>1, <2>2, LostAtHead
<1>5. CASE MistakePayload
    <2> DEFINE n == require_len(s)
    <2>1. InPhase("payload") /\ Mistaken(n) /\ Lose
        BY <1>5 DEF MistakePayload
    <2>2. /\ Now \in Automaton /\ Pending \in Seq(Unit) /\ recv \in Seq(Unit) /\ wire \in Seq(Unit)
        BY NowType DEF TypeOK
    <2>3. Now.mode = "payload" /\ Now.need = n /\ n \in Nat
        BY <2>1, <2>2, NotStuck, AutomatonParts
    <2> HIDE DEF n
    <2>4. PICK j \in 1 .. Smaller(n, Len(recv)) : recv[j].unit # "cell"
        BY <2>1 DEF Mistaken
    <2>5. j \in 1 .. Len(recv) /\ j <= n
        BY <2>2, <2>3, <2>4 DEF Smaller
    <2>6. j \in 1 .. Len(Pending) /\ Pending[j] = recv[j]
        BY <2>2, <2>5 DEF Pending, Join
    <2> QED
        BY <2>1, <2>2, <2>3, <2>4, <2>5, <2>6, RunMistaken
<1> QED
    BY <1>2, <1>3, <1>4, <1>5

LEMMA LoseStays ==
    ASSUME TypeOK, PhasesOK, Lose
    PROVE  /\ TypeOK' /\ PhasesOK'
           /\ Run(Now', Pending').mode = "lost"
           /\ Run(Now', Pending').delivered = delivered
<1> DEFINE N == Now'
           p == Pending'
<1>1. /\ rd' = [rd EXCEPT !.lost = TRUE] /\ tx' = tx /\ tx_size' = tx_size /\ wire' = wire
      /\ recv' = recv /\ cs' = cs /\ sent' = sent /\ delivered' = delivered /\ odd' = odd
    BY DEF Lose
<1>2. rd' \in Reader /\ rd'.lost /\ rd'.fmt_ready = rd.fmt_ready /\ rd'.csid = rd.csid
    BY <1>1 DEF TypeOK, Reader
<1>3. TypeOK'
    BY <1>1, <1>2 DEF TypeOK
<1>4. PhasesOK'
    BY <1>1, <1>2 DEF PhasesOK
<1>5. N.mode = "lost" /\ N.delivered = delivered
    BY <1>1, <1>2 DEF Now, State
<1>6. p \in Seq(Unit)
    BY <1>1, NowType DEF Pending
<1> HIDE DEF N, p
<1>7. Run(N, p) = N
    BY <1>5, <1>6, RunStays
<1> QED
    BY <1>3, <1>4, <1>5, <1>7 DEF N, p

-----------------------------------------------------------------------------
(* The reader and TCP keep the invariant.                                    *)

LEMMA GoodModes ==
    ASSUME Inv
    PROVE  Run(Now, Pending).mode \in {"idle", "payload", "lost"}
BY DEF Inv, Synced, Astray

(* What the reader has delivered is what the automaton will have delivered.  *)
LEMMA DeliveredMatches ==
    ASSUME Inv
    PROVE  Matches(delivered, sent, odd)
<1> DEFINE R == Run(Now, Pending)
<1>1. TypeOK /\ Matches(R.delivered, sent, odd)
    BY DEF Inv, Synced, Astray
<1>2. Now \in Automaton /\ Pending \in Seq(Unit) /\ Now.delivered = delivered
    BY <1>1, NowType, NowParts
<1>3. Extends(delivered, R.delivered)
    BY <1>2, RunGrows
<1>4. R \in Automaton
    BY <1>2, RunType
<1> HIDE DEF R
<1>5. R.delivered \in Seq(Message) /\ delivered \in Seq(Message) /\ sent \in Seq(Message)
    BY <1>1, <1>4, AutomatonParts DEF TypeOK
<1> QED
    BY <1>1, <1>3, <1>5, MatchesLess

LEMMA SameRun ==
    ASSUME Inv, TypeOK', PhasesOK', Run(Now', Pending') = Run(Now, Pending),
           tx' = tx, tx_size' = tx_size, sent' = sent, odd' = odd
    PROVE  Inv'
<1>1. announced' = announced
    BY DEF announced, LastControl
<1>2. PeerOK'
    BY DEF Inv, PeerOK
<1> QED
    BY <1>1, <1>2 DEF Inv

LEMMA LostRun ==
    ASSUME Inv, TypeOK', PhasesOK', tx' = tx, sent' = sent,
           Run(Now', Pending').mode = "lost", Run(Now', Pending').delivered = delivered,
           odd \subseteq odd', odd' # {}
    PROVE  Inv'
<1>1. Matches(delivered, sent, odd)
    BY DeliveredMatches
<1>2. TimeOdd(odd) => TimeOdd(odd')
    BY DEF TimeOdd
<1>3. Matches(delivered, sent, odd')
    BY <1>1, <1>2 DEF Matches, Match
<1>4. PeerOK'
    BY DEF Inv, PeerOK
<1> QED
    BY <1>3, <1>4 DEF Inv, Astray

LEMMA ReadKeepsInv ==
    ASSUME Inv, Read
    PROVE  Inv'
<1> DEFINE R == Run(Now, Pending)
<1>1. TypeOK /\ PhasesOK /\ R.mode \in {"idle", "payload", "lost"}
    BY GoodModes DEF Inv
<1>2. CASE ReadBasicHeader
    <2>1. tx' = tx /\ tx_size' = tx_size /\ sent' = sent
        BY <1>2 DEF ReadBasicHeader
    <2>2. CASE Head(recv).csid \in LongCsids => Len(recv) >= 2
        BY <1>1, <1>2, <2>1, <2>2, ReadWholeBasicHeader, SameRun
    <2>3. CASE ~(Head(recv).csid \in LongCsids => Len(recv) >= 2)
        <3>1. Head(recv).csid \in LongCsids /\ Len(recv) < 2
            <4>1. Len(recv) \in Nat
                BY <1>1 DEF TypeOK
            <4> QED
                BY <2>3, <4>1
        <3>2. /\ TypeOK' /\ PhasesOK'
              /\ Run(Now', Pending').mode = "lost"
              /\ Run(Now', Pending').delivered = delivered
              /\ odd' = odd \cup {"split"}
            BY <1>1, <1>2, <3>1, ReadSplitBasicHeader
        <3>3. odd \subseteq odd' /\ odd' # {}
            BY <3>2
        <3> QED
            BY <2>1, <3>2, <3>3, LostRun
    <2> QED
        BY <2>2, <2>3
<1>3. CASE ReadHeader
    <2>1. tx' = tx /\ tx_size' = tx_size /\ sent' = sent
        BY <1>3 DEF ReadHeader
    <2> QED
        BY <1>1, <1>3, <2>1, ReadHeaderRuns, SameRun
<1>4. CASE ReadHeader3
    <2>1. tx' = tx /\ tx_size' = tx_size /\ sent' = sent
        BY <1>4 DEF ReadHeader3
    <2> QED
        BY <1>1, <1>4, <2>1, ReadHeader3Runs, SameRun
<1>5. CASE ReadPayload
    <2>1. tx' = tx /\ tx_size' = tx_size /\ sent' = sent
        BY <1>5 DEF ReadPayload
    <2> QED
        BY <1>1, <1>5, <2>1, ReadPayloadRuns, SameRun
<1>6. CASE MistakeBasicHeader \/ MistakeHeader \/ MistakeHeader3 \/ MistakePayload
    <2>1. R.mode = "lost" /\ Lose
        BY <1>1, <1>6, MistakesAreSeen
    <2>2. tx' = tx /\ sent' = sent /\ odd' = odd
        BY <2>1 DEF Lose
    <2>3. odd # {}
        BY <2>1 DEF Inv, Synced, Astray
    <2>4. /\ TypeOK' /\ PhasesOK'
          /\ Run(Now', Pending').mode = "lost"
          /\ Run(Now', Pending').delivered = delivered
        BY <1>1, <2>1, LoseStays
    <2> QED
        BY <2>2, <2>3, <2>4, LostRun
<1> QED
    BY <1>2, <1>3, <1>4, <1>5, <1>6 DEF Read

LEMMA DeliverKeepsInv ==
    ASSUME Inv, Deliver
    PROVE  Inv'
<1> DEFINE h == Head(wire)
           r == Tail(wire)
<1>1. /\ wire # <<>> /\ recv' = Append(recv, h) /\ wire' = r
      /\ tx' = tx /\ tx_size' = tx_size /\ rd' = rd /\ cs' = cs /\ sent' = sent
      /\ delivered' = delivered /\ odd' = odd
    BY DEF Deliver
<1>2. TypeOK /\ PhasesOK /\ recv \in Seq(Unit) /\ wire \in Seq(Unit)
    BY DEF Inv, TypeOK
<1>3. h \in Unit /\ r \in Seq(Unit) /\ wire = Join(<<h>>, r)
    BY <1>1, <1>2, HeadAndTail
<1> HIDE DEF h, r
<1>4. <<h>> \in Seq(Unit) /\ recv' = Join(recv, <<h>>)
    BY <1>1, <1>2, <1>3 DEF Join
<1>5. Join(recv, <<h>>) \in Seq(Unit)
    BY <1>2, <1>4, JoinIsUnits
<1>6. Pending' = Pending
    <2> DEFINE x == <<h>>
    <2>1. Pending' = Join(Join(recv, x), r)
        BY <1>1, <1>4 DEF Pending
    <2>2. Pending = Join(recv, Join(x, r))
        BY <1>3 DEF Pending
    <2>3. x \in Seq(Unit)
        BY <1>4
    <2> HIDE DEF x
    <2> QED
        BY <1>2, <1>3, <2>1, <2>2, <2>3, JoinIsAssociative
<1>7. Now' = Now
    BY <1>1 DEF Now
<1>8. TypeOK'
    BY <1>1, <1>2, <1>3, <1>4, <1>5 DEF TypeOK
<1>9. PhasesOK'
    BY <1>1, <1>2 DEF PhasesOK
<1> QED
    BY <1>1, <1>6, <1>7, <1>8, <1>9, SameRun

-----------------------------------------------------------------------------
(* The cells of a message.                                                   *)

LEMMA PeerParts ==
    ASSUME NEW t \in PeerStream
    PROVE  /\ t.opened \in BOOLEAN /\ t.msg \in Nat /\ t.len \in Nat /\ t.left \in Nat
           /\ t.type \in Types /\ t.value \in Sizes /\ t.ts \in Stamps /\ t.field \in Stamps
           /\ t.header \in 0 .. 2 /\ t.ext \in BOOLEAN /\ t.last \in 0 .. 3 /\ t.agreed \in Sizes
           /\ t.had_ext \in BOOLEAN /\ t.drifted \in BOOLEAN
BY DEF PeerStream

LEMMA CellsAre ==
    ASSUME NEW t \in PeerStream, NEW k \in Nat, NEW n \in Nat
    PROVE  /\ Cells(t, k + 1, k + n) \in Seq(Cell)
           /\ Len(Cells(t, k + 1, k + n)) = n
           /\ \A i \in 1 .. n : Cells(t, k + 1, k + n)[i]
                                  = [unit |-> "cell", msg |-> t.msg, index |-> k + i, value |-> t.value]
<1>1. (k + n) - (k + 1) + 1 = n /\ \A i \in 1 .. n : (k + 1) + i - 1 = k + i
    OBVIOUS
<1> DEFINE m == t.msg
           v == t.value
<1>2. Cells(t, k + 1, k + n)
        = [i \in 1 .. n |-> [unit |-> "cell", msg |-> m, index |-> k + i, value |-> v]]
    BY <1>1 DEF Cells
<1>3. m \in Nat /\ v \in Sizes
    BY PeerParts
<1> HIDE DEF m, v
<1>4. \A i \in 1 .. n : [unit |-> "cell", msg |-> m, index |-> k + i, value |-> v] \in Cell
    BY <1>3 DEF Cell
<1> DEFINE f == [i \in 1 .. n |-> [unit |-> "cell", msg |-> m, index |-> k + i, value |-> v]]
<1>5. f \in Seq(Cell) /\ Len(f) = n
    BY <1>4
<1>6. \A i \in 1 .. n : f[i] = [unit |-> "cell", msg |-> m, index |-> k + i, value |-> v]
    OBVIOUS
<1> HIDE DEF f
<1> QED
    BY <1>2, <1>5, <1>6 DEF f, m, v

LEMMA FirstCells ==
    ASSUME NEW t \in PeerStream, NEW n \in Nat
    PROVE  /\ Cells(t, 1, n) \in Seq(Cell)
           /\ Len(Cells(t, 1, n)) = n
           /\ \A i \in 1 .. n : Cells(t, 1, n)[i]
                                  = [unit |-> "cell", msg |-> t.msg, index |-> i, value |-> t.value]
<1>1. 0 + 1 = 1 /\ 0 + n = n /\ \A i \in 1 .. n : 0 + i = i
    OBVIOUS
<1>2. /\ Cells(t, 0 + 1, 0 + n) \in Seq(Cell)
      /\ Len(Cells(t, 0 + 1, 0 + n)) = n
      /\ \A i \in 1 .. n : Cells(t, 0 + 1, 0 + n)[i]
                             = [unit |-> "cell", msg |-> t.msg, index |-> 0 + i, value |-> t.value]
    BY CellsAre
<1> QED
    BY <1>1, <1>2

LEMMA CellsJoin ==
    ASSUME NEW t \in PeerStream, NEW k \in Nat, NEW n \in Nat
    PROVE  Join(Cells(t, 1, k), Cells(t, k + 1, k + n)) = Cells(t, 1, k + n)
<1> DEFINE a == Cells(t, 1, k)
           b == Cells(t, k + 1, k + n)
           w == Cells(t, 1, k + n)
           cell(i) == [unit |-> "cell", msg |-> t.msg, index |-> i, value |-> t.value]
<1>1. a \in Seq(Cell) /\ Len(a) = k /\ \A i \in 1 .. k : a[i] = cell(i)
    BY FirstCells
<1>2. b \in Seq(Cell) /\ Len(b) = n /\ \A i \in 1 .. n : b[i] = cell(k + i)
    BY CellsAre
<1>3. w \in Seq(Cell) /\ Len(w) = k + n /\ \A i \in 1 .. k + n : w[i] = cell(i)
    <2> DEFINE m == k + n
    <2>1. m \in Nat
        OBVIOUS
    <2> HIDE DEF m
    <2>2. /\ Cells(t, 1, m) \in Seq(Cell) /\ Len(Cells(t, 1, m)) = m
          /\ \A i \in 1 .. m : Cells(t, 1, m)[i] = cell(i)
        BY <2>1, FirstCells
    <2> QED
        BY <2>2 DEF m
<1> HIDE DEF a, b, w, cell
<1> DEFINE j == Join(a, b)
<1>4. /\ j \in Seq(Cell) /\ Len(j) = k + n
      /\ \A i \in 1 .. k + n : j[i] = IF i <= k THEN a[i] ELSE b[i - k]
    BY <1>1, <1>2 DEF Join
<1>5. \A i \in 1 .. k + n : j[i] = w[i]
    <2> TAKE i \in 1 .. k + n
    <2>1. CASE i <= k
        BY <1>1, <1>3, <1>4, <2>1
    <2>2. CASE i > k
        <3>1. i - k \in 1 .. n /\ k + (i - k) = i
            BY <2>2
        <3>2. b[i - k] = cell(i)
            BY <1>2, <3>1
        <3> QED
            BY <1>3, <1>4, <2>2, <3>2
    <2> QED
        BY <2>1, <2>2
<1> HIDE DEF j
<1>6. j = w
    BY <1>3, <1>4, <1>5, SeqEqual
<1> QED
    BY <1>6 DEF j, a, b, w

LEMMA NoCells ==
    ASSUME NEW t \in PeerStream
    PROVE  Cells(t, 1, 0) = <<>>
<1>1. Cells(t, 1, 0) \in Seq(Cell) /\ Len(Cells(t, 1, 0)) = 0
    BY FirstCells
<1> QED
    BY <1>1

-----------------------------------------------------------------------------
(* One chunk, from its payload on.  The reader has read the header of the    *)
(* chunk as the peer meant it: t is the peer's stream with its message in    *)
(* hand, peer, msgs and size what it had before this chunk.                  *)
ReadyFor(P, c, t, peer, msgs, size, o) ==
  /\ P \in Automaton
  /\ P.mode = "payload" /\ P.csid = c /\ P.need = require_len(P.cs[c]) /\ P.chunk_size = size
  /\ t.left > 0
  /\ Agrees(P.cs[c], t, o)
  /\ P.cs[c].chunk_data = Cells(t, 1, t.len - t.left)
  /\ \A d \in Csids \ {c} : StreamOf(P.cs[d], peer[d], o)
  /\ Len(P.delivered) = Len(msgs)
  /\ Matches(P.delivered, msgs, o)

SentMessage(c, t) ==
  [csid |-> c, type |-> t.type, ts |-> t.ts, drifted |-> t.drifted, data |-> Cells(t, 1, t.len)]

NextSize(t, size) ==
  CASE t.type = "size" -> t.value
    [] t.type = "connect" -> g_config_chunk_size
    [] t.type = "other" -> size

Payload(t, n) == Cells(t, t.len - t.left + 1, t.len - t.left + n)

LEMMA PayloadIs ==
    ASSUME NEW t \in PeerStream, t.left <= t.len, NEW n \in Nat
    PROVE  /\ Payload(t, n) \in Seq(Cell) /\ Len(Payload(t, n)) = n
           /\ Join(Cells(t, 1, t.len - t.left), Payload(t, n)) = Cells(t, 1, t.len - t.left + n)
<1> DEFINE k == t.len - t.left
<1>1. k \in Nat
    BY PeerParts
<1> HIDE DEF k
<1>2. /\ Cells(t, k + 1, k + n) \in Seq(Cell) /\ Len(Cells(t, k + 1, k + n)) = n
      /\ Join(Cells(t, 1, k), Cells(t, k + 1, k + n)) = Cells(t, 1, k + n)
    BY <1>1, CellsAre, CellsJoin
<1> QED
    BY <1>2 DEF Payload, k

LEMMA MatchesMore ==
    ASSUME NEW out, NEW msgs \in Seq(Message), NEW m, NEW o, Matches(out, msgs, o), Len(out) \in Nat
    PROVE  Matches(out, Append(msgs, m), o)
<1>1. Len(msgs) \in Nat /\ Len(Append(msgs, m)) = Len(msgs) + 1
    OBVIOUS
<1>2. \A i \in 1 .. Len(msgs) : Append(msgs, m)[i] = msgs[i]
    OBVIOUS
<1> DEFINE w == Append(msgs, m)
<1> HIDE DEF w
<1>3. Len(w) = Len(msgs) + 1 /\ \A i \in 1 .. Len(msgs) : w[i] = msgs[i]
    BY <1>1, <1>2 DEF w
<1>4. \A i \in 1 .. Len(out) : w[i] = msgs[i]
    BY <1>1, <1>3 DEF Matches
<1>5. Matches(out, w, o)
    BY <1>1, <1>3, <1>4 DEF Matches
<1> QED
    BY <1>5 DEF w

LEMMA MatchesBoth ==
    ASSUME NEW out \in Seq(Message), NEW msgs \in Seq(Message), NEW d, NEW m, NEW o,
           Matches(out, msgs, o), Len(out) = Len(msgs), Match(d, m, o)
    PROVE  /\ Matches(Append(out, d), Append(msgs, m), o)
           /\ Len(Append(out, d)) = Len(Append(msgs, m))
<1> DEFINE a == Append(out, d)
           b == Append(msgs, m)
           k == Len(out)
<1>1. k \in Nat /\ Len(a) = k + 1 /\ Len(b) = k + 1 /\ a[k + 1] = d /\ b[k + 1] = m
    OBVIOUS
<1>2. \A i \in 1 .. k : a[i] = out[i] /\ b[i] = msgs[i]
    OBVIOUS
<1> HIDE DEF a, b, k
<1>3. \A i \in 1 .. k : Match(a[i], b[i], o)
    BY <1>2 DEF Matches, k
<1>4. \A i \in 1 .. k + 1 : Match(a[i], b[i], o)
    <2> TAKE i \in 1 .. k + 1
    <2>1. CASE i \in 1 .. k
        BY <1>3, <2>1
    <2>2. CASE i = k + 1
        BY <1>1, <2>2
    <2> QED
        BY <1>1, <2>1, <2>2
<1>5. Matches(a, b, o) /\ Len(a) = Len(b)
    BY <1>1, <1>4 DEF Matches
<1> QED
    BY <1>5 DEF a, b

LEMMA FinishParts ==
    ASSUME NEW s \in Stream, NEW data \in Seq(Cell), NEW f, f = FinishStream(s, data)
    PROVE  /\ f \in Stream
           /\ f.known = s.known /\ f.phase = "header" /\ f.fmt = s.fmt /\ f.chunk_size = s.chunk_size
           /\ f.ext_ts_flag = s.ext_ts_flag /\ f.timestamp32 = s.timestamp32
           /\ f.timestamp_delta = s.timestamp_delta /\ f.msg_len = s.msg_len /\ f.type_id = s.type_id
           /\ f.remain = s.remain - require_len(s)
           /\ f.chunk_data = IF is_ready(s, require_len(s)) THEN <<>> ELSE data
<1> DEFINE rest == IF is_ready(s, require_len(s)) THEN <<>> ELSE data
           left == s.remain - require_len(s)
<1>1. rest \in Seq(Cell)
    OBVIOUS
<1>2. left \in Nat
    BY RequireLenType, StreamParts
<1>3. f = [s EXCEPT !.phase = "header", !.remain = left, !.chunk_data = rest]
    BY DEF FinishStream
<1> HIDE DEF rest, left
<1>4. /\ f \in Stream
      /\ f.known = s.known /\ f.phase = "header" /\ f.fmt = s.fmt /\ f.chunk_size = s.chunk_size
      /\ f.ext_ts_flag = s.ext_ts_flag /\ f.timestamp32 = s.timestamp32
      /\ f.timestamp_delta = s.timestamp_delta /\ f.msg_len = s.msg_len /\ f.type_id = s.type_id
      /\ f.remain = left /\ f.chunk_data = rest
    BY <1>1, <1>2, <1>3 DEF Stream
<1> QED
    BY <1>4 DEF rest, left

LEMMA LeftParts ==
    ASSUME NEW t \in PeerStream, NEW k \in Nat, NEW u, u = [t EXCEPT !.left = k]
    PROVE  /\ u \in PeerStream
           /\ u.opened = t.opened /\ u.msg = t.msg /\ u.len = t.len /\ u.left = k /\ u.type = t.type
           /\ u.value = t.value /\ u.ts = t.ts /\ u.field = t.field /\ u.header = t.header
           /\ u.ext = t.ext /\ u.last = t.last /\ u.agreed = t.agreed /\ u.had_ext = t.had_ext
           /\ u.drifted = t.drifted
BY DEF PeerStream

ChunkSynced(F, c, t, u, n, peer2, msgs, size, o) ==
  /\ u \in PeerStream /\ n > 0 /\ n <= t.left
  /\ u.left > 0 => Synced(F, peer2, msgs, size, o)
  /\ u.left = 0 => Synced(F, peer2, Append(msgs, SentMessage(c, t)), NextSize(t, size), o)

(* A chunk of the size the reader expects is read as it was sent.            *)
LEMMA ChunkRead ==
    ASSUME NEW c \in Csids, NEW t \in PeerStream, NEW peer \in [Csids -> PeerStream],
           NEW msgs \in Seq(Message), NEW size, NEW o, NEW P,
           ReadyFor(P, c, t, peer, msgs, size, o),
           NEW n \in Nat, n = Smaller(t.left, t.agreed),
           NEW u, u = [t EXCEPT !.left = t.left - n],
           NEW F, F = Run(P, Payload(t, n)),
           NEW peer2, peer2 = [peer EXCEPT ![c] = u]
    PROVE  ChunkSynced(F, c, t, u, n, peer2, msgs, size, o)
<1> SUFFICES /\ u \in PeerStream /\ n > 0 /\ n <= t.left
             /\ u.left > 0 => Synced(F, peer2, msgs, size, o)
             /\ u.left = 0 => Synced(F, peer2, Append(msgs, SentMessage(c, t)), NextSize(t, size), o)
    BY DEF ChunkSynced
<1> DEFINE s == P.cs[c]
           q == Payload(t, n)
           m == t.len - t.left + n
           data == Cells(t, 1, m)
           f == FinishStream(s, data)
<1>1. /\ P \in Automaton /\ P.mode = "payload" /\ P.csid = c /\ P.need = require_len(s)
      /\ P.chunk_size = size /\ t.left > 0 /\ Agrees(s, t, o)
      /\ s.chunk_data = Cells(t, 1, t.len - t.left)
      /\ \A d \in Csids \ {c} : StreamOf(P.cs[d], peer[d], o)
      /\ Len(P.delivered) = Len(msgs) /\ Matches(P.delivered, msgs, o)
    BY DEF ReadyFor
<1>2. s \in Stream /\ P.cs \in [Csids -> Stream] /\ P.delivered \in Seq(Message)
    BY <1>1, AutomatonParts
<1>3. t.left \in Nat /\ t.len \in Nat /\ t.left <= t.len /\ t.agreed \in Nat \ {0}
    BY <1>1, PeerParts, SizesAreNat DEF Agrees
<1>4. require_len(s) = n /\ n > 0 /\ n <= t.left
    BY <1>1, <1>3 DEF Agrees, require_len, Smaller
<1>5. t.left - n \in Nat /\ m \in Nat /\ m > 0
    BY <1>3, <1>4
<1>6. /\ u \in PeerStream
      /\ u.opened = t.opened /\ u.msg = t.msg /\ u.len = t.len /\ u.left = t.left - n /\ u.type = t.type
      /\ u.value = t.value /\ u.ts = t.ts /\ u.field = t.field /\ u.header = t.header
      /\ u.ext = t.ext /\ u.last = t.last /\ u.agreed = t.agreed /\ u.had_ext = t.had_ext
      /\ u.drifted = t.drifted
    BY <1>5, LeftParts
<1>7. q \in Seq(Cell) /\ Len(q) = n /\ Join(s.chunk_data, q) = data
    BY <1>1, <1>3, PayloadIs
<1>8. F = Finish(P, s, data)
    <2>1. P.cs[P.csid] = s
        BY <1>1
    <2> HIDE DEF s, q, data
    <2>2. Run(P, q) = Finish(P, s, Join(s.chunk_data, q))
        BY <1>1, <1>4, <1>7, <2>1, RunChunk
    <2> QED
        BY <1>7, <2>2 DEF q
<1>9. data \in Seq(Cell) /\ Len(data) = m /\ data[1].value = t.value
    <2> HIDE DEF m
    <2>1. /\ Cells(t, 1, m) \in Seq(Cell) /\ Len(Cells(t, 1, m)) = m
          /\ \A i \in 1 .. m : Cells(t, 1, m)[i]
                                = [unit |-> "cell", msg |-> t.msg, index |-> i, value |-> t.value]
        BY <1>5, FirstCells
    <2>2. 1 \in 1 .. m
        BY <1>5
    <2> HIDE DEF data
    <2>3. data[1] = [unit |-> "cell", msg |-> t.msg, index |-> 1, value |-> t.value]
        BY <2>1, <2>2 DEF data
    <2>4. data[1].value = t.value
        BY <2>3
    <2> QED
        BY <2>1, <2>4 DEF data
<1>10. is_ready(s, n) <=> u.left = 0
    BY <1>1, <1>3, <1>4, <1>6 DEF is_ready, Agrees
<1>11. /\ f \in Stream
       /\ f.known = s.known /\ f.phase = "header" /\ f.fmt = s.fmt /\ f.chunk_size = s.chunk_size
       /\ f.ext_ts_flag = s.ext_ts_flag /\ f.timestamp32 = s.timestamp32
       /\ f.timestamp_delta = s.timestamp_delta /\ f.msg_len = s.msg_len /\ f.type_id = s.type_id
       /\ f.remain = s.remain - n
       /\ f.chunk_data = IF is_ready(s, n) THEN <<>> ELSE data
    BY <1>2, <1>4, <1>9, FinishParts
<1> HIDE DEF s, q, data, f, m
<1>12. Agrees(f, u, o)
    <2>1. u.left <= u.len /\ f.remain = u.left
        BY <1>1, <1>3, <1>4, <1>6, <1>11 DEF Agrees
    <2> QED
        BY <1>1, <1>6, <1>11, <2>1 DEF Agrees
<1>13. StreamOf(f, u, o)
    <2>1. CASE u.left > 0
        <3>1. f.chunk_data = data
            BY <1>10, <1>11, <2>1
        <3>2. u.len - u.left = m
            BY <1>3, <1>4, <1>6 DEF m
        <3>3. Cells(u, 1, m) = data
            BY <1>6 DEF data, Cells
        <3> QED
            BY <1>11, <1>12, <2>1, <3>1, <3>2, <3>3 DEF StreamOf
    <2>2. CASE ~(u.left > 0)
        <3>1. u.left = 0
            BY <1>5, <1>6, <2>2
        <3>2. f.chunk_data = <<>>
            BY <1>10, <1>11, <3>1
        <3> QED
            BY <1>11, <1>12, <2>2, <3>2 DEF StreamOf
    <2> QED
        BY <2>1, <2>2
<1> DEFINE c2 == [P.cs EXCEPT ![c] = f]
           z == HandledSize(s, data, size)
           g == ReadyMessage(c, s, data)
<1>14. \A d \in Csids : StreamOf(c2[d], peer2[d], o)
    <2> TAKE d \in Csids
    <2>1. CASE d = c
        <3>1. c2[c] = f /\ peer2[c] = u
            BY <1>2
        <3> QED
            BY <1>13, <2>1, <3>1
    <2>2. CASE d # c
        <3>1. c2[d] = P.cs[d] /\ peer2[d] = peer[d]
            BY <1>2, <2>2
        <3> QED
            BY <1>1, <2>2, <3>1
    <2> QED
        BY <2>1, <2>2
<1> HIDE DEF c2, z, g
<1>15. CASE u.left > 0
    <2>1. ~is_ready(s, n)
        BY <1>10, <1>15
    <2>2. F = State("idle", P.fmt, c, 0, size, c2, P.delivered)
        BY <1>1, <1>4, <1>8, <2>1 DEF Finish, f, c2
    <2>3. F.mode = "idle" /\ F.chunk_size = size /\ F.cs = c2 /\ F.delivered = P.delivered
        BY <2>2 DEF State
    <2>4. Synced(F, peer2, msgs, size, o)
        BY <1>1, <1>14, <2>3 DEF Synced
    <2> QED
        BY <1>4, <1>6, <1>15, <2>4
<1>16. CASE u.left = 0
    <2> DEFINE w == SentMessage(c, t)
               out == Append(P.delivered, g)
               msgs2 == Append(msgs, w)
    <2>1. is_ready(s, n)
        BY <1>10, <1>16
    <2>2. F = State("idle", P.fmt, c, 0, z, c2, out)
        BY <1>1, <1>4, <1>8, <2>1 DEF Finish, f, c2, z, g
    <2> HIDE DEF out
    <2>3. F.mode = "idle" /\ F.chunk_size = z /\ F.cs = c2 /\ F.delivered = out
        BY <2>2 DEF State
    <2>4. z = NextSize(t, size)
        BY <1>1, <1>9 DEF z, HandledSize, NextSize, Agrees
    <2>5. m = t.len
        BY <1>3, <1>4, <1>6, <1>16 DEF m
    <2>6. Match(g, w, o)
        BY <1>1, <2>5 DEF Match, g, ReadyMessage, SentMessage, Agrees, data
    <2> HIDE DEF w
    <2>7. Matches(out, msgs2, o) /\ Len(out) = Len(msgs2)
        BY <1>1, <1>2, <2>6, MatchesBoth DEF out
    <2> HIDE DEF msgs2
    <2>8. Synced(F, peer2, msgs2, NextSize(t, size), o)
        BY <1>14, <2>3, <2>4, <2>7 DEF Synced
    <2> QED
        BY <1>4, <1>6, <1>16, <2>8 DEF msgs2, w
<1> QED
    BY <1>5, <1>6, <1>15, <1>16

(* A chunk of another size, and the reader has gone astray.                  *)
LEMMA ChunkMisread ==
    ASSUME NEW c \in Csids, NEW t \in PeerStream, NEW peer \in [Csids -> PeerStream],
           NEW msgs \in Seq(Message), NEW size, NEW o, NEW P,
           ReadyFor(P, c, t, peer, msgs, size, o),
           NEW n \in Nat, n > 0, n <= t.left, n # Smaller(t.left, t.agreed), o # {},
           NEW F, F = Run(P, Payload(t, n))
    PROVE  Astray(F, msgs, o)
<1> DEFINE s == P.cs[c]
           q == Payload(t, n)
           k == P.need
<1>1. /\ P \in Automaton /\ P.mode = "payload" /\ P.csid = c /\ k = require_len(s)
      /\ t.left > 0 /\ Agrees(s, t, o) /\ Matches(P.delivered, msgs, o)
    BY DEF ReadyFor
<1>2. s \in Stream /\ P.cs[P.csid] = s
    BY <1>1, AutomatonParts
<1>3. t.left \in Nat /\ t.len \in Nat /\ t.left <= t.len /\ t.agreed \in Nat \ {0}
    BY <1>1, PeerParts, SizesAreNat DEF Agrees
<1>4. k = Smaller(t.left, t.agreed)
    BY <1>1 DEF Agrees, require_len
<1>5. k \in Nat /\ k > 0 /\ k # n /\ s.remain = t.left
    BY <1>1, <1>3, <1>4 DEF Smaller, Agrees
<1>6. q \in Seq(Cell) /\ Len(q) = n
    BY <1>3, PayloadIs
<1>7. SUFFICES F.mode \in {"payload", "lost"} /\ F.delivered = P.delivered
    BY <1>1 DEF Astray
<1> HIDE DEF q, s
<1>8. CASE n < k
    <2>1. F = Filled(P, Join(s.chunk_data, q), k - n)
        BY <1>1, <1>2, <1>6, <1>8, RunCells DEF q
    <2> QED
        BY <2>1 DEF Filled, State
<1>9. CASE n > k
    <2> DEFINE a == SubSeq(q, 1, k)
               b == From(q, k + 1)
               A == Finish(P, s, Join(s.chunk_data, a))
    <2>1. q \in Seq(Unit) /\ k \in 0 .. Len(q)
        BY <1>5, <1>6, <1>9, CellsAreUnits
    <2>2. /\ a \in Seq(Unit) /\ Len(a) = k /\ b \in Seq(Unit) /\ q = Join(a, b)
          /\ \A i \in 1 .. k : a[i] = q[i]
          /\ Len(b) = Len(q) - k /\ \A i \in 1 .. Len(q) - k : b[i] = q[k + i]
        BY <2>1, CutAt
    <2> HIDE DEF a, b
    <2>3. \A i \in 1 .. n : q[i] \in Cell
        BY <1>6
    <2>4. \A i \in 1 .. k : a[i].unit = "cell"
        <3> TAKE i \in 1 .. k
        <3>1. i \in 1 .. n
            BY <1>5, <1>9
        <3>2. a[i] = q[i] /\ q[i] \in Cell
            BY <2>2, <2>3, <3>1
        <3> QED
            BY <3>2 DEF Cell
    <2>5. a \in Seq(Cell)
        BY <2>2, <2>4, UnitsOfCells
    <2>6. Run(P, a) = A
        BY <1>1, <1>2, <1>5, <2>2, <2>5, RunChunk
    <2>7. ~is_ready(s, require_len(s))
        BY <1>1, <1>3, <1>5, <1>9 DEF is_ready
    <2>8. A.mode = "idle" /\ A.delivered = P.delivered
        BY <2>7 DEF Finish, State
    <2> HIDE DEF A
    <2>9. b # <<>> /\ Head(b) = q[k + 1] /\ q[k + 1] \in Cell
        <3>1. 1 \in 1 .. Len(q) - k /\ k + 1 \in 1 .. n
            BY <1>5, <1>6, <1>9
        <3>2. b[1] = q[k + 1] /\ Len(b) > 0
            BY <2>2, <3>1
        <3> QED
            BY <2>2, <2>3, <3>1, <3>2
    <2> DEFINE C == Step(A, Head(b))
               r == Tail(b)
    <2>10. C.mode = "lost" /\ C.delivered = P.delivered
        <3>1. Head(b).unit = "cell"
            BY <2>9 DEF Cell
        <3> QED
            BY <2>8, <3>1 DEF Step, StepIdle, InMode, State
    <2>11. r \in Seq(Unit) /\ Run(A, b) = Run(C, r)
        BY <2>2, <2>9, HeadAndTail, RunHead
    <2> HIDE DEF C, r
    <2>12. Run(C, r) = C
        BY <2>10, <2>11, RunStays
    <2>13. F = Run(A, b)
        BY <2>2, <2>6, RunJoin DEF q
    <2> QED
        BY <2>10, <2>11, <2>12, <2>13
<1> QED
    BY <1>5, <1>8, <1>9

-----------------------------------------------------------------------------
(* The headers of a chunk.                                                   *)

LEMMA TwoUnits ==
    ASSUME NEW b \in Unit, NEW e \in Unit
    PROVE  <<b>> \o <<e>> = Append(<<b>>, e) /\ <<b>> \o <<>> = <<b>>
<1>1. <<b>> \in Seq(Unit) /\ <<e>> \in Seq(Unit)
    OBVIOUS
<1> QED
    BY <1>1

LEMMA BasicUnits ==
    ASSUME NEW c \in Csids, NEW fmt \in 0 .. 3
    PROVE  /\ basic(c, fmt) \in Seq(Unit) /\ basic(c, fmt) # <<>>
           /\ Head(basic(c, fmt)).unit = "basic"
<1> DEFINE b == [unit |-> "basic", csid |-> c, fmt |-> fmt]
           e == [unit |-> "basic2"]
<1>1. b \in Unit /\ e \in Unit /\ b.unit = "basic"
    BY DEF Unit
<1> HIDE DEF b, e
<1>2. basic(c, fmt) = IF c \in LongCsids THEN Append(<<b>>, e) ELSE <<b>>
    <2>1. c \in LongCsids => basic(c, fmt) = <<b>> \o <<e>>
        BY Zenon DEF basic, b, e
    <2>2. c \notin LongCsids => basic(c, fmt) = <<b>> \o <<>>
        BY Zenon DEF basic, b, e
    <2> QED
        BY <1>1, <2>1, <2>2, TwoUnits
<1> QED
    BY <1>1, <1>2

(* Its basic header.                                                         *)
LEMMA BasicRead ==
    ASSUME NEW R \in Automaton, R.mode = "idle", NEW c \in Csids, NEW fmt \in 0 .. 3
    PROVE  Run(R, basic(c, fmt)) = Found(R, fmt, c)
<1> DEFINE b == [unit |-> "basic", csid |-> c, fmt |-> fmt]
           e == [unit |-> "basic2"]
           B == State("basic2", fmt, c, 0, R.chunk_size, R.cs, R.delivered)
<1>1. b \in Unit /\ e \in Unit /\ b.unit = "basic" /\ b.csid = c /\ b.fmt = fmt /\ e.unit = "basic2"
    BY DEF Unit
<1> HIDE DEF b, e
<1>2. basic(c, fmt) = IF c \in LongCsids THEN Append(<<b>>, e) ELSE <<b>>
    <2>1. c \in LongCsids => basic(c, fmt) = <<b>> \o <<e>>
        BY Zenon DEF basic, b, e
    <2>2. c \notin LongCsids => basic(c, fmt) = <<b>> \o <<>>
        BY Zenon DEF basic, b, e
    <2> QED
        BY <1>1, <2>1, <2>2, TwoUnits
<1>3. Run(R, <<b>>) = Step(R, b) /\ <<b>> \in Seq(Unit)
    BY <1>1, RunOne
<1>4. CASE c \notin LongCsids
    BY <1>1, <1>2, <1>3, <1>4 DEF Step, StepIdle
<1>5. CASE c \in LongCsids
    <2> DEFINE x == <<b>>
    <2>1. Step(R, b) = B
        BY <1>1, <1>5 DEF Step, StepIdle
    <2>2. B.mode = "basic2" /\ B.fmt = fmt /\ B.csid = c
        BY DEF State
    <2>3. Found(B, fmt, c) = Found(R, fmt, c)
        BY DEF Found, State
    <2> HIDE DEF B
    <2>4. Step(B, e) = Found(R, fmt, c)
        BY <1>1, <2>2, <2>3 DEF Step, StepBasic2
    <2>5. x \in Seq(Unit) /\ Run(R, x) = B
        BY <1>3, <2>1
    <2> HIDE DEF x
    <2>6. Run(R, Append(x, e)) = Step(B, e)
        BY <1>1, <2>5, RunAppend
    <2> QED
        BY <1>2, <1>5, <2>4, <2>6 DEF x
<1> QED
    BY <1>4, <1>5

(* The stream c of the automaton once it has read the basic header.          *)
FoundIs(H, R, fmt, c) ==
  /\ H \in Automaton /\ H.mode = "header" /\ H.fmt = fmt /\ H.csid = c
  /\ H.chunk_size = R.chunk_size /\ H.delivered = R.delivered
  /\ H.cs[c] = Lookup(R.cs[c], fmt, R.chunk_size)
  /\ \A d \in Csids \ {c} : H.cs[d] = R.cs[d]

LEMMA FoundParts ==
    ASSUME NEW R \in Automaton, NEW c \in Csids, NEW fmt \in 0 .. 3, NEW H, H = Found(R, fmt, c)
    PROVE  FoundIs(H, R, fmt, c)
<1> DEFINE l == Lookup(R.cs[c], fmt, R.chunk_size)
<1>1. H \in Automaton /\ R.cs \in [Csids -> Stream]
    BY FoundType, AutomatonParts
<1>2. /\ H.mode = "header" /\ H.fmt = fmt /\ H.csid = c /\ H.chunk_size = R.chunk_size
      /\ H.delivered = R.delivered /\ H.cs = [R.cs EXCEPT ![c] = l]
    BY DEF Found, State
<1> HIDE DEF l
<1>3. H.cs[c] = l /\ \A d \in Csids \ {c} : H.cs[d] = R.cs[d]
    BY <1>1, <1>2
<1> QED
    BY <1>1, <1>2, <1>3 DEF l, FoundIs

PayloadIn(P, H, c, x) ==
  /\ P \in Automaton /\ P.mode = "payload" /\ P.csid = c /\ P.need = require_len(x)
  /\ P.chunk_size = H.chunk_size /\ P.delivered = H.delivered
  /\ P.cs[c] = x
  /\ \A d \in Csids \ {c} : P.cs[d] = H.cs[d]

LEMMA PayloadParts ==
    ASSUME NEW H \in Automaton, NEW c, H.csid = c, NEW x \in Stream, x.remain > 0,
           NEW P, P = InPayload(H, x)
    PROVE  PayloadIn(P, H, c, x)
<1>1. H.cs \in [Csids -> Stream] /\ c \in Csids /\ x.remain \in Nat
    BY AutomatonParts, StreamParts
<1>2. P \in Automaton
    BY InPayloadType
<1>3. x.remain # 0
    BY <1>1
<1>4. /\ P.mode = "payload" /\ P.csid = c /\ P.need = require_len(x)
      /\ P.chunk_size = H.chunk_size /\ P.delivered = H.delivered /\ P.cs = [H.cs EXCEPT ![c] = x]
    BY <1>3 DEF InPayload, State
<1>5. P.cs[c] = x /\ \A d \in Csids \ {c} : P.cs[d] = H.cs[d]
    BY <1>1, <1>4
<1> QED
    BY <1>2, <1>4, <1>5 DEF PayloadIn

LookupOf(l, s, fmt, size) ==
  /\ l \in Stream /\ l.known /\ l.phase = s.phase
  /\ l.fmt = (IF s.known THEN s.fmt ELSE fmt)
  /\ l.chunk_size = (IF s.known THEN s.chunk_size ELSE size)
  /\ l.ext_ts_flag = s.ext_ts_flag /\ l.timestamp32 = s.timestamp32
  /\ l.timestamp_delta = s.timestamp_delta /\ l.msg_len = s.msg_len /\ l.type_id = s.type_id
  /\ l.remain = s.remain /\ l.chunk_data = s.chunk_data

LEMMA LookupParts ==
    ASSUME NEW s \in Stream, NEW fmt \in 0 .. 3, NEW size \in Sizes, NEW l, l = Lookup(s, fmt, size)
    PROVE  LookupOf(l, s, fmt, size)
<1>1. l \in Stream
    BY LookupType
<1>2. CASE s.known
    <2>1. l = s
        BY <1>2 DEF Lookup
    <2> QED
        BY <1>1, <1>2, <2>1 DEF LookupOf
<1>3. CASE ~s.known
    <2>1. l = [s EXCEPT !.known = TRUE, !.fmt = fmt, !.chunk_size = size]
        BY <1>3 DEF Lookup
    <2>2. /\ l.known /\ l.phase = s.phase /\ l.fmt = fmt /\ l.chunk_size = size
          /\ l.ext_ts_flag = s.ext_ts_flag /\ l.timestamp32 = s.timestamp32
          /\ l.timestamp_delta = s.timestamp_delta /\ l.msg_len = s.msg_len /\ l.type_id = s.type_id
          /\ l.remain = s.remain /\ l.chunk_data = s.chunk_data
        BY <2>1 DEF Stream
    <2> QED
        BY <1>1, <1>3, <2>2 DEF LookupOf
<1> QED
    BY <1>2, <1>3

FormatOf(x, s, fmt, h) ==
  /\ x \in Stream /\ x.phase = "payload" /\ x.fmt = fmt
  /\ x.known = s.known /\ x.chunk_size = s.chunk_size /\ x.chunk_data = s.chunk_data
  /\ x.ext_ts_flag = (s.ext_ts_flag \/ h.ts >= ExtLimit)
  /\ x.timestamp32 = (IF fmt = 0 THEN h.ts ELSE (s.timestamp32 + h.ts) % TsWrap)
  /\ x.timestamp_delta = (IF fmt = 0 THEN 0 ELSE h.ts)
  /\ x.msg_len = (IF fmt = 2 THEN s.msg_len ELSE h.len)
  /\ x.type_id = (IF fmt = 2 THEN s.type_id ELSE h.type)
  /\ x.remain = (IF fmt = 2 THEN s.msg_len ELSE h.len)

LEMMA FormatParts ==
    ASSUME NEW s \in Stream, NEW fmt \in 0 .. 2, NEW h \in Unit, is_header(h),
           NEW x, x = read_msg_format(s, fmt, h)
    PROVE  FormatOf(x, s, fmt, h)
<1>1. x \in Stream
    BY FormatType
<1> DEFINE e == s.ext_ts_flag \/ h.ts >= ExtLimit
           ts == IF fmt = 0 THEN h.ts ELSE (s.timestamp32 + h.ts) % TsWrap
           de == IF fmt = 0 THEN 0 ELSE h.ts
           le == IF fmt = 2 THEN s.msg_len ELSE h.len
           ty == IF fmt = 2 THEN s.type_id ELSE h.type
<1>2. x = [s EXCEPT !.phase = "payload", !.fmt = fmt, !.ext_ts_flag = e, !.timestamp32 = ts,
                    !.timestamp_delta = de, !.msg_len = le, !.type_id = ty, !.remain = le]
    BY DEF read_msg_format
<1> HIDE DEF e, ts, de, le, ty
<1>3. /\ x.phase = "payload" /\ x.fmt = fmt /\ x.known = s.known /\ x.chunk_size = s.chunk_size
      /\ x.chunk_data = s.chunk_data /\ x.ext_ts_flag = e /\ x.timestamp32 = ts
      /\ x.timestamp_delta = de /\ x.msg_len = le /\ x.type_id = ty /\ x.remain = le
    BY <1>2 DEF Stream
<1> QED
    BY <1>1, <1>3 DEF e, ts, de, le, ty, FormatOf

(* What the peer's stream t and the header h of a new message have to do     *)
(* with each other and with the stream as it was.                            *)
NewHeader(old, t, fmt, h, size, o) ==
  /\ old.left = 0
  /\ t.opened /\ t.left = t.len /\ t.len > 0 /\ t.last = fmt /\ t.header = fmt
  /\ t.agreed = IF old.opened THEN old.agreed ELSE size
  /\ h.unit = "header" /\ is_header(h) /\ h.len = t.len /\ h.type = t.type
  /\ fmt = 2 => t.len = old.len /\ t.type = old.type
  /\ t.had_ext <=> old.had_ext \/ h.ts >= ExtLimit
  /\ t.ext => t.had_ext
  /\ fmt # 0 \/ t.ext => t.field = h.ts
  /\ fmt = 0 => (~TimeOdd(o) => h.ts = t.ts)
  /\ fmt # 0 => t.ts = (old.ts + h.ts) % TsWrap /\ (old.drifted => t.drifted)

LEMMA HeaderRead ==
    ASSUME NEW R \in Automaton, NEW c \in Csids, NEW t \in PeerStream, NEW peer \in [Csids -> PeerStream],
           NEW msgs, NEW size \in Sizes, NEW o, Synced(R, peer, msgs, size, o),
           NEW fmt \in 0 .. 2, NEW h \in Unit, NewHeader(peer[c], t, fmt, h, size, o),
           NEW P, P = Run(R, Join(basic(c, fmt), <<h>>))
    PROVE  ReadyFor(P, c, t, peer, msgs, size, o)
<1> DEFINE old == peer[c]
           s0 == R.cs[c]
           H == Found(R, fmt, c)
           s == H.cs[c]
           x == read_msg_format(s, fmt, h)
<1>1. /\ R.mode = "idle" /\ R.chunk_size = size /\ StreamOf(s0, old, o) /\ Len(R.delivered) = Len(msgs)
      /\ Matches(R.delivered, msgs, o) /\ \A d \in Csids : StreamOf(R.cs[d], peer[d], o)
    BY DEF Synced
<1>2. fmt \in 0 .. 3 /\ s0 \in Stream /\ old \in PeerStream
    BY AutomatonParts
<1>3. Run(R, basic(c, fmt)) = H
    BY <1>1, <1>2, BasicRead
<1>4. /\ H \in Automaton /\ H.mode = "header" /\ H.fmt = fmt /\ H.csid = c
      /\ H.chunk_size = size /\ H.delivered = R.delivered /\ s = Lookup(s0, fmt, size)
      /\ \A d \in Csids \ {c} : H.cs[d] = R.cs[d]
    <2>1. FoundIs(H, R, fmt, c)
        BY <1>2, FoundParts
    <2> QED
        BY <1>1, <2>1 DEF FoundIs
<1> HIDE DEF H, s, s0, old
<1>5. /\ s \in Stream /\ s.known
      /\ s.chunk_size = (IF s0.known THEN s0.chunk_size ELSE size)
      /\ s.ext_ts_flag = s0.ext_ts_flag /\ s.timestamp32 = s0.timestamp32
      /\ s.msg_len = s0.msg_len /\ s.type_id = s0.type_id /\ s.chunk_data = s0.chunk_data
    <2>1. LookupOf(s, s0, fmt, size)
        BY <1>2, <1>4, LookupParts
    <2> QED
        BY <2>1 DEF LookupOf
<1>6. is_header(h) /\ h.ts \in Stamps /\ fmt # 3
    BY UnitKinds DEF NewHeader, is_header
<1>7. /\ x \in Stream /\ x.phase = "payload" /\ x.fmt = fmt
      /\ x.known = s.known /\ x.chunk_size = s.chunk_size /\ x.chunk_data = s.chunk_data
      /\ x.ext_ts_flag = (s.ext_ts_flag \/ h.ts >= ExtLimit)
      /\ x.timestamp32 = (IF fmt = 0 THEN h.ts ELSE (s.timestamp32 + h.ts) % TsWrap)
      /\ x.timestamp_delta = (IF fmt = 0 THEN 0 ELSE h.ts)
      /\ x.msg_len = (IF fmt = 2 THEN s.msg_len ELSE h.len)
      /\ x.type_id = (IF fmt = 2 THEN s.type_id ELSE h.type)
      /\ x.remain = (IF fmt = 2 THEN s.msg_len ELSE h.len)
    <2>1. FormatOf(x, s, fmt, h)
        BY <1>5, <1>6, FormatParts
    <2> HIDE DEF x
    <2> QED
        BY <2>1 DEF FormatOf
<1>8. Step(H, h) = InPayload(H, x)
    BY <1>4, <1>6 DEF Step, StepHeader, s
<1> HIDE DEF x
<1>9. P = InPayload(H, x)
    <2> DEFINE b == basic(c, fmt)
               y == <<h>>
    <2>1. b \in Seq(Unit) /\ y \in Seq(Unit)
        BY <1>2, BasicUnits
    <2>2. Run(H, y) = Step(H, h)
        BY RunOne
    <2> HIDE DEF b, y
    <2>3. Run(R, Join(b, y)) = Run(Run(R, b), y)
        BY <2>1, RunJoin
    <2> QED
        BY <1>3, <1>8, <2>2, <2>3 DEF b, y
<1>10. Agrees(s0, old, o) /\ s0.chunk_data = <<>>
    BY <1>1 DEF StreamOf, NewHeader, old
<1>11. /\ old.left = 0 /\ t.opened /\ t.left = t.len /\ t.len > 0 /\ t.last = fmt /\ t.header = fmt
       /\ t.agreed = IF old.opened THEN old.agreed ELSE size
       /\ h.len = t.len /\ h.type = t.type
       /\ fmt = 2 => t.len = old.len /\ t.type = old.type
       /\ t.had_ext <=> old.had_ext \/ h.ts >= ExtLimit
       /\ t.ext => t.had_ext
       /\ fmt # 0 \/ t.ext => t.field = h.ts
       /\ fmt = 0 => (~TimeOdd(o) => h.ts = t.ts)
       /\ fmt # 0 => t.ts = (old.ts + h.ts) % TsWrap /\ (old.drifted => t.drifted)
    BY DEF NewHeader, old
<1>12. x.msg_len = t.len /\ x.remain = t.left /\ x.type_id = t.type
    BY <1>5, <1>7, <1>10, <1>11 DEF Agrees
<1>13. x.chunk_size = t.agreed
    BY <1>5, <1>7, <1>10, <1>11 DEF Agrees
<1>14. x.ext_ts_flag <=> t.had_ext
    BY <1>5, <1>7, <1>10, <1>11 DEF Agrees
<1>15. ~t.drifted /\ ~TimeOdd(o) => x.timestamp32 = t.ts
    <2>1. CASE fmt = 0
        BY <1>7, <1>11, <2>1
    <2>2. CASE fmt # 0
        <3> HAVE ~t.drifted /\ ~TimeOdd(o)
        <3>1. ~old.drifted
            BY <1>11, <2>2
        <3>2. s.timestamp32 = old.ts
            BY <1>5, <1>10, <3>1 DEF Agrees
        <3> QED
            BY <1>7, <1>11, <2>2, <3>2
    <2> QED
        BY <2>1, <2>2
<1>16. t.header = 0 /\ t.ext => x.timestamp32 = t.field
    BY <1>7, <1>11
<1>17. t.left <= t.len
    BY <1>11, PeerParts
<1>18. Agrees(x, t, o)
    BY <1>5, <1>7, <1>11, <1>12, <1>13, <1>14, <1>15, <1>16, <1>17 DEF Agrees
<1>19. t.left > 0 /\ x.remain > 0
    BY <1>11, <1>12
<1>20. x.chunk_data = Cells(t, 1, t.len - t.left)
    <2>1. t.len - t.left = 0
        BY <1>11, PeerParts
    <2> QED
        BY <1>5, <1>7, <1>10, <2>1, NoCells
<1>21. /\ P \in Automaton /\ P.mode = "payload" /\ P.csid = c /\ P.need = require_len(x)
       /\ P.chunk_size = size /\ P.delivered = R.delivered
       /\ P.cs[c] = x
       /\ \A d \in Csids \ {c} : P.cs[d] = R.cs[d]
    <2>1. PayloadIn(P, H, c, x)
        BY <1>4, <1>7, <1>9, <1>19, PayloadParts
    <2> QED
        BY <1>4, <2>1 DEF PayloadIn
<1> QED
    BY <1>1, <1>18, <1>19, <1>20, <1>21 DEF ReadyFor

(* A type 3 chunk.  What its header makes of the stream s.                   *)
Format3Of(y, s, ts) ==
  /\ y \in Stream /\ y.phase = "payload" /\ y.fmt = 3
  /\ y.known = s.known /\ y.chunk_size = s.chunk_size /\ y.ext_ts_flag = s.ext_ts_flag
  /\ y.timestamp_delta = s.timestamp_delta /\ y.msg_len = s.msg_len /\ y.type_id = s.type_id
  /\ y.timestamp32 = (IF begins(s) THEN ts ELSE s.timestamp32)
  /\ y.remain = (IF begins(s) THEN s.msg_len ELSE s.remain)
  /\ y.chunk_data = (IF begins(s) THEN <<>> ELSE s.chunk_data)

Time3(s, u) == IF s.fmt = 0 /\ s.ext_ts_flag THEN u.ts ELSE (s.timestamp32 + delta3(s, u)) % TsWrap

LEMMA Format3Parts ==
    ASSUME NEW s \in Stream, NEW u \in Unit, ~Wrong3(s, u), NEW y, y = read_msg_format3(s, u)
    PROVE  Format3Of(y, s, Time3(s, u))
<1> DEFINE three == 3
           none == <<>>
           n == s.msg_len
           ts == Time3(s, u)
<1>1. y \in Stream
    BY Format3Type
<1>2. CASE begins(s)
    <2>1. y = [s EXCEPT !.phase = "payload", !.fmt = three, !.remain = n,
                        !.chunk_data = none, !.timestamp32 = ts]
        BY <1>2 DEF read_msg_format3, Time3
    <2> HIDE DEF three, none, n, ts
    <2>2. /\ y.phase = "payload" /\ y.fmt = three
          /\ y.known = s.known /\ y.chunk_size = s.chunk_size /\ y.ext_ts_flag = s.ext_ts_flag
          /\ y.timestamp_delta = s.timestamp_delta /\ y.msg_len = s.msg_len /\ y.type_id = s.type_id
          /\ y.timestamp32 = ts /\ y.remain = n /\ y.chunk_data = none
        BY <2>1 DEF Stream
    <2> QED
        BY <1>1, <1>2, <2>2 DEF Format3Of, three, none, n, ts
<1>3. CASE ~begins(s)
    <2>1. y = [s EXCEPT !.phase = "payload", !.fmt = three]
        BY <1>3 DEF read_msg_format3
    <2> HIDE DEF three, none, n, ts
    <2>2. /\ y.phase = "payload" /\ y.fmt = three
          /\ y.known = s.known /\ y.chunk_size = s.chunk_size /\ y.ext_ts_flag = s.ext_ts_flag
          /\ y.timestamp_delta = s.timestamp_delta /\ y.msg_len = s.msg_len /\ y.type_id = s.type_id
          /\ y.timestamp32 = s.timestamp32 /\ y.remain = s.remain /\ y.chunk_data = s.chunk_data
        BY <2>1 DEF Stream
    <2> QED
        BY <1>1, <1>3, <2>2 DEF Format3Of, three
<1> QED
    BY <1>2, <1>3

(* The automaton waits for the header of a type 3 chunk of the stream s.     *)
AtHeader3(H, c, s) ==
  /\ H \in Automaton /\ H.mode = "header" /\ H.fmt = 3 /\ H.csid = c /\ H.cs[c] = s
  /\ s \in Stream /\ (s.remain > 0 \/ s.msg_len > 0)

LEMMA Payload3 ==
    ASSUME NEW H, NEW c, NEW s, AtHeader3(H, c, s), NEW u \in Unit, ~Wrong3(s, u),
           NEW y, y = read_msg_format3(s, u), NEW P, P = InPayload(H, y)
    PROVE  PayloadIn(P, H, c, y) /\ y.remain > 0
<1>1. H \in Automaton /\ H.csid = c /\ s \in Stream /\ s.remain \in Nat
    BY StreamParts, AutomatonParts DEF AtHeader3
<1>2. y \in Stream /\ y.remain = (IF begins(s) THEN s.msg_len ELSE s.remain)
    <2>1. Format3Of(y, s, Time3(s, u))
        BY <1>1, Format3Parts
    <2> QED
        BY <2>1 DEF Format3Of
<1>3. y.remain > 0
    BY <1>1, <1>2 DEF AtHeader3, begins
<1> QED
    BY <1>1, <1>2, <1>3, PayloadParts

LEMMA FirstOfCells ==
    ASSUME NEW q \in Seq(Cell), q # <<>>
    PROVE  /\ Head(q) \in Unit /\ Head(q).unit = "cell"
           /\ q \in Seq(Unit) /\ Tail(q) \in Seq(Unit)
<1>1. Head(q) \in Cell /\ Tail(q) \in Seq(Cell)
    OBVIOUS
<1>2. Tail(q) \in Seq(Unit) /\ q \in Seq(Unit)
    BY <1>1, CellsAreUnits
<1>3. Head(q) \in Unit /\ Head(q).unit = "cell"
    BY <1>1 DEF Unit, Cell
<1> QED
    BY <1>2, <1>3

(* No extension is asked for: the payload is read as such.                   *)
LEMMA Cells3 ==
    ASSUME NEW H, NEW c, NEW s, AtHeader3(H, c, s), ~(takes_ext(s) /\ begins(s)),
           NEW q \in Seq(Cell), q # <<>>, NEW u,
           NEW P, P = InPayload(H, read_msg_format3(s, u))
    PROVE  Run(H, q) = Run(P, q)
<1> DEFINE a == Head(q)
           r == Tail(q)
           y == read_msg_format3(s, u)
<1>1. a \in Unit /\ a.unit = "cell" /\ r \in Seq(Unit) /\ q \in Seq(Unit)
    BY FirstOfCells
<1>2. s \in Stream /\ H.mode = "header" /\ H.fmt = 3 /\ H.cs[H.csid] = s
    BY DEF AtHeader3
<1> HIDE DEF a, r
<1>3. ~Wrong3(s, a) /\ ~Skip3(s, a)
    BY <1>1 DEF Wrong3, Skip3
<1>4. y = read_msg_format3(s, a)
    BY <1>2, Format3Ignores
<1> HIDE DEF y
<1>5. P = InPayload(H, y)
    BY DEF y
<1>6. Step(H, a) = Take(P, a)
    BY <1>2, <1>3, <1>4, <1>5 DEF Step, StepHeader
<1>7. P.mode = "payload"
    <2>1. PayloadIn(P, H, c, y)
        BY <1>1, <1>3, <1>4, <1>5, Payload3
    <2> QED
        BY <2>1 DEF PayloadIn
<1>8. Step(P, a) = Take(P, a)
    BY <1>7 DEF Step
<1>9. Run(H, q) = Run(Step(H, a), r)
    BY <1>1, RunHead DEF a, r
<1>10. Run(P, q) = Run(Step(P, a), r)
    BY <1>1, RunHead DEF a, r
<1> QED
    BY <1>6, <1>8, <1>9, <1>10

(* The automaton is lost at the first unit of a sequence.                    *)
LEMMA LostAtFirst ==
    ASSUME NEW A, NEW u \in Unit, NEW C, C = Step(A, u), C.mode = "lost", NEW r \in Seq(Unit)
    PROVE  Run(A, Join(<<u>>, r)) = C
<1> DEFINE x == <<u>>
<1>1. x \in Seq(Unit) /\ Run(A, x) = C
    BY RunOne
<1> HIDE DEF x
<1>2. Run(A, Join(x, r)) = Run(Run(A, x), r)
    BY <1>1, RunJoin
<1>3. Run(C, r) = C
    BY RunStays
<1> QED
    BY <1>1, <1>2, <1>3 DEF x

(* An extension is asked for, and payload is what comes.                     *)
LEMMA Cells3Wrong ==
    ASSUME NEW H, NEW c, NEW s, AtHeader3(H, c, s), takes_ext(s), begins(s),
           NEW q \in Seq(Cell), q # <<>>, NEW F, F = Run(H, q)
    PROVE  F.mode = "lost" /\ F.delivered = H.delivered
<1> DEFINE a == Head(q)
           r == Tail(q)
           C == Step(H, a)
<1>1. a \in Unit /\ a.unit = "cell" /\ r \in Seq(Unit) /\ q \in Seq(Unit)
    BY FirstOfCells
<1>2. q = Join(<<a>>, r)
    BY <1>1, HeadAndTail
<1> HIDE DEF a, r
<1>3. s \in Stream /\ H.mode = "header" /\ H.fmt = 3 /\ H.cs[H.csid] = s
    BY DEF AtHeader3
<1>4. C = InMode(H, "lost")
    BY <1>1, <1>3 DEF Step, StepHeader, Wrong3
<1>5. C.mode = "lost" /\ C.delivered = H.delivered
    BY <1>4 DEF InMode, State
<1> HIDE DEF C
<1>6. Run(H, Join(<<a>>, r)) = C
    BY <1>1, <1>5, LostAtFirst DEF C
<1> QED
    BY <1>2, <1>5, <1>6

(* An extension is read as such, or taken for payload.                       *)
LEMMA Ext3 ==
    ASSUME NEW H, NEW c, NEW s, AtHeader3(H, c, s), NEW x \in Unit, x.unit = "ext",
           NEW q \in Seq(Unit), NEW P, P = InPayload(H, read_msg_format3(s, x)),
           NEW F, F = Run(H, Join(<<x>>, q))
    PROVE  /\ Skip3(s, x) => F = Run(P, q)
           /\ ~Skip3(s, x) => F.mode = "lost" /\ F.delivered = H.delivered
<1> DEFINE y == read_msg_format3(s, x)
           C == Step(H, x)
           w == <<x>>
<1>1. s \in Stream /\ H.mode = "header" /\ H.fmt = 3 /\ H.cs[H.csid] = s
    BY DEF AtHeader3
<1>2. ~Wrong3(s, x)
    BY DEF Wrong3
<1>3. w \in Seq(Unit) /\ Run(H, w) = C
    BY RunOne
<1>4. F = Run(C, q)
    <2> HIDE DEF w, C
    <2>1. Run(H, Join(w, q)) = Run(Run(H, w), q)
        BY <1>3, RunJoin
    <2> QED
        BY <1>3, <2>1 DEF w
<1>5. CASE Skip3(s, x)
    <2>1. C = P
        BY <1>1, <1>2, <1>5 DEF Step, StepHeader
    <2> QED
        BY <1>4, <1>5, <2>1
<1>6. CASE ~Skip3(s, x)
    <2>1. C = Take(P, x)
        BY <1>1, <1>2, <1>6 DEF Step, StepHeader
    <2>2. P.mode = "payload" /\ P.delivered = H.delivered
        <3> HIDE DEF y
        <3>1. P = InPayload(H, y)
            BY DEF y
        <3>2. PayloadIn(P, H, c, y)
            BY <1>2, <3>1, Payload3 DEF y
        <3> QED
            BY <3>2 DEF PayloadIn
    <2>3. C = InMode(P, "lost")
        BY <2>1, <2>2 DEF Take
    <2> HIDE DEF C
    <2>4. C.mode = "lost" /\ C.delivered = H.delivered
        BY <2>2, <2>3 DEF InMode, State
    <2>5. Run(C, q) = C
        BY <2>4, RunStays
    <2> QED
        BY <1>4, <1>6, <2>4, <2>5
<1> QED
    BY <1>5, <1>6

(* How the peer's stream t, in a type 3 chunk, follows from the stream as it *)
(* was: within a message, and where a message begins.                        *)
Common3(old, t) ==
  /\ old.opened /\ t.opened /\ old.len > 0 /\ t.len = old.len /\ t.type = old.type
  /\ t.field = old.field /\ t.header = old.header /\ t.ext = old.ext /\ t.last = 3
  /\ t.agreed = old.agreed /\ t.had_ext = old.had_ext

Going3(old, t, o) ==
  /\ Common3(old, t)
  /\ old.left > 0 /\ t.left = old.left /\ t.msg = old.msg /\ t.value = old.value
  /\ t.ts = old.ts /\ t.drifted = old.drifted
  /\ old.ext /\ old.header # 0 => "ext" \in o

Fresh3(old, t, d, o) ==
  /\ Common3(old, t)
  /\ old.left = 0 /\ t.left = t.len
  /\ old.header # 0 => d = old.field
  /\ t.ts = (old.ts + d) % TsWrap
  /\ t.drifted <=> old.drifted \/ (old.last \in {0, 3} /\ d # 0)
  /\ Misled(old) => "ext" \in o

LEMMA Agrees3Going ==
    ASSUME NEW s \in Stream, NEW old \in PeerStream, NEW t \in PeerStream, NEW o, NEW ts, NEW y,
           StreamOf(s, old, o), Going3(old, t, o), Format3Of(y, s, ts)
    PROVE  Agrees(y, t, o) /\ y.chunk_data = Cells(t, 1, t.len - t.left) /\ t.left > 0
<1>1. Agrees(s, old, o) /\ old.left > 0 /\ s.chunk_data = Cells(old, 1, old.len - old.left)
    BY DEF StreamOf, Going3
<1>2. ~begins(s)
    BY <1>1 DEF begins, Agrees
<1>3. /\ t.opened /\ t.len = old.len /\ t.type = old.type /\ t.left = old.left /\ t.field = old.field
      /\ t.header = old.header /\ t.ext = old.ext /\ t.last = 3 /\ t.agreed = old.agreed
      /\ t.had_ext = old.had_ext /\ t.ts = old.ts /\ t.drifted = old.drifted
      /\ t.msg = old.msg /\ t.value = old.value /\ old.opened
    BY DEF Going3, Common3
<1>4. /\ y.fmt = 3 /\ y.known = s.known /\ y.chunk_size = s.chunk_size
      /\ y.ext_ts_flag = s.ext_ts_flag /\ y.timestamp_delta = s.timestamp_delta
      /\ y.msg_len = s.msg_len /\ y.type_id = s.type_id /\ y.timestamp32 = s.timestamp32
      /\ y.remain = s.remain /\ y.chunk_data = s.chunk_data
    BY <1>2 DEF Format3Of
<1>5. Agrees(y, t, o)
    BY <1>1, <1>3, <1>4 DEF Agrees
<1>6. Cells(t, 1, t.len - t.left) = Cells(old, 1, old.len - old.left)
    BY <1>3 DEF Cells
<1> QED
    BY <1>1, <1>3, <1>4, <1>5, <1>6

(* The time where a type 3 chunk begins a message, u being the extension.    *)
LEMMA Time3Fresh ==
    ASSUME NEW s \in Stream, NEW old \in PeerStream, NEW o, NEW u, Agrees(s, old, o), u.ts = old.field
    PROVE  /\ old.last \in {1, 2} => Time3(s, u) = (s.timestamp32 + old.field) % TsWrap
           /\ old.last = 0 /\ ~old.had_ext => Time3(s, u) = s.timestamp32
           /\ old.last = 0 /\ old.ext => Time3(s, u) = s.timestamp32
           /\ old.last = 3 => Time3(s, u) = s.timestamp32
<1>1. /\ s.fmt = old.last /\ (s.ext_ts_flag <=> old.had_ext) /\ (old.ext => old.had_ext)
      /\ (old.header # 0 => s.timestamp_delta = old.field)
      /\ (old.header = 0 /\ old.ext => s.timestamp32 = old.field)
      /\ (old.last # 3 => old.last = old.header)
    BY DEF Agrees
<1>2. s.timestamp32 \in 0 .. TsWrap - 1 /\ TsWrap \in Nat \ {0}
    BY StreamParts, StampsAssumption DEF Stamps
<1>3. (s.timestamp32 + 0) % TsWrap = s.timestamp32
    BY <1>2
<1>4. CASE old.last \in {1, 2}
    <2>1. s.fmt \in {1, 2} /\ s.fmt # 0 /\ s.timestamp_delta = old.field
        BY <1>1, <1>4
    <2>2. delta3(s, u) = old.field
        BY <2>1 DEF delta3
    <2> QED
        BY <1>4, <2>1, <2>2 DEF Time3
<1>5. CASE old.last = 0
    <2>1. s.fmt = 0 /\ old.header = 0
        BY <1>1, <1>5
    <2>2. delta3(s, u) = 0
        BY <2>1 DEF delta3
    <2> QED
        BY <1>1, <1>3, <1>5, <2>1, <2>2 DEF Time3
<1>6. CASE old.last = 3
    <2>1. s.fmt = 3
        BY <1>1, <1>6
    <2>2. delta3(s, u) = 0
        BY <2>1 DEF delta3
    <2> QED
        BY <1>3, <1>6, <2>1, <2>2 DEF Time3
<1>7. old.last \in 0 .. 3
    BY PeerParts
<1> QED
    BY <1>4, <1>5, <1>6, <1>7

LEMMA Agrees3Fresh ==
    ASSUME NEW s \in Stream, NEW old \in PeerStream, NEW t \in PeerStream, NEW o, NEW u, NEW y, NEW d,
           StreamOf(s, old, o), Fresh3(old, t, d, o), Format3Of(y, s, Time3(s, u)), u.ts = old.field
    PROVE  Agrees(y, t, o) /\ y.chunk_data = Cells(t, 1, t.len - t.left) /\ t.left > 0
<1>1. Agrees(s, old, o) /\ old.left = 0
    BY DEF StreamOf, Fresh3
<1>2. begins(s)
    BY <1>1 DEF begins, Agrees
<1>3. /\ t.opened /\ old.len > 0 /\ t.len = old.len /\ t.type = old.type /\ t.left = t.len
      /\ t.field = old.field /\ t.header = old.header /\ t.ext = old.ext /\ t.last = 3
      /\ t.agreed = old.agreed /\ t.had_ext = old.had_ext /\ t.ts = (old.ts + d) % TsWrap
      /\ t.drifted <=> old.drifted \/ (old.last \in {0, 3} /\ d # 0)
      /\ old.opened /\ (old.header # 0 => d = old.field)
      /\ Misled(old) => "ext" \in o
    BY DEF Fresh3, Common3
<1>4. /\ y.fmt = 3 /\ y.known = s.known /\ y.chunk_size = s.chunk_size
      /\ y.ext_ts_flag = s.ext_ts_flag /\ y.timestamp_delta = s.timestamp_delta
      /\ y.msg_len = s.msg_len /\ y.type_id = s.type_id /\ y.timestamp32 = Time3(s, u)
      /\ y.remain = s.msg_len /\ y.chunk_data = <<>>
    BY <1>2 DEF Format3Of
<1> DEFINE time == Time3(s, u)
<1>5. /\ old.last \in {1, 2} => time = (s.timestamp32 + old.field) % TsWrap
      /\ old.last = 0 /\ ~old.had_ext => time = s.timestamp32
      /\ old.last = 0 /\ old.ext => time = s.timestamp32
      /\ old.last = 3 => time = s.timestamp32
    BY <1>1, Time3Fresh
<1>6. y.timestamp32 = time
    BY <1>4
<1> HIDE DEF time
<1>7. old.last \in {0, 1, 2, 3} /\ (old.last # 3 => old.last = old.header) /\ (old.ext => old.had_ext)
    BY <1>1, PeerParts DEF Agrees
<1>8. ~t.drifted /\ ~TimeOdd(o) => y.timestamp32 = t.ts
    <2> HAVE ~t.drifted /\ ~TimeOdd(o)
    <2>1. ~Misled(old) /\ ~old.drifted /\ (old.last \in {0, 3} => d = 0)
        BY <1>3 DEF TimeOdd
    <2>2. s.timestamp32 = old.ts
        BY <1>1, <2>1 DEF Agrees
    <2>3. CASE old.last \in {1, 2}
        BY <1>3, <1>5, <1>6, <1>7, <2>2, <2>3
    <2>4. CASE old.last \in {0, 3}
        <3>1. old.last = 0 => ~old.had_ext \/ old.ext
            BY <2>1 DEF Misled
        <3>2. time = s.timestamp32
            BY <1>5, <2>4, <3>1
        <3>3. old.ts \in 0 .. TsWrap - 1 /\ TsWrap \in Nat \ {0} /\ d = 0
            BY <2>1, <2>4, PeerParts, StampsAssumption DEF Stamps
        <3>4. (old.ts + d) % TsWrap = old.ts
            BY <3>3
        <3> QED
            BY <1>3, <1>6, <2>2, <3>2, <3>4
    <2> QED
        BY <1>7, <2>3, <2>4
<1>9. t.header = 0 /\ t.ext => y.timestamp32 = t.field
    <2> HAVE t.header = 0 /\ t.ext
    <2>1. old.header = 0 /\ old.ext /\ old.last \in {0, 3}
        BY <1>3, <1>7
    <2>2. s.timestamp32 = old.field
        BY <1>1, <2>1 DEF Agrees
    <2> QED
        BY <1>3, <1>5, <1>6, <2>1, <2>2
<1>10. t.left <= t.len
    BY <1>3, PeerParts
<1>11. Agrees(y, t, o)
    BY <1>1, <1>3, <1>4, <1>8, <1>9, <1>10 DEF Agrees
<1>12. t.len - t.left = 0
    BY <1>3, PeerParts
<1> QED
    BY <1>3, <1>4, <1>11, <1>12, NoCells

(* The automaton has got to the payload q of the chunk, or is lost.          *)
TakenUp(F, q, R, c, t, peer, msgs, size, o) ==
  \/ \E P : ReadyFor(P, c, t, peer, msgs, size, o) /\ F = Run(P, q)
  \/ F.mode = "lost" /\ F.delivered = R.delivered /\ o # {}

LEMMA Ready3 ==
    ASSUME NEW R, NEW H, NEW c \in Csids, NEW peer, NEW t, NEW msgs, NEW size, NEW o, NEW P, NEW y,
           Synced(R, peer, msgs, size, o), FoundIs(H, R, 3, c), PayloadIn(P, H, c, y),
           Agrees(y, t, o), y.chunk_data = Cells(t, 1, t.len - t.left), t.left > 0
    PROVE  ReadyFor(P, c, t, peer, msgs, size, o)
<1>1. /\ R.chunk_size = size /\ \A d \in Csids : StreamOf(R.cs[d], peer[d], o)
      /\ Len(R.delivered) = Len(msgs) /\ Matches(R.delivered, msgs, o)
    BY DEF Synced
<1>2. /\ H.chunk_size = R.chunk_size /\ H.delivered = R.delivered
      /\ \A d \in Csids \ {c} : H.cs[d] = R.cs[d]
    BY DEF FoundIs
<1>3. /\ P \in Automaton /\ P.mode = "payload" /\ P.csid = c /\ P.need = require_len(y)
      /\ P.chunk_size = H.chunk_size /\ P.delivered = H.delivered /\ P.cs[c] = y
      /\ \A d \in Csids \ {c} : P.cs[d] = H.cs[d]
    BY DEF PayloadIn
<1>4. \A d \in Csids \ {c} : StreamOf(P.cs[d], peer[d], o)
    BY <1>1, <1>2, <1>3
<1> QED
    BY <1>1, <1>2, <1>3, <1>4 DEF ReadyFor

(* The stream a type 3 chunk finds.                                          *)
LEMMA Found3 ==
    ASSUME NEW R \in Automaton, NEW c \in Csids, NEW peer \in [Csids -> PeerStream], NEW msgs, NEW size,
           NEW o, Synced(R, peer, msgs, size, o), peer[c].opened, peer[c].len > 0,
           NEW H, H = Found(R, 3, c), NEW s, s = R.cs[c]
    PROVE  FoundIs(H, R, 3, c) /\ AtHeader3(H, c, s) /\ StreamOf(s, peer[c], o)
<1>1. 3 \in 0 .. 3 /\ s \in Stream /\ StreamOf(s, peer[c], o)
    BY AutomatonParts DEF Synced
<1>2. FoundIs(H, R, 3, c)
    BY <1>1, FoundParts
<1>3. s.known /\ s.msg_len > 0
    BY <1>1 DEF StreamOf, Agrees
<1>4. Lookup(s, 3, R.chunk_size) = s
    BY <1>3 DEF Lookup
<1> QED
    BY <1>1, <1>2, <1>3, <1>4 DEF FoundIs, AtHeader3

LEMMA ExtensionIs ==
    ASSUME NEW t \in PeerStream
    PROVE  \E x \in Unit : /\ x.unit = "ext" /\ x.ts = t.field
                           /\ extension(t) = IF t.ext THEN <<x>> ELSE <<>>
<1> DEFINE v == t.field
           x == [unit |-> "ext", ts |-> v]
<1>1. v \in Stamps
    BY PeerParts
<1>2. extension(t) = IF t.ext THEN <<x>> ELSE <<>>
    BY DEF extension
<1> HIDE DEF v
<1>3. x \in Unit /\ x.unit = "ext" /\ x.ts = v
    BY <1>1 DEF Unit
<1> HIDE DEF x
<1> QED
    BY <1>2, <1>3 DEF v

(* A type 3 chunk within a message.                                          *)
LEMMA Going3Read ==
    ASSUME NEW R \in Automaton, NEW c \in Csids, NEW peer \in [Csids -> PeerStream], NEW msgs, NEW size,
           NEW o, Synced(R, peer, msgs, size, o), NEW t \in PeerStream, Going3(peer[c], t, o),
           NEW q \in Seq(Cell), q # <<>>,
           NEW H, H = Found(R, 3, c), NEW F, F = Run(H, Join(extension(peer[c]), q))
    PROVE  TakenUp(F, q, R, c, t, peer, msgs, size, o)
<1> DEFINE old == peer[c]
           s == R.cs[c]
<1>1. old \in PeerStream /\ old.opened /\ old.len > 0
    BY DEF Going3, Common3
<1>2. FoundIs(H, R, 3, c) /\ AtHeader3(H, c, s) /\ StreamOf(s, old, o)
    BY <1>1, Found3
<1>3. PICK x \in Unit : /\ x.unit = "ext" /\ x.ts = old.field
                        /\ extension(old) = IF old.ext THEN <<x>> ELSE <<>>
    BY <1>1, ExtensionIs
<1> HIDE DEF old, s
<1> DEFINE y == read_msg_format3(s, x)
           P == InPayload(H, y)
<1>4. s \in Stream /\ H.delivered = R.delivered
    BY <1>2 DEF AtHeader3, FoundIs
<1>5. ~begins(s) /\ s.remain = old.left /\ (s.ext_ts_flag <=> old.had_ext) /\ (old.ext => old.had_ext)
      /\ (old.header = 0 /\ old.ext => s.timestamp32 = old.field)
    BY <1>2 DEF begins, StreamOf, Agrees, Going3, old
<1>6. ~Wrong3(s, x)
    BY <1>5 DEF Wrong3
<1>7. ReadyFor(P, c, t, peer, msgs, size, o)
    <2>1. Format3Of(y, s, Time3(s, x))
        BY <1>4, <1>6, Format3Parts
    <2>2. Agrees(y, t, o) /\ y.chunk_data = Cells(t, 1, t.len - t.left) /\ t.left > 0
        <3> DEFINE ts == Time3(s, x)
        <3> HIDE DEF y, ts
        <3>1. Format3Of(y, s, ts)
            BY <2>1 DEF ts
        <3> QED
            BY <1>1, <1>2, <1>4, <3>1, Agrees3Going DEF old
    <2>3. PayloadIn(P, H, c, y)
        BY <1>2, <1>6, Payload3
    <2> HIDE DEF y, P
    <2> QED
        BY <1>2, <2>2, <2>3, Ready3
<1>8. CASE ~old.ext
    <2>1. Join(extension(old), q) = q
        BY <1>3, <1>8, CellsAreUnits, JoinEmpty
    <2>2. Run(H, q) = Run(P, q)
        BY <1>2, <1>5, Cells3
    <2>3. F = Run(P, q)
        BY <2>1, <2>2 DEF old
    <2> HIDE DEF P
    <2> QED
        BY <1>7, <2>3 DEF TakenUp
<1>9. CASE old.ext
    <2>1. q \in Seq(Unit) /\ F = Run(H, Join(<<x>>, q))
        BY <1>3, <1>9, CellsAreUnits DEF old
    <2>2. /\ Skip3(s, x) => F = Run(P, q)
          /\ ~Skip3(s, x) => F.mode = "lost" /\ F.delivered = H.delivered
        BY <1>2, <1>3, <2>1, Ext3
    <2> HIDE DEF P
    <2>3. CASE Skip3(s, x)
        BY <1>7, <2>2, <2>3 DEF TakenUp
    <2>4. CASE ~Skip3(s, x)
        <3>1. takes_ext(s)
            BY <1>5, <1>9 DEF takes_ext
        <3>2. x.ts # s.timestamp32
            BY <1>3, <2>4, <3>1 DEF Skip3
        <3>3. old.header # 0
            BY <1>3, <1>5, <1>9, <3>2
        <3>4. "ext" \in o
            BY <1>9, <3>3 DEF Going3, old
        <3> QED
            BY <1>4, <2>2, <2>4, <3>4 DEF TakenUp
    <2> QED
        BY <2>3, <2>4
<1> QED
    BY <1>8, <1>9

(* A type 3 chunk that begins a message.                                     *)
LEMMA Fresh3Read ==
    ASSUME NEW R \in Automaton, NEW c \in Csids, NEW peer \in [Csids -> PeerStream], NEW msgs, NEW size,
           NEW o, Synced(R, peer, msgs, size, o), NEW t \in PeerStream, NEW d, Fresh3(peer[c], t, d, o),
           NEW q \in Seq(Cell), q # <<>>,
           NEW H, H = Found(R, 3, c), NEW F, F = Run(H, Join(extension(peer[c]), q))
    PROVE  TakenUp(F, q, R, c, t, peer, msgs, size, o)
<1> DEFINE old == peer[c]
           s == R.cs[c]
<1>1. old \in PeerStream /\ old.opened /\ old.len > 0
    BY DEF Fresh3, Common3
<1>2. FoundIs(H, R, 3, c) /\ AtHeader3(H, c, s) /\ StreamOf(s, old, o)
    BY <1>1, Found3
<1>3. PICK x \in Unit : /\ x.unit = "ext" /\ x.ts = old.field
                        /\ extension(old) = IF old.ext THEN <<x>> ELSE <<>>
    BY <1>1, ExtensionIs
<1> HIDE DEF old, s
<1> DEFINE y == read_msg_format3(s, x)
           P == InPayload(H, y)
<1>4. s \in Stream /\ H.delivered = R.delivered
    BY <1>2 DEF AtHeader3, FoundIs
<1>5. begins(s) /\ (s.ext_ts_flag <=> old.had_ext) /\ (old.ext => old.had_ext)
      /\ s.fmt = old.last /\ (Misled(old) => "ext" \in o)
    BY <1>2 DEF begins, StreamOf, Agrees, Fresh3, old
<1>6. ~Wrong3(s, x)
    BY <1>3 DEF Wrong3
<1>7. ReadyFor(P, c, t, peer, msgs, size, o)
    <2>1. Format3Of(y, s, Time3(s, x))
        BY <1>4, <1>6, Format3Parts
    <2>2. Agrees(y, t, o) /\ y.chunk_data = Cells(t, 1, t.len - t.left) /\ t.left > 0
        <3> HIDE DEF y
        <3> QED
            BY <1>1, <1>2, <1>3, <1>4, <2>1, Agrees3Fresh DEF old
    <2>3. PayloadIn(P, H, c, y)
        BY <1>2, <1>6, Payload3
    <2> HIDE DEF y, P
    <2> QED
        BY <1>2, <2>2, <2>3, Ready3
<1>8. CASE ~old.ext
    <2>1. Join(extension(old), q) = q
        BY <1>3, <1>8, CellsAreUnits, JoinEmpty
    <2>2. F = Run(H, q)
        BY <2>1 DEF old
    <2>3. CASE takes_ext(s)
        <3>1. F.mode = "lost" /\ F.delivered = H.delivered
            BY <1>2, <1>5, <2>2, <2>3, Cells3Wrong
        <3>2. "ext" \in o
            BY <1>5, <1>8, <2>3 DEF takes_ext, Misled
        <3> QED
            BY <1>4, <3>1, <3>2 DEF TakenUp
    <2>4. CASE ~takes_ext(s)
        <3>1. Run(H, q) = Run(P, q)
            BY <1>2, <2>4, Cells3
        <3> HIDE DEF P
        <3> QED
            BY <1>7, <2>2, <3>1 DEF TakenUp
    <2> QED
        BY <2>3, <2>4
<1>9. CASE old.ext
    <2>1. q \in Seq(Unit) /\ F = Run(H, Join(<<x>>, q))
        BY <1>3, <1>9, CellsAreUnits DEF old
    <2>2. /\ Skip3(s, x) => F = Run(P, q)
          /\ ~Skip3(s, x) => F.mode = "lost" /\ F.delivered = H.delivered
        BY <1>2, <1>3, <2>1, Ext3
    <2> HIDE DEF P
    <2>3. CASE Skip3(s, x)
        BY <1>7, <2>2, <2>3 DEF TakenUp
    <2>4. CASE ~Skip3(s, x)
        <3>1. ~takes_ext(s)
            BY <1>3, <1>5, <2>4 DEF Skip3
        <3>2. "ext" \in o
            BY <1>5, <1>9, <3>1 DEF takes_ext, Misled
        <3> QED
            BY <1>4, <2>2, <2>4, <3>2 DEF TakenUp
    <2> QED
        BY <2>3, <2>4
<1> QED
    BY <1>8, <1>9

-----------------------------------------------------------------------------
(* One chunk of the peer.                                                    *)

Good(R, peer, msgs, size, o) == Synced(R, peer, msgs, size, o) \/ Astray(R, msgs, o)

(* What is odd only excuses more.                                            *)
LEMMA GoodGrows ==
    ASSUME NEW R, NEW peer, NEW msgs, NEW size, NEW o, NEW o2, o \subseteq o2,
           Good(R, peer, msgs, size, o)
    PROVE  Good(R, peer, msgs, size, o2)
<1>1. TimeOdd(o) => TimeOdd(o2)
    BY DEF TimeOdd
<1>2. Matches(R.delivered, msgs, o) => Matches(R.delivered, msgs, o2)
    BY <1>1 DEF Matches, Match
<1>3. CASE Synced(R, peer, msgs, size, o)
    <2>1. \A c \in Csids : StreamOf(R.cs[c], peer[c], o2)
        <3> TAKE c \in Csids
        <3>1. StreamOf(R.cs[c], peer[c], o)
            BY <1>3 DEF Synced
        <3>2. Agrees(R.cs[c], peer[c], o2)
            BY <1>1, <3>1 DEF StreamOf, Agrees
        <3> QED
            BY <3>1, <3>2 DEF StreamOf
    <2> QED
        BY <1>2, <1>3, <2>1 DEF Synced, Good
<1>4. CASE Astray(R, msgs, o)
    <2>1. o2 # {}
        BY <1>4 DEF Astray
    <2> QED
        BY <1>2, <1>4, <2>1 DEF Astray, Good
<1> QED
    BY <1>3, <1>4 DEF Good

(* A reader that is astray is lost at the next basic header.                 *)
LEMMA AstrayIsLost ==
    ASSUME NEW R, R.mode \in {"payload", "lost"}, NEW s \in Seq(Unit), s # <<>>, Head(s).unit = "basic",
           NEW F, F = Run(R, s)
    PROVE  F.mode = "lost" /\ F.delivered = R.delivered
<1> DEFINE b == Head(s)
           r == Tail(s)
           C == Step(R, b)
<1>1. b \in Unit /\ r \in Seq(Unit) /\ F = Run(C, r) /\ b.unit # "cell"
    BY HeadAndTail, RunHead
<1>2. C.mode = "lost" /\ C.delivered = R.delivered
    <2>1. CASE R.mode = "payload"
        <3>1. C = InMode(R, "lost")
            BY <1>1, <2>1 DEF Step, Take
        <3> QED
            BY <3>1 DEF InMode, State
    <2>2. CASE R.mode = "lost"
        <3>1. C = R
            BY <2>2 DEF Step
        <3> QED
            BY <2>2, <3>1
    <2> QED
        BY <2>1, <2>2
<1> HIDE DEF C, r
<1>3. Run(C, r) = C
    BY <1>1, <1>2, RunStays
<1> QED
    BY <1>1, <1>2, <1>3

LEMMA JoinHead ==
    ASSUME NEW s \in Seq(Unit), s # <<>>, NEW t \in Seq(Unit)
    PROVE  Join(s, t) \in Seq(Unit) /\ Join(s, t) # <<>> /\ Head(Join(s, t)) = Head(s)
BY DEF Join

LEMMA DeliveredMore ==
    ASSUME NEW F, NEW R \in Automaton, NEW msgs \in Seq(Message), NEW o, NEW m,
           F.mode = "lost", F.delivered = R.delivered, o # {}, Matches(R.delivered, msgs, o)
    PROVE  Astray(F, msgs, o) /\ Astray(F, Append(msgs, m), o)
<1>1. Len(R.delivered) \in Nat
    BY AutomatonParts
<1>2. Matches(R.delivered, Append(msgs, m), o)
    BY <1>1, MatchesMore
<1> QED
    BY <1>2 DEF Astray

(* What a chunk leaves behind: u is the stream t after it.                   *)
ChunkGood(F, c, t, u, peer2, msgs, size, o) ==
  /\ u.left > 0 => Good(F, peer2, msgs, size, o)
  /\ u.left = 0 => Good(F, peer2, Append(msgs, SentMessage(c, t)), NextSize(t, size), o)

(* The chunk of the stream t has n cells.                                    *)
LEMMA OneChunk ==
    ASSUME NEW R \in Automaton, NEW c \in Csids, NEW t \in PeerStream, NEW peer \in [Csids -> PeerStream],
           NEW msgs \in Seq(Message), NEW size, NEW o, Good(R, peer, msgs, size, o),
           NEW n \in Nat, n > 0, n <= t.left, t.left <= t.len, n # Smaller(t.left, t.agreed) => o # {},
           NEW prefix \in Seq(Unit), prefix # <<>>, Head(prefix).unit = "basic",
           NEW q, q = Payload(t, n), NEW F, F = Run(R, Join(prefix, q)),
           Synced(R, peer, msgs, size, o) => TakenUp(F, q, R, c, t, peer, msgs, size, o),
           NEW u, u = [t EXCEPT !.left = t.left - n],
           NEW peer2, peer2 = [peer EXCEPT ![c] = u]
    PROVE  ChunkGood(F, c, t, u, peer2, msgs, size, o)
<1> SUFFICES /\ u.left > 0 => Good(F, peer2, msgs, size, o)
             /\ u.left = 0 => Good(F, peer2, Append(msgs, SentMessage(c, t)), NextSize(t, size), o)
    BY DEF ChunkGood
<1> DEFINE m == SentMessage(c, t)
<1>1. q \in Seq(Unit)
    BY PayloadIs, CellsAreUnits
<1>2. SUFFICES ASSUME ~(F.mode = "lost" /\ F.delivered = R.delivered /\ o # {})
               PROVE  /\ u.left > 0 => Good(F, peer2, msgs, size, o)
                      /\ u.left = 0 => Good(F, peer2, Append(msgs, m), NextSize(t, size), o)
    <2>1. Matches(R.delivered, msgs, o)
        BY DEF Good, Synced, Astray
    <2> HIDE DEF m
    <2>2. CASE F.mode = "lost" /\ F.delivered = R.delivered /\ o # {}
        <3>1. Astray(F, msgs, o) /\ Astray(F, Append(msgs, m), o)
            BY <2>1, <2>2, DeliveredMore
        <3> QED
            BY <3>1 DEF Good, m
    <2> QED
        BY <2>2 DEF m
<1> HIDE DEF m
<1>3. Synced(R, peer, msgs, size, o)
    <2>1. CASE Astray(R, msgs, o)
        <3> DEFINE w == Join(prefix, q)
        <3>1. w \in Seq(Unit) /\ w # <<>> /\ Head(w).unit = "basic"
            BY <1>1, JoinHead
        <3> HIDE DEF w
        <3>2. F = Run(R, w) /\ R.mode \in {"payload", "lost"} /\ o # {}
            BY <2>1 DEF w, Astray
        <3>3. F.mode = "lost" /\ F.delivered = R.delivered
            BY <3>1, <3>2, AstrayIsLost
        <3> QED
            BY <1>2, <3>2, <3>3
    <2> QED
        BY <2>1 DEF Good
<1>4. PICK P : ReadyFor(P, c, t, peer, msgs, size, o) /\ F = Run(P, q)
    BY <1>2, <1>3 DEF TakenUp
<1>5. F = Run(P, Payload(t, n))
    BY <1>4
<1>6. CASE n = Smaller(t.left, t.agreed)
    <2>1. ReadyFor(P, c, t, peer, msgs, size, o)
        BY <1>4
    <2>2. ChunkSynced(F, c, t, u, n, peer2, msgs, size, o)
        BY <1>5, <1>6, <2>1, ChunkRead
    <2> QED
        BY <2>2 DEF Good, m, ChunkSynced
<1>7. CASE n # Smaller(t.left, t.agreed)
    <2>1. Astray(F, msgs, o) /\ o # {}
        BY <1>4, <1>5, <1>7, ChunkMisread
    <2>2. P \in Automaton
        BY <1>4 DEF ReadyFor
    <2>3. F \in Automaton
        BY <1>1, <1>4, <2>2, RunType
    <2>4. Len(F.delivered) \in Nat /\ Matches(F.delivered, msgs, o)
        BY <2>1, <2>3, AutomatonParts DEF Astray
    <2>5. Matches(F.delivered, Append(msgs, m), o)
        BY <2>4, MatchesMore
    <2> QED
        BY <2>1, <2>5 DEF Good, Astray
<1> QED
    BY <1>6, <1>7

-----------------------------------------------------------------------------
(* The steps of the peer.                                                    *)

LEMMA PeerStep ==
    ASSUME Inv, TypeOK', PeerOK', recv' = recv, rd' = rd, cs' = cs, delivered' = delivered,
           NEW w \in Seq(Unit), wire' = Join(wire, w),
           Good(Run(Run(Now, Pending), w), tx', sent', announced', odd')
    PROVE  Inv'
<1>1. TypeOK /\ PhasesOK /\ recv \in Seq(Unit) /\ wire \in Seq(Unit) /\ Pending \in Seq(Unit)
    BY NowType DEF Inv, TypeOK
<1>2. Now' = Now
    BY DEF Now
<1>3. Pending' = Join(Pending, w)
    BY <1>1, JoinIsAssociative DEF Pending
<1>4. Run(Now, Join(Pending, w)) = Run(Run(Now, Pending), w)
    BY <1>1, RunJoin
<1>5. PhasesOK'
    BY <1>1 DEF PhasesOK
<1>6. Good(Run(Now', Pending'), tx', sent', announced', odd')
    BY <1>2, <1>3, <1>4
<1> QED
    BY <1>5, <1>6 DEF Inv, Good

(* The size the reader will have after one more message.                     *)
LastIn(msgs, type) ==
  \E i \in 1 .. Len(msgs) :
    /\ msgs[i].type = type
    /\ \A j \in i + 1 .. Len(msgs) : msgs[j].type = "other"

LEMMA LastInNext ==
    ASSUME NEW msgs \in Seq(Message), NEW m, NEW type \in Types, type # "other"
    PROVE  /\ m.type = type => LastIn(Append(msgs, m), type)
           /\ m.type = "other" => (LastIn(Append(msgs, m), type) <=> LastIn(msgs, type))
           /\ m.type # "other" /\ m.type # type => ~LastIn(Append(msgs, m), type)
<1> DEFINE w == Append(msgs, m)
           k == Len(msgs)
<1>1. k \in Nat /\ Len(w) = k + 1 /\ w[k + 1] = m /\ \A i \in 1 .. k : w[i] = msgs[i]
    OBVIOUS
<1> HIDE DEF w, k
<1>2. ASSUME m.type = type PROVE LastIn(w, type)
    <2>1. k + 1 \in 1 .. Len(w) /\ (k + 1) + 1 .. Len(w) = {}
        BY <1>1
    <2> QED
        BY <1>1, <1>2, <2>1 DEF LastIn
<1>3. ASSUME m.type = "other" PROVE LastIn(w, type) <=> LastIn(msgs, type)
    <2>1. ASSUME LastIn(w, type) PROVE LastIn(msgs, type)
        <3>1. PICK i \in 1 .. k + 1 : w[i].type = type /\ \A j \in i + 1 .. k + 1 : w[j].type = "other"
            BY <1>1, <2>1 DEF LastIn
        <3>2. i \in 1 .. k
            BY <1>1, <1>3, <3>1
        <3>3. \A j \in i + 1 .. k : j \in i + 1 .. k + 1 /\ j \in 1 .. k
            BY <1>1, <3>2
        <3>4. msgs[i].type = type /\ \A j \in i + 1 .. k : msgs[j].type = "other"
            BY <1>1, <3>1, <3>2, <3>3
        <3> QED
            BY <3>2, <3>4 DEF LastIn, k
    <2>2. ASSUME LastIn(msgs, type) PROVE LastIn(w, type)
        <3>1. PICK i \in 1 .. k : msgs[i].type = type /\ \A j \in i + 1 .. k : msgs[j].type = "other"
            BY <2>2 DEF LastIn, k
        <3>2. i \in 1 .. k + 1 /\ w[i].type = type
            BY <1>1, <3>1
        <3>3. ASSUME NEW j \in i + 1 .. k + 1 PROVE w[j].type = "other"
            <4>1. CASE j = k + 1
                BY <1>1, <1>3, <4>1
            <4>2. CASE j # k + 1
                <5>1. j \in i + 1 .. k /\ j \in 1 .. k
                    BY <1>1, <4>2
                <5> QED
                    BY <1>1, <3>1, <5>1
            <4> QED
                BY <4>1, <4>2
        <3> QED
            BY <1>1, <3>2, <3>3 DEF LastIn
    <2> QED
        BY <2>1, <2>2
<1>4. ASSUME m.type # "other", m.type # type, LastIn(w, type) PROVE FALSE
    <2>1. PICK i \in 1 .. k + 1 : w[i].type = type /\ \A j \in i + 1 .. k + 1 : w[j].type = "other"
        BY <1>1, <1>4 DEF LastIn
    <2>2. i # k + 1
        BY <1>1, <1>4, <2>1
    <2>3. k + 1 \in i + 1 .. k + 1
        BY <1>1, <2>2
    <2> QED
        BY <1>1, <1>4, <2>1, <2>3
<1> QED
    BY <1>2, <1>3, <1>4 DEF w

LEMMA AnnouncedNext ==
    ASSUME sent \in Seq(Message), NEW c, NEW t \in PeerStream, Completed(c, t)
    PROVE  announced' = NextSize(t, announced) /\ sent' = Append(sent, SentMessage(c, t))
<1> DEFINE m == SentMessage(c, t)
<1>1. sent' = Append(sent, m) /\ tx_size' = (IF t.type = "size" THEN t.value ELSE tx_size)
    BY DEF Completed, SentMessage
<1>2. m.type = t.type /\ t.type \in Types
    BY PeerParts DEF SentMessage
<1> HIDE DEF m
<1>3. announced = IF LastIn(sent, "connect") THEN g_config_chunk_size
                  ELSE IF LastIn(sent, "size") THEN tx_size ELSE CHUNK_DEF_SIZE
    BY DEF announced, LastControl, LastIn
<1>4. announced' = IF LastIn(sent', "connect") THEN g_config_chunk_size
                   ELSE IF LastIn(sent', "size") THEN tx_size' ELSE CHUNK_DEF_SIZE
    BY DEF announced, LastControl, LastIn
<1>5. /\ m.type = "connect" => LastIn(sent', "connect")
      /\ m.type = "other" => (LastIn(sent', "connect") <=> LastIn(sent, "connect"))
      /\ m.type # "other" /\ m.type # "connect" => ~LastIn(sent', "connect")
    <2>1. "connect" \in Types /\ "connect" # "other"
        BY DEF Types
    <2> QED
        BY <1>1, <2>1, LastInNext
<1>6. /\ m.type = "size" => LastIn(sent', "size")
      /\ m.type = "other" => (LastIn(sent', "size") <=> LastIn(sent, "size"))
      /\ m.type # "other" /\ m.type # "size" => ~LastIn(sent', "size")
    <2>1. "size" \in Types /\ "size" # "other"
        BY DEF Types
    <2> QED
        BY <1>1, <2>1, LastInNext
<1>7. announced' = NextSize(t, announced)
    <2>1. CASE t.type = "connect"
        BY <1>2, <1>4, <1>5, <2>1 DEF NextSize
    <2>2. CASE t.type = "size"
        BY <1>1, <1>2, <1>4, <1>5, <1>6, <2>2 DEF NextSize
    <2>3. CASE t.type = "other"
        BY <1>1, <1>2, <1>3, <1>4, <1>5, <1>6, <2>3 DEF NextSize
    <2> QED
        BY <1>2, <2>1, <2>2, <2>3 DEF Types
<1> QED
    BY <1>1, <1>7 DEF m

LEMMA SentIsMessage ==
    ASSUME NEW c \in Csids, NEW t \in PeerStream
    PROVE  SentMessage(c, t) \in Message
<1> DEFINE data == Cells(t, 1, t.len)
<1>1. t.len \in Nat /\ t.type \in Types /\ t.ts \in Stamps /\ t.drifted \in BOOLEAN
    BY PeerParts
<1>2. data \in Seq(Cell)
    BY <1>1, FirstCells
<1> HIDE DEF data
<1>3. SentMessage(c, t) = [csid |-> c, type |-> t.type, ts |-> t.ts, drifted |-> t.drifted, data |-> data]
    BY DEF SentMessage, data
<1> QED
    BY <1>1, <1>2, <1>3 DEF Message

Oddities == {"size", "split", "ext", "truncated"}

(* One chunk is sent.                                                        *)
LEMMA SendPayloadKeepsInv ==
    ASSUME Inv, NEW c \in Csids, NEW t \in PeerStream, t.left > 0, t.left <= t.len,
           NEW prefix \in Seq(Unit), prefix # <<>>, Head(prefix).unit = "basic",
           NEW harm \in SUBSET Oddities, SendPayload(c, t, prefix, harm),
           NEW R, R = Run(Now, Pending), harm \subseteq odd',
           \A q \in Seq(Cell) : q # <<>> /\ Synced(R, tx, sent, announced, odd')
              => TakenUp(Run(R, Join(prefix, q)), q, R, c, t, tx, sent, announced, odd')
    PROVE  Inv'
<1> DEFINE n == Smaller(t.left, tx_size)
           q == Payload(t, n)
           u == [t EXCEPT !.left = t.left - n]
           w == Join(prefix, q)
           F == Run(R, w)
<1>1. TypeOK /\ PeerOK /\ Good(R, tx, sent, announced, odd)
    BY DEF Inv, Good
<1>2. tx \in [Csids -> PeerStream] /\ sent \in Seq(Message) /\ wire \in Seq(Unit)
    BY <1>1 DEF TypeOK
<1>3. R \in Automaton
    BY <1>1, NowType, RunType
<1>4. n \in Nat /\ n > 0 /\ n <= t.left /\ t.left \in Nat /\ t.len \in Nat /\ t.left - n \in Nat
    BY <1>1, PeerParts, SizesAreNat DEF Smaller, TypeOK
<1>5. /\ tx' = [tx EXCEPT ![c] = u]
      /\ odd' = odd \cup harm \cup (IF n # Smaller(t.left, t.agreed) THEN {"size"} ELSE {})
      /\ recv' = recv /\ rd' = rd /\ cs' = cs /\ delivered' = delivered
    BY DEF SendPayload
<1>6. IF u.left > 0 THEN sent' = sent /\ tx_size' = tx_size ELSE Completed(c, t)
    BY DEF SendPayload
<1>7. wire' = (wire \o prefix) \o q
    <2>1. (t.len - t.left + 1) + n - 1 = t.len - t.left + n
        BY <1>4
    <2> QED
        BY <2>1 DEF SendPayload, Payload
<1> HIDE DEF n
<1>8. q \in Seq(Cell) /\ q # <<>> /\ q \in Seq(Unit)
    <2>1. q \in Seq(Cell) /\ Len(q) = n
        BY <1>4, PayloadIs
    <2> HIDE DEF q
    <2> QED
        BY <1>4, <2>1, CellsAreUnits
<1>9. u \in PeerStream /\ u.left = t.left - n /\ u.len = t.len
    BY <1>4, LeftParts
<1> HIDE DEF q, u
<1>10. w \in Seq(Unit) /\ wire' = Join(wire, w)
    BY <1>2, <1>7, <1>8, JoinIsUnits, JoinIsAssociative DEF Join
<1>11. odd \subseteq odd' /\ (n # Smaller(t.left, t.agreed) => odd' # {})
    BY <1>5
<1>12. Good(R, tx, sent, announced, odd')
    BY <1>1, <1>11, GoodGrows
<1>13. /\ u.left > 0 => Good(F, tx', sent, announced, odd')
       /\ u.left = 0 => Good(F, tx', Append(sent, SentMessage(c, t)), NextSize(t, announced), odd')
    <2>1. Synced(R, tx, sent, announced, odd')
            => TakenUp(F, q, R, c, t, tx, sent, announced, odd')
        BY <1>8
    <2> DEFINE o == odd'
               tx2 == tx'
               z == announced
    <2>2. /\ Good(R, tx, sent, z, o) /\ (n # Smaller(t.left, t.agreed) => o # {})
          /\ (Synced(R, tx, sent, z, o) => TakenUp(F, q, R, c, t, tx, sent, z, o))
          /\ tx2 = [tx EXCEPT ![c] = u]
        BY <1>5, <1>11, <1>12, <2>1
    <2>3. q = Payload(t, n) /\ u = [t EXCEPT !.left = t.left - n] /\ F = Run(R, Join(prefix, q))
        BY DEF q, u
    <2> HIDE DEF o, tx2, z, F
    <2>4. ChunkGood(F, c, t, u, tx2, sent, z, o)
        BY <1>2, <1>3, <1>4, <2>2, <2>3, OneChunk
    <2> QED
        BY <2>4 DEF o, tx2, z, ChunkGood
<1>14. u.left \in Nat
    BY <1>4, <1>9
<1>15. Good(F, tx', sent', announced', odd') /\ sent' \in Seq(Message) /\ tx_size' \in Sizes
    <2>1. CASE u.left > 0
        <3>1. sent' = sent /\ tx_size' = tx_size
            BY <1>6, <2>1
        <3>2. announced' = announced
            BY <3>1 DEF announced, LastControl
        <3> QED
            BY <1>1, <1>2, <1>13, <2>1, <3>1, <3>2 DEF TypeOK
    <2>2. CASE u.left = 0
        <3>1. Completed(c, t)
            BY <1>6, <2>2
        <3>2. announced' = NextSize(t, announced) /\ sent' = Append(sent, SentMessage(c, t))
            BY <1>2, <3>1, AnnouncedNext
        <3>3. SentMessage(c, t) \in Message
            BY SentIsMessage
        <3>4. tx_size' \in Sizes
            BY <1>1, <3>1, PeerParts DEF Completed, TypeOK
        <3> QED
            BY <1>2, <1>13, <2>2, <3>2, <3>3, <3>4
    <2> QED
        BY <1>14, <2>1, <2>2
<1>16. TypeOK'
    <2>1. tx' \in [Csids -> PeerStream]
        BY <1>2, <1>5, <1>9
    <2>2. odd' \in SUBSET Oddities
        BY <1>1, <1>5 DEF TypeOK, Oddities
    <2>3. wire' \in Seq(Unit)
        BY <1>2, <1>10, JoinIsUnits
    <2> QED
        BY <1>1, <1>5, <1>15, <2>1, <2>2, <2>3 DEF TypeOK, Oddities
<1>17. PeerOK'
    BY <1>1, <1>2, <1>4, <1>5, <1>9 DEF PeerOK
<1> HIDE DEF w
<1>18. Good(Run(Run(Now, Pending), w), tx', sent', announced', odd')
    BY <1>15
<1> QED
    BY <1>5, <1>10, <1>16, <1>17, <1>18, PeerStep

LEMMA ExtensionUnits ==
    ASSUME NEW t \in PeerStream
    PROVE  extension(t) \in Seq(Unit)
<1>1. PICK x \in Unit : extension(t) = IF t.ext THEN <<x>> ELSE <<>>
    BY ExtensionIs
<1>2. <<x>> \in Seq(Unit) /\ <<>> \in Seq(Unit)
    OBVIOUS
<1> QED
    BY <1>1, <1>2, Zenon

(* A type 3 chunk up to its payload.                                         *)
LEMMA Prefix3 ==
    ASSUME NEW R \in Automaton, R.mode = "idle", NEW c \in Csids, NEW old \in PeerStream,
           NEW q \in Seq(Unit), NEW prefix, prefix = basic(c, 3) \o extension(old)
    PROVE  Run(R, Join(prefix, q)) = Run(Found(R, 3, c), Join(extension(old), q))
<1> DEFINE b == basic(c, 3)
           e == extension(old)
<1>1. 3 \in 0 .. 3
    OBVIOUS
<1>2. b \in Seq(Unit) /\ Run(R, b) = Found(R, 3, c)
    BY <1>1, BasicUnits, BasicRead
<1>3. e \in Seq(Unit)
    BY ExtensionUnits
<1>4. prefix = Join(b, e)
    BY DEF Join
<1> HIDE DEF b, e
<1>5. Join(e, q) \in Seq(Unit) /\ Join(prefix, q) = Join(b, Join(e, q))
    <2>1. Join(e, q) \in Seq(Unit)
        BY <1>3, JoinIsUnits
    <2>2. Join(Join(b, e), q) = Join(b, Join(e, q))
        BY <1>2, <1>3, JoinIsAssociative
    <2> QED
        BY <1>4, <2>1, <2>2
<1>6. Run(R, Join(b, Join(e, q))) = Run(Run(R, b), Join(e, q))
    BY <1>2, <1>5, RunJoin
<1> QED
    BY <1>2, <1>5, <1>6 DEF e

LEMMA Prefix3Units ==
    ASSUME NEW c \in Csids, NEW old \in PeerStream, NEW prefix, prefix = basic(c, 3) \o extension(old)
    PROVE  prefix \in Seq(Unit) /\ prefix # <<>> /\ Head(prefix).unit = "basic"
<1> DEFINE b == basic(c, 3)
           e == extension(old)
<1>1. 3 \in 0 .. 3
    OBVIOUS
<1>2. b \in Seq(Unit) /\ b # <<>> /\ Head(b).unit = "basic"
    BY <1>1, BasicUnits
<1>3. e \in Seq(Unit)
    BY ExtensionUnits
<1>4. prefix = Join(b, e)
    BY DEF Join
<1> HIDE DEF b, e
<1> QED
    BY <1>2, <1>3, <1>4, JoinHead

LEMMA LastParts ==
    ASSUME NEW t \in PeerStream, NEW k \in 0 .. 3, NEW u, u = [t EXCEPT !.last = k]
    PROVE  /\ u \in PeerStream
           /\ u.opened = t.opened /\ u.msg = t.msg /\ u.len = t.len /\ u.left = t.left /\ u.type = t.type
           /\ u.value = t.value /\ u.ts = t.ts /\ u.field = t.field /\ u.header = t.header
           /\ u.ext = t.ext /\ u.last = k /\ u.agreed = t.agreed /\ u.had_ext = t.had_ext
           /\ u.drifted = t.drifted
BY DEF PeerStream

(* A message is continued.                                                   *)
LEMMA GoesOn ==
    ASSUME NEW old \in PeerStream, old.opened, old.left > 0, old.left <= old.len, NEW o,
           old.ext /\ old.header # 0 => "ext" \in o, NEW t, t = [old EXCEPT !.last = 3]
    PROVE  t \in PeerStream /\ Going3(old, t, o) /\ t.left > 0 /\ t.left <= t.len
<1> DEFINE k == 3
<1>1. k \in 0 .. 3 /\ t = [old EXCEPT !.last = k]
    OBVIOUS
<1> HIDE DEF k
<1>2. /\ t \in PeerStream
      /\ t.opened = old.opened /\ t.msg = old.msg /\ t.len = old.len /\ t.left = old.left
      /\ t.type = old.type /\ t.value = old.value /\ t.ts = old.ts /\ t.field = old.field
      /\ t.header = old.header /\ t.ext = old.ext /\ t.last = k /\ t.agreed = old.agreed
      /\ t.had_ext = old.had_ext /\ t.drifted = old.drifted
    BY <1>1 DEF PeerStream
<1>3. t.last = 3
    BY <1>2 DEF k
<1>4. old.len > 0
    BY PeerParts
<1> QED
    BY <1>2, <1>3, <1>4 DEF Going3, Common3

LEMMA ContinueKeepsInv ==
    ASSUME Inv, NEW c \in Csids, ContinueMessage(c)
    PROVE  Inv'
<1> DEFINE old == tx[c]
           t == [old EXCEPT !.last = 3]
           prefix == basic(c, 3) \o extension(old)
           harm == IF old.ext /\ old.header # 0 THEN {"ext"} ELSE {}
           R == Run(Now, Pending)
           o == odd'
<1>1. old \in PeerStream /\ tx \in [Csids -> PeerStream] /\ old.left <= old.len /\ R \in Automaton
    BY NowType, RunType DEF Inv, TypeOK, PeerOK
<1>2. old.left > 0 /\ SendPayload(c, t, prefix, harm)
    BY DEF ContinueMessage
<1>3. harm \in SUBSET Oddities /\ harm \subseteq o
    BY <1>2 DEF SendPayload, Oddities
<1>4. prefix \in Seq(Unit) /\ prefix # <<>> /\ Head(prefix).unit = "basic"
    BY <1>1, Prefix3Units
<1>5. old.ext /\ old.header # 0 => "ext" \in o
    BY <1>3
<1>6. t \in PeerStream /\ t.left > 0 /\ t.left <= t.len /\ (old.opened => Going3(old, t, o))
    <2> DEFINE k == 3
    <2>1. k \in 0 .. 3 /\ t = [old EXCEPT !.last = k]
        OBVIOUS
    <2> HIDE DEF k, t
    <2>2. t \in PeerStream /\ t.left = old.left /\ t.len = old.len
        BY <1>1, <2>1, LastParts
    <2>3. old.opened => Going3(old, t, o)
        <3> HIDE DEF o, old
        <3> QED
            BY <1>1, <1>2, <1>5, GoesOn DEF t
    <2> QED
        BY <1>1, <1>2, <2>2, <2>3
<1> HIDE DEF t, prefix, harm, R
<1>7. \A q \in Seq(Cell) : q # <<>> /\ Synced(R, tx, sent, announced, o)
         => TakenUp(Run(R, Join(prefix, q)), q, R, c, t, tx, sent, announced, o)
    <2> TAKE q \in Seq(Cell)
    <2> HAVE q # <<>> /\ Synced(R, tx, sent, announced, o)
    <2>1. R.mode = "idle" /\ q \in Seq(Unit) /\ StreamOf(R.cs[c], old, o)
        BY CellsAreUnits DEF Synced
    <2>2. Going3(old, t, o)
        BY <1>2, <1>6, <2>1 DEF StreamOf, Agrees
    <2> DEFINE H == Found(R, 3, c)
               F == Run(R, Join(prefix, q))
               z == announced
    <2>3. F = Run(H, Join(extension(old), q))
        BY <1>1, <2>1, Prefix3 DEF prefix
    <2> HIDE DEF H, F, z, o
    <2>4. H = Found(R, 3, c) /\ Synced(R, tx, sent, z, o)
        BY DEF H, z, o
    <2>5. TakenUp(F, q, R, c, t, tx, sent, z, o)
        BY <1>1, <1>6, <2>2, <2>3, <2>4, Going3Read
    <2> QED
        BY <2>5 DEF F, z
<1> QED
    BY <1>2, <1>3, <1>4, <1>6, <1>7, SendPayloadKeepsInv DEF R

LEMMA BegunIsNat ==
    ASSUME TypeOK
    PROVE  Begun \in Nat
<1>1. InHand \subseteq Csids
    BY DEF InHand
<1>2. IsFiniteSet(InHand)
    BY <1>1, CsidsAssumption, FS_Subset
<1>3. Cardinality(InHand) \in Nat
    BY <1>2, FS_CardinalityType
<1>4. Len(sent) \in Nat
    BY DEF TypeOK
<1> QED
    BY <1>3, <1>4 DEF Begun

LEMMA AnnouncedIsSize ==
    ASSUME TypeOK
    PROVE  announced \in Sizes
BY DEF TypeOK, announced, Sizes

(* The peer's stream with a new message in hand.                             *)
MessageInHand(t, msg, len, type, value, ts, last, stamp, header, ext, had, agreed, drifted) ==
  /\ t \in PeerStream
  /\ t.opened /\ t.msg = msg /\ t.len = len /\ t.left = len /\ t.type = type /\ t.value = value
  /\ t.ts = ts /\ t.last = last /\ t.field = stamp /\ t.header = header /\ t.ext = ext
  /\ t.had_ext = had /\ t.agreed = agreed /\ t.drifted = drifted

(* A chunk with a header of type 0, 1 or 2, up to its payload.               *)
LEMMA PrefixHeader ==
    ASSUME NEW R \in Automaton, NEW c \in Csids, NEW t \in PeerStream, NEW peer \in [Csids -> PeerStream],
           NEW msgs, NEW size \in Sizes, NEW o, Synced(R, peer, msgs, size, o),
           NEW fmt \in 0 .. 2, NEW h \in Unit, NewHeader(peer[c], t, fmt, h, size, o),
           NEW prefix, prefix = basic(c, fmt) \o <<h>>, NEW q \in Seq(Unit)
    PROVE  TakenUp(Run(R, Join(prefix, q)), q, R, c, t, peer, msgs, size, o)
<1> DEFINE P == Run(R, Join(basic(c, fmt), <<h>>))
           F == Run(R, Join(prefix, q))
<1>1. fmt \in 0 .. 3
    OBVIOUS
<1>2. prefix \in Seq(Unit) /\ P = Run(R, prefix)
    BY <1>1, BasicUnits, JoinIsUnits DEF Join
<1>3. ReadyFor(P, c, t, peer, msgs, size, o)
    BY HeaderRead
<1> HIDE DEF P
<1>4. F = Run(P, q)
    BY <1>2, RunJoin
<1> HIDE DEF F
<1>5. TakenUp(F, q, R, c, t, peer, msgs, size, o)
    BY <1>3, <1>4 DEF TakenUp
<1> QED
    BY <1>5 DEF F

LEMMA PrefixUnits ==
    ASSUME NEW c \in Csids, NEW fmt \in 0 .. 3, NEW h \in Unit, NEW prefix, prefix = basic(c, fmt) \o <<h>>
    PROVE  prefix \in Seq(Unit) /\ prefix # <<>> /\ Head(prefix).unit = "basic"
<1> DEFINE b == basic(c, fmt)
           e == <<h>>
<1>1. b \in Seq(Unit) /\ b # <<>> /\ Head(b).unit = "basic" /\ e \in Seq(Unit)
    BY BasicUnits
<1>2. prefix = Join(b, e)
    BY DEF Join
<1> HIDE DEF b, e
<1> QED
    BY <1>1, <1>2, JoinHead

(* The parts of a header a peer of this model writes.                        *)
LEMMA HeaderIs ==
    ASSUME NEW ts \in Stamps, NEW ext \in BOOLEAN, NEW len \in Nat, NEW type \in Types,
           NEW h, h = [unit |-> "header", ts |-> ts, ext |-> ext, len |-> len, type |-> type]
    PROVE  h \in Unit /\ h.unit = "header" /\ h.ts = ts /\ h.ext = ext /\ h.len = len /\ h.type = type
BY DEF Unit

(* A message is begun.                                                       *)
LEMMA BeginKeepsInv ==
    ASSUME Inv, NEW c \in Csids, NEW fmt \in 0 .. 3, NEW len \in Lengths, NEW type \in Types,
           NEW value \in Sizes, NEW d \in Stamps, BeginMessage(c, fmt, len, type, value, d)
    PROVE  Inv'
<1> DEFINE old == tx[c]
           msg == Begun + 1
           ts == (old.ts + d) % TsWrap
           field == IF fmt = 0 THEN ts ELSE d
           long == field >= ExtLimit
           stamp == IF fmt = 3 THEN old.field ELSE field
           header == IF fmt = 3 THEN old.header ELSE fmt
           ext == IF fmt = 3 THEN old.ext ELSE long
           had == old.had_ext \/ (fmt # 3 /\ long)
           agreed == IF old.opened THEN old.agreed ELSE announced
           drifted == fmt # 0 /\ (old.drifted \/ (fmt = 3 /\ old.last \in {0, 3} /\ d # 0))
           t == [old EXCEPT !.opened = TRUE, !.msg = msg, !.len = len, !.left = len,
                   !.type = type, !.value = value, !.ts = ts, !.last = fmt, !.field = stamp,
                   !.header = header, !.ext = ext, !.had_ext = had, !.agreed = agreed,
                   !.drifted = drifted]
           h == [unit |-> "header", ts |-> field, ext |-> long, len |-> len, type |-> type]
           R == Run(Now, Pending)
           o == odd'
           z == announced
<1>1. old \in PeerStream /\ tx \in [Csids -> PeerStream] /\ R \in Automaton /\ TypeOK /\ z \in Sizes
    BY NowType, RunType, AnnouncedIsSize DEF Inv, TypeOK
<1>2. d \in Stamps /\ 0 \in Stamps /\ len \in Nat /\ len > 0
    BY StampsAssumption, LengthsAssumption DEF Stamps
<1>3. old.ts \in Stamps /\ old.field \in Stamps /\ old.header \in 0 .. 2 /\ old.ext \in BOOLEAN
      /\ old.had_ext \in BOOLEAN /\ old.agreed \in Sizes /\ old.drifted \in BOOLEAN
    BY <1>1, PeerParts
<1>4. (old.ts + d) % TsWrap \in Stamps
    BY <1>2, <1>3, StampSum
<1>5. ts \in Stamps /\ field \in Stamps /\ stamp \in Stamps /\ msg \in Nat
    BY <1>1, <1>2, <1>3, <1>4, BegunIsNat
<1>6. header \in 0 .. 2 /\ agreed \in Sizes
    BY <1>1, <1>3
<1>7. long \in BOOLEAN /\ ext \in BOOLEAN /\ had \in BOOLEAN /\ drifted \in BOOLEAN
    <2>1. long \in BOOLEAN
        OBVIOUS
    <2>2. had \in BOOLEAN
        OBVIOUS
    <2>3. drifted \in BOOLEAN
        OBVIOUS
    <2> HIDE DEF long, old
    <2>4. ext \in BOOLEAN
        BY <1>3, <2>1, Zenon
    <2> QED
        BY <2>1, <2>2, <2>3, <2>4
<1>8. /\ old.left = 0
      /\ fmt # 0 => old.opened
      /\ fmt \in {2, 3} => len = old.len /\ type = old.type
      /\ fmt = 3 /\ old.header # 0 => d = old.field
    BY DEF BeginMessage, repeated
<1>9. IF fmt = 3
      THEN SendPayload(c, t, basic(c, 3) \o extension(old), IF Misled(old) THEN {"ext"} ELSE {})
      ELSE SendPayload(c, t, basic(c, fmt) \o <<h>>, {})
    BY DEF BeginMessage
<1>10. MessageInHand(t, msg, len, type, value, ts, fmt, stamp, header, ext, had, agreed, drifted)
    <2>1. t = [old EXCEPT !.opened = TRUE, !.msg = msg, !.len = len, !.left = len,
                 !.type = type, !.value = value, !.ts = ts, !.last = fmt, !.field = stamp,
                 !.header = header, !.ext = ext, !.had_ext = had, !.agreed = agreed,
                 !.drifted = drifted]
        OBVIOUS
    <2> HIDE DEF old, msg, ts, stamp, header, ext, had, agreed, drifted, t, field, long, h, R, z
    <2>2. /\ old \in PeerStream /\ msg \in Nat /\ len \in Nat /\ type \in Types /\ value \in Sizes
          /\ ts \in Stamps /\ fmt \in 0 .. 3 /\ stamp \in Stamps /\ header \in 0 .. 2
          /\ agreed \in Sizes
        BY <1>1, <1>2, <1>5, <1>6
    <2>3. ext \in BOOLEAN /\ had \in BOOLEAN /\ drifted \in BOOLEAN
        BY <1>7, Zenon
    <2> DEFINE yes == TRUE
               v == [old EXCEPT !.opened = yes, !.msg = msg, !.len = len, !.left = len,
                       !.type = type, !.value = value, !.ts = ts]
    <2>4. yes \in BOOLEAN /\ yes
        OBVIOUS
    <2>5. t = [v EXCEPT !.last = fmt, !.field = stamp, !.header = header, !.ext = ext,
                 !.had_ext = had, !.agreed = agreed, !.drifted = drifted]
        BY <2>1
    <2> HIDE DEF yes
    <2>6. /\ v \in PeerStream /\ v.opened = yes /\ v.msg = msg /\ v.len = len /\ v.left = len
          /\ v.type = type /\ v.value = value /\ v.ts = ts
        BY <2>2, <2>3, <2>4 DEF PeerStream
    <2> HIDE DEF v
    <2>7. /\ t.opened = v.opened /\ t.msg = v.msg /\ t.len = v.len /\ t.left = v.left
          /\ t.type = v.type /\ t.value = v.value /\ t.ts = v.ts
        BY <2>2, <2>3, <2>5, <2>6 DEF PeerStream
    <2>8. /\ t.last = fmt /\ t.field = stamp /\ t.header = header /\ t.ext = ext
          /\ t.had_ext = had /\ t.agreed = agreed /\ t.drifted = drifted
        BY <2>2, <2>3, <2>5, <2>6 DEF PeerStream
    <2>9. t \in PeerStream
        <3> DEFINE x == [v EXCEPT !.last = fmt, !.field = stamp, !.header = header]
                   y == [x EXCEPT !.ext = ext, !.had_ext = had]
        <3>1. t = [y EXCEPT !.agreed = agreed, !.drifted = drifted]
            BY <2>5
        <3>2. x \in PeerStream
            BY <2>2, <2>6 DEF PeerStream
        <3> HIDE DEF x
        <3>3. y \in PeerStream
            BY <2>3, <3>2 DEF PeerStream
        <3> HIDE DEF y
        <3> QED
            BY <2>2, <2>3, <3>1, <3>3 DEF PeerStream
    <2> QED
        BY <2>4, <2>6, <2>7, <2>8, <2>9 DEF MessageInHand
<1> HIDE DEF t
<1>11. t \in PeerStream /\ t.left > 0 /\ t.left <= t.len
    BY <1>2, <1>10 DEF MessageInHand
<1>12. CASE fmt = 3
    <2> DEFINE prefix == basic(c, 3) \o extension(old)
               harm == IF Misled(old) THEN {"ext"} ELSE {}
    <2>1. SendPayload(c, t, prefix, harm)
        BY <1>9, <1>12
    <2>2. harm \in SUBSET Oddities /\ harm \subseteq o
        BY <2>1 DEF SendPayload, Oddities
    <2>3. prefix \in Seq(Unit) /\ prefix # <<>> /\ Head(prefix).unit = "basic"
        BY <1>1, Prefix3Units
    <2>4. Fresh3(old, t, d, o)
        <3>1. Misled(old) => "ext" \in o
            BY <2>2
        <3> HIDE DEF o
        <3>2. Common3(old, t)
            BY <1>2, <1>3, <1>8, <1>10, <1>12 DEF Common3, MessageInHand
        <3>3. t.ts = (old.ts + d) % TsWrap
            BY <1>10, <1>12 DEF MessageInHand
        <3>4. t.drifted <=> old.drifted \/ (old.last \in {0, 3} /\ d # 0)
            <4>1. t.drifted = drifted
                BY <1>10 DEF MessageInHand
            <4>2. drifted <=> old.drifted \/ (old.last \in {0, 3} /\ d # 0)
                BY <1>12
            <4> HIDE DEF drifted
            <4> QED
                BY <4>1, <4>2
        <3> QED
            BY <1>8, <1>10, <1>12, <3>1, <3>2, <3>3, <3>4 DEF Fresh3, MessageInHand
    <2> HIDE DEF prefix, harm, R, z
    <2>5. ASSUME NEW q \in Seq(Cell), q # <<>>, Synced(R, tx, sent, z, o)
          PROVE  TakenUp(Run(R, Join(prefix, q)), q, R, c, t, tx, sent, z, o)
        <3> DEFINE H == Found(R, 3, c)
                   F == Run(R, Join(prefix, q))
        <3>1. R.mode = "idle" /\ q \in Seq(Unit)
            BY <2>5, CellsAreUnits DEF Synced
        <3>2. F = Run(H, Join(extension(old), q))
            BY <1>1, <3>1, Prefix3 DEF prefix
        <3> HIDE DEF H, F, o
        <3>3. H = Found(R, 3, c)
            BY DEF H
        <3>4. TakenUp(F, q, R, c, t, tx, sent, z, o)
            BY <1>1, <1>11, <2>4, <2>5, <3>2, <3>3, Fresh3Read
        <3> QED
            BY <3>4 DEF F
    <2> QED
        BY <1>11, <2>1, <2>2, <2>3, <2>5, SendPayloadKeepsInv DEF R, z
<1>13. CASE fmt # 3
    <2> DEFINE prefix == basic(c, fmt) \o <<h>>
    <2>1. SendPayload(c, t, prefix, {})
        BY <1>9, <1>13
    <2>2. {} \in SUBSET Oddities /\ {} \subseteq o
        OBVIOUS
    <2>3. /\ h \in Unit /\ h.unit = "header" /\ h.ts = field /\ h.ext = long
          /\ h.len = len /\ h.type = type
        <3> HIDE DEF field, long
        <3> QED
            BY <1>2, <1>5, <1>7, HeaderIs
    <2> HIDE DEF h
    <2>4. prefix \in Seq(Unit) /\ prefix # <<>> /\ Head(prefix).unit = "basic"
        BY <2>3, PrefixUnits
    <2>5. NewHeader(old, t, fmt, h, z, o)
        <3> HIDE DEF o, z
        <3>1. is_header(h)
            BY <2>3 DEF is_header
        <3>2. /\ t.opened /\ t.left = t.len /\ t.len > 0 /\ t.last = fmt /\ t.header = fmt
              /\ h.len = t.len /\ h.type = t.type
              /\ fmt = 2 => t.len = old.len /\ t.type = old.type
            BY <1>2, <1>8, <1>10, <1>13, <2>3 DEF MessageInHand
        <3>3. t.agreed = IF old.opened THEN old.agreed ELSE z
            BY <1>10 DEF MessageInHand, z
        <3>4. (t.had_ext <=> old.had_ext \/ h.ts >= ExtLimit) /\ (t.ext => t.had_ext)
            BY <1>10, <1>13, <2>3 DEF MessageInHand
        <3>5. t.field = h.ts
            BY <1>10, <1>13, <2>3 DEF MessageInHand
        <3>6. fmt = 0 => h.ts = t.ts
            BY <1>10, <1>13, <2>3 DEF MessageInHand
        <3>7. fmt # 0 => t.ts = (old.ts + h.ts) % TsWrap /\ (old.drifted => t.drifted)
            BY <1>10, <1>13, <2>3 DEF MessageInHand
        <3> QED
            BY <1>8, <2>3, <3>1, <3>2, <3>3, <3>4, <3>5, <3>6, <3>7 DEF NewHeader
    <2>6. fmt \in 0 .. 2
        BY <1>13
    <2> HIDE DEF prefix, R, z
    <2>7. ASSUME NEW q \in Seq(Cell), q # <<>>, Synced(R, tx, sent, z, o)
          PROVE  TakenUp(Run(R, Join(prefix, q)), q, R, c, t, tx, sent, z, o)
        <3>1. q \in Seq(Unit)
            BY CellsAreUnits
        <3> HIDE DEF o
        <3> QED
            BY <1>1, <1>11, <2>3, <2>5, <2>6, <2>7, <3>1, PrefixHeader DEF prefix
    <2> QED
        BY <1>11, <2>1, <2>2, <2>4, <2>7, SendPayloadKeepsInv DEF R, z
<1> QED
    BY <1>12, <1>13

-----------------------------------------------------------------------------
(* The writing side of this code.                                            *)

LEMMA Quotient ==
    ASSUME NEW L \in Nat, NEW N \in Nat \ {0}
    PROVE  /\ L \div N \in Nat /\ L % N \in Nat /\ L % N < N
           /\ L = N * (L \div N) + (L % N)
OBVIOUS

(* The pieces of a message: all of the chunk size but the last.              *)
LEMMA PiecesAre ==
    ASSUME NEW L \in Nat \ {0}, NEW N \in Nat \ {0}
    PROVE  \E K \in Nat \ {0} :
             /\ Len(pieces(L, N)) = K
             /\ (K - 1) * N < L /\ L <= K * N
             /\ \A i \in 1 .. K : pieces(L, N)[i] = Smaller(L - (i - 1) * N, N)
<1> DEFINE Q == L \div N
           r == L % N
           K == Q + (IF r > 0 THEN 1 ELSE 0)
           p == [i \in 1 .. K |-> IF i = K /\ r > 0 THEN r ELSE N]
<1>1. Q \in Nat /\ r \in Nat /\ r < N /\ L = N * Q + r
    BY Quotient
<1>2. pieces(L, N) = p
    BY DEF pieces
<1> HIDE DEF Q, r
<1>3. K \in Nat
    BY <1>1
<1>4. K # 0
    BY <1>1
<1>5. (K - 1) * N < L /\ L <= K * N
    <2>1. CASE r > 0
        <3>1. K = Q + 1
            BY <1>1, <2>1
        <3>2. (K - 1) * N = N * Q /\ K * N = N * Q + N
            BY <1>1, <3>1
        <3> QED
            BY <1>1, <2>1, <3>2
    <2>2. CASE r = 0
        <3>1. K = Q
            BY <1>1, <2>2
        <3>2. (K - 1) * N = N * Q - N /\ K * N = N * Q
            BY <1>1, <3>1
        <3> QED
            BY <1>1, <2>2, <3>2
    <2> QED
        BY <1>1, <2>1, <2>2
<1> HIDE DEF K
<1>6. ASSUME NEW i \in 1 .. K PROVE p[i] = Smaller(L - (i - 1) * N, N)
    <2>1. p[i] = IF i = K /\ r > 0 THEN r ELSE N
        OBVIOUS
    <2> DEFINE a == (i - 1) * N
    <2>2. CASE i = K
        <3>1. CASE r > 0
            <4>1. K = Q + 1
                BY <1>1, <3>1 DEF K
            <4>2. a = N * Q
                BY <1>1, <2>2, <4>1
            <4>3. L - a = r
                BY <1>1, <4>2
            <4> QED
                BY <1>1, <2>1, <2>2, <3>1, <4>3 DEF Smaller
        <3>2. CASE r = 0
            <4>1. K = Q
                BY <1>1, <3>2 DEF K
            <4>2. a = N * Q - N
                BY <1>1, <2>2, <4>1
            <4>3. L - a = N
                BY <1>1, <3>2, <4>2
            <4> QED
                BY <1>1, <2>1, <3>2, <4>3 DEF Smaller
        <3> QED
            BY <1>1, <3>1, <3>2
    <2>3. CASE i # K
        <3>1. i <= K - 1 /\ i \in Nat /\ K - 1 \in Nat
            BY <1>3, <1>4, <2>3
        <3>2. i * N <= (K - 1) * N
            BY <3>1
        <3>3. i * N = a + N /\ a \in Nat
            BY <3>1
        <3>4. L - a > N
            <4> DEFINE b == (K - 1) * N
                       e == i * N
            <4>1. b \in Nat /\ e \in Nat /\ b < L /\ e <= b /\ e = a + N
                BY <1>5, <3>1, <3>2, <3>3
            <4> HIDE DEF a, b, e
            <4> QED
                BY <3>3, <4>1
        <3> HIDE DEF a
        <3> QED
            BY <2>1, <2>3, <3>3, <3>4 DEF Smaller, a
    <2> QED
        BY <2>2, <2>3
<1>7. Len(p) = K
    BY <1>3
<1> HIDE DEF p
<1> QED
    BY <1>2, <1>3, <1>4, <1>5, <1>6, <1>7

LEMMA PayloadUnits ==
    ASSUME NEW t \in PeerStream, t.left <= t.len, NEW n \in Nat, n > 0, NEW q, q = Payload(t, n)
    PROVE  q \in Seq(Cell) /\ q \in Seq(Unit) /\ q # <<>>
<1>1. q \in Seq(Cell) /\ Len(q) = n
    BY PayloadIs
<1> QED
    BY <1>1, CellsAreUnits

(* A type 3 chunk of a stream without extended timestamps.                   *)
LEMMA NextPiece ==
    ASSUME NEW R \in Automaton, NEW c \in Csids, NEW peer \in [Csids -> PeerStream],
           NEW msgs \in Seq(Message), NEW size, NEW o, Good(R, peer, msgs, size, o),
           NEW old \in PeerStream, old = peer[c], ~old.ext,
           NEW t \in PeerStream, Going3(old, t, o), t.left > 0, t.left <= t.len,
           NEW n \in Nat, n > 0, n <= t.left, n # Smaller(t.left, t.agreed) => o # {},
           NEW q, q = Payload(t, n),
           NEW F, F = Run(R, Join(basic(c, 3), q)),
           NEW u, u = [t EXCEPT !.left = t.left - n], NEW peer2, peer2 = [peer EXCEPT ![c] = u]
    PROVE  ChunkGood(F, c, t, u, peer2, msgs, size, o)
<1> DEFINE b == basic(c, 3)
           H == Found(R, 3, c)
<1>1. q \in Seq(Cell) /\ q \in Seq(Unit) /\ q # <<>>
    BY PayloadUnits
<1>2. 3 \in 0 .. 3
    OBVIOUS
<1>3. b \in Seq(Unit) /\ b # <<>> /\ Head(b).unit = "basic"
    BY <1>2, BasicUnits
<1>4. extension(old) = <<>>
    BY DEF extension
<1>5. Synced(R, peer, msgs, size, o) => TakenUp(F, q, R, c, t, peer, msgs, size, o)
    <2> HAVE Synced(R, peer, msgs, size, o)
    <2>1. Run(R, b) = H
        BY <1>2, BasicRead DEF Synced
    <2>2. Join(extension(old), q) = q
        BY <1>1, <1>4, JoinEmpty
    <2> HIDE DEF b, H
    <2>3. Run(R, Join(b, q)) = Run(Run(R, b), q)
        BY <1>1, <1>3, RunJoin
    <2>4. F = Run(H, Join(extension(peer[c]), q)) /\ H = Found(R, 3, c) /\ Going3(peer[c], t, o)
        BY <2>1, <2>2, <2>3 DEF b, H
    <2> QED
        BY <1>1, <2>4, Going3Read
<1>6. F = Run(R, Join(b, q))
    OBVIOUS
<1> HIDE DEF b
<1> QED
    BY <1>3, <1>5, <1>6, OneChunk

(* A chunk with a type 0 header, which the reader may refuse.                *)
LEMMA FirstPiece ==
    ASSUME NEW R \in Automaton, NEW c \in Csids, NEW peer \in [Csids -> PeerStream],
           NEW msgs \in Seq(Message), NEW size \in Sizes, NEW o, Good(R, peer, msgs, size, o),
           NEW t \in PeerStream, t.left <= t.len,
           NEW n \in Nat, n > 0, n <= t.left, n # Smaller(t.left, t.agreed) => o # {},
           NEW h \in Unit, is_header(h) => NewHeader(peer[c], t, 0, h, size, o), ~is_header(h) => o # {},
           NEW q, q = Payload(t, n),
           NEW prefix, prefix = basic(c, 0) \o <<h>>, NEW F, F = Run(R, Join(prefix, q)),
           NEW u, u = [t EXCEPT !.left = t.left - n], NEW peer2, peer2 = [peer EXCEPT ![c] = u]
    PROVE  ChunkGood(F, c, t, u, peer2, msgs, size, o)
<1> DEFINE b == basic(c, 0)
           H == Found(R, 0, c)
<1>1. 0 \in 0 .. 3 /\ 0 \in 0 .. 2
    OBVIOUS
<1>2. q \in Seq(Cell) /\ q \in Seq(Unit) /\ q # <<>>
    BY PayloadUnits
<1>3. prefix \in Seq(Unit) /\ prefix # <<>> /\ Head(prefix).unit = "basic"
    BY <1>1, PrefixUnits
<1>4. Synced(R, peer, msgs, size, o) => TakenUp(F, q, R, c, t, peer, msgs, size, o)
    <2> HAVE Synced(R, peer, msgs, size, o)
    <2>1. CASE is_header(h)
        BY <1>1, <1>2, <2>1, PrefixHeader
    <2>2. CASE ~is_header(h)
        <3> DEFINE C == Step(H, h)
                   w == Join(<<h>>, q)
        <3>1. Run(R, b) = H /\ b \in Seq(Unit) /\ <<h>> \in Seq(Unit)
            BY <1>1, BasicRead, BasicUnits DEF Synced
        <3>2. H.mode = "header" /\ H.fmt = 0 /\ H.delivered = R.delivered
            BY DEF Found, State
        <3> HIDE DEF H
        <3>3. C = InMode(H, "lost")
            BY <2>2, <3>2 DEF Step, StepHeader
        <3>4. C.mode = "lost" /\ C.delivered = R.delivered
            BY <3>2, <3>3 DEF InMode, State
        <3> HIDE DEF C
        <3>5. w \in Seq(Unit) /\ Run(H, w) = C
            BY <1>2, <3>1, <3>4, LostAtFirst, JoinIsUnits DEF C
        <3>6. Join(prefix, q) = Join(b, w)
            <4> DEFINE e == <<h>>
            <4>1. e \in Seq(Unit) /\ prefix = Join(b, e) /\ w = Join(e, q)
                BY <3>1 DEF Join
            <4> HIDE DEF e, w, b
            <4>2. Join(Join(b, e), q) = Join(b, Join(e, q))
                BY <1>2, <3>1, <4>1, JoinIsAssociative
            <4> QED
                BY <4>1, <4>2
        <3> HIDE DEF w, b
        <3>7. Run(R, Join(b, w)) = Run(Run(R, b), w)
            BY <3>1, <3>5, RunJoin
        <3>8. F = C
            BY <3>1, <3>5, <3>6, <3>7
        <3> QED
            BY <2>2, <3>4, <3>8 DEF TakenUp
    <2> QED
        BY <2>1, <2>2
<1> QED
    BY <1>3, <1>4, OneChunk

(* The stream t with so much of its message left, after a chunk of type last. *)
At(t, left, last) == [t EXCEPT !.left = left, !.last = last]

AtIs(u, t, left, last) ==
  /\ u \in PeerStream
  /\ u.opened = t.opened /\ u.msg = t.msg /\ u.len = t.len /\ u.left = left /\ u.type = t.type
  /\ u.value = t.value /\ u.ts = t.ts /\ u.field = t.field /\ u.header = t.header
  /\ u.ext = t.ext /\ u.last = last /\ u.agreed = t.agreed /\ u.had_ext = t.had_ext
  /\ u.drifted = t.drifted

LEMMA AtParts ==
    ASSUME NEW t \in PeerStream, NEW left \in Nat, NEW last \in 0 .. 3, NEW u, u = At(t, left, last)
    PROVE  AtIs(u, t, left, last)
<1>1. u = [t EXCEPT !.left = left, !.last = last]
    BY DEF At
<1>2. u \in PeerStream
    BY <1>1 DEF PeerStream
<1>3. /\ u.opened = t.opened /\ u.msg = t.msg /\ u.len = t.len /\ u.left = left /\ u.type = t.type
      /\ u.value = t.value /\ u.ts = t.ts /\ u.field = t.field /\ u.header = t.header
      /\ u.ext = t.ext /\ u.last = last /\ u.agreed = t.agreed /\ u.had_ext = t.had_ext
      /\ u.drifted = t.drifted
    BY <1>1 DEF PeerStream
<1> QED
    BY <1>2, <1>3 DEF AtIs

(* Its chunks one after the other.                                           *)
LEMMA AtLess ==
    ASSUME NEW t \in PeerStream, NEW left \in Nat, NEW last \in 0 .. 3, NEW less \in Nat,
           NEW u, u = At(t, left, last)
    PROVE  [u EXCEPT !.left = less] = At(t, less, last)
<1>1. u = [t EXCEPT !.left = left, !.last = last]
    BY DEF At
<1>2. At(t, less, last) = [t EXCEPT !.left = less, !.last = last]
    BY DEF At
<1> QED
    BY <1>1, <1>2 DEF PeerStream

LEMMA GenFirst ==
    ASSUME NEW c \in Csids, NEW t \in PeerStream, NEW n \in Nat, NEW v, AtIs(v, t, t.len, 0), NEW h,
           h = [unit |-> "header", ts |-> t.ts % (ExtLimit + 1), ext |-> FALSE,
                len |-> t.len, type |-> t.type]
    PROVE  gen_data(c, t, 0, 1, n) = Join(basic(c, 0) \o <<h>>, Payload(v, n))
<1>1. t.len \in Nat
    BY PeerParts
<1>2. v.len - v.left + 1 = 1 /\ v.len - v.left + n = n /\ 1 + n - 1 = n /\ v.msg = t.msg /\ v.value = t.value
    BY <1>1 DEF AtIs
<1>3. Payload(v, n) = Cells(t, 1, n)
    BY <1>2 DEF Payload, Cells
<1>4. gen_data(c, t, 0, 1, n) = (basic(c, 0) \o <<h>>) \o Cells(t, 1, 1 + n - 1)
    BY DEF gen_data
<1> QED
    BY <1>2, <1>3, <1>4 DEF Join

LEMMA GenNext ==
    ASSUME NEW c \in Csids, NEW t \in PeerStream, NEW n \in Nat, NEW v, NEW left \in Nat, left <= t.len,
           AtIs(v, t, left, 3)
    PROVE  gen_data(c, t, 3, (t.len - left) + 1, n) = Join(basic(c, 3), Payload(v, n))
<1> DEFINE k == t.len - left
           x == Cells(t, k + 1, k + n)
<1>1. t.len \in Nat /\ k \in Nat /\ (k + 1) + n - 1 = k + n
    BY PeerParts
<1>2. v.len - v.left = k /\ v.msg = t.msg /\ v.value = t.value
    BY DEF AtIs
<1>3. Payload(v, n) = x
    BY <1>2 DEF Payload, Cells
<1>4. 3 \in 0 .. 3 /\ 3 # 0
    OBVIOUS
<1>5. basic(c, 3) \in Seq(Unit)
    BY <1>4, BasicUnits
<1>6. basic(c, 3) \o <<>> = basic(c, 3)
    BY <1>5
<1> HIDE DEF k
<1>7. gen_data(c, t, 3, k + 1, n) = (basic(c, 3) \o <<>>) \o Cells(t, k + 1, (k + 1) + n - 1)
    BY <1>4 DEF gen_data
<1> QED
    BY <1>1, <1>3, <1>6, <1>7 DEF Join, k

(* The chunk sent with left cells to go, the peer's size being N.            *)
PieceGood(F, c, t, left, N, last, peer, msgs, size, o) ==
  /\ left > N => Good(F, [peer EXCEPT ![c] = At(t, left - N, last)], msgs, size, o)
  /\ left <= N => Good(F, [peer EXCEPT ![c] = At(t, 0, last)], Append(msgs, SentMessage(c, t)),
                       NextSize(t, size), o)

LEMMA PieceIsGood ==
    ASSUME NEW c, NEW t \in PeerStream, NEW left \in Nat, NEW N \in Nat, NEW last \in 0 .. 3,
           NEW peer, NEW msgs, NEW size, NEW o, NEW F,
           NEW v, v = At(t, left, last), NEW n \in Nat, n = Smaller(left, N),
           NEW u, u = [v EXCEPT !.left = v.left - n], NEW peer2, peer2 = [peer EXCEPT ![c] = u],
           ChunkGood(F, c, v, u, peer2, msgs, size, o)
    PROVE  PieceGood(F, c, t, left, N, last, peer, msgs, size, o)
<1> DEFINE less == left - n
<1>1. AtIs(v, t, left, last)
    BY AtParts
<1>2. less \in Nat /\ v.left = left
    BY <1>1 DEF Smaller, AtIs
<1>3. u = At(t, less, last)
    <2> HIDE DEF less
    <2>1. [v EXCEPT !.left = less] = At(t, less, last)
        BY <1>2, AtLess
    <2> QED
        BY <1>2, <2>1 DEF less
<1> HIDE DEF less
<1>4. u.left = less
    <2>1. AtIs(u, t, less, last)
        BY <1>2, <1>3, AtParts
    <2> QED
        BY <2>1 DEF AtIs
<1>5. SentMessage(c, v) = SentMessage(c, t) /\ NextSize(v, size) = NextSize(t, size)
    BY <1>1 DEF AtIs, SentMessage, NextSize, Cells
<1>6. CASE left > N
    <2>1. less = left - N /\ less > 0
        BY <1>6 DEF less, Smaller
    <2>2. Good(F, peer2, msgs, size, o)
        BY <1>4, <2>1 DEF ChunkGood
    <2>3. peer2 = [peer EXCEPT ![c] = At(t, left - N, last)]
        BY <1>3, <2>1
    <2>4. Good(F, [peer EXCEPT ![c] = At(t, left - N, last)], msgs, size, o)
        BY <2>2, <2>3, Zenon
    <2>5. ~(left <= N)
        BY <1>6
    <2> QED
        BY <2>4, <2>5, Zenon DEF PieceGood
<1>7. CASE left <= N
    <2>1. less = 0
        BY <1>7 DEF less, Smaller
    <2>2. Good(F, peer2, Append(msgs, SentMessage(c, t)), NextSize(t, size), o)
        BY <1>4, <1>5, <2>1 DEF ChunkGood
    <2>3. peer2 = [peer EXCEPT ![c] = At(t, 0, last)]
        BY <1>3, <2>1
    <2>4. Good(F, [peer EXCEPT ![c] = At(t, 0, last)], Append(msgs, SentMessage(c, t)),
               NextSize(t, size), o)
        BY <2>2, <2>3, Zenon
    <2>5. ~(left > N)
        BY <1>7
    <2> QED
        BY <2>4, <2>5, Zenon DEF PieceGood
<1> QED
    BY <1>6, <1>7

LEMMA PieceFollows ==
    ASSUME NEW R \in Automaton, NEW c \in Csids, NEW peer \in [Csids -> PeerStream],
           NEW msgs \in Seq(Message), NEW size, NEW o, NEW t \in PeerStream, t.opened, ~t.ext,
           NEW N \in Nat \ {0}, N # t.agreed /\ t.len > Smaller(N, t.agreed) => o # {},
           NEW left \in Nat, left > 0, left <= t.len, NEW k \in 0 .. 3,
           Good(R, [peer EXCEPT ![c] = At(t, left, k)], msgs, size, o),
           NEW F, F = Run(R, gen_data(c, t, 3, (t.len - left) + 1, Smaller(left, N)))
    PROVE  PieceGood(F, c, t, left, N, 3, peer, msgs, size, o)
<1> DEFINE three == 3
           old == At(t, left, k)
           v == At(t, left, three)
           n == Smaller(left, N)
           q == Payload(v, n)
           u == [v EXCEPT !.left = v.left - n]
           peer1 == [peer EXCEPT ![c] = old]
           peer2 == [peer EXCEPT ![c] = u]
<1>1. three \in 0 .. 3 /\ three = 3
    OBVIOUS
<1>2. n \in Nat /\ n > 0 /\ n <= left /\ (n # Smaller(left, t.agreed) => o # {})
    <2> DEFINE a == t.agreed
               len == t.len
    <2>1. /\ a \in Sizes /\ len \in Nat /\ left <= len /\ n = Smaller(left, N)
          /\ (N # a /\ len > Smaller(N, a) => o # {})
        BY PeerParts
    <2> HIDE DEF a, len, n
    <2>2. a \in Nat \ {0}
        BY <2>1, SizesAreNat
    <2>3. n \in Nat /\ n > 0 /\ n <= left
        BY <2>1 DEF Smaller
    <2>4. n # Smaller(left, a) => N # a /\ len > Smaller(N, a)
        BY <2>1, <2>2 DEF Smaller
    <2> QED
        BY <2>1, <2>3, <2>4 DEF a
<1> HIDE DEF three, n
<1>3. AtIs(old, t, left, k) /\ AtIs(v, t, left, three)
    BY <1>1, AtParts
<1> HIDE DEF old, v
<1>4. /\ old \in PeerStream /\ v \in PeerStream /\ ~old.ext /\ v.left > 0 /\ v.left <= v.len
      /\ v.left = left /\ v.agreed = t.agreed
    BY <1>3 DEF AtIs
<1>5. Going3(old, v, o)
    <2>1. t.len > 0
        BY PeerParts
    <2> QED
        BY <1>1, <1>3, <2>1 DEF AtIs, Going3, Common3
<1>6. peer1 \in [Csids -> PeerStream] /\ peer1[c] = old
    BY <1>4
<1> HIDE DEF u
<1>7. [peer1 EXCEPT ![c] = u] = peer2
    OBVIOUS
<1>8. F = Run(R, Join(basic(c, 3), q))
    <2>1. AtIs(v, t, left, 3)
        BY <1>1, <1>3
    <2>2. gen_data(c, t, 3, (t.len - left) + 1, n) = Join(basic(c, 3), Payload(v, n))
        BY <1>2, <2>1, GenNext
    <2> QED
        BY <2>2 DEF n
<1>9. Good(R, peer1, msgs, size, o)
    BY DEF old
<1> HIDE DEF q, peer1, peer2
<1>10. /\ old = peer1[c] /\ n <= v.left /\ (n # Smaller(v.left, v.agreed) => o # {})
       /\ q = Payload(v, n) /\ u = [v EXCEPT !.left = v.left - n] /\ peer2 = [peer1 EXCEPT ![c] = u]
    BY <1>2, <1>4, <1>6, <1>7 DEF q, u
<1>11. ChunkGood(F, c, v, u, peer2, msgs, size, o)
    BY <1>2, <1>4, <1>5, <1>6, <1>8, <1>9, <1>10, NextPiece
<1>12. PieceGood(F, c, t, left, N, three, peer, msgs, size, o)
    <2>1. v = At(t, left, three) /\ n = Smaller(left, N) /\ peer2 = [peer EXCEPT ![c] = u]
        BY DEF v, n, peer2
    <2> QED
        BY <1>1, <1>2, <1>10, <1>11, <2>1, PieceIsGood
<1> QED
    BY <1>12 DEF three

(* The stream a written message leaves; old is the stream as it was.         *)
Written(old, t, size, o) ==
  /\ old.left = 0
  /\ t.opened /\ t.len > 0 /\ t.header = 0 /\ ~t.ext
  /\ t.agreed = IF old.opened THEN old.agreed ELSE size
  /\ t.had_ext = old.had_ext
  /\ t.ts >= ExtLimit => "truncated" \in o

LEMMA ThreeBytes ==
    ASSUME NEW ts \in Stamps, 0 < TsWrap
    PROVE  /\ ts % (ExtLimit + 1) \in Stamps
           /\ ts < ExtLimit => ts % (ExtLimit + 1) = ts
<1> DEFINE w == ExtLimit + 1
           r == ts % w
<1>1. w \in Nat \ {0} /\ ts \in Nat /\ ts < TsWrap /\ TsWrap \in Nat
    BY StampsAssumption DEF Stamps
<1>2. ts < ExtLimit => ts < w
    BY StampsAssumption, <1>1
<1> HIDE DEF w
<1>3. r \in Nat /\ r <= ts /\ (ts < w => r = ts)
    <2>1. ts \div w \in Nat /\ r \in Nat /\ r < w /\ ts = w * (ts \div w) + r
        BY <1>1, Quotient
    <2>2. w * (ts \div w) \in Nat
        BY <1>1, <2>1
    <2>3. ts < w => ts % w = ts
        BY <1>1
    <2> HIDE DEF r
    <2> QED
        BY <1>1, <2>1, <2>2, <2>3 DEF r
<1>4. r \in Stamps
    BY <1>1, <1>3 DEF Stamps
<1> QED
    BY <1>2, <1>3, <1>4 DEF w

LEMMA PieceBegins ==
    ASSUME NEW R \in Automaton, NEW c \in Csids, NEW peer \in [Csids -> PeerStream],
           NEW msgs \in Seq(Message), NEW size \in Sizes, NEW o, Good(R, peer, msgs, size, o),
           NEW t \in PeerStream, Written(peer[c], t, size, o),
           NEW N \in Nat \ {0}, N # t.agreed /\ t.len > Smaller(N, t.agreed) => o # {},
           NEW F, F = Run(R, gen_data(c, t, 0, 1, Smaller(t.len, N)))
    PROVE  PieceGood(F, c, t, t.len, N, 0, peer, msgs, size, o)
<1> DEFINE zero == 0
           old == peer[c]
           left == t.len
           v == At(t, left, zero)
           n == Smaller(left, N)
           q == Payload(v, n)
           u == [v EXCEPT !.left = v.left - n]
           peer2 == [peer EXCEPT ![c] = u]
           r == t.ts % (ExtLimit + 1)
           h == [unit |-> "header", ts |-> r, ext |-> FALSE, len |-> t.len, type |-> t.type]
           prefix == basic(c, 0) \o <<h>>
<1>1. zero \in 0 .. 3 /\ zero = 0 /\ left \in Nat /\ left > 0 /\ left <= t.len
    BY PeerParts DEF Written
<1>2. n \in Nat /\ n > 0 /\ n <= left /\ (n # Smaller(left, t.agreed) => o # {})
    <2> DEFINE a == t.agreed
               len == t.len
    <2>1. /\ a \in Sizes /\ len \in Nat /\ left <= len /\ n = Smaller(left, N)
          /\ (N # a /\ len > Smaller(N, a) => o # {})
        BY <1>1, PeerParts
    <2> HIDE DEF a, len, n, left
    <2>2. a \in Nat \ {0}
        BY <2>1, SizesAreNat
    <2>3. n \in Nat /\ n > 0 /\ n <= left
        BY <1>1, <2>1 DEF Smaller
    <2>4. n # Smaller(left, a) => N # a /\ len > Smaller(N, a)
        BY <1>1, <2>1, <2>2 DEF Smaller
    <2> QED
        BY <2>1, <2>3, <2>4 DEF a
<1> HIDE DEF zero, n, left
<1>3. AtIs(v, t, left, zero)
    BY <1>1, AtParts
<1> HIDE DEF v
<1>4. /\ v \in PeerStream /\ v.left > 0 /\ v.left <= v.len /\ v.left = left /\ v.agreed = t.agreed
    BY <1>1, <1>3 DEF AtIs
<1>5. r \in Stamps /\ (t.ts < ExtLimit => r = t.ts)
    <2>1. t.ts \in Stamps /\ 0 < TsWrap
        BY PeerParts, StampsAssumption
    <2> QED
        BY <2>1, ThreeBytes
<1>6. h \in Unit /\ h.unit = "header" /\ h.ts = r /\ h.ext = FALSE /\ h.len = t.len /\ h.type = t.type
    <2> DEFINE no == FALSE
    <2>1. no \in BOOLEAN /\ t.len \in Nat /\ t.type \in Types
        BY PeerParts
    <2>2. h = [unit |-> "header", ts |-> r, ext |-> no, len |-> t.len, type |-> t.type]
        OBVIOUS
    <2> HIDE DEF no, r, h
    <2>3. h \in Unit /\ h.unit = "header" /\ h.ts = r /\ h.ext = no /\ h.len = t.len /\ h.type = t.type
        BY <1>5, <2>1, <2>2, HeaderIs
    <2> QED
        BY <2>3 DEF no
<1>7. F = Run(R, Join(prefix, q))
    <2>1. AtIs(v, t, t.len, 0)
        BY <1>1, <1>3 DEF left
    <2>2. gen_data(c, t, 0, 1, n) = Join(prefix, Payload(v, n))
        BY <1>2, <2>1, GenFirst
    <2> QED
        BY <2>2 DEF n, left
<1> HIDE DEF h
<1>8. t.ts \in Nat /\ ExtLimit \in Nat /\ r \in Nat
    BY <1>5, PeerParts, StampsAssumption DEF Stamps
<1>9. is_header(h) => NewHeader(old, v, 0, h, size, o)
    <2> HAVE is_header(h)
    <2>1. ~(h.ts >= ExtLimit)
        BY <1>6 DEF is_header
    <2>2. h.ts = v.ts \/ TimeOdd(o)
        <3>1. v.ts = t.ts
            BY <1>3 DEF AtIs
        <3>2. CASE t.ts < ExtLimit
            BY <1>5, <1>6, <3>1, <3>2
        <3>3. CASE ~(t.ts < ExtLimit)
            <4>1. "truncated" \in o
                BY <1>8, <3>3 DEF Written
            <4> QED
                BY <4>1 DEF TimeOdd
        <3> QED
            BY <3>2, <3>3
    <2> HIDE DEF r
    <2>3. /\ v.opened /\ v.left = v.len /\ v.len > 0 /\ v.last = 0 /\ v.header = 0 /\ ~v.ext
          /\ h.len = v.len /\ h.type = v.type
        BY <1>1, <1>3, <1>6 DEF AtIs, Written, left
    <2>4. v.agreed = (IF old.opened THEN old.agreed ELSE size) /\ v.had_ext = old.had_ext /\ old.left = 0
        BY <1>3 DEF AtIs, Written
    <2> QED
        BY <1>6, <2>1, <2>2, <2>3, <2>4 DEF NewHeader
<1>10. ~is_header(h) => o # {}
    <2> HAVE ~is_header(h)
    <2>1. r >= ExtLimit
        BY <1>6 DEF is_header
    <2>2. t.ts >= ExtLimit
        BY <1>5, <1>8, <2>1
    <2> QED
        BY <2>2 DEF Written
<1> HIDE DEF q, peer2, u, prefix, r
<1>11. /\ n <= v.left /\ (n # Smaller(v.left, v.agreed) => o # {})
       /\ q = Payload(v, n) /\ u = [v EXCEPT !.left = v.left - n] /\ peer2 = [peer EXCEPT ![c] = u]
       /\ prefix = basic(c, 0) \o <<h>>
    BY <1>2, <1>4 DEF q, u, peer2, prefix
<1>12. ChunkGood(F, c, v, u, peer2, msgs, size, o)
    BY <1>2, <1>4, <1>6, <1>7, <1>9, <1>10, <1>11, FirstPiece
<1>13. PieceGood(F, c, t, left, N, zero, peer, msgs, size, o)
    <2>1. v = At(t, left, zero) /\ n = Smaller(left, N)
        BY DEF v, n
    <2> QED
        BY <1>1, <1>2, <1>11, <1>12, <2>1, PieceIsGood
<1> QED
    BY <1>13 DEF zero, left

LEMMA GenUnits ==
    ASSUME NEW c \in Csids, NEW t \in PeerStream, NEW fmt \in 0 .. 3, NEW k \in Nat, NEW n \in Nat
    PROVE  gen_data(c, t, fmt, k + 1, n) \in Seq(Unit)
<1> DEFINE r == t.ts % (ExtLimit + 1)
           no == FALSE
           h == [unit |-> "header", ts |-> r, ext |-> no, len |-> t.len, type |-> t.type]
           e == IF fmt = 0 THEN <<h>> ELSE <<>>
           b == basic(c, fmt)
           x == Cells(t, k + 1, (k + 1) + n - 1)
<1>1. gen_data(c, t, fmt, k + 1, n) = (b \o e) \o x
    BY DEF gen_data
<1>2. b \in Seq(Unit)
    BY BasicUnits
<1>3. x \in Seq(Unit)
    <2>1. (k + 1) + n - 1 = k + n
        OBVIOUS
    <2>2. Cells(t, k + 1, k + n) \in Seq(Cell)
        BY CellsAre
    <2> QED
        BY <2>1, <2>2, CellsAreUnits
<1>4. h \in Unit
    <2>1. t.ts \in Stamps /\ 0 < TsWrap /\ no \in BOOLEAN /\ t.len \in Nat /\ t.type \in Types
        BY PeerParts, StampsAssumption
    <2>2. r \in Stamps
        BY <2>1, ThreeBytes
    <2> HIDE DEF no, r
    <2> QED
        BY <2>1, <2>2, HeaderIs
<1> HIDE DEF h, b, x
<1>5. e \in Seq(Unit)
    <2>1. <<h>> \in Seq(Unit) /\ <<>> \in Seq(Unit)
        BY <1>4
    <2> QED
        BY <2>1
<1> HIDE DEF e
<1>6. Join(Join(b, e), x) \in Seq(Unit)
    BY <1>2, <1>3, <1>5, JoinIsUnits
<1> QED
    BY <1>1, <1>6 DEF Join

(* The chunk of the i-th piece p[i].                                         *)
PieceChunk(c, t, p, i) == gen_data(c, t, IF i = 1 THEN 0 ELSE 3, (i - 1) * tx_size + 1, p[i])

WithPiece(s, c, t, p, i) == s \o PieceChunk(c, t, p, i)

AreChunks(chunks, c, t, p, n) ==
  chunks = [i \in 0 .. n |-> IF i = 0 THEN <<>> ELSE WithPiece(chunks[i - 1], c, t, p, i)]

(* The recursive function of write_data_by_chunk_stream exists.              *)
LEMMA ChunksExist ==
    ASSUME NEW c, NEW t, NEW p, NEW n \in Nat
    PROVE  \E chunks : AreChunks(chunks, c, t, p, n)
<1> DEFINE T == {k \in Nat : \E chunks : AreChunks(chunks, c, t, p, k)}
<1>1. 0 \in T
    <2> DEFINE r == [i \in 0 .. 0 |-> <<>>]
    <2>1. r = [i \in 0 .. 0 |-> IF i = 0 THEN <<>> ELSE WithPiece(r[i - 1], c, t, p, i)]
        OBVIOUS
    <2>2. AreChunks(r, c, t, p, 0)
        BY <2>1, Zenon DEF AreChunks
    <2> QED
        BY <2>2
<1>2. ASSUME NEW k \in Nat, k \in T PROVE k + 1 \in T
    <2>1. PICK r : r = [i \in 0 .. k |-> IF i = 0 THEN <<>> ELSE WithPiece(r[i - 1], c, t, p, i)]
        BY <1>2, Zenon DEF AreChunks
    <2> DEFINE q == [i \in 0 .. k + 1 |-> IF i = k + 1 THEN WithPiece(r[k], c, t, p, k + 1) ELSE r[i]]
    <2>2. ASSUME NEW i \in 0 .. k + 1
          PROVE  q[i] = IF i = 0 THEN <<>> ELSE WithPiece(q[i - 1], c, t, p, i)
        <3>1. CASE i = k + 1
            BY <3>1
        <3>2. CASE i # k + 1 /\ i # 0
            <4>1. i \in 0 .. k /\ i - 1 \in 0 .. k
                BY <3>2
            <4>2. r[i] = WithPiece(r[i - 1], c, t, p, i)
                BY <2>1, <3>2, <4>1
            <4> QED
                BY <3>2, <4>1, <4>2
        <3>3. CASE i = 0
            BY <2>1, <3>3
        <3> QED
            BY <3>1, <3>2, <3>3
    <2>3. q = [i \in 0 .. k + 1 |-> q[i]]
        OBVIOUS
    <2> HIDE DEF q
    <2>4. q = [i \in 0 .. k + 1 |-> IF i = 0 THEN <<>> ELSE WithPiece(q[i - 1], c, t, p, i)]
        BY <2>2, <2>3
    <2>5. AreChunks(q, c, t, p, k + 1)
        BY <2>4, Zenon DEF AreChunks
    <2> QED
        BY <2>5
<1>3. Nat \subseteq T
    BY <1>1, <1>2, SetInduction
<1> QED
    BY <1>3

(* What it computes.                                                         *)
LEMMA WrittenChunks ==
    ASSUME NEW c, NEW t, NEW p, p = pieces(t.len, tx_size), Len(p) \in Nat
    PROVE  \E ch : /\ ch = [i \in 0 .. Len(p) |-> IF i = 0 THEN <<>> ELSE WithPiece(ch[i - 1], c, t, p, i)]
                   /\ write_data_by_chunk_stream(c, t) = ch[Len(p)]
<1>1. \E r : r = [i \in 0 .. Len(p) |-> IF i = 0 THEN <<>> ELSE WithPiece(r[i - 1], c, t, p, i)]
    <2> DEFINE n == Len(p)
    <2>1. n \in Nat
        OBVIOUS
    <2> HIDE DEF n
    <2>2. \E r : AreChunks(r, c, t, p, n)
        BY <2>1, ChunksExist
    <2> QED
        BY <2>2, Zenon DEF n, AreChunks
<1> DEFINE chunks[i \in 0 .. Len(p)] ==
             IF i = 0 THEN <<>>
             ELSE chunks[i - 1] \o gen_data(c, t, IF i = 1 THEN 0 ELSE 3, (i - 1) * tx_size + 1, p[i])
<1>2. chunks = [i \in 0 .. Len(p) |-> IF i = 0 THEN <<>> ELSE WithPiece(chunks[i - 1], c, t, p, i)]
    BY <1>1, Zenon DEF PieceChunk, WithPiece
<1>3. write_data_by_chunk_stream(c, t) = chunks[Len(p)]
    BY Zenon DEF write_data_by_chunk_stream
<1> HIDE DEF chunks
<1> QED
    BY <1>2, <1>3, Zenon

MessageGood(W, R, c, t, last, peer, msgs, size, o) ==
  /\ W \in Seq(Unit)
  /\ Good(Run(R, W), [peer EXCEPT ![c] = At(t, 0, last)], Append(msgs, SentMessage(c, t)),
          NextSize(t, size), o)

(* write_data_by_chunk_stream: a whole message at once.                      *)
LEMMA WholeMessage ==
    ASSUME NEW R \in Automaton, NEW c \in Csids, NEW peer \in [Csids -> PeerStream],
           NEW msgs \in Seq(Message), NEW size \in Sizes, NEW o, Good(R, peer, msgs, size, o),
           NEW t \in PeerStream, Written(peer[c], t, size, o),
           NEW N \in Nat \ {0}, N = tx_size, N # t.agreed /\ t.len > Smaller(N, t.agreed) => o # {},
           NEW W, W = write_data_by_chunk_stream(c, t),
           NEW last, last = IF t.len > N THEN 3 ELSE 0
    PROVE  MessageGood(W, R, c, t, last, peer, msgs, size, o)
<1> DEFINE L == t.len
           p == pieces(L, N)
           Type(i) == IF i = 1 THEN 0 ELSE 3
           g(i) == PieceChunk(c, t, p, i)
<1>1. L \in Nat \ {0} /\ t.opened /\ ~t.ext
    BY PeerParts DEF Written
<1>2. PICK K \in Nat \ {0} : /\ Len(p) = K
                             /\ (K - 1) * N < L /\ L <= K * N
                             /\ \A i \in 1 .. K : p[i] = Smaller(L - (i - 1) * N, N)
    <2> HIDE DEF L
    <2> QED
        BY <1>1, PiecesAre
<1>3. PICK ch : /\ ch = [i \in 0 .. Len(p) |-> IF i = 0 THEN <<>> ELSE WithPiece(ch[i - 1], c, t, p, i)]
                /\ write_data_by_chunk_stream(c, t) = ch[Len(p)]
    <2>1. p = pieces(t.len, tx_size) /\ Len(p) \in Nat
        BY <1>2
    <2> HIDE DEF p
    <2> QED
        BY <2>1, WrittenChunks
<1> HIDE DEF p
<1>4. ch[0] = <<>> /\ W = ch[K] /\ \A i \in 1 .. K : ch[i] = ch[i - 1] \o g(i)
    <2> HIDE DEF g
    <2>1. ch = [i \in 0 .. K |-> IF i = 0 THEN <<>> ELSE ch[i - 1] \o g(i)] /\ W = ch[K]
        BY <1>2, <1>3, Zenon DEF g, WithPiece
    <2>2. 0 \in 0 .. K /\ \A i \in 1 .. K : i \in 0 .. K /\ i # 0
        BY <1>2
    <2> QED
        BY <2>1, <2>2
<1>5. \A i : g(i) = gen_data(c, t, Type(i), (i - 1) * N + 1, p[i])
    BY DEF PieceChunk
<1> HIDE DEF g
<1> DEFINE S(i) == /\ ch[i] \in Seq(Unit)
                   /\ PieceGood(Run(R, ch[i]), c, t, L - (i - 1) * N, N, Type(i), peer, msgs, size, o)
           T == {i \in Nat : i < K => S(i + 1)}
<1>6. 0 \in T
    <2>1. 1 \in 1 .. K /\ (1 - 1) * N = 0 /\ L - 0 = L /\ 0 + 1 = 1 /\ 1 - 1 = 0
        BY <1>1, <1>2
    <2>2. p[1] = Smaller(L, N)
        BY <1>2, <2>1
    <2>3. g(1) = gen_data(c, t, 0, 1, Smaller(L, N))
        BY <1>5, <2>1, <2>2
    <2>4. Smaller(L, N) \in Nat
        BY <1>1 DEF Smaller
    <2>5. g(1) \in Seq(Unit)
        <3>1. 0 \in 0 .. 3 /\ 0 \in Nat
            OBVIOUS
        <3> DEFINE n == Smaller(L, N)
        <3> HIDE DEF n
        <3>2. gen_data(c, t, 0, 0 + 1, n) \in Seq(Unit)
            BY <2>4, <3>1, GenUnits DEF n
        <3> QED
            BY <2>1, <2>3, <3>2 DEF n
    <2>6. ch[1] = g(1)
        <3>1. ch[1] = Join(<<>>, g(1))
            BY <1>4, <2>1 DEF Join
        <3> QED
            BY <2>5, <3>1, JoinEmpty
    <2>7. PieceGood(Run(R, g(1)), c, t, L, N, 0, peer, msgs, size, o)
        BY <2>3, PieceBegins
    <2>8. S(1)
        BY <2>1, <2>5, <2>6, <2>7
    <2> HIDE DEF S
    <2> QED
        BY <2>1, <2>8
<1>7. ASSUME NEW j \in Nat, j \in T PROVE j + 1 \in T
    <2> SUFFICES ASSUME j + 1 < K PROVE S((j + 1) + 1)
        OBVIOUS
    <2> DEFINE i == j + 1
               m == i * N
               l == L - m
               last1 == Type(i)
               A == Run(R, ch[i])
               peer1 == [peer EXCEPT ![c] = At(t, l, last1)]
    <2>1. S(i) /\ i \in Nat \ {0} /\ i < K
        BY <1>2, <1>7
    <2>2. i + 1 \in 1 .. K /\ (i + 1) - 1 = i /\ i + 1 # 1 /\ Type(i + 1) = 3 /\ last1 \in 0 .. 3
        BY <1>2, <2>1
    <2> HIDE DEF i
    <2>3. m \in Nat /\ m < L /\ (i - 1) * N = m - N
        <3>1. i <= K - 1 /\ K - 1 \in Nat
            BY <1>2, <2>1
        <3>2. i * N <= (K - 1) * N
            BY <2>1, <3>1
        <3>3. (i - 1) * N = i * N - N /\ i * N \in Nat
            BY <2>1
        <3> DEFINE x == (K - 1) * N
                   y == (i - 1) * N
        <3>4. x \in Int /\ x < L /\ m <= x
            BY <1>2, <3>1, <3>2
        <3> HIDE DEF x, y
        <3> QED
            BY <1>1, <3>3, <3>4
    <2> HIDE DEF m
    <2>4. l \in Nat /\ l > 0 /\ l <= L /\ L - (m - N) > N /\ (L - (m - N)) - N = l /\ L - l = m
        BY <1>1, <2>3
    <2>5. A \in Automaton /\ ch[i] \in Seq(Unit)
        BY <2>1, RunType
    <2>6. Good(A, peer1, msgs, size, o)
        <3>1. PieceGood(A, c, t, L - (m - N), N, last1, peer, msgs, size, o)
            BY <2>1, <2>3
        <3> DEFINE before == L - (m - N)
        <3> HIDE DEF A, l, last1
        <3>2. before > N => Good(A, [peer EXCEPT ![c] = At(t, before - N, last1)], msgs, size, o)
            BY <3>1, Zenon DEF PieceGood
        <3> QED
            BY <2>4, <3>2
    <2> DEFINE F == Run(A, g(i + 1))
               n == Smaller(l, N)
    <2>7. p[i + 1] = n
        BY <1>2, <2>2 DEF m
    <2>8. g(i + 1) = gen_data(c, t, 3, (t.len - l) + 1, n)
        <3>1. t.len - l = m
            BY <2>4
        <3> HIDE DEF n, l
        <3> QED
            BY <1>5, <2>2, <2>7, <3>1 DEF m
    <2>9. n \in Nat
        BY <2>4 DEF Smaller
    <2>10. g(i + 1) \in Seq(Unit)
        <3> DEFINE k == t.len - l
                   f == 3
        <3>1. k \in Nat /\ f \in 0 .. 3
            BY <2>3, <2>4
        <3> HIDE DEF k, n, f
        <3>2. gen_data(c, t, f, k + 1, n) \in Seq(Unit)
            BY <2>9, <3>1, GenUnits
        <3> QED
            BY <2>8, <3>2 DEF k, f
    <2>11. PieceGood(F, c, t, l, N, 3, peer, msgs, size, o)
        <3>1. F = Run(A, gen_data(c, t, 3, (t.len - l) + 1, Smaller(l, N)))
            BY <2>8
        <3> HIDE DEF F, A, l, last1
        <3> QED
            BY <1>1, <2>2, <2>4, <2>5, <2>6, <3>1, PieceFollows
    <2>12. ch[i + 1] = Join(ch[i], g(i + 1))
        BY <1>4, <2>2 DEF Join
    <2>13. ch[i + 1] \in Seq(Unit)
        BY <2>5, <2>10, <2>12, JoinIsUnits
    <2>14. Run(R, ch[i + 1]) = F
        <3> DEFINE a == ch[i]
                   b == g(i + 1)
        <3> HIDE DEF a, b
        <3>1. Run(R, Join(a, b)) = Run(Run(R, a), b)
            BY <2>5, <2>10, RunJoin DEF a, b
        <3> QED
            BY <2>12, <3>1 DEF a, b
    <2>15. L - ((i + 1) - 1) * N = l
        BY <2>2 DEF m
    <2> HIDE DEF F, l
    <2>16. S(i + 1)
        BY <2>2, <2>11, <2>13, <2>14, <2>15
    <2> QED
        BY <2>16 DEF i
<1> HIDE DEF S
<1>8. Nat \subseteq T
    <2> HIDE DEF T
    <2> QED
        BY <1>6, <1>7, SetInduction
<1>9. S(K)
    <2>1. K - 1 \in Nat /\ K - 1 < K /\ (K - 1) + 1 = K
        BY <1>2
    <2>2. S((K - 1) + 1)
        BY <1>8, <2>1
    <2> QED
        BY <2>1, <2>2
<1> DEFINE l == L - (K - 1) * N
<1>10. l \in Nat /\ l <= N
    <2> DEFINE x == (K - 1) * N
    <2>1. x \in Nat /\ K * N = x + N /\ x < L /\ L <= K * N
        BY <1>2
    <2> HIDE DEF x
    <2>2. L - x \in Nat /\ L - x <= N
        BY <1>1, <2>1
    <2> QED
        BY <2>2 DEF x
<1>11. Type(K) = last
    <2>1. CASE K = 1
        <3>1. L <= N
            BY <1>2, <2>1
        <3> QED
            BY <1>1, <2>1, <3>1
    <2>2. CASE K # 1
        <3>1. (K - 1) * N >= N
            <4>1. K - 1 \in Nat \ {0}
                BY <1>2, <2>2
            <4> DEFINE k == K - 1
            <4> HIDE DEF k
            <4>2. k * N >= N
                BY <4>1 DEF k
            <4> QED
                BY <4>2 DEF k
        <3>2. (K - 1) * N \in Nat
            BY <1>2
        <3>3. L > N
            <4> DEFINE x == (K - 1) * N
            <4>1. x \in Nat /\ x >= N /\ x < L
                BY <1>2, <3>1, <3>2
            <4> HIDE DEF x
            <4> QED
                BY <1>1, <4>1
        <3> QED
            BY <2>2, <3>3
    <2> QED
        BY <2>1, <2>2
<1>12. W \in Seq(Unit) /\ PieceGood(Run(R, W), c, t, l, N, last, peer, msgs, size, o)
    BY <1>4, <1>9, <1>11 DEF S
<1> HIDE DEF l
<1> QED
    BY <1>10, <1>12, Zenon DEF PieceGood, MessageGood

(* The stream of a written message, field by field.                          *)
MessageWritten(t, old, msg, len, type, value, ts, last, agreed) ==
  /\ t \in PeerStream /\ t.opened /\ t.msg = msg /\ t.len = len /\ t.left = old.left
  /\ t.type = type /\ t.value = value /\ t.ts = ts /\ t.header = 0 /\ ~t.ext
  /\ t.last = last /\ t.agreed = agreed /\ t.had_ext = old.had_ext /\ ~t.drifted

LEMMA WriteKeepsInv ==
    ASSUME Inv, NEW c \in Csids, NEW len \in Lengths, NEW type \in Types, NEW value \in Sizes,
           NEW d \in Deltas, WriteMessage(c, len, type, value, d)
    PROVE  Inv'
<1> DEFINE old == tx[c]
           msg == Begun + 1
           ts == (old.ts + d) % TsWrap
           N == tx_size
           last == IF len > N THEN 3 ELSE 0
           agreed == IF old.opened THEN old.agreed ELSE announced
           t == [old EXCEPT !.opened = TRUE, !.msg = msg, !.len = len, !.type = type,
                   !.value = value, !.ts = ts, !.field = ts, !.header = 0, !.ext = FALSE,
                   !.last = last, !.agreed = agreed, !.drifted = FALSE]
           W == write_data_by_chunk_stream(c, t)
           R == Run(Now, Pending)
           o == odd'
           z == announced
<1>1. old \in PeerStream /\ tx \in [Csids -> PeerStream] /\ R \in Automaton /\ TypeOK /\ z \in Sizes
    BY NowType, RunType, AnnouncedIsSize DEF Inv, TypeOK
<1>2. d \in Stamps /\ 0 \in Stamps /\ len \in Nat /\ len > 0 /\ N \in Nat \ {0} /\ N \in Sizes
    BY StampsAssumption, LengthsAssumption, SizesAreNat DEF Stamps, Inv, TypeOK
<1>3. ts \in Stamps /\ msg \in Nat /\ agreed \in Sizes /\ last \in 0 .. 3
    <2>1. old.ts \in Stamps /\ old.agreed \in Sizes
        BY <1>1, PeerParts
    <2> QED
        BY <1>1, <1>2, <2>1, StampSum, BegunIsNat
<1>4. /\ old.left = 0
      /\ wire' = wire \o W
      /\ tx' = [tx EXCEPT ![c] = t]
      /\ odd' = odd \cup (IF tx_size # t.agreed /\ len > Smaller(tx_size, t.agreed)
                          THEN {"size"} ELSE {})
                    \cup (IF ts >= ExtLimit THEN {"truncated"} ELSE {})
      /\ Completed(c, t)
      /\ UNCHANGED <<recv, rd, cs, delivered>>
    BY DEF WriteMessage
<1>5. MessageWritten(t, old, msg, len, type, value, ts, last, agreed)
    <2> DEFINE yes == TRUE
               no == FALSE
               zero == 0
    <2>1. t = [old EXCEPT !.opened = yes, !.msg = msg, !.len = len, !.type = type,
                 !.value = value, !.ts = ts, !.field = ts, !.header = zero, !.ext = no,
                 !.last = last, !.agreed = agreed, !.drifted = no]
        OBVIOUS
    <2>2. yes \in BOOLEAN /\ yes /\ no \in BOOLEAN /\ ~no
        OBVIOUS
    <2>3. zero = 0 /\ zero \in Stamps /\ zero \in 0 .. 2
        BY <1>2
    <2> HIDE DEF old, msg, ts, N, last, agreed, t, R, z, yes, no, zero
    <2> DEFINE v == [old EXCEPT !.opened = yes, !.msg = msg, !.len = len, !.type = type,
                       !.value = value, !.ts = ts]
    <2>4. t = [v EXCEPT !.field = ts, !.header = zero, !.ext = no, !.last = last,
                        !.agreed = agreed, !.drifted = no]
        BY <2>1
    <2>5. /\ v \in PeerStream /\ v.opened = yes /\ v.msg = msg /\ v.len = len /\ v.left = old.left
          /\ v.type = type /\ v.value = value /\ v.ts = ts /\ v.had_ext = old.had_ext
        BY <1>1, <1>2, <1>3, <2>2 DEF PeerStream
    <2> HIDE DEF v
    <2>6. /\ t.opened = v.opened /\ t.msg = v.msg /\ t.len = v.len /\ t.left = v.left
          /\ t.type = v.type /\ t.value = v.value /\ t.ts = v.ts /\ t.had_ext = v.had_ext
        BY <2>2, <2>3, <2>4, <2>5 DEF PeerStream
    <2>7. /\ t.last = last /\ t.header = zero /\ t.ext = no
          /\ t.agreed = agreed /\ t.drifted = no
        BY <2>2, <2>3, <2>4, <2>5 DEF PeerStream
    <2>8. t \in PeerStream
        <3> DEFINE x == [v EXCEPT !.field = ts, !.header = zero, !.ext = no]
        <3>1. t = [x EXCEPT !.last = last, !.agreed = agreed, !.drifted = no]
            BY <2>4
        <3>2. x \in PeerStream
            BY <2>2, <2>3, <2>5 DEF PeerStream
        <3> HIDE DEF x
        <3> QED
            BY <1>3, <2>2, <3>1, <3>2 DEF PeerStream
    <2> QED
        BY <2>2, <2>3, <2>5, <2>6, <2>7, <2>8 DEF MessageWritten
<1> HIDE DEF t
<1>6. t \in PeerStream /\ t.len = len /\ t.left = 0 /\ t.agreed = agreed /\ t.last = last
    BY <1>4, <1>5 DEF MessageWritten
<1>7. Written(old, t, z, o)
    <2>1. t.ts >= ExtLimit => "truncated" \in o
        <3>1. t.ts = ts
            BY <1>5 DEF MessageWritten
        <3> QED
            BY <1>4, <3>1
    <2> HIDE DEF o
    <2> QED
        BY <1>2, <1>4, <1>5, <2>1 DEF Written, MessageWritten
<1>8. N # t.agreed /\ t.len > Smaller(N, t.agreed) => o # {}
    BY <1>4, <1>6
<1>9. Good(R, tx, sent, z, o)
    <2>1. odd \subseteq o
        BY <1>4
    <2>2. Good(R, tx, sent, z, odd)
        BY DEF Inv, Good
    <2> HIDE DEF R, z, o
    <2> QED
        BY <2>1, <2>2, GoodGrows
<1>10. At(t, 0, last) = t
    <2> DEFINE u == At(t, 0, last)
               zero == 0
    <2>1. u = [t EXCEPT !.left = t.left, !.last = t.last]
        BY <1>6 DEF At
    <2> QED
        BY <1>6, <2>1 DEF PeerStream
<1> DEFINE tx2 == [tx EXCEPT ![c] = t]
           F == Run(R, W)
<1>11. W \in Seq(Unit) /\ Good(F, tx2, Append(sent, SentMessage(c, t)), NextSize(t, z), o)
    <2>1. sent \in Seq(Message) /\ last = IF t.len > N THEN 3 ELSE 0
        BY <1>1, <1>6 DEF TypeOK
    <2>2. Written(tx[c], t, z, o)
        BY <1>7
    <2>3. W = write_data_by_chunk_stream(c, t) /\ N = tx_size
        OBVIOUS
    <2> HIDE DEF R, W, z, o, F, last, N
    <2>4. MessageGood(W, R, c, t, last, tx, sent, z, o)
        BY <1>1, <1>2, <1>6, <1>8, <1>9, <2>1, <2>2, <2>3, WholeMessage
    <2> QED
        BY <1>10, <2>4, Zenon DEF F, MessageGood
<1>12. announced' = NextSize(t, z) /\ sent' = Append(sent, SentMessage(c, t))
    <2>1. sent \in Seq(Message)
        BY <1>1 DEF TypeOK
    <2> QED
        BY <1>4, <1>6, <2>1, AnnouncedNext
<1>13. TypeOK'
    <2>1. SentMessage(c, t) \in Message
        BY <1>6, SentIsMessage
    <2>2. sent' \in Seq(Message)
        BY <1>1, <1>12, <2>1 DEF TypeOK
    <2>3. tx' \in [Csids -> PeerStream]
        BY <1>1, <1>4, <1>6
    <2>4. tx_size' \in Sizes
        BY <1>2, <1>4, <1>6, PeerParts DEF Completed
    <2>5. wire' \in Seq(Unit)
        BY <1>1, <1>4, <1>11, JoinIsUnits DEF TypeOK, Join
    <2>6. odd' \in SUBSET {"size", "split", "ext", "truncated"}
        BY <1>1, <1>4 DEF TypeOK
    <2> QED
        BY <1>1, <1>4, <2>2, <2>3, <2>4, <2>5, <2>6 DEF TypeOK
<1>14. PeerOK'
    <2> SUFFICES ASSUME NEW b \in Csids PROVE tx'[b].left <= tx'[b].len
        BY DEF PeerOK
    <2>1. CASE b = c
        BY <1>1, <1>2, <1>4, <1>6, <2>1
    <2>2. CASE b # c
        BY <1>1, <1>4, <2>2 DEF Inv, PeerOK
    <2> QED
        BY <2>1, <2>2
<1>15. Good(F, tx', sent', announced', odd')
    <2>1. tx' = tx2
        BY <1>4
    <2> HIDE DEF F, z, tx2
    <2> QED
        BY <1>11, <1>12, <2>1, Zenon
<1>16. wire' = Join(wire, W)
    BY <1>4 DEF Join
<1> HIDE DEF W
<1> QED
    BY <1>4, <1>11, <1>13, <1>14, <1>15, <1>16, PeerStep

-----------------------------------------------------------------------------
(* The invariant holds.                                                      *)

LEMMA InitInv ==
    ASSUME Init
    PROVE  Inv
<1>1. 0 \in Stamps /\ CHUNK_DEF_SIZE \in Sizes /\ (CHOOSE c \in Csids : TRUE) \in Csids
    BY StampsAssumption, CsidsAssumption DEF Stamps, Sizes
<1>2. TypeOK
    <2>1. tx \in [Csids -> PeerStream]
        BY <1>1 DEF Init, PeerStream, Types
    <2>2. cs \in [Csids -> Stream]
        BY <1>1 DEF Init, Stream, Types
    <2>3. rd \in Reader
        BY <1>1 DEF Init, Reader
    <2>4. /\ tx_size = CHUNK_DEF_SIZE /\ wire = <<>> /\ recv = <<>> /\ sent = <<>>
          /\ delivered = <<>> /\ odd = {}
        BY DEF Init
    <2>5. <<>> \in Seq(Unit) /\ <<>> \in Seq(Message)
        OBVIOUS
    <2> QED
        BY <1>1, <2>1, <2>2, <2>3, <2>4, <2>5 DEF TypeOK
<1>3. PeerOK /\ PhasesOK
    BY DEF Init, PeerOK, PhasesOK
<1>4. Run(Now, Pending) = Now
    <2>1. Pending = <<>>
        <3>1. <<>> \in Seq(Unit)
            OBVIOUS
        <3> QED
            BY <3>1, JoinEmpty DEF Init, Pending
    <2> QED
        BY <2>1, RunEmpty
<1>5. /\ Now.mode = "idle" /\ Now.chunk_size = CHUNK_DEF_SIZE /\ Now.cs = cs
      /\ Now.delivered = <<>>
    BY DEF Init, Now, State
<1>6. announced = CHUNK_DEF_SIZE
    BY DEF Init, announced, LastControl
<1>7. ASSUME NEW c \in Csids PROVE StreamOf(cs[c], tx[c], odd)
    BY DEF Init, StreamOf, Agrees
<1>8. Synced(Now, tx, sent, announced, odd)
    <2>1. sent = <<>>
        BY DEF Init
    <2>2. Len(<<>>) = 0 /\ 1 .. 0 = {}
        OBVIOUS
    <2>3. Len(Now.delivered) = 0 /\ Len(sent) = 0
        BY <1>5, <2>1, <2>2
    <2>4. Matches(Now.delivered, sent, odd)
        BY <2>2, <2>3 DEF Matches
    <2> QED
        BY <1>5, <1>6, <1>7, <2>3, <2>4 DEF Synced
<1> QED
    BY <1>2, <1>3, <1>4, <1>8 DEF Inv

LEMMA PeerKeepsInv ==
    ASSUME Inv, Peer
    PROVE  Inv'
<1>1. /\ CHUNK_DEF_SIZE \in Sizes /\ PeerSizes \subseteq Sizes
      /\ "size" \in Types /\ {"connect", "other"} \subseteq Types
    BY DEF Sizes, Types
<1>2. CASE \E c \in Csids : ContinueMessage(c)
    BY <1>2, ContinueKeepsInv
<1>3. CASE \E c \in Csids, fmt \in 0 .. 3, len \in Lengths, d \in Stamps :
             \/ \E type \in {"connect", "other"} :
                  BeginMessage(c, fmt, len, type, CHUNK_DEF_SIZE, d)
             \/ \E value \in PeerSizes : BeginMessage(c, fmt, len, "size", value, d)
    <2>1. PICK c \in Csids, fmt \in 0 .. 3, len \in Lengths, d \in Stamps :
             \/ \E type \in {"connect", "other"} :
                  BeginMessage(c, fmt, len, type, CHUNK_DEF_SIZE, d)
             \/ \E value \in PeerSizes : BeginMessage(c, fmt, len, "size", value, d)
        BY <1>3
    <2>2. PICK type \in Types, value \in Sizes : BeginMessage(c, fmt, len, type, value, d)
        BY <1>1, <2>1
    <2> QED
        BY <2>2, BeginKeepsInv
<1>4. CASE \E c \in Csids, len \in Lengths, d \in Deltas :
             \/ \E type \in {"connect", "other"} : WriteMessage(c, len, type, CHUNK_DEF_SIZE, d)
             \/ \E value \in PeerSizes : WriteMessage(c, len, "size", value, d)
    <2>1. PICK c \in Csids, len \in Lengths, d \in Deltas :
             \/ \E type \in {"connect", "other"} : WriteMessage(c, len, type, CHUNK_DEF_SIZE, d)
             \/ \E value \in PeerSizes : WriteMessage(c, len, "size", value, d)
        BY <1>4
    <2>2. PICK type \in Types, value \in Sizes : WriteMessage(c, len, type, value, d)
        BY <1>1, <2>1
    <2> QED
        BY <2>2, WriteKeepsInv
<1> QED
    BY <1>2, <1>3, <1>4 DEF Peer

LEMMA SameKeepsInv ==
    ASSUME Inv, UNCHANGED vars
    PROVE  Inv'
<1>1. Now' = Now /\ Pending' = Pending /\ TypeOK' /\ PhasesOK'
    BY DEF Inv, vars, Now, Pending, TypeOK, PhasesOK
<1>2. Run(Now', Pending') = Run(Now, Pending)
    BY <1>1
<1> QED
    BY <1>1, <1>2, SameRun DEF vars

LEMMA NextKeepsInv ==
    ASSUME Inv, [Next]_vars
    PROVE  Inv'
<1>1. CASE Peer
    BY <1>1, PeerKeepsInv
<1>2. CASE Deliver
    BY <1>2, DeliverKeepsInv
<1>3. CASE Read
    BY <1>3, ReadKeepsInv
<1>4. CASE UNCHANGED vars
    BY <1>4, SameKeepsInv
<1> QED
    BY <1>1, <1>2, <1>3, <1>4 DEF Next, Finished

LEMMA InvIsInSync ==
    ASSUME Inv
    PROVE  InSync
<1> SUFFICES ASSUME rd.lost PROVE odd # {}
    BY DEF InSync
<1>1. TypeOK
    BY DEF Inv
<1>2. Now \in Automaton /\ Pending \in Seq(Unit) /\ Now.mode = "lost"
    BY <1>1, NowType, NowParts
<1>3. Run(Now, Pending) = Now
    BY <1>2, RunStays
<1> QED
    BY <1>2, <1>3 DEF Inv, Synced, Astray

(***************************************************************************)
(* Whatever the chunk stream ids, sizes, lengths and timestamps, the state *)
(* of read_chunk_stream, of the chunk_streams and of the peer has its      *)
(* type: in particular timestamp32_ stays a 32-bit number, what is left of *)
(* a message never falls below zero and only payload enters chunk_data.    *)
(***************************************************************************)
THEOREM TypesAlways == Spec => []TypeOK
<1>1. Init => Inv
    BY InitInv
<1>2. Inv /\ [Next]_vars => Inv'
    BY NextKeepsInv
<1>3. Inv => TypeOK
    BY DEF Inv
<1> QED
    BY <1>1, <1>2, <1>3, PTL DEF Spec

(***************************************************************************)
(* read_chunk_stream takes headers for headers and payload for payload,    *)
(* however chunks interleave and wherever TCP cuts them, unless one of the *)
(* four odd things happened.                                               *)
(***************************************************************************)
THEOREM InSyncAlways == Spec => []InSync
<1>1. Init => Inv
    BY InitInv
<1>2. Inv /\ [Next]_vars => Inv'
    BY NextKeepsInv
<1>3. Inv => InSync
    BY InvIsInSync
<1> QED
    BY <1>1, <1>2, <1>3, PTL DEF Spec

(***************************************************************************)
(* What read_message_payload delivers are the messages that were sent,     *)
(* each with its own payload, whole and in order: the chunk_data of two    *)
(* interleaved chunk streams never mix, even when the reader is lost.      *)
(***************************************************************************)
THEOREM DataIntactAlways == Spec => []DataIntact
<1>1. Init => Inv
    BY InitInv
<1>2. Inv /\ [Next]_vars => Inv'
    BY NextKeepsInv
<1>3. Inv => DataIntact
    BY DeliveredMatches DEF DataIntact, Matches, Match
<1> QED
    BY <1>1, <1>2, <1>3, PTL DEF Spec

(***************************************************************************)
(* The timestamps that read_msg_format0 to 3 compute are the sender's,     *)
(* across the wrap at 2^32, but for messages since a type 3 chunk that     *)
(* began one with a difference other than 0 right after a type 0 or        *)
(* another type 3 chunk, and for timestamps the odd things disturb.        *)
(***************************************************************************)
THEOREM TimestampsExactAlways == Spec => []TimestampsExact
<1>1. Init => Inv
    BY InitInv
<1>2. Inv /\ [Next]_vars => Inv'
    BY NextKeepsInv
<1>3. Inv => TimestampsExact
    BY DeliveredMatches DEF TimestampsExact, Matches, Match, TimeOdd
<1> QED
    BY <1>1, <1>2, <1>3, PTL DEF Spec
=============================================================================
