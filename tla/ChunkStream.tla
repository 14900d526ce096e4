---------------------------- MODULE ChunkStream -----------------------------
(***************************************************************************)
(* The reading side of an RTMP connection: rtmp_session_base's             *)
(* read_chunk_stream and the chunk_streams it fills, fed by a peer that    *)
(* cuts messages into chunks and interleaves the chunks of several chunk   *)
(* streams, over a TCP connection that delivers the bytes in any portions. *)
(*                                                                         *)
(* The bytes are abstracted to units.  A unit is what the code asks for    *)
(* with one require(): the first part of a basic header, its second part   *)
(* (long chunk stream ids), a message header of type 0, 1 or 2 with its    *)
(* extended timestamp, the extended timestamp of a type 3 chunk, or one    *)
(* cell of payload.  A cell and the first part of a basic header are one   *)
(* byte each; no four bytes of payload look like a timestamp.  When the    *)
(* reader takes a unit for what it is not, the connection is lost: from    *)
(* there on it reads garbage.                                              *)
(*                                                                         *)
(* The peer obeys the RTMP rules of the four chunk types.  It opens no two *)
(* ids that cs_map_'s uint8_t key confuses, and sends no empty message.    *)
(***************************************************************************)
EXTENDS Integers, Sequences, FiniteSets

CONSTANTS
  Csids,                \* chunk stream ids the peer uses
  LongCsids,            \* those whose basic header has a second part
  CHUNK_DEF_SIZE,       \* chunk size both sides start with (128 bytes)
  g_config_chunk_size,  \* the size the server announces on connect (4096)
  PeerSizes,            \* sizes the peer may change to
  Lengths,              \* message lengths, in cells
  Deltas,               \* timestamp differences between messages
  ExtLimit,             \* first timestamp that is written extended (0xffffff)
  EXT_TS_LEN,           \* bytes of an extended timestamp (4)
  TsWrap,               \* timestamp32_ is a uint32_t: 2^32 in the code
  MaxMessages,          \* bound: messages sent
  MaxWire               \* bound: units on their way when the peer sends more

ASSUME CsidsAssumption ==
  Csids # {} /\ IsFiniteSet(Csids) /\ LongCsids \subseteq Csids
ASSUME SizesAssumption ==
  {CHUNK_DEF_SIZE, g_config_chunk_size} \cup PeerSizes \subseteq Nat \ {0}
ASSUME LengthsAssumption == Lengths \subseteq Nat \ {0}
ASSUME StampsAssumption ==
  TsWrap \in Nat \ {0} /\ ExtLimit \in Nat /\ Deltas \subseteq 0 .. TsWrap - 1
ASSUME ExtLenAssumption == EXT_TS_LEN \in Nat \ {0}
ASSUME BoundsAssumption == MaxMessages \in Nat /\ MaxWire \in Nat

VARIABLES
  tx,         \* the peer's state of each chunk stream
  tx_size,    \* the peer's chunk size
  wire,       \* units on their way
  recv,       \* recv_buffer_
  rd,         \* read_chunk_stream's state
  cs,         \* cs_map_
  sent,       \* history: messages whose last chunk was sent, in that order
  delivered,  \* history: messages that became ready, in order
  odd         \* history: what the peer or the network did that the reader mistakes

vars == <<tx, tx_size, wire, recv, rd, cs, sent, delivered, odd>>

Types == {"size", "connect", "other"}
Stamps == 0 .. TsWrap - 1
Sizes == {CHUNK_DEF_SIZE, g_config_chunk_size} \cup PeerSizes

Cell == [unit : {"cell"}, msg : Nat, index : Nat, value : Sizes]
Unit == [unit : {"basic"}, csid : Csids, fmt : 0 .. 3]
          \cup [unit : {"basic2"}]
          \cup [unit : {"header"}, ts : Stamps, ext : BOOLEAN, len : Nat, type : Types]
          \cup [unit : {"ext"}, ts : Stamps]
          \cup Cell

(***************************************************************************)
(* The peer's chunk stream: the message in hand (value is the chunk size a *)
(* "size" message announces) and how much of it is left to send, the last  *)
(* header's type, its timestamp field (the time itself in type 0, else a   *)
(* difference) and whether it was extended, the last chunk's type.  The    *)
(* rest is history: agreed is the size the reader had when it met this     *)
(* stream, had_ext that some header was extended, drifted that the reader  *)
(* has lost track of the timestamp.                                        *)
(***************************************************************************)
PeerStream == [opened : BOOLEAN, msg : Nat, len : Nat, left : Nat, type : Types, value : Sizes,
               ts : Stamps, field : Stamps, header : 0 .. 2, ext : BOOLEAN, last : 0 .. 3,
               agreed : Sizes, had_ext : BOOLEAN, drifted : BOOLEAN]

(* rtmp_session_base: fmt_ready_, fmt_, csid_, chunk_size_; lost is ours. *)
Reader == [fmt_ready : BOOLEAN, fmt : 0 .. 3, csid : Csids, chunk_size : Sizes, lost : BOOLEAN]

(* chunk_stream *)
Stream == [known : BOOLEAN, phase : {"header", "payload"}, fmt : 0 .. 3, chunk_size : Sizes,
           ext_ts_flag : BOOLEAN, timestamp32 : Stamps, timestamp_delta : Stamps,
           msg_len : Nat, type_id : Types, remain : Nat, chunk_data : Seq(Cell)]

Message == [csid : Csids, type : Types, ts : Stamps, drifted : BOOLEAN, data : Seq(Cell)]

TypeOK ==
  /\ tx \in [Csids -> PeerStream]
  /\ tx_size \in Sizes
  /\ wire \in Seq(Unit) /\ recv \in Seq(Unit)
  /\ rd \in Reader
  /\ cs \in [Csids -> Stream]
  /\ sent \in Seq(Message) /\ delivered \in Seq(Message)
  /\ odd \in SUBSET {"size", "split", "ext", "truncated"}

Init ==
  /\ tx = [c \in Csids |->
             [opened |-> FALSE, msg |-> 0, len |-> 0, left |-> 0, type |-> "other",
              value |-> CHUNK_DEF_SIZE, ts |-> 0, field |-> 0, header |-> 0, ext |-> FALSE,
              last |-> 0, agreed |-> CHUNK_DEF_SIZE, had_ext |-> FALSE, drifted |-> FALSE]]
  /\ tx_size = CHUNK_DEF_SIZE
  /\ wire = <<>> /\ recv = <<>>
  /\ rd = [fmt_ready |-> FALSE, fmt |-> 0, csid |-> CHOOSE c \in Csids : TRUE,
           chunk_size |-> CHUNK_DEF_SIZE, lost |-> FALSE]
  /\ cs = [c \in Csids |->
             [known |-> FALSE, phase |-> "header", fmt |-> 0, chunk_size |-> CHUNK_DEF_SIZE,
              ext_ts_flag |-> FALSE, timestamp32 |-> 0, timestamp_delta |-> 0, msg_len |-> 0,
              type_id |-> "other", remain |-> 0, chunk_data |-> <<>>]]
  /\ sent = <<>> /\ delivered = <<>>
  /\ odd = {}

-----------------------------------------------------------------------------
(* The peer. *)
Smaller(a, b) == IF a < b THEN a ELSE b

Cells(t, from, to) ==
  [i \in 1 .. to - from + 1 |->
     [unit |-> "cell", msg |-> t.msg, index |-> from + i - 1, value |-> t.value]]

basic(c, fmt) ==
  <<[unit |-> "basic", csid |-> c, fmt |-> fmt]>>
    \o (IF c \in LongCsids THEN <<[unit |-> "basic2"]>> ELSE <<>>)

(* A type 3 chunk repeats the extended timestamp of the last header. *)
extension(t) ==
  IF t.ext THEN <<[unit |-> "ext", ts |-> t.field]>> ELSE <<>>

(***************************************************************************)
(* The size the reader will have once it has handled all that was sent: it *)
(* takes the announced ones, and its own when it answers a connect.        *)
(***************************************************************************)
LastControl(type) ==
  \E i \in 1 .. Len(sent) :
    /\ sent[i].type = type
    /\ \A j \in i + 1 .. Len(sent) : sent[j].type = "other"

announced ==
  IF LastControl("connect") THEN g_config_chunk_size
  ELSE IF LastControl("size") THEN tx_size
  ELSE CHUNK_DEF_SIZE

Completed(c, t) ==
  /\ sent' = Append(sent, [csid |-> c, type |-> t.type, ts |-> t.ts,
                           drifted |-> t.drifted, data |-> Cells(t, 1, t.len)])
  /\ tx_size' = IF t.type = "size" THEN t.value ELSE tx_size

(***************************************************************************)
(* The payload of one chunk, t being the stream with its message in hand:  *)
(* it is cut at the peer's size, the reader cuts it at t.agreed.           *)
(***************************************************************************)
SendPayload(c, t, prefix, harm) ==
  LET n == Smaller(t.left, tx_size)
      from == t.len - t.left + 1
      u == [t EXCEPT !.left = @ - n]
  IN  /\ wire' = wire \o prefix \o Cells(t, from, from + n - 1)
      /\ tx' = [tx EXCEPT ![c] = u]
      /\ odd' = odd \cup harm
                  \cup (IF n # Smaller(t.left, t.agreed) THEN {"size"} ELSE {})
      /\ IF u.left > 0 THEN UNCHANGED <<sent, tx_size>> ELSE Completed(c, t)
      /\ UNCHANGED <<recv, rd, cs, delivered>>

MaySend == Len(wire) <= MaxWire /\ ~rd.lost

InHand == {c \in Csids : tx[c].left > 0}
Begun == Len(sent) + Cardinality(InHand)
MayBegin == Begun < MaxMessages /\ MaySend

(***************************************************************************)
(* What a type 3 chunk that begins a message adds to the time: the last    *)
(* header's difference.  After a type 0 header senders differ: some add    *)
(* its timestamp, as the RTMP specification has it, some add nothing.      *)
(***************************************************************************)
repeated(t) == IF t.header = 0 THEN {0, t.field} ELSE {t.field}

(***************************************************************************)
(* Where a type 3 chunk begins a message the reader expects an extension   *)
(* once it has seen one in any header of the stream, but never after       *)
(* another type 3 chunk; the peer repeats the one of the last header.      *)
(***************************************************************************)
Misled(t) == t.had_ext /\ (t.ext <=> t.last = 3)

(***************************************************************************)
(* A new message with a header of type fmt: the absolute time in type 0, a *)
(* difference in 1 and 2; type 2 keeps the length and the type, type 3 the *)
(* difference too.  Control messages and connect fit in one chunk.         *)
(***************************************************************************)
BeginMessage(c, fmt, len, type, value, delta) ==
  LET old == tx[c]
      ts == (old.ts + delta) % TsWrap
      field == IF fmt = 0 THEN ts ELSE delta
      t == [old EXCEPT !.opened = TRUE, !.msg = Begun + 1, !.len = len, !.left = len,
              !.type = type, !.value = value, !.ts = ts, !.last = fmt,
              !.field = IF fmt = 3 THEN @ ELSE field,
              !.header = IF fmt = 3 THEN @ ELSE fmt,
              !.ext = IF fmt = 3 THEN @ ELSE field >= ExtLimit,
              !.had_ext = @ \/ (fmt # 3 /\ field >= ExtLimit),
              !.agreed = IF old.opened THEN @ ELSE announced,
              !.drifted = fmt # 0 /\ (@ \/ (fmt = 3 /\ old.last \in {0, 3} /\ delta # 0))]
      header == <<[unit |-> "header", ts |-> field, ext |-> field >= ExtLimit,
                    len |-> len, type |-> type]>>
  IN  /\ MayBegin
      /\ old.left = 0
      /\ fmt # 0 => old.opened
      /\ fmt \in {2, 3} => len = old.len /\ type = old.type
      /\ delta \in IF fmt = 3 THEN repeated(old) ELSE Deltas
      /\ type # "other" => len = 1
      /\ IF fmt = 3
         THEN SendPayload(c, t, basic(c, 3) \o extension(old), IF Misled(old) THEN {"ext"} ELSE {})
         ELSE SendPayload(c, t, basic(c, fmt) \o header, {})

(* The next chunk of a message. *)
ContinueMessage(c) ==
  /\ tx[c].left > 0 /\ MaySend
  /\ SendPayload(c, [tx[c] EXCEPT !.last = 3], basic(c, 3) \o extension(tx[c]),
                 IF tx[c].ext /\ tx[c].header # 0 THEN {"ext"} ELSE {})

(***************************************************************************)
(* The peer is the writing side of this code.  write_data_by_chunk_stream  *)
(* sends a whole message at once: a type 0 chunk and type 3 chunks, all of *)
(* the chunk size but the last.  gen_data writes three bytes of timestamp  *)
(* and never the extension.  The callers use the short ids 2, 3, 4 and 6.  *)
(***************************************************************************)
pieces(len, size) ==
  LET cs_count == len \div size + (IF len % size > 0 THEN 1 ELSE 0)
  IN  [i \in 1 .. cs_count |->
         IF i = cs_count /\ len % size > 0 THEN len % size ELSE size]

gen_data(c, t, fmt, from, n) ==
  basic(c, fmt)
    \o (IF fmt = 0 THEN <<[unit |-> "header", ts |-> t.ts % (ExtLimit + 1), ext |-> FALSE,
                          len |-> t.len, type |-> t.type]>>
       ELSE <<>>)
    \o Cells(t, from, from + n - 1)

write_data_by_chunk_stream(c, t) ==
  LET piece == pieces(t.len, tx_size)
      chunks[i \in 0 .. Len(piece)] ==
        IF i = 0 THEN <<>>
        ELSE chunks[i - 1]
               \o gen_data(c, t, IF i = 1 THEN 0 ELSE 3, (i - 1) * tx_size + 1, piece[i])
  IN  chunks[Len(piece)]

WriteMessage(c, len, type, value, delta) ==
  LET ts == (tx[c].ts + delta) % TsWrap
      t == [tx[c] EXCEPT !.opened = TRUE, !.msg = Begun + 1, !.len = len, !.type = type,
              !.value = value, !.ts = ts, !.field = ts, !.header = 0, !.ext = FALSE,
              !.last = IF len > tx_size THEN 3 ELSE 0,
              !.agreed = IF tx[c].opened THEN @ ELSE announced,
              !.drifted = FALSE]
  IN  /\ MayBegin
      /\ tx[c].left = 0 /\ c \notin LongCsids
      /\ type # "other" => len = 1
      /\ wire' = wire \o write_data_by_chunk_stream(c, t)
      /\ tx' = [tx EXCEPT ![c] = t]
      /\ odd' = odd \cup (IF tx_size # t.agreed /\ len > Smaller(tx_size, t.agreed)
                          THEN {"size"} ELSE {})
                    \cup (IF ts >= ExtLimit THEN {"truncated"} ELSE {})
      /\ Completed(c, t)
      /\ UNCHANGED <<recv, rd, cs, delivered>>

(* TCP delivers in order, in portions of any size. *)
Deliver ==
  /\ wire # <<>> /\ ~rd.lost
  /\ recv' = Append(recv, Head(wire))
  /\ wire' = Tail(wire)
  /\ UNCHANGED <<tx, tx_size, rd, cs, sent, delivered, odd>>

-----------------------------------------------------------------------------
(* The reader. *)
Lose == /\ rd' = [rd EXCEPT !.lost = TRUE]
        /\ UNCHANGED <<tx, tx_size, wire, recv, cs, sent, delivered, odd>>

From(s, n) == SubSeq(s, n, Len(s))

Reading == recv # <<>> /\ ~rd.lost

(***************************************************************************)
(* read_fmt_csid and the look-up in cs_map_.  The first part is consumed   *)
(* before the second is asked for: when the second has not arrived, the    *)
(* next call takes it for a first part.                                    *)
(***************************************************************************)
ReadBasicHeader ==
  LET b == Head(recv)
      whole == b.csid \in LongCsids => Len(recv) >= 2
      parts == IF b.csid \in LongCsids THEN 2 ELSE 1
  IN  /\ Reading /\ ~rd.fmt_ready /\ b.unit = "basic"
      /\ rd' = [rd EXCEPT !.fmt_ready = whole, !.fmt = b.fmt, !.csid = b.csid]
      /\ recv' = From(recv, IF whole THEN parts + 1 ELSE 2)
      /\ odd' = IF whole THEN odd ELSE odd \cup {"split"}
      /\ cs' = IF whole /\ ~cs[b.csid].known
               THEN [cs EXCEPT ![b.csid].known = TRUE, ![b.csid].fmt = b.fmt,
                               ![b.csid].chunk_size = rd.chunk_size]
               ELSE cs
      /\ UNCHANGED <<tx, tx_size, wire, sent, delivered>>

MistakeBasicHeader ==
  /\ Reading /\ ~rd.fmt_ready /\ Head(recv).unit # "basic"
  /\ Lose

InPhase(p) == rd.fmt_ready /\ ~rd.lost /\ cs[rd.csid].phase = p

(* Variant: the timestamp of a type 2 chunk is not added. *)
read_msg_format_no_delta(s, fmt, h) ==
  [s EXCEPT !.phase = "payload", !.fmt = fmt,
     !.ext_ts_flag = @ \/ h.ts >= ExtLimit,
     !.timestamp32 = IF fmt = 0 THEN h.ts ELSE IF fmt = 1 THEN (@ + h.ts) % TsWrap ELSE @,
     !.timestamp_delta = IF fmt = 0 THEN 0 ELSE h.ts,
     !.msg_len = IF fmt = 2 THEN @ ELSE h.len,
     !.type_id = IF fmt = 2 THEN @ ELSE h.type,
     !.remain = IF fmt = 2 THEN s.msg_len ELSE h.len]

(* read_msg_format0, 1 and 2. *)
read_msg_format(s, fmt, h) ==
  [s EXCEPT !.phase = "payload", !.fmt = fmt,
     !.ext_ts_flag = @ \/ h.ts >= ExtLimit,
     !.timestamp32 = IF fmt = 0 THEN h.ts ELSE (@ + h.ts) % TsWrap,
     !.timestamp_delta = IF fmt = 0 THEN 0 ELSE h.ts,
     !.msg_len = IF fmt = 2 THEN @ ELSE h.len,
     !.type_id = IF fmt = 2 THEN @ ELSE h.type,
     !.remain = IF fmt = 2 THEN s.msg_len ELSE h.len]

(* A header is whole when it has the extension its timestamp calls for. *)
is_header(h) == h.unit = "header" /\ (h.ts >= ExtLimit => h.ext)

ReadHeader ==
  /\ InPhase("header") /\ rd.fmt # 3 /\ Reading /\ is_header(Head(recv))
  /\ cs' = [cs EXCEPT ![rd.csid] = read_msg_format(@, rd.fmt, Head(recv))]
  /\ recv' = Tail(recv)
  /\ UNCHANGED <<tx, tx_size, wire, rd, sent, delivered, odd>>

MistakeHeader ==
  /\ InPhase("header") /\ rd.fmt # 3 /\ Reading /\ ~is_header(Head(recv))
  /\ Lose

(***************************************************************************)
(* read_msg_format3.  A chunk that begins a message adds the difference of *)
(* a type 1 or 2 chunk before it, and nothing after another type 3 chunk;  *)
(* one that continues a message skips the next four bytes when they are    *)
(* the timestamp.  Either way it first asks for four bytes, even when the  *)
(* chunk has fewer.                                                        *)
(***************************************************************************)
begins(s) == s.remain = 0

takes_ext(s) == s.ext_ts_flag /\ (begins(s) => s.fmt # 3)

delta3(s, h) ==
  CASE s.fmt \in {1, 2} -> IF s.ext_ts_flag THEN h.ts ELSE s.timestamp_delta
    [] s.fmt \in {0, 3} -> 0

read_msg_format3(s, h) ==
  IF begins(s)
  THEN [s EXCEPT !.phase = "payload", !.fmt = 3, !.remain = s.msg_len, !.chunk_data = <<>>,
                 !.timestamp32 = IF s.fmt = 0 /\ s.ext_ts_flag THEN h.ts
                                 ELSE (@ + delta3(s, h)) % TsWrap]
  ELSE [s EXCEPT !.phase = "payload", !.fmt = 3]

(* A message header and an extended timestamp are four bytes or more. *)
require_ext == Len(recv) >= EXT_TS_LEN \/ \E i \in 1 .. Len(recv) : recv[i].unit \in {"header", "ext"}

ReadHeader3 ==
  LET s == cs[rd.csid]
      h == Head(recv)
      wrong == takes_ext(s) /\ begins(s) /\ h.unit # "ext"
      skip == takes_ext(s) /\ h.unit = "ext" /\ (begins(s) \/ h.ts = s.timestamp32)
  IN  /\ InPhase("header") /\ rd.fmt = 3
      /\ takes_ext(s) => require_ext /\ ~wrong
      /\ cs' = [cs EXCEPT ![rd.csid] = read_msg_format3(s, h)]
      /\ recv' = IF skip THEN Tail(recv) ELSE recv
      /\ UNCHANGED <<tx, tx_size, wire, rd, sent, delivered, odd>>

(* Payload is taken for an extended timestamp. *)
MistakeHeader3 ==
  /\ InPhase("header") /\ rd.fmt = 3 /\ Reading /\ require_ext
  /\ takes_ext(cs[rd.csid]) /\ begins(cs[rd.csid]) /\ Head(recv).unit # "ext"
  /\ Lose

(***************************************************************************)
(* read_message_payload; a message that is complete is handled (a chunk    *)
(* size is taken over, a connect is answered with the server's own size)   *)
(* and the chunk stream is reset.                                          *)
(***************************************************************************)
(* Variant: a whole chunk is asked for, whatever is left of the message. *)
require_len_whole(s) == s.chunk_size

require_len(s) == Smaller(s.remain, s.chunk_size)

(* Variant: every chunk makes a message. *)
is_ready_early(s, n) == TRUE

is_ready(s, n) == s.remain = n

Mistaken(n) == \E i \in 1 .. Smaller(n, Len(recv)) : recv[i].unit # "cell"

(* Variant: the size is not taken over. *)
handled_size_ignored(s, data) ==
  IF s.type_id = "connect" THEN g_config_chunk_size ELSE rd.chunk_size

handled_size(s, data) ==
  CASE s.type_id = "size" -> data[1].value
    [] s.type_id = "connect" -> g_config_chunk_size
    [] s.type_id = "other" -> rd.chunk_size

ReadPayload ==
  LET s == cs[rd.csid]
      n == require_len(s)
      data == s.chunk_data \o SubSeq(recv, 1, n)
      ready == is_ready(s, n)
  IN  /\ InPhase("payload") /\ Len(recv) >= n /\ ~Mistaken(n)
      /\ recv' = From(recv, n + 1)
      /\ cs' = [cs EXCEPT ![rd.csid] =
                  [s EXCEPT !.phase = "header", !.remain = @ - n,
                            !.chunk_data = IF ready THEN <<>> ELSE data]]
      /\ rd' = [rd EXCEPT !.fmt_ready = FALSE,
                          !.chunk_size = IF ready THEN handled_size(s, data) ELSE @]
      /\ delivered' = IF ready
                      THEN Append(delivered, [csid |-> rd.csid, type |-> s.type_id,
                                              ts |-> s.timestamp32, drifted |-> FALSE, data |-> data])
                      ELSE delivered
      /\ UNCHANGED <<tx, tx_size, wire, sent, odd>>

MistakePayload ==
  /\ InPhase("payload") /\ Mistaken(require_len(cs[rd.csid]))
  /\ Lose

(***************************************************************************)
(* All that was sent has arrived, and the reader asks for four bytes where *)
(* the chunk it is in, the last one so far, has fewer.                     *)
(***************************************************************************)
Withheld ==
  /\ wire = <<>>
  /\ InPhase("header") /\ rd.fmt = 3
  /\ takes_ext(cs[rd.csid]) /\ ~require_ext

(* All was sent and read, or the reader is lost or waits for more. *)
Finished ==
  /\ \/ rd.lost
     \/ /\ Begun = MaxMessages /\ InHand = {}
        /\ (wire = <<>> /\ recv = <<>>) \/ Withheld
  /\ UNCHANGED vars

Peer ==
  \/ \E c \in Csids : ContinueMessage(c)
  \/ MayBegin /\ \E c \in Csids, fmt \in 0 .. 3, len \in Lengths, d \in Stamps :
       \/ \E type \in {"connect", "other"} :
            BeginMessage(c, fmt, len, type, CHUNK_DEF_SIZE, d)
       \/ \E value \in PeerSizes : BeginMessage(c, fmt, len, "size", value, d)
  \/ MayBegin /\ \E c \in Csids, len \in Lengths, d \in Deltas :
       \/ \E type \in {"connect", "other"} : WriteMessage(c, len, type, CHUNK_DEF_SIZE, d)
       \/ \E value \in PeerSizes : WriteMessage(c, len, "size", value, d)

Read ==
  \/ ReadBasicHeader \/ MistakeBasicHeader
  \/ ReadHeader \/ MistakeHeader
  \/ ReadHeader3 \/ MistakeHeader3
  \/ ReadPayload \/ MistakePayload

Next == Peer \/ Deliver \/ Read \/ Finished

Spec == Init /\ [][Next]_vars
-----------------------------------------------------------------------------
(***************************************************************************)
(* The reader takes headers for headers and payload for payload, however   *)
(* chunks interleave and wherever TCP cuts them, but for four things: a    *)
(* chunk stream it knows is cut at a size announced later, or announced by *)
(* nobody but itself ("size"); the parts of a basic header arrive in two   *)
(* reads ("split"); a type 3 chunk continues a message whose difference is *)
(* extended, or begins one and has an extension where the reader expects   *)
(* none or none where it expects one ("ext"); a timestamp its own writer   *)
(* cuts to three bytes ("truncated").                                      *)
(***************************************************************************)
InSync == rd.lost => odd # {}

(***************************************************************************)
(* A message is delivered with its own payload, whole and in order, in the *)
(* order in which the last chunks were sent, as long as the reader is not  *)
(* lost: the payloads of interleaved chunk streams never mix.              *)
(***************************************************************************)
DataIntact ==
  /\ Len(delivered) <= Len(sent)
  /\ \A i \in 1 .. Len(delivered) :
       /\ delivered[i].csid = sent[i].csid
       /\ delivered[i].type = sent[i].type
       /\ delivered[i].data = sent[i].data

(***************************************************************************)
(* Its timestamp is the sender's, across the four header types and the     *)
(* wrap.  Not so when the message, or one since the last type 0 header of  *)
(* its chunk stream, began with a type 3 chunk that stands for a           *)
(* difference other than 0 and came right after a type 0 or another type 3 *)
(* chunk: there the reader adds nothing.                                   *)
(***************************************************************************)
TimestampsExact ==
  odd \cap {"ext", "truncated"} = {} =>
    \A i \in 1 .. Len(delivered) : delivered[i].ts = sent[i].ts \/ sent[i].drifted

(***************************************************************************)
(* No message stays behind: when all that was sent has arrived and the     *)
(* reader can do no more with it, every message whose last chunk was sent  *)
(* has been delivered, unless the reader is lost, or the last chunk is     *)
(* shorter than the four bytes read_msg_format3 asks for.                  *)
(***************************************************************************)
NoMessageIsStuck ==
  wire = <<>> /\ ~ENABLED Read => Len(delivered) = Len(sent) \/ rd.lost \/ Withheld
=============================================================================
