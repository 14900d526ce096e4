-------------------------- MODULE MediaStreamProofs --------------------------
(***************************************************************************)
(* Lemmas about the operations of media_stream_manager: what each one      *)
(* keeps true of a stream (StreamInv) and what it does to writer_map and   *)
(* publisher_exist.  The servers' invariants follow from these without     *)
(* looking inside a stream.                                                *)
(***************************************************************************)
EXTENDS MediaStreamManager, SequenceTheorems, TLAPS

(***************************************************************************)
(* The inductive invariant of one stream.                                  *)
(***************************************************************************)
Registered(s) == s.inited \subseteq s.writer_map

Fresh(s) == \A w \in Writers : w \notin s.inited => s.view[w] = EmptyView

CacheIsSuffix(s) == EndsWith(s.published, s.cache.packet_list)

ViewIsSuffix(s) == \A w \in s.inited : EndsWith(s.published, s.view[w].frames)

HasHeaders(s, w) ==
  /\ s.view[w].video = s.cache.video_hdr
  /\ s.view[w].audio = s.cache.audio_hdr
  /\ w \in MetadataWriters => s.view[w].metadata = s.cache.metadata_hdr

ViewHasHeaders(s) == \A w \in s.inited : HasHeaders(s, w)

Erased(s) == ~s.live => s = NoStream

StreamInv(s) ==
  /\ s \in Stream
  /\ Registered(s)
  /\ Fresh(s)
  /\ CacheIsSuffix(s)
  /\ ViewIsSuffix(s)
  /\ ViewHasHeaders(s)
  /\ Erased(s)

Used(s) == s.live => s.publisher_exist \/ s.writer_map # {}

StreamsInv(m) ==
  /\ m \in StreamMap
  /\ \A k \in Keys : StreamInv(m[k]) /\ Used(m[k])

-----------------------------------------------------------------------------
(* Sequences that end alike still do after the same frame is appended. *)
LEMMA AppendEndsWith ==
  ASSUME NEW t \in Seq(Frame), NEW s \in Seq(Frame), NEW p \in Frame,
         EndsWith(t, s)
  PROVE  EndsWith(Append(t, p), Append(s, p))
<1> DEFINE tp == Append(t, p)
           sp == Append(s, p)
<1>1. /\ Len(tp) = Len(t) + 1
      /\ Len(sp) = Len(s) + 1
      /\ tp[Len(t) + 1] = p
      /\ sp[Len(s) + 1] = p
      /\ \A i \in 1 .. Len(t) : tp[i] = t[i]
      /\ \A i \in 1 .. Len(s) : sp[i] = s[i]
  BY AppendProperties
<1>2. /\ Len(s) \in Nat /\ Len(t) \in Nat /\ Len(s) <= Len(t)
      /\ \A i \in 1 .. Len(s) : s[i] = t[Len(t) - Len(s) + i]
  BY DEF EndsWith
<1> HIDE DEF tp, sp
<1>3. ASSUME NEW i \in 1 .. Len(sp)
      PROVE  sp[i] = tp[Len(tp) - Len(sp) + i]
  <2>1. CASE i = Len(s) + 1
    BY <1>1, <1>2, <2>1
  <2>2. CASE i \in 1 .. Len(s)
    <3>1. Len(t) - Len(s) + i \in 1 .. Len(t)
      BY <1>2, <2>2
    <3>2. Len(tp) - Len(sp) + i = Len(t) - Len(s) + i
      BY <1>1, <1>2, <2>2
    <3> QED
      BY <1>1, <1>2, <2>2, <3>1, <3>2
  <2> QED
    BY <1>1, <1>2, <2>1, <2>2
<1>4. EndsWith(tp, sp)
  BY <1>1, <1>2, <1>3 DEF EndsWith
<1> QED
  BY <1>4 DEF tp, sp

(* The frame appended last is a suffix on its own. *)
LEMMA LastEndsWith ==
  ASSUME NEW t \in Seq(Frame), NEW p \in Frame
  PROVE  EndsWith(Append(t, p), <<p>>)
  BY DEF EndsWith

LEMMA EmptyIsNeutral ==
  ASSUME NEW s \in Seq(Frame)
  PROVE  <<>> \o s = s
  OBVIOUS

-----------------------------------------------------------------------------
(* The streams that are not in the map, and a new one, satisfy StreamInv. *)
LEMMA NoStreamInv == StreamInv(NoStream) /\ Used(NoStream)
<1>1. EmptyView \in View
  BY DEF EmptyView, View
<1>2. EmptyCache \in Cache
  BY GopCountWrapAssumption DEF EmptyCache, Cache
<1>3. NoStream \in Stream
  BY <1>1, <1>2 DEF NoStream, Stream
<1>4. CacheIsSuffix(NoStream)
  BY DEF CacheIsSuffix, NoStream, EmptyCache, EndsWith
<1> QED
  BY <1>3, <1>4 DEF NoStream, StreamInv, Used, Registered, Fresh, ViewIsSuffix,
     ViewHasHeaders, Erased

LEMMA FindInv ==
  ASSUME NEW m, StreamsInv(m), NEW k \in Keys
  PROVE  /\ StreamInv(find(m, k))
         /\ find(m, k).live
         /\ find(m, k).writer_map = m[k].writer_map
         /\ find(m, k).publisher_exist = m[k].publisher_exist
<1>1. CASE m[k].live
  BY <1>1 DEF find, StreamsInv
<1>2. CASE ~m[k].live
  <2>1. m[k] = NoStream
    BY <1>2 DEF StreamsInv, StreamInv, Erased
  <2>2. StreamInv(NewStream)
    BY NoStreamInv DEF NewStream, NoStream, StreamInv, Stream, Registered, Fresh,
       CacheIsSuffix, ViewIsSuffix, ViewHasHeaders, Erased
  <2> QED
    BY <1>2, <2>1, <2>2 DEF find, NewStream, NoStream
<1> QED
  BY <1>1, <1>2

-----------------------------------------------------------------------------
(***************************************************************************)
(* gop_cache: insert_packet keeps the cache well formed and a suffix of    *)
(* what was published.                                                     *)
(***************************************************************************)
PublishedAfter(t, p) == IF p.kind \in FrameKinds THEN Append(t, p) ELSE t

LEMMA InsertPacket ==
  ASSUME NEW c \in Cache, NEW p \in Packet, NEW t \in Seq(Frame),
         EndsWith(t, c.packet_list)
  PROVE  /\ insert_packet(c, p) \in Cache
         /\ PublishedAfter(t, p) \in Seq(Frame)
         /\ EndsWith(PublishedAfter(t, p), insert_packet(c, p).packet_list)
<1> DEFINE n == (c.gop_count + 1) % GopCountWrap
<1>1. CASE p.kind \in HeaderKinds
  <2>1. p.kind \notin FrameKinds
    BY <1>1 DEF HeaderKinds, FrameKinds
  <2>2. /\ insert_packet(c, p) \in Cache
        /\ insert_packet(c, p).packet_list = c.packet_list
    BY <1>1 DEF insert_packet, insert_header, Cache, Packet, HeaderKinds
  <2> QED
    BY <2>1, <2>2 DEF PublishedAfter
<1>2. CASE p.kind \in FrameKinds
  <2>1. p \in Frame /\ p.kind \notin HeaderKinds
    BY <1>2 DEF Packet, Frame, Kinds, HeaderKinds, FrameKinds
  <2>2. /\ Append(t, p) \in Seq(Frame)
        /\ Append(c.packet_list, p) \in Seq(Frame)
        /\ <<p>> \in Seq(Frame)
    BY <2>1, AppendProperties DEF Cache
  <2>3. EndsWith(Append(t, p), Append(c.packet_list, p))
    BY <2>1, AppendEndsWith DEF Cache
  <2>4. EndsWith(Append(t, p), <<p>>)
    BY <2>1, LastEndsWith
  <2>5. n \in 0 .. GopCountWrap - 1
    BY GopCountWrapAssumption DEF Cache
  <2>6. /\ insert_packet(c, p) \in Cache
        /\ insert_packet(c, p).packet_list \in {<<p>>, Append(c.packet_list, p)}
    <3>1. CASE p.kind = "key"
      BY <2>1, <2>2, <2>5, <3>1 DEF insert_packet, insert_key_frame, Cache
    <3>2. CASE p.kind # "key"
      BY <2>1, <2>2, <3>2 DEF insert_packet, Cache
    <3> QED
      BY <3>1, <3>2
  <2> QED
    BY <1>2, <2>2, <2>3, <2>4, <2>6 DEF PublishedAfter
<1> QED
  BY <1>1, <1>2 DEF Packet, Kinds

HeaderAfter(h, p, kind) == IF p.kind = kind THEN p.id ELSE h

LEMMA InsertHeader ==
  ASSUME NEW c \in Cache, NEW p \in Packet
  PROVE  /\ insert_packet(c, p).metadata_hdr = HeaderAfter(c.metadata_hdr, p, "metadata")
         /\ insert_packet(c, p).video_hdr = HeaderAfter(c.video_hdr, p, "video_hdr")
         /\ insert_packet(c, p).audio_hdr = HeaderAfter(c.audio_hdr, p, "audio_hdr")
<1>1. CASE p.kind \in HeaderKinds
  BY <1>1 DEF insert_packet, insert_header, HeaderAfter, Cache, HeaderKinds
<1>2. CASE p.kind \notin HeaderKinds
  BY <1>2 DEF insert_packet, insert_key_frame, HeaderAfter, Cache, HeaderKinds
<1> QED
  BY <1>1, <1>2

-----------------------------------------------------------------------------
(***************************************************************************)
(* What a player has after one packet, and after the whole cache.          *)
(***************************************************************************)
LEMMA WriteFrames ==
  ASSUME NEW v \in View, NEW s \in Seq(Frame)
  PROVE  /\ write_frames(v, s) \in View
         /\ write_frames(v, s).frames = v.frames \o s
         /\ write_frames(v, s).metadata = v.metadata
         /\ write_frames(v, s).video = v.video
         /\ write_frames(v, s).audio = v.audio
<1>1. \A i \in 1 .. Len(s) : s[i].id \in Nat
  <2>1. \A i \in 1 .. Len(s) : s[i] \in Frame
    BY ElementOfSeq
  <2> QED
    BY <2>1 DEF Frame
<1>2. VideoFramesOf(s) \in SUBSET Nat
  BY <1>1 DEF VideoFramesOf
<1>3. v.frames \o s \in Seq(Frame)
  BY ConcatProperties DEF View
<1> QED
  BY <1>2, <1>3 DEF write_frames, View

LEMMA WritePacket ==
  ASSUME NEW v \in View, NEW p \in Packet
  PROVE  /\ write_packet(v, p) \in View
         /\ write_packet(v, p).frames = PublishedAfter(v.frames, p)
         /\ write_packet(v, p).metadata = HeaderAfter(v.metadata, p, "metadata")
         /\ write_packet(v, p).video = HeaderAfter(v.video, p, "video_hdr")
         /\ write_packet(v, p).audio = HeaderAfter(v.audio, p, "audio_hdr")
<1>1. CASE p.kind \in HeaderKinds
  BY <1>1 DEF write_packet, PublishedAfter, HeaderAfter, HeaderKinds, FrameKinds, View, Packet
<1>2. CASE p.kind \in FrameKinds
  <2>1. p \in Frame /\ <<p>> \in Seq(Frame)
    BY <1>2 DEF Packet, Frame
  <2>2. write_packet(v, p) = write_frames(v, <<p>>)
    BY <1>2 DEF write_packet, FrameKinds
  <2>3. v.frames \o <<p>> = Append(v.frames, p)
    BY <2>1, AppendIsConcat DEF View
  <2>4. /\ write_packet(v, p) \in View
        /\ write_packet(v, p).frames = v.frames \o <<p>>
        /\ write_packet(v, p).metadata = v.metadata
        /\ write_packet(v, p).video = v.video
        /\ write_packet(v, p).audio = v.audio
    BY <2>1, <2>2, WriteFrames, Zenon
  <2>5. write_packet(v, p).frames = PublishedAfter(v.frames, p)
    BY <1>2, <2>3, <2>4, Zenon DEF PublishedAfter
  <2> QED
    BY <1>2, <2>4, <2>5 DEF HeaderAfter, FrameKinds
<1> QED
  BY <1>1, <1>2 DEF Packet, Kinds

LEMMA WriteHeader ==
  ASSUME NEW v \in View, NEW id \in Nat, NEW k \in HeaderKinds
  PROVE  /\ write_header(v, k, id) \in View
         /\ write_header(v, k, id).frames = v.frames
         /\ id = 0 => write_header(v, k, id) = v
         /\ id # 0 => /\ write_header(v, k, id).metadata = IF k = "metadata" THEN id ELSE v.metadata
                      /\ write_header(v, k, id).video = IF k = "video_hdr" THEN id ELSE v.video
                      /\ write_header(v, k, id).audio = IF k = "audio_hdr" THEN id ELSE v.audio
<1> DEFINE p == [id |-> id, kind |-> k]
<1>1. CASE id = 0
  BY <1>1 DEF write_header
<1>2. CASE id # 0
  <2>1. p \in Packet /\ p.kind \notin FrameKinds
    BY <1>2 DEF Packet, Kinds, HeaderKinds, FrameKinds
  <2>2. write_header(v, k, id) = write_packet(v, p)
    BY <1>2 DEF write_header
  <2> QED
    BY <1>2, <2>1, <2>2, WritePacket DEF PublishedAfter, HeaderAfter
<1> QED
  BY <1>1, <1>2

(* A player that had nothing gets the cached list and the cached headers. *)
LEMMA WriterGop ==
  ASSUME NEW c \in Cache
  PROVE  /\ writer_gop(c, EmptyView) \in View
         /\ writer_gop(c, EmptyView).frames = c.packet_list
         /\ writer_gop(c, EmptyView).metadata = c.metadata_hdr
         /\ writer_gop(c, EmptyView).video = c.video_hdr
         /\ writer_gop(c, EmptyView).audio = c.audio_hdr
<1> DEFINE m == write_header(EmptyView, "metadata", c.metadata_hdr)
           h == write_header(m, "video_hdr", c.video_hdr)
           a == write_header(h, "audio_hdr", c.audio_hdr)
<1>1. /\ c.metadata_hdr \in Nat /\ c.video_hdr \in Nat /\ c.audio_hdr \in Nat
      /\ c.packet_list \in Seq(Frame)
  BY DEF Cache
<1>2. EmptyView \in View
  BY DEF EmptyView, View
<1>3. {"metadata", "video_hdr", "audio_hdr"} = HeaderKinds
  BY DEF HeaderKinds
<1>4. /\ m \in View /\ m.frames = <<>>
      /\ m.metadata = c.metadata_hdr /\ m.video = 0 /\ m.audio = 0
  BY <1>1, <1>2, <1>3, WriteHeader DEF EmptyView
<1> HIDE DEF m
<1>5. /\ h \in View /\ h.frames = <<>>
      /\ h.metadata = c.metadata_hdr /\ h.video = c.video_hdr /\ h.audio = 0
  BY <1>1, <1>3, <1>4, WriteHeader
<1> HIDE DEF h
<1>6. /\ a \in View /\ a.frames = <<>>
      /\ a.metadata = c.metadata_hdr /\ a.video = c.video_hdr /\ a.audio = c.audio_hdr
  BY <1>1, <1>3, <1>5, WriteHeader
<1> HIDE DEF a
<1>7. writer_gop(c, EmptyView) = write_frames(a, c.packet_list)
  BY DEF writer_gop, m, h, a
<1>8. <<>> \o c.packet_list = c.packet_list
  BY <1>1, EmptyIsNeutral
<1>9. /\ write_frames(a, c.packet_list) \in View
      /\ write_frames(a, c.packet_list).frames = a.frames \o c.packet_list
      /\ write_frames(a, c.packet_list).metadata = a.metadata
      /\ write_frames(a, c.packet_list).video = a.video
      /\ write_frames(a, c.packet_list).audio = a.audio
  BY <1>1, <1>6, WriteFrames, Zenon
<1>10. a.frames \o c.packet_list = c.packet_list
  BY <1>6, <1>8, Zenon
<1> QED
  BY <1>6, <1>7, <1>9, <1>10, Zenon

-----------------------------------------------------------------------------
LEMMA DeliverPacket ==
  ASSUME NEW v \in View, NEW p \in Packet, NEW w \in Writers
  PROVE  /\ deliver_packet(w, v, p) \in View
         /\ deliver_packet(w, v, p).frames = PublishedAfter(v.frames, p)
         /\ w \in MetadataWriters =>
              deliver_packet(w, v, p).metadata = HeaderAfter(v.metadata, p, "metadata")
         /\ deliver_packet(w, v, p).video = HeaderAfter(v.video, p, "video_hdr")
         /\ deliver_packet(w, v, p).audio = HeaderAfter(v.audio, p, "audio_hdr")
<1>1. CASE p.kind = "metadata" /\ w \notin MetadataWriters
  BY <1>1 DEF deliver_packet, PublishedAfter, HeaderAfter, FrameKinds
<1>2. CASE ~(p.kind = "metadata" /\ w \notin MetadataWriters)
  <2>1. deliver_packet(w, v, p) = write_packet(v, p)
    BY <1>2 DEF deliver_packet
  <2> QED
    BY <2>1, WritePacket
<1> QED
  BY <1>1, <1>2

LEMMA DeliverGop ==
  ASSUME NEW c \in Cache, NEW w \in Writers
  PROVE  /\ deliver_gop(w, EmptyView, c) \in View
         /\ deliver_gop(w, EmptyView, c).frames = c.packet_list
         /\ w \in MetadataWriters =>
              deliver_gop(w, EmptyView, c).metadata = c.metadata_hdr
         /\ deliver_gop(w, EmptyView, c).video = c.video_hdr
         /\ deliver_gop(w, EmptyView, c).audio = c.audio_hdr
<1> DEFINE d == [c EXCEPT !.metadata_hdr = 0]
<1>1. CASE w \in MetadataWriters
  BY <1>1, WriterGop DEF deliver_gop
<1>2. CASE w \notin MetadataWriters
  <2>1. /\ d \in Cache
        /\ d.packet_list = c.packet_list
        /\ d.video_hdr = c.video_hdr
        /\ d.audio_hdr = c.audio_hdr
    BY DEF Cache
  <2>2. deliver_gop(w, EmptyView, c) = writer_gop(d, EmptyView)
    BY <1>2 DEF deliver_gop
  <2> HIDE DEF d
  <2> QED
    BY <1>2, <2>1, <2>2, WriterGop
<1> QED
  BY <1>1, <1>2

(***************************************************************************)
(* The heart of the relay: publishing keeps every player's frames a suffix *)
(* of what was published and its headers current.                          *)
(***************************************************************************)
LEMMA PublishPacket ==
  ASSUME NEW s, StreamInv(s), s.live, NEW p \in Packet
  PROVE  /\ StreamInv(publish_packet(s, p))
         /\ publish_packet(s, p).live
         /\ publish_packet(s, p).writer_map = s.writer_map
         /\ publish_packet(s, p).publisher_exist = s.publisher_exist
<1> DEFINE c == insert_packet(s.cache, p)
           t == PublishedAfter(s.published, p)
           n == publish_packet(s, p)
<1>1. s \in Stream /\ s.cache \in Cache /\ s.published \in Seq(Frame)
  BY DEF StreamInv, Stream
<1>2. c \in Cache /\ t \in Seq(Frame) /\ EndsWith(t, c.packet_list)
  BY <1>1, InsertPacket DEF StreamInv, CacheIsSuffix
<1>3. /\ c.metadata_hdr = HeaderAfter(s.cache.metadata_hdr, p, "metadata")
      /\ c.video_hdr = HeaderAfter(s.cache.video_hdr, p, "video_hdr")
      /\ c.audio_hdr = HeaderAfter(s.cache.audio_hdr, p, "audio_hdr")
  BY <1>1, InsertHeader
<1> HIDE DEF c
<1>4. /\ n.cache = c /\ n.inited = s.writer_map /\ n.published = t
      /\ n.view = [w \in Writers |-> feed(s, c, w, p)]
      /\ n.live = s.live /\ n.writer_map = s.writer_map
      /\ n.publisher_exist = s.publisher_exist
      /\ DOMAIN n = DOMAIN s
  BY <1>1 DEF publish_packet, c, Stream, PublishedAfter
<1> HIDE DEF t
<1>5. ASSUME NEW w \in Writers
      PROVE  /\ feed(s, c, w, p) \in View
             /\ w \notin s.writer_map => feed(s, c, w, p) = EmptyView
             /\ w \in s.writer_map =>
                  /\ EndsWith(t, feed(s, c, w, p).frames)
                  /\ feed(s, c, w, p).video = c.video_hdr
                  /\ feed(s, c, w, p).audio = c.audio_hdr
                  /\ w \in MetadataWriters => feed(s, c, w, p).metadata = c.metadata_hdr
  <2>1. s.view[w] \in View
    BY <1>1 DEF Stream
  <2>2. CASE w \notin s.writer_map
    BY <2>1, <2>2 DEF feed, StreamInv, Registered, Fresh
  <2>3. CASE w \in s.writer_map /\ w \in s.inited
    <3>1. feed(s, c, w, p) = deliver_packet(w, s.view[w], p)
      BY <2>3 DEF feed
    <3>2. EndsWith(s.published, s.view[w].frames) /\ HasHeaders(s, w)
      BY <2>3 DEF StreamInv, ViewIsSuffix, ViewHasHeaders
    <3>3. EndsWith(t, PublishedAfter(s.view[w].frames, p))
      <4>1. CASE p.kind \in FrameKinds
        <5>1. p \in Frame /\ s.view[w].frames \in Seq(Frame)
          BY <2>1, <4>1 DEF Frame, Packet, View
        <5> QED
          BY <1>1, <3>2, <4>1, <5>1, AppendEndsWith DEF PublishedAfter, t
      <4>2. CASE p.kind \notin FrameKinds
        BY <3>2, <4>2 DEF PublishedAfter, t
      <4> QED
        BY <4>1, <4>2
    <3> QED
      BY <1>3, <2>1, <2>3, <3>1, <3>2, <3>3, DeliverPacket DEF HasHeaders
  <2>4. CASE w \in s.writer_map /\ w \notin s.inited
    <3>1. feed(s, c, w, p) = deliver_gop(w, EmptyView, c)
      BY <2>4 DEF feed, StreamInv, Fresh
    <3> QED
      BY <1>2, <2>4, <3>1, DeliverGop
  <2> QED
    BY <2>2, <2>3, <2>4
<1>6. n \in Stream
  <2>1. n.view \in [Writers -> View]
    BY <1>4, <1>5
  <2>2. n = [s EXCEPT !.cache = c, !.inited = s.writer_map, !.view = n.view, !.published = t]
    BY DEF publish_packet, c, t, PublishedAfter
  <2> HIDE DEF n
  <2> QED
    BY <1>1, <1>2, <2>1, <2>2 DEF Stream
<1> HIDE DEF n
<1>7. Registered(n) /\ CacheIsSuffix(n) /\ Erased(n)
  BY <1>2, <1>4 DEF Registered, CacheIsSuffix, Erased
<1>8. Fresh(n)
  BY <1>4, <1>5 DEF Fresh
<1>9. s.writer_map \subseteq Writers
  BY <1>1 DEF Stream
<1>10. ViewIsSuffix(n) /\ ViewHasHeaders(n)
  BY <1>4, <1>5, <1>9 DEF ViewIsSuffix, ViewHasHeaders, HasHeaders
<1> QED
  BY <1>4, <1>6, <1>7, <1>8, <1>10 DEF StreamInv, n

-----------------------------------------------------------------------------
(***************************************************************************)
(* Removing writers, and keeping or erasing what is left of the stream.    *)
(***************************************************************************)
LEMMA Unregister ==
  ASSUME NEW s, StreamInv(s), s.live, NEW ws
  PROVE  /\ StreamInv(unregister(s, ws))
         /\ unregister(s, ws).live
         /\ unregister(s, ws).writer_map = s.writer_map \ ws
         /\ unregister(s, ws).publisher_exist = s.publisher_exist
<1> DEFINE n == unregister(s, ws)
<1>1. s \in Stream /\ s.inited \subseteq Writers /\ EmptyView \in View
  BY DEF StreamInv, Stream, EmptyView, View
<1>2. /\ n.writer_map = s.writer_map \ ws /\ n.inited = s.inited \ ws
      /\ n.view = [w \in Writers |-> IF w \in ws THEN EmptyView ELSE s.view[w]]
      /\ n.cache = s.cache /\ n.published = s.published
      /\ n.live = s.live /\ n.publisher_exist = s.publisher_exist
  BY <1>1 DEF unregister, Stream
<1>3. n.view \in [Writers -> View]
  BY <1>1, <1>2 DEF Stream
<1>4. n \in Stream
  <2>1. n = [s EXCEPT !.writer_map = @ \ ws, !.inited = @ \ ws, !.view = n.view]
    BY DEF unregister
  <2> HIDE DEF n
  <2> QED
    BY <1>1, <1>3, <2>1 DEF Stream
<1> HIDE DEF n
<1>5. Registered(n) /\ CacheIsSuffix(n) /\ Erased(n)
  BY <1>2 DEF StreamInv, Registered, CacheIsSuffix, Erased
<1>6. Fresh(n)
  BY <1>2 DEF StreamInv, Fresh
<1>7. ASSUME NEW w \in n.inited
      PROVE  w \in s.inited /\ n.view[w] = s.view[w]
  BY <1>1, <1>2
<1>8. ViewIsSuffix(n) /\ ViewHasHeaders(n)
  BY <1>2, <1>7 DEF StreamInv, ViewIsSuffix, ViewHasHeaders, HasHeaders
<1> QED
  BY <1>2, <1>4, <1>5, <1>6, <1>8 DEF StreamInv, n

LEMMA KeepOrErase ==
  ASSUME NEW s, StreamInv(s)
  PROVE  /\ StreamInv(keep_or_erase(s))
         /\ Used(keep_or_erase(s))
         /\ keep_or_erase(s).writer_map = s.writer_map
         /\ keep_or_erase(s).publisher_exist = s.publisher_exist
<1>1. CASE s.writer_map = {} /\ ~s.publisher_exist
  <2>1. keep_or_erase(s) = NoStream
    BY <1>1 DEF keep_or_erase
  <2>2. s.publisher_exist \in BOOLEAN
    BY DEF StreamInv, Stream
  <2>3. NoStream.writer_map = {} /\ NoStream.publisher_exist = FALSE
    BY DEF NoStream
  <2> QED
    BY <1>1, <2>1, <2>2, <2>3, NoStreamInv, Zenon
<1>2. CASE ~(s.writer_map = {} /\ ~s.publisher_exist)
  BY <1>2 DEF keep_or_erase, Used
<1> QED
  BY <1>1, <1>2

(* Setting publisher_exist_ disturbs no conjunct of StreamInv. *)
LEMMA SetPublisher ==
  ASSUME NEW s, StreamInv(s), s.live, NEW b \in BOOLEAN
  PROVE  /\ StreamInv([s EXCEPT !.publisher_exist = b])
         /\ [s EXCEPT !.publisher_exist = b].live
         /\ [s EXCEPT !.publisher_exist = b].publisher_exist = b
         /\ [s EXCEPT !.publisher_exist = b].writer_map = s.writer_map
<1> DEFINE n == [s EXCEPT !.publisher_exist = b]
<1>1. /\ n \in Stream
      /\ n.writer_map = s.writer_map /\ n.inited = s.inited /\ n.view = s.view
      /\ n.cache = s.cache /\ n.published = s.published
      /\ n.live = s.live /\ n.publisher_exist = b
  BY DEF StreamInv, Stream
<1> HIDE DEF n
<1>2. StreamInv(n)
  BY <1>1 DEF StreamInv, Registered, Fresh, CacheIsSuffix, ViewIsSuffix, ViewHasHeaders,
     HasHeaders, Erased
<1> QED
  BY <1>1, <1>2 DEF n

(* So does registering a writer. *)
LEMMA Register ==
  ASSUME NEW s, StreamInv(s), s.live, NEW w \in Writers
  PROVE  /\ StreamInv([s EXCEPT !.writer_map = @ \cup {w}])
         /\ [s EXCEPT !.writer_map = @ \cup {w}].live
         /\ [s EXCEPT !.writer_map = @ \cup {w}].publisher_exist = s.publisher_exist
         /\ [s EXCEPT !.writer_map = @ \cup {w}].writer_map = s.writer_map \cup {w}
<1> DEFINE n == [s EXCEPT !.writer_map = @ \cup {w}]
<1>1. /\ n \in Stream
      /\ n.writer_map = s.writer_map \cup {w} /\ n.inited = s.inited /\ n.view = s.view
      /\ n.cache = s.cache /\ n.published = s.published
      /\ n.live = s.live /\ n.publisher_exist = s.publisher_exist
  BY DEF StreamInv, Stream
<1> HIDE DEF n
<1>2. StreamInv(n)
  BY <1>1 DEF StreamInv, Registered, Fresh, CacheIsSuffix, ViewIsSuffix, ViewHasHeaders,
     HasHeaders, Erased
<1> QED
  BY <1>1, <1>2 DEF n

-----------------------------------------------------------------------------
(***************************************************************************)
(* The five operations on the map: all keep StreamsInv.  OnlyAt says that  *)
(* n differs from m at key k only, where it has these writers and flag:    *)
(* all that a session-level invariant needs to know of the result.         *)
(***************************************************************************)
OnlyAt(m, n, k, writers, flag) ==
  \A j \in Keys :
    /\ n[j].writer_map = IF j = k THEN writers ELSE m[j].writer_map
    /\ n[j].publisher_exist = IF j = k THEN flag ELSE m[j].publisher_exist

LEMMA ReplaceStream ==
  ASSUME NEW m, StreamsInv(m), NEW k \in Keys, NEW s, StreamInv(s), Used(s),
         NEW n, n = [m EXCEPT ![k] = s]
  PROVE  /\ StreamsInv(n)
         /\ OnlyAt(m, n, k, s.writer_map, s.publisher_exist)
<1>1. m \in [Keys -> Stream] /\ s \in Stream
  BY DEF StreamsInv, StreamMap, StreamInv
<1> QED
  BY <1>1 DEF StreamsInv, StreamMap, OnlyAt

LEMMA AddPlayer ==
  ASSUME NEW m, StreamsInv(m), NEW k \in Keys, NEW w \in Writers
  PROVE  /\ StreamsInv(add_player(m, k, w))
         /\ OnlyAt(m, add_player(m, k, w), k, m[k].writer_map \cup {w}, m[k].publisher_exist)
<1> DEFINE s == [find(m, k) EXCEPT !.writer_map = @ \cup {w}]
           n == add_player(m, k, w)
<1>1. /\ StreamInv(s) /\ Used(s)
      /\ s.writer_map = m[k].writer_map \cup {w}
      /\ s.publisher_exist = m[k].publisher_exist
  BY FindInv, Register DEF Used
<1>2. n = [m EXCEPT ![k] = s]
  BY DEF add_player
<1> HIDE DEF s, n
<1>3. StreamsInv(n) /\ OnlyAt(m, n, k, s.writer_map, s.publisher_exist)
  BY <1>1, <1>2, ReplaceStream
<1> QED
  BY <1>1, <1>3 DEF n

LEMMA RemovePlayer ==
  ASSUME NEW m, StreamsInv(m), NEW k \in Keys, NEW w \in Writers
  PROVE  /\ StreamsInv(remove_player(m, k, w))
         /\ OnlyAt(m, remove_player(m, k, w), k, m[k].writer_map \ {w}, m[k].publisher_exist)
<1> DEFINE s == keep_or_erase(unregister(m[k], {w}))
           n == remove_player(m, k, w)
<1>1. CASE m[k].live
  <2>1. StreamInv(m[k])
    BY DEF StreamsInv
  <2>2. /\ StreamInv(s) /\ Used(s)
        /\ s.writer_map = m[k].writer_map \ {w}
        /\ s.publisher_exist = m[k].publisher_exist
    BY <1>1, <2>1, Unregister, KeepOrErase
  <2>3. n = [m EXCEPT ![k] = s]
    BY <1>1 DEF remove_player
  <2> HIDE DEF s, n
  <2>4. StreamsInv(n) /\ OnlyAt(m, n, k, s.writer_map, s.publisher_exist)
    BY <2>2, <2>3, ReplaceStream
  <2> QED
    BY <2>2, <2>4 DEF n
<1>2. CASE ~m[k].live
  <2>1. m[k].writer_map = {}
    BY <1>2 DEF StreamsInv, StreamInv, Erased, NoStream
  <2> QED
    BY <1>2, <2>1 DEF remove_player, OnlyAt
<1> QED
  BY <1>1, <1>2

LEMMA AddPublisher ==
  ASSUME NEW m, StreamsInv(m), NEW k \in Keys
  PROVE  /\ StreamsInv(add_publisher(m, k))
         /\ add_publisher(m, k)[k].live
         /\ OnlyAt(m, add_publisher(m, k), k, m[k].writer_map, TRUE)
<1> DEFINE s == [find(m, k) EXCEPT !.publisher_exist = TRUE]
           n == add_publisher(m, k)
<1>1. /\ StreamInv(s) /\ Used(s) /\ s.live
      /\ s.publisher_exist = TRUE
      /\ s.writer_map = m[k].writer_map
  BY FindInv, SetPublisher DEF Used
<1>2. n = [m EXCEPT ![k] = s]
  BY DEF add_publisher
<1> HIDE DEF s, n
<1>3. StreamsInv(n) /\ OnlyAt(m, n, k, s.writer_map, s.publisher_exist)
  BY <1>1, <1>2, ReplaceStream
<1>4. n[k] = s
  BY <1>2 DEF StreamsInv, StreamMap
<1> QED
  BY <1>1, <1>3, <1>4 DEF n

LEMMA RemovePublisher ==
  ASSUME NEW m, StreamsInv(m), NEW k \in Keys
  PROVE  /\ StreamsInv(remove_publisher(m, k))
         /\ OnlyAt(m, remove_publisher(m, k), k, m[k].writer_map, FALSE)
<1> DEFINE s == keep_or_erase([m[k] EXCEPT !.publisher_exist = FALSE])
           n == remove_publisher(m, k)
<1>1. CASE m[k].live
  <2>1. StreamInv(m[k])
    BY DEF StreamsInv
  <2>2. /\ StreamInv(s) /\ Used(s)
        /\ s.writer_map = m[k].writer_map
        /\ s.publisher_exist = FALSE
    BY <1>1, <2>1, SetPublisher, KeepOrErase
  <2>3. n = [m EXCEPT ![k] = s]
    BY <1>1 DEF remove_publisher
  <2> HIDE DEF s, n
  <2>4. StreamsInv(n) /\ OnlyAt(m, n, k, s.writer_map, s.publisher_exist)
    BY <2>2, <2>3, ReplaceStream
  <2> QED
    BY <2>2, <2>4 DEF n
<1>2. CASE ~m[k].live
  <2>1. m[k].publisher_exist = FALSE
    BY <1>2 DEF StreamsInv, StreamInv, Erased, NoStream
  <2> QED
    BY <1>2, <2>1 DEF remove_publisher, OnlyAt
<1> QED
  BY <1>1, <1>2

LEMMA WriterMediaPacket ==
  ASSUME NEW m, StreamsInv(m), NEW k \in Keys, NEW p \in Packet, NEW failed
  PROVE  /\ StreamsInv(writer_media_packet(m, k, p, failed))
         /\ OnlyAt(m, writer_media_packet(m, k, p, failed), k, m[k].writer_map \ failed, TRUE)
<1> DEFINE a == add_publisher(m, k)[k]
           s == unregister(publish_packet(a, p), failed)
           n == writer_media_packet(m, k, p, failed)
<1>1. StreamInv(a) /\ a.live /\ a.publisher_exist = TRUE /\ a.writer_map = m[k].writer_map
  BY AddPublisher DEF StreamsInv, OnlyAt
<1> HIDE DEF a
<1>2. /\ StreamInv(s) /\ s.publisher_exist = TRUE
      /\ s.writer_map = m[k].writer_map \ failed
  BY <1>1, PublishPacket, Unregister
<1>3. n = [m EXCEPT ![k] = s]
  BY DEF writer_media_packet, a
<1> HIDE DEF s, n
<1>4. Used(s)
  BY <1>2 DEF Used
<1>5. StreamsInv(n) /\ OnlyAt(m, n, k, s.writer_map, s.publisher_exist)
  BY <1>2, <1>3, <1>4, ReplaceStream
<1> QED
  BY <1>2, <1>5 DEF n

-----------------------------------------------------------------------------
(* What the servers state of the map follows from StreamsInv. *)
LEMMA StreamsInvImplies ==
  ASSUME NEW m, StreamsInv(m)
  PROVE  m \in StreamMap /\ RelayedIn(m) /\ HeadersIn(m)
  BY DEF StreamsInv, StreamInv, Used, Erased, ViewIsSuffix, ViewHasHeaders, HasHeaders,
     RelayedIn, HeadersIn

LEMMA InitialStreams == StreamsInv([k \in Keys |-> NoStream])
  BY NoStreamInv DEF StreamsInv, StreamMap, StreamInv

-----------------------------------------------------------------------------
(***************************************************************************)
(* What the operations make of the contents of a stream: all but a packet  *)
(* keep what was published and what a player has, or forget the stream or  *)
(* the player as a whole.                                                  *)
(***************************************************************************)
Kept(s, n) ==
  /\ n = NoStream \/ (n.cache = s.cache /\ n.published = s.published)
  /\ \A w \in n.inited : w \in s.inited /\ n.view[w] = s.view[w]
  /\ \A w \in Writers : n.view[w] \in {s.view[w], EmptyView}

AllKept(m, n) == \A j \in Keys : Kept(m[j], n[j])

LEMMA KeptSelf ==
  ASSUME NEW s
  PROVE  Kept(s, s)
  BY DEF Kept

LEMMA KeptNoStream ==
  ASSUME NEW s
  PROVE  Kept(s, NoStream)
  BY DEF Kept, NoStream

LEMMA KeptReplace ==
  ASSUME NEW m, StreamsInv(m), NEW k \in Keys, NEW s, Kept(m[k], s),
         NEW n, n = [m EXCEPT ![k] = s]
  PROVE  AllKept(m, n)
<1>1. n[k] = s /\ \A j \in Keys : j # k => n[j] = m[j]
  BY DEF StreamsInv, StreamMap
<1> QED
  BY <1>1, KeptSelf DEF AllKept

LEMMA FindKeeps ==
  ASSUME NEW m, StreamsInv(m), NEW k \in Keys
  PROVE  /\ find(m, k) \in Stream
         /\ find(m, k).cache = m[k].cache /\ find(m, k).published = m[k].published
         /\ find(m, k).inited = m[k].inited /\ find(m, k).view = m[k].view
<1>1. find(m, k) \in Stream
  BY FindInv DEF StreamInv
<1>2. CASE m[k].live
  BY <1>1, <1>2 DEF find
<1>3. CASE ~m[k].live
  <2>1. m[k] = NoStream /\ find(m, k) = NewStream
    BY <1>3 DEF find, StreamsInv, StreamInv, Erased
  <2> QED
    BY <1>1, <2>1 DEF NewStream, NoStream
<1> QED
  BY <1>2, <1>3

LEMMA AddPlayerKeeps ==
  ASSUME NEW m, StreamsInv(m), NEW k \in Keys, NEW w \in Writers
  PROVE  AllKept(m, add_player(m, k, w))
<1> DEFINE s == [find(m, k) EXCEPT !.writer_map = @ \cup {w}]
<1>1. Kept(m[k], s)
  BY FindKeeps DEF Stream, Kept
<1>2. add_player(m, k, w) = [m EXCEPT ![k] = s]
  BY DEF add_player
<1> HIDE DEF s
<1> QED
  BY <1>1, <1>2, KeptReplace

LEMMA KeepOrEraseKeeps ==
  ASSUME NEW s, NEW t, Kept(s, t)
  PROVE  Kept(s, keep_or_erase(t))
  BY KeptNoStream DEF keep_or_erase

LEMMA RemovePlayerKeeps ==
  ASSUME NEW m, StreamsInv(m), NEW k \in Keys, NEW w \in Writers
  PROVE  AllKept(m, remove_player(m, k, w))
<1>1. CASE m[k].live
  <2> DEFINE u == unregister(m[k], {w})
             s == keep_or_erase(u)
  <2>1. m[k] \in Stream /\ m[k].inited \subseteq Writers
    BY DEF StreamsInv, StreamInv, Stream
  <2>2. Kept(m[k], u)
    BY <2>1 DEF Stream, unregister, Kept
  <2> HIDE DEF u
  <2>3. Kept(m[k], s)
    BY <2>2, KeepOrEraseKeeps
  <2>4. remove_player(m, k, w) = [m EXCEPT ![k] = s]
    BY <1>1 DEF remove_player, u
  <2> HIDE DEF s
  <2> QED
    BY <2>3, <2>4, KeptReplace
<1>2. CASE ~m[k].live
  BY <1>2, KeptSelf DEF remove_player, AllKept
<1> QED
  BY <1>1, <1>2

LEMMA RemovePublisherKeeps ==
  ASSUME NEW m, StreamsInv(m), NEW k \in Keys
  PROVE  AllKept(m, remove_publisher(m, k))
<1>1. CASE m[k].live
  <2> DEFINE u == [m[k] EXCEPT !.publisher_exist = FALSE]
             s == keep_or_erase(u)
  <2>1. m[k] \in Stream
    BY DEF StreamsInv, StreamInv
  <2>2. Kept(m[k], u)
    BY <2>1 DEF Stream, Kept
  <2> HIDE DEF u
  <2>3. Kept(m[k], s)
    BY <2>2, KeepOrEraseKeeps
  <2>4. remove_publisher(m, k) = [m EXCEPT ![k] = s]
    BY <1>1 DEF remove_publisher, u
  <2> HIDE DEF s
  <2> QED
    BY <2>3, <2>4, KeptReplace
<1>2. CASE ~m[k].live
  BY <1>2, KeptSelf DEF remove_publisher, AllKept
<1> QED
  BY <1>1, <1>2

(***************************************************************************)
(* A packet goes into the cache, and to the players: those that were       *)
(* started get it, the others the cache.  Only before a video header is    *)
(* cached does anybody get video frames without one.                       *)
(***************************************************************************)
Fed(s, n, p) ==
  /\ n.cache = insert_packet(s.cache, p)
  /\ n.published = PublishedAfter(s.published, p)
  /\ \A w \in n.inited :
       n.view[w].frames = IF w \in s.inited THEN PublishedAfter(s.view[w].frames, p)
                                            ELSE n.cache.packet_list
  /\ \A w \in Writers : n.view[w].bare \subseteq s.view[w].bare \/ n.cache.video_hdr = 0

LEMMA WriteFramesBare ==
  ASSUME NEW v \in View, NEW s \in Seq(Frame), v.video # 0
  PROVE  write_frames(v, s).bare = v.bare
  BY DEF write_frames, View

LEMMA WritePacketBare ==
  ASSUME NEW v \in View, NEW p \in Packet
  PROVE  \/ write_packet(v, p).bare = v.bare
         \/ v.video = 0 /\ p.kind \in FrameKinds
<1>1. CASE p.kind = "metadata"
  <2>1. write_packet(v, p) = [v EXCEPT !.metadata = p.id]
    BY <1>1 DEF write_packet, FrameKinds
  <2> QED
    BY <2>1 DEF View
<1>2. CASE p.kind = "video_hdr"
  <2>1. write_packet(v, p) = [v EXCEPT !.video = p.id]
    BY <1>2 DEF write_packet, FrameKinds
  <2> QED
    BY <2>1 DEF View
<1>3. CASE p.kind = "audio_hdr"
  <2>1. write_packet(v, p) = [v EXCEPT !.audio = p.id]
    BY <1>3 DEF write_packet, FrameKinds
  <2> QED
    BY <2>1 DEF View
<1>4. CASE p.kind \in FrameKinds
  <2>1. p \in Frame /\ <<p>> \in Seq(Frame)
    BY <1>4 DEF Packet, Frame
  <2>2. write_packet(v, p) = write_frames(v, <<p>>)
    BY <1>4 DEF write_packet, FrameKinds
  <2> QED
    BY <1>4, <2>1, <2>2, WriteFramesBare
<1> QED
  BY <1>1, <1>2, <1>3, <1>4 DEF Packet, Kinds, HeaderKinds

LEMMA DeliverPacketBare ==
  ASSUME NEW v \in View, NEW p \in Packet, NEW w
  PROVE  \/ deliver_packet(w, v, p).bare = v.bare
         \/ v.video = 0 /\ p.kind # "video_hdr"
  BY WritePacketBare DEF deliver_packet, FrameKinds

LEMMA WriteHeaderBare ==
  ASSUME NEW v \in View, NEW id \in Nat, NEW k \in HeaderKinds
  PROVE  write_header(v, k, id).bare = v.bare
<1> DEFINE p == [id |-> id, kind |-> k]
<1>1. CASE id = 0
  BY <1>1 DEF write_header
<1>2. CASE id # 0
  <2>1. p \in Packet /\ p.kind \notin FrameKinds
    BY <1>2 DEF Packet, Kinds, HeaderKinds, FrameKinds
  <2>2. write_header(v, k, id) = write_packet(v, p)
    BY <1>2 DEF write_header
  <2> HIDE DEF p
  <2> QED
    BY <2>1, <2>2, WritePacketBare
<1> QED
  BY <1>1, <1>2

LEMMA WriterGopBare ==
  ASSUME NEW c \in Cache, c.video_hdr # 0
  PROVE  writer_gop(c, EmptyView).bare = {}
<1> DEFINE m == write_header(EmptyView, "metadata", c.metadata_hdr)
           h == write_header(m, "video_hdr", c.video_hdr)
           a == write_header(h, "audio_hdr", c.audio_hdr)
<1>1. /\ c.metadata_hdr \in Nat /\ c.video_hdr \in Nat /\ c.audio_hdr \in Nat
      /\ c.packet_list \in Seq(Frame)
  BY DEF Cache
<1>2. EmptyView \in View /\ EmptyView.bare = {}
  BY DEF EmptyView, View
<1>3. {"metadata", "video_hdr", "audio_hdr"} = HeaderKinds
  BY DEF HeaderKinds
<1>4. m \in View /\ m.bare = {}
  BY <1>1, <1>2, <1>3, WriteHeader, WriteHeaderBare
<1> HIDE DEF m
<1>5. h \in View /\ h.bare = {} /\ h.video = c.video_hdr
  BY <1>1, <1>3, <1>4, WriteHeader, WriteHeaderBare
<1> HIDE DEF h
<1>6. a \in View /\ a.bare = {} /\ a.video = c.video_hdr
  BY <1>1, <1>3, <1>5, WriteHeader, WriteHeaderBare
<1> HIDE DEF a
<1>7. writer_gop(c, EmptyView) = write_frames(a, c.packet_list)
  BY DEF writer_gop, m, h, a
<1> QED
  BY <1>1, <1>6, <1>7, WriteFramesBare

LEMMA DeliverGopBare ==
  ASSUME NEW c \in Cache, c.video_hdr # 0, NEW w
  PROVE  deliver_gop(w, EmptyView, c).bare = {}
<1> DEFINE d == [c EXCEPT !.metadata_hdr = 0]
<1>1. d \in Cache /\ d.video_hdr # 0
  BY DEF Cache
<1>2. deliver_gop(w, EmptyView, c) \in {writer_gop(c, EmptyView), writer_gop(d, EmptyView)}
  BY DEF deliver_gop
<1> HIDE DEF d
<1> QED
  BY <1>1, <1>2, WriterGopBare

LEMMA PublishPacketFeeds ==
  ASSUME NEW s, StreamInv(s), s.live, NEW p \in Packet
  PROVE  Fed(s, publish_packet(s, p), p)
<1> DEFINE c == insert_packet(s.cache, p)
           n == publish_packet(s, p)
<1>1. s \in Stream /\ s.cache \in Cache /\ s.published \in Seq(Frame)
  BY DEF StreamInv, Stream
<1>2. c \in Cache
  BY <1>1, InsertPacket DEF StreamInv, CacheIsSuffix
<1>3. c.video_hdr = HeaderAfter(s.cache.video_hdr, p, "video_hdr")
  BY <1>1, InsertHeader
<1> HIDE DEF c
<1>4. /\ n.cache = c /\ n.inited = s.writer_map
      /\ n.published = PublishedAfter(s.published, p)
      /\ n.view = [w \in Writers |-> feed(s, c, w, p)]
  BY <1>1 DEF publish_packet, c, Stream, PublishedAfter
<1> HIDE DEF n
<1>5. ASSUME NEW w \in Writers
      PROVE  /\ w \in s.writer_map => feed(s, c, w, p).frames =
                  IF w \in s.inited THEN PublishedAfter(s.view[w].frames, p) ELSE c.packet_list
             /\ feed(s, c, w, p).bare \subseteq s.view[w].bare \/ c.video_hdr = 0
  <2>1. s.view[w] \in View
    BY <1>1 DEF Stream
  <2>2. CASE w \notin s.writer_map
    BY <2>2 DEF feed
  <2>3. CASE w \in s.writer_map /\ w \in s.inited
    <3>1. feed(s, c, w, p) = deliver_packet(w, s.view[w], p)
      BY <2>3 DEF feed
    <3>2. s.view[w].video = s.cache.video_hdr
      BY <2>3 DEF StreamInv, ViewHasHeaders, HasHeaders
    <3>3. feed(s, c, w, p).frames = PublishedAfter(s.view[w].frames, p)
      BY <2>1, <3>1, DeliverPacket
    <3>4. feed(s, c, w, p).bare = s.view[w].bare \/ (s.view[w].video = 0 /\ p.kind # "video_hdr")
      BY <2>1, <3>1, DeliverPacketBare
    <3> QED
      BY <1>3, <2>3, <3>2, <3>3, <3>4 DEF HeaderAfter
  <2>4. CASE w \in s.writer_map /\ w \notin s.inited
    <3>1. feed(s, c, w, p) = deliver_gop(w, EmptyView, c)
      BY <2>4 DEF feed, StreamInv, Fresh
    <3>2. feed(s, c, w, p).frames = c.packet_list
      BY <1>2, <3>1, DeliverGop
    <3>3. c.video_hdr # 0 => feed(s, c, w, p).bare = {}
      BY <1>2, <3>1, DeliverGopBare
    <3> QED
      BY <2>4, <3>2, <3>3
  <2> QED
    BY <2>2, <2>3, <2>4
<1>6. s.writer_map \subseteq Writers
  BY <1>1 DEF Stream
<1>7. Fed(s, n, p)
  BY <1>4, <1>5, <1>6 DEF Fed, c
<1> QED
  BY <1>7 DEF n

LEMMA WriterMediaPacketFeeds ==
  ASSUME NEW m, StreamsInv(m), NEW k \in Keys, NEW p \in Packet
  PROVE  /\ Fed(m[k], writer_media_packet(m, k, p, {})[k], p)
         /\ \A j \in Keys : j # k => writer_media_packet(m, k, p, {})[j] = m[j]
<1> DEFINE f == find(m, k)
           a == add_publisher(m, k)[k]
           q == publish_packet(a, p)
           s == unregister(q, {})
<1>1. StreamInv(a) /\ a.live
  BY AddPublisher DEF StreamsInv
<1>2. /\ a.cache = m[k].cache /\ a.published = m[k].published
      /\ a.inited = m[k].inited /\ a.view = m[k].view
  <2>1. a = [f EXCEPT !.publisher_exist = TRUE]
    BY DEF add_publisher, StreamsInv, StreamMap
  <2>2. /\ f \in Stream /\ f.cache = m[k].cache /\ f.published = m[k].published
        /\ f.inited = m[k].inited /\ f.view = m[k].view
    BY FindKeeps
  <2> HIDE DEF f, a
  <2> QED
    BY <2>1, <2>2 DEF Stream
<1> HIDE DEF a
<1>3. StreamInv(q) /\ Fed(a, q, p)
  BY <1>1, PublishPacket, PublishPacketFeeds
<1> HIDE DEF q
<1>4. /\ s.cache = q.cache /\ s.published = q.published
      /\ s.inited = q.inited /\ \A w \in Writers : s.view[w] = q.view[w]
  BY <1>3 DEF unregister, StreamInv, Stream
<1>5. s.inited \subseteq Writers
  BY <1>3, <1>4 DEF StreamInv, Stream
<1>6. writer_media_packet(m, k, p, {}) = [m EXCEPT ![k] = s]
  BY DEF writer_media_packet, a, q
<1> HIDE DEF s
<1>7. Fed(m[k], s, p)
  BY <1>2, <1>3, <1>4, <1>5 DEF Fed
<1> QED
  BY <1>6, <1>7 DEF StreamsInv, StreamMap
=============================================================================
