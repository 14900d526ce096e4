---------------------------- MODULE HttpFlvProofs ----------------------------
(***************************************************************************)
(* The safety of HTTP-FLV playing for any number of requests, keys and     *)
(* packets, and the proof that it implements LiveStream.  IInv adds to the *)
(* properties what makes them inductive: the streams are well formed, a    *)
(* request that is still being read has neither a response nor a writer,   *)
(* and the headers in the caches were published.                           *)
(***************************************************************************)
EXTENDS HttpFlv, MediaStreamProofs

RequestIsFresh ==
  \A r \in Requests : http[r].obj = "none" \/ http[r].reading
    => resp[r] = "none" /\ writer[r].obj = "none"

HeadersPublished ==
  /\ npackets <= MaxPackets
  /\ \A k \in Keys : /\ streams[k].cache.video_hdr \in 0 .. npackets
                     /\ streams[k].cache.audio_hdr \in 0 .. npackets

IInv ==
  /\ TypeOK
  /\ StreamsInv(streams)
  /\ RequestIsFresh
  /\ RegisteredWriterIsLive
  /\ ResponseHasSession
  /\ HeadersPublished

-----------------------------------------------------------------------------
(***************************************************************************)
(* What LiveStream sees of a stream: everything but whether the stream     *)
(* object exists, the publisher's flag and who waits to be let in.         *)
(***************************************************************************)
SameToViewers(s, t) ==
  /\ t.cache = s.cache /\ t.inited = s.inited
  /\ t.view = s.view /\ t.published = s.published

(* A stream that is made on demand looks like the one that was not there. *)
LEMMA FindSame ==
  ASSUME NEW m, StreamsInv(m), NEW k \in Keys
  PROVE  /\ SameToViewers(m[k], find(m, k))
         /\ find(m, k).writer_map = m[k].writer_map
         /\ find(m, k) \in Stream
<1>1. CASE m[k].live
  BY <1>1 DEF find, SameToViewers, StreamsInv, StreamInv
<1>2. CASE ~m[k].live
  <2>1. m[k] = NoStream /\ find(m, k) = NewStream
    BY <1>2 DEF StreamsInv, StreamInv, Erased, find
  <2>2. SameToViewers(NoStream, NewStream) /\ NewStream.writer_map = NoStream.writer_map
    BY DEF NewStream, NoStream, SameToViewers
  <2>3. find(m, k) \in Stream
    BY FindInv DEF StreamInv
  <2> QED
    BY <2>1, <2>2, <2>3
<1> QED
  BY <1>1, <1>2

(* Registering a writer shows nothing to the viewers. *)
LEMMA AddPlayerSame ==
  ASSUME NEW m, StreamsInv(m), NEW k \in Keys, NEW w \in Writers
  PROVE  \A j \in Keys : /\ SameToViewers(m[j], add_player(m, k, w)[j])
                         /\ add_player(m, k, w)[j].cache = m[j].cache
<1> DEFINE f == find(m, k)
           s == [f EXCEPT !.writer_map = @ \cup {w}]
<1>1. f \in Stream /\ SameToViewers(m[k], f)
  BY FindSame
<1>2. add_player(m, k, w) = [m EXCEPT ![k] = s]
  BY DEF add_player
<1> HIDE DEF f
<1>3. SameToViewers(m[k], s)
  BY <1>1 DEF SameToViewers, Stream
<1> HIDE DEF s
<1>4. m \in [Keys -> Stream]
  BY DEF StreamsInv, StreamMap
<1> QED
  BY <1>2, <1>3, <1>4 DEF SameToViewers

(***************************************************************************)
(* The stream n is s after the writers ws left it: the others keep what    *)
(* they had, and what was published is forgotten only when none is in.     *)
(***************************************************************************)
LeftBy(s, n, ws) ==
  /\ n.inited = s.inited \ ws
  /\ \A w \in Writers : n.view[w] = IF w \in ws THEN EmptyView ELSE s.view[w]
  /\ \/ n.cache = s.cache /\ n.published = s.published
     \/ n.cache = EmptyCache /\ n.published = <<>> /\ n.inited = {}

LEMMA EraseLeft ==
  ASSUME NEW s, StreamInv(s)
  PROVE  LeftBy(s, keep_or_erase(s), {})
<1>1. CASE s.writer_map = {} /\ ~s.publisher_exist
  <2>1. s.inited = {} /\ \A w \in Writers : s.view[w] = EmptyView
    BY <1>1 DEF StreamInv, Registered, Fresh
  <2>2. keep_or_erase(s) = NoStream
    BY <1>1 DEF keep_or_erase
  <2> QED
    BY <2>1, <2>2 DEF LeftBy, NoStream
<1>2. CASE ~(s.writer_map = {} /\ ~s.publisher_exist)
  BY <1>2 DEF keep_or_erase, LeftBy
<1> QED
  BY <1>1, <1>2

LEMMA LeaveOne ==
  ASSUME NEW s, StreamInv(s), s.live, NEW ws
  PROVE  LeftBy(s, keep_or_erase(unregister(s, ws)), ws)
<1> DEFINE u == unregister(s, ws)
           n == keep_or_erase(u)
<1>1. StreamInv(u)
  BY Unregister
<1>2. /\ u.inited = s.inited \ ws
      /\ \A w \in Writers : u.view[w] = IF w \in ws THEN EmptyView ELSE s.view[w]
      /\ u.cache = s.cache /\ u.published = s.published
  BY DEF unregister, StreamInv, Stream
<1> HIDE DEF u
<1>3. LeftBy(u, n, {})
  BY <1>1, EraseLeft
<1> HIDE DEF n
<1>4. LeftBy(s, n, ws)
  BY <1>2, <1>3 DEF LeftBy
<1> QED
  BY <1>4 DEF n, u

(* A stream that does not exist is left alone by everybody. *)
LEMMA LeaveNone ==
  ASSUME NEW s, StreamInv(s), ~s.live, NEW ws
  PROVE  LeftBy(s, s, ws)
  BY DEF LeftBy, StreamInv, Erased, NoStream

LEMMA RemovePublisherLeft ==
  ASSUME NEW m, StreamsInv(m), NEW k \in Keys
  PROVE  \A j \in Keys : LeftBy(m[j], remove_publisher(m, k)[j], {})
<1> SUFFICES ASSUME NEW j \in Keys
             PROVE  LeftBy(m[j], remove_publisher(m, k)[j], {})
  OBVIOUS
<1>1. StreamInv(m[j]) /\ m \in [Keys -> Stream]
  BY DEF StreamsInv, StreamMap
<1>2. CASE j = k /\ m[k].live
  <2> DEFINE u == [m[k] EXCEPT !.publisher_exist = FALSE]
             n == keep_or_erase(u)
  <2>1. StreamInv(u) /\ SameToViewers(m[k], u)
    BY <1>1, <1>2, SetPublisher DEF SameToViewers, StreamInv, Stream
  <2>2. remove_publisher(m, k)[j] = n
    BY <1>1, <1>2 DEF remove_publisher
  <2> HIDE DEF u
  <2>3. LeftBy(u, n, {})
    BY <2>1, EraseLeft
  <2> HIDE DEF n
  <2> QED
    BY <1>2, <2>1, <2>2, <2>3 DEF LeftBy, SameToViewers
<1>3. CASE ~(j = k /\ m[k].live)
  <2>1. remove_publisher(m, k)[j] = m[j]
    BY <1>1, <1>3 DEF remove_publisher
  <2> QED
    BY <2>1 DEF LeftBy
<1> QED
  BY <1>2, <1>3

(* Those of the writers ws that play the key k. *)
PlayersOf(ws, k) == {w \in ws : writer[w].key = k}

(* on_check_alive: the writers that are not alive leave their streams. *)
LEMMA RemovePlayers ==
  ASSUME NEW m, StreamsInv(m), NEW ws,
         NEW n, n = remove_players(m, ws)
  PROVE  /\ StreamsInv(n)
         /\ \A k \in Keys : /\ n[k].writer_map = m[k].writer_map \ PlayersOf(ws, k)
                            /\ LeftBy(m[k], n[k], PlayersOf(ws, k))
<1>1. ASSUME NEW k \in Keys
      PROVE  /\ StreamInv(n[k]) /\ Used(n[k])
             /\ n[k].writer_map = m[k].writer_map \ PlayersOf(ws, k)
             /\ LeftBy(m[k], n[k], PlayersOf(ws, k))
  <2>1. StreamInv(m[k]) /\ Used(m[k])
    BY DEF StreamsInv
  <2>2. n[k] = IF m[k].live THEN keep_or_erase(unregister(m[k], PlayersOf(ws, k))) ELSE m[k]
    BY DEF remove_players, PlayersOf
  <2>3. CASE m[k].live
    BY <2>1, <2>2, <2>3, Unregister, KeepOrErase, LeaveOne
  <2>4. CASE ~m[k].live
    <3>1. m[k].writer_map = {}
      BY <2>1, <2>4 DEF StreamInv, Erased, NoStream
    <3> QED
      BY <2>1, <2>2, <2>4, <3>1, LeaveNone
  <2> QED
    BY <2>3, <2>4
<1>2. n \in StreamMap
  BY <1>1 DEF StreamMap, StreamInv, remove_players
<1> QED
  BY <1>1, <1>2 DEF StreamsInv

(***************************************************************************)
(* writer_media_packet, as seen by the viewers: everybody who waited is    *)
(* let in, those whose write failed are dropped.                           *)
(***************************************************************************)
LEMMA PublishResult ==
  ASSUME NEW m, StreamsInv(m), NEW k \in Keys, NEW p \in Packet, NEW failed,
         NEW n, n = writer_media_packet(m, k, p, failed)[k]
  PROVE  LET c == insert_packet(m[k].cache, p)
         IN  /\ n.cache = c
             /\ n.inited = m[k].writer_map \ failed
             /\ n.published = PublishedAfter(m[k].published, p)
             /\ \A w \in Writers :
                  n.view[w] = IF w \in failed THEN EmptyView ELSE feed(m[k], c, w, p)
<1> DEFINE f == find(m, k)
           a == [f EXCEPT !.publisher_exist = TRUE]
           c == insert_packet(m[k].cache, p)
           b == publish_packet(a, p)
<1>1. f \in Stream /\ SameToViewers(m[k], f) /\ f.writer_map = m[k].writer_map
  BY FindSame
<1>2. add_publisher(m, k)[k] = a
  BY DEF add_publisher, StreamsInv, StreamMap
<1> HIDE DEF f
<1>3. a \in Stream /\ SameToViewers(m[k], a) /\ a.writer_map = m[k].writer_map
  BY <1>1 DEF SameToViewers, Stream
<1>4. n = unregister(b, failed)
  BY <1>2 DEF writer_media_packet, StreamsInv, StreamMap
<1> HIDE DEF a
<1>5. /\ b.cache = insert_packet(a.cache, p)
      /\ b.inited = a.writer_map /\ b.writer_map = a.writer_map
      /\ b.view = [w \in Writers |-> feed(a, insert_packet(a.cache, p), w, p)]
      /\ b.published = PublishedAfter(a.published, p)
  BY <1>3 DEF publish_packet, Stream, PublishedAfter
<1>6. n.cache = b.cache /\ n.published = b.published /\ n.inited = b.inited \ failed
  BY <1>3, <1>4 DEF unregister, publish_packet, Stream
<1>7. n.view = [w \in Writers |-> IF w \in failed THEN EmptyView ELSE b.view[w]]
  BY <1>3, <1>4 DEF unregister, publish_packet, Stream
<1> HIDE DEF b
<1>8. ASSUME NEW w \in Writers
      PROVE  feed(a, c, w, p) = feed(m[k], c, w, p)
  BY <1>3 DEF feed, SameToViewers
<1> QED
  BY <1>3, <1>5, <1>6, <1>7, <1>8 DEF SameToViewers

-----------------------------------------------------------------------------
LEMMA InitInv == Init => IInv
<1> SUFFICES ASSUME Init PROVE IInv
  OBVIOUS
<1>1. StreamsInv(streams)
  BY InitialStreams DEF Init
<1>2. (CHOOSE k \in Keys : TRUE) \in Keys
  BY KeysAssumption
<1>3. TypeOK
  BY <1>1, <1>2 DEF Init, TypeOK, HttpSession, Writer, StreamsInv
<1>4. RequestIsFresh /\ RegisteredWriterIsLive /\ ResponseHasSession
  BY DEF Init, RequestIsFresh, RegisteredWriterIsLive, ResponseHasSession, NoStream
<1>5. HeadersPublished
  BY MaxPacketsAssumption DEF Init, HeadersPublished, NoStream, EmptyCache
<1> QED
  BY <1>1, <1>3, <1>4, <1>5 DEF IInv

-----------------------------------------------------------------------------
(***************************************************************************)
(* A step of one request: its session becomes h and its response v, the    *)
(* rest is left alone.                                                     *)
(***************************************************************************)
FitsRequest(r, h, v) ==
  /\ h \in HttpSession
  /\ v \in {"none", "open", "closed"}
  /\ h.obj = "none" \/ h.reading => v = "none" /\ writer[r].obj = "none"
  /\ v = "open" => h.obj = "open"

LEMMA OneRequestStep ==
  ASSUME IInv, NEW r \in Requests, NEW h, NEW v, FitsRequest(r, h, v),
         http' = [http EXCEPT ![r] = h], resp' = [resp EXCEPT ![r] = v],
         UNCHANGED <<streams, writer, npackets>>
  PROVE  IInv'
<1>1. /\ http' \in [Requests -> HttpSession]
      /\ resp' \in [Requests -> {"none", "open", "closed"}]
      /\ http'[r] = h /\ resp'[r] = v
      /\ \A q \in Requests : q # r => http'[q] = http[q] /\ resp'[q] = resp[q]
  BY DEF IInv, TypeOK, FitsRequest
<1>2. TypeOK' /\ StreamsInv(streams)'
  BY <1>1 DEF IInv, TypeOK
<1>3. RequestIsFresh' /\ ResponseHasSession'
  BY <1>1 DEF IInv, RequestIsFresh, ResponseHasSession, FitsRequest
<1>4. RegisteredWriterIsLive' /\ HeadersPublished'
  BY DEF IInv, RegisteredWriterIsLive, HeadersPublished
<1> QED
  BY <1>2, <1>3, <1>4 DEF IInv

(* What IInv says of one request. *)
LEMMA RequestRecord ==
  ASSUME IInv, NEW r \in Requests
  PROVE  /\ FitsRequest(r, http[r], resp[r])
         /\ resp = [resp EXCEPT ![r] = resp[r]]
  BY DEF IInv, TypeOK, RequestIsFresh, ResponseHasSession, FitsRequest

LEMMA OnAcceptStep ==
  ASSUME IInv, NEW r \in Requests, OnAccept(r)
  PROVE  IInv'
<1> DEFINE h == [[http[r] EXCEPT !.obj = "open"] EXCEPT !.reading = TRUE]
<1>1. http' = [http EXCEPT ![r] = h] /\ http[r].obj = "none"
  BY DEF OnAccept, IInv, TypeOK, HttpSession
<1>2. UNCHANGED <<streams, writer, npackets>> /\ resp' = resp
  BY DEF OnAccept
<1>3. FitsRequest(r, http[r], resp[r]) /\ resp' = [resp EXCEPT ![r] = resp[r]]
  BY <1>2, RequestRecord
<1>4. FitsRequest(r, h, resp[r])
  BY <1>1, <1>3 DEF FitsRequest, HttpSession
<1> HIDE DEF h
<1> QED
  BY <1>1, <1>2, <1>3, <1>4, OneRequestStep

LEMMA OnBadRequestStep ==
  ASSUME IInv, NEW r \in Requests, OnBadRequest(r)
  PROVE  IInv'
<1> DEFINE h == [keep_alive(http[r]) EXCEPT !.reading = FALSE, !.obj = "closed"]
<1>1. /\ http' = [http EXCEPT ![r] = h] /\ resp' = [resp EXCEPT ![r] = "closed"]
      /\ UNCHANGED <<streams, writer, npackets>>
  BY DEF OnBadRequest
<1>2. FitsRequest(r, http[r], resp[r])
  BY RequestRecord
<1>3. FitsRequest(r, h, "closed")
  BY <1>2 DEF FitsRequest, HttpSession, keep_alive
<1> HIDE DEF h
<1> QED
  BY <1>1, <1>3, OneRequestStep

LEMMA OnPartialRequestStep ==
  ASSUME IInv, NEW r \in Requests, OnPartialRequest(r)
  PROVE  IInv'
<1> DEFINE h == keep_alive(http[r])
<1>1. http' = [http EXCEPT ![r] = h] /\ UNCHANGED <<streams, resp, writer, npackets>>
  BY DEF OnPartialRequest
<1>2. FitsRequest(r, http[r], resp[r]) /\ resp' = [resp EXCEPT ![r] = resp[r]]
  BY <1>1, RequestRecord
<1>3. FitsRequest(r, h, resp[r])
  BY <1>2 DEF FitsRequest, HttpSession, keep_alive
<1> HIDE DEF h
<1> QED
  BY <1>1, <1>2, <1>3, OneRequestStep

(* The session is freed while it reads: no response points to it yet. *)
LEMMA OnMalformedRequestStep ==
  ASSUME IInv, NEW r \in Requests, OnMalformedRequest(r)
  PROVE  IInv'
<1> DEFINE h == free_session(http[r])
<1>1. http' = [http EXCEPT ![r] = h] /\ UNCHANGED <<streams, resp, writer, npackets>>
  BY DEF OnMalformedRequest
<1>2. FitsRequest(r, http[r], resp[r]) /\ resp' = [resp EXCEPT ![r] = resp[r]]
  BY <1>1, RequestRecord
<1>3. http[r].reading
  BY DEF OnMalformedRequest
<1>4. FitsRequest(r, h, resp[r])
  BY <1>2, <1>3 DEF FitsRequest, HttpSession, free_session
<1> HIDE DEF h
<1> QED
  BY <1>1, <1>2, <1>4, OneRequestStep

(* close() marks the session and its response together. *)
LEMMA ClosedFits ==
  ASSUME NEW r \in Requests, FitsRequest(r, http[r], resp[r])
  PROVE  /\ FitsRequest(r, closed_session(http[r]), closed_response(r))
         /\ closed_response(r) # "open"
<1>1. CASE http[r].obj = "open"
  BY <1>1 DEF FitsRequest, HttpSession, closed_session, closed_response
<1>2. CASE http[r].obj # "open"
  BY <1>2 DEF FitsRequest, HttpSession, closed_session, closed_response
<1> QED
  BY <1>1, <1>2

LEMMA OnReadErrorStep ==
  ASSUME IInv, NEW r \in Requests, OnReadError(r)
  PROVE  IInv'
<1> DEFINE g == closed_session(http[r])
           h == keep_alive(g)
           v == closed_response(r)
<1>1. /\ http' = [http EXCEPT ![r] = h] /\ resp' = [resp EXCEPT ![r] = v]
      /\ UNCHANGED <<streams, writer, npackets>>
  BY DEF OnReadError
<1>2. FitsRequest(r, g, v)
  BY RequestRecord, ClosedFits
<1> HIDE DEF g, v
<1>3. FitsRequest(r, h, v)
  BY <1>2 DEF FitsRequest, HttpSession, keep_alive
<1> HIDE DEF h
<1> QED
  BY <1>1, <1>3, OneRequestStep

LEMMA OnWriteStep ==
  ASSUME IInv, NEW r \in Requests, OnWrite(r)
  PROVE  IInv'
<1> DEFINE g == [http[r] EXCEPT !.queued = @ - 1]
           h == keep_alive(g)
<1>1. http' = [http EXCEPT ![r] = h] /\ UNCHANGED <<streams, resp, writer, npackets>>
  BY DEF OnWrite
<1>2. FitsRequest(r, http[r], resp[r]) /\ resp' = [resp EXCEPT ![r] = resp[r]]
  BY <1>1, RequestRecord
<1>3. http[r].queued > 0
  BY DEF OnWrite
<1>4. FitsRequest(r, g, resp[r])
  BY <1>2, <1>3 DEF FitsRequest, HttpSession
<1> HIDE DEF g
<1>5. FitsRequest(r, h, resp[r])
  BY <1>4 DEF FitsRequest, HttpSession, keep_alive
<1> HIDE DEF h
<1> QED
  BY <1>1, <1>2, <1>5, OneRequestStep

LEMMA OnWriteErrorStep ==
  ASSUME IInv, NEW r \in Requests, OnWriteError(r)
  PROVE  IInv'
<1> DEFINE g == closed_session(http[r])
           h == [keep_alive(g) EXCEPT !.queued = 0]
           v == closed_response(r)
<1>1. /\ http' = [http EXCEPT ![r] = h] /\ resp' = [resp EXCEPT ![r] = v]
      /\ UNCHANGED <<streams, writer, npackets>>
  BY DEF OnWriteError
<1>2. FitsRequest(r, g, v)
  BY RequestRecord, ClosedFits
<1> HIDE DEF g, v
<1>3. FitsRequest(r, h, v)
  BY <1>2 DEF FitsRequest, HttpSession, keep_alive
<1> HIDE DEF h
<1> QED
  BY <1>1, <1>3, OneRequestStep

-----------------------------------------------------------------------------
(* A complete request: nobody knows the writer yet, so it joins one stream. *)
LEMMA OnRequestStep ==
  ASSUME IInv, NEW r \in Requests, NEW k \in Keys, OnRequest(r, k)
  PROVE  IInv'
<1> DEFINE h == [keep_alive(http[r]) EXCEPT !.reading = FALSE]
           u == [obj |-> "live", key |-> k, not_alive_cnt |-> 0]
<1>1. /\ http[r].obj = "open" /\ http[r].reading
      /\ http' = [http EXCEPT ![r] = h] /\ resp' = [resp EXCEPT ![r] = "open"]
      /\ writer' = [writer EXCEPT ![r] = u]
      /\ streams' = add_player(streams, k, r) /\ npackets' = npackets
  BY DEF OnRequest
<1>2. h \in HttpSession /\ h.obj = "open" /\ h.reading = FALSE
  BY <1>1 DEF IInv, TypeOK, HttpSession, keep_alive
<1>3. u \in Writer /\ u.obj = "live" /\ u.key = k
  BY DEF Writer
<1> HIDE DEF h, u
<1>4. /\ http' \in [Requests -> HttpSession]
      /\ resp' \in [Requests -> {"none", "open", "closed"}]
      /\ writer' \in [Requests -> Writer]
      /\ http'[r] = h /\ resp'[r] = "open" /\ writer'[r] = u
      /\ \A q \in Requests : q # r =>
           http'[q] = http[q] /\ resp'[q] = resp[q] /\ writer'[q] = writer[q]
  BY <1>1, <1>2, <1>3 DEF IInv, TypeOK
<1>5. /\ StreamsInv(streams')
      /\ OnlyAt(streams, streams', k, streams[k].writer_map \cup {r},
                streams[k].publisher_exist)
  BY <1>1, AddPlayer DEF IInv, Requests
<1>6. TypeOK'
  BY <1>1, <1>4, <1>5 DEF IInv, TypeOK, StreamsInv
<1>7. RequestIsFresh' /\ ResponseHasSession'
  BY <1>2, <1>4 DEF IInv, RequestIsFresh, ResponseHasSession
<1>8. writer[r].obj = "none"
  BY <1>1 DEF IInv, RequestIsFresh
<1>9. \A j \in Keys : r \notin streams[j].writer_map
  BY <1>8 DEF IInv, RegisteredWriterIsLive
<1>10. \A j \in Keys : streams[j].writer_map \subseteq Requests
  BY DEF IInv, TypeOK, StreamMap, Stream, Requests
<1>11. RegisteredWriterIsLive'
  BY <1>3, <1>4, <1>5, <1>9, <1>10 DEF IInv, RegisteredWriterIsLive, OnlyAt
<1>12. HeadersPublished'
  <2>1. \A j \in Keys : streams'[j].cache = streams[j].cache
    BY <1>1, AddPlayerSame DEF IInv, Requests
  <2> QED
    BY <1>1, <2>1 DEF IInv, HeadersPublished
<1> QED
  BY <1>5, <1>6, <1>7, <1>11, <1>12 DEF IInv

-----------------------------------------------------------------------------
(* Publishing. *)
LEMMA PacketTyped ==
  ASSUME IInv, NEW kind \in MediaKinds, npackets < MaxPackets
  PROVE  /\ [id |-> npackets + 1, kind |-> kind] \in Packet
         /\ npackets + 1 \in 1 .. MaxPackets
  BY MediaKindsAssumption, MaxPacketsAssumption DEF IInv, TypeOK, Packet

(* The headers in a cache after a packet are old ones or the packet itself. *)
LEMMA InsertedHeaders ==
  ASSUME NEW c \in Cache, NEW p \in Packet, NEW n \in Nat, p.id = n + 1,
         c.video_hdr \in 0 .. n, c.audio_hdr \in 0 .. n
  PROVE  /\ insert_packet(c, p).video_hdr \in 0 .. n + 1
         /\ insert_packet(c, p).audio_hdr \in 0 .. n + 1
<1>1. /\ insert_packet(c, p).video_hdr = HeaderAfter(c.video_hdr, p, "video_hdr")
      /\ insert_packet(c, p).audio_hdr = HeaderAfter(c.audio_hdr, p, "audio_hdr")
  BY InsertHeader
<1> QED
  BY <1>1 DEF HeaderAfter

LEMMA PublishStep ==
  ASSUME IInv, NEW k \in Keys, NEW kind \in MediaKinds, Publish(k, kind)
  PROVE  IInv'
<1> DEFINE p == [id |-> npackets + 1, kind |-> kind]
           failed == failed_writers(k, p)
<1>1. /\ npackets < MaxPackets /\ npackets' = npackets + 1
      /\ streams' = writer_media_packet(streams, k, p, failed)
      /\ writer' = [w \in Requests |->
                      IF w \in served_writers(k, p) THEN keep_alive(writer[w]) ELSE writer[w]]
      /\ http' = [w \in Requests |->
                    IF sent_to(k, w, p) THEN [http[w] EXCEPT !.queued = @ + 1] ELSE http[w]]
      /\ resp' = resp
  BY DEF Publish
<1>2. p \in Packet /\ p.id = npackets + 1 /\ npackets' \in Nat /\ npackets' <= MaxPackets
  BY <1>1, PacketTyped, MaxPacketsAssumption DEF IInv, TypeOK
<1> HIDE DEF p, failed
<1>3. /\ StreamsInv(streams')
      /\ OnlyAt(streams, streams', k, streams[k].writer_map \ failed, TRUE)
  BY <1>1, <1>2, WriterMediaPacket DEF IInv
<1>4. ASSUME NEW w \in Requests
      PROVE  /\ writer'[w] \in Writer
             /\ writer'[w].obj = writer[w].obj /\ writer'[w].key = writer[w].key
  BY <1>1 DEF IInv, TypeOK, Writer, keep_alive
<1>5. ASSUME NEW w \in Requests
      PROVE  /\ http'[w] \in HttpSession
             /\ http'[w].obj = http[w].obj /\ http'[w].reading = http[w].reading
  BY <1>1 DEF IInv, TypeOK, HttpSession
<1>6. TypeOK'
  BY <1>1, <1>2, <1>3, <1>4, <1>5 DEF IInv, TypeOK, StreamsInv
<1>7. RequestIsFresh' /\ ResponseHasSession'
  BY <1>1, <1>4, <1>5 DEF IInv, RequestIsFresh, ResponseHasSession
<1>8. \A j \in Keys : streams[j].writer_map \subseteq Requests
  BY DEF IInv, TypeOK, StreamMap, Stream, Requests
<1>9. RegisteredWriterIsLive'
  BY <1>3, <1>4, <1>8 DEF IInv, RegisteredWriterIsLive, OnlyAt
<1>10. ASSUME NEW j \in Keys
       PROVE  /\ streams'[j].cache.video_hdr \in 0 .. npackets'
              /\ streams'[j].cache.audio_hdr \in 0 .. npackets'
  <2>1. /\ streams[j].cache \in Cache /\ npackets \in Nat
        /\ streams[j].cache.video_hdr \in 0 .. npackets
        /\ streams[j].cache.audio_hdr \in 0 .. npackets
    BY DEF IInv, TypeOK, StreamMap, Stream, HeadersPublished
  <2>2. CASE j = k
    <3>1. streams'[k].cache = insert_packet(streams[k].cache, p)
      BY <1>1, <1>2, PublishResult DEF IInv
    <3> QED
      BY <1>1, <1>2, <2>1, <2>2, <3>1, InsertedHeaders
  <2>3. CASE j # k
    <3>1. streams'[j] = streams[j]
      BY <1>1, <2>3 DEF writer_media_packet, IInv, TypeOK, StreamMap
    <3> QED
      BY <1>1, <2>1, <3>1
  <2> QED
    BY <2>2, <2>3
<1>11. HeadersPublished'
  BY <1>2, <1>10 DEF HeadersPublished
<1> QED
  BY <1>3, <1>6, <1>7, <1>9, <1>11 DEF IInv

LEMMA LeftKeepsHeaders ==
  ASSUME IInv, npackets' = npackets, NEW out,
         \A k \in Keys : LeftBy(streams[k], streams'[k], out[k])
  PROVE  HeadersPublished'
<1>1. \A k \in Keys : streams'[k].cache \in {streams[k].cache, EmptyCache}
  BY DEF LeftBy
<1>2. 0 \in 0 .. npackets /\ EmptyCache.video_hdr = 0 /\ EmptyCache.audio_hdr = 0
  BY DEF IInv, TypeOK, EmptyCache
<1> QED
  BY <1>1, <1>2 DEF IInv, HeadersPublished

LEMMA StopPublishingStep ==
  ASSUME IInv, NEW k \in Keys, StopPublishing(k)
  PROVE  IInv'
<1>1. /\ streams' = remove_publisher(streams, k)
      /\ UNCHANGED <<http, resp, writer, npackets>>
  BY DEF StopPublishing
<1>2. /\ StreamsInv(streams')
      /\ OnlyAt(streams, streams', k, streams[k].writer_map, FALSE)
      /\ \A j \in Keys : LeftBy(streams[j], streams'[j], {})
  BY <1>1, RemovePublisher, RemovePublisherLeft DEF IInv
<1> DEFINE out == [j \in Keys |-> {}]
<1>3. \A j \in Keys : LeftBy(streams[j], streams'[j], out[j])
  BY <1>2
<1> HIDE DEF out
<1>4. HeadersPublished'
  BY <1>1, <1>3, LeftKeepsHeaders
<1>5. TypeOK' /\ RequestIsFresh' /\ ResponseHasSession'
  BY <1>1, <1>2 DEF IInv, TypeOK, RequestIsFresh, ResponseHasSession, StreamsInv
<1>6. RegisteredWriterIsLive'
  BY <1>1, <1>2 DEF IInv, RegisteredWriterIsLive, OnlyAt
<1> QED
  BY <1>2, <1>4, <1>5, <1>6 DEF IInv

-----------------------------------------------------------------------------
(* The two timers. *)
LEMMA HttpTimerStep ==
  ASSUME IInv, HttpTimer
  PROVE  IInv'
<1>1. UNCHANGED <<streams, writer, npackets>>
  BY DEF HttpTimer
<1>2. ASSUME NEW r \in Requests
      PROVE  FitsRequest(r, http'[r], resp'[r])
  <2>1. FitsRequest(r, http[r], resp[r])
    BY RequestRecord
  <2>2. CASE ~Held(r)
    <3>1. http'[r] = http[r] /\ resp'[r] = resp[r]
      BY <2>2 DEF HttpTimer
    <3> QED
      BY <2>1, <3>1
  <2>3. CASE Held(r) /\ is_alive(http[r])
    <3>1. http'[r] = asked(http[r]) /\ resp'[r] = resp[r]
      BY <2>3 DEF HttpTimer
    <3> QED
      BY <2>1, <3>1 DEF FitsRequest, HttpSession, asked
  <2>4. CASE Held(r) /\ ~is_alive(http[r])
    <3> DEFINE g == asked(http[r])
    <3>1. http'[r] = free_session(g) /\ resp'[r] = closed_response(r)
      BY <2>4 DEF HttpTimer
    <3>2. g \in HttpSession
      BY <2>1 DEF FitsRequest, HttpSession, asked
    <3> HIDE DEF g
    <3>3. /\ free_session(g) \in HttpSession
          /\ free_session(g).obj = "freed" /\ free_session(g).reading = FALSE
      BY <3>2 DEF HttpSession, free_session
    <3> QED
      BY <2>1, <3>1, <3>3 DEF FitsRequest, closed_response
  <2> QED
    BY <2>2, <2>3, <2>4
<1>3. /\ http' \in [Requests -> HttpSession]
      /\ resp' \in [Requests -> {"none", "open", "closed"}]
  <2>1. http' = [r \in Requests |-> http'[r]] /\ resp' = [r \in Requests |-> resp'[r]]
    BY DEF HttpTimer
  <2> QED
    BY <1>2, <2>1 DEF FitsRequest
<1>4. TypeOK' /\ RequestIsFresh' /\ ResponseHasSession'
  BY <1>1, <1>2, <1>3 DEF IInv, TypeOK, RequestIsFresh, ResponseHasSession, FitsRequest
<1>5. StreamsInv(streams)' /\ RegisteredWriterIsLive' /\ HeadersPublished'
  BY <1>1 DEF IInv, RegisteredWriterIsLive, HeadersPublished
<1> QED
  BY <1>4, <1>5 DEF IInv

(* Those who leave in on_check_alive, stream by stream. *)
Dead == {w \in Requests : writer[w].obj = "live" /\ ~is_alive(writer[w])}

DeadOf == [k \in Keys |-> PlayersOf(Dead, k)]

LEMMA FlvTimerFacts ==
  ASSUME FlvTimer
  PROVE  /\ writer' = [w \in Requests |->
                         IF w \in Dead THEN [asked(writer[w]) EXCEPT !.obj = "freed"]
                         ELSE IF writer[w].obj = "live" THEN asked(writer[w]) ELSE writer[w]]
         /\ streams' = remove_players(streams, Dead)
         /\ resp' = [w \in Requests |-> IF w \in Dead THEN "closed" ELSE resp[w]]
         /\ http' = [w \in Requests |->
                       IF w \in Dead /\ resp[w] = "open" THEN closed_session(http[w]) ELSE http[w]]
         /\ npackets' = npackets
<1> DEFINE live == {w \in Requests : writer[w].obj = "live"}
           dead == {w \in live : ~is_alive(writer[w])}
<1>1. dead = Dead /\ \A w \in Requests : w \in live <=> writer[w].obj = "live"
  BY DEF Dead
<1>2. /\ writer' = [w \in Requests |->
                      IF w \in dead THEN [asked(writer[w]) EXCEPT !.obj = "freed"]
                      ELSE IF w \in live THEN asked(writer[w]) ELSE writer[w]]
      /\ streams' = remove_players(streams, dead)
      /\ resp' = [w \in Requests |-> IF w \in dead THEN "closed" ELSE resp[w]]
      /\ http' = [w \in Requests |->
                    IF w \in dead /\ resp[w] = "open" THEN closed_session(http[w]) ELSE http[w]]
      /\ npackets' = npackets
  BY DEF FlvTimer
<1> HIDE DEF live, dead
<1> QED
  BY <1>1, <1>2

LEMMA FlvTimerStep ==
  ASSUME IInv, FlvTimer
  PROVE  IInv'
<1>1. /\ StreamsInv(streams')
      /\ \A k \in Keys : /\ streams'[k].writer_map = streams[k].writer_map \ DeadOf[k]
                         /\ LeftBy(streams[k], streams'[k], DeadOf[k])
  <2>1. streams' = remove_players(streams, Dead) /\ StreamsInv(streams)
    BY FlvTimerFacts DEF IInv
  <2>2. \A k \in Keys : DeadOf[k] = PlayersOf(Dead, k)
    BY DEF DeadOf
  <2> QED
    BY <2>1, <2>2, RemovePlayers
<1>2. ASSUME NEW w \in Requests
      PROVE  /\ writer'[w] \in Writer
             /\ writer'[w].key = writer[w].key
             /\ w \notin Dead => writer'[w].obj = writer[w].obj
             /\ writer'[w].obj = "none" <=> writer[w].obj = "none"
  <2> DEFINE u == asked(writer[w])
  <2>1. u \in Writer /\ u.key = writer[w].key /\ u.obj = writer[w].obj
    BY DEF IInv, TypeOK, Writer, asked
  <2>2. writer'[w] = IF w \in Dead THEN [u EXCEPT !.obj = "freed"]
                     ELSE IF writer[w].obj = "live" THEN u ELSE writer[w]
    BY FlvTimerFacts
  <2> HIDE DEF u
  <2>3. w \in Dead => writer[w].obj = "live"
    BY DEF Dead
  <2>4. writer[w] \in Writer
    BY DEF IInv, TypeOK
  <2> QED
    BY <2>1, <2>2, <2>3, <2>4 DEF Writer
<1>3. ASSUME NEW w \in Requests
      PROVE  /\ http'[w] \in HttpSession /\ resp'[w] \in {"none", "open", "closed"}
             /\ http'[w].reading = http[w].reading
             /\ http'[w].obj = "none" <=> http[w].obj = "none"
             /\ w \in Dead => resp'[w] = "closed"
             /\ w \notin Dead => resp'[w] = resp[w] /\ http'[w] = http[w]
  BY FlvTimerFacts DEF IInv, TypeOK, HttpSession, closed_session
<1>4. TypeOK'
  <2>1. /\ writer' = [w \in Requests |-> writer'[w]]
        /\ http' = [w \in Requests |-> http'[w]]
        /\ resp' = [w \in Requests |-> resp'[w]]
    BY FlvTimerFacts
  <2>2. /\ writer' \in [Requests -> Writer]
        /\ http' \in [Requests -> HttpSession]
        /\ resp' \in [Requests -> {"none", "open", "closed"}]
    BY <1>2, <1>3, <2>1
  <2> QED
    BY <1>1, <2>2, FlvTimerFacts DEF IInv, TypeOK, StreamsInv
<1>5. RequestIsFresh'
  BY <1>2, <1>3 DEF IInv, RequestIsFresh, Dead
<1>6. ResponseHasSession'
  BY <1>3 DEF IInv, ResponseHasSession
<1>7. RegisteredWriterIsLive'
  <2> SUFFICES ASSUME NEW k \in Keys, NEW w \in streams'[k].writer_map
               PROVE  writer'[w].obj = "live" /\ writer'[w].key = k
    BY DEF RegisteredWriterIsLive
  <2>1. w \in streams[k].writer_map /\ w \notin DeadOf[k]
    BY <1>1
  <2>2. w \in Requests /\ writer[w].obj = "live" /\ writer[w].key = k
    BY <2>1 DEF IInv, RegisteredWriterIsLive, TypeOK, StreamMap, Stream, Requests
  <2>3. w \notin Dead
    BY <2>1, <2>2 DEF DeadOf, PlayersOf
  <2> QED
    BY <1>2, <2>2, <2>3
<1>8. HeadersPublished'
  BY <1>1, FlvTimerFacts, LeftKeepsHeaders
<1> QED
  BY <1>1, <1>4, <1>5, <1>6, <1>7, <1>8 DEF IInv

-----------------------------------------------------------------------------
LEMMA NextKeepsInv == IInv /\ [Next]_vars => IInv'
<1> SUFFICES ASSUME IInv, [Next]_vars PROVE IInv'
  OBVIOUS
<1>1. ASSUME NEW r \in Requests, RequestStep(r) PROVE IInv'
  BY <1>1, OnAcceptStep, OnBadRequestStep, OnPartialRequestStep, OnMalformedRequestStep,
     OnReadErrorStep, OnWriteStep, OnWriteErrorStep, OnRequestStep DEF RequestStep
<1>2. ASSUME NEW k \in Keys, NEW kind \in MediaKinds, Publish(k, kind) PROVE IInv'
  BY <1>2, PublishStep
<1>3. ASSUME NEW k \in Keys, StopPublishing(k) PROVE IInv'
  BY <1>3, StopPublishingStep
<1>4. CASE HttpTimer
  BY <1>4, HttpTimerStep
<1>5. CASE FlvTimer
  BY <1>5, FlvTimerStep
<1>6. CASE UNCHANGED vars
  BY <1>6 DEF vars, IInv, TypeOK, RequestIsFresh, RegisteredWriterIsLive,
     ResponseHasSession, HeadersPublished
<1>7. CASE Finished
  BY <1>6, <1>7 DEF Finished
<1> QED
  BY <1>1, <1>2, <1>3, <1>4, <1>5, <1>6, <1>7 DEF Next

LEMMA InductiveInvariant == Spec => []IInv
  BY InitInv, NextKeepsInv, PTL DEF Spec

-----------------------------------------------------------------------------
(***************************************************************************)
(* The refinement of LiveStream.  Publish airs a frame or replaces a       *)
(* header, StopPublishing and FlvTimer make viewers leave, and no other    *)
(* step shows anything to the viewers.                                     *)
(***************************************************************************)
LEMMA EndsWithIsTail ==
  ASSUME NEW t \in Seq(Frame), NEW s \in Seq(Frame), EndsWith(t, s)
  PROVE  s \in Live!Tails(t)
<1> DEFINE i == Len(t) - Len(s) + 1
           u == SubSeq(t, i, Len(t))
<1>1. /\ Len(s) \in Nat /\ Len(t) \in Nat /\ Len(s) <= Len(t)
      /\ \A j \in 1 .. Len(s) : s[j] = t[Len(t) - Len(s) + j]
  BY DEF EndsWith
<1>2. i \in 1 .. Len(t) + 1 /\ \A j \in i .. Len(t) : t[j] \in Frame
  BY <1>1, ElementOfSeq
<1>3. /\ u \in Seq(Frame)
      /\ Len(u) = Len(s)
      /\ \A j \in 1 .. Len(t) - i + 1 : u[j] = t[i + j - 1]
  BY <1>1, <1>2, SubSeqProperties
<1>4. \A j \in 1 .. Len(s) : u[j] = s[j]
  BY <1>1, <1>3
<1> HIDE DEF u
<1>5. u = s
  BY <1>3, <1>4, SeqEqual
<1> QED
  BY <1>2, <1>5 DEF Live!Tails, u

LEMMA LiveInit == Init => Live!Init
<1> SUFFICES ASSUME Init PROVE Live!Init
  OBVIOUS
<1>1. \A k \in Keys :
        /\ streams[k].published = <<>> /\ streams[k].inited = {}
        /\ streams[k].cache.video_hdr = 0 /\ streams[k].cache.audio_hdr = 0
  BY DEF Init, NoStream, EmptyCache
<1>2. \A k \in Keys, w \in Requests : streams[k].view[w] = EmptyView
  BY DEF Init, NoStream, Requests
<1>3. \A k \in Keys, w \in Requests :
        /\ streams[k].view[w].frames = <<>>
        /\ streams[k].view[w].video = 0 /\ streams[k].view[w].audio = 0
  BY <1>2 DEF EmptyView
<1> QED
  BY <1>1, <1>3 DEF Live!Init

LEMMA LiveStutters ==
  ASSUME \A k \in Keys : SameToViewers(streams[k], streams'[k])
  PROVE  UNCHANGED Live!vars
  BY DEF SameToViewers, Live!vars

LEMMA LiveLeaves ==
  ASSUME NEW out \in [Keys -> SUBSET Requests],
         \A k \in Keys : LeftBy(streams[k], streams'[k], out[k])
  PROVE  Live!Next
<1> DEFINE ended == {k \in Keys : /\ streams'[k].cache = EmptyCache
                                  /\ streams'[k].published = <<>>
                                  /\ streams'[k].inited = {}}
<1>1. ASSUME NEW k \in Keys
      PROVE  /\ streams'[k].inited = streams[k].inited \ out[k]
             /\ \A w \in Requests : streams'[k].view[w] =
                  IF w \in out[k] THEN EmptyView ELSE streams[k].view[w]
             /\ k \notin ended => /\ streams'[k].cache = streams[k].cache
                                  /\ streams'[k].published = streams[k].published
  BY DEF LeftBy, Requests
<1>2. ASSUME NEW k \in ended
      PROVE  /\ k \in Keys /\ streams'[k].inited = {} /\ streams'[k].published = <<>>
             /\ streams'[k].cache.video_hdr = 0 /\ streams'[k].cache.audio_hdr = 0
  BY DEF EmptyCache
<1>3. /\ EmptyView.frames = <<>> /\ EmptyView.video = 0 /\ EmptyView.audio = 0
      /\ ended \in SUBSET Keys
  BY DEF EmptyView
<1> HIDE DEF ended
<1>4. PICK e \in SUBSET Keys : e = ended
  BY <1>3
<1>5. Live!Leave(out, e)
  BY <1>1, <1>2, <1>3, <1>4 DEF Live!Leave
<1> QED
  BY <1>5 DEF Live!Next

(* What a frame, or a header, adds to what was aired. *)
Aired(p) == IF p.kind \in FrameKinds THEN <<p>> ELSE <<>>

LEMMA PublishedIsAired ==
  ASSUME NEW t \in Seq(Frame), NEW p \in Packet
  PROVE  PublishedAfter(t, p) = t \o Aired(p) /\ PublishedAfter(t, p) \in Seq(Frame)
<1>1. CASE p.kind \in FrameKinds
  <2>1. p \in Frame
    BY <1>1 DEF Packet, Frame
  <2> QED
    BY <1>1, <2>1, AppendIsConcat, AppendProperties DEF PublishedAfter, Aired
<1>2. CASE p.kind \notin FrameKinds
  BY <1>2 DEF PublishedAfter, Aired
<1> QED
  BY <1>1, <1>2

(***************************************************************************)
(* What each viewer has heard after the packet: one that was in, the frame *)
(* more; one that is let in, the last part; one that is not in, nothing.   *)
(***************************************************************************)
LEMMA PublishHears ==
  ASSUME NEW s, StreamInv(s), NEW p \in Packet, NEW failed, NEW w \in Writers,
         NEW v, v = IF w \in failed THEN EmptyView
                    ELSE feed(s, insert_packet(s.cache, p), w, p),
         NEW stays, stays = s.writer_map \ failed
  PROVE  v.frames \in Live!Hears(w, s.inited, stays, Aired(p), s.published, s.view[w].frames)
<1> DEFINE c == insert_packet(s.cache, p)
           t == PublishedAfter(s.published, p)
<1>1. /\ s.cache \in Cache /\ s.published \in Seq(Frame) /\ s.view[w] \in View
      /\ EndsWith(s.published, s.cache.packet_list)
  BY DEF StreamInv, Stream, CacheIsSuffix
<1>2. c \in Cache /\ EndsWith(t, c.packet_list)
  BY <1>1, InsertPacket
<1>3. t = s.published \o Aired(p) /\ t \in Seq(Frame)
  BY <1>1, PublishedIsAired
<1> HIDE DEF c, t
<1>4. CASE w \in stays /\ w \in s.inited
  <2>1. v = deliver_packet(w, s.view[w], p)
    BY <1>4 DEF feed
  <2>2. v.frames = PublishedAfter(s.view[w].frames, p)
    BY <1>1, <2>1, DeliverPacket
  <2>3. v.frames = s.view[w].frames \o Aired(p)
    BY <1>1, <2>2, PublishedIsAired DEF View
  <2> QED
    BY <1>4, <2>3 DEF Live!Hears
<1>5. CASE w \in stays /\ w \notin s.inited
  <2>1. v = deliver_gop(w, EmptyView, c)
    BY <1>5 DEF feed, StreamInv, Fresh, c
  <2>2. v.frames = c.packet_list
    BY <1>2, <2>1, DeliverGop
  <2>3. v.frames \in Live!Tails(t)
    BY <1>2, <1>3, <2>2, EndsWithIsTail DEF Cache
  <2> QED
    BY <1>3, <1>5, <2>3 DEF Live!Hears
<1>6. CASE w \notin stays
  <2>1. v = EmptyView
    BY <1>6 DEF feed, StreamInv, Registered, Fresh
  <2> QED
    BY <1>6, <2>1 DEF Live!Hears, EmptyView
<1> QED
  BY <1>4, <1>5, <1>6

(* A frame leaves the headers alone. *)
LEMMA FrameKeepsHeaders ==
  ASSUME NEW c \in Cache, NEW p \in Packet, Aired(p) # <<>>
  PROVE  /\ insert_packet(c, p).video_hdr = c.video_hdr
         /\ insert_packet(c, p).audio_hdr = c.audio_hdr
<1>1. p.kind \in FrameKinds
  BY DEF Aired
<1> QED
  BY <1>1, InsertHeader DEF HeaderAfter, FrameKinds

LEMMA PublishAirs ==
  ASSUME IInv, IInv', NEW k \in Keys, NEW kind \in MediaKinds, Publish(k, kind)
  PROVE  Live!Next
<1> DEFINE p == [id |-> npackets + 1, kind |-> kind]
           failed == failed_writers(k, p)
           s == streams[k]
           n == streams'[k]
           c == insert_packet(s.cache, p)
           new == Aired(p)
           hdr == <<n.cache.video_hdr, n.cache.audio_hdr>>
           in == s.writer_map
           stays == s.writer_map \ failed
<1>1. /\ npackets < MaxPackets
      /\ streams' = writer_media_packet(streams, k, p, failed)
  BY DEF Publish
<1>2. p \in Packet /\ p.id \in 1 .. MaxPackets
  BY <1>1, PacketTyped
<1>3. new \in {<<>>} \cup {<<f>> : f \in [id : 1 .. MaxPackets, kind : FrameKinds]}
  BY <1>2 DEF Aired
<1>4. failed \in SUBSET Requests /\ in \in SUBSET Requests
  BY DEF failed_writers, IInv, TypeOK, StreamMap, Stream, Requests
<1>5. StreamInv(s) /\ StreamInv(n)
  BY DEF IInv, StreamsInv
<1> HIDE DEF p, failed
<1>6. /\ n.cache = c
      /\ n.inited = stays
      /\ n.published = PublishedAfter(s.published, p)
      /\ \A w \in Writers :
           n.view[w] = IF w \in failed THEN EmptyView ELSE feed(s, c, w, p)
  BY <1>1, <1>2, PublishResult DEF IInv
<1>7. \A j \in Keys : j # k => streams'[j] = streams[j]
  BY <1>1 DEF writer_media_packet, IInv, TypeOK, StreamMap
<1>8. hdr \in HeaderIds \X HeaderIds
  BY MaxPacketsAssumption DEF IInv, TypeOK, HeadersPublished, HeaderIds
<1>9. new = <<>> \/ hdr = <<s.cache.video_hdr, s.cache.audio_hdr>>
  BY <1>2, <1>5, <1>6, FrameKeepsHeaders DEF StreamInv, Stream
<1>10. n.published = s.published \o new
  BY <1>2, <1>5, <1>6, PublishedIsAired DEF StreamInv, Stream
<1>11. stays = (s.inited \cup in) \ failed
  BY <1>5 DEF StreamInv, Registered
<1>12. ASSUME NEW w \in Requests
       PROVE  <<n.view[w].video, n.view[w].audio>> = IF w \in stays THEN hdr ELSE <<0, 0>>
  BY <1>5, <1>6 DEF StreamInv, ViewHasHeaders, HasHeaders, Fresh, EmptyView, Requests
<1>13. ASSUME NEW w \in Requests
       PROVE  n.view[w].frames
                \in Live!Hears(w, s.inited, stays, new, s.published, s.view[w].frames)
  BY <1>2, <1>5, <1>6, PublishHears DEF Requests
<1>14. PICK new1, hdr1, in1, out1 :
         new1 = new /\ hdr1 = hdr /\ in1 = in /\ out1 = failed
  OBVIOUS
<1> HIDE DEF s, n, c, new, hdr, in, stays
<1>15. Live!Air(k, new1, hdr1, in1, out1)
  <2> DEFINE aired == [j \in Keys |-> streams[j].published]
             headers == [j \in Keys |-> <<streams[j].cache.video_hdr, streams[j].cache.audio_hdr>>]
             audience == [j \in Keys |-> streams[j].inited]
             heard == [j \in Keys |-> [w \in Requests |-> streams[j].view[w].frames]]
             held == [j \in Keys |-> [w \in Requests |->
                        <<streams[j].view[w].video, streams[j].view[w].audio>>]]
             st == (audience[k] \cup in1) \ out1
  <2>1. st = stays
    BY <1>11, <1>14 DEF s
  <2>2. new1 = <<>> \/ hdr1 = headers[k]
    BY <1>9, <1>14 DEF s
  <2>3. aired' = [aired EXCEPT ![k] = @ \o new1]
    BY <1>7, <1>10, <1>14 DEF s, n
  <2>4. headers' = [headers EXCEPT ![k] = hdr1]
    BY <1>7, <1>14 DEF n, hdr
  <2>5. audience' = [audience EXCEPT ![k] = st]
    BY <1>6, <1>7, <2>1 DEF n
  <2>6. held' = [held EXCEPT ![k] = [w \in Requests |-> IF w \in st THEN hdr1 ELSE <<0, 0>>]]
    BY <1>7, <1>12, <1>14, <2>1 DEF n
  <2>7. heard' = [heard EXCEPT ![k] = heard'[k]]
    BY <1>7
  <2>8. ASSUME NEW w \in Requests
        PROVE  heard'[k][w] \in Live!Hears(w, audience[k], st, new1, aired[k], heard[k][w])
    <3>1. /\ heard'[k][w] = n.view[w].frames /\ heard[k][w] = s.view[w].frames
          /\ audience[k] = s.inited /\ aired[k] = s.published /\ new1 = new
      BY <1>14 DEF s, n
    <3> HIDE DEF aired, audience, heard, st
    <3> QED
      BY <1>13, <2>1, <3>1
  <2> QED
    BY <2>2, <2>3, <2>4, <2>5, <2>6, <2>7, <2>8, Zenon DEF Live!Air
<1> QED
  BY <1>3, <1>4, <1>8, <1>14, <1>15 DEF Live!Next

LEMMA NextImplementsLive ==
  ASSUME IInv, IInv', [Next]_vars
  PROVE  [Live!Next]_(Live!vars)
<1>1. ASSUME streams' = streams PROVE UNCHANGED Live!vars
  BY <1>1, LiveStutters DEF SameToViewers
<1>2. ASSUME NEW r \in Requests, RequestStep(r) PROVE UNCHANGED Live!vars
  <2>1. ASSUME NEW k \in Keys, OnRequest(r, k) PROVE UNCHANGED Live!vars
    <3>1. streams' = add_player(streams, k, r)
      BY <2>1 DEF OnRequest
    <3>2. \A j \in Keys : SameToViewers(streams[j], streams'[j])
      BY <3>1, AddPlayerSame DEF IInv, Requests
    <3> QED
      BY <3>2, LiveStutters
  <2>2. ASSUME ~\E k \in Keys : OnRequest(r, k) PROVE streams' = streams
    BY <1>2, <2>2 DEF RequestStep, OnAccept, OnBadRequest, OnPartialRequest,
       OnMalformedRequest, OnReadError, OnWrite, OnWriteError
  <2> QED
    BY <1>1, <2>1, <2>2
<1>3. ASSUME NEW k \in Keys, NEW kind \in MediaKinds, Publish(k, kind) PROVE Live!Next
  BY <1>3, PublishAirs
<1>4. ASSUME NEW k \in Keys, StopPublishing(k) PROVE Live!Next
  <2> DEFINE out == [j \in Keys |-> {}]
  <2>1. \A j \in Keys : LeftBy(streams[j], streams'[j], {})
    BY <1>4, RemovePublisherLeft DEF StopPublishing, IInv
  <2>2. out \in [Keys -> SUBSET Requests] /\ \A j \in Keys : out[j] = {}
    OBVIOUS
  <2> HIDE DEF out
  <2> QED
    BY <2>1, <2>2, LiveLeaves
<1>5. ASSUME HttpTimer PROVE UNCHANGED Live!vars
  BY <1>1, <1>5 DEF HttpTimer
<1>6. ASSUME FlvTimer PROVE Live!Next
  <2>1. streams' = remove_players(streams, Dead) /\ StreamsInv(streams)
    BY <1>6, FlvTimerFacts DEF IInv
  <2>2. \A k \in Keys : DeadOf[k] = PlayersOf(Dead, k)
    BY DEF DeadOf
  <2>3. \A k \in Keys : LeftBy(streams[k], streams'[k], DeadOf[k])
    BY <2>1, <2>2, RemovePlayers
  <2>4. DeadOf \in [Keys -> SUBSET Requests]
    BY DEF DeadOf, PlayersOf, Dead
  <2>5. PICK out \in [Keys -> SUBSET Requests] : out = DeadOf
    BY <2>4
  <2> QED
    BY <2>3, <2>5, LiveLeaves
<1>7. ASSUME UNCHANGED vars PROVE UNCHANGED Live!vars
  BY <1>1, <1>7 DEF vars
<1> QED
  BY <1>2, <1>3, <1>4, <1>5, <1>6, <1>7 DEF Next, Finished

-----------------------------------------------------------------------------
(* Every variable keeps its type: queued never drops below zero, and each  *)
(* writer names a stream.                                                  *)
THEOREM TypeCorrect == Spec => []TypeOK
<1>1. IInv => TypeOK
  BY DEF IInv
<1> QED
  BY InductiveInvariant, <1>1, PTL

(***************************************************************************)
(* media_stream_manager holds no writer that httpflv_server deleted, and   *)
(* each only under the key of its request: on_check_alive takes a writer   *)
(* out of its stream before it deletes it, and a request gets one writer.  *)
(***************************************************************************)
THEOREM RegisteredWritersAreLive == Spec => []RegisteredWriterIsLive
<1>1. IInv => RegisteredWriterIsLive
  BY DEF IInv
<1> QED
  BY InductiveInvariant, <1>1, PTL

(***************************************************************************)
(* An http_response that accepts writes points to an open http_session,    *)
(* whichever of the two timers, a read error or a write error ends the     *)
(* connection first.                                                       *)
(***************************************************************************)
THEOREM ResponsesHaveSessions == Spec => []ResponseHasSession
<1>1. IInv => ResponseHasSession
  BY DEF IInv
<1> QED
  BY InductiveInvariant, <1>1, PTL

(***************************************************************************)
(* HTTP-FLV playing implements LiveStream: every step of the servers, the  *)
(* publishers and the timers either airs one packet to exactly those who   *)
(* are let in, or makes viewers leave, or shows them nothing.              *)
(***************************************************************************)
THEOREM HttpFlvImplementsLiveStream == Spec => ImplementsLiveStream
<1>1. IInv /\ IInv' /\ [Next]_vars => [Live!Next]_(Live!vars)
  BY NextImplementsLive
<1> QED
  BY InductiveInvariant, LiveInit, <1>1, PTL DEF Spec, ImplementsLiveStream, Live!Spec
=============================================================================
