------------------------------ MODULE HttpFlv -------------------------------
(***************************************************************************)
(* HTTP-FLV playing: http_server and its http_sessions, the http_response  *)
(* a session hands to its request handler, httpflv_server and its          *)
(* httpflv_writers, over media_stream_manager.                             *)
(*                                                                         *)
(* Three objects of one request refer to each other by raw pointers and    *)
(* are freed by two different timers: the session (freed by http_server),  *)
(* the response (shared, points to the session) and the writer (registered *)
(* with the manager, freed by httpflv_server).  Publishers, whatever their *)
(* protocol, are seen through the two manager operations they call.        *)
(*                                                                         *)
(* Every callback and timer handler runs to completion: one action each.   *)
(* Abstracted: the header text (a read completes the request, leaves it    *)
(* incomplete or makes it malformed), the FLV tag bytes; the buffers one   *)
(* packet is written with count as one.  A read error is final: the socket *)
(* reports it again on every later read.  An I/O completion that finds its *)
(* session freed is undefined behaviour and not followed.                  *)
(***************************************************************************)
EXTENDS MediaStreamManager

CONSTANTS
  try_max_,     \* session_aliver's limit (4 in the code)
  MediaKinds,   \* the kinds of media packets the publishers send
  MaxPackets    \* bound: media packets published

ASSUME KeysAssumption == Keys # {}
ASSUME WritersAssumption == MetadataWriters = {}
ASSUME TryMaxAssumption == try_max_ \in Nat
ASSUME MediaKindsAssumption == MediaKinds \subseteq Kinds
ASSUME MaxPacketsAssumption == MaxPackets \in Nat

Requests == Writers

VARIABLES
  streams,   \* media_streams_map_
  http,      \* the HTTP sessions
  resp,      \* the responses: "none", "open" or "closed" (is_close_)
  writer,    \* the writers; the live ones are s_httpflv_handle_map
  npackets   \* media packets published so far, the last one's id

vars == <<streams, http, resp, writer, npackets>>

(***************************************************************************)
(* obj: "closed" is a session with is_closed_ that http_server still       *)
(* holds, "freed" one that it dropped; reading: an async_read is           *)
(* outstanding; queued: packets in the socket's send queue.                *)
(***************************************************************************)
HttpSession == [obj : {"none", "open", "closed", "freed"}, reading : BOOLEAN,
                queued : Nat, not_alive_cnt : Nat]

Writer == [obj : {"none", "live", "freed"}, key : Keys, not_alive_cnt : Nat]

TypeOK ==
  /\ streams \in StreamMap
  /\ http \in [Requests -> HttpSession]
  /\ resp \in [Requests -> {"none", "open", "closed"}]
  /\ writer \in [Requests -> Writer]
  /\ npackets \in Nat

Init ==
  /\ streams = [k \in Keys |-> NoStream]
  /\ http = [r \in Requests |-> [obj |-> "none", reading |-> FALSE,
                                 queued |-> 0, not_alive_cnt |-> 0]]
  /\ resp = [r \in Requests |-> "none"]
  /\ writer = [r \in Requests |-> [obj |-> "none", key |-> CHOOSE k \in Keys : TRUE,
                                    not_alive_cnt |-> 0]]
  /\ npackets = 0

-----------------------------------------------------------------------------
Held(r) == http[r].obj \in {"open", "closed"}

keep_alive(r) == [r EXCEPT !.not_alive_cnt = 0]

(* http_session::close() on a session that may be closed already. *)
closed_session(h) == IF h.obj = "open" THEN [h EXCEPT !.obj = "closed"] ELSE h

(* close() also marks the response, if there is one. *)
(* Variant: the response is not told. *)
closed_response_forgotten(r) == resp[r]

closed_response(r) == IF resp[r] = "open" THEN "closed" ELSE resp[r]

OnAccept(r) ==
  /\ http[r].obj = "none"
  /\ http' = [http EXCEPT ![r].obj = "open", ![r].reading = TRUE]
  /\ UNCHANGED <<streams, resp, writer, npackets>>

(* A complete GET: httpflv_handle makes the writer and joins the stream. *)
OnRequest(r, k) ==
  /\ http[r].obj = "open" /\ http[r].reading
  /\ http' = [http EXCEPT ![r] = [keep_alive(@) EXCEPT !.reading = FALSE]]
  /\ resp' = [resp EXCEPT ![r] = "open"]
  /\ writer' = [writer EXCEPT ![r] = [obj |-> "live", key |-> k, not_alive_cnt |-> 0]]
  /\ streams' = add_player(streams, k, r)
  /\ UNCHANGED npackets

(* A GET whose uri is not a .flv: the response is closed at once. *)
OnBadRequest(r) ==
  /\ http[r].obj = "open" /\ http[r].reading
  /\ http' = [http EXCEPT ![r] = [keep_alive(@) EXCEPT !.reading = FALSE, !.obj = "closed"]]
  /\ resp' = [resp EXCEPT ![r] = "closed"]
  /\ UNCHANGED <<streams, writer, npackets>>

(* The header is not complete yet. *)
OnPartialRequest(r) ==
  /\ http[r].obj = "open" /\ http[r].reading
  /\ http' = [http EXCEPT ![r] = keep_alive(@)]
  /\ UNCHANGED <<streams, resp, writer, npackets>>

free_session(h) == [h EXCEPT !.obj = "freed", !.reading = FALSE, !.queued = 0]

(* A header that does not parse: on_close drops the session. *)
OnMalformedRequest(r) ==
  /\ http[r].obj = "open" /\ http[r].reading
  /\ http' = [http EXCEPT ![r] = free_session(@)]
  /\ UNCHANGED <<streams, resp, writer, npackets>>

(***************************************************************************)
(* A read error closes the session, but the handler then goes on as if it  *)
(* had read nothing: it counts as a sign of life and reads again.          *)
(***************************************************************************)
OnReadError(r) ==
  /\ Held(r) /\ http[r].reading
  /\ http' = [http EXCEPT ![r] = keep_alive(closed_session(@))]
  /\ resp' = [resp EXCEPT ![r] = closed_response(r)]
  /\ UNCHANGED <<streams, writer, npackets>>

OnWrite(r) ==
  /\ Held(r) /\ http[r].queued > 0
  /\ http' = [http EXCEPT ![r] = keep_alive([http[r] EXCEPT !.queued = @ - 1])]
  /\ UNCHANGED <<streams, resp, writer, npackets>>

(* After an error the send queue is not served any more. *)
OnWriteError(r) ==
  /\ Held(r) /\ http[r].queued > 0
  /\ http' = [http EXCEPT ![r] = [keep_alive(closed_session(@)) EXCEPT !.queued = 0]]
  /\ resp' = [resp EXCEPT ![r] = closed_response(r)]
  /\ UNCHANGED <<streams, writer, npackets>>

-----------------------------------------------------------------------------
(***************************************************************************)
(* write_packet on a closed response fails, but not for metadata, which    *)
(* has no tag: then nothing is written.  A writer that is not initialised  *)
(* is given the cache, which fails if it holds more than metadata.         *)
(***************************************************************************)
writes_tag(k, w, p) ==
  LET c == insert_packet(streams[k].cache, p)
  IN  IF w \in streams[k].inited THEN p.kind # "metadata"
      ELSE c.video_hdr # 0 \/ c.audio_hdr # 0 \/ c.packet_list # <<>>

failed_writers(k, p) ==
  {w \in streams[k].writer_map : resp[w] = "closed" /\ writes_tag(k, w, p)}

served_writers(k, p) ==
  {w \in streams[k].writer_map : resp[w] = "open" /\ writes_tag(k, w, p)}

(* The first packet also carries the HTTP and the FLV header. *)
sent_to(k, w, p) ==
  /\ w \in streams[k].writer_map
  /\ resp[w] = "open"
  /\ w \notin streams[k].inited \/ writes_tag(k, w, p)

Publish(k, kind) ==
  LET p == [id |-> npackets + 1, kind |-> kind]
  IN  /\ npackets < MaxPackets
      /\ npackets' = npackets + 1
      /\ streams' = writer_media_packet(streams, k, p, failed_writers(k, p))
      /\ writer' = [w \in Requests |->
                      IF w \in served_writers(k, p) THEN keep_alive(writer[w]) ELSE writer[w]]
      /\ http' = [w \in Requests |->
                    IF sent_to(k, w, p) THEN [http[w] EXCEPT !.queued = @ + 1] ELSE http[w]]
      /\ UNCHANGED resp

StopPublishing(k) ==
  /\ streams[k].publisher_exist
  /\ streams' = remove_publisher(streams, k)
  /\ UNCHANGED <<http, resp, writer, npackets>>

-----------------------------------------------------------------------------
is_alive(r) == ~(r.not_alive_cnt > try_max_)

asked(r) == [r EXCEPT !.not_alive_cnt = @ + 1]

(* Variant: sessions that are closed already are not asked. *)
HttpTimer_open_only ==
  LET asks(r) == http[r].obj = "open"
  IN  /\ \E r \in Requests : asks(r)
      /\ http' = [r \in Requests |->
                    CASE ~asks(r) -> http[r]
                      [] asks(r) /\ is_alive(http[r]) -> asked(http[r])
                      [] asks(r) /\ ~is_alive(http[r]) -> free_session(asked(http[r]))]
      /\ resp' = [r \in Requests |->
                    IF asks(r) /\ ~is_alive(http[r]) THEN closed_response(r) ELSE resp[r]]
      /\ UNCHANGED <<streams, writer, npackets>>

(* http_server::on_timer: dropping a session runs its destructor. *)
HttpTimer ==
  /\ \E r \in Requests : Held(r)
  /\ http' = [r \in Requests |->
                CASE ~Held(r) -> http[r]
                  [] Held(r) /\ is_alive(http[r]) -> asked(http[r])
                  [] Held(r) /\ ~is_alive(http[r]) -> free_session(asked(http[r]))]
  /\ resp' = [r \in Requests |->
                IF Held(r) /\ ~is_alive(http[r]) THEN closed_response(r) ELSE resp[r]]
  /\ UNCHANGED <<streams, writer, npackets>>

(* Variant: on_check_alive deletes the writer and tells nobody. *)
remove_players_forgotten(m, ws) == m

remove_players(m, ws) ==
  [k \in Keys |->
     IF m[k].live THEN keep_or_erase(unregister(m[k], {w \in ws : writer[w].key = k})) ELSE m[k]]

(* Variant: only the writers that are still registered are asked. *)
FlvTimer_registered_only ==
  LET live == {w \in Requests : /\ writer[w].obj = "live"
                                /\ w \in streams[writer[w].key].writer_map}
      dead == {w \in live : ~is_alive(writer[w])}
  IN  /\ live # {}
      /\ writer' = [w \in Requests |->
                      IF w \in dead THEN [asked(writer[w]) EXCEPT !.obj = "freed"]
                      ELSE IF w \in live THEN asked(writer[w]) ELSE writer[w]]
      /\ streams' = remove_players(streams, dead)
      /\ resp' = [w \in Requests |-> IF w \in dead THEN "closed" ELSE resp[w]]
      /\ http' = [w \in Requests |->
                    IF w \in dead /\ resp[w] = "open" THEN closed_session(http[w]) ELSE http[w]]
      /\ UNCHANGED npackets

(***************************************************************************)
(* httpflv_server::on_check_alive: a writer that is not alive leaves its   *)
(* stream and is deleted, which closes its response and, through it, the   *)
(* session.                                                                *)
(***************************************************************************)
FlvTimer ==
  LET live == {w \in Requests : writer[w].obj = "live"}
      dead == {w \in live : ~is_alive(writer[w])}
  IN  /\ live # {}
      /\ writer' = [w \in Requests |->
                      IF w \in dead THEN [asked(writer[w]) EXCEPT !.obj = "freed"]
                      ELSE IF w \in live THEN asked(writer[w]) ELSE writer[w]]
      /\ streams' = remove_players(streams, dead)
      /\ resp' = [w \in Requests |-> IF w \in dead THEN "closed" ELSE resp[w]]
      /\ http' = [w \in Requests |->
                    IF w \in dead /\ resp[w] = "open" THEN closed_session(http[w]) ELSE http[w]]
      /\ UNCHANGED npackets

(* Every connection has come and gone and nobody publishes. *)
Finished ==
  /\ \A r \in Requests : http[r].obj = "freed" /\ writer[r].obj # "live"
  /\ \A k \in Keys : ~streams[k].publisher_exist
  /\ UNCHANGED vars

RequestStep(r) ==
  \/ OnAccept(r) \/ OnBadRequest(r) \/ OnPartialRequest(r) \/ OnMalformedRequest(r)
  \/ OnReadError(r) \/ OnWrite(r) \/ OnWriteError(r)
  \/ \E k \in Keys : OnRequest(r, k)

Next ==
  \/ \E r \in Requests : RequestStep(r)
  \/ \E k \in Keys, kind \in MediaKinds : Publish(k, kind)
  \/ \E k \in Keys : StopPublishing(k)
  \/ HttpTimer
  \/ FlvTimer
  \/ Finished

(* Both servers' deadline timers are started once and restart themselves. *)
Fairness == WF_vars(HttpTimer) /\ WF_vars(FlvTimer)

Spec == Init /\ [][Next]_vars

FairSpec == Spec /\ Fairness

-----------------------------------------------------------------------------
(***************************************************************************)
(* The manager never holds a writer that was deleted, and holds each under *)
(* the key it was made for only: on_check_alive deregisters before it      *)
(* deletes, a failed write deregisters without deleting.                   *)
(***************************************************************************)
RegisteredWriterIsLive ==
  \A k \in Keys : \A w \in streams[k].writer_map :
    writer[w].obj = "live" /\ writer[w].key = k

(***************************************************************************)
(* A response that accepts writes points to a session that still exists,   *)
(* whichever of the two timers, the read or the write errors came first.   *)
(***************************************************************************)
ResponseHasSession ==
  \A r \in Requests : resp[r] = "open" => http[r].obj = "open"

(***************************************************************************)
(* An HTTP-FLV player is given what LiveStream promises, whatever the      *)
(* timers, the errors and the other player do: media_stream_manager lets a *)
(* writer in with its first packet and gives it the cached frames.         *)
(***************************************************************************)
HeaderIds == 0..MaxPackets

Live == INSTANCE LiveStream WITH
  Channels <- Keys, Viewers <- Requests,
  Frames <- [id : 1..MaxPackets, kind : FrameKinds],
  Headers <- HeaderIds \X HeaderIds, NoHeaders <- <<0, 0>>,
  aired <- [k \in Keys |-> streams[k].published],
  headers <- [k \in Keys |-> <<streams[k].cache.video_hdr, streams[k].cache.audio_hdr>>],
  audience <- [k \in Keys |-> streams[k].inited],
  heard <- [k \in Keys |-> [w \in Requests |-> streams[k].view[w].frames]],
  held <- [k \in Keys |-> [w \in Requests |->
             <<streams[k].view[w].video, streams[k].view[w].audio>>]]

ImplementsLiveStream == Live!Spec

(***************************************************************************)
(* A player whose connection broke is forgotten: its writer is deleted and *)
(* no stream refers to it, though nobody tells httpflv_server of the       *)
(* disconnect.                                                             *)
(***************************************************************************)
BrokenPlayerIsFreed ==
  \A r \in Requests :
    (writer[r].obj = "live" /\ resp[r] = "closed")
      ~> (writer[r].obj = "freed" /\ \A k \in Keys : r \notin streams[k].writer_map)

(***************************************************************************)
(* The HTTP session of a request that was answered or refused does not     *)
(* stay in http_server's map for ever once its response is closed, though  *)
(* every write that still completes counts as a sign of life.              *)
(***************************************************************************)
AnsweredSessionIsFreed ==
  \A r \in Requests : (resp[r] = "closed") ~> (http[r].obj = "freed")
=============================================================================
