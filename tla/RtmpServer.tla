----------------------------- MODULE RtmpServer -----------------------------
(***************************************************************************)
(* The RTMP server: rtmp_server, its rtmp_server_sessions and their        *)
(* rtmp_writers, over media_stream_manager.                                *)
(*                                                                         *)
(* One io_context thread runs every callback, so callbacks never           *)
(* interleave.  A read callback, though, handles as many messages as the   *)
(* receive buffer holds: cb names the session whose callback is running,   *)
(* each message is one action, and nothing else happens until the callback *)
(* has returned.  What a peer sends is arbitrary: the server checks        *)
(* neither the order of the commands nor who sends media.                  *)
(*                                                                         *)
(* Abstracted: the bytes of the handshake and of the chunks, the contents  *)
(* of replies (only that rtmp_send calls keep_alive() matters here), the   *)
(* acknowledgement window.  A media message has at least two bytes.        *)
(***************************************************************************)
EXTENDS MediaStreamManager, FiniteSets

CONSTANTS
  Sessions,     \* connections, named by their session_key_
  Names,        \* the non-empty stream keys a client may ask for
  try_max_,     \* session_aliver's limit (4 in the code)
  MediaKinds,   \* the kinds of media packets the peers send
  MaxPackets    \* bound: media packets received by the server

ASSUME NamesAssumption == Keys = Names \cup {""} /\ "" \notin Names
ASSUME SessionsAssumption == Writers = Sessions /\ MetadataWriters = Sessions
ASSUME TryMaxAssumption == try_max_ \in Nat
ASSUME MediaKindsAssumption == MediaKinds \subseteq Kinds
ASSUME MaxPacketsAssumption == MaxPackets \in Nat

VARIABLES
  streams,   \* media_streams_map_
  sess,      \* the sessions
  cb,        \* the read callback in progress
  dying,     \* on_check_alive's session_vec
  npackets,  \* media packets received so far, the last one's id
  stray      \* history: keys fed by a session that is not publishing them

vars == <<streams, sess, cb, dying, npackets, stray>>

(***************************************************************************)
(* server_phase_.  The commands move it on from connect_phase to           *)
(* media_handle_phase, but handle_request only asks whether it is at least *)
(* connect_phase: those four phases are one here.                          *)
(***************************************************************************)
Phases == {"initial", "handshake_c2", "connect"}

(***************************************************************************)
(* conn: a session object exists while "open"; reading: an async_read is   *)
(* outstanding; key, ready, publish: req_; play_writer: play_writer_ is    *)
(* not null; not_alive_cnt: session_aliver's counter; left (history): the  *)
(* keys the session had when a later play or publish changed its key or    *)
(* its role.                                                               *)
(***************************************************************************)
Session == [conn : {"none", "open", "closed"}, phase : Phases, reading : BOOLEAN,
            key : Keys, ready : BOOLEAN, publish : BOOLEAN,
            play_writer : BOOLEAN, not_alive_cnt : Nat, left : SUBSET Keys]

NewSession == [conn |-> "none", phase |-> "initial", reading |-> FALSE,
               key |-> "", ready |-> FALSE, publish |-> FALSE,
               play_writer |-> FALSE, not_alive_cnt |-> 0, left |-> {}]

(***************************************************************************)
(* cb.in: the sessions whose callback is running, at most one; cb.c2: the  *)
(* callback began by consuming C2.                                         *)
(***************************************************************************)
Idle == [in |-> {}, c2 |-> FALSE]

TypeOK ==
  /\ streams \in StreamMap
  /\ sess \in [Sessions -> Session]
  /\ cb \in [in : SUBSET Sessions, c2 : BOOLEAN]
  /\ dying \in SUBSET Sessions
  /\ npackets \in Nat
  /\ stray \in SUBSET Keys

Init ==
  /\ streams = [k \in Keys |-> NoStream]
  /\ sess = [s \in Sessions |-> NewSession]
  /\ cb = Idle
  /\ dying = {}
  /\ npackets = 0
  /\ stray = {}

-----------------------------------------------------------------------------
IsOpen(s) == sess[s].conn = "open"
IsPlaying(r) == r.ready /\ ~r.publish
IsPublishing(r) == r.ready /\ r.publish

keep_alive(r) == [r EXCEPT !.not_alive_cnt = 0]

(* No callback is running. *)
Quiet == cb.in = {} /\ dying = {}

(***************************************************************************)
(* close(): a player leaves its stream, any other session that has a key   *)
(* withdraws the publisher; then on_close drops the session and the socket *)
(* is closed.                                                              *)
(***************************************************************************)
(* Variant: every session is taken for a publisher. *)
close_streams_publisher_only(r, s) ==
  IF r.key # "" THEN remove_publisher(streams, r.key) ELSE streams

close_streams(r, s) ==
  IF IsPlaying(r)
  THEN IF r.play_writer THEN remove_player(streams, r.key, s) ELSE streams
  ELSE IF r.key # "" THEN remove_publisher(streams, r.key) ELSE streams

close(s) ==
  /\ streams' = close_streams(sess[s], s)
  /\ sess' = [sess EXCEPT ![s].conn = "closed", ![s].reading = FALSE]

-----------------------------------------------------------------------------
(* rtmp_server::on_accept and the session's constructor. *)
OnAccept(s) ==
  /\ Quiet
  /\ sess[s].conn = "none"
  /\ sess' = [sess EXCEPT ![s].conn = "open", ![s].reading = TRUE]
  /\ UNCHANGED <<streams, cb, dying, npackets, stray>>

(* A read or write callback that reports an error. *)
OnReadError(s) ==
  /\ Quiet
  /\ IsOpen(s) /\ sess[s].reading
  /\ close(s)
  /\ UNCHANGED <<cb, dying, npackets, stray>>

OnWriteError(s) ==
  /\ Quiet
  /\ IsOpen(s) /\ sess[s].phase # "initial"
  /\ close(s)
  /\ UNCHANGED <<cb, dying, npackets, stray>>

(***************************************************************************)
(* The handshake.  C0C1 is answered with S0S1S2, whatever follows it in    *)
(* the buffer is dropped; a C0C1 that does not parse closes the session.   *)
(***************************************************************************)
HandleC0C1(s) ==
  /\ Quiet
  /\ IsOpen(s) /\ sess[s].reading /\ sess[s].phase = "initial"
  /\ \/ /\ sess' = [sess EXCEPT ![s] = [keep_alive(@) EXCEPT !.phase = "handshake_c2"]]
        /\ UNCHANGED streams
     \/ close(s)
  /\ UNCHANGED <<cb, dying, npackets, stray>>

(* C2 is consumed; the bytes behind it, if any, are handled at once. *)
HandleC2(s) ==
  /\ Quiet
  /\ IsOpen(s) /\ sess[s].reading /\ sess[s].phase = "handshake_c2"
  /\ \/ /\ sess' = [sess EXCEPT ![s].phase = "connect"]
        /\ UNCHANGED cb
     \/ /\ sess' = [sess EXCEPT ![s].phase = "connect", ![s].reading = FALSE]
        /\ cb' = [in |-> {s}, c2 |-> TRUE]
  /\ UNCHANGED <<streams, dying, npackets, stray>>

(* on_read in a later phase: bytes were received, the loop starts. *)
OnRead(s) ==
  /\ Quiet
  /\ IsOpen(s) /\ sess[s].reading
  /\ sess[s].phase = "connect"
  /\ sess' = [sess EXCEPT ![s].reading = FALSE]
  /\ cb' = [in |-> {s}, c2 |-> FALSE]
  /\ UNCHANGED <<streams, dying, npackets, stray>>

-----------------------------------------------------------------------------
(***************************************************************************)
(* The end of the read callback.  receive_chunk_stream's result is "more"  *)
(* (RTMP_NEED_READ_MORE) or "ok" (RTMP_OK), the latter turned into "more"  *)
(* except by the callback that consumed C2; on_read calls try_read() on    *)
(* "more" only.                                                            *)
(***************************************************************************)
rearmed(ret) == ret = "more" \/ ~cb.c2

(***************************************************************************)
(* A message was handled, leaving session record r: the loop goes on while *)
(* the buffer holds more bytes and otherwise the callback ends with ret.   *)
(***************************************************************************)
Handled(s, r, ret) ==
  \/ /\ sess' = [sess EXCEPT ![s] = r]
     /\ UNCHANGED cb
  \/ /\ sess' = [sess EXCEPT ![s] = [r EXCEPT !.reading = rearmed(ret)]]
     /\ cb' = Idle

(* The buffer ends inside a message. *)
PartialMessage(s) ==
  /\ s \in cb.in
  /\ sess' = [sess EXCEPT ![s].reading = TRUE]
  /\ cb' = Idle
  /\ UNCHANGED <<streams, dying, npackets, stray>>

(***************************************************************************)
(* Control messages: a new chunk size is answered with the server's own,   *)
(* and send_rtmp_ack answers any message that fills the window.  A message *)
(* of an unknown type is skipped.                                          *)
(***************************************************************************)
ControlMessage(s) ==
  /\ s \in cb.in
  /\ \E answered \in BOOLEAN :
       Handled(s, IF answered THEN keep_alive(sess[s]) ELSE sess[s], "ok")
  /\ UNCHANGED <<streams, dying, npackets, stray>>

(***************************************************************************)
(* The common tail of every AMF0 command, r being the session after the    *)
(* command: a session that is ready to play gets a new writer, which is    *)
(* offered to the manager, after every command.                            *)
(***************************************************************************)
CommandDone(s, r) ==
  /\ IF IsPlaying(r)
     THEN /\ Handled(s, [r EXCEPT !.play_writer = TRUE], "ok")
          /\ streams' = add_player(streams, r.key, s)
     ELSE /\ Handled(s, r, "more")
          /\ UNCHANGED streams
  /\ UNCHANGED <<dying, npackets, stray>>

(* connect and createStream, which are always answered. *)
AnsweredCommand(s) ==
  /\ s \in cb.in
  /\ CommandDone(s, keep_alive(sess[s]))

(***************************************************************************)
(* FCPublish, releaseStream, deleteStream, ...: no handler and no reply,   *)
(* only the acknowledgement that may be due.                               *)
(***************************************************************************)
OtherCommand(s) ==
  /\ s \in cb.in
  /\ \E acked \in BOOLEAN :
       CommandDone(s, IF acked THEN keep_alive(sess[s]) ELSE sess[s])

bind_request(r, k, publish) ==
  [keep_alive(r) EXCEPT !.key = k, !.ready = TRUE, !.publish = publish,
     !.left = IF r.ready /\ (r.key # k \/ r.publish # publish) THEN @ \cup {r.key} ELSE @]

PlayCommand(s, k) ==
  /\ s \in cb.in
  /\ CommandDone(s, bind_request(sess[s], k, FALSE))

PublishCommand(s, k) ==
  /\ s \in cb.in
  /\ CommandDone(s, bind_request(sess[s], k, TRUE))

(***************************************************************************)
(* A malformed control or command message, an AMF3 command, or media that  *)
(* get_media_packet rejects: the session is closed.                        *)
(***************************************************************************)
RejectedMessage(s) ==
  /\ s \in cb.in
  /\ close(s)
  /\ cb' = Idle
  /\ UNCHANGED <<dying, npackets, stray>>

(***************************************************************************)
(* An audio, video or metadata message, whatever the state of the session: *)
(* it is published under the session's key, the empty one included.  Each  *)
(* write to a player is an rtmp_send of that player's session.  A write    *)
(* through a writer whose session is gone is undefined; here it is lost.   *)
(***************************************************************************)
is_fed(k, s, t) == t = s \/ (t \in streams[k].writer_map /\ IsOpen(t))

MediaMessage(s, kind) ==
  LET k == sess[s].key
      p == [id |-> npackets + 1, kind |-> kind]
      fed == [t \in Sessions |-> IF is_fed(k, s, t) THEN keep_alive(sess[t]) ELSE sess[t]]
  IN  /\ s \in cb.in
      /\ npackets < MaxPackets
      /\ npackets' = npackets + 1
      /\ streams' = writer_media_packet(streams, k, p, {})
      /\ stray' = IF IsPublishing(sess[s]) THEN stray ELSE stray \cup {k}
      /\ \/ sess' = fed /\ UNCHANGED cb
         \/ /\ sess' = [fed EXCEPT ![s].reading = rearmed("ok")]
            /\ cb' = Idle
      /\ UNCHANGED dying

-----------------------------------------------------------------------------
(***************************************************************************)
(* on_timer: every session is asked is_alive(), which counts; those that   *)
(* were asked more than try_max_ times too often are closed, one by one.   *)
(***************************************************************************)
is_alive(r) == ~(r.not_alive_cnt > try_max_)

(* Variant: is_alive() asks without counting. *)
OnCheckAlive_uncounted ==
  /\ Quiet
  /\ \E s \in Sessions : IsOpen(s)
  /\ dying' = {s \in Sessions : IsOpen(s) /\ ~is_alive(sess[s])}
  /\ UNCHANGED <<streams, sess, cb, npackets, stray>>

OnCheckAlive ==
  /\ Quiet
  /\ \E s \in Sessions : IsOpen(s)
  /\ sess' = [s \in Sessions |->
                IF IsOpen(s) THEN [sess[s] EXCEPT !.not_alive_cnt = @ + 1] ELSE sess[s]]
  /\ dying' = {s \in Sessions : IsOpen(s) /\ ~is_alive(sess[s])}
  /\ UNCHANGED <<streams, cb, npackets, stray>>

CloseDead(s) ==
  /\ s \in dying
  /\ close(s)
  /\ dying' = dying \ {s}
  /\ UNCHANGED <<cb, npackets, stray>>

(***************************************************************************)
(* Once every connection has come and gone the server has nothing to do.   *)
(***************************************************************************)
Finished ==
  /\ \A s \in Sessions : sess[s].conn = "closed"
  /\ Quiet
  /\ UNCHANGED vars

SessionStep(s) ==
  \/ OnAccept(s) \/ OnReadError(s) \/ OnWriteError(s)
  \/ HandleC0C1(s) \/ HandleC2(s) \/ OnRead(s)
  \/ PartialMessage(s) \/ ControlMessage(s) \/ RejectedMessage(s)
  \/ AnsweredCommand(s) \/ OtherCommand(s)
  \/ \E k \in Names : PlayCommand(s, k) \/ PublishCommand(s, k)
  \/ \E kind \in MediaKinds : MediaMessage(s, kind)
  \/ CloseDead(s)

Next == (\E s \in Sessions : SessionStep(s)) \/ OnCheckAlive \/ Finished

(***************************************************************************)
(* A read callback works on at most one receive buffer of bytes and so     *)
(* comes to the end of it; the deadline timer's handler is queued behind   *)
(* the callbacks that are due and gets its turn however many there are;    *)
(* on_check_alive's loop runs to its end.                                  *)
(***************************************************************************)
Fairness ==
  /\ \A s \in Sessions : WF_vars(PartialMessage(s)) /\ WF_vars(CloseDead(s))
  /\ SF_vars(OnCheckAlive)

Spec == Init /\ [][Next]_vars

FairSpec == Spec /\ Fairness
-----------------------------------------------------------------------------
(***************************************************************************)
(* A peer asked for another stream, or changed between play and publish,   *)
(* after it had been given key k: close() undoes only the last request.    *)
(***************************************************************************)
Abandoned(k) == \E s \in Sessions : k \in sess[s].left

(***************************************************************************)
(* No sequence of joins, leaves, packets, closes and timeouts leaves a     *)
(* stream and its cached GOP behind in media_streams_map_: each stream in  *)
(* it is played or published by a session that exists.  The two ways a     *)
(* peer can leave one behind are named: media under a key it does not      *)
(* publish, and a key it abandoned for another request.                    *)
(***************************************************************************)
NoOrphanStream ==
  \A k \in Keys :
    streams[k].live =>
      \/ \E s \in Sessions : IsOpen(s) /\ sess[s].ready /\ sess[s].key = k
      \/ k \in stray
      \/ Abandoned(k)

(***************************************************************************)
(* The manager holds raw pointers to writers.  Every registered writer     *)
(* belongs to a session that exists and is playing that very stream; the   *)
(* only ones that may outlive their session are those under a key that the *)
(* session left for a second stream or for publishing.                     *)
(***************************************************************************)
WriterHasSession ==
  \A k \in Keys : \A w \in streams[k].writer_map :
    \/ IsOpen(w) /\ IsPlaying(sess[w]) /\ sess[w].key = k
    \/ k \in sess[w].left

(***************************************************************************)
(* A playing session keeps its place: as long as it is open, its writer is *)
(* registered under its key, whoever else publishes, plays or leaves.      *)
(***************************************************************************)
PlayerIsRegistered ==
  \A s \in Sessions :
    IsOpen(s) /\ IsPlaying(sess[s]) => s \in streams[sess[s].key].writer_map

(***************************************************************************)
(* publisher_exist_ is never left set when the last publisher has gone,    *)
(* unless media came from a session that was not publishing that key, or a *)
(* session that had the key went on to another request.                    *)
(***************************************************************************)
PublisherFlagIsBacked ==
  \A k \in Keys :
    streams[k].publisher_exist =>
      \/ \E s \in Sessions : IsOpen(s) /\ IsPublishing(sess[s]) /\ sess[s].key = k
      \/ k \in stray
      \/ Abandoned(k)

(***************************************************************************)
(* No frame is lost, repeated or reordered on its way to a player: what it *)
(* got, the cached GOP of its first delivery included, is exactly the last *)
(* part of what was published on the stream.                               *)
(***************************************************************************)
RelayIsSuffix == RelayedIn(streams)

(***************************************************************************)
(* A player that has been started holds the sequence headers and the       *)
(* metadata in force, whether they came before it joined or after.         *)
(***************************************************************************)
HeadersAreCurrent == HeadersIn(streams)

FirstVideo(f) == {i \in 1 .. Len(f) : /\ f[i].kind \in VideoFrameKinds
                                     /\ \A j \in 1 .. i - 1 : f[j].kind = "audio"}

(***************************************************************************)
(* With one GOP cached, the first video frame a player gets is a key frame *)
(* whenever a key frame had been published on the stream before.           *)
(***************************************************************************)
StartsAtKeyFrame ==
  \A k \in Keys : \A w \in streams[k].inited :
    LET f == streams[k].view[w].frames
        p == streams[k].published
    IN  \A i \in FirstVideo(f) :
          \/ f[i].kind = "key"
          \/ \A j \in 1 .. Len(p) : p[j].kind = "key" => p[j].id > f[i].id

(***************************************************************************)
(* No step gives a player a video frame before a video header when the     *)
(* stream has one: writer_gop sends the headers first.                     *)
(***************************************************************************)
NoBareFrame ==
  [][\A k \in Keys, w \in Sessions :
       streams'[k].view[w].bare \subseteq streams[k].view[w].bare
         \/ streams'[k].cache.video_hdr = 0]_vars

(***************************************************************************)
(* A session whose read chain was dropped hears nothing more from its      *)
(* peer.  If no writer of it is registered, the alive check closes it,     *)
(* however much media and whichever commands the other sessions send.  A   *)
(* registered writer, even one left behind under an earlier key, is fed by *)
(* the stream's publisher, and each packet it is fed counts as life.       *)
(***************************************************************************)
IsRegistered(s) == \E k \in Keys : s \in streams[k].writer_map

StalledSessionIsReaped ==
  \A s \in Sessions :
    (IsOpen(s) /\ Quiet /\ ~sess[s].reading /\ ~IsRegistered(s))
      ~> (sess[s].conn = "closed")

(***************************************************************************)
(* on_read: "need do nothing" when the result is neither an error nor      *)
(* RTMP_NEED_READ_MORE, as if a read were outstanding then.  This says     *)
(* that between callbacks every open session has one outstanding.          *)
(***************************************************************************)
ReadIsOutstanding ==
  \A s \in Sessions : Quiet /\ IsOpen(s) => sess[s].reading
=============================================================================
