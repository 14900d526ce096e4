------------------------- MODULE MediaStreamManager -------------------------
(***************************************************************************)
(* media_stream_manager (utils/av/media_stream_manager.cpp): the static    *)
(* map from stream keys to streams, and the five operations the protocol   *)
(* servers call on it.  Each operation is an operator from a map to a map, *)
(* because all of them run to completion inside one callback of the single *)
(* io_context thread; the servers' modules make them part of their         *)
(* actions.                                                                *)
(*                                                                         *)
(* A writer is named by its writer id.  A stream's "inited" holds the      *)
(* writers whose init_flag_ is set, "view" what each writer has been given *)
(* and "published" every frame given to this stream object: the last two   *)
(* are history, the code keeps neither.                                    *)
(***************************************************************************)
EXTENDS GopCache

CONSTANTS
  Keys,             \* stream keys, "app/streamname"
  Writers,          \* writer ids
  MetadataWriters   \* writers whose protocol carries metadata packets

ASSUME MetadataWritersAssumption == MetadataWriters \subseteq Writers

Stream == [live : BOOLEAN, publisher_exist : BOOLEAN, cache : Cache,
           writer_map : SUBSET Writers, inited : SUBSET Writers,
           view : [Writers -> View], published : Seq(Frame)]

StreamMap == [Keys -> Stream]

(* A key that media_streams_map_ does not hold. *)
NoStream == [live |-> FALSE, publisher_exist |-> FALSE, cache |-> EmptyCache,
             writer_map |-> {}, inited |-> {},
             view |-> [w \in Writers |-> EmptyView], published |-> <<>>]

(* std::make_shared<media_stream>() *)
NewStream == [NoStream EXCEPT !.live = TRUE]

find(m, k) == IF m[k].live THEN m[k] ELSE NewStream

(* A stream stays in the map while it has a publisher or a player. *)
keep_or_erase(s) ==
  IF s.writer_map = {} /\ ~s.publisher_exist THEN NoStream ELSE s

-----------------------------------------------------------------------------
(* insert() leaves a writer that is already registered as it is. *)
add_player(m, k, w) ==
  [m EXCEPT ![k] = [find(m, k) EXCEPT !.writer_map = @ \cup {w}]]

unregister(s, ws) ==
  [s EXCEPT !.writer_map = @ \ ws,
            !.inited = @ \ ws,
            !.view = [w \in Writers |-> IF w \in ws THEN EmptyView ELSE s.view[w]]]

(* Variant: the last player does not take the stream with it. *)
remove_player_keeps_stream(m, k, w) ==
  IF m[k].live THEN [m EXCEPT ![k] = unregister(m[k], {w})] ELSE m

remove_player(m, k, w) ==
  IF m[k].live
  THEN [m EXCEPT ![k] = keep_or_erase(unregister(m[k], {w}))]
  ELSE m

add_publisher(m, k) ==
  [m EXCEPT ![k] = [find(m, k) EXCEPT !.publisher_exist = TRUE]]

(* Variant: the stream is erased though it has players. *)
remove_publisher_drops_players(m, k) ==
  IF m[k].live THEN [m EXCEPT ![k] = NoStream] ELSE m

(* Variant: the flag is left set while there are players. *)
remove_publisher_keeps_flag(m, k) ==
  IF m[k].live /\ m[k].writer_map = {} THEN [m EXCEPT ![k] = NoStream] ELSE m

remove_publisher(m, k) ==
  IF m[k].live
  THEN [m EXCEPT ![k] = keep_or_erase([m[k] EXCEPT !.publisher_exist = FALSE])]
  ELSE m

-----------------------------------------------------------------------------
(* httpflv_writer::write_packet has no tag for metadata and skips it. *)
deliver_packet(w, v, p) ==
  IF p.kind = "metadata" /\ w \notin MetadataWriters THEN v ELSE write_packet(v, p)

deliver_gop(w, v, c) ==
  IF w \in MetadataWriters THEN writer_gop(c, v)
  ELSE writer_gop([c EXCEPT !.metadata_hdr = 0], v)

(* Variant: a writer gets the cache and then the packet that is in it. *)
feed_twice(s, c, w, p) ==
  CASE w \notin s.writer_map -> s.view[w]
    [] w \in s.writer_map /\ w \in s.inited -> deliver_packet(w, s.view[w], p)
    [] w \in s.writer_map /\ w \notin s.inited ->
         deliver_packet(w, deliver_gop(w, s.view[w], c), p)

(* What writer w has been given once packet p went into the cache, now c. *)
feed(s, c, w, p) ==
  CASE w \notin s.writer_map -> s.view[w]
    [] w \in s.writer_map /\ w \in s.inited -> deliver_packet(w, s.view[w], p)
    [] w \in s.writer_map /\ w \notin s.inited -> deliver_gop(w, s.view[w], c)

publish_packet(s, p) ==
  LET c == insert_packet(s.cache, p)
  IN  [s EXCEPT !.cache = c,
                !.inited = s.writer_map,
                !.view = [w \in Writers |-> feed(s, c, w, p)],
                !.published = IF p.kind \in FrameKinds THEN Append(@, p) ELSE @]

(***************************************************************************)
(* writer_media_packet: the packet goes into the cache first, then to each *)
(* writer, a writer that has not been initialised getting the cache        *)
(* instead; the writers in "failed", whose write returned an error, are    *)
(* removed once all have been served.                                      *)
(***************************************************************************)
writer_media_packet(m, k, p, failed) ==
  LET s == add_publisher(m, k)[k]
  IN  [m EXCEPT ![k] = unregister(publish_packet(s, p), failed)]

-----------------------------------------------------------------------------
(***************************************************************************)
(* What the servers may rely on, as predicates of a map.                   *)
(***************************************************************************)

(* s is the last part of t. *)
EndsWith(t, s) ==
  /\ Len(s) <= Len(t)
  /\ \A i \in 1 .. Len(s) : s[i] = t[Len(t) - Len(s) + i]

(* Every initialised writer got exactly the last frames of the stream. *)
RelayedIn(m) ==
  \A k \in Keys : \A w \in m[k].inited :
    EndsWith(m[k].published, m[k].view[w].frames)

(* Every initialised writer holds the headers in force. *)
HeadersIn(m) ==
  \A k \in Keys : \A w \in m[k].inited :
    LET v == m[k].view[w]
        c == m[k].cache
    IN  /\ v.video = c.video_hdr
        /\ v.audio = c.audio_hdr
        /\ w \in MetadataWriters => v.metadata = c.metadata_hdr
=============================================================================
