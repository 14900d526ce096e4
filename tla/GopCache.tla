------------------------------ MODULE GopCache ------------------------------
(***************************************************************************)
(* The GOP cache of a stream (utils/av/gop_cache.cpp) and what a player    *)
(* that is fed from it has seen.                                           *)
(*                                                                         *)
(* A media packet is abstracted to its kind and to an id that says when it *)
(* was published.  The kind stands for av_type_, is_seq_hdr_ and           *)
(* is_key_frame_, the only fields the cache looks at.  Every packet that   *)
(* reaches the cache has a known av_type_ and a payload, because           *)
(* receive_chunk_stream drops the others.                                  *)
(***************************************************************************)
EXTENDS Naturals, Sequences

CONSTANTS
  min_gop_,       \* number of GOPs between two clears (1 in every caller)
  GopCountWrap    \* gop_count_ is a uint32_t: 2^32 in the code

ASSUME MinGopAssumption == min_gop_ \in Nat \ {0}
ASSUME GopCountWrapAssumption == GopCountWrap \in Nat \ {0}

HeaderKinds == {"metadata", "video_hdr", "audio_hdr"}
FrameKinds == {"key", "inter", "audio"}
Kinds == HeaderKinds \cup FrameKinds
VideoFrameKinds == {"key", "inter"}

Packet == [id : Nat \ {0}, kind : Kinds]
Frame == [id : Nat \ {0}, kind : FrameKinds]

(***************************************************************************)
(* The three header slots hold the id of the last header of that kind, 0   *)
(* for the null pointer.                                                   *)
(***************************************************************************)
Cache == [metadata_hdr : Nat, video_hdr : Nat, audio_hdr : Nat,
          packet_list : Seq(Frame), gop_count : 0 .. GopCountWrap - 1]

EmptyCache == [metadata_hdr |-> 0, video_hdr |-> 0, audio_hdr |-> 0,
               packet_list |-> <<>>, gop_count |-> 0]

-----------------------------------------------------------------------------
(***************************************************************************)
(* insert_packet: a header replaces its slot; a key frame closes a GOP and *)
(* empties the list every min_gop_ GOPs; every frame is then appended.     *)
(***************************************************************************)
insert_header(c, p) ==
  CASE p.kind = "metadata"  -> [c EXCEPT !.metadata_hdr = p.id]
    [] p.kind = "video_hdr" -> [c EXCEPT !.video_hdr = p.id]
    [] p.kind = "audio_hdr" -> [c EXCEPT !.audio_hdr = p.id]

(* Variant: the list is cleared after the key frame was pushed. *)
insert_key_frame_late_clear(c, p) ==
  LET n == (c.gop_count + 1) % GopCountWrap
  IN  [c EXCEPT !.gop_count = n,
                !.packet_list = IF n % min_gop_ = 0 THEN <<>> ELSE Append(@, p)]

insert_key_frame(c, p) ==
  LET n == (c.gop_count + 1) % GopCountWrap
  IN  [c EXCEPT !.gop_count = n,
                !.packet_list = IF n % min_gop_ = 0 THEN <<p>> ELSE Append(@, p)]

insert_packet(c, p) ==
  IF p.kind \in HeaderKinds THEN insert_header(c, p)
  ELSE IF p.kind = "key" THEN insert_key_frame(c, p)
  ELSE [c EXCEPT !.packet_list = Append(@, p)]

-----------------------------------------------------------------------------
(***************************************************************************)
(* What a player has received: the last header of each kind, the frames in *)
(* order, and the video frames that came before any video header.          *)
(***************************************************************************)
View == [metadata : Nat, video : Nat, audio : Nat,
         frames : Seq(Frame), bare : SUBSET Nat]

EmptyView == [metadata |-> 0, video |-> 0, audio |-> 0,
              frames |-> <<>>, bare |-> {}]

VideoFramesOf(s) == {s[i].id : i \in {j \in 1 .. Len(s) : s[j].kind \in VideoFrameKinds}}

write_frames(v, s) ==
  [v EXCEPT !.frames = @ \o s,
            !.bare = IF v.video = 0 THEN @ \cup VideoFramesOf(s) ELSE @]

(* write_packet of a player's writer. *)
write_packet(v, p) ==
  CASE p.kind = "metadata"   -> [v EXCEPT !.metadata = p.id]
    [] p.kind = "video_hdr"  -> [v EXCEPT !.video = p.id]
    [] p.kind = "audio_hdr"  -> [v EXCEPT !.audio = p.id]
    [] p.kind \in FrameKinds -> write_frames(v, <<p>>)

(* write_packet of a cached header, skipped when the slot is empty. *)
write_header(v, k, id) ==
  IF id = 0 THEN v ELSE write_packet(v, [id |-> id, kind |-> k])

(* Variant: the cached list goes out before the headers. *)
writer_gop_frames_first(c, v) ==
  LET f == write_frames(v, c.packet_list)
      m == write_header(f, "metadata", c.metadata_hdr)
      h == write_header(m, "video_hdr", c.video_hdr)
  IN  write_header(h, "audio_hdr", c.audio_hdr)

(* Variant: the audio header is forgotten. *)
writer_gop_no_audio_header(c, v) ==
  LET m == write_header(v, "metadata", c.metadata_hdr)
      h == write_header(m, "video_hdr", c.video_hdr)
  IN  write_frames(h, c.packet_list)

(* Variant: the video header is forgotten. *)
writer_gop_no_video_header(c, v) ==
  LET m == write_header(v, "metadata", c.metadata_hdr)
      a == write_header(m, "audio_hdr", c.audio_hdr)
  IN  write_frames(a, c.packet_list)

(* writer_gop: metadata, video header, audio header, then the cached list. *)
writer_gop(c, v) ==
  LET m == write_header(v, "metadata", c.metadata_hdr)
      h == write_header(m, "video_hdr", c.video_hdr)
      a == write_header(h, "audio_hdr", c.audio_hdr)
  IN  write_frames(a, c.packet_list)
=============================================================================
