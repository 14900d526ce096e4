# A verification project for cpp_media_server

TLA+ modules, TLC configurations and TLAPS proofs for the media server in
`src/`: one process that takes live streams over RTMP, FLV over WebSocket and
WebRTC, and relays them to RTMP, HTTP-FLV and WebRTC players.

`PROJECT.json` lists the components, the runs, the mutants, the theorems, the
hazards, and for every definition the source lines it translates.

## 1. The system

`media_server.cpp` starts every server on one `boost::asio::io_context` run by
one thread. Every accept, read, write and timer handler therefore runs to its
end before another starts; what can go wrong is the *order* of handlers, the
state one leaves for the next, and objects that are freed by one handler and
still referred to by another.

| Component | State | Operations | Talks to |
|---|---|---|---|
| `media_stream_manager` (`utils/av/media_stream_manager.cpp`) | the static map key -> stream: writers (raw pointers), `publisher_exist_`, a GOP cache | `add_player`, `remove_player`, `add_publisher`, `remove_publisher`, `writer_media_packet` | called by every protocol server; calls the writers |
| `gop_cache` (`utils/av/gop_cache.cpp`) | three header slots, a list of frames, `gop_count_` | `insert_packet`, `writer_gop` | owned by a stream |
| RTMP server (`net/rtmp/rtmp_server*.cpp`) | sessions with a handshake phase, a request (key, role), a writer, an alive counter | accept, read, write, commands, media, close, the alive timer | the manager |
| RTMP chunk stream (`net/rtmp/chunk_stream.cpp`, `rtmp_session_base.cpp`) | one record per chunk stream id, the receive buffer, two chunk sizes | parse, reassemble, segment | owned by an RTMP session |
| RTMP client (`net/rtmp/rtmp_client_session.cpp`) | client phase | connect, createStream, play or publish | the demos |
| HTTP server and HTTP-FLV (`net/http`, `net/httpflv`) | sessions, shared responses, writers and their map | accept, read, write, close, two timers | the manager |
| TCP layer (`net/tcp`) | send queue, read buffer, callback pointer | async read and write | all TCP servers |
| WebSocket layer, FLV over WebSocket (`net/websocket`) | send buffers, `sending_flag_` | accept, read, write, close | protoo, the manager |
| protoo signalling, rooms (`net/websocket/wsimple/protoo_server.cpp`, `net/webrtc/room_service.cpp`) | rooms, users, publishers, subscribers | join, publish, subscribe, unpublish, unsubscribe, close | WebRTC sessions |
| WebRTC sessions (`net/webrtc/webrtc_session.cpp`, `rtc_dtls.cpp`) | session table by ufrag and by address, ICE, DTLS and SRTP state | STUN, DTLS, RTP and RTCP packets | rooms |
| RTP receive and send (`net/webrtc/nack_generator.cpp`, `rtp_recv_stream.cpp`, `rtp_send_stream.cpp`) | sequence counters, the loss list, the retransmission buffer | receive, NACK timer, answer a NACK | WebRTC sessions |
| Formats (AMF0, FLV, SDP, STUN, RTP/RTCP packets) | none, or a parse position | encode, decode | their users |

What makes them correct:

- *manager and cache*: a stream lives exactly as long as someone uses it;
  every player gets each frame once and in order, headers first, from a key
  frame on;
- *RTMP and HTTP servers*: whatever the peers send and in whatever order
  connections break and timers fire, no registered writer outlives what it
  points to, no player is thrown off its stream by another, and everything that
  is broken is freed in the end;
- *chunk stream*: interleaved chunks reassemble to the messages sent;
- *RTMP client and handshake*: however TCP cuts the answers, the client goes
  through its phases in order and keeps reading; the server finds the fields of
  a C1 wherever its offsets put them;
- *rooms*: users, publishers and subscribers of a room agree after any
  interleaving of requests and disconnects, and every client knows who is there;
- *WebRTC sessions*: a datagram reaches the session it belongs to, media is
  taken from the announced peer only, a connection that came up stays up;
- *NACK*: a lost packet is asked for until it arrives or is given up, a
  packet that arrived is not, across the 16-bit wrap.

The hard behaviours, each at its line, are the `hazards` of `PROJECT.json`.

## 2. Modules

| Module | Models |
|---|---|
| `GopCache` | the GOP cache, and what a player fed from it has seen |
| `MediaStreamManager` | the stream map; its operations as operators from map to map |
| `RtmpServer` | the RTMP server, over `MediaStreamManager` |
| `HttpFlv` | HTTP server, response, HTTP-FLV writer and server, over `MediaStreamManager` |
| `LiveStream` | abstract specification: what a viewer of a stream is promised; `HttpFlv` implements it |
| `ChunkStream` | one direction of an RTMP connection: a peer that cuts messages into chunks, TCP, and the reader |
| `Handshake` | the server's RTMP handshake with digests |
| `RtmpClient` | the RTMP client session and its TCP client, against a server |
| `RoomService` | protoo connections, rooms, users, publish and subscribe sessions |
| `WebrtcSession` | the UDP server, the session table, STUN, DTLS and SRTP state |
| `RtpSeq` | sequence numbers, for the two modules below |
| `RtpSend` | the retransmission buffer of one subscriber |
| `RtpReceive` | sequence numbers of a received RTP stream, the list of lost packets and the NACK packet made of it |
| `MCRtmpServer`, `MCRoomService`, `MCWebrtcSession` | symmetry sets, a view, a bound and a constant function for TLC |
| `MediaStreamProofs` | lemmas about the operators of the two first modules |
| `RtmpServerProofs`, `HttpFlvProofs`, `WebrtcSessionProofs`, `RoomServiceProofs`, `RtpReceiveProofs`, `HandshakeProofs`, `ChunkStreamProofs` | the inductive invariant of each module and its theorems |

**GopCache.** A packet is an id, which says when it was published, and a kind
(`metadata`, `video_hdr`, `audio_hdr`, `key`, `inter`, `audio`), which is what
`av_type_`, `is_seq_hdr_` and `is_key_frame_` say. `gop_count_` keeps its
width: it wraps at `GopCountWrap` (2^32 in the code). The *view* of a writer
(last header of each kind, frames in order, video frames received before any
header) is the effect of `write_packet` on the far end.

**MediaStreamManager.** `streams[k]` is the stream of key `k`, `NoStream` when
the map has none. All operations run inside one callback, so they are operators
that the servers' actions apply. `inited` is the set of writers with
`init_flag_`; `published` and `view` are history. `writer_media_packet` has the
code's order: cache, then every writer, then removal of those that failed.
The code does not erase a stream whose last writer failed at that point, and
neither does the model (the publisher flag is set there).

**RtmpServer.** `sess[s]` is a connection: whether an async read is outstanding,
the phase, the request, the writer, the alive counter. One read callback may
handle many messages: `cb` holds the session whose callback runs, each message is
an action, and `Handled` decides whether the loop goes on or the callback ends and
a read is started again. `dying` is `on_check_alive`'s vector of sessions to
close. The server checks neither the order of commands nor who sends media, so any
session may send anything after the handshake. Two pieces of history name the
exceptions to what one would like to hold: `left`, the keys a session abandoned
for another request (which orphans its first writer or publisher flag), and
`stray`, the keys on which media arrived from a session that does not publish
them. They are exceptions of the code: without them the invariants are false.

**HttpFlv.** Session, response and writer of a request refer to each other by
raw pointer and are freed by the HTTP server's timer, by the HTTP-FLV server's
timer and by parse errors. Each handler is an action. Publishers are the two
manager operations they call. `Live` maps this state to `LiveStream`: the
audience of a channel are the initialised writers, what a viewer heard is the
view of its writer. A step of `HttpFlv` may let viewers in, serve them and drop
some at once, and so may `Air`.

**ChunkStream.** The byte stream is a sequence of *units*, each what the code asks
for with one `require()`: a header, the second part of a long basic header, an
extended timestamp, a cell of payload. Partial reads are then exactly "the unit is
not there yet". `cs[c]` is the `chunk_stream` of id `c`, `rd` the session's own
state (`fmt_ready_`, `chunk_size_`). The peer is any RTMP sender (`BeginMessage`,
`ContinueMessage`; any of the four header types may begin a message after any
other) or this code's own writer (`WriteMessage`). The reader adds a type 3
chunk's difference only after a type 1 or 2 chunk; where a sender that repeats its
difference after type 0 or 3 is misread, `drifted` says so. Once a header was
extended, every continuation chunk waits for the `EXT_TS_LEN` bytes of an
extension before it looks whether there is one (`require_ext`), so the last cells
of a message may stay in the buffer until something follows (`Withheld`). When the
reader takes a unit for something else it is *lost*, and the model follows it no
further. `odd` names the four causes of this: a chunk stream cut at a size other
than the one it was created with (`chunk_size_` is copied at creation; the server
also adopts its own announced size on connect), a long basic header that arrives
in two reads, extended differences, and the writer's truncated timestamps.
`InSync` says there is no fifth.

**RtpReceive.** Loss, reordering, duplication and retransmission are one action:
any packet that is not too late arrives. `nack_map` maps a lost sequence number to
how often it was asked for; `stat` is RFC 3550's state. The history variables
count in absolute packet numbers, against which the 16-bit arithmetic is compared;
they are cut to half the number space behind the newest packet. A gap is listed
from `get_seq(from + 1)` on: one that begins right after the last number is listed
in full, one that contains it is not listed at all (`unseen`).

A NACK packet is a set of blocks of a first number and a bitmap
(`insert_seq_list`, `insert_block`), and is read as its receiver, the publisher's
browser, reads it, by RFC 4585 (`asked_of_publisher`); a negative shift is taken
modulo the width of an `int`, as the processors the server runs on do it.

**RtpSend.** `rtp_buffer_map_` and `first_seq_` (`sender`). `Relay` takes any packet:
the packets a subscriber's stream relays are those that reached the server, with
gaps, late by any number, and repeated. The history variable `newest` is what the
buffer ought to hold. `Upsets` lists what spoils its order: a packet older than all
in it (which evicts a newer one), a packet a whole round of numbers newer than one
in it, and number 0 leaving it. `troubled` remembers that this happened.

**Handshake.** `parse_c1` tries the two layouts, each with a key part and a
digest part whose offset fields say where key and digest are; `make_s1` puts the
parts together again. Lengths are constants so that all offsets are explored. A
byte is a cell; bytes of hashes and shared keys are opaque cells that say what
they were computed from, so two hashes are equal exactly when their inputs are.
`DH_compute_key` refuses an unusable public key (here the one of zeros), and
OpenSSL may fail for want of resources (`openssl`); either way `send_s0s1s2` fails
and the session is closed. A shared key shorter than its buffer (leading zeros) is
not modelled.

**RtmpClient.** A message is two fragments and a read hands over any number of
those in flight: answers arrive split, joined, or with the beginning of the next
one behind them. `reading` counts outstanding reads, `queue` and `writing` are
`tcp_client`'s send queue and the writes in progress. The client's
`handle_message` is one operator per phase. The server side is what
`rtmp_control_handler` sends, with the liberties the client has code for (no
echo of `SetChunkSize`, `onBWDone`, `_error`). Once a reset threw away the
beginning of a message the chunk reader is out of step and not followed.

**RoomService.** `conn[c]` is a `protoo_server` with the room and uid its last
`join` named, `room[r]` the users with their sessions and `pid2subscribers_`.
No request is checked against the connection it came from: any connection in the
room may name any user, and the model's connections do. `told` adds up the
notifications a connection was sent. `cut` names the one exception of
`SubscriptionIsServed`: subscribers removed by another session's `unsubscribe`.
A subscribe request that throws half-way leaves what it made and closes the
connection (`SubscribeThrows`). The empty room id is a room like the others
(`EmptyId`), except that `on_close` takes it for "never joined" and leaves its user
behind; a `join` with it and without a uid throws after the connection's room was
overwritten (`JoinThrows`).

**WebrtcSession.** The completion handlers of the one `udp_server` are the
actions. `remote_ep_` is shared by receives and sends, as in the code, so a
handler may attribute a datagram to the wrong address. A datagram carries what the
code tells apart; the network loses and repeats datagrams, a peer may change its
address. OpenSSL's part of a handshake is `ssl_read`. There is no fairness here
and no liveness property: the server repeats none of its flights, and a send that
starts between a receive and its handler changes the address the datagram is
attributed to, which nothing in asio prevents from happening each time. That a
session connects is therefore not something the code guarantees. A receive that
ends in an error is never followed by another; that is a model that stops
receiving, so the safety properties cover it.

Abstracted everywhere: bytes, text, replies' contents, logging. An I/O
completion for a freed session is undefined behaviour in the code; the models
stop following that session there and list it as a hazard.

## 3. Runs

| Run | Instance | What it shows |
|---|---|---|
| `rtmp_registry` | 2 sessions, 2 names and the empty key, 1 packet, `GopCountWrap` 2, `try_max_` 0, fairness | the map and the sessions agree after any order of commands, media, errors, timer ticks; a session that lost its read chain, and that no publisher keeps alive, is closed |
| `rtmp_relay` | 2 sessions, 1 name, 3 packets of 3 kinds | exact relay, current headers, start at a key frame, no frame before its header |
| `rtmp_read_chain` | 1 session | *violated*: see section 5 |
| `httpflv_players` | 2 requests, 2 packets of 4 kinds, fairness | no dangling writer or response; refinement of `LiveStream`; broken players and answered sessions are freed |
| `chunk_stream` | 2 chunk streams (one long id), 3 messages of 1 to 3 cells, sizes 1, 2 and 3, `TsWrap` 3, `ExtLimit` 2, `EXT_TS_LEN` 2 | only the named causes lose the reader; payloads arrive whole, unmixed, in order; timestamps are the sender's, but for drifted ones; no message stays behind unless its end is withheld for an extension |
| `rtp_receive` | `RTP_SEQ_MOD` 18 from number 15, 15 packets, 2 per tick, 1 retry, 1 list entry, fairness | the loss list is exact but for gaps that contain the last number; wraps are counted once; the list drains |
| `nack_bitmap` | `RTP_SEQ_MOD` 64, bitmaps of 16, 5 packets | *violated*: see section 5 |
| `rtp_send` | `RTP_SEQ_MOD` 7, a buffer of 3, packets 0 to 15 in any order | the newest packets are sent again until the order is upset; what `save_buffer` erases is there |
| `room_service` | 2 connections, 2 users, 2 rooms (one with the empty id), 3 sessions | no dangling subscriber; no dangling feedback in a named room; subscriptions are served; every client's view is exact |
| `webrtc_session` | 2 sessions, 2 peers, 2 addresses | live table, bound addresses, authentic media, connections stay up |
| `rtmp_client` | playing and publishing, 2 echoes, 2 media packets, fairness | commands in order, one read outstanding, no answer dropped, the media phase is reached |
| `handshake` | parts of 7 bytes, offsets of 2 bytes over 3 values | exactly the C1s with a digest and a usable key are accepted, and understood; S1 can be cut by its offsets |

Bounds. Two sessions let a publisher and a player, two publishers, two players, or
a player that also sends media meet; a third adds no new pair. `rtmp_registry` has
one packet only because its invariants are proved for any number of sessions,
names and packets; `rtmp_relay` looks at the packets. Two names are what a session
needs to be bound twice. Three packets make a header, a key frame and a frame
after it, with a join before, between and after them; two make a header and a
frame, which is what `httpflv_players` needs for a late player to be given cached
ones. `min_gop_` is 1 as in every caller. `try_max_` is 0 instead of 4: the
counter only scales the number of ticks. `GopCountWrap` is a parameter because the
proofs leave it open; with `min_gop_` 1 its value makes no difference. In
`ChunkStream` messages of one to three cells against sizes 1, 2 and 3 give
messages of one, two and three chunks and an exact multiple; `MaxWire` 0 lets the
peer send again only when everything was delivered, which loses no behaviour of
the reader because the peer never looks at it. An `EXT_TS_LEN` of 2 against last
chunks of one cell is what makes a chunk wait. Differences of 1 and 2 against
`ExtLimit` 2 and `TsWrap` 3 give plain and extended timestamps and differences in
every order, and the wrap. In `RtpReceive` the start at 15 of 18 puts gaps before,
across and right after the wrap, two lost packets overflow the list, and fifteen
packets reach well past the half of the numbers that history is kept of; that
numbers are used again is left to the proofs. There the named assumption
`RateAssumption` says that an entry does not live until its number is used again
(the code's values: 22 ticks of 30 ms against 2^15 packets). In `rtp_send` sixteen
packets are more than two rounds of seven numbers, so that every number is used
again while its first packet may still be in the buffer. In `RoomService` two
connections and two users let one connection act for another's user, join again
under another name, and leave in both orders; three sessions are a publisher with
two subscriptions, or two publishers and a subscription. Between the two rooms
connections move by joining again, and leave users behind; sessions are made in
one of them only (`SessionsInNamedRooms`), since those of two rooms share nothing.
`View` in `MCRoomService` leaves out what no step and no property looks at again,
such as what a closed connection was told. In `WebrtcSession` the second peer
moves between two addresses, one of them the first peer's; a send queue of two is
enough for a send to start between a receive and its handler. In `Handshake` sums
of two bytes reach every offset, and pass the end of its range.

Fairness. A read callback works on one receive buffer and ends
(`WF(PartialMessage)`); `on_check_alive`'s loop runs to its end (`WF(CloseDead)`);
the deadline timer restarts itself after each expiry and its handler is queued
with the others, so it runs however busy the server is (`SF(OnCheckAlive)`: it
cannot run inside a callback, so it is not continuously enabled). In `HttpFlv`
every handler is one step and weak fairness of the two timers is enough, as for
the NACK timer. In `RtmpClient` asio completes connects, reads and writes that can
complete, and the server handles what it received (`WF` of each); errors and
refusals stay possible. Elsewhere nothing is assumed of the peers.

`Finished` (every connection came and went, every message was read) is the only
state without another step, so deadlock is checked, except in `handshake` and
`rtmp_client`: a handshake ends, and a client whose peer is silent waits.
Symmetry is used in safety runs only.

Each property of a passing run has a mutant: a variant of a definition, kept
beside it, with a plausible bug under which TLC finds the property violated.

## 4. Proofs

The theorems hold for every value of the constants that satisfies the named
ASSUMEs of the modules. Each invariant below was model-checked on the instance of
the module's run before it was proved.

**`RtmpServerProofs`**: `TypeOK`, `NoOrphanStream`, `WriterHasSession`,
`PlayerIsRegistered`, `PublisherFlagIsBacked`, `RelayIsSuffix`,
`HeadersAreCurrent`, `StartsAtKeyFrame`, `NoBareFrame`, for any sets of sessions
and names, any `min_gop_`, `try_max_`, packet bound and wrap. Assumed: the
constants are numbers or sets of the right kind, the empty string is a key but not
a name, writers are sessions, and all of them carry metadata. The invariants are
not inductive alone. `IInv` adds: a callback runs only on an open session; the
alive check and a read callback never overlap (or a session could be closed
twice); a session that was never accepted has no role; a session with a role has a
key (so that `close()` withdraws it); a playing session has the writer that
`close()` removes. For the streams, `StreamsInv` adds to the types that the cached
list is the end of what was published and that a writer that is not registered is
not initialised: a new player is served from the cache, so its view is a suffix
because the cache is. `MediaStreamProofs` proves that each manager operation
preserves `StreamsInv` and which writers and flags it changes (`OnlyAt`);
`RtmpServerProofs` then has one lemma per kind of step (steps that change no role,
`close()`, commands, media). `StartsAtKeyFrame` assumes `min_gop_ = 1`, which is
what every caller has, and says so in the theorem. Its invariant `KeysInv`: packet
ids grow, the cached list starts with a key frame once one was published, and a
player that was given audio only has missed no key frame. `NoBareFrame` is an
action property; the lemma `StreamChanges` says of each step which players it
feeds and from what.

**`HttpFlvProofs`**: `TypeOK`, `RegisteredWriterIsLive`, `ResponseHasSession` and
the refinement `ImplementsLiveStream`, for any set of requests. Assumed: there is
a key (`KeysAssumption`) and HTTP-FLV writers carry no metadata. `IInv` adds
`StreamsInv`, that a request that is still being read has neither writer nor
response (`RequestIsFresh`), and that cached headers were published, which the
refinement needs: a packet in the cache is one that `LiveStream` has aired. The
refinement is proved step by step: publishing airs one packet to those that were
let in, closing and dropping make viewers leave, everything else stutters.

**`WebrtcSessionProofs`**: `TypeOK`, `MapIsLive`, `RemoteIsBound`,
`AcceptedMediaIsAuthentic` and the action property `ConnectedStays`, for any sets
of sessions, peers and addresses and any send queue. `IInv` adds, for each session
(`SessionsSound`), that its SRTP keys are of the peer whose fingerprint it was
given, that a finished handshake keeps the certificate and profile it ended with
(so that the repeated `check_status` finds them again), and that a session that is
not live has none of it; that `remote_ep_` is an address whenever a handler runs
(`EndpointKnown`); and that media was accepted only by sessions that were made.

**`RoomServiceProofs`**: `TypeOK`, `FeedbackIsLive`, `SubscriberSessionIsLive`,
`SubscriptionIsServed` and `ViewIsExact`, for any sets of connections, users and
rooms and any number of sessions. `FeedbackIsLive` is about every room but
that of the empty id. `IInv` is the type and one invariant per room:
ids of publish and of subscribe sessions are unique, a subscription names
publishers that were made, entries of `pid2subscribers_` belong to live sessions,
subscriptions are served, the views are exact, feedback is live. Uniqueness of ids
is what the others rest on: without it the end of one session could take the
entries of another.

**`RtpReceiveProofs`**, about `RtpReceive`: `TypeOK`, `NackListIsExact` and
`HighestIsExact`; about `RtpSend`: `SendTypeOK`, `NewestAreSentAgain` and
`FirstIsBuffered`; for any number of packets, however often the sequence numbers
wrap. Assumed for the first: `RateAssumption` (above), and `MAX_DROPOUT +
MAX_MISORDER <= RTP_SEQ_MOD` in `LimitsAssumption` (3000 and 100 against 2^16 in
the code), without which a jump forward and a packet out of order could not be
told apart. `IInv` relates sequence numbers to packets: an entry that was asked
for `c` times stands for a missing packet at most `PerTick * c + burst` packets
old (`EntriesAreYoung`), so that its number has not been used again; every missing
packet that is recent is listed; `max_seq_` and `cycles_` are those of the newest
packet. The lemmas about remainders (`SeqPlus`, `SeqDistance`, `OlderIsLower`) say
when two packets share a number. `RtpSend` assumes only that the buffer holds more
than one packet; any packet may come at any time. `SendInv` has two parts.
Whatever comes, `first_seq_` is unset or a key of the map, every packet is under
its own number and the map keeps its limit (`FirstFound`). As long as nothing
upset the order (`Upsets`), the buffer is `Buffered`: the newest packets lie
within one round of numbers of the oldest (`Close`), the map holds exactly them,
each under its own key, and `first_seq_` is the key of the oldest unless that key
is 0 (`Holds`). Within one round the keys behind `first_seq_`, around the end of
the map, are in the order of the packets, so that the key that becomes the first
when the oldest goes is that of the second oldest (`NextKey`, `PacketSaved`).

**`HandshakeProofs`**: `C1IsUnderstood` and `S1Parses`, for every key that
`DH_compute_key` takes or refuses and every length of the parts, the key, the
digest and the offsets that fits (`LengthAssumption`; the code's 764, 128, 32 and
4 do), every offset and every byte. `IInv` only says that what was parsed and sent
is a function of C1; the work is in the lemmas: offsets stay in range
(`OffsetsFit`, by induction over the bytes of an offset), what was put together is
cut out again (`CutFour`, `ParseKey`, `ParseDigest`, `PartsOf`), a digest is
checked against exactly the bytes around it (`DigestIsChecked`), and bytes that
were made up are no hash (`PlainIsRefused`: a hash cell is opaque, so a collision
is excluded by the model).

**`ChunkStreamProofs`**: `TypeOK`, `InSync`, `DataIntact` and `TimestampsExact`, for
any finite set of chunk stream ids, any message lengths, chunk sizes, timestamps
and number of messages. Assumed: lengths and sizes are positive, and time
differences fit the timestamp (`StampsAssumption`: a peer cannot send others). What
the reader makes of a unit depends on all units before it, so an invariant about
the units in flight has to say how they will be read. The proof reads them: the
reader is described as an automaton over single units (`Step`), `Run` is its state
after a sequence of them, and `RunJoin` splits a run at any place. `Inv` speaks of
the automaton's state once it has read everything pending, `Run(Now, Pending)`:
it is `Synced` (idle, every stream as the peer has it, everything sent delivered
as it was sent) or, after one of the causes in `odd`, `Astray` (what was delivered
is still a matching prefix). Steps of TCP and of the reader leave that state as it
is: `read_chunk_stream`, in however many calls, does what the automaton does. Steps
of the peer append one chunk, and one lemma per header type follows the automaton
through it; `WriteMessage` appends a whole message, by induction over its chunks.
The theorems follow because the reader is lost only where the automaton is, and
because what the reader has delivered is a prefix of what the automaton will have.

Induction over the natural numbers is the lemma `SetInduction`, which states it
about a set instead of a predicate and follows from the well-foundedness of `<`. A
recursive function is only a `CHOOSE` of one that satisfies its equation, so that
there is one is proved first, by the same induction (`RunExists`, `ChunksExist`,
`SumsExist`).

Only model-checked:

- liveness (the prover has no fairness): `StalledSessionIsReaped`,
  `BrokenPlayerIsFreed`, `AnsweredSessionIsFreed`, `ListDrains`, `SessionStarts`;
- `NoMessageIsStuck`, which speaks of `ENABLED`;
- the four invariants of `RtmpClient` (`CommandsInOrder`, `OneReadOutstanding`,
  `AnswersAreHandled`, `PlayAfterCreateStream`): all of them rest on which messages
  can be in flight in each phase (that a second `_result` or a media packet never
  follows the answer to `connect` in one buffer, for example), an invariant over
  `SelectSeq` and `FoldLeft` of everything sent that has not been worked out.

## 5. Findings

`rtmp_read_chain`: `handle_request` turns `RTMP_OK` into `RTMP_NEED_READ_MORE`
in the connect branch but not in the C2 branch, and `on_read` starts the next
read only for the latter. If the read that completes C2 also holds exactly one
control message, no read is outstanding afterwards and the session is deaf until
the alive timer closes it (which `StalledSessionIsReaped` shows it does, unless
the session had left a writer registered under another key: every packet of that
key's publisher is then a sign of life, and the deaf session stays).

`nack_bitmap`: a generic NACK is a packet identifier and a bitmap whose lowest bit
stands for the number after it (RFC 4585). `insert_block` fills the bitmap from
its high end: after 11 and 12 were lost, the publisher reads 11 and 27. With one
loss per block nothing is wrong, which is what hides it. `get_lost_seqs` reads the
NACKs of subscribers in the same reversed order, so a browser that asks for two
packets in a row is sent one of them and a packet it did not ask for. A lost
number more than a bitmap behind the first of its block closes the block without
being in its bitmap, so it is not asked for at all.

Observed while modelling; the properties name these as exceptions:

- a second `play`, or `play` then `publish`, leaves a registered writer whose
  session may be gone (`left`); media from a player or before any command sets
  a publisher flag nobody withdraws (`stray`);
- the client is deaf after an answer to `connect` that ends inside a message
  (`Deaf`), plays before the stream is created when another message comes first,
  and throws away what follows the answer to `createStream`;
- client and server answer each other's `SetChunkSize` for ever (`MaxEcho` bounds
  it here);
- `unsubscribe` removes the subscribers of every user for the named publishers
  (`cut`); a connection that joins twice leaves its first user behind with a
  pointer to it; a user of the room with the empty id is never removed, because
  `on_close` takes the connection for one that has not joined; a newcomer is told
  the pcid of one session for all publishers of a user;
- a gap that contains the last number before the wrap is never asked for
  (`unseen`);
- the retransmission buffer does not hold the newest packets any more after a
  packet older than all in it, after a jump of a whole round of numbers, and when
  number 0 is the oldest in it: `first_seq_` then looks unset and each new packet
  evicts itself (`Upsets`);
- once a header of a chunk stream was extended, the last chunk of a message waits
  for four bytes even if it is shorter (`Withheld`); a type 3 chunk that begins a
  message after a type 0 or 3 chunk adds no difference to the timestamp
  (`drifted`);
- the digest of S1 covers the key of C1 instead of S1's, in an order that
  disregards the layout, and S1 is written in the layout C1 did not have: a
  client that verifies it would refuse it. `S1Parses` therefore reads S1 in the
  layout it was written in and states where the digest is, not that it verifies;
- the repository's own client sends a C1 without a digest, which its own server
  refuses (`C1Decides`); a C1 whose key `DH_compute_key` refuses closes the session
  instead of being answered.

## 6. Not modelled

- *FLV over WebSocket*, the WebSocket send queue and `tcp_session`'s partial
  writes: the publisher is an FLV demuxer in front of `media_stream_manager`,
  whose operations are modelled; what it adds is byte parsing.
- *The media path of a room* (`on_rtppacket_publisher2room`), key frame
  requests, receiver and sender reports, jitter: they change no table of the
  room; how often a packet is retransmitted depends on clock readings.
- *OpenSSL and libsrtp*: external; their results, failures included, are inputs.
- *AMF0, SDP, JSON, FLV tags, STUN attributes*: stateless conversions; the
  models take their results.
- *Payload that looks like an extended timestamp*: the reader compares four payload
  bytes with the timestamp; that they are equal by chance is not modelled.
- *Use after free inside one callback*, null pointers on malformed input: the
  models have no memory.

What is left to prove: the invariants of `RtmpClient`. The approach of
`ChunkStreamProofs` fits it: the state the client will be in once it has read all
that is in flight, against the conversation so far.
