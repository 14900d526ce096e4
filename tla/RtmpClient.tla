------------------------------ MODULE RtmpClient ------------------------------
(***************************************************************************)
(* The RTMP client session (rtmp_client_session.cpp) with its TCP client   *)
(* (tcp_client.hpp), against a server that answers as this repository's    *)
(* rtmp_control_handler does.                                              *)
(*                                                                         *)
(* The bytes of a message are two fragments: a read may hand over any      *)
(* number of the fragments in flight, so answers arrive split, joined, or  *)
(* with the beginning of the next one behind them.  What a message says is *)
(* its kind.                                                               *)
(***************************************************************************)
EXTENDS Naturals, Sequences, SequencesExt

CONSTANTS
    Modes,      \* the sessions checked: subset of {"play", "publish"}
    MaxEcho,    \* how often the server answers a SetChunkSize with its own
    MaxMedia    \* media packets per session

ASSUME ClientAssumption == /\ Modes \subseteq {"play", "publish"}
                           /\ MaxEcho \in Nat
                           /\ MaxMedia \in Nat

VARIABLES
    mode,       \* req_.publish_flag_
    phase,      \* client_phase_
    socket,     \* tcp_client: "idle", "connecting", "open" or "closed"
    reading,    \* outstanding async_read_some calls
    buf,        \* recv_buffer_: fragments not consumed yet
    queue,      \* send_buffer_queue_
    writing,    \* buffers handed to async_write and not completed
    toServer,   \* what the server has received and not handled
    toClient,   \* fragments on their way to the client
    taken,      \* what the server has handled, SetChunkSize aside
    answered,   \* messages the server has sent
    got,        \* messages the client has handled
    echoes,     \* SetChunkSize answers of the server so far
    media,      \* media packets produced so far
    dropped     \* fragments recv_buffer_.reset() threw away

tcp  == <<socket, reading, queue, writing>>
peer == <<toServer, toClient, taken, answered, echoes>>
vars == <<mode, phase, tcp, buf, peer, got, media, dropped>>

Control == {"window_ack_size", "set_peer_bandwidth", "set_chunk_size",
            "stream_recorded", "stream_begin"}

(* What a session sends, in the order it is to send it.                     *)
Conversation == <<"c0c1", "c2", "connect", "createStream", mode>>
                \o [i \in 1..MaxMedia |-> "media"]

-----------------------------------------------------------------------------
(* Messages as fragments.                                                   *)

Fragments(msgs) ==
    [i \in 1..(2 * Len(msgs)) |-> [msg |-> msgs[(i + 1) \div 2], last |-> i % 2 = 0]]

Ends(f) == f.last

(* The messages that are complete in a sequence of fragments, and what is  *)
(* behind them.                                                             *)
Complete(b) == LET e == SelectSeq(b, Ends) IN [i \in 1..Len(e) |-> e[i].msg]

Remains(b) == IF b # <<>> /\ ~Last(b).last THEN <<Last(b)>> ELSE <<>>

-----------------------------------------------------------------------------
(* The TCP client.                                                          *)

Init ==
    /\ mode \in Modes
    /\ phase = "none" /\ socket = "idle" /\ reading = 0
    /\ buf = <<>> /\ queue = <<>> /\ writing = <<>>
    /\ toServer = <<>> /\ toClient = <<>> /\ taken = <<>>
    /\ answered = <<>> /\ got = <<>> /\ echoes = 0 /\ media = 0
    /\ dropped = <<>>

(* do_write: the head of the queue is written unless it already is; w are   *)
(* the writes outstanding.                                                  *)
do_write(q, w) == IF q = <<>> \/ w # <<>> THEN w ELSE Append(w, Head(q))

(* send: every buffer is queued, then do_write is tried.                    *)
send(msgs) ==
    /\ queue' = queue \o msgs
    /\ writing' = FoldLeft(LAMBDA w, i : do_write(queue \o SubSeq(msgs, 1, i), w),
                           writing, [i \in 1..Len(msgs) |-> i])

SendNothing == UNCHANGED <<queue, writing>>

try_read == reading' = reading + 1

(* close: the socket is closed; what is outstanding completes with an error *)
(* that changes nothing more.                                               *)
close == socket' = "closed"

(* start: the URL is parsed and the connection attempted.                   *)
start ==
    /\ socket = "idle"
    /\ socket' = "connecting"
    /\ UNCHANGED <<mode, phase, reading, queue, writing, buf, peer, got, media, dropped>>

(* on_connect: the session sends C0 and C1 and starts to read.              *)
on_connect ==
    /\ socket = "connecting"
    /\ \/ /\ socket' = "open"
          /\ phase' = "c0c1"
          /\ buf' = <<>>
          /\ send(<<"c0c1">>)
          /\ try_read
       \/ /\ close
          /\ SendNothing
          /\ UNCHANGED <<phase, buf, reading>>
    /\ UNCHANGED <<mode, peer, got, media, dropped>>

(* Variant: what was written stays at the head of the queue.                *)
OnWritten_unpopped ==
    /\ socket = "open" /\ writing # <<>>
    /\ toServer' = Append(toServer, Head(writing))
    /\ writing' = do_write(queue, Tail(writing))
    /\ UNCHANGED <<mode, phase, socket, reading, queue, buf, toClient, taken,
                   answered, echoes, got, media, dropped>>

(* The write callback: what was written leaves the queue and do_write is    *)
(* tried for what is behind it.                                             *)
OnWritten ==
    /\ socket = "open" /\ writing # <<>>
    /\ toServer' = Append(toServer, Head(writing))
    /\ queue' = Tail(queue)
    /\ writing' = do_write(Tail(queue), Tail(writing))
    /\ UNCHANGED <<mode, phase, socket, reading, buf, toClient, taken,
                   answered, echoes, got, media, dropped>>

OnWriteError ==
    /\ socket = "open" /\ writing # <<>>
    /\ writing' = Tail(writing)
    /\ close
    /\ UNCHANGED <<mode, phase, reading, queue, buf, peer, got, media, dropped>>

OnReadError ==
    /\ socket = "open" /\ reading > 0
    /\ reading' = reading - 1
    /\ close
    /\ UNCHANGED <<mode, phase, queue, writing, buf, peer, got, media, dropped>>

-----------------------------------------------------------------------------
(* What the client makes of a message.                                      *)

PlayPhase == IF mode = "publish" THEN "create_publish" ELSE "create_play"

(* handle_server_command_message: the phase a command leads to; "error" is  *)
(* its return of -1.                                                        *)
handle_server_command_message(p, m) ==
    CASE p = "connect_resp" /\ m = "_result"                          -> "create_stream"
      [] p \in {"create_stream", "create_stream_resp"} /\ m = "_result" -> PlayPhase
      [] p \in {"connect_resp", "create_stream", "create_stream_resp"}
             /\ m \notin {"_result", "onBWDone"}                       -> "error"
      [] p = PlayPhase /\ m \notin {"_result", "onStatus Start"}       -> "error"
      [] OTHER                                                         -> p

(* One message in receive_resp_message: a control or media message leaves   *)
(* the phase alone, a command goes to the control handler.                  *)
HandledIn(p, m) ==
    IF p = "error" \/ m \in Control \/ m = "media" THEN p
    ELSE handle_server_command_message(p, m)

(* receive_resp_message over the whole buffer: the phase at its end, and    *)
(* whether it returns RTMP_NEED_READ_MORE: bytes of an incomplete message   *)
(* are left, or the last message was media.                                 *)
PhaseAfter(p, b) == FoldLeft(HandledIn, p, Complete(b))

NeedReadMore(b) == Remains(b) # <<>> \/ Last(b).msg = "media"

(* handle_rtmp_control_message: a SetChunkSize is answered with one.         *)
IsSetChunkSize(m) == m = "set_chunk_size"

Echo(b) == SelectSeq(Complete(b), IsSetChunkSize)

-----------------------------------------------------------------------------
(* handle_message, one operator per phase; b is the buffer with the bytes   *)
(* just read.                                                               *)

(* Variant: the buffer is reset although a message in it is incomplete.       *)
Take_reset(b, p) ==
    /\ phase' = p
    /\ got' = got \o Complete(b)
    /\ buf' = <<>>
    /\ dropped' = dropped \o Remains(b)
    /\ UNCHANGED socket

(* The complete messages are handled and leave the buffer.                   *)
Take(b, p) ==
    /\ phase' = p
    /\ got' = got \o Complete(b)
    /\ buf' = Remains(b)
    /\ UNCHANGED <<socket, dropped>>

(* Any negative return of receive_resp_message closes the session.          *)
Refuse(b) ==
    /\ close
    /\ got' = got \o Complete(b)
    /\ buf' = Remains(b)
    /\ SendNothing
    /\ UNCHANGED <<phase, reading, dropped>>

(* Variant: part of the handshake answer is not waited for.                  *)
HandleS0S1S2_deaf(b) ==
    IF Complete(b) = <<>>
    THEN Take(b, phase) /\ SendNothing /\ reading' = reading - 1
    ELSE /\ phase' = "connect_resp"
         /\ got' = Append(got, Head(Complete(b)))
         /\ buf' = <<>>
         /\ send(<<"c2", "connect">>)
         /\ reading' = reading
         /\ UNCHANGED <<socket, dropped>>

(* The handshake answer is used whole: C2 and the connect command go out.   *)
HandleS0S1S2(b) ==
    IF Complete(b) = <<>>
    THEN Take(b, phase) /\ SendNothing /\ reading' = reading
    ELSE /\ phase' = "connect_resp"
         /\ got' = Append(got, Head(Complete(b)))
         /\ buf' = <<>>
         /\ dropped' = dropped \o SubSeq(b, 3, Len(b))
         /\ send(<<"c2", "connect">>)
         /\ reading' = reading
         /\ UNCHANGED socket

(* The answer to connect: an incomplete one leaves the session without a    *)
(* read; a complete one is followed by createStream.                        *)
HandleConnectResp(b) ==
    LET p == PhaseAfter("connect_resp", b) IN
    CASE p = "error"        -> Refuse(b)
      [] p # "error" /\ NeedReadMore(b) ->
             Take(b, p) /\ send(Echo(b)) /\ reading' = reading - 1
      [] p = "connect_resp" /\ ~NeedReadMore(b) ->
             Take(b, p) /\ send(Echo(b)) /\ reading' = reading
      [] p = "create_stream" /\ ~NeedReadMore(b) ->
             /\ Take(b, "create_stream_resp")
             /\ send(Echo(b) \o <<"createStream">>)
             /\ reading' = reading

(* Variant: the session goes on although the answer is incomplete.          *)
HandleCreateStreamResp_early(b) ==
    LET p == PhaseAfter("create_stream_resp", b) IN
    CASE p = "error" -> Refuse(b)
      [] p # "error" -> Take(b, "media") /\ send(Echo(b) \o <<mode>>) /\ reading' = reading

(* Variant: an incomplete answer is not waited for.                          *)
HandleCreateStreamResp_deaf(b) ==
    LET p == PhaseAfter("create_stream_resp", b) IN
    CASE p = "error" -> Refuse(b)
      [] p # "error" /\ NeedReadMore(b) ->
             Take(b, p) /\ send(Echo(b)) /\ reading' = reading - 1
      [] p # "error" /\ ~NeedReadMore(b) ->
             Take(b, "media") /\ send(Echo(b) \o <<mode>>) /\ reading' = reading

(* The answer to createStream: whatever complete message ends the buffer,   *)
(* the play or publish command goes out.                                    *)
HandleCreateStreamResp(b) ==
    LET p == PhaseAfter("create_stream_resp", b) IN
    CASE p = "error" -> Refuse(b)
      [] p # "error" /\ NeedReadMore(b) ->
             Take(b, p) /\ send(Echo(b)) /\ reading' = reading
      [] p # "error" /\ ~NeedReadMore(b) ->
             /\ Take(b, "media")
             /\ send(Echo(b) \o <<mode>>)
             /\ reading' = reading

(* The play or publish command of a session that entered its phase in an    *)
(* earlier read: the bytes read since are thrown away unread.               *)
HandlePlayOrPublish(b) ==
    /\ phase' = "media"
    /\ buf' = <<>>
    /\ dropped' = dropped \o b
    /\ send(<<mode>>)
    /\ reading' = reading
    /\ UNCHANGED <<socket, got>>

HandleMedia(b) == Take(b, "media") /\ send(Echo(b)) /\ reading' = reading

(* A session that threw the beginning of a message away is out of step with  *)
(* the stream; what it makes of later bytes is not modelled.                *)
InStep == dropped = <<>>

(* on_read: some of the fragments in flight are appended to recv_buffer_    *)
(* and handle_message runs.  reading counts the read that completes as      *)
(* gone and the next try_read as started.                                   *)
OnRead ==
    /\ socket = "open" /\ reading > 0 /\ InStep
    /\ \E n \in 1..Len(toClient) :
          LET b == buf \o SubSeq(toClient, 1, n) IN
          /\ toClient' = SubSeq(toClient, n + 1, Len(toClient))
          /\ CASE phase = "c0c1"               -> HandleS0S1S2(b)
               [] phase = "connect_resp"       -> HandleConnectResp(b)
               [] phase = "create_stream_resp" -> HandleCreateStreamResp(b)
               [] phase = PlayPhase            -> HandlePlayOrPublish(b)
               [] phase = "media"              -> HandleMedia(b)
    /\ UNCHANGED <<mode, toServer, taken, answered, echoes, media>>

(* rtmp_write by the publishing application, which waits for is_ready.       *)
rtmp_write ==
    /\ socket = "open" /\ phase = "media" /\ mode = "publish"
    /\ media < MaxMedia
    /\ media' = media + 1
    /\ send(<<"media">>)
    /\ UNCHANGED <<mode, phase, socket, reading, buf, peer, got, dropped>>

-----------------------------------------------------------------------------
(* The server: it takes what it received in order and answers.              *)

(* The answers of rtmp_control_handler to the commands; those to C0C1 and   *)
(* C2 are the handshake's.                                                  *)
connect_resp ==
    <<"window_ack_size", "set_peer_bandwidth", "set_chunk_size", "_result">>

play_resp == <<"stream_recorded", "stream_begin", "onStatus Reset",
               "onStatus Start", "onStatus Data", "onStatus Notify">>

AnswerTo(m) ==
    CASE m = "c0c1"         -> <<"s0s1s2">>
      [] m = "connect"      -> connect_resp
      [] m = "createStream" -> <<"_result">>
      [] m = "play"         -> play_resp
      [] m = "publish"      -> <<"onStatus Start">>
      [] OTHER              -> <<>>

Answer(a) ==
    /\ answered' = answered \o a
    /\ toClient' = toClient \o Fragments(a)

(* The server takes the next message.  This one answers a SetChunkSize with   *)
(* its own; another may not, may announce onBWDone behind its answer to       *)
(* connect, or refuse with _error: the client has code for each.              *)
Serve ==
    /\ toServer # <<>>
    /\ toServer' = Tail(toServer)
    /\ LET m == Head(toServer) IN
       /\ taken' = IF m = "set_chunk_size" THEN taken ELSE Append(taken, m)
       /\ \/ Answer(AnswerTo(m)) /\ UNCHANGED echoes
          \/ /\ m = "set_chunk_size" /\ echoes < MaxEcho
             /\ Answer(<<"set_chunk_size">>)
             /\ echoes' = echoes + 1
          \/ /\ m = "connect"
             /\ Answer(Append(connect_resp, "onBWDone"))
             /\ UNCHANGED echoes
          \/ /\ m \in {"connect", "createStream"}
             /\ Answer(<<"_error">>)
             /\ UNCHANGED echoes
    /\ UNCHANGED <<mode, phase, tcp, buf, got, media, dropped>>

(* A played stream: the server relays its packets.                          *)
Relay ==
    /\ mode = "play" /\ mode \in Range(taken) /\ media < MaxMedia
    /\ media' = media + 1
    /\ Answer(<<"media">>)
    /\ UNCHANGED <<mode, phase, tcp, buf, toServer, taken, echoes, got, dropped>>

Next ==
    \/ start \/ on_connect
    \/ OnRead \/ OnReadError \/ OnWritten \/ OnWriteError
    \/ rtmp_write
    \/ Serve \/ Relay

Spec == Init /\ [][Next]_vars

(* asio completes the writes and reads that can complete, and the server    *)
(* handles what reaches it.                                                 *)
FairSpec == Spec /\ WF_vars(start) /\ WF_vars(on_connect) /\ WF_vars(OnRead)
                 /\ WF_vars(OnWritten) /\ WF_vars(Serve)

-----------------------------------------------------------------------------
(* Properties.                                                              *)

(* The server receives the handshake, the commands and the media of the      *)
(* session in order and once each, whatever the callbacks' order, although   *)
(* several buffers are queued while one is being written                     *)
(* (tcp_client::send and do_write).                                          *)
CommandsInOrder == IsPrefix(taken, Conversation)

(* The answer to connect is the one place where an open session is left      *)
(* without a read: rtmp_client_session::handle_message returns               *)
(* RTMP_NEED_READ_MORE there, and no caller reads on.                        *)
Deaf == /\ reading = 0 /\ buf # <<>>
        /\ phase \in {"connect_resp", "create_stream"}

(* An open session has exactly one read outstanding: with none it would not  *)
(* notice the end of the connection, with two they would share one buffer.   *)
(* The exception is an answer to connect that ends inside a message.         *)
OneReadOutstanding == socket = "open" => reading = 1 \/ Deaf

(* Every message of the server is handled once and in order, or still on its *)
(* way: the resets of recv_buffer_ between the phases throw nothing away.    *)
(* The exception is the SetChunkSize behind the answer to createStream, which *)
(* a server that answers SetChunkSize twice can send.                        *)
AnswersAreHandled ==
    IF dropped = <<>>
    THEN answered = got \o Complete(buf \o toClient)
    ELSE Head(dropped).msg = "set_chunk_size" /\ echoes > 1

(* Play and publish name a stream the server has created: unless a            *)
(* SetChunkSize or an onBWDone arrives in between, the command follows the   *)
(* answer to createStream (handle_message goes on after any complete message). *)
PlayAfterCreateStream ==
    /\ mode \in Range(queue \o toServer \o taken)
    /\ echoes = 0 /\ "onBWDone" \notin Range(answered)
    => Len(SelectSeq(got, LAMBDA m : m = "_result")) = 2

(* A session that has connected gets to its media phase, is closed, or is    *)
(* deaf.                                                                     *)
SessionStarts == (phase = "c0c1") ~> (phase = "media" \/ socket = "closed" \/ Deaf)
=============================================================================
