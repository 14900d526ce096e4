-------------------------- MODULE RtmpServerProofs ---------------------------
(***************************************************************************)
(* The safety of the RTMP server for any number of sessions, keys and      *)
(* packets.  IInv is inductive; its last three conjuncts and StreamsInv    *)
(* imply what RtmpServer states, the others are what makes them inductive: *)
(* a callback runs on an open session, the alive check and a read callback *)
(* never overlap, a session that was never accepted has no role, one that  *)
(* has a role has a key, and one that plays has the writer that close()    *)
(* removes.                                                                *)
(***************************************************************************)
EXTENDS RtmpServer, MediaStreamProofs

Typed ==
  /\ sess \in [Sessions -> Session]
  /\ cb \in [in : SUBSET Sessions, c2 : BOOLEAN]
  /\ dying \in SUBSET Sessions
  /\ npackets \in Nat
  /\ stray \in SUBSET Keys

CallbackOnOpen == \A s \in cb.in : IsOpen(s)

NoOverlap == cb.in = {} \/ dying = {}

UnusedIsIdle == \A s \in Sessions : sess[s].conn = "none" => ~sess[s].ready

ReadyHasKey == \A s \in Sessions : sess[s].ready => sess[s].key # ""

PlayerHasWriter == \A s \in Sessions : IsPlaying(sess[s]) => sess[s].play_writer

IInv ==
  /\ Typed
  /\ StreamsInv(streams)
  /\ CallbackOnOpen
  /\ NoOverlap
  /\ UnusedIsIdle
  /\ ReadyHasKey
  /\ PlayerHasWriter
  /\ WriterHasSession
  /\ PlayerIsRegistered
  /\ PublisherFlagIsBacked

LEMMA IInvInit == Init => IInv
<1> SUFFICES ASSUME Init PROVE IInv
  OBVIOUS
<1>1. NewSession \in Session
  BY NamesAssumption DEF NewSession, Session, Phases
<1>2. Typed
  BY <1>1 DEF Init, Typed, Idle
<1>3. StreamsInv(streams)
  BY InitialStreams DEF Init
<1>4. CallbackOnOpen /\ NoOverlap /\ UnusedIsIdle /\ ReadyHasKey /\ PlayerHasWriter
  BY DEF Init, Idle, NewSession, CallbackOnOpen, NoOverlap, UnusedIsIdle, ReadyHasKey, PlayerHasWriter,
     IsPlaying
<1>5. WriterHasSession /\ PlayerIsRegistered /\ PublisherFlagIsBacked
  BY DEF Init, NoStream, NewSession, WriterHasSession, PlayerIsRegistered,
     PublisherFlagIsBacked, Abandoned, IsPlaying
<1> QED
  BY <1>2, <1>3, <1>4, <1>5 DEF IInv

-----------------------------------------------------------------------------
(***************************************************************************)
(* Steps that change no session's connection, key or role.                 *)
(***************************************************************************)
SameRole(r, q) ==
  /\ q.conn = r.conn /\ q.key = r.key /\ q.ready = r.ready /\ q.publish = r.publish
  /\ q.play_writer = r.play_writer /\ q.left = r.left

LEMMA NeutralStep ==
  ASSUME IInv, Typed', UNCHANGED <<streams, stray>>, NoOverlap',
         \A s \in Sessions : SameRole(sess[s], sess'[s]),
         \A s \in cb'.in : IsOpen(s)
  PROVE  IInv'
<1>1. CallbackOnOpen'
  BY DEF CallbackOnOpen, IsOpen, SameRole, Typed
<1>2. UnusedIsIdle' /\ ReadyHasKey' /\ PlayerHasWriter'
  BY DEF IInv, UnusedIsIdle, ReadyHasKey, PlayerHasWriter, IsPlaying, SameRole
<1>3. StreamsInv(streams)'
  BY DEF IInv
<1>4. \A k \in Keys : streams[k].writer_map \subseteq Sessions
  BY SessionsAssumption DEF IInv, StreamsInv, StreamMap, Stream
<1>5. WriterHasSession'
  BY <1>4 DEF IInv, WriterHasSession, IsOpen, IsPlaying, SameRole
<1>6. PlayerIsRegistered'
  BY DEF IInv, PlayerIsRegistered, IsOpen, IsPlaying, SameRole
<1>7. PublisherFlagIsBacked'
  BY DEF IInv, PublisherFlagIsBacked, Abandoned, IsOpen, IsPublishing, SameRole
<1> QED
  BY <1>1, <1>2, <1>3, <1>5, <1>6, <1>7 DEF IInv

(***************************************************************************)
(* close(): the session's own writer or publisher flag goes, and nothing   *)
(* else does.                                                              *)
(***************************************************************************)
LEMMA CloseStep ==
  ASSUME IInv, NEW s \in Sessions, close(s), UNCHANGED <<npackets, stray>>,
         cb' \in [in : SUBSET Sessions, c2 : BOOLEAN], cb'.in = {},
         dying' \in SUBSET Sessions
  PROVE  IInv'
<1> DEFINE r == sess[s]
<1>1. r \in Session /\ r.key \in Keys /\ StreamsInv(streams) /\ s \in Writers
  BY SessionsAssumption DEF IInv, Typed, Session
<1>2. \A t \in Sessions :
        IF t = s THEN sess'[t] = [r EXCEPT !.conn = "closed", !.reading = FALSE]
        ELSE sess'[t] = sess[t]
  BY DEF close, IInv, Typed
<1>3. sess' \in [Sessions -> Session]
  BY <1>1 DEF close, IInv, Typed, Session
<1>4. \A t \in Sessions :
        /\ sess'[t].conn = IF t = s THEN "closed" ELSE sess[t].conn
        /\ sess'[t].key = sess[t].key /\ sess'[t].ready = sess[t].ready
        /\ sess'[t].publish = sess[t].publish
        /\ sess'[t].play_writer = sess[t].play_writer
        /\ sess'[t].left = sess[t].left
  <2> TAKE t \in Sessions
  <2>1. CASE t = s
    BY <1>1, <1>2, <2>1 DEF Session
  <2>2. CASE t # s
    BY <1>2, <2>2
  <2> QED
    BY <2>1, <2>2
<1>5. Typed' /\ CallbackOnOpen' /\ NoOverlap'
  BY <1>3 DEF IInv, Typed, CallbackOnOpen, NoOverlap
<1>6. UnusedIsIdle' /\ ReadyHasKey' /\ PlayerHasWriter'
  BY <1>4 DEF IInv, UnusedIsIdle, ReadyHasKey, PlayerHasWriter, IsPlaying
<1>7. /\ StreamsInv(streams')
      /\ \A j \in Keys : streams'[j].writer_map =
           IF IsPlaying(r) /\ j = r.key THEN streams[j].writer_map \ {s}
           ELSE streams[j].writer_map
      /\ \A j \in Keys : streams'[j].publisher_exist =
           IF ~IsPlaying(r) /\ r.key # "" /\ j = r.key THEN FALSE
           ELSE streams[j].publisher_exist
  <2>1. CASE IsPlaying(r)
    <3>1. streams' = remove_player(streams, r.key, s)
      BY <2>1 DEF close, close_streams, IInv, PlayerHasWriter
    <3>2. /\ StreamsInv(streams')
          /\ OnlyAt(streams, streams', r.key, streams[r.key].writer_map \ {s},
                    streams[r.key].publisher_exist)
      BY <1>1, <3>1, RemovePlayer, Zenon
    <3> QED
      BY <2>1, <3>2 DEF OnlyAt
  <2>2. CASE ~IsPlaying(r) /\ r.key # ""
    <3>1. streams' = remove_publisher(streams, r.key)
      BY <2>2 DEF close, close_streams
    <3>2. /\ StreamsInv(streams')
          /\ OnlyAt(streams, streams', r.key, streams[r.key].writer_map, FALSE)
      BY <1>1, <3>1, RemovePublisher, Zenon
    <3> QED
      BY <2>2, <3>2 DEF OnlyAt
  <2>3. CASE ~IsPlaying(r) /\ r.key = ""
    BY <1>1, <2>3 DEF close, close_streams
  <2> QED
    BY <2>1, <2>2, <2>3
<1>8. \A k \in Keys : streams[k].writer_map \subseteq Sessions
  BY SessionsAssumption DEF IInv, StreamsInv, StreamMap, Stream
<1>9. WriterHasSession'
  <2> SUFFICES ASSUME NEW k \in Keys, NEW w \in streams'[k].writer_map, k \notin sess'[w].left
               PROVE  IsOpen(w)' /\ IsPlaying(sess[w])' /\ sess'[w].key = k
    BY DEF WriterHasSession
  <2>1. w \in streams[k].writer_map /\ w \in Sessions /\ ~(IsPlaying(r) /\ k = r.key /\ w = s)
    BY <1>7, <1>8
  <2>2. IsOpen(w) /\ IsPlaying(sess[w]) /\ sess[w].key = k
    BY <1>4, <2>1 DEF IInv, WriterHasSession
  <2>3. w # s
    BY <2>1, <2>2
  <2> QED
    BY <1>4, <2>1, <2>2, <2>3 DEF IsOpen, IsPlaying
<1>10. PlayerIsRegistered'
  <2> SUFFICES ASSUME NEW t \in Sessions, IsOpen(t)', IsPlaying(sess[t])'
               PROVE  t \in streams'[sess'[t].key].writer_map
    BY DEF PlayerIsRegistered
  <2>1. t # s /\ IsOpen(t) /\ IsPlaying(sess[t]) /\ sess'[t].key = sess[t].key
    BY <1>4 DEF IsOpen, IsPlaying
  <2>2. sess[t].key \in Keys /\ t \in streams[sess[t].key].writer_map
    BY <2>1 DEF IInv, PlayerIsRegistered, Typed, Session
  <2> QED
    BY <1>7, <2>1, <2>2
<1>11. PublisherFlagIsBacked'
  <2> SUFFICES ASSUME NEW k \in Keys, streams'[k].publisher_exist,
                      k \notin stray, \A t \in Sessions : k \notin sess[t].left
               PROVE  \E t \in Sessions :
                        IsOpen(t)' /\ IsPublishing(sess[t])' /\ sess'[t].key = k
    BY <1>4 DEF PublisherFlagIsBacked, Abandoned
  <2>1. streams[k].publisher_exist /\ ~(~IsPlaying(r) /\ r.key # "" /\ k = r.key)
    BY <1>7
  <2>2. PICK t \in Sessions : IsOpen(t) /\ IsPublishing(sess[t]) /\ sess[t].key = k
    BY <2>1 DEF IInv, PublisherFlagIsBacked, Abandoned
  <2>3. CASE t # s
    BY <1>4, <2>2, <2>3 DEF IsOpen, IsPublishing
  <2>4. CASE t = s
    BY <2>1, <2>2, <2>4 DEF IsPublishing, IsPlaying, IInv, ReadyHasKey
  <2> QED
    BY <2>3, <2>4
<1> QED
  BY <1>5, <1>6, <1>7, <1>9, <1>10, <1>11 DEF IInv

-----------------------------------------------------------------------------
(***************************************************************************)
(* The end of a message's handling changes the session to r, but for the   *)
(* outstanding read, and may end the callback.                             *)
(***************************************************************************)
LEMMA HandledFacts ==
  ASSUME Typed, NEW s \in Sessions, NEW r \in Session, NEW ret, Handled(s, r, ret)
  PROVE  /\ sess' \in [Sessions -> Session]
         /\ \A t \in Sessions : t # s => sess'[t] = sess[t]
         /\ SameRole(r, sess'[s])
         /\ cb' \in [in : SUBSET Sessions, c2 : BOOLEAN]
         /\ cb'.in \subseteq cb.in
<1>1. CASE sess' = [sess EXCEPT ![s] = r] /\ UNCHANGED cb
  BY <1>1 DEF Typed, SameRole
<1>2. CASE /\ sess' = [sess EXCEPT ![s] = [r EXCEPT !.reading = rearmed(ret)]]
           /\ cb' = Idle
  <2> DEFINE q == [r EXCEPT !.reading = rearmed(ret)]
  <2>1. q \in Session /\ SameRole(r, q)
    BY DEF Session, SameRole, rearmed
  <2> HIDE DEF q
  <2>2. sess' = [sess EXCEPT ![s] = q] /\ cb' = Idle
    BY <1>2 DEF q
  <2> QED
    BY <2>1, <2>2 DEF Typed, Idle
<1> QED
  BY <1>1, <1>2 DEF Handled

(***************************************************************************)
(* What a command may do to the session's role: it keeps it, gives it one, *)
(* or changes it and remembers the key it left.                            *)
(***************************************************************************)
Rebinds(q, r) ==
  /\ r.conn = q.conn /\ r.play_writer = q.play_writer
  /\ q.left \subseteq r.left
  /\ r.ready => r.key # ""
  /\ q.ready => /\ r.ready
                /\ (r.key = q.key /\ r.publish = q.publish) \/ q.key \in r.left

LEMMA CommandStep ==
  ASSUME IInv, NEW s \in cb.in, NEW r \in Session, Rebinds(sess[s], r), CommandDone(s, r)
  PROVE  IInv'
<1> DEFINE q == [r EXCEPT !.play_writer = TRUE]
<1>1. /\ s \in Sessions /\ s \in Writers /\ sess[s].conn = "open" /\ dying = {}
      /\ Typed /\ StreamsInv(streams) /\ r.key \in Keys
  BY SessionsAssumption DEF IInv, Typed, CallbackOnOpen, NoOverlap, IsOpen, Session
<1>2. \A k \in Keys : streams[k].writer_map \subseteq Sessions
  BY SessionsAssumption DEF IInv, StreamsInv, StreamMap, Stream
<1>3. q \in Session
  BY DEF Session
<1>4. /\ sess' \in [Sessions -> Session]
      /\ \A t \in Sessions : t # s => sess'[t] = sess[t]
      /\ sess'[s].conn = r.conn /\ sess'[s].key = r.key /\ sess'[s].ready = r.ready
      /\ sess'[s].publish = r.publish /\ sess'[s].left = r.left
      /\ IsPlaying(r) => sess'[s].play_writer
      /\ cb' \in [in : SUBSET Sessions, c2 : BOOLEAN] /\ cb'.in \subseteq cb.in
  <2>1. CASE IsPlaying(r)
    <3>1. Handled(s, q, "ok")
      BY <2>1 DEF CommandDone
    <3>2. /\ q.conn = r.conn /\ q.key = r.key /\ q.ready = r.ready
          /\ q.publish = r.publish /\ q.left = r.left /\ q.play_writer = TRUE
      BY DEF Session
    <3> HIDE DEF q
    <3>3. /\ sess' \in [Sessions -> Session]
          /\ \A t \in Sessions : t # s => sess'[t] = sess[t]
          /\ SameRole(q, sess'[s])
          /\ cb' \in [in : SUBSET Sessions, c2 : BOOLEAN] /\ cb'.in \subseteq cb.in
      BY <1>1, <1>3, <3>1, HandledFacts
    <3> QED
      BY <3>2, <3>3 DEF SameRole
  <2>2. CASE ~IsPlaying(r)
    <3>1. Handled(s, r, "more")
      BY <2>2 DEF CommandDone
    <3>2. /\ sess' \in [Sessions -> Session]
          /\ \A t \in Sessions : t # s => sess'[t] = sess[t]
          /\ SameRole(r, sess'[s])
          /\ cb' \in [in : SUBSET Sessions, c2 : BOOLEAN] /\ cb'.in \subseteq cb.in
      BY <1>1, <3>1, HandledFacts
    <3> QED
      BY <2>2, <3>2 DEF SameRole
  <2> QED
    BY <2>1, <2>2
<1>5. /\ StreamsInv(streams')
      /\ \A j \in Keys :
           /\ streams'[j].writer_map =
                IF IsPlaying(r) /\ j = r.key THEN streams[j].writer_map \cup {s}
                ELSE streams[j].writer_map
           /\ streams'[j].publisher_exist = streams[j].publisher_exist
  <2>1. CASE IsPlaying(r)
    <3>1. streams' = add_player(streams, r.key, s)
      BY <2>1 DEF CommandDone
    <3>2. /\ StreamsInv(streams')
          /\ OnlyAt(streams, streams', r.key, streams[r.key].writer_map \cup {s},
                    streams[r.key].publisher_exist)
      BY <1>1, <3>1, AddPlayer, Zenon
    <3> QED
      BY <2>1, <3>2 DEF OnlyAt
  <2>2. CASE ~IsPlaying(r)
    BY <1>1, <2>2 DEF CommandDone
  <2> QED
    BY <2>1, <2>2
<1>6. UNCHANGED <<dying, npackets, stray>>
  BY DEF CommandDone
<1>7. Typed' /\ CallbackOnOpen' /\ NoOverlap'
  <2>1. Typed'
    BY <1>1, <1>4, <1>6 DEF Typed
  <2>2. NoOverlap'
    BY <1>1, <1>6 DEF NoOverlap
  <2>3. ASSUME NEW t \in cb'.in PROVE IsOpen(t)'
    <3>1. t \in Sessions /\ sess[t].conn = "open"
      BY <1>1, <1>4 DEF IInv, CallbackOnOpen, IsOpen, Typed
    <3> QED
      BY <1>1, <1>4, <3>1 DEF IsOpen, Rebinds
  <2> QED
    BY <2>1, <2>2, <2>3 DEF CallbackOnOpen
<1>8. UnusedIsIdle' /\ ReadyHasKey' /\ PlayerHasWriter'
  BY <1>1, <1>4 DEF IInv, UnusedIsIdle, ReadyHasKey, PlayerHasWriter, IsPlaying, Rebinds
<1>9. WriterHasSession'
  <2> SUFFICES ASSUME NEW k \in Keys, NEW w \in streams'[k].writer_map, k \notin sess'[w].left
               PROVE  IsOpen(w)' /\ IsPlaying(sess[w])' /\ sess'[w].key = k
    BY DEF WriterHasSession
  <2>1. w \in streams[k].writer_map \/ (w = s /\ IsPlaying(r) /\ k = r.key)
    BY <1>5
  <2>2. CASE w = s /\ IsPlaying(r) /\ k = r.key
    BY <1>1, <1>4, <2>2 DEF IsOpen, IsPlaying, Rebinds
  <2>3. CASE w \in streams[k].writer_map
    <3>1. w \in Sessions
      BY <1>2, <2>3
    <3>2. k \notin sess[w].left
      BY <1>4, <3>1 DEF Rebinds
    <3>3. IsOpen(w) /\ IsPlaying(sess[w]) /\ sess[w].key = k
      BY <2>3, <3>2 DEF IInv, WriterHasSession
    <3> QED
      BY <1>4, <3>1, <3>3 DEF IsOpen, IsPlaying, Rebinds
  <2> QED
    BY <2>1, <2>2, <2>3
<1>10. PlayerIsRegistered'
  <2> SUFFICES ASSUME NEW t \in Sessions, IsOpen(t)', IsPlaying(sess[t])'
               PROVE  t \in streams'[sess'[t].key].writer_map
    BY DEF PlayerIsRegistered
  <2>1. CASE t = s
    BY <1>1, <1>4, <1>5, <2>1 DEF IsPlaying
  <2>2. CASE t # s
    <3>1. sess[t].key \in Keys /\ t \in streams[sess[t].key].writer_map
      BY <1>1, <1>4, <2>2 DEF IInv, PlayerIsRegistered, IsOpen, IsPlaying, Typed, Session
    <3> QED
      BY <1>4, <1>5, <2>2, <3>1
  <2> QED
    BY <2>1, <2>2
<1>11. PublisherFlagIsBacked'
  <2> SUFFICES ASSUME NEW k \in Keys, streams'[k].publisher_exist,
                      k \notin stray, \A t \in Sessions : k \notin sess'[t].left
               PROVE  \E t \in Sessions :
                        IsOpen(t)' /\ IsPublishing(sess[t])' /\ sess'[t].key = k
    BY <1>6 DEF PublisherFlagIsBacked, Abandoned
  <2>1. streams[k].publisher_exist /\ \A t \in Sessions : k \notin sess[t].left
    BY <1>1, <1>4, <1>5 DEF Rebinds
  <2>2. PICK t \in Sessions : IsOpen(t) /\ IsPublishing(sess[t]) /\ sess[t].key = k
    BY <2>1 DEF IInv, PublisherFlagIsBacked, Abandoned
  <2>3. IsOpen(t)' /\ IsPublishing(sess[t])' /\ sess'[t].key = k
    BY <1>1, <1>4, <2>2 DEF IsOpen, IsPublishing, Rebinds
  <2> QED
    BY <2>3
<1> QED
  BY <1>5, <1>7, <1>8, <1>9, <1>10, <1>11 DEF IInv

(* A media message feeds one stream and changes nobody's role. *)
LEMMA MediaStep ==
  ASSUME IInv, NEW s \in Sessions, NEW kind \in MediaKinds, MediaMessage(s, kind)
  PROVE  IInv'
<1> DEFINE k == sess[s].key
           p == [id |-> npackets + 1, kind |-> kind]
           fed == [t \in Sessions |->
                     IF is_fed(k, s, t) THEN keep_alive(sess[t]) ELSE sess[t]]
<1>1. /\ s \in cb.in /\ IsOpen(s) /\ dying = {} /\ k \in Keys /\ Typed
      /\ StreamsInv(streams)
  BY DEF MediaMessage, IInv, Typed, CallbackOnOpen, NoOverlap, Session
<1>2. p \in Packet
  BY <1>1, MediaKindsAssumption DEF Typed, Packet
<1>3. /\ streams' = writer_media_packet(streams, k, p, {})
      /\ npackets' = npackets + 1
      /\ stray' = IF IsPublishing(sess[s]) THEN stray ELSE stray \cup {k}
      /\ UNCHANGED dying
      /\ \/ sess' = fed /\ UNCHANGED cb
         \/ sess' = [fed EXCEPT ![s].reading = rearmed("ok")] /\ cb' = Idle
  BY DEF MediaMessage
<1>4. /\ StreamsInv(streams')
      /\ \A j \in Keys :
           /\ streams'[j].writer_map = streams[j].writer_map
           /\ streams'[j].publisher_exist =
                IF j = k THEN TRUE ELSE streams[j].publisher_exist
  <2> HIDE DEF k, p
  <2>1. /\ StreamsInv(streams')
        /\ OnlyAt(streams, streams', k, streams[k].writer_map \ {}, TRUE)
    BY <1>1, <1>2, <1>3, WriterMediaPacket, Zenon
  <2> QED
    BY <2>1 DEF OnlyAt
<1>5. fed \in [Sessions -> Session] /\ \A t \in Sessions : SameRole(sess[t], fed[t])
  <2> SUFFICES ASSUME NEW t \in Sessions
               PROVE  fed[t] \in Session /\ SameRole(sess[t], fed[t])
    OBVIOUS
  <2>1. sess[t] \in Session
    BY <1>1 DEF Typed
  <2>2. keep_alive(sess[t]) \in Session /\ SameRole(sess[t], keep_alive(sess[t]))
    BY <2>1 DEF keep_alive, Session, SameRole
  <2> QED
    BY <2>1, <2>2 DEF SameRole
<1> HIDE DEF fed
<1>6. sess' \in [Sessions -> Session] /\ \A t \in Sessions : SameRole(sess[t], sess'[t])
  <2>1. CASE sess' = fed
    BY <1>5, <2>1
  <2>2. CASE sess' = [fed EXCEPT ![s].reading = rearmed("ok")]
    <3> DEFINE q == [fed[s] EXCEPT !.reading = rearmed("ok")]
    <3>1. fed[s] \in Session /\ SameRole(sess[s], fed[s])
      BY <1>5
    <3>2. q \in Session /\ SameRole(sess[s], q)
      BY <3>1 DEF Session, SameRole, rearmed
    <3>3. sess' = [fed EXCEPT ![s] = q]
      BY <2>2
    <3> HIDE DEF q
    <3> QED
      BY <1>5, <3>2, <3>3
  <2> QED
    BY <1>3, <2>1, <2>2
<1>7. cb' \in [in : SUBSET Sessions, c2 : BOOLEAN] /\ cb'.in \subseteq cb.in
  <2>1. cb' = cb \/ cb' = Idle
    BY <1>3, Zenon
  <2>2. CASE cb' = cb
    BY <1>1, <2>2 DEF Typed
  <2>3. CASE cb' = Idle
    BY <2>3 DEF Idle
  <2> QED
    BY <2>1, <2>2, <2>3
<1>8. Typed'
  BY <1>1, <1>3, <1>6, <1>7 DEF Typed
<1>9. NoOverlap'
  BY <1>1, <1>3 DEF NoOverlap
<1>10. CallbackOnOpen'
  BY <1>1, <1>6, <1>7 DEF IInv, Typed, CallbackOnOpen, IsOpen, SameRole
<1>11. UnusedIsIdle' /\ ReadyHasKey' /\ PlayerHasWriter'
  BY <1>6 DEF IInv, UnusedIsIdle, ReadyHasKey, PlayerHasWriter, IsPlaying, SameRole
<1>12. \A j \in Keys : streams[j].writer_map \subseteq Sessions
  BY SessionsAssumption DEF IInv, StreamsInv, StreamMap, Stream
<1>13. WriterHasSession'
  <2> SUFFICES ASSUME NEW j \in Keys, NEW w \in streams'[j].writer_map, j \notin sess'[w].left
               PROVE  IsOpen(w)' /\ IsPlaying(sess[w])' /\ sess'[w].key = j
    BY DEF WriterHasSession
  <2>1. w \in streams[j].writer_map /\ w \in Sessions
    BY <1>4, <1>12
  <2>2. SameRole(sess[w], sess'[w])
    BY <1>6, <2>1
  <2>3. IsOpen(w) /\ IsPlaying(sess[w]) /\ sess[w].key = j
    BY <2>1, <2>2 DEF IInv, WriterHasSession, SameRole
  <2> QED
    BY <2>2, <2>3 DEF IsOpen, IsPlaying, SameRole
<1>14. PlayerIsRegistered'
  <2> SUFFICES ASSUME NEW t \in Sessions, IsOpen(t)', IsPlaying(sess[t])'
               PROVE  t \in streams'[sess'[t].key].writer_map
    BY DEF PlayerIsRegistered
  <2>1. SameRole(sess[t], sess'[t]) /\ sess[t].key \in Keys
    BY <1>1, <1>6 DEF Typed, Session
  <2>2. t \in streams[sess[t].key].writer_map
    BY <2>1 DEF IInv, PlayerIsRegistered, IsOpen, IsPlaying, SameRole
  <2> QED
    BY <1>4, <2>1, <2>2 DEF SameRole
<1>15. PublisherFlagIsBacked'
  <2> SUFFICES ASSUME NEW j \in Keys, streams'[j].publisher_exist,
                      j \notin stray', \A t \in Sessions : j \notin sess[t].left
               PROVE  \E t \in Sessions :
                        IsOpen(t)' /\ IsPublishing(sess[t])' /\ sess'[t].key = j
    BY <1>6 DEF PublisherFlagIsBacked, Abandoned, SameRole
  <2>1. CASE j = k
    BY <1>1, <1>3, <1>6, <2>1 DEF IsOpen, IsPublishing, SameRole
  <2>2. CASE j # k
    <3>1. PICK t \in Sessions : IsOpen(t) /\ IsPublishing(sess[t]) /\ sess[t].key = j
      BY <1>3, <1>4, <2>2 DEF IInv, PublisherFlagIsBacked, Abandoned
    <3> QED
      BY <1>6, <3>1 DEF IsOpen, IsPublishing, SameRole
  <2> QED
    BY <2>1, <2>2
<1> QED
  BY <1>4, <1>8, <1>9, <1>10, <1>11, <1>13, <1>14, <1>15 DEF IInv

-----------------------------------------------------------------------------
(* A new session has no role yet: its opening disturbs nothing. *)
LEMMA AcceptStep ==
  ASSUME IInv, NEW s \in Sessions, OnAccept(s)
  PROVE  IInv'
<1>1. /\ Typed /\ sess[s] \in Session /\ sess[s].conn = "none" /\ ~sess[s].ready
      /\ cb.in = {} /\ UNCHANGED <<streams, cb, dying, npackets, stray>>
  BY DEF IInv, Typed, UnusedIsIdle, OnAccept, Quiet
<1>2. /\ sess' \in [Sessions -> Session]
      /\ \A t \in Sessions : t # s => sess'[t] = sess[t]
      /\ sess'[s].conn = "open" /\ sess'[s].ready = sess[s].ready
      /\ sess'[s].left = sess[s].left
  BY <1>1 DEF OnAccept, Typed, Session
<1>3. Typed' /\ CallbackOnOpen' /\ NoOverlap'
  BY <1>1, <1>2 DEF Typed, CallbackOnOpen, NoOverlap
<1>4. UnusedIsIdle' /\ ReadyHasKey' /\ PlayerHasWriter'
  BY <1>1, <1>2 DEF IInv, UnusedIsIdle, ReadyHasKey, PlayerHasWriter, IsPlaying
<1>5. \A k \in Keys : streams[k].writer_map \subseteq Sessions
  BY SessionsAssumption DEF IInv, StreamsInv, StreamMap, Stream
<1>6. WriterHasSession'
  BY <1>1, <1>2, <1>5 DEF IInv, WriterHasSession, IsOpen, IsPlaying
<1>7. PlayerIsRegistered'
  BY <1>1, <1>2 DEF IInv, PlayerIsRegistered, IsOpen, IsPlaying
<1>8. PublisherFlagIsBacked'
  BY <1>1, <1>2 DEF IInv, PublisherFlagIsBacked, Abandoned, IsOpen, IsPublishing
<1> QED
  BY <1>1, <1>3, <1>4, <1>6, <1>7, <1>8 DEF IInv

(***************************************************************************)
(* A step that changes one session's record without touching its role, and *)
(* at most ends the callback or starts one on that session.                *)
(***************************************************************************)
LEMMA OneSessionStep ==
  ASSUME IInv, NEW s \in Sessions, NEW r \in Session, SameRole(sess[s], r),
         sess' = [sess EXCEPT ![s] = r],
         UNCHANGED <<streams, dying, npackets, stray>>,
         cb' \in [in : SUBSET Sessions, c2 : BOOLEAN],
         cb'.in \subseteq cb.in \/ (cb'.in = {s} /\ IsOpen(s) /\ dying = {})
  PROVE  IInv'
<1>1. Typed'
  BY DEF IInv, Typed
<1>2. NoOverlap'
  BY DEF IInv, NoOverlap
<1>3. \A t \in Sessions : SameRole(sess[t], sess'[t])
  BY DEF IInv, Typed, SameRole
<1>4. \A t \in cb'.in : IsOpen(t)
  BY DEF IInv, CallbackOnOpen
<1> QED
  BY <1>1, <1>2, <1>3, <1>4, NeutralStep

LEMMA SessionRecord ==
  ASSUME NEW r \in Session
  PROVE  /\ keep_alive(r) \in Session /\ SameRole(r, keep_alive(r))
         /\ \A b \in BOOLEAN : /\ [r EXCEPT !.reading = b] \in Session
                              /\ SameRole(r, [r EXCEPT !.reading = b])
         /\ \A x \in Phases : /\ [r EXCEPT !.phase = x] \in Session
                             /\ SameRole(r, [r EXCEPT !.phase = x])
  BY DEF keep_alive, Session, SameRole

LEMMA HandshakeStep ==
  ASSUME IInv, NEW s \in Sessions,
         HandleC0C1(s) \/ HandleC2(s) \/ OnRead(s) \/ PartialMessage(s)
  PROVE  IInv'
<1>1. /\ sess \in [Sessions -> Session] /\ sess[s] \in Session /\ Typed
      /\ cb \in [in : SUBSET Sessions, c2 : BOOLEAN] /\ Idle \in [in : SUBSET Sessions, c2 : BOOLEAN]
      /\ Idle.in = {}
  BY DEF IInv, Typed, Idle
<1>2. CASE HandleC0C1(s)
  <2>1. CASE /\ sess' = [sess EXCEPT ![s] = [keep_alive(@) EXCEPT !.phase = "handshake_c2"]]
             /\ UNCHANGED streams
    <3> DEFINE r == [keep_alive(sess[s]) EXCEPT !.phase = "handshake_c2"]
    <3>1. r \in Session /\ SameRole(sess[s], r)
      BY <1>1 DEF keep_alive, Session, SameRole, Phases
    <3>2. sess' = [sess EXCEPT ![s] = r]
      BY <2>1
    <3>3. UNCHANGED <<streams, dying, npackets, stray>> /\ cb' = cb
      BY <1>2, <2>1 DEF HandleC0C1
    <3> HIDE DEF r
    <3> QED
      BY <1>1, <3>1, <3>2, <3>3, OneSessionStep
  <2>2. CASE close(s)
    <3>1. UNCHANGED <<cb, dying, npackets, stray>> /\ cb.in = {}
      BY <1>2 DEF HandleC0C1, Quiet
    <3> QED
      BY <1>1, <2>2, <3>1, CloseStep DEF Typed
  <2> QED
    BY <1>2, <2>1, <2>2 DEF HandleC0C1
<1>3. CASE HandleC2(s)
  <2>1. IsOpen(s) /\ dying = {} /\ UNCHANGED <<streams, dying, npackets, stray>>
    BY <1>3 DEF HandleC2, Quiet
  <2>2. CASE sess' = [sess EXCEPT ![s].phase = "connect"] /\ UNCHANGED cb
    <3> DEFINE r == [sess[s] EXCEPT !.phase = "connect"]
    <3>1. r \in Session /\ SameRole(sess[s], r)
      BY <1>1, SessionRecord DEF Phases
    <3>2. sess' = [sess EXCEPT ![s] = r]
      BY <2>2
    <3> HIDE DEF r
    <3> QED
      BY <1>1, <2>1, <2>2, <3>1, <3>2, OneSessionStep
  <2>3. CASE /\ sess' = [sess EXCEPT ![s].phase = "connect", ![s].reading = FALSE]
             /\ cb' = [in |-> {s}, c2 |-> TRUE]
    <3> DEFINE r == [sess[s] EXCEPT !.phase = "connect", !.reading = FALSE]
    <3>1. r \in Session /\ SameRole(sess[s], r)
      BY <1>1 DEF Session, SameRole, Phases
    <3>2. sess' = [sess EXCEPT ![s] = r]
      BY <1>1, <2>3
    <3>3. cb' \in [in : SUBSET Sessions, c2 : BOOLEAN] /\ cb'.in = {s}
      BY <2>3
    <3> HIDE DEF r
    <3> QED
      BY <1>1, <2>1, <3>1, <3>2, <3>3, OneSessionStep
  <2> QED
    BY <1>3, <2>2, <2>3 DEF HandleC2
<1>4. CASE OnRead(s)
  <2> DEFINE r == [sess[s] EXCEPT !.reading = FALSE]
  <2>1. r \in Session /\ SameRole(sess[s], r)
    BY <1>1, SessionRecord
  <2>2. /\ sess' = [sess EXCEPT ![s] = r]
        /\ IsOpen(s) /\ dying = {} /\ UNCHANGED <<streams, dying, npackets, stray>>
    BY <1>4 DEF OnRead, Quiet
  <2>3. cb' \in [in : SUBSET Sessions, c2 : BOOLEAN] /\ cb'.in = {s}
    BY <1>4 DEF OnRead
  <2> HIDE DEF r
  <2> QED
    BY <1>1, <2>1, <2>2, <2>3, OneSessionStep
<1>5. CASE PartialMessage(s)
  <2> DEFINE r == [sess[s] EXCEPT !.reading = TRUE]
  <2>1. r \in Session /\ SameRole(sess[s], r)
    BY <1>1, SessionRecord
  <2>2. /\ sess' = [sess EXCEPT ![s] = r]
        /\ cb' = Idle /\ UNCHANGED <<streams, dying, npackets, stray>>
    BY <1>5 DEF PartialMessage
  <2> HIDE DEF r
  <2> QED
    BY <1>1, <2>1, <2>2, OneSessionStep
<1> QED
  BY <1>2, <1>3, <1>4, <1>5

LEMMA ControlStep ==
  ASSUME IInv, NEW s \in Sessions, ControlMessage(s)
  PROVE  IInv'
<1>1. sess[s] \in Session /\ Typed /\ s \in cb.in /\ dying = {}
  BY DEF IInv, Typed, NoOverlap, ControlMessage
<1>2. PICK r \in Session : SameRole(sess[s], r) /\ Handled(s, r, "ok")
  <2>1. SameRole(sess[s], sess[s])
    BY DEF SameRole
  <2> QED
    BY <1>1, <2>1, SessionRecord DEF ControlMessage
<1>3. UNCHANGED <<streams, dying, npackets, stray>>
  BY DEF ControlMessage
<1>4. /\ sess' \in [Sessions -> Session]
      /\ \A t \in Sessions : t # s => sess'[t] = sess[t]
      /\ SameRole(r, sess'[s])
      /\ cb' \in [in : SUBSET Sessions, c2 : BOOLEAN]
      /\ cb'.in \subseteq cb.in
  BY <1>1, <1>2, HandledFacts
<1>5. Typed' /\ NoOverlap'
  BY <1>1, <1>3, <1>4 DEF Typed, NoOverlap
<1>6. \A t \in Sessions : SameRole(sess[t], sess'[t])
  BY <1>2, <1>4 DEF SameRole
<1>7. \A t \in cb'.in : IsOpen(t)
  BY <1>4 DEF IInv, CallbackOnOpen
<1> QED
  BY <1>3, <1>5, <1>6, <1>7, NeutralStep

LEMMA SameRoleRebinds ==
  ASSUME IInv, NEW s \in Sessions, NEW r \in Session, SameRole(sess[s], r)
  PROVE  Rebinds(sess[s], r)
  BY DEF IInv, Typed, ReadyHasKey, SameRole, Rebinds, Session

LEMMA BindRebinds ==
  ASSUME IInv, NEW s \in Sessions, NEW k \in Names, NEW b \in BOOLEAN
  PROVE  /\ bind_request(sess[s], k, b) \in Session
         /\ Rebinds(sess[s], bind_request(sess[s], k, b))
<1>1. sess[s] \in Session /\ k \in Keys /\ k # ""
  BY NamesAssumption DEF IInv, Typed
<1> DEFINE q == keep_alive(sess[s])
           ks == IF sess[s].ready /\ (sess[s].key # k \/ sess[s].publish # b)
                 THEN q.left \cup {sess[s].key} ELSE q.left
<1>2. q \in Session /\ SameRole(sess[s], q)
  BY <1>1, SessionRecord
<1>3. /\ ks \in SUBSET Keys /\ q.left \subseteq ks
      /\ sess[s].ready /\ (sess[s].key # k \/ sess[s].publish # b) => sess[s].key \in ks
  BY <1>1, <1>2 DEF Session
<1>4. bind_request(sess[s], k, b) =
        [q EXCEPT !.key = k, !.ready = TRUE, !.publish = b, !.left = ks]
  BY DEF bind_request, keep_alive
<1> HIDE DEF q, ks
<1> DEFINE r == [q EXCEPT !.key = k, !.ready = TRUE, !.publish = b, !.left = ks]
<1>5. /\ r \in Session
      /\ r.conn = q.conn /\ r.play_writer = q.play_writer /\ r.ready = TRUE
      /\ r.key = k /\ r.publish = b /\ r.left = ks
  BY <1>1, <1>2, <1>3 DEF Session
<1> HIDE DEF r
<1>6. /\ q.conn = sess[s].conn /\ q.play_writer = sess[s].play_writer
      /\ q.left = sess[s].left /\ sess[s].ready \in BOOLEAN /\ sess[s].publish \in BOOLEAN
  BY <1>1, <1>2 DEF SameRole, Session
<1>7. Rebinds(sess[s], r)
  BY <1>1, <1>3, <1>5, <1>6 DEF Rebinds
<1> QED
  BY <1>4, <1>5, <1>7 DEF r

LEMMA CommandsStep ==
  ASSUME IInv, NEW s \in Sessions,
         \/ AnsweredCommand(s)
         \/ OtherCommand(s)
         \/ \E k \in Names : PlayCommand(s, k) \/ PublishCommand(s, k)
  PROVE  IInv'
<1>1. sess[s] \in Session /\ SameRole(sess[s], sess[s])
  BY DEF IInv, Typed, SameRole
<1>2. keep_alive(sess[s]) \in Session /\ SameRole(sess[s], keep_alive(sess[s]))
  BY <1>1, SessionRecord
<1>3. s \in cb.in
  BY DEF AnsweredCommand, OtherCommand, PlayCommand, PublishCommand
<1>4. PICK r \in Session : Rebinds(sess[s], r) /\ CommandDone(s, r)
  <2>1. CASE AnsweredCommand(s)
    BY <1>2, <2>1, SameRoleRebinds DEF AnsweredCommand
  <2>2. CASE OtherCommand(s)
    BY <1>1, <1>2, <2>2, SameRoleRebinds DEF OtherCommand
  <2>3. CASE \E k \in Names : PlayCommand(s, k) \/ PublishCommand(s, k)
    BY <2>3, BindRebinds DEF PlayCommand, PublishCommand
  <2> QED
    BY <2>1, <2>2, <2>3
<1> QED
  BY <1>3, <1>4, CommandStep

LEMMA CheckAliveStep ==
  ASSUME IInv, OnCheckAlive
  PROVE  IInv'
<1>1. sess \in [Sessions -> Session] /\ Typed
  BY DEF IInv, Typed
<1>2. cb.in = {} /\ UNCHANGED <<streams, cb, npackets, stray>>
  BY DEF OnCheckAlive, Quiet
<1>3. ASSUME NEW t \in Sessions
      PROVE  sess'[t] \in Session /\ SameRole(sess[t], sess'[t])
  <2>1. sess[t] \in Session
    BY <1>1
  <2>2. CASE IsOpen(t)
    <3>1. sess'[t] = [sess[t] EXCEPT !.not_alive_cnt = @ + 1]
      BY <2>2 DEF OnCheckAlive
    <3> QED
      BY <2>1, <3>1 DEF Session, SameRole
  <2>3. CASE ~IsOpen(t)
    BY <2>1, <2>3 DEF OnCheckAlive, SameRole
  <2> QED
    BY <2>2, <2>3
<1>4. sess' \in [Sessions -> Session]
  <2>1. sess' = [t \in Sessions |-> sess'[t]]
    BY DEF OnCheckAlive
  <2> QED
    BY <1>3, <2>1
<1>5. dying' \in SUBSET Sessions
  BY DEF OnCheckAlive
<1>6. Typed' /\ NoOverlap'
  BY <1>1, <1>2, <1>4, <1>5 DEF Typed, NoOverlap
<1>7. \A t \in cb'.in : IsOpen(t)
  BY <1>2
<1> QED
  BY <1>2, <1>3, <1>6, <1>7, NeutralStep

(* Every step that closes a session. *)
LEMMA ClosingStep ==
  ASSUME IInv, NEW s \in Sessions,
         OnReadError(s) \/ OnWriteError(s) \/ RejectedMessage(s) \/ CloseDead(s)
  PROVE  IInv'
<1>1. Typed /\ NoOverlap
  BY DEF IInv
<1>2. close(s) /\ UNCHANGED <<npackets, stray>>
  BY DEF OnReadError, OnWriteError, RejectedMessage, CloseDead
<1>3. cb' \in [in : SUBSET Sessions, c2 : BOOLEAN] /\ cb'.in = {}
  <2>1. CASE OnReadError(s) \/ OnWriteError(s)
    BY <1>1, <2>1 DEF OnReadError, OnWriteError, Quiet, Typed
  <2>2. CASE RejectedMessage(s)
    BY <2>2 DEF RejectedMessage, Idle
  <2>3. CASE CloseDead(s)
    BY <1>1, <2>3 DEF CloseDead, Typed, NoOverlap
  <2> QED
    BY <2>1, <2>2, <2>3
<1>4. dying' \in SUBSET Sessions
  BY <1>1 DEF Typed, OnReadError, OnWriteError, RejectedMessage, CloseDead
<1> QED
  BY <1>2, <1>3, <1>4, CloseStep

LEMMA StutterStep ==
  ASSUME IInv, UNCHANGED vars
  PROVE  IInv'
  BY DEF vars, IInv, Typed, StreamsInv, CallbackOnOpen, NoOverlap, UnusedIsIdle, ReadyHasKey,
     PlayerHasWriter, WriterHasSession, PlayerIsRegistered, PublisherFlagIsBacked, Abandoned,
     IsOpen

LEMMA IInvNext == IInv /\ [Next]_vars => IInv'
<1> SUFFICES ASSUME IInv, [Next]_vars PROVE IInv'
  OBVIOUS
<1>1. CASE \E s \in Sessions : SessionStep(s)
  <2>1. PICK s \in Sessions : SessionStep(s)
    BY <1>1
  <2>2. CASE OnAccept(s)
    BY <2>2, AcceptStep
  <2>3. CASE OnReadError(s) \/ OnWriteError(s) \/ RejectedMessage(s) \/ CloseDead(s)
    BY <2>3, ClosingStep
  <2>4. CASE HandleC0C1(s) \/ HandleC2(s) \/ OnRead(s) \/ PartialMessage(s)
    BY <2>4, HandshakeStep
  <2>5. CASE ControlMessage(s)
    BY <2>5, ControlStep
  <2>6. CASE \/ AnsweredCommand(s)
             \/ OtherCommand(s)
             \/ \E k \in Names : PlayCommand(s, k) \/ PublishCommand(s, k)
    BY <2>6, CommandsStep
  <2>7. CASE \E kind \in MediaKinds : MediaMessage(s, kind)
    BY <2>7, MediaStep
  <2> QED
    BY <2>1, <2>2, <2>3, <2>4, <2>5, <2>6, <2>7 DEF SessionStep
<1>2. CASE OnCheckAlive
  BY <1>2, CheckAliveStep
<1>3. CASE Finished \/ UNCHANGED vars
  BY <1>3, StutterStep DEF Finished
<1> QED
  BY <1>1, <1>2, <1>3 DEF Next

-----------------------------------------------------------------------------
(***************************************************************************)
(* The type invariant, for any number of sessions, keys and packets.       *)
(***************************************************************************)
THEOREM TypeCorrect == Spec => []TypeOK
<1>1. IInv => TypeOK
  BY StreamsInvImplies DEF IInv, Typed, TypeOK
<1> QED
  BY <1>1, IInvInit, IInvNext, PTL DEF Spec

(***************************************************************************)
(* Every stream in media_streams_map_ is played or published by an open    *)
(* session, but for stray media and keys that a session left: the flag is  *)
(* backed by a publisher and each writer by a player.                      *)
(***************************************************************************)
THEOREM NoOrphanStreamHolds == Spec => []NoOrphanStream
<1>1. ASSUME IInv PROVE NoOrphanStream
  <2> SUFFICES ASSUME NEW k \in Keys, streams[k].live, k \notin stray, ~Abandoned(k)
               PROVE  \E s \in Sessions : IsOpen(s) /\ sess[s].ready /\ sess[s].key = k
    BY DEF NoOrphanStream
  <2>1. streams[k].writer_map \subseteq Sessions
    BY <1>1, SessionsAssumption DEF IInv, StreamsInv, StreamMap, Stream
  <2>2. streams[k].publisher_exist \/ streams[k].writer_map # {}
    BY <1>1 DEF IInv, StreamsInv, Used
  <2>3. CASE streams[k].publisher_exist
    BY <1>1, <2>3 DEF IInv, PublisherFlagIsBacked, Abandoned, IsPublishing
  <2>4. CASE streams[k].writer_map # {}
    BY <1>1, <2>1, <2>4 DEF IInv, WriterHasSession, IsPlaying, Abandoned
  <2> QED
    BY <2>2, <2>3, <2>4
<1> QED
  BY <1>1, IInvInit, IInvNext, PTL DEF Spec

(***************************************************************************)
(* The raw pointers in writer_map_ are backed by open, playing sessions,   *)
(* but for those under a key their session left.                           *)
(***************************************************************************)
THEOREM WriterHasSessionHolds == Spec => []WriterHasSession
<1>1. IInv => WriterHasSession
  BY DEF IInv
<1> QED
  BY <1>1, IInvInit, IInvNext, PTL DEF Spec

(***************************************************************************)
(* A playing session stays registered whoever else publishes or leaves.    *)
(***************************************************************************)
THEOREM PlayerIsRegisteredHolds == Spec => []PlayerIsRegistered
<1>1. IInv => PlayerIsRegistered
  BY DEF IInv
<1> QED
  BY <1>1, IInvInit, IInvNext, PTL DEF Spec

(***************************************************************************)
(* publisher_exist_ is backed by an open publisher, or by media that came  *)
(* from elsewhere, or a session left that key for another request.         *)
(***************************************************************************)
THEOREM PublisherFlagIsBackedHolds == Spec => []PublisherFlagIsBacked
<1>1. IInv => PublisherFlagIsBacked
  BY DEF IInv
<1> QED
  BY <1>1, IInvInit, IInvNext, PTL DEF Spec

(***************************************************************************)
(* What a player got is exactly the last part of what was published,       *)
(* whatever min_gop_ is and however gop_count_ wraps.                      *)
(***************************************************************************)
THEOREM RelayIsSuffixHolds == Spec => []RelayIsSuffix
<1>1. IInv => RelayIsSuffix
  BY StreamsInvImplies DEF IInv, RelayIsSuffix
<1> QED
  BY <1>1, IInvInit, IInvNext, PTL DEF Spec

(***************************************************************************)
(* A started player holds the headers in force.                            *)
(***************************************************************************)
THEOREM HeadersAreCurrentHolds == Spec => []HeadersAreCurrent
<1>1. IInv => HeadersAreCurrent
  BY StreamsInvImplies DEF IInv, HeadersAreCurrent
<1> QED
  BY <1>1, IInvInit, IInvNext, PTL DEF Spec

-----------------------------------------------------------------------------
(***************************************************************************)
(* Where a player starts.  The ids of the packets grow, the cached list    *)
(* starts with a key frame once there was one, and a player that has only  *)
(* got audio has missed no key frame.                                      *)
(***************************************************************************)
NoKey(p) == \A j \in 1 .. Len(p) : p[j].kind # "key"

OnlyAudio(f) == \A i \in 1 .. Len(f) : f[i].kind = "audio"

IdsUpTo(p, n) == \A j \in 1 .. Len(p) : p[j].id <= n

StartsWithKey(c, p) == NoKey(p) \/ (Len(c) > 0 /\ c[1].kind = "key")

StartIsRight(f, p) ==
  /\ OnlyAudio(f) => NoKey(p)
  /\ \A i \in FirstVideo(f) :
       \/ f[i].kind = "key"
       \/ \A j \in 1 .. Len(p) : p[j].kind = "key" => p[j].id > f[i].id

KeyInv(s, n) ==
  /\ IdsUpTo(s.published, n)
  /\ StartsWithKey(s.cache.packet_list, s.published)
  /\ \A w \in s.inited : StartIsRight(s.view[w].frames, s.published)

KeysInv == \A k \in Keys : KeyInv(streams[k], npackets)

LEMMA IdsAreNumbers ==
  ASSUME NEW p \in Seq(Frame), NEW j \in 1 .. Len(p)
  PROVE  p[j].id \in Nat
<1>1. p[j] \in Frame
  OBVIOUS
<1> QED
  BY <1>1 DEF Frame

LEMMA AppendIsRight ==
  ASSUME NEW f \in Seq(Frame), NEW p \in Seq(Frame), NEW q \in Frame, NEW n \in Nat,
         EndsWith(p, f), IdsUpTo(p, n), q.id = n + 1, StartIsRight(f, p)
  PROVE  StartIsRight(Append(f, q), Append(p, q))
<1> DEFINE fq == Append(f, q)
           pq == Append(p, q)
<1>1. /\ Len(fq) = Len(f) + 1 /\ Len(pq) = Len(p) + 1
      /\ fq[Len(f) + 1] = q /\ pq[Len(p) + 1] = q
      /\ \A i \in 1 .. Len(f) : fq[i] = f[i]
      /\ \A i \in 1 .. Len(p) : pq[i] = p[i]
      /\ Len(f) \in Nat /\ Len(p) \in Nat
  BY AppendProperties
<1> HIDE DEF fq, pq
<1>2. OnlyAudio(fq) => OnlyAudio(f) /\ q.kind = "audio"
  BY <1>1 DEF OnlyAudio
<1>3. NoKey(p) /\ q.kind # "key" => NoKey(pq)
  BY <1>1 DEF NoKey
<1>4. OnlyAudio(fq) => NoKey(pq)
  BY <1>2, <1>3 DEF StartIsRight
<1>5. ASSUME NEW i \in FirstVideo(fq), fq[i].kind # "key",
             NEW j \in 1 .. Len(pq), pq[j].kind = "key"
      PROVE  pq[j].id > fq[i].id
  <2>1. /\ i \in 1 .. Len(f) + 1 /\ fq[i].kind \in VideoFrameKinds
        /\ \A h \in 1 .. i - 1 : fq[h].kind = "audio"
    BY <1>1 DEF FirstVideo
  <2>2. CASE i = Len(f) + 1
    <3>1. OnlyAudio(f)
      BY <1>1, <2>1, <2>2 DEF OnlyAudio
    <3>2. NoKey(pq)
      BY <1>1, <1>3, <1>5, <2>2, <3>1 DEF StartIsRight
    <3> QED
      BY <1>5, <3>2 DEF NoKey
  <2>3. CASE i \in 1 .. Len(f)
    <3>1. fq[i] = f[i]
      BY <1>1, <2>3
    <3>2. i \in FirstVideo(f)
      BY <1>1, <2>1, <2>3 DEF FirstVideo
    <3>3. f[i] \in Frame /\ f[i].id \in Nat /\ f[i].id <= n
      <4>1. f[i] = p[Len(p) - Len(f) + i] /\ Len(p) - Len(f) + i \in 1 .. Len(p)
        BY <1>1, <2>3 DEF EndsWith
      <4>2. f[i].id \in Nat
        BY <2>3, IdsAreNumbers
      <4> QED
        BY <2>3, <4>1, <4>2 DEF IdsUpTo
    <3>4. CASE j = Len(p) + 1
      BY <1>1, <3>1, <3>3, <3>4
    <3>5. CASE j \in 1 .. Len(p)
      BY <1>1, <1>5, <3>1, <3>2, <3>5 DEF StartIsRight
    <3> QED
      BY <1>1, <3>4, <3>5
  <2> QED
    BY <1>1, <2>1, <2>2, <2>3
<1>6. StartIsRight(fq, pq)
  BY <1>4, <1>5 DEF StartIsRight
<1> QED
  BY <1>6 DEF fq, pq

LEMMA CachedStartIsRight ==
  ASSUME NEW c \in Seq(Frame), NEW p, StartsWithKey(c, p)
  PROVE  StartIsRight(c, p)
<1>1. CASE NoKey(p)
  BY <1>1 DEF StartIsRight, NoKey
<1>2. CASE Len(c) > 0 /\ c[1].kind = "key"
  <2>1. Len(c) \in Nat /\ 1 \in 1 .. Len(c)
    BY <1>2
  <2>2. ~OnlyAudio(c)
    BY <1>2, <2>1 DEF OnlyAudio
  <2>3. ASSUME NEW i \in FirstVideo(c) PROVE i = 1
    <3>1. i \in 1 .. Len(c) /\ \A h \in 1 .. i - 1 : c[h].kind = "audio"
      BY DEF FirstVideo
    <3>2. i > 1 => 1 \in 1 .. i - 1
      BY <2>1, <3>1
    <3> QED
      BY <1>2, <2>1, <3>1, <3>2
  <2> QED
    BY <1>2, <2>2, <2>3 DEF StartIsRight
<1> QED
  BY <1>1, <1>2 DEF StartsWithKey

(* With one GOP cached, a key frame empties the list before it goes in. *)
LEMMA InsertStartsWithKey ==
  ASSUME min_gop_ = 1, NEW c \in Cache, NEW p \in Seq(Frame), NEW q \in Packet,
         StartsWithKey(c.packet_list, p)
  PROVE  StartsWithKey(insert_packet(c, q).packet_list, PublishedAfter(p, q))
<1> DEFINE l == insert_packet(c, q).packet_list
           pq == PublishedAfter(p, q)
<1>1. c.packet_list \in Seq(Frame)
  BY DEF Cache
<1>2. CASE q.kind \in HeaderKinds
  <2>1. l = c.packet_list
    BY <1>2 DEF insert_packet, insert_header, HeaderKinds, Cache
  <2>2. pq = p
    BY <1>2 DEF PublishedAfter, HeaderKinds, FrameKinds
  <2> QED
    BY <2>1, <2>2
<1>3. CASE q.kind = "key"
  <2> DEFINE n == (c.gop_count + 1) % GopCountWrap
  <2>1. n \in Nat
    BY GopCountWrapAssumption DEF Cache
  <2> HIDE DEF n
  <2>2. n % min_gop_ = 0
    BY <2>1
  <2>3. insert_packet(c, q) = insert_key_frame(c, q)
    BY <1>3 DEF insert_packet, HeaderKinds
  <2>4. l = <<q>>
    BY <2>2, <2>3 DEF insert_key_frame, n, Cache
  <2> HIDE DEF l
  <2> QED
    BY <1>3, <2>4 DEF StartsWithKey, l
<1>4. CASE q.kind \in {"inter", "audio"}
  <2>1. q \in Frame
    BY <1>4 DEF Packet, Frame, FrameKinds
  <2>2. l = Append(c.packet_list, q)
    BY <1>4 DEF insert_packet, HeaderKinds, Cache
  <2>3. pq = Append(p, q)
    BY <1>4 DEF PublishedAfter, FrameKinds
  <2> HIDE DEF l, pq
  <2>4. NoKey(p) => NoKey(pq)
    BY <1>4, <2>1, <2>3, AppendProperties DEF NoKey
  <2>5. Len(c.packet_list) > 0 => Len(l) > 0 /\ l[1] = c.packet_list[1]
    BY <1>1, <2>1, <2>2, AppendProperties
  <2> QED
    BY <2>4, <2>5 DEF StartsWithKey, l, pq
<1> QED
  BY <1>2, <1>3, <1>4 DEF Packet, Kinds, FrameKinds

LEMMA KeptKeyInv ==
  ASSUME NEW s, NEW t, Kept(s, t), NEW n, KeyInv(s, n)
  PROVE  KeyInv(t, n)
<1>1. CASE t = NoStream
  <2>1. t.published = <<>> /\ t.inited = {}
    BY <1>1 DEF NoStream
  <2> QED
    BY <2>1 DEF KeyInv, IdsUpTo, StartsWithKey, NoKey
<1>2. CASE t.cache = s.cache /\ t.published = s.published
  BY <1>2 DEF Kept, KeyInv
<1> QED
  BY <1>1, <1>2 DEF Kept

LEMMA FedKeyInv ==
  ASSUME min_gop_ = 1, NEW s, StreamInv(s), NEW t, NEW q \in Packet, Fed(s, t, q),
         NEW n \in Nat, q.id = n + 1, KeyInv(s, n), t.inited \subseteq Writers
  PROVE  KeyInv(t, n + 1)
<1>1. /\ s.published \in Seq(Frame) /\ s.cache \in Cache
      /\ \A w \in Writers : s.view[w].frames \in Seq(Frame)
  BY DEF StreamInv, Stream, View
<1>2. t.published = PublishedAfter(s.published, q) /\ t.cache = insert_packet(s.cache, q)
  BY DEF Fed
<1>3. t.cache.packet_list \in Seq(Frame)
  BY <1>1, <1>2, InsertPacket DEF StreamInv, CacheIsSuffix, Cache
<1>4. StartsWithKey(t.cache.packet_list, t.published)
  BY <1>1, <1>2, InsertStartsWithKey DEF KeyInv
<1>5. IdsUpTo(t.published, n + 1)
  <2>1. ASSUME NEW j \in 1 .. Len(s.published)
        PROVE  s.published[j].id \in Nat /\ s.published[j].id <= n
    BY <1>1, IdsAreNumbers DEF KeyInv, IdsUpTo
  <2>2. CASE q.kind \in FrameKinds
    <3>1. t.published = Append(s.published, q) /\ q \in Frame
      BY <1>2, <2>2 DEF PublishedAfter, Packet, Frame
    <3> QED
      BY <1>1, <2>1, <3>1, AppendProperties DEF IdsUpTo
  <2>3. CASE q.kind \notin FrameKinds
    BY <1>2, <2>1, <2>3 DEF PublishedAfter, IdsUpTo
  <2> QED
    BY <2>2, <2>3
<1>6. ASSUME NEW w \in t.inited
      PROVE  StartIsRight(t.view[w].frames, t.published)
  <2>1. CASE w \notin s.inited
    <3>1. t.view[w].frames = t.cache.packet_list
      BY <2>1 DEF Fed
    <3> QED
      BY <1>3, <1>4, <3>1, CachedStartIsRight
  <2>2. CASE w \in s.inited
    <3>1. t.view[w].frames = PublishedAfter(s.view[w].frames, q)
      BY <2>2 DEF Fed
    <3>2. /\ EndsWith(s.published, s.view[w].frames) /\ IdsUpTo(s.published, n)
          /\ StartIsRight(s.view[w].frames, s.published)
      BY <2>2 DEF StreamInv, ViewIsSuffix, KeyInv
    <3>3. s.view[w].frames \in Seq(Frame)
      BY <1>1
    <3>4. CASE q.kind \in FrameKinds
      <4>1. q \in Frame
        BY <3>4 DEF Packet, Frame
      <4>2. StartIsRight(Append(s.view[w].frames, q), Append(s.published, q))
        BY <1>1, <3>2, <3>3, <4>1, AppendIsRight
      <4> QED
        BY <1>2, <3>1, <3>4, <4>2 DEF PublishedAfter
    <3>5. CASE q.kind \notin FrameKinds
      BY <1>2, <3>1, <3>2, <3>5 DEF PublishedAfter
    <3> QED
      BY <3>4, <3>5
  <2> QED
    BY <2>1, <2>2
<1> QED
  BY <1>4, <1>5, <1>6 DEF KeyInv

-----------------------------------------------------------------------------
(***************************************************************************)
(* What a step does to the streams: it keeps their contents, or it feeds   *)
(* the next packet to one of them.                                         *)
(***************************************************************************)
FeedsOne(k, q) ==
  /\ q.id = npackets + 1 /\ npackets' = npackets + 1
  /\ Fed(streams[k], streams'[k], q)
  /\ \A j \in Keys : j # k => streams'[j] = streams[j]

LEMMA CloseKeeps ==
  ASSUME IInv, NEW s \in Sessions, close(s)
  PROVE  AllKept(streams, streams')
<1>1. StreamsInv(streams) /\ s \in Writers /\ sess[s].key \in Keys
  BY SessionsAssumption DEF IInv, Typed, Session
<1>2. streams' \in {remove_player(streams, sess[s].key, s),
                   remove_publisher(streams, sess[s].key), streams}
  BY DEF close, close_streams
<1>3. AllKept(streams, streams)
  BY KeptSelf DEF AllKept
<1> QED
  BY <1>1, <1>2, <1>3, RemovePlayerKeeps, RemovePublisherKeeps

LEMMA CommandKeeps ==
  ASSUME IInv, NEW s \in Sessions, NEW r, r.key \in Keys, CommandDone(s, r)
  PROVE  AllKept(streams, streams')
<1>1. StreamsInv(streams) /\ s \in Writers
  BY SessionsAssumption DEF IInv
<1>2. streams' \in {add_player(streams, r.key, s), streams}
  BY DEF CommandDone
<1>3. AllKept(streams, streams)
  BY KeptSelf DEF AllKept
<1> QED
  BY <1>1, <1>2, <1>3, AddPlayerKeeps

LEMMA StreamChanges ==
  ASSUME IInv, [Next]_vars
  PROVE  \/ npackets' = npackets /\ AllKept(streams, streams')
         \/ \E k \in Keys, q \in Packet : FeedsOne(k, q)
<1>1. UNCHANGED streams => AllKept(streams, streams')
  BY KeptSelf DEF AllKept
<1>2. CASE \E s \in Sessions : SessionStep(s)
  <2>1. PICK s \in Sessions : SessionStep(s)
    BY <1>2
  <2>2. sess[s] \in Session /\ sess[s].key \in Keys /\ StreamsInv(streams) /\ npackets \in Nat
    BY DEF IInv, Typed, Session
  <2>3. CASE OnAccept(s) \/ HandleC2(s) \/ OnRead(s) \/ PartialMessage(s) \/ ControlMessage(s)
    BY <1>1, <2>3 DEF OnAccept, HandleC2, OnRead, PartialMessage, ControlMessage
  <2>4. CASE HandleC0C1(s)
    BY <1>1, <2>4, CloseKeeps DEF HandleC0C1
  <2>5. CASE OnReadError(s) \/ OnWriteError(s) \/ RejectedMessage(s) \/ CloseDead(s)
    BY <2>5, CloseKeeps DEF OnReadError, OnWriteError, RejectedMessage, CloseDead
  <2>6. CASE AnsweredCommand(s) \/ OtherCommand(s)
    <3>1. keep_alive(sess[s]).key \in Keys
      BY <2>2 DEF keep_alive, Session
    <3>2. PICK r \in {sess[s], keep_alive(sess[s])} : CommandDone(s, r)
      BY <2>6 DEF AnsweredCommand, OtherCommand
    <3> QED
      BY <2>2, <3>1, <3>2, CommandKeeps DEF CommandDone
  <2>7. CASE \E k \in Names : PlayCommand(s, k) \/ PublishCommand(s, k)
    <3>1. PICK k \in Names : PlayCommand(s, k) \/ PublishCommand(s, k)
      BY <2>7
    <3>2. PICK b \in BOOLEAN : CommandDone(s, bind_request(sess[s], k, b))
      BY <3>1 DEF PlayCommand, PublishCommand
    <3>3. bind_request(sess[s], k, b).key \in Keys
      BY <2>2, NamesAssumption DEF bind_request, keep_alive, Session
    <3> QED
      BY <3>2, <3>3, CommandKeeps DEF CommandDone
  <2>8. CASE \E kind \in MediaKinds : MediaMessage(s, kind)
    <3>1. PICK kind \in MediaKinds : MediaMessage(s, kind)
      BY <2>8
    <3> DEFINE k == sess[s].key
               q == [id |-> npackets + 1, kind |-> kind]
    <3>2. q \in Packet /\ q.id = npackets + 1
      BY <2>2, MediaKindsAssumption DEF Packet
    <3>3. npackets' = npackets + 1 /\ streams' = writer_media_packet(streams, k, q, {})
      BY <3>1 DEF MediaMessage
    <3>4. k \in Keys
      BY <2>2
    <3> HIDE DEF q, k
    <3>5. FeedsOne(k, q)
      BY <2>2, <3>2, <3>3, <3>4, WriterMediaPacketFeeds DEF FeedsOne
    <3> QED
      BY <3>2, <3>4, <3>5
  <2> QED
    BY <2>1, <2>3, <2>4, <2>5, <2>6, <2>7, <2>8 DEF SessionStep
<1>3. CASE OnCheckAlive \/ Finished \/ UNCHANGED vars
  BY <1>1, <1>3 DEF OnCheckAlive, Finished, vars
<1> QED
  BY <1>2, <1>3 DEF Next

LEMMA KeysInvNext ==
  ASSUME min_gop_ = 1, IInv, IInv', KeysInv, [Next]_vars
  PROVE  KeysInv'
<1>1. StreamsInv(streams) /\ StreamsInv(streams') /\ npackets \in Nat
  BY DEF IInv, Typed
<1>2. CASE npackets' = npackets /\ AllKept(streams, streams')
  BY <1>2, KeptKeyInv DEF AllKept, KeysInv
<1>3. CASE \E k \in Keys, q \in Packet : FeedsOne(k, q)
  <2>1. PICK k \in Keys, q \in Packet : FeedsOne(k, q)
    BY <1>3
  <2>2. KeyInv(streams[k], npackets) /\ StreamInv(streams[k])
    BY <1>1 DEF KeysInv, StreamsInv
  <2>3. streams'[k].inited \subseteq Writers
    BY <1>1 DEF StreamsInv, StreamMap, Stream
  <2>4. KeyInv(streams'[k], npackets + 1)
    BY <1>1, <2>1, <2>2, <2>3, FedKeyInv DEF FeedsOne
  <2>5. ASSUME NEW j \in Keys, j # k
        PROVE  KeyInv(streams'[j], npackets + 1)
    <3>1. KeyInv(streams[j], npackets) /\ streams'[j] = streams[j]
      BY <2>1, <2>5 DEF KeysInv, FeedsOne
    <3>2. streams[j].published \in Seq(Frame)
      BY <1>1 DEF StreamsInv, StreamMap, Stream
    <3>3. \A i \in 1 .. Len(streams[j].published) : streams[j].published[i].id \in Nat
      BY <3>2, IdsAreNumbers
    <3>4. IdsUpTo(streams[j].published, npackets + 1)
      BY <1>1, <3>1, <3>3 DEF KeyInv, IdsUpTo
    <3> QED
      BY <3>1, <3>4 DEF KeyInv
  <2>6. npackets' = npackets + 1
    BY <2>1 DEF FeedsOne
  <2> QED
    BY <2>4, <2>5, <2>6 DEF KeysInv
<1> QED
  BY <1>2, <1>3, StreamChanges

(***************************************************************************)
(* With one GOP cached, as every caller of gop_cache has it, a player's    *)
(* first video frame is a key frame whenever one had been published.       *)
(***************************************************************************)
THEOREM StartsAtKeyFrameHolds ==
  ASSUME min_gop_ = 1
  PROVE  Spec => []StartsAtKeyFrame
<1>1. Init => KeysInv
  BY DEF Init, NoStream, EmptyCache, KeysInv, KeyInv, IdsUpTo, StartsWithKey, NoKey
<1>2. KeysInv => StartsAtKeyFrame
  BY DEF KeysInv, KeyInv, StartIsRight, StartsAtKeyFrame
<1>3. IInv /\ IInv' /\ KeysInv /\ [Next]_vars => KeysInv'
  BY KeysInvNext
<1> QED
  BY <1>1, <1>2, <1>3, IInvInit, IInvNext, PTL DEF Spec

(***************************************************************************)
(* No step gives a player video frames without a video header once the     *)
(* stream has one, for any number of GOPs in the cache.                    *)
(***************************************************************************)
THEOREM NoBareFrameHolds == Spec => NoBareFrame
<1> DEFINE Step == \A k \in Keys, w \in Sessions :
                     streams'[k].view[w].bare \subseteq streams[k].view[w].bare
                       \/ streams'[k].cache.video_hdr = 0
<1>1. ASSUME IInv, [Next]_vars PROVE Step
  <2> SUFFICES ASSUME NEW k \in Keys, NEW w \in Sessions
               PROVE  \/ streams'[k].view[w].bare \subseteq streams[k].view[w].bare
                      \/ streams'[k].cache.video_hdr = 0
    OBVIOUS
  <2>1. w \in Writers
    BY SessionsAssumption
  <2>2. CASE AllKept(streams, streams')
    <3>1. streams'[k].view[w] \in {streams[k].view[w], EmptyView}
      BY <2>1, <2>2 DEF AllKept, Kept
    <3>2. EmptyView.bare = {}
      BY DEF EmptyView
    <3> QED
      BY <3>1, <3>2
  <2>3. CASE \E j \in Keys, q \in Packet : FeedsOne(j, q)
    <3>1. PICK j \in Keys, q \in Packet : FeedsOne(j, q)
      BY <2>3
    <3>2. CASE j = k
      BY <2>1, <3>1, <3>2 DEF FeedsOne, Fed
    <3>3. CASE j # k
      BY <3>1, <3>3 DEF FeedsOne
    <3> QED
      BY <3>2, <3>3
  <2> QED
    BY <1>1, <2>2, <2>3, StreamChanges
<1>2. IInv /\ [Next]_vars => [Step]_vars
  BY <1>1
<1> QED
  BY <1>2, IInvInit, IInvNext, PTL DEF Spec, NoBareFrame
=============================================================================
