------------------------- MODULE WebrtcSessionProofs -------------------------
(***************************************************************************)
(* Proofs about the media side of a peer connection, for any number of     *)
(* sessions, peers and addresses.  The inductive invariant has three       *)
(* parts: what holds of one session's record (Sound), what ties the two    *)
(* tables and the sessions together (Bound), and that a received datagram  *)
(* always has an endpoint (EndpointKnown).                                 *)
(***************************************************************************)
EXTENDS WebrtcSession, SequenceTheorems, TLAPS

(***************************************************************************)
(* SRTP keys are those of the peer of the offer and come with an address   *)
(* to send to; a connected handshake would pass process_handshake again,   *)
(* which check_status calls on every later record.                         *)
(***************************************************************************)
KeysAreAuthentic(x) == x.srtp # None => x.srtp = x.finger /\ x.remote # None

HandshakeStands(x) ==
  x.dtls = "connected" =>
    /\ x.ssl_step = 2
    /\ check_remote_fingerprint(x)
    /\ get_srtp_crypto_suite(x)

Unused(x) == x.remote = None /\ x.dtls = "new" /\ x.srtp = None

Sound(x) ==
  /\ x \in Session
  /\ KeysAreAuthentic(x)
  /\ HandshakeStands(x)
  /\ x.obj = "live" => x.finger # None
  /\ x.obj # "live" => Unused(x)

SessionsSound == session \in [Sessions -> Session] /\ \A s \in Sessions : Sound(session[s])

(* The tables hold live sessions only, and find every session that has an address. *)
Bound == MapIsLive /\ RemoteIsBound

EndpointKnown == recv # NoDatagram => remote_ep_ # None

AcceptedOfMade == \A s \in Sessions, p \in Peers :
  <<s, p>> \in accepted => session[s].obj # "none"

IInv ==
  /\ TypeOK
  /\ SessionsSound
  /\ Bound
  /\ EndpointKnown
  /\ AcceptedOfMade
  /\ AcceptedMediaIsAuthentic

(* What ConnectedStays says of one step. *)
StaysConnected ==
  \A s \in Sessions : session[s].dtls = "connected" /\ Live(s)'
    => session'[s].dtls = "connected"

-----------------------------------------------------------------------------
(* What the handlers do to one session's record. *)

(* A datagram that moves the session to its address keeps the record sound. *)
LEMMA MovedSound ==
  ASSUME NEW x \in Session, Sound(x), x.obj = "live", NEW a \in Addrs
  PROVE  LET y == [x EXCEPT !.remote = a]
         IN  /\ Sound(y)
             /\ y.obj = "live" /\ y.finger = x.finger /\ y.remote = a
             /\ y.dtls = x.dtls
  BY NoneAssumption DEF Sound, Session, KeysAreAuthentic, HandshakeStands, Unused,
     check_remote_fingerprint, get_srtp_crypto_suite

(* So does the start of the DTLS server, which leaves one that runs alone. *)
LEMMA StartSound ==
  ASSUME NEW x \in Session, Sound(x), x.obj = "live"
  PROVE  /\ Sound(start(x))
         /\ start(x).obj = "live" /\ start(x).finger = x.finger
         /\ start(x).remote = x.remote
         /\ x.dtls = "connected" => start(x).dtls = "connected"
  BY DEF start, Sound, Session, KeysAreAuthentic, HandshakeStands, Unused,
     check_remote_fingerprint, get_srtp_crypto_suite

(* OpenSSL's step: no record disturbs a handshake that is done. *)
LEMMA SslReadSound ==
  ASSUME NEW x \in Session, Sound(x), x.obj = "live", NEW d \in Dtls
  PROVE  /\ Sound(ssl_read(x, d))
         /\ ssl_read(x, d).obj = "live" /\ ssl_read(x, d).finger = x.finger
         /\ ssl_read(x, d).remote = x.remote /\ ssl_read(x, d).dtls = x.dtls
<1>1. CASE d.step = 1 /\ x.ssl_step = 0
  <2> DEFINE y == [x EXCEPT !.ssl_peer = d.peer]
             z == [y EXCEPT !.ssl_step = 1]
  <2>1. ssl_read(x, d) = z
    BY <1>1 DEF ssl_read
  <2>2. x.dtls # "connected"
    BY <1>1 DEF Sound, HandshakeStands
  <2>3. /\ y \in Session
        /\ y.obj = x.obj /\ y.finger = x.finger
        /\ y.remote = x.remote /\ y.dtls = x.dtls /\ y.srtp = x.srtp
    BY DEF Session, Dtls
  <2> HIDE DEF y
  <2>4. /\ z \in Session
        /\ z.obj = y.obj /\ z.finger = y.finger
        /\ z.remote = y.remote /\ z.dtls = y.dtls /\ z.srtp = y.srtp
    BY <2>3 DEF Session
  <2> HIDE DEF z
  <2> QED
    BY <2>1, <2>2, <2>3, <2>4 DEF Sound, KeysAreAuthentic, HandshakeStands, Unused
<1>2. CASE d.step = 2 /\ x.ssl_step = 1 /\ x.ssl_peer = d.peer
  BY <1>2 DEF ssl_read, Sound, Session, KeysAreAuthentic, HandshakeStands, Unused,
     check_remote_fingerprint, get_srtp_crypto_suite
<1>3. CASE /\ ~(d.step = 1 /\ x.ssl_step = 0)
           /\ ~(d.step = 2 /\ x.ssl_step = 1 /\ x.ssl_peer = d.peer)
  BY <1>3 DEF ssl_read
<1> QED
  BY <1>1, <1>2, <1>3

(* The keys are made anew on every record, and are the right ones each time. *)
LEMMA CheckStatusSound ==
  ASSUME NEW x \in Session, Sound(x), x.obj = "live", x.remote # None
  PROVE  /\ Sound(check_status(x))
         /\ check_status(x).obj = "live" /\ check_status(x).finger = x.finger
         /\ check_status(x).remote = x.remote
         /\ x.dtls = "connected" => check_status(x).dtls = "connected"
  BY DEF check_status, process_handshake, Sound, Session, KeysAreAuthentic,
     HandshakeStands, Unused, check_remote_fingerprint, get_srtp_crypto_suite

(* A DTLS record, from its arrival to the end of check_status. *)
LEMMA DtlsDataSound ==
  ASSUME NEW x \in Session, Sound(x), x.obj = "live", x.remote # None, NEW d \in Dtls
  PROVE  LET y == handle_dtls_data(x, d)
         IN  /\ Sound(y)
             /\ y.obj = "live" /\ y.finger = x.finger /\ y.remote = x.remote
             /\ x.dtls = "connected" => y.dtls = "connected"
<1> DEFINE r == ssl_read(x, d)
<1>1. /\ Sound(r)
      /\ r.obj = "live" /\ r.finger = x.finger
      /\ r.remote = x.remote /\ r.dtls = x.dtls
  BY SslReadSound
<1> HIDE DEF r
<1>2. /\ Sound(check_status(r))
      /\ check_status(r).obj = "live" /\ check_status(r).finger = r.finger
      /\ check_status(r).remote = r.remote
      /\ r.dtls = "connected" => check_status(r).dtls = "connected"
  BY <1>1, CheckStatusSound DEF Sound
<1> QED
  BY <1>1, <1>2 DEF handle_dtls_data, r

-----------------------------------------------------------------------------
(* do_write: the endpoint it leaves is one the server sends to or had before. *)
LEMMA WriteKeeps ==
  ASSUME TypeOK, NEW dsts \in Seq(Addrs), write(dsts)
  PROVE  /\ send_buffer_queue_' \in Seq(Addrs)
         /\ remote_ep_' \in Addrs \cup {None}
         /\ remote_ep_ # None => remote_ep_' # None
<1>1. send_buffer_queue_' \in Seq(Addrs)
  BY DEF TypeOK, write
<1>2. CASE send_buffer_queue_ = <<>> /\ dsts # <<>>
  <2>1. dsts[1] \in Addrs
    BY <1>2
  <2> QED
    BY <1>1, <1>2, <2>1, NoneAssumption DEF write
<1>3. CASE ~(send_buffer_queue_ = <<>> /\ dsts # <<>>)
  BY <1>1, <1>3 DEF write, TypeOK
<1> QED
  BY <1>2, <1>3

(* The answers to one STUN packet all go to its address. *)
LEMMA AnswersAreAddrs ==
  ASSUME NEW d, NEW a \in Addrs
  PROVE  [i \in 1 .. answers(d) |-> a] \in Seq(Addrs)
<1>1. answers(d) \in Nat
  BY DEF answers
<1> QED
  BY <1>1

(***************************************************************************)
(* The tables after a session's record is replaced by one that has the     *)
(* address a or the one it had before, where a finds this session.         *)
(***************************************************************************)
LEMMA BindKeeps ==
  ASSUME IInv, NEW s \in Sessions, NEW a \in Addrs, Live(s),
         NEW y, Sound(y), y.obj = "live", y.finger = session[s].finger,
         y.remote \in {a, session[s].remote},
         session[s].dtls = "connected" => y.dtls = "connected",
         session' = [session EXCEPT ![s] = y],
         addrmap[a] \in {s, None}, addrmap' = [addrmap EXCEPT ![a] = s],
         ufrags' = ufrags, accepted' = accepted
  PROVE  /\ SessionsSound' /\ Bound' /\ AcceptedOfMade' /\ AcceptedMediaIsAuthentic'
         /\ addrmap' \in [Addrs -> Sessions \cup {None}]
         /\ StaysConnected
<1>1. /\ session' \in [Sessions -> Session]
      /\ session'[s] = y
      /\ \A t \in Sessions : t # s => session'[t] = session[t]
      /\ \A t \in Sessions : session'[t].obj = session[t].obj
      /\ \A t \in Sessions : session'[t].finger = session[t].finger
      /\ \A t \in Sessions : Sound(session[t])
  BY DEF IInv, SessionsSound, Sound, Live
<1>2. SessionsSound' /\ StaysConnected
  BY <1>1 DEF SessionsSound, StaysConnected
<1>3. /\ addrmap' \in [Addrs -> Sessions \cup {None}]
      /\ addrmap'[a] = s
      /\ \A b \in Addrs : b # a => addrmap'[b] = addrmap[b]
  BY DEF IInv, TypeOK
<1>4. MapIsLive'
  BY <1>1, <1>3 DEF IInv, Bound, MapIsLive, Live, TypeOK
<1>5. ASSUME NEW t \in Sessions, Live(t), session[t].remote # None
      PROVE  addrmap'[session[t].remote] = t
  <2>1. session[t].remote \in Addrs /\ addrmap[session[t].remote] = t
    BY <1>1, <1>5 DEF IInv, Bound, RemoteIsBound, Sound, Session
  <2> QED
    BY <1>3, <2>1, NoneAssumption
<1>6. RemoteIsBound'
  <2> SUFFICES ASSUME NEW t \in Sessions, Live(t)'
               PROVE  /\ session'[t].remote # None => addrmap'[session'[t].remote] = t
                      /\ session'[t].srtp # None => session'[t].remote # None
    BY DEF RemoteIsBound
  <2>1. Live(t)
    BY <1>1 DEF Live
  <2>2. CASE t = s
    BY <1>1, <1>3, <1>5, <2>1, <2>2 DEF Sound, KeysAreAuthentic
  <2>3. CASE t # s
    BY <1>1, <1>5, <2>1, <2>3 DEF Sound, KeysAreAuthentic
  <2> QED
    BY <2>2, <2>3
<1>7. AcceptedOfMade' /\ AcceptedMediaIsAuthentic'
  BY <1>1 DEF IInv, AcceptedOfMade, AcceptedMediaIsAuthentic, Live
<1> QED
  BY <1>2, <1>3, <1>4, <1>6, <1>7 DEF Bound

-----------------------------------------------------------------------------
(* The handlers of a datagram. *)

LEMMA StunStep ==
  ASSUME IInv, NEW s \in Sessions, NEW d \in Stun, NEW a \in Addrs, Live(s),
         on_handle_stun_packet(s, d, a), recv' = NoDatagram,
         addrmap[a] \in {s, None}, addrmap' = [addrmap EXCEPT ![a] = s],
         ufrags' = ufrags
  PROVE  IInv' /\ StaysConnected
<1> DEFINE x == session[s]
           moved == [x EXCEPT !.remote = a]
           y == IF binding_ok(s, d) THEN start(moved) ELSE x
<1>1. x \in Session /\ Sound(x) /\ x.obj = "live"
  BY DEF IInv, SessionsSound, Live
<1> HIDE DEF x
<1>2. /\ Sound(moved)
      /\ moved.obj = "live" /\ moved.finger = x.finger /\ moved.remote = a
      /\ moved.dtls = x.dtls
  BY <1>1, MovedSound
<1> HIDE DEF moved
<1>3. /\ Sound(start(moved))
      /\ start(moved).obj = "live" /\ start(moved).finger = x.finger
      /\ start(moved).remote = a
      /\ x.dtls = "connected" => start(moved).dtls = "connected"
  BY <1>2, StartSound DEF Sound
<1>4. /\ Sound(y) /\ y.obj = "live" /\ y.finger = x.finger
      /\ y.remote \in {a, x.remote}
      /\ x.dtls = "connected" => y.dtls = "connected"
  BY <1>1, <1>3
<1>5. session' = [session EXCEPT ![s] = y] /\ accepted' = accepted
  BY DEF on_handle_stun_packet, x, moved, IInv, TypeOK
<1> HIDE DEF y
<1>6. /\ SessionsSound' /\ Bound' /\ AcceptedOfMade' /\ AcceptedMediaIsAuthentic'
      /\ addrmap' \in [Addrs -> Sessions \cup {None}]
      /\ StaysConnected
  BY <1>4, <1>5, BindKeeps DEF x
<1>7. /\ send_buffer_queue_' \in Seq(Addrs)
      /\ remote_ep_' \in Addrs \cup {None}
  BY AnswersAreAddrs, WriteKeeps DEF IInv, on_handle_stun_packet
<1>8. TypeOK' /\ EndpointKnown'
  BY <1>5, <1>6, <1>7 DEF IInv, TypeOK, EndpointKnown, SessionsSound
<1> QED
  BY <1>6, <1>8 DEF IInv

LEMMA DtlsStep ==
  ASSUME IInv, NEW s \in Sessions, NEW d \in Dtls, NEW a \in Addrs, Live(s),
         on_handle_dtls_data(s, d, a), recv' = NoDatagram,
         addrmap[a] = s, addrmap' = addrmap, ufrags' = ufrags
  PROVE  IInv' /\ StaysConnected
<1> DEFINE x == session[s]
           moved == [x EXCEPT !.remote = a]
           next == handle_dtls_data(moved, d)
<1>1. x \in Session /\ Sound(x) /\ x.obj = "live"
  BY DEF IInv, SessionsSound, Live
<1>2. /\ accepted' = accepted
      /\ \/ session' = [session EXCEPT ![s] = moved]
         \/ session' = [session EXCEPT ![s] = next]
      /\ write(<<>>) \/ write(<<a>>)
  BY DEF on_handle_dtls_data
<1> HIDE DEF x
<1>3. /\ Sound(moved)
      /\ moved.obj = "live" /\ moved.finger = x.finger /\ moved.remote = a
      /\ moved.dtls = x.dtls
  BY <1>1, MovedSound
<1> HIDE DEF moved
<1>4. /\ Sound(next)
      /\ next.obj = "live" /\ next.finger = x.finger /\ next.remote = a
      /\ x.dtls = "connected" => next.dtls = "connected"
  BY <1>3, DtlsDataSound, NoneAssumption DEF Sound
<1> HIDE DEF next
<1>5. PICK y : /\ y \in {moved, next}
               /\ session' = [session EXCEPT ![s] = y]
  BY <1>2
<1>6. /\ Sound(y) /\ y.obj = "live" /\ y.finger = x.finger /\ y.remote = a
      /\ x.dtls = "connected" => y.dtls = "connected"
  BY <1>3, <1>4, <1>5
<1>7. addrmap' = [addrmap EXCEPT ![a] = s]
  BY DEF IInv, TypeOK
<1>8. /\ SessionsSound' /\ Bound' /\ AcceptedOfMade' /\ AcceptedMediaIsAuthentic'
      /\ addrmap' \in [Addrs -> Sessions \cup {None}]
      /\ StaysConnected
  BY <1>2, <1>5, <1>6, <1>7, BindKeeps DEF x
<1>9. <<>> \in Seq(Addrs) /\ <<a>> \in Seq(Addrs)
  OBVIOUS
<1>10. /\ send_buffer_queue_' \in Seq(Addrs)
       /\ remote_ep_' \in Addrs \cup {None}
  BY <1>2, <1>9, WriteKeeps DEF IInv
<1>11. TypeOK' /\ EndpointKnown'
  BY <1>2, <1>8, <1>10 DEF IInv, TypeOK, EndpointKnown, SessionsSound
<1> QED
  BY <1>8, <1>11 DEF IInv

LEMMA MediaStep ==
  ASSUME IInv, NEW s \in Sessions, NEW d \in Media, Live(s),
         on_handle_media(s, d), recv' = NoDatagram, addrmap' = addrmap, ufrags' = ufrags
  PROVE  IInv' /\ StaysConnected
<1>1. /\ session' = session
      /\ remote_ep_' = remote_ep_ /\ send_buffer_queue_' = send_buffer_queue_
  BY DEF on_handle_media, udp_vars
<1>2. \/ accepted' = accepted
      \/ /\ d.peer \in Peers
         /\ session[s].finger = d.peer
         /\ accepted' = accepted \cup {<<s, d.peer>>}
  BY NoneAssumption DEF on_handle_media, decrypts, Media, IInv, SessionsSound, Sound,
     KeysAreAuthentic
<1>3. TypeOK' /\ EndpointKnown'
  BY <1>1, <1>2 DEF IInv, TypeOK, EndpointKnown
<1>4. SessionsSound' /\ Bound' /\ StaysConnected
  BY <1>1 DEF IInv, SessionsSound, Bound, MapIsLive, RemoteIsBound, Live, StaysConnected
<1>5. AcceptedOfMade' /\ AcceptedMediaIsAuthentic'
  BY <1>1, <1>2 DEF IInv, AcceptedOfMade, AcceptedMediaIsAuthentic, Live
<1> QED
  BY <1>3, <1>4, <1>5 DEF IInv

(* The datagram being handled is one of the three kinds, from a known address. *)
LEMMA ReceivedDatagram ==
  ASSUME IInv, recv # NoDatagram
  PROVE  /\ remote_ep_ \in Addrs
         /\ recv \in Stun \cup Dtls \cup Media
         /\ recv.kind = "stun" => recv \in Stun
         /\ recv.kind = "dtls" => recv \in Dtls
         /\ recv.kind = "media" => recv \in Media
  BY DEF IInv, TypeOK, EndpointKnown, Datagrams, Stun, Dtls, Media

LEMMA OnReadKnownStep ==
  ASSUME IInv, OnReadKnown
  PROVE  IInv' /\ StaysConnected
<1> DEFINE a == remote_ep_
           s == addrmap[a]
<1>1. /\ recv # NoDatagram /\ s # None
      /\ on_recv_packet(s, recv, a)
      /\ recv' = NoDatagram /\ ufrags' = ufrags /\ addrmap' = addrmap
  BY DEF OnReadKnown
<1>2. /\ a \in Addrs
      /\ recv.kind = "stun" => recv \in Stun
      /\ recv.kind = "dtls" => recv \in Dtls
      /\ recv.kind = "media" => recv \in Media
  BY <1>1, ReceivedDatagram
<1>3. s \in Sessions /\ Live(s)
  BY <1>1, <1>2 DEF IInv, TypeOK, Bound, MapIsLive
<1>4. addrmap' = [addrmap EXCEPT ![a] = s]
  BY <1>1 DEF IInv, TypeOK
<1>5. addrmap[a] = s
  OBVIOUS
<1> HIDE DEF a, s
<1>6. CASE recv.kind = "stun" /\ on_handle_stun_packet(s, recv, a)
  BY <1>1, <1>2, <1>3, <1>4, <1>5, <1>6, StunStep
<1>7. CASE recv.kind = "dtls" /\ on_handle_dtls_data(s, recv, a)
  BY <1>1, <1>2, <1>3, <1>5, <1>7, DtlsStep
<1>8. CASE recv.kind = "media" /\ on_handle_media(s, recv)
  BY <1>1, <1>2, <1>3, <1>8, MediaStep
<1> QED
  BY <1>1, <1>6, <1>7, <1>8 DEF on_recv_packet

LEMMA OnReadFirstStunStep ==
  ASSUME IInv, OnReadFirstStun
  PROVE  IInv' /\ StaysConnected
<1> DEFINE a == remote_ep_
           s == recv.user
<1>1. /\ recv # NoDatagram /\ recv.kind = "stun" /\ addrmap[a] = None
      /\ s \in ufrags
      /\ addrmap' = [addrmap EXCEPT ![a] = s]
      /\ on_handle_stun_packet(s, recv, a)
      /\ recv' = NoDatagram /\ ufrags' = ufrags
  BY DEF OnReadFirstStun
<1>2. a \in Addrs /\ recv \in Stun
  BY <1>1, ReceivedDatagram
<1>3. s \in Sessions /\ Live(s)
  BY <1>1 DEF IInv, TypeOK, Bound, MapIsLive
<1> HIDE DEF a, s
<1> QED
  BY <1>1, <1>2, <1>3, StunStep

(***************************************************************************)
(* The steps that leave the sessions, the tables and what was accepted     *)
(* alone.                                                                  *)
(***************************************************************************)
LEMMA UdpStep ==
  ASSUME IInv, session' = session, ufrags' = ufrags, addrmap' = addrmap,
         accepted' = accepted,
         send_buffer_queue_' \in Seq(Addrs),
         remote_ep_' \in Addrs \cup {None},
         recv' \in Datagrams \cup {NoDatagram},
         recv' # NoDatagram => remote_ep_' # None
  PROVE  IInv' /\ StaysConnected
<1>1. TypeOK' /\ EndpointKnown'
  BY DEF IInv, TypeOK, EndpointKnown
<1>2. SessionsSound' /\ Bound' /\ AcceptedOfMade' /\ AcceptedMediaIsAuthentic'
      /\ StaysConnected
  BY DEF IInv, SessionsSound, Bound, MapIsLive, RemoteIsBound, Live, AcceptedOfMade,
     AcceptedMediaIsAuthentic, StaysConnected
<1> QED
  BY <1>1, <1>2 DEF IInv

LEMMA OnReadUnknownStep ==
  ASSUME IInv, OnReadUnknown
  PROVE  IInv' /\ StaysConnected
<1>1. /\ recv' = NoDatagram
      /\ UNCHANGED <<session, ufrags, addrmap, accepted, remote_ep_, send_buffer_queue_>>
  BY DEF OnReadUnknown, udp_vars
<1>2. /\ remote_ep_ \in Addrs \cup {None}
      /\ send_buffer_queue_ \in Seq(Addrs)
  BY DEF IInv, TypeOK
<1> QED
  BY <1>1, <1>2, UdpStep

LEMMA ReceiveStep ==
  ASSUME IInv, NEW d \in Datagrams, NEW a \in From[d.peer], Receive(a, d)
  PROVE  IInv' /\ StaysConnected
<1>1. d.peer \in Peers
  BY DEF Datagrams, Stun, Dtls, Media
<1>2. a \in Addrs
  BY <1>1, FromAssumption
<1>3. /\ recv' = d /\ remote_ep_' = a
      /\ UNCHANGED <<session, ufrags, addrmap, accepted, send_buffer_queue_>>
  BY DEF Receive
<1>4. send_buffer_queue_ \in Seq(Addrs)
  BY DEF IInv, TypeOK
<1> QED
  BY <1>2, <1>3, <1>4, NoneAssumption, UdpStep

LEMMA OnSentStep ==
  ASSUME IInv, OnSent
  PROVE  IInv' /\ StaysConnected
<1> DEFINE q == send_buffer_queue_
<1>1. /\ q \in Seq(Addrs) /\ remote_ep_ \in Addrs \cup {None}
      /\ recv \in Datagrams \cup {NoDatagram}
      /\ recv # NoDatagram => remote_ep_ # None
  BY DEF IInv, TypeOK, EndpointKnown
<1>2. /\ q # <<>> /\ q' = Tail(q)
      /\ remote_ep_' = IF Tail(q) = <<>> THEN remote_ep_ ELSE Head(Tail(q))
      /\ UNCHANGED <<session, ufrags, addrmap, recv, accepted>>
  BY DEF OnSent
<1>3. Tail(q) \in Seq(Addrs)
  BY <1>1, <1>2
<1>4. Tail(q) # <<>> => Head(Tail(q)) \in Addrs
  BY <1>3
<1>5. /\ remote_ep_' \in Addrs \cup {None}
      /\ remote_ep_ # None => remote_ep_' # None
  BY <1>1, <1>2, <1>4, NoneAssumption
<1> QED
  BY <1>1, <1>2, <1>3, <1>5, UdpStep

(* There are SRTP keys only when there is an address to send to. *)
LEMMA SendMediaStep ==
  ASSUME IInv, NEW s \in Sessions, SendMedia(s)
  PROVE  IInv' /\ StaysConnected
<1>1. session[s].remote \in Addrs
  BY DEF SendMedia, IInv, SessionsSound, Sound, Session, KeysAreAuthentic
<1>2. <<session[s].remote>> \in Seq(Addrs)
  BY <1>1
<1>3. /\ send_buffer_queue_' \in Seq(Addrs)
      /\ remote_ep_' \in Addrs \cup {None}
      /\ remote_ep_ # None => remote_ep_' # None
  BY <1>2, WriteKeeps DEF SendMedia, IInv
<1>4. UNCHANGED <<session, ufrags, addrmap, recv, accepted>>
  BY DEF SendMedia
<1>5. /\ recv \in Datagrams \cup {NoDatagram}
      /\ recv # NoDatagram => remote_ep_ # None
  BY DEF IInv, TypeOK, EndpointKnown
<1> QED
  BY <1>3, <1>4, <1>5, UdpStep

-----------------------------------------------------------------------------
(* Making and closing a session. *)

LEMMA ConstructStep ==
  ASSUME IInv, NEW s \in Sessions, NEW p \in Peers, Construct(s, p)
  PROVE  IInv' /\ StaysConnected
<1> DEFINE x == session[s]
           y == [[x EXCEPT !.obj = "live"] EXCEPT !.finger = p]
<1>1. /\ x.obj = "none"
      /\ session' = [session EXCEPT ![s] = y]
      /\ ufrags' = ufrags \cup {s}
      /\ UNCHANGED <<addrmap, remote_ep_, send_buffer_queue_, recv, accepted>>
  BY DEF Construct, udp_vars, IInv, TypeOK, Session
<1>2. x \in Session /\ Sound(x)
  BY DEF IInv, SessionsSound
<1> HIDE DEF x
<1>3. /\ y \in Session /\ y.obj = "live" /\ y.finger = p /\ y.remote = None
      /\ y.dtls = "new" /\ y.srtp = None
  BY <1>1, <1>2 DEF Sound, Session, Unused
<1> HIDE DEF y
<1>4. Sound(y)
  BY <1>3, NoneAssumption DEF Sound, KeysAreAuthentic, HandshakeStands
<1>5. /\ session' \in [Sessions -> Session]
      /\ session'[s] = y
      /\ \A t \in Sessions : t # s => session'[t] = session[t]
      /\ \A t \in Sessions : Sound(session[t])
  BY <1>1, <1>3 DEF IInv, SessionsSound
<1>6. SessionsSound'
  BY <1>4, <1>5 DEF SessionsSound
<1>7. TypeOK' /\ EndpointKnown'
  BY <1>1, <1>5 DEF IInv, TypeOK, EndpointKnown
<1>8. MapIsLive' /\ RemoteIsBound'
  BY <1>1, <1>3, <1>5 DEF IInv, Bound, MapIsLive, RemoteIsBound, Live, TypeOK
<1>9. AcceptedOfMade' /\ AcceptedMediaIsAuthentic'
  BY <1>1, <1>3, <1>5 DEF IInv, AcceptedOfMade, AcceptedMediaIsAuthentic, Live, x
<1>10. StaysConnected
  BY <1>1, <1>2, <1>5 DEF StaysConnected, Sound, Unused, x
<1> QED
  BY <1>6, <1>7, <1>8, <1>9, <1>10 DEF IInv, Bound

LEMMA CloseStep ==
  ASSUME IInv, NEW s \in Sessions, Close(s)
  PROVE  IInv' /\ StaysConnected
<1> DEFINE y == [NoSession EXCEPT !.obj = "gone"]
<1>1. /\ session[s].obj = "live"
      /\ session' = [session EXCEPT ![s] = y]
      /\ ufrags' = ufrags \ {s}
      /\ addrmap' = [a \in Addrs |-> IF addrmap[a] = s THEN None ELSE addrmap[a]]
      /\ UNCHANGED <<remote_ep_, send_buffer_queue_, recv, accepted>>
  BY DEF Close, Live, udp_vars, remove_webrtc_session
<1>2. y \in Session /\ y.obj = "gone" /\ Unused(y)
  BY DEF NoSession, Session, Unused
<1> HIDE DEF y
<1>3. Sound(y)
  BY <1>2 DEF Sound, Unused, KeysAreAuthentic, HandshakeStands
<1>4. /\ session' \in [Sessions -> Session]
      /\ session'[s] = y
      /\ \A t \in Sessions : t # s => session'[t] = session[t]
      /\ \A t \in Sessions : Sound(session[t])
  BY <1>1, <1>2 DEF IInv, SessionsSound
<1>5. SessionsSound'
  BY <1>3, <1>4 DEF SessionsSound
<1>6. addrmap' \in [Addrs -> Sessions \cup {None}]
  BY <1>1 DEF IInv, TypeOK
<1>7. TypeOK' /\ EndpointKnown'
  BY <1>1, <1>4, <1>6 DEF IInv, TypeOK, EndpointKnown
<1>8. MapIsLive'
  BY <1>1, <1>4 DEF IInv, Bound, MapIsLive, Live, TypeOK
<1>9. RemoteIsBound'
  <2> SUFFICES ASSUME NEW t \in Sessions, Live(t)'
               PROVE  /\ session'[t].remote # None => addrmap'[session'[t].remote] = t
                      /\ session'[t].srtp # None => session'[t].remote # None
    BY DEF RemoteIsBound
  <2>1. t # s
    BY <1>2, <1>4 DEF Live
  <2>2. /\ session'[t] = session[t] /\ Live(t)
        /\ session[t].remote \in Addrs \cup {None}
    BY <1>4, <2>1 DEF Live, Sound, Session
  <2>3. /\ session[t].remote # None => addrmap[session[t].remote] = t
        /\ session[t].srtp # None => session[t].remote # None
    BY <2>2 DEF IInv, Bound, RemoteIsBound
  <2> QED
    BY <1>1, <2>1, <2>2, <2>3
<1>10. AcceptedOfMade' /\ AcceptedMediaIsAuthentic'
  BY <1>1, <1>2, <1>4 DEF IInv, AcceptedOfMade, AcceptedMediaIsAuthentic, Live
<1>11. StaysConnected
  BY <1>2, <1>4 DEF StaysConnected, Live
<1> QED
  BY <1>5, <1>7, <1>8, <1>9, <1>10, <1>11 DEF IInv, Bound

-----------------------------------------------------------------------------
LEMMA InitInv == Init => IInv
<1> SUFFICES ASSUME Init PROVE IInv
  OBVIOUS
<1>1. NoSession \in Session /\ Sound(NoSession)
  BY NoneAssumption DEF NoSession, Sound, Session, Unused, KeysAreAuthentic, HandshakeStands
<1>2. TypeOK /\ SessionsSound /\ EndpointKnown
  BY <1>1 DEF Init, TypeOK, SessionsSound, EndpointKnown
<1>3. MapIsLive
  BY DEF Init, MapIsLive
<1>4. RemoteIsBound
  BY DEF Init, RemoteIsBound, Live, NoSession
<1>5. AcceptedOfMade /\ AcceptedMediaIsAuthentic
  BY DEF Init, AcceptedOfMade, AcceptedMediaIsAuthentic
<1> QED
  BY <1>2, <1>3, <1>4, <1>5 DEF IInv, Bound

LEMMA NextKeepsInv ==
  ASSUME IInv, [Next]_vars
  PROVE  IInv' /\ (StaysConnected \/ UNCHANGED vars)
<1>1. ASSUME NEW s \in Sessions, NEW p \in Peers, Construct(s, p)
      PROVE  IInv' /\ StaysConnected
  BY <1>1, ConstructStep
<1>2. ASSUME NEW s \in Sessions, Close(s)
      PROVE  IInv' /\ StaysConnected
  BY <1>2, CloseStep
<1>3. ASSUME NEW s \in Sessions, SendMedia(s)
      PROVE  IInv' /\ StaysConnected
  BY <1>3, SendMediaStep
<1>4. ASSUME NEW d \in Datagrams, NEW a \in From[d.peer], Receive(a, d)
      PROVE  IInv' /\ StaysConnected
  BY <1>4, ReceiveStep
<1>5. CASE OnRead
  BY <1>5, OnReadKnownStep, OnReadFirstStunStep, OnReadUnknownStep DEF OnRead
<1>6. CASE OnSent
  BY <1>6, OnSentStep
<1>7. CASE UNCHANGED vars
  BY <1>7 DEF vars, IInv, TypeOK, SessionsSound, Bound, MapIsLive, RemoteIsBound, Live,
     EndpointKnown, AcceptedOfMade, AcceptedMediaIsAuthentic
<1> QED
  BY <1>1, <1>2, <1>3, <1>4, <1>5, <1>6, <1>7 DEF Next

LEMMA InductiveInvariant == Spec => []IInv
<1>1. IInv /\ [Next]_vars => IInv'
  BY NextKeepsInv
<1> QED
  BY InitInv, <1>1, PTL DEF Spec

-----------------------------------------------------------------------------
(***************************************************************************)
(* Every variable of the media side keeps its type: in particular          *)
(* remote_ep_ names an address whenever a handler looks a datagram up by   *)
(* it, and send_rtp_data_in_dtls never queues a datagram without one.      *)
(***************************************************************************)
THEOREM TypeCorrect == Spec => []TypeOK
<1>1. IInv => TypeOK
  BY DEF IInv
<1> QED
  BY InductiveInvariant, <1>1, PTL

(***************************************************************************)
(* single_webrtc_map never finds a deleted session: close_session takes    *)
(* out every address that the session was entered for, however many its    *)
(* peer used and however many datagrams were taken for another address's.  *)
(***************************************************************************)
THEOREM TableHoldsLiveSessions == Spec => []MapIsLive
<1>1. IInv => MapIsLive
  BY DEF IInv, Bound
<1> QED
  BY InductiveInvariant, <1>1, PTL

(***************************************************************************)
(* The remote address on_handle_stun_packet and on_handle_dtls_data store  *)
(* in a session is one that single_webrtc_map gives to that session, and   *)
(* it is stored before there are SRTP keys to send with.                   *)
(***************************************************************************)
THEOREM RemoteAddressIsBound == Spec => []RemoteIsBound
<1>1. IInv => RemoteIsBound
  BY DEF IInv, Bound
<1> QED
  BY InductiveInvariant, <1>1, PTL

(***************************************************************************)
(* A session decrypts media only of the peer whose certificate fingerprint *)
(* its offer announced, whoever else reaches its DTLS server: the SRTP     *)
(* keys made on every check_status are always that peer's.                 *)
(***************************************************************************)
THEOREM MediaIsAuthentic == Spec => []AcceptedMediaIsAuthentic
<1>1. IInv => AcceptedMediaIsAuthentic
  BY DEF IInv
<1> QED
  BY InductiveInvariant, <1>1, PTL

(***************************************************************************)
(* A connected session stays connected until it is closed: start runs only *)
(* in the first state, OpenSSL ignores records after the handshake, and    *)
(* the repeated process_handshake of check_status finds the same           *)
(* certificate and profile again.                                          *)
(***************************************************************************)
THEOREM ConnectionStays == Spec => ConnectedStays
<1>1. IInv /\ [Next]_vars => [StaysConnected]_vars
  BY NextKeepsInv
<1>2. Spec => [][StaysConnected]_vars
  BY InductiveInvariant, <1>1, PTL DEF Spec
<1> QED
  BY <1>2 DEF ConnectedStays, StaysConnected
=============================================================================
