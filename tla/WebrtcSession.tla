--------------------------- MODULE WebrtcSession ----------------------------
(***************************************************************************)
(* The media side of a peer connection: the one udp_server, the table      *)
(* single_webrtc_map that finds the session of a datagram, and for each    *)
(* webrtc_session the ICE-lite answers to STUN requests, the DTLS server   *)
(* (rtc_dtls) and the SRTP keys.                                           *)
(*                                                                         *)
(* Each completion handler of the udp_server is one action.  The endpoint  *)
(* remote_ep_ is a member that a receive fills in and that do_write        *)
(* overwrites: a send that completes between a receive and its handler     *)
(* makes the handler take the datagram for one of the send's destination.  *)
(*                                                                         *)
(* The network loses datagrams (one that never arrives takes no step) and  *)
(* duplicates them; peers retransmit.  Abstracted: STUN and DTLS encoding  *)
(* and cryptography.  A datagram carries what the code tells apart: the    *)
(* user named, whether the integrity code is right, the certificate.       *)
(* OpenSSL is external.  A request that names a session but lacks          *)
(* MESSAGE-INTEGRITY is checked through a null pointer; not followed.      *)
(***************************************************************************)
EXTENDS Naturals, Sequences

CONSTANTS
  Sessions,    \* webrtc_sessions, each made at most once
  Peers,       \* the remote ends, one certificate each
  Addrs,       \* their addresses
  From,        \* the addresses each peer sends from
  NoProfile,   \* the peers that share no SRTP profile with the server
  None,        \* no session, peer or address
  MaxQueue     \* bound: datagrams waiting in the send queue

ASSUME FromAssumption == From \in [Peers -> SUBSET Addrs]
ASSUME NoProfileAssumption == NoProfile \subseteq Peers
ASSUME NoneAssumption == None \notin Sessions \cup Peers \cup Addrs
ASSUME MaxQueueAssumption == MaxQueue \in Nat

VARIABLES
  session,            \* the sessions
  ufrags,             \* single_webrtc_map: the sessions found by user name
  addrmap,            \* single_webrtc_map: the sessions found by address
  remote_ep_,         \* udp_server: the shared endpoint
  send_buffer_queue_, \* udp_server: destinations; the head is being sent
  recv,               \* the datagram received and not yet handled
  accepted            \* history: the peers whose media each session took

vars == <<session, ufrags, addrmap, remote_ep_, send_buffer_queue_, recv, accepted>>

udp_vars == <<remote_ep_, send_buffer_queue_>>

(***************************************************************************)
(* finger: the peer whose certificate the offer announced; ssl_peer and    *)
(* ssl_step: OpenSSL's handshake (0 none, 1 its flight sent, 2 done:       *)
(* handshake_done_); srtp: the peer the SRTP keys were agreed with.        *)
(***************************************************************************)
NoSession == [obj |-> "none", finger |-> None, remote |-> None, dtls |-> "new",
              ssl_peer |-> None, ssl_step |-> 0, srtp |-> None]

Session == [obj : {"none", "live", "gone"}, finger : Peers \cup {None},
            remote : Addrs \cup {None},
            dtls : {"new", "connecting", "connected", "failed"},
            ssl_peer : Peers \cup {None}, ssl_step : 0..2, srtp : Peers \cup {None}]

(* form: what else on_handle_stun_packet tells apart; "refused" is a packet *)
(* that is not a binding, has no FINGERPRINT or is of a controlled agent.   *)
Stun == [kind : {"stun"}, peer : Peers, user : Sessions,
         form : {"request", "no_priority", "refused", "indication"}]
Dtls == [kind : {"dtls"}, peer : Peers, step : 1..2]
Media == [kind : {"media"}, peer : Peers]
Datagrams == Stun \cup Dtls \cup Media

NoDatagram == [kind |-> "none"]

TypeOK ==
  /\ session \in [Sessions -> Session]
  /\ ufrags \subseteq Sessions
  /\ addrmap \in [Addrs -> Sessions \cup {None}]
  /\ remote_ep_ \in Addrs \cup {None}
  /\ send_buffer_queue_ \in Seq(Addrs)
  /\ recv \in Datagrams \cup {NoDatagram}
  /\ accepted \subseteq Sessions \X Peers

Init ==
  /\ session = [s \in Sessions |-> NoSession]
  /\ ufrags = {}
  /\ addrmap = [a \in Addrs |-> None]
  /\ remote_ep_ = None
  /\ send_buffer_queue_ = <<>>
  /\ recv = NoDatagram
  /\ accepted = {}

Live(s) == session[s].obj = "live"

-----------------------------------------------------------------------------
(* udp_server *)

(* do_write starts a send if none is in flight, through remote_ep_. *)
write(dsts) ==
  /\ Len(send_buffer_queue_) + Len(dsts) <= MaxQueue
  /\ send_buffer_queue_' = send_buffer_queue_ \o dsts
  /\ remote_ep_' = IF send_buffer_queue_ = <<>> /\ dsts # <<>> THEN dsts[1] ELSE remote_ep_

OnSent ==
  /\ send_buffer_queue_ # <<>>
  /\ send_buffer_queue_' = Tail(send_buffer_queue_)
  /\ remote_ep_' = IF Tail(send_buffer_queue_) = <<>> THEN remote_ep_
                   ELSE Head(Tail(send_buffer_queue_))
  /\ UNCHANGED <<session, ufrags, addrmap, recv, accepted>>

(* The receive completes; its handler is queued behind others. *)
Receive(a, d) ==
  /\ recv = NoDatagram
  /\ recv' = d
  /\ remote_ep_' = a
  /\ UNCHANGED <<session, ufrags, addrmap, send_buffer_queue_, accepted>>

-----------------------------------------------------------------------------
(* Making and closing a session *)

Construct(s, p) ==
  /\ session[s].obj = "none"
  /\ session' = [session EXCEPT ![s].obj = "live", ![s].finger = p]
  /\ ufrags' = ufrags \cup {s}
  /\ UNCHANGED <<addrmap, udp_vars, recv, accepted>>

(* Variant: only the user name is taken out of the table. *)
remove_webrtc_session_by_name(m, s) == m

remove_webrtc_session(m, s) == [a \in Addrs |-> IF m[a] = s THEN None ELSE m[a]]

(* close_session and the destructor. *)
Close(s) ==
  /\ Live(s)
  /\ session' = [session EXCEPT ![s] = [NoSession EXCEPT !.obj = "gone"]]
  /\ ufrags' = ufrags \ {s}
  /\ addrmap' = remove_webrtc_session(addrmap, s)
  /\ UNCHANGED <<udp_vars, recv, accepted>>

-----------------------------------------------------------------------------
(* STUN.  x is a session's record, d the datagram, a its address. *)

(* Only the peer of the offer knows the password of the answer. *)
check_auth(s, d) == d.user = s /\ session[s].finger = d.peer

(* Variant: every accepted request starts the DTLS server. *)
start_always(x) == [x EXCEPT !.dtls = "connecting"]

start(x) == IF x.dtls = "new" THEN [x EXCEPT !.dtls = "connecting"] ELSE x

binding_ok(s, d) == d.form \in {"request", "no_priority"} /\ check_auth(s, d)

(***************************************************************************)
(* How many answers a packet gets: a request without PRIORITY gets its 400 *)
(* and is then treated like any other.                                     *)
(***************************************************************************)
answers(d) ==
  CASE d.form = "indication" -> 0
    [] d.form = "no_priority" -> 2
    [] OTHER -> 1

on_handle_stun_packet(s, d, a) ==
  /\ session' = IF binding_ok(s, d)
                THEN [session EXCEPT ![s] = start([@ EXCEPT !.remote = a])] ELSE session
  /\ write([i \in 1..answers(d) |-> a])
  /\ UNCHANGED accepted

-----------------------------------------------------------------------------
(* DTLS *)

(***************************************************************************)
(* OpenSSL's part of SSL_read on a record: the first hello starts the      *)
(* handshake with its peer, that peer's last flight ends it.  Any other    *)
(* record is dropped.                                                      *)
(***************************************************************************)
ssl_read(x, d) ==
  IF d.step = 1 /\ x.ssl_step = 0 THEN [x EXCEPT !.ssl_peer = d.peer, !.ssl_step = 1]
  ELSE IF d.step = 2 /\ x.ssl_step = 1 /\ x.ssl_peer = d.peer THEN [x EXCEPT !.ssl_step = 2]
  ELSE x

check_remote_fingerprint(x) == x.ssl_peer = x.finger

get_srtp_crypto_suite(x) == x.ssl_peer \notin NoProfile

(* Variant: the certificate is not compared. *)
process_handshake_unchecked(x) ==
  IF get_srtp_crypto_suite(x) THEN [x EXCEPT !.dtls = "connected", !.srtp = x.ssl_peer]
  ELSE [x EXCEPT !.dtls = "failed"]

(* on_dtls_connected makes the SRTP sessions anew each time. *)
process_handshake(x) ==
  IF check_remote_fingerprint(x) /\ get_srtp_crypto_suite(x)
  THEN [x EXCEPT !.dtls = "connected", !.srtp = x.ssl_peer]
  ELSE [x EXCEPT !.dtls = "failed"]

(* check_status runs after every record, those after the handshake too. *)
check_status(x) == IF x.ssl_step = 2 THEN process_handshake(x) ELSE x

handle_dtls_data(x, d) == check_status(ssl_read(x, d))

(***************************************************************************)
(* The address is taken before the state is looked at.  A record that      *)
(* moves the handshake is answered; OpenSSL may repeat its last flight on  *)
(* any record, when its own timer has run out.                             *)
(***************************************************************************)
on_handle_dtls_data(s, d, a) ==
  LET moved == [session[s] EXCEPT !.remote = a]
      next == handle_dtls_data(moved, d)
      ready == moved.dtls \in {"connecting", "connected"}
  IN  /\ \/ /\ ~ready
            /\ session' = [session EXCEPT ![s] = moved]
            /\ write(<<>>)
         \/ /\ ready
            /\ session' = [session EXCEPT ![s] = next]
            /\ \/ next.ssl_step > 0 /\ write(<<a>>)
               \/ next.ssl_step = moved.ssl_step /\ write(<<>>)
      /\ UNCHANGED accepted

-----------------------------------------------------------------------------
(* decrypt_srtp with the keys agreed with the DTLS peer. *)
decrypts(x, d) == x.dtls = "connected" /\ x.srtp = d.peer

on_handle_media(s, d) ==
  /\ accepted' = IF decrypts(session[s], d) THEN accepted \cup {<<s, d.peer>>} ELSE accepted
  /\ UNCHANGED <<session, udp_vars>>

on_recv_packet(s, d, a) ==
  \/ d.kind = "stun" /\ on_handle_stun_packet(s, d, a)
  \/ d.kind = "dtls" /\ on_handle_dtls_data(s, d, a)
  \/ d.kind = "media" /\ on_handle_media(s, d)

(* The handler of a datagram from an address that has a session. *)
OnReadKnown ==
  LET a == remote_ep_
  IN  /\ recv # NoDatagram /\ addrmap[a] # None
      /\ on_recv_packet(addrmap[a], recv, a)
      /\ recv' = NoDatagram
      /\ UNCHANGED <<ufrags, addrmap>>

(* Variant: the packet is handled but its address is not entered. *)
OnReadFirstStun_unbound ==
  LET a == remote_ep_
      s == recv.user
  IN  /\ recv # NoDatagram /\ recv.kind = "stun" /\ addrmap[a] = None
      /\ s \in ufrags
      /\ UNCHANGED addrmap
      /\ on_handle_stun_packet(s, recv, a)
      /\ recv' = NoDatagram
      /\ UNCHANGED ufrags

(***************************************************************************)
(* A first STUN packet finds its session by user name.  The address is     *)
(* entered before the packet is checked.                                   *)
(***************************************************************************)
OnReadFirstStun ==
  LET a == remote_ep_
      s == recv.user
  IN  /\ recv # NoDatagram /\ recv.kind = "stun" /\ addrmap[a] = None
      /\ s \in ufrags
      /\ addrmap' = [addrmap EXCEPT ![a] = s]
      /\ on_handle_stun_packet(s, recv, a)
      /\ recv' = NoDatagram
      /\ UNCHANGED ufrags

(* Nobody's datagram. *)
OnReadUnknown ==
  /\ recv # NoDatagram /\ addrmap[remote_ep_] = None
  /\ recv.kind = "stun" => recv.user \notin ufrags
  /\ recv' = NoDatagram
  /\ UNCHANGED <<session, ufrags, addrmap, udp_vars, accepted>>

(* send_rtp_data_in_dtls: the room relays a packet to the session's peer. *)
SendMedia(s) ==
  /\ Live(s) /\ session[s].srtp # None
  /\ write(<<session[s].remote>>)
  /\ UNCHANGED <<session, ufrags, addrmap, recv, accepted>>

OnRead == OnReadKnown \/ OnReadFirstStun \/ OnReadUnknown

Next ==
  \/ \E s \in Sessions, p \in Peers : Construct(s, p)
  \/ \E s \in Sessions : Close(s) \/ SendMedia(s)
  \/ \E d \in Datagrams : \E a \in From[d.peer] : Receive(a, d)
  \/ OnRead
  \/ OnSent

Spec == Init /\ [][Next]_vars

-----------------------------------------------------------------------------
(***************************************************************************)
(* The table the datagrams are looked up in never holds a session that was *)
(* deleted, under any of the addresses it was entered for.                 *)
(***************************************************************************)
MapIsLive ==
  /\ \A a \in Addrs : addrmap[a] # None => Live(addrmap[a])
  /\ \A s \in ufrags : Live(s)

(***************************************************************************)
(* The address a session sends to is one whose datagrams reach this very   *)
(* session, and it is known before there are keys to send with, also when  *)
(* datagrams were taken for another address's.                             *)
(***************************************************************************)
RemoteIsBound ==
  \A s \in Sessions : Live(s) =>
    /\ session[s].remote # None => addrmap[session[s].remote] = s
    /\ session[s].srtp # None => session[s].remote # None

(* A session takes media only of the peer whose certificate was announced. *)
AcceptedMediaIsAuthentic ==
  \A s \in Sessions : Live(s) => \A p \in Peers : <<s, p>> \in accepted => session[s].finger = p

(***************************************************************************)
(* A connection that is up stays up until its session is closed: neither   *)
(* the STUN requests that keep coming, nor late or repeated DTLS records,  *)
(* nor those of another peer take it down.                                 *)
(***************************************************************************)
ConnectedStays ==
  [][\A s \in Sessions : session[s].dtls = "connected" /\ Live(s)'
       => session'[s].dtls = "connected"]_vars
=============================================================================
