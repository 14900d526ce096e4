---------------------------- MODULE RoomService -----------------------------
(***************************************************************************)
(* Signalling: the websocket_sessions of the protoo port, the              *)
(* protoo_server of each, the room_services they share, and what a room    *)
(* keeps of its users: their publish and subscribe sessions and the table  *)
(* pid2subscribers_ that relays media from publishers to subscribers.      *)
(*                                                                         *)
(* Every message of a websocket is handled to completion: one action each. *)
(* No request is checked against the connection it comes from, so a        *)
(* connection may name any user of its room.  A request that is rejected   *)
(* changes nothing and is a stuttering step, except where noted.           *)
(*                                                                         *)
(* Abstracted: JSON and SDP text (a media of an offer is its kind), the    *)
(* uuids (session ids are numbers, a publisher or subscriber is its        *)
(* session's id and its media), ICE and DTLS.  What the room sent is kept  *)
(* as what each connection was told.  A notification for a user whose      *)
(* connection is gone goes to a freed object; it is taken to be lost.      *)
(***************************************************************************)
EXTENDS Naturals, FiniteSets

CONSTANTS
  Conns,        \* websocket connections, each accepted at most once
  Rooms,        \* room ids
  EmptyId,      \* the room id that is the empty string, one of Rooms or not
  Uids,         \* user ids
  Media,        \* media kinds a session description may hold
  MaxSessions   \* bound: webrtc sessions created

ASSUME MaxSessionsAssumption == MaxSessions \in Nat

VARIABLES
  conn,       \* the protoo_servers
  room,       \* s_rooms
  nsessions,  \* webrtc sessions created so far, the last one's id
  cut         \* history: subscribers another session's unsubscribe removed

vars == <<conn, room, nsessions, cut>>

SessionIds == 1..MaxSessions

(* The subscriber and publisher ids; NoPid is the empty string. *)
Ids == SessionIds \X Media
NoPid == <<0, "none">>
Pids == Ids \cup {NoPid}

NoUser == [feedback |-> "none"]

PublishSession == [id : SessionIds, medias : SUBSET Media]
SubscribeSession == [id : SessionIds, src : UNION {[ms -> Pids] : ms \in SUBSET Media}]

(* roomId_ and uid_ of a protoo_server are what its last join named. *)
NoConn == [obj |-> "none", room |-> "none", uid |-> "none"]

EmptyRoom ==
  [users |-> [u \in Uids |-> NoUser],
   pid2subscribers_ |-> [p \in Pids |-> {}],
   told |-> [c \in Conns |-> [users |-> {}, pubs |-> {}]]]

TypeOK ==
  /\ conn \in [Conns -> [obj : {"none", "open", "closed"},
                         room : Rooms \cup {EmptyId, "none"}, uid : Uids \cup {"none"}]]
  /\ nsessions \in 0..MaxSessions
  /\ cut \subseteq Ids
  /\ \A r \in Rooms :
       /\ \A u \in Uids : room[r].users[u] # NoUser =>
            /\ room[r].users[u].feedback \in Conns
            /\ room[r].users[u].publish_sessions_ \subseteq PublishSession
            /\ \A s \in room[r].users[u].subscribe_sessions_ :
                 /\ s.id \in SessionIds
                 /\ \A m \in DOMAIN s.src : m \in Media /\ s.src[m] \in Pids
       /\ room[r].pid2subscribers_ \in [Pids -> SUBSET Ids]
       /\ \A c \in Conns :
            /\ room[r].told[c].users \subseteq Uids
            /\ room[r].told[c].pubs \subseteq [uid : Uids, pid : Ids, pcid : SessionIds]

Init ==
  /\ conn = [c \in Conns |-> NoConn]
  /\ room = [r \in Rooms |-> EmptyRoom]
  /\ nsessions = 0
  /\ cut = {}

-----------------------------------------------------------------------------
(* The room's tables.  R is a room, u a user id, s a session. *)
members(R) == {u \in Uids : R.users[u] # NoUser}

(* The connections the notify_..._to_others loops write to. *)
others(R, u) == {R.users[x].feedback : x \in members(R) \ {u}}

publishers(s) == {<<s.id, m>> : m \in s.medias}

subscribers(s) == {<<s.id, m>> : m \in DOMAIN s.src}

get_publishs_information(R, u) ==
  UNION {{[uid |-> u, pid |-> p, pcid |-> s.id] : p \in publishers(s)} :
           s \in R.users[u].publish_sessions_}

(* Variant: a publisher's entry is made anew for every session. *)
insert_subscriber_anew(subs, s) ==
  LET new(p) == {<<s.id, m>> : m \in {x \in DOMAIN s.src : s.src[x] = p}}
  IN  [p \in Pids |-> IF new(p) # {} THEN new(p) ELSE subs[p]]

(* The subscribers of a new session enter their publishers' entries. *)
insert_subscriber(subs, s) ==
  [p \in Pids |-> subs[p] \cup {<<s.id, m>> : m \in {x \in DOMAIN s.src : s.src[x] = p}}]

(* Variant: the destructor of a session does not tell the room. *)
on_unsubscribe_forgotten(subs, sessions) == subs

(* The destructors of subscribe sessions take their subscribers away. *)
on_unsubscribe(subs, sessions) ==
  [p \in Pids |-> subs[p] \ UNION {subscribers(s) : s \in sessions}]

(* The connections cs are told something: t is what each then knows. *)
tell(R, cs, t) == [R EXCEPT !.told = [c \in Conns |-> IF c \in cs THEN t[c] ELSE @[c]]]

notify_userin_to_others(R, u) ==
  tell(R, others(R, u), [c \in Conns |-> [R.told[c] EXCEPT !.users = @ \cup {u}]])

(* A client that is told that a user left forgets its publishers. *)
notify_userout_to_others(R, u) ==
  tell(R, others(R, u), [c \in Conns |-> [users |-> R.told[c].users \ {u},
                                          pubs |-> {p \in R.told[c].pubs : p.uid # u}]])

notify_publisher_to_others(R, u, ps) ==
  tell(R, others(R, u), [c \in Conns |-> [R.told[c] EXCEPT !.pubs = @ \cup ps]])

notify_unpublisher_to_others(R, u, pids) ==
  tell(R, others(R, u), [c \in Conns |->
                           [R.told[c] EXCEPT !.pubs = {p \in @ : p.pid \notin pids}]])

(***************************************************************************)
(* A newcomer is sent one message per other user, with the publishers of   *)
(* all sessions of that user and the pcid of the session the loop came to  *)
(* last (the order of the map's keys, which are uuids).                    *)
(***************************************************************************)
last_sessions(R) ==
  {f \in [Uids -> 0..MaxSessions] :
     \A x \in Uids :
       LET own == IF R.users[x] = NoUser THEN {}
                  ELSE {s.id : s \in {z \in R.users[x].publish_sessions_ : z.medias # {}}}
       IN  IF own = {} THEN f[x] = 0 ELSE f[x] \in own}

notify_others_publisher_to_me(R, u, c, last) ==
  LET all == UNION {{[p EXCEPT !.pcid = last[x]] : p \in get_publishs_information(R, x)} :
                      x \in members(R) \ {u}}
  IN  tell(R, {c}, [d \in Conns |-> [R.told[d] EXCEPT !.pubs = all]])

(***************************************************************************)
(* users_.erase: ~user_info closes the publish sessions, which empties     *)
(* their publisher tables, so that their destructors have nothing left to  *)
(* report to on_unpublish: the publishers' entries of pid2subscribers_     *)
(* stay.  The subscribe sessions report theirs.                            *)
(***************************************************************************)
erase_user(R, u) ==
  [R EXCEPT !.users[u] = NoUser,
            !.pid2subscribers_ = on_unsubscribe(@, R.users[u].subscribe_sessions_)]

leave(R, u) == notify_userout_to_others(erase_user(R, u), u)

-----------------------------------------------------------------------------
(* Variant: a connection that closes leaves its user in the room. *)
on_close_forgotten(rooms, c) == rooms

(***************************************************************************)
(* protoo_server::on_close: the user the connection last named leaves, and *)
(* is not missed when there is none.  An empty roomId_ or uid_ is taken    *)
(* for a connection that has not joined, also when it has: nobody leaves.  *)
(***************************************************************************)
on_close(rooms, c) ==
  LET r == conn[c].room
      u == conn[c].uid
  IN  IF r \in Rooms \ {EmptyId} /\ u \in Uids /\ u \in members(rooms[r])
      THEN [rooms EXCEPT ![r] = leave(@, u)] ELSE rooms

(* websocket_session::close_session. *)
close_session(rooms, c) ==
  /\ conn' = [conn EXCEPT ![c].obj = "closed"]
  /\ room' = on_close(rooms, c)

OnAccept(c) ==
  /\ conn[c].obj = "none"
  /\ conn' = [conn EXCEPT ![c].obj = "open"]
  /\ UNCHANGED <<room, nsessions, cut>>

(* A read or write error, or a message that makes a handler throw. *)
Disconnect(c) ==
  /\ conn[c].obj = "open"
  /\ close_session(room, c)
  /\ UNCHANGED <<nsessions, cut>>

(* A request or notification reaches the room the last join named. *)
reaches(c, r) == conn[c].obj = "open" /\ conn[c].room = r

(***************************************************************************)
(* on_request "join": the connection takes the room and the uid, which may *)
(* be empty, before the room decides.                                      *)
(***************************************************************************)
on_join(c, r, u) ==
  /\ conn[c].obj = "open"
  /\ conn' = [conn EXCEPT ![c].room = r, ![c].uid = u]

(***************************************************************************)
(* A join with the empty room id and no uid throws once roomId_ is         *)
(* overwritten: on_close takes the connection for one that has not joined. *)
(* With another room id the close still goes to the room of the last join, *)
(* as in Disconnect.                                                       *)
(***************************************************************************)
JoinThrows(c) ==
  /\ conn[c].obj = "open"
  /\ conn' = [conn EXCEPT ![c].room = EmptyId, ![c].obj = "closed"]
  /\ UNCHANGED <<room, nsessions, cut>>

(* A uid in use and an empty one are rejected. *)
JoinRejected(c, r, u) ==
  /\ on_join(c, r, u)
  /\ u \in Uids => room[r].users[u] # NoUser
  /\ UNCHANGED <<room, nsessions, cut>>

handle_join(c, r, u) ==
  LET joined == [room[r] EXCEPT !.users[u] = [feedback |-> c, publish_sessions_ |-> {},
                                              subscribe_sessions_ |-> {}]]
      accepted == tell(notify_userin_to_others(joined, u), {c},
                       [d \in Conns |-> [users |-> members(joined), pubs |-> {}]])
  IN  /\ on_join(c, r, u)
      /\ u \in Uids /\ room[r].users[u] = NoUser
      /\ \E last \in last_sessions(room[r]) :
           room' = [room EXCEPT ![r] = notify_others_publisher_to_me(accepted, u, c, last)]
      /\ UNCHANGED <<nsessions, cut>>

handle_publish(c, r, u, medias) ==
  LET s == [id |-> nsessions + 1, medias |-> medias]
      R == [room[r] EXCEPT !.users[u].publish_sessions_ = @ \cup {s}]
      ps == {[uid |-> u, pid |-> p, pcid |-> s.id] : p \in publishers(s)}
  IN  /\ reaches(c, r) /\ room[r].users[u] # NoUser
      /\ nsessions < MaxSessions
      /\ nsessions' = nsessions + 1
      /\ room' = [room EXCEPT ![r] = notify_publisher_to_others(R, u, ps)]
      /\ UNCHANGED <<conn, cut>>

(* Variant: the others are not told which publishers are gone. *)
handle_unpublish_quietly(c, r, u, s) ==
  LET R == [room[r] EXCEPT !.users[u].publish_sessions_ = @ \ {s},
                           !.pid2subscribers_ = [p \in Pids |->
                              IF p \in publishers(s) THEN {} ELSE @[p]]]
  IN  /\ reaches(c, r) /\ room[r].users[u] # NoUser
      /\ s \in room[r].users[u].publish_sessions_
      /\ room' = [room EXCEPT ![r] = R]
      /\ UNCHANGED <<conn, nsessions, cut>>

handle_unpublish(c, r, u, s) ==
  LET R == [room[r] EXCEPT !.users[u].publish_sessions_ = @ \ {s},
                           !.pid2subscribers_ = [p \in Pids |->
                              IF p \in publishers(s) THEN {} ELSE @[p]]]
  IN  /\ reaches(c, r) /\ room[r].users[u] # NoUser
      /\ s \in room[r].users[u].publish_sessions_
      /\ room' = [room EXCEPT ![r] = notify_unpublisher_to_others(R, u, publishers(s))]
      /\ UNCHANGED <<conn, nsessions, cut>>

(***************************************************************************)
(* The subscribe session of user u for publish session p: offered are the  *)
(* medias of the request's description, named those of its publisher list. *)
(* A media that is offered but not named subscribes to the empty pid; one  *)
(* that is named but not published has the request rejected.               *)
(***************************************************************************)
subscribed(R, u, s) ==
  [R EXCEPT !.users[u].subscribe_sessions_ = @ \cup {s},
            !.pid2subscribers_ = insert_subscriber(@, s)]

new_subscription(p, offered, named) ==
  [id |-> nsessions + 1,
   src |-> [m \in offered |-> IF m \in named THEN <<p.id, m>> ELSE NoPid]]

may_subscribe(c, r, u, ru, p, offered, named) ==
  /\ reaches(c, r)
  /\ room[r].users[u] # NoUser /\ room[r].users[ru] # NoUser
  /\ p \in room[r].users[ru].publish_sessions_
  /\ named \cap offered \subseteq p.medias
  /\ nsessions < MaxSessions

handle_subscribe(c, r, u, ru, p, offered, named) ==
  /\ may_subscribe(c, r, u, ru, p, offered, named)
  /\ nsessions' = nsessions + 1
  /\ room' = [room EXCEPT ![r] = subscribed(@, u, new_subscription(p, offered, named))]
  /\ UNCHANGED <<conn, cut>>

(***************************************************************************)
(* A media id used twice, or a fingerprint type the server does not have,  *)
(* throws when the session and some of its subscribers are in place.  They *)
(* stay there; the connection is closed.                                   *)
(***************************************************************************)
SubscribeThrows(c, r, u, ru, p, offered, named) ==
  /\ may_subscribe(c, r, u, ru, p, offered, named)
  /\ nsessions' = nsessions + 1
  /\ \E made \in SUBSET offered \ {{}} :
       close_session([room EXCEPT ![r] = subscribed(@, u, new_subscription(p, made, named))], c)
  /\ UNCHANGED cut

(***************************************************************************)
(* The session goes, and then every subscriber, whosever it is, of every   *)
(* publisher the request names.  Without a publisher list the request is   *)
(* rejected, but the session is gone: the case of an empty list.           *)
(***************************************************************************)
handle_unsubscribe(c, r, u, s, named) ==
  LET own == on_unsubscribe(room[r].pid2subscribers_, {s})
  IN  /\ reaches(c, r) /\ room[r].users[u] # NoUser
      /\ s \in room[r].users[u].subscribe_sessions_
      /\ room' = [room EXCEPT ![r].users[u].subscribe_sessions_ = @ \ {s},
                              ![r].pid2subscribers_ = [p \in Pids |->
                                 IF p \in named THEN {} ELSE own[p]]]
      /\ cut' = cut \cup UNION {own[p] : p \in named}
      /\ UNCHANGED <<conn, nsessions>>

(***************************************************************************)
(* A "close" notification of a client removes the user it names; for a     *)
(* user the room does not have it throws, see Disconnect.                  *)
(***************************************************************************)
on_notification(c, r, u) ==
  /\ reaches(c, r) /\ room[r].users[u] # NoUser
  /\ room' = [room EXCEPT ![r] = leave(@, u)]
  /\ UNCHANGED <<conn, nsessions, cut>>

UserRequest(c, r, u) ==
  \/ \E medias \in SUBSET Media \ {{}} : handle_publish(c, r, u, medias)
  \/ \E s \in room[r].users[u].publish_sessions_ : handle_unpublish(c, r, u, s)
  \/ \E ru \in members(room[r]) : \E p \in room[r].users[ru].publish_sessions_ :
       \E offered \in SUBSET Media \ {{}} : \E named \in SUBSET p.medias :
         \/ handle_subscribe(c, r, u, ru, p, offered, named)
         \/ SubscribeThrows(c, r, u, ru, p, offered, named)
  \/ \E s \in room[r].users[u].subscribe_sessions_ :
       \E named \in (SUBSET {s.src[m] : m \in DOMAIN s.src}) \cup {{p} : p \in Ids} :
         handle_unsubscribe(c, r, u, s, named)
  \/ on_notification(c, r, u)

Next ==
  \/ \E c \in Conns : OnAccept(c) \/ Disconnect(c) \/ JoinThrows(c)
  \/ \E c \in Conns, r \in Rooms, u \in Uids \cup {"none"} :
       JoinRejected(c, r, u) \/ handle_join(c, r, u)
  \/ \E c \in Conns, r \in Rooms : \E u \in members(room[r]) : UserRequest(c, r, u)
  \/ (\A c \in Conns : conn[c].obj = "closed") /\ UNCHANGED vars

Spec == Init /\ [][Next]_vars

-----------------------------------------------------------------------------
(***************************************************************************)
(* The connection a user is answered on is still there, except in the room *)
(* with the empty id and unless it named another user or room in a later   *)
(* join: a user_info keeps a raw pointer to its protoo_server, and only    *)
(* on_close takes the user away.                                           *)
(***************************************************************************)
FeedbackIsLive ==
  \A r \in Rooms \ {EmptyId} : \A u \in members(room[r]) :
    LET c == conn[room[r].users[u].feedback]
    IN  c.room = r /\ c.uid = u => c.obj = "open"

(***************************************************************************)
(* A subscriber the room relays packets to belongs to a subscribe session  *)
(* that exists, through all the ways a session may end: it holds a raw     *)
(* pointer to that session.                                                *)
(***************************************************************************)
SubscriberSessionIsLive ==
  \A r \in Rooms, p \in Pids : \A id \in room[r].pid2subscribers_[p] :
    \E u \in members(room[r]) : \E s \in room[r].users[u].subscribe_sessions_ :
      id \in subscribers(s) /\ s.src[id[2]] = p

(***************************************************************************)
(* A subscriber of a publisher that is still there is relayed its packets, *)
(* whoever else joined, left, published or threw meanwhile; except those   *)
(* that another session's unsubscribe cut off.                             *)
(***************************************************************************)
SubscriptionIsServed ==
  \A r \in Rooms : \A u, v \in members(room[r]) :
    \A s \in room[r].users[u].subscribe_sessions_, p \in room[r].users[v].publish_sessions_ :
      \A m \in DOMAIN s.src :
        s.src[m] \in publishers(p) /\ <<s.id, m>> \notin cut
          => <<s.id, m>> \in room[r].pid2subscribers_[s.src[m]]

(* What the room told an open connection adds up to the users it has. *)
MembersViewIsExact ==
  \A r \in Rooms : \A u \in members(room[r]) :
    LET c == room[r].users[u].feedback
    IN  conn[c].obj = "open" => room[r].told[c].users = members(room[r])

(* The same for the publishers of the others. *)
PublisherViewIsExact ==
  \A r \in Rooms : \A u \in members(room[r]) :
    LET c == room[r].users[u].feedback
    IN  conn[c].obj = "open" =>
          {p.pid : p \in {x \in room[r].told[c].pubs : x.uid # u}}
            = UNION {{p.pid : p \in get_publishs_information(room[r], v)} :
                       v \in members(room[r]) \ {u}}

(***************************************************************************)
(* Every client knows who is there: what the room told an open connection, *)
(* notification by notification, adds up to its users and to the           *)
(* publishers of the others, those from before it joined too.              *)
(***************************************************************************)
ViewIsExact == MembersViewIsExact /\ PublisherViewIsExact
=============================================================================
