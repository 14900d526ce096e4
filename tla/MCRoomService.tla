---------------------------- MODULE MCRoomService ---------------------------
(***************************************************************************)
(* View leaves out what no step and no property looks at any more: what    *)
(* the room told a connection that is closed or that answers no user of    *)
(* it, the pcid of what it told, the room and uid of a closed connection   *)
(* but for the users it still answers under them, and the subscribers cut  *)
(* off whose session is gone.                                              *)
(***************************************************************************)
EXTENDS RoomService, TLC

Symmetry == Permutations(Conns) \cup Permutations(Uids)

AnsweredOn(r, c) == {u \in members(room[r]) : room[r].users[u].feedback = c}

ConnView(c) ==
  IF conn[c].obj # "closed" THEN conn[c]
  ELSE {r \in Rooms : conn[c].room = r /\ conn[c].uid \in AnsweredOn(r, c)} \X {conn[c].uid}

RoomView(r) ==
  <<room[r].users, room[r].pid2subscribers_,
    [c \in {d \in Conns : conn[d].obj = "open" /\ AnsweredOn(r, d) # {}} |->
       <<room[r].told[c].users, {<<p.uid, p.pid>> : p \in room[r].told[c].pubs}>>]>>

SubscribersOf(r) ==
  UNION {UNION {subscribers(s) : s \in room[r].users[u].subscribe_sessions_} :
           u \in members(room[r])}

(* Bound: nobody publishes in the room with the empty id. *)
SessionsInNamedRooms ==
  \A r \in Rooms \cap {EmptyId} : \A u \in members(room[r]) :
    room[r].users[u].publish_sessions_ = {}

View ==
  <<[c \in Conns |-> ConnView(c)], [r \in Rooms |-> RoomView(r)],
    nsessions, cut \cap UNION {SubscribersOf(r) : r \in Rooms}>>
=============================================================================
