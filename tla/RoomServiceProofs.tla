-------------------------- MODULE RoomServiceProofs --------------------------
(***************************************************************************)
(* The safety of a room's tables for any number of connections, rooms,     *)
(* users, medias and sessions.  The invariant of a room, RoomInv, says     *)
(* what its properties rest on: session ids are not used twice, so that    *)
(* the end of a session takes away its own subscribers only; every entry   *)
(* of pid2subscribers_ belongs to a session; and what a connection was     *)
(* told is known per user, since a user that leaves is forgotten as one.   *)
(***************************************************************************)
EXTENDS RoomService, TLAPS

User == [feedback : Conns, publish_sessions_ : SUBSET PublishSession,
         subscribe_sessions_ : SUBSET SubscribeSession]

Notice == [uid : Uids, pid : Ids, pcid : SessionIds]

Told == [users : SUBSET Uids, pubs : SUBSET Notice]

Room == [users : [Uids -> User \cup {NoUser}],
         pid2subscribers_ : [Pids -> SUBSET Ids],
         told : [Conns -> Told]]

Connection == [obj : {"none", "open", "closed"},
               room : Rooms \cup {EmptyId, "none"}, uid : Uids \cup {"none"}]

(* User v of room R has the publish session s, the subscribe session s. *)
HasPub(R, v, s) == v \in members(R) /\ s \in R.users[v].publish_sessions_

HasSub(R, v, s) == v \in members(R) /\ s \in R.users[v].subscribe_sessions_

Publishes(R, v, p) == \E s \in PublishSession : HasPub(R, v, s) /\ p \in publishers(s)

-----------------------------------------------------------------------------
(* No session id of R is used twice, and all are of the n sessions made. *)
PubIdsUnique(R, n) ==
  \A u, v \in Uids : \A s, t \in PublishSession :
    HasPub(R, u, s) /\ HasPub(R, v, t) =>
      s.id <= n /\ (s.id = t.id => u = v /\ s = t)

SubIdsUnique(R, n) ==
  \A u, v \in Uids : \A s, t \in SubscribeSession :
    HasSub(R, u, s) /\ HasSub(R, v, t) =>
      s.id <= n /\ (s.id = t.id => u = v /\ s = t)

SourcesMade(R, n) ==
  \A u \in Uids : \A s \in SubscribeSession :
    HasSub(R, u, s) => \A m \in DOMAIN s.src : s.src[m][1] <= n

(* What SubscriberSessionIsLive and SubscriptionIsServed say of one room. *)
EntriesLive(R) ==
  \A p \in Pids : \A id \in R.pid2subscribers_[p] :
    \E u \in Uids : \E s \in SubscribeSession :
      HasSub(R, u, s) /\ id \in subscribers(s) /\ s.src[id[2]] = p

Served(R, lost) ==
  \A u, v \in Uids : \A s \in SubscribeSession, p \in PublishSession :
    HasSub(R, u, s) /\ HasPub(R, v, p) =>
      \A m \in DOMAIN s.src :
        s.src[m] \in publishers(p) /\ <<s.id, m>> \notin lost
          => <<s.id, m>> \in R.pid2subscribers_[s.src[m]]

TablesInv(R, n, lost) ==
  /\ PubIdsUnique(R, n)
  /\ SubIdsUnique(R, n)
  /\ SourcesMade(R, n)
  /\ EntriesLive(R)
  /\ Served(R, lost)

-----------------------------------------------------------------------------
(* The notices ps are those of all publishers of the users other than u. *)
PubsKnown(R, u, ps) ==
  /\ \A x \in ps : x.uid # u => Publishes(R, x.uid, x.pid)
  /\ \A v \in Uids, p \in Ids :
       v # u /\ Publishes(R, v, p) => \E x \in ps : x.uid = v /\ x.pid = p

Views(R, cs) ==
  \A u \in members(R) :
    LET c == R.users[u].feedback
    IN  c \in cs => R.told[c].users = members(R) /\ PubsKnown(R, u, R.told[c].pubs)

Open == {c \in Conns : conn[c].obj = "open"}

(* A user's connection was accepted, and is open while it names this user, *)
(* but for the room of the empty id, which on_close does not look at.      *)
Feedback(R, r, cn) ==
  \A u \in members(R) :
    LET c == cn[R.users[u].feedback]
    IN  c.obj # "none" /\ (r # EmptyId /\ c.room = r /\ c.uid = u => c.obj = "open")

RoomInv(r) ==
  /\ TablesInv(room[r], nsessions, cut)
  /\ Views(room[r], Open)
  /\ Feedback(room[r], r, conn)

Typed ==
  /\ conn \in [Conns -> Connection]
  /\ room \in [Rooms -> Room]
  /\ nsessions \in 0 .. MaxSessions
  /\ cut \subseteq Ids

IInv == Typed /\ \A r \in Rooms : RoomInv(r)

-----------------------------------------------------------------------------
(* Reading the tables. *)
LEMMA UserIsNotNoUser == NoUser \notin User
<1> SUFFICES ASSUME NoUser \in User PROVE FALSE
  OBVIOUS
<1>1. DOMAIN NoUser = {"feedback"}
  BY DEF NoUser
<1>2. DOMAIN NoUser = {"feedback", "publish_sessions_", "subscribe_sessions_"}
  BY DEF User
<1> QED
  BY <1>1, <1>2

LEMMA Members ==
  ASSUME NEW R \in Room, NEW u \in Uids
  PROVE  /\ u \in members(R) <=> R.users[u] # NoUser
         /\ u \in members(R) => R.users[u] \in User
         /\ u \in members(R) => R.users[u].feedback \in Conns
         /\ u \in members(R) => R.users[u].publish_sessions_ \subseteq PublishSession
         /\ u \in members(R) => R.users[u].subscribe_sessions_ \subseteq SubscribeSession
<1>1. R.users \in [Uids -> User \cup {NoUser}]
  BY DEF Room
<1>2. u \in members(R) <=> R.users[u] # NoUser
  BY DEF members
<1>3. u \in members(R) => R.users[u] \in User
  BY <1>1, <1>2
<1> QED
  BY <1>2, <1>3 DEF User

(* What a room's tables say depends on users and pid2subscribers_ only. *)
LEMMA SameUsers ==
  ASSUME NEW R, NEW N, N.users = R.users
  PROVE  /\ members(N) = members(R)
         /\ \A v, s : HasPub(N, v, s) <=> HasPub(R, v, s)
         /\ \A v, s : HasSub(N, v, s) <=> HasSub(R, v, s)
         /\ \A v, p : Publishes(N, v, p) <=> Publishes(R, v, p)
         /\ \A u : others(N, u) = others(R, u)
  BY DEF members, HasPub, HasSub, Publishes, others

LEMMA PublisherIds ==
  ASSUME NEW s \in PublishSession
  PROVE  /\ publishers(s) \subseteq Ids
         /\ \A p \in publishers(s) : p[1] = s.id
  BY DEF publishers, PublishSession, Ids

LEMMA SourceTyped ==
  ASSUME NEW s \in SubscribeSession
  PROVE  /\ s.id \in SessionIds
         /\ DOMAIN s.src \subseteq Media
         /\ \A m \in DOMAIN s.src : s.src[m] \in Pids
<1>1. s.id \in SessionIds /\ s.src \in UNION {[ms -> Pids] : ms \in SUBSET Media}
  BY DEF SubscribeSession
<1>2. PICK ms \in SUBSET Media : s.src \in [ms -> Pids]
  BY <1>1
<1> QED
  BY <1>1, <1>2

LEMMA SubscriberIds ==
  ASSUME NEW s \in SubscribeSession
  PROVE  /\ subscribers(s) \subseteq Ids
         /\ \A m \in DOMAIN s.src : <<s.id, m>> \in subscribers(s)
         /\ \A id \in subscribers(s) : id[1] = s.id /\ id[2] \in DOMAIN s.src
                                       /\ id = <<s.id, id[2]>>
  BY SourceTyped DEF subscribers, Ids

-----------------------------------------------------------------------------
(* What the room's operations make of its fields. *)
LEMMA TellFields ==
  ASSUME NEW R \in Room, NEW cs, NEW t \in [Conns -> Told],
         NEW N, N = tell(R, cs, t)
  PROVE  /\ N \in Room
         /\ N.users = R.users
         /\ N.pid2subscribers_ = R.pid2subscribers_
         /\ \A c \in Conns : N.told[c] = IF c \in cs THEN t[c] ELSE R.told[c]
<1> DEFINE told == [c \in Conns |-> IF c \in cs THEN t[c] ELSE R.told[c]]
<1>1. told \in [Conns -> Told]
  BY DEF Room
<1>2. N = [R EXCEPT !.told = told]
  BY DEF tell
<1>3. \A c \in Conns : told[c] = IF c \in cs THEN t[c] ELSE R.told[c]
  OBVIOUS
<1> HIDE DEF told
<1> QED
  BY <1>1, <1>2, <1>3 DEF Room

LEMMA OnUnsubscribe ==
  ASSUME NEW subs \in [Pids -> SUBSET Ids], NEW ss
  PROVE  /\ on_unsubscribe(subs, ss) \in [Pids -> SUBSET Ids]
         /\ \A p \in Pids : \A id : id \in on_unsubscribe(subs, ss)[p] <=>
              id \in subs[p] /\ \A s \in ss : id \notin subscribers(s)
  BY DEF on_unsubscribe

(* ~user_info: the user is gone, with its sessions and their subscribers. *)
LEMMA EraseUser ==
  ASSUME NEW R \in Room, NEW u \in members(R), NEW N, N = erase_user(R, u)
  PROVE  /\ N \in Room
         /\ members(N) = members(R) \ {u}
         /\ \A v \in Uids : v # u => N.users[v] = R.users[v]
         /\ N.told = R.told
         /\ \A p \in Pids : \A id : id \in N.pid2subscribers_[p] <=>
              /\ id \in R.pid2subscribers_[p]
              /\ \A s \in R.users[u].subscribe_sessions_ : id \notin subscribers(s)
<1> DEFINE us == [R.users EXCEPT ![u] = NoUser]
           subs == on_unsubscribe(R.pid2subscribers_, R.users[u].subscribe_sessions_)
<1>1. R.users \in [Uids -> User \cup {NoUser}] /\ R.pid2subscribers_ \in [Pids -> SUBSET Ids]
  BY DEF Room
<1>2. N = [[R EXCEPT !.users = us] EXCEPT !.pid2subscribers_ = subs]
  BY DEF erase_user, Room
<1>3. us \in [Uids -> User \cup {NoUser}] /\ us[u] = NoUser /\ u \in Uids
      /\ \A v \in Uids : v # u => us[v] = R.users[v]
  BY <1>1 DEF members
<1>4. subs \in [Pids -> SUBSET Ids]
      /\ \A p \in Pids : \A id : id \in subs[p] <=>
           /\ id \in R.pid2subscribers_[p]
           /\ \A s \in R.users[u].subscribe_sessions_ : id \notin subscribers(s)
  BY <1>1, OnUnsubscribe
<1> HIDE DEF us, subs
<1>5. N \in Room /\ N.users = us /\ N.pid2subscribers_ = subs /\ N.told = R.told
  BY <1>2, <1>3, <1>4 DEF Room
<1>6. members(N) = members(R) \ {u}
  BY <1>3, <1>5 DEF members
<1> QED
  BY <1>3, <1>4, <1>5, <1>6

-----------------------------------------------------------------------------
(***************************************************************************)
(* Steps after which a room has no session that it had not before: a user  *)
(* joins or leaves, a session ends.  An entry that stays is one of a       *)
(* session that stays, and an entry that goes is one of a session that     *)
(* goes, of a publisher that goes, or cut off.                             *)
(***************************************************************************)
NothingNew(R, N) ==
  /\ \A v \in Uids, s \in PublishSession : HasPub(N, v, s) => HasPub(R, v, s)
  /\ \A v \in Uids, s \in SubscribeSession : HasSub(N, v, s) => HasSub(R, v, s)
  /\ \A p \in Pids : N.pid2subscribers_[p] \subseteq R.pid2subscribers_[p]

EntriesStay(R, N) ==
  \A p \in Pids : \A id \in N.pid2subscribers_[p] :
    \A v \in Uids, s \in SubscribeSession :
      HasSub(R, v, s) /\ id \in subscribers(s) => HasSub(N, v, s)

ServedStay(R, N, lost) ==
  \A v, w \in Uids : \A s \in SubscribeSession, q \in PublishSession :
    HasSub(N, v, s) /\ HasPub(N, w, q) =>
      \A m \in DOMAIN s.src :
        (/\ s.src[m] \in publishers(q)
         /\ <<s.id, m>> \notin lost
         /\ <<s.id, m>> \in R.pid2subscribers_[s.src[m]])
          => <<s.id, m>> \in N.pid2subscribers_[s.src[m]]

LEMMA TablesShrink ==
  ASSUME NEW R \in Room, NEW N \in Room, NEW n \in Nat, NEW lost, NEW lost2,
         TablesInv(R, n, lost), lost \subseteq lost2,
         NothingNew(R, N), EntriesStay(R, N), ServedStay(R, N, lost2)
  PROVE  TablesInv(N, n, lost2)
<1>1. PubIdsUnique(N, n)
  BY DEF TablesInv, PubIdsUnique, NothingNew
<1>2. SubIdsUnique(N, n)
  BY DEF TablesInv, SubIdsUnique, NothingNew
<1>3. SourcesMade(N, n)
  BY DEF TablesInv, SourcesMade, NothingNew
<1>4. EntriesLive(N)
  <2> SUFFICES ASSUME NEW p \in Pids, NEW id \in N.pid2subscribers_[p]
               PROVE  \E u \in Uids : \E s \in SubscribeSession :
                        HasSub(N, u, s) /\ id \in subscribers(s) /\ s.src[id[2]] = p
    BY DEF EntriesLive
  <2>1. id \in R.pid2subscribers_[p]
    BY DEF NothingNew
  <2>2. PICK u \in Uids, s \in SubscribeSession :
          HasSub(R, u, s) /\ id \in subscribers(s) /\ s.src[id[2]] = p
    BY <2>1 DEF TablesInv, EntriesLive
  <2> QED
    BY <2>2 DEF EntriesStay
<1>5. Served(N, lost2)
  <2> SUFFICES ASSUME NEW v \in Uids, NEW w \in Uids,
                      NEW s \in SubscribeSession, NEW q \in PublishSession,
                      HasSub(N, v, s), HasPub(N, w, q), NEW m \in DOMAIN s.src,
                      s.src[m] \in publishers(q), <<s.id, m>> \notin lost2
               PROVE  <<s.id, m>> \in N.pid2subscribers_[s.src[m]]
    BY DEF Served
  <2>1. HasSub(R, v, s) /\ HasPub(R, w, q) /\ <<s.id, m>> \notin lost
    BY DEF NothingNew
  <2>2. <<s.id, m>> \in R.pid2subscribers_[s.src[m]]
    BY <2>1 DEF TablesInv, Served
  <2> QED
    BY <2>2 DEF ServedStay
<1> QED
  BY <1>1, <1>2, <1>3, <1>4, <1>5 DEF TablesInv

(* The tables do not depend on what was told; more sessions may be made elsewhere. *)
LEMMA TablesSame ==
  ASSUME NEW R \in Room, NEW N \in Room, NEW n \in Nat, NEW n2 \in Nat, NEW lost, NEW lost2,
         TablesInv(R, n, lost), n <= n2, lost \subseteq lost2,
         N.users = R.users, N.pid2subscribers_ = R.pid2subscribers_
  PROVE  TablesInv(N, n2, lost2)
<1>1. /\ \A v, s : HasPub(N, v, s) <=> HasPub(R, v, s)
      /\ \A v, s : HasSub(N, v, s) <=> HasSub(R, v, s)
  BY SameUsers
<1>2. PubIdsUnique(N, n2)
  <2>1. \A s \in PublishSession : s.id \in Nat
    BY DEF PublishSession, SessionIds
  <2> QED
    BY <1>1, <2>1 DEF TablesInv, PubIdsUnique
<1>3. SubIdsUnique(N, n2)
  <2>1. \A s \in SubscribeSession : s.id \in Nat
    BY DEF SubscribeSession, SessionIds
  <2> QED
    BY <1>1, <2>1 DEF TablesInv, SubIdsUnique
<1>4. SourcesMade(N, n2)
  <2>1. \A s \in SubscribeSession : \A m \in DOMAIN s.src : s.src[m][1] \in Nat
    BY SourceTyped DEF Pids, Ids, NoPid, SessionIds
  <2> QED
    BY <1>1, <2>1 DEF TablesInv, SourcesMade
<1>5. EntriesLive(N)
  BY <1>1 DEF TablesInv, EntriesLive
<1>6. Served(N, lost2)
  BY <1>1 DEF TablesInv, Served
<1> QED
  BY <1>2, <1>3, <1>4, <1>5, <1>6 DEF TablesInv

(* A publish session gets an id that no subscription has named yet. *)
LEMMA TablesPublish ==
  ASSUME NEW R \in Room, NEW N \in Room, NEW n \in Nat, NEW lost, TablesInv(R, n, lost),
         NEW u \in Uids, NEW s \in PublishSession, s.id = n + 1,
         \A v \in Uids, t \in PublishSession :
           HasPub(N, v, t) <=> HasPub(R, v, t) \/ (v = u /\ t = s),
         \A v \in Uids, t \in SubscribeSession : HasSub(N, v, t) <=> HasSub(R, v, t),
         N.pid2subscribers_ = R.pid2subscribers_
  PROVE  TablesInv(N, n + 1, lost)
<1>1. /\ \A t \in PublishSession : t.id \in Nat
      /\ \A t \in SubscribeSession : t.id \in Nat
      /\ \A t \in SubscribeSession : \A m \in DOMAIN t.src : t.src[m][1] \in Nat
  BY SourceTyped DEF PublishSession, SubscribeSession, SessionIds, Pids, Ids, NoPid
<1>2. PubIdsUnique(N, n + 1)
  <2> SUFFICES ASSUME NEW v \in Uids, NEW w \in Uids,
                      NEW x \in PublishSession, NEW y \in PublishSession,
                      HasPub(N, v, x), HasPub(N, w, y)
               PROVE  x.id <= n + 1 /\ (x.id = y.id => v = w /\ x = y)
    BY DEF PubIdsUnique
  <2>1. HasPub(R, v, x) => x.id <= n
    BY DEF TablesInv, PubIdsUnique
  <2>2. HasPub(R, w, y) => y.id <= n
    BY DEF TablesInv, PubIdsUnique
  <2>3. HasPub(R, v, x) /\ HasPub(R, w, y) => (x.id = y.id => v = w /\ x = y)
    BY DEF TablesInv, PubIdsUnique
  <2> QED
    BY <1>1, <2>1, <2>2, <2>3
<1>3. SubIdsUnique(N, n + 1)
  BY <1>1 DEF TablesInv, SubIdsUnique
<1>4. SourcesMade(N, n + 1)
  BY <1>1 DEF TablesInv, SourcesMade
<1>5. EntriesLive(N)
  BY DEF TablesInv, EntriesLive
<1>6. ASSUME NEW v \in Uids, NEW t \in SubscribeSession, HasSub(R, v, t), NEW m \in DOMAIN t.src
      PROVE  t.src[m] \notin publishers(s)
  <2>1. t.src[m][1] <= n /\ t.src[m][1] \in Nat
    BY <1>1, <1>6 DEF TablesInv, SourcesMade
  <2> QED
    BY <2>1, PublisherIds
<1>7. Served(N, lost)
  BY <1>6 DEF TablesInv, Served
<1> QED
  BY <1>2, <1>3, <1>4, <1>5, <1>7 DEF TablesInv

(* A subscribe session enters its publishers' entries as it is made. *)
LEMMA TablesSubscribe ==
  ASSUME NEW R \in Room, NEW N \in Room, NEW n \in Nat, NEW lost, TablesInv(R, n, lost),
         NEW u \in Uids, NEW s \in SubscribeSession, s.id = n + 1,
         \A m \in DOMAIN s.src : s.src[m][1] <= n,
         \A v \in Uids, t \in PublishSession : HasPub(N, v, t) <=> HasPub(R, v, t),
         \A v \in Uids, t \in SubscribeSession :
           HasSub(N, v, t) <=> HasSub(R, v, t) \/ (v = u /\ t = s),
         \A p \in Pids : \A id : id \in N.pid2subscribers_[p] <=>
           \/ id \in R.pid2subscribers_[p]
           \/ \E m \in DOMAIN s.src : s.src[m] = p /\ id = <<s.id, m>>
  PROVE  TablesInv(N, n + 1, lost)
<1>1. /\ \A t \in PublishSession : t.id \in Nat
      /\ \A t \in SubscribeSession : t.id \in Nat
      /\ \A t \in SubscribeSession : \A m \in DOMAIN t.src :
           t.src[m][1] \in Nat /\ t.src[m] \in Pids
  BY SourceTyped DEF PublishSession, SubscribeSession, SessionIds, Pids, Ids, NoPid
<1>2. SubIdsUnique(N, n + 1)
  <2> SUFFICES ASSUME NEW v \in Uids, NEW w \in Uids,
                      NEW x \in SubscribeSession, NEW y \in SubscribeSession,
                      HasSub(N, v, x), HasSub(N, w, y)
               PROVE  x.id <= n + 1 /\ (x.id = y.id => v = w /\ x = y)
    BY DEF SubIdsUnique
  <2>1. HasSub(R, v, x) => x.id <= n
    BY DEF TablesInv, SubIdsUnique
  <2>2. HasSub(R, w, y) => y.id <= n
    BY DEF TablesInv, SubIdsUnique
  <2>3. HasSub(R, v, x) /\ HasSub(R, w, y) => (x.id = y.id => v = w /\ x = y)
    BY DEF TablesInv, SubIdsUnique
  <2> QED
    BY <1>1, <2>1, <2>2, <2>3
<1>3. PubIdsUnique(N, n + 1)
  BY <1>1 DEF TablesInv, PubIdsUnique
<1>4. SourcesMade(N, n + 1)
  BY <1>1 DEF TablesInv, SourcesMade
<1>5. EntriesLive(N)
  <2> SUFFICES ASSUME NEW p \in Pids, NEW id \in N.pid2subscribers_[p]
               PROVE  \E v \in Uids : \E t \in SubscribeSession :
                        HasSub(N, v, t) /\ id \in subscribers(t) /\ t.src[id[2]] = p
    BY DEF EntriesLive
  <2>1. CASE id \in R.pid2subscribers_[p]
    BY <2>1 DEF TablesInv, EntriesLive
  <2>2. CASE \E m \in DOMAIN s.src : s.src[m] = p /\ id = <<s.id, m>>
    BY <2>2, SubscriberIds
  <2> QED
    BY <2>1, <2>2
<1>6. Served(N, lost)
  <2> SUFFICES ASSUME NEW v \in Uids, NEW w \in Uids,
                      NEW t \in SubscribeSession, NEW q \in PublishSession,
                      HasSub(N, v, t), HasPub(N, w, q), NEW m \in DOMAIN t.src,
                      t.src[m] \in publishers(q), <<t.id, m>> \notin lost
               PROVE  <<t.id, m>> \in N.pid2subscribers_[t.src[m]]
    BY DEF Served
  <2>1. CASE HasSub(R, v, t)
    BY <1>1, <2>1 DEF TablesInv, Served
  <2>2. CASE v = u /\ t = s
    BY <1>1, <2>2
  <2> QED
    BY <2>1, <2>2
<1> QED
  BY <1>2, <1>3, <1>4, <1>5, <1>6 DEF TablesInv

-----------------------------------------------------------------------------
(* A user leaves: users_.erase and notify_userout_to_others. *)
LEMMA LeaveFields ==
  ASSUME NEW R \in Room, NEW u \in members(R), NEW N, N = leave(R, u)
  PROVE  /\ N \in Room
         /\ members(N) = members(R) \ {u}
         /\ \A v \in members(N) : v \in Uids /\ N.users[v] = R.users[v]
         /\ \A p \in Pids : \A id : id \in N.pid2subscribers_[p] <=>
              /\ id \in R.pid2subscribers_[p]
              /\ \A s \in R.users[u].subscribe_sessions_ : id \notin subscribers(s)
         /\ \A v \in members(N) :
              /\ N.told[R.users[v].feedback].users = R.told[R.users[v].feedback].users \ {u}
              /\ N.told[R.users[v].feedback].pubs
                   = {x \in R.told[R.users[v].feedback].pubs : x.uid # u}
<1> DEFINE E == erase_user(R, u)
           t == [c \in Conns |-> [users |-> E.told[c].users \ {u},
                                  pubs |-> {x \in E.told[c].pubs : x.uid # u}]]
<1>1. /\ E \in Room
      /\ members(E) = members(R) \ {u}
      /\ \A v \in Uids : v # u => E.users[v] = R.users[v]
      /\ E.told = R.told
      /\ \A p \in Pids : \A id : id \in E.pid2subscribers_[p] <=>
           /\ id \in R.pid2subscribers_[p]
           /\ \A s \in R.users[u].subscribe_sessions_ : id \notin subscribers(s)
  BY EraseUser
<1>2. N = tell(E, others(E, u), t)
  BY DEF leave, notify_userout_to_others
<1> HIDE DEF E
<1>3. t \in [Conns -> Told]
  BY <1>1 DEF Room, Told
<1>4. \A c \in Conns : t[c] = [users |-> R.told[c].users \ {u},
                               pubs |-> {x \in R.told[c].pubs : x.uid # u}]
  BY <1>1
<1> HIDE DEF t
<1>5. /\ N \in Room
      /\ N.users = E.users
      /\ N.pid2subscribers_ = E.pid2subscribers_
      /\ \A c \in Conns : N.told[c] = IF c \in others(E, u) THEN t[c] ELSE E.told[c]
  BY <1>1, <1>2, <1>3, TellFields
<1>6. members(N) = members(R) \ {u}
  BY <1>1, <1>5, SameUsers
<1>7. \A v \in members(N) : v \in Uids /\ v # u /\ N.users[v] = R.users[v]
  BY <1>1, <1>5, <1>6 DEF members
<1>8. ASSUME NEW v \in members(N)
      PROVE  R.users[v].feedback \in others(E, u) /\ R.users[v].feedback \in Conns
  <2>1. v \in members(E) \ {u} /\ E.users[v] = R.users[v]
    BY <1>1, <1>5, <1>6, <1>7
  <2> QED
    BY <1>6, <1>7, <2>1, Members DEF others
<1>9. ASSUME NEW v \in members(N)
      PROVE  N.told[R.users[v].feedback] = t[R.users[v].feedback]
  BY <1>5, <1>8
<1>10. ASSUME NEW v \in members(N)
       PROVE  /\ N.told[R.users[v].feedback].users = R.told[R.users[v].feedback].users \ {u}
              /\ N.told[R.users[v].feedback].pubs
                   = {x \in R.told[R.users[v].feedback].pubs : x.uid # u}
  <2>1. PICK c \in Conns : c = R.users[v].feedback
    BY <1>8
  <2>2. N.told[c] = [users |-> R.told[c].users \ {u},
                     pubs |-> {x \in R.told[c].pubs : x.uid # u}]
    BY <1>4, <1>9, <2>1
  <2>3. N.told[c].users = R.told[c].users \ {u}
        /\ N.told[c].pubs = {x \in R.told[c].pubs : x.uid # u}
    BY <2>2
  <2> QED
    BY <2>1, <2>3
<1> QED
  BY <1>1, <1>5, <1>6, <1>7, <1>10

LEMMA LeaveTables ==
  ASSUME NEW R \in Room, NEW u \in members(R), NEW N, N = leave(R, u),
         NEW n \in Nat, NEW lost, TablesInv(R, n, lost)
  PROVE  TablesInv(N, n, lost)
<1>1. /\ N \in Room /\ u \in Uids
      /\ members(N) = members(R) \ {u}
      /\ \A v \in members(N) : v \in Uids /\ N.users[v] = R.users[v]
      /\ \A p \in Pids : \A id : id \in N.pid2subscribers_[p] <=>
           /\ id \in R.pid2subscribers_[p]
           /\ \A s \in R.users[u].subscribe_sessions_ : id \notin subscribers(s)
  BY LeaveFields DEF members
<1>2. \A v \in Uids : \A s : /\ HasPub(N, v, s) <=> v # u /\ HasPub(R, v, s)
                             /\ HasSub(N, v, s) <=> v # u /\ HasSub(R, v, s)
  BY <1>1 DEF HasPub, HasSub
<1>3. NothingNew(R, N)
  BY <1>1, <1>2 DEF NothingNew
<1>4. EntriesStay(R, N)
  BY <1>1, <1>2 DEF EntriesStay, HasSub
<1>5. ServedStay(R, N, lost)
  <2> SUFFICES ASSUME NEW v \in Uids, NEW w \in Uids,
                      NEW s \in SubscribeSession, NEW q \in PublishSession,
                      HasSub(N, v, s), HasPub(N, w, q), NEW m \in DOMAIN s.src,
                      <<s.id, m>> \in R.pid2subscribers_[s.src[m]]
               PROVE  <<s.id, m>> \in N.pid2subscribers_[s.src[m]]
    BY DEF ServedStay
  <2>1. v # u /\ HasSub(R, v, s) /\ s.src[m] \in Pids
    BY <1>2, SourceTyped
  <2>2. ASSUME NEW t \in R.users[u].subscribe_sessions_
        PROVE  <<s.id, m>> \notin subscribers(t)
    <3>1. t \in SubscribeSession /\ HasSub(R, u, t)
      BY <1>1, Members DEF HasSub
    <3>2. t.id # s.id
      BY <1>1, <2>1, <3>1 DEF TablesInv, SubIdsUnique
    <3> QED
      BY <3>1, <3>2, SubscriberIds
  <2> QED
    BY <1>1, <2>1, <2>2
<1> QED
  BY <1>1, <1>3, <1>4, <1>5, TablesShrink

LEMMA LeaveViews ==
  ASSUME NEW R \in Room, NEW u \in members(R), NEW N, N = leave(R, u),
         NEW cs, Views(R, cs)
  PROVE  Views(N, cs)
<1>1. /\ N \in Room /\ u \in Uids
      /\ members(N) = members(R) \ {u}
      /\ \A v \in members(N) : v \in Uids /\ N.users[v] = R.users[v]
      /\ \A v \in members(N) :
           /\ N.told[R.users[v].feedback].users = R.told[R.users[v].feedback].users \ {u}
           /\ N.told[R.users[v].feedback].pubs
                = {x \in R.told[R.users[v].feedback].pubs : x.uid # u}
  BY LeaveFields DEF members
<1>2. \A v, p : Publishes(N, v, p) <=> v # u /\ Publishes(R, v, p)
  BY <1>1 DEF Publishes, HasPub
<1> SUFFICES ASSUME NEW v \in members(N), N.users[v].feedback \in cs
             PROVE  /\ N.told[N.users[v].feedback].users = members(N)
                    /\ PubsKnown(N, v, N.told[N.users[v].feedback].pubs)
  BY DEF Views
<1> DEFINE c == R.users[v].feedback
<1>3. /\ N.users[v].feedback = c
      /\ N.told[c].users = R.told[c].users \ {u}
      /\ N.told[c].pubs = {x \in R.told[c].pubs : x.uid # u}
  BY <1>1
<1>4. R.told[c].users = members(R) /\ PubsKnown(R, v, R.told[c].pubs)
  BY <1>1, <1>3 DEF Views
<1> HIDE DEF c
<1>5. PubsKnown(N, v, {x \in R.told[c].pubs : x.uid # u})
  BY <1>2, <1>4 DEF PubsKnown
<1> QED
  BY <1>1, <1>3, <1>4, <1>5

LEMMA LeaveFeedback ==
  ASSUME NEW R \in Room, NEW u \in members(R), NEW N, N = leave(R, u),
         NEW r, NEW cn, Feedback(R, r, cn)
  PROVE  Feedback(N, r, cn)
<1>1. /\ members(N) = members(R) \ {u}
      /\ \A v \in members(N) : N.users[v] = R.users[v]
  BY LeaveFields
<1> QED
  BY <1>1 DEF Feedback

-----------------------------------------------------------------------------
(* A user's record changes: what its other fields and the others have stays. *)
WithUser(R, u, x, subs) == [[R EXCEPT !.users = [R.users EXCEPT ![u] = x]]
                              EXCEPT !.pid2subscribers_ = subs]

LEMMA UserFields ==
  ASSUME NEW R \in Room, NEW u \in Uids, NEW x \in User,
         NEW subs \in [Pids -> SUBSET Ids],
         NEW N, N = WithUser(R, u, x, subs)
  PROVE  /\ N \in Room
         /\ N.users[u] = x
         /\ \A v \in Uids : v # u => N.users[v] = R.users[v]
         /\ N.pid2subscribers_ = subs
         /\ N.told = R.told
         /\ members(N) = members(R) \cup {u}
<1> DEFINE us == [R.users EXCEPT ![u] = x]
<1>1. us \in [Uids -> User \cup {NoUser}] /\ us[u] = x
      /\ \A v \in Uids : v # u => us[v] = R.users[v]
  BY DEF Room
<1>2. N = [[R EXCEPT !.users = us] EXCEPT !.pid2subscribers_ = subs]
  BY DEF WithUser
<1> HIDE DEF us
<1>3. N \in Room /\ N.users = us /\ N.pid2subscribers_ = subs /\ N.told = R.told
  BY <1>1, <1>2 DEF Room
<1>4. members(N) = members(R) \cup {u}
  BY <1>1, <1>3, UserIsNotNoUser DEF members
<1> QED
  BY <1>1, <1>3, <1>4

(* handle_publish: the session enters, notify_publisher_to_others. *)
published(R, u, s) == [R EXCEPT !.users[u].publish_sessions_ = @ \cup {s}]

Notices(u, s) == {[uid |-> u, pid |-> p, pcid |-> s.id] : p \in publishers(s)}

LEMMA PublishFields ==
  ASSUME NEW R \in Room, NEW u \in members(R), NEW s \in PublishSession,
         NEW ps \in SUBSET Notice,
         NEW P, P = published(R, u, s),
         NEW N, N = notify_publisher_to_others(P, u, ps)
  PROVE  /\ N \in Room
         /\ members(N) = members(R)
         /\ \A v \in members(R) : N.users[v].feedback = R.users[v].feedback
         /\ \A v \in Uids : \A t :
                  HasPub(N, v, t) <=> HasPub(R, v, t) \/ (v = u /\ t = s)
         /\ \A v \in Uids : \A t : HasSub(N, v, t) <=> HasSub(R, v, t)
         /\ N.pid2subscribers_ = R.pid2subscribers_
         /\ \A c \in Conns :
              /\ N.told[c].users = R.told[c].users
              /\ N.told[c].pubs = IF c \in others(R, u) THEN R.told[c].pubs \cup ps
                                                        ELSE R.told[c].pubs
<1> DEFINE x == [R.users[u] EXCEPT !.publish_sessions_ = @ \cup {s}]
           t == [c \in Conns |-> [P.told[c] EXCEPT !.pubs = @ \cup ps]]
<1>1. u \in Uids /\ R.users[u] \in User /\ R.users[u] # NoUser
  BY Members DEF members
<1>2. x \in User /\ x.feedback = R.users[u].feedback
      /\ x.publish_sessions_ = R.users[u].publish_sessions_ \cup {s}
      /\ x.subscribe_sessions_ = R.users[u].subscribe_sessions_
  BY <1>1 DEF User
<1> HIDE DEF x
<1>3. P = WithUser(R, u, x, R.pid2subscribers_)
  BY DEF x, Room, published, WithUser
<1>4. R.pid2subscribers_ \in [Pids -> SUBSET Ids]
  BY DEF Room
<1>5. /\ P \in Room
      /\ P.users[u] = x
      /\ \A v \in Uids : v # u => P.users[v] = R.users[v]
      /\ P.pid2subscribers_ = R.pid2subscribers_
      /\ P.told = R.told
      /\ members(P) = members(R) \cup {u}
  BY <1>1, <1>2, <1>3, <1>4, UserFields
<1>6. N = tell(P, others(P, u), t)
  BY DEF notify_publisher_to_others
<1>7. t \in [Conns -> Told]
      /\ \A c \in Conns : t[c].users = R.told[c].users /\ t[c].pubs = R.told[c].pubs \cup ps
  BY <1>5 DEF Room, Told
<1>8. others(P, u) = others(R, u)
  BY <1>5 DEF others, members
<1> HIDE DEF t
<1>9. /\ N \in Room /\ N.users = P.users /\ N.pid2subscribers_ = P.pid2subscribers_
      /\ \A c \in Conns : N.told[c] = IF c \in others(R, u) THEN t[c] ELSE R.told[c]
  BY <1>5, <1>6, <1>7, <1>8, TellFields
<1>10. members(N) = members(R)
       /\ \A v \in members(R) : N.users[v].feedback = R.users[v].feedback
  BY <1>2, <1>5, <1>9, SameUsers DEF members
<1>11. /\ \A v \in Uids : \A y :
                HasPub(N, v, y) <=> HasPub(R, v, y) \/ (v = u /\ y = s)
       /\ \A v \in Uids : \A y : HasSub(N, v, y) <=> HasSub(R, v, y)
  BY <1>2, <1>5, <1>9, <1>10 DEF HasPub, HasSub
<1>12. ASSUME NEW c \in Conns
       PROVE  /\ N.told[c].users = R.told[c].users
              /\ N.told[c].pubs = IF c \in others(R, u) THEN R.told[c].pubs \cup ps
                                                        ELSE R.told[c].pubs
  BY <1>7, <1>9
<1> QED
  BY <1>5, <1>9, <1>10, <1>11, <1>12

LEMMA PublishViews ==
  ASSUME NEW R \in Room, NEW u \in members(R), NEW s \in PublishSession,
         NEW ps, ps = Notices(u, s),
         NEW P, P = published(R, u, s),
         NEW N, N = notify_publisher_to_others(P, u, ps),
         NEW cs, Views(R, cs)
  PROVE  ps \subseteq Notice /\ Views(N, cs)
<1>1. u \in Uids /\ s.id \in SessionIds /\ publishers(s) \subseteq Ids
  BY PublisherIds DEF members, PublishSession
<1>2. /\ ps \subseteq Notice
      /\ \A x \in ps : x.uid = u /\ x.pid \in publishers(s)
      /\ \A p \in publishers(s) : \E x \in ps : x.uid = u /\ x.pid = p
  <2>1. \A x \in ps : \E p \in publishers(s) : x = [uid |-> u, pid |-> p, pcid |-> s.id]
    BY Zenon DEF Notices
  <2>2. \A p \in publishers(s) : [uid |-> u, pid |-> p, pcid |-> s.id] \in ps
    BY DEF Notices
  <2>3. \A x \in ps : x \in Notice /\ x.uid = u /\ x.pid \in publishers(s)
    BY <1>1, <2>1 DEF Notice
  <2>4. ASSUME NEW p \in publishers(s)
        PROVE  \E x \in ps : x.uid = u /\ x.pid = p
    <3>1. PICK x \in ps : x = [uid |-> u, pid |-> p, pcid |-> s.id]
      BY <2>2
    <3>2. x.uid = u /\ x.pid = p
      BY <3>1
    <3> QED
      BY <3>2
  <2> QED
    BY <2>3, <2>4
<1>3. /\ members(N) = members(R)
      /\ \A v \in members(R) : N.users[v].feedback = R.users[v].feedback
      /\ \A v \in Uids : \A t :
               HasPub(N, v, t) <=> HasPub(R, v, t) \/ (v = u /\ t = s)
      /\ \A c \in Conns :
           /\ N.told[c].users = R.told[c].users
           /\ N.told[c].pubs = IF c \in others(R, u) THEN R.told[c].pubs \cup ps
                                                     ELSE R.told[c].pubs
  BY <1>2, PublishFields
<1>4. \A v \in Uids : \A p :
            Publishes(N, v, p) <=> Publishes(R, v, p) \/ (v = u /\ p \in publishers(s))
  BY <1>3 DEF Publishes
<1> SUFFICES ASSUME NEW v \in members(N), N.users[v].feedback \in cs
             PROVE  /\ N.told[N.users[v].feedback].users = members(N)
                    /\ PubsKnown(N, v, N.told[N.users[v].feedback].pubs)
  BY <1>2 DEF Views
<1>5. v \in members(R) /\ v \in Uids
  BY <1>3 DEF members
<1>6. PICK c \in Conns : c = R.users[v].feedback
  BY <1>5, Members
<1>7. N.users[v].feedback = c
  BY <1>3, <1>5, <1>6
<1>8. R.told[c].users = members(R) /\ PubsKnown(R, v, R.told[c].pubs)
  BY <1>5, <1>6, <1>7 DEF Views
<1>9. R.told[c].pubs \subseteq Notice
  BY DEF Room, Told
<1>10. CASE v = u
  <2>1. PubsKnown(N, v, R.told[c].pubs)
    BY <1>4, <1>5, <1>8, <1>9, <1>10 DEF PubsKnown, Notice
  <2>2. PubsKnown(N, v, R.told[c].pubs \cup ps)
    <3>1. \A x \in R.told[c].pubs \cup ps : x.uid # u => x \in R.told[c].pubs
      BY <1>2
    <3> QED
      BY <1>10, <2>1, <3>1 DEF PubsKnown
  <2> QED
    BY <1>3, <1>7, <1>8, <2>1, <2>2
<1>11. CASE v # u
  <2>1. c \in others(R, u)
    BY <1>5, <1>6, <1>11 DEF others
  <2>2. PubsKnown(N, v, R.told[c].pubs \cup ps)
    <3>1. ASSUME NEW x \in R.told[c].pubs \cup ps, x.uid # v
          PROVE  Publishes(N, x.uid, x.pid)
      <4>1. CASE x \in ps
        BY <1>1, <1>2, <1>4, <4>1
      <4>2. CASE x \in R.told[c].pubs
        <5>1. x.uid \in Uids
          BY <1>9, <4>2 DEF Notice
        <5> QED
          BY <1>4, <1>8, <3>1, <4>2, <5>1 DEF PubsKnown
      <4> QED
        BY <4>1, <4>2
    <3>2. ASSUME NEW w \in Uids, NEW p \in Ids, w # v, Publishes(N, w, p)
          PROVE  \E x \in R.told[c].pubs \cup ps : x.uid = w /\ x.pid = p
      <4>1. CASE Publishes(R, w, p)
        BY <1>8, <3>2, <4>1 DEF PubsKnown
      <4>2. CASE w = u /\ p \in publishers(s)
        <5>1. PICK x \in ps : x.uid = u /\ x.pid = p
          BY <1>2, <4>2
        <5> QED
          BY <4>2, <5>1
      <4> QED
        BY <1>4, <3>2, <4>1, <4>2
    <3> QED
      BY <3>1, <3>2 DEF PubsKnown
  <2> QED
    BY <1>3, <1>7, <1>8, <2>1, <2>2
<1> QED
  BY <1>10, <1>11

-----------------------------------------------------------------------------
(* handle_unpublish: the session goes, notify_unpublisher_to_others. *)
unpublished(R, u, s) ==
  [R EXCEPT !.users[u].publish_sessions_ = @ \ {s},
            !.pid2subscribers_ = [p \in Pids |-> IF p \in publishers(s) THEN {} ELSE @[p]]]

LEMMA UnpublishFields ==
  ASSUME NEW R \in Room, NEW u \in members(R), NEW s \in PublishSession,
         NEW P, P = unpublished(R, u, s),
         NEW N, N = notify_unpublisher_to_others(P, u, publishers(s))
  PROVE  /\ N \in Room
         /\ members(N) = members(R)
         /\ \A v \in members(R) : N.users[v].feedback = R.users[v].feedback
         /\ \A v \in Uids : \A t :
                  HasPub(N, v, t) <=> HasPub(R, v, t) /\ ~(v = u /\ t = s)
         /\ \A v \in Uids : \A t : HasSub(N, v, t) <=> HasSub(R, v, t)
         /\ \A p \in Pids : N.pid2subscribers_[p] =
              IF p \in publishers(s) THEN {} ELSE R.pid2subscribers_[p]
         /\ \A c \in Conns :
              /\ N.told[c].users = R.told[c].users
              /\ \A x : x \in N.told[c].pubs <=>
                   x \in R.told[c].pubs /\ (c \in others(R, u) => x.pid \notin publishers(s))
<1> DEFINE x == [R.users[u] EXCEPT !.publish_sessions_ = @ \ {s}]
           subs == [p \in Pids |-> IF p \in publishers(s) THEN {} ELSE R.pid2subscribers_[p]]
           t == [c \in Conns |->
                   [P.told[c] EXCEPT !.pubs = {y \in @ : y.pid \notin publishers(s)}]]
<1>1. u \in Uids /\ R.users[u] \in User /\ R.users[u] # NoUser
  BY Members DEF members
<1>2. x \in User /\ x.feedback = R.users[u].feedback
      /\ x.publish_sessions_ = R.users[u].publish_sessions_ \ {s}
      /\ x.subscribe_sessions_ = R.users[u].subscribe_sessions_
  BY <1>1 DEF User
<1>3. /\ subs \in [Pids -> SUBSET Ids]
      /\ \A p \in Pids : subs[p] = IF p \in publishers(s) THEN {} ELSE R.pid2subscribers_[p]
  BY DEF Room
<1> HIDE DEF x
<1>4. P = WithUser(R, u, x, subs)
  BY DEF x, Room, unpublished, WithUser
<1> HIDE DEF subs
<1>5. /\ P \in Room
      /\ P.users[u] = x
      /\ \A v \in Uids : v # u => P.users[v] = R.users[v]
      /\ P.pid2subscribers_ = subs
      /\ P.told = R.told
      /\ members(P) = members(R) \cup {u}
  BY <1>1, <1>2, <1>3, <1>4, UserFields
<1>6. N = tell(P, others(P, u), t)
  BY DEF notify_unpublisher_to_others
<1>7. /\ t \in [Conns -> Told]
      /\ \A c \in Conns : t[c].users = R.told[c].users
      /\ \A c \in Conns : t[c].pubs = {y \in R.told[c].pubs : y.pid \notin publishers(s)}
  BY <1>5 DEF Room, Told
<1>8. others(P, u) = others(R, u)
  BY <1>5 DEF others, members
<1> HIDE DEF t
<1>9. /\ N \in Room /\ N.users = P.users /\ N.pid2subscribers_ = P.pid2subscribers_
      /\ \A c \in Conns : N.told[c] = IF c \in others(R, u) THEN t[c] ELSE R.told[c]
  BY <1>5, <1>6, <1>7, <1>8, TellFields
<1>10. members(N) = members(R)
       /\ \A v \in members(R) : N.users[v].feedback = R.users[v].feedback
  BY <1>2, <1>5, <1>9, SameUsers DEF members
<1>11. /\ \A v \in Uids : \A y :
                HasPub(N, v, y) <=> HasPub(R, v, y) /\ ~(v = u /\ y = s)
       /\ \A v \in Uids : \A y : HasSub(N, v, y) <=> HasSub(R, v, y)
  BY <1>2, <1>5, <1>9, <1>10 DEF HasPub, HasSub
<1>12. ASSUME NEW c \in Conns
       PROVE  /\ N.told[c].users = R.told[c].users
              /\ \A y : y \in N.told[c].pubs <=>
                   y \in R.told[c].pubs /\ (c \in others(R, u) => y.pid \notin publishers(s))
  BY <1>7, <1>9
<1> QED
  BY <1>3, <1>5, <1>9, <1>10, <1>11, <1>12

LEMMA UnpublishTables ==
  ASSUME NEW R \in Room, NEW u \in members(R), NEW s \in PublishSession, HasPub(R, u, s),
         NEW P, P = unpublished(R, u, s),
         NEW N, N = notify_unpublisher_to_others(P, u, publishers(s)),
         NEW n \in Nat, NEW lost, TablesInv(R, n, lost)
  PROVE  TablesInv(N, n, lost)
<1>1. /\ N \in Room
      /\ \A v \in Uids : \A t :
               HasPub(N, v, t) <=> HasPub(R, v, t) /\ ~(v = u /\ t = s)
      /\ \A v \in Uids : \A t : HasSub(N, v, t) <=> HasSub(R, v, t)
      /\ \A p \in Pids : N.pid2subscribers_[p] =
           IF p \in publishers(s) THEN {} ELSE R.pid2subscribers_[p]
  BY UnpublishFields
<1>2. NothingNew(R, N)
  BY <1>1 DEF NothingNew
<1>3. EntriesStay(R, N)
  BY <1>1 DEF EntriesStay
<1>4. ServedStay(R, N, lost)
  <2> SUFFICES ASSUME NEW v \in Uids, NEW w \in Uids,
                      NEW t \in SubscribeSession, NEW q \in PublishSession,
                      HasSub(N, v, t), HasPub(N, w, q), NEW m \in DOMAIN t.src,
                      t.src[m] \in publishers(q),
                      <<t.id, m>> \in R.pid2subscribers_[t.src[m]]
               PROVE  <<t.id, m>> \in N.pid2subscribers_[t.src[m]]
    BY DEF ServedStay
  <2>1. HasPub(R, w, q) /\ ~(w = u /\ q = s) /\ u \in Uids
    BY <1>1 DEF members
  <2>2. q.id # s.id
    BY <2>1 DEF TablesInv, PubIdsUnique
  <2>3. t.src[m] \notin publishers(s)
    BY <2>2, PublisherIds
  <2>4. t.src[m] \in Pids
    BY SourceTyped
  <2> QED
    BY <1>1, <2>3, <2>4
<1> QED
  BY <1>1, <1>2, <1>3, <1>4, TablesShrink

LEMMA UnpublishViews ==
  ASSUME NEW R \in Room, NEW u \in members(R), NEW s \in PublishSession, HasPub(R, u, s),
         NEW P, P = unpublished(R, u, s),
         NEW N, N = notify_unpublisher_to_others(P, u, publishers(s)),
         NEW n \in Nat, NEW lost, TablesInv(R, n, lost),
         NEW cs, Views(R, cs)
  PROVE  Views(N, cs)
<1>1. /\ members(N) = members(R)
      /\ \A v \in members(R) : N.users[v].feedback = R.users[v].feedback
      /\ \A v \in Uids : \A t :
               HasPub(N, v, t) <=> HasPub(R, v, t) /\ ~(v = u /\ t = s)
      /\ \A c \in Conns :
           /\ N.told[c].users = R.told[c].users
           /\ \A x : x \in N.told[c].pubs <=>
                x \in R.told[c].pubs /\ (c \in others(R, u) => x.pid \notin publishers(s))
  BY UnpublishFields
<1>2. u \in Uids
  BY DEF members
<1>3. ASSUME NEW v \in Uids, NEW p
      PROVE  Publishes(N, v, p) <=> Publishes(R, v, p) /\ p \notin publishers(s)
  <2>1. ASSUME NEW t \in PublishSession, HasPub(R, v, t), p \in publishers(t)
        PROVE  (v = u /\ t = s) <=> p \in publishers(s)
    <3>1. t.id = s.id => v = u /\ t = s
      BY <1>2, <2>1 DEF TablesInv, PubIdsUnique
    <3> QED
      BY <2>1, <3>1, PublisherIds
  <2> QED
    BY <1>1, <2>1 DEF Publishes
<1> SUFFICES ASSUME NEW v \in members(N), N.users[v].feedback \in cs
             PROVE  /\ N.told[N.users[v].feedback].users = members(N)
                    /\ PubsKnown(N, v, N.told[N.users[v].feedback].pubs)
  BY DEF Views
<1>5. v \in members(R) /\ v \in Uids
  BY <1>1 DEF members
<1>6. PICK c \in Conns : c = R.users[v].feedback
  BY <1>5, Members
<1>7. N.users[v].feedback = c
  BY <1>1, <1>5, <1>6
<1>8. R.told[c].users = members(R) /\ PubsKnown(R, v, R.told[c].pubs)
  BY <1>5, <1>6, <1>7 DEF Views
<1>9. R.told[c].pubs \subseteq Notice
  BY DEF Room, Told
<1>10. PubsKnown(N, v, N.told[c].pubs)
  <2>1. ASSUME NEW x \in N.told[c].pubs, x.uid # v
        PROVE  Publishes(N, x.uid, x.pid)
    <3>1. x \in R.told[c].pubs /\ x.uid \in Uids
      BY <1>1, <1>9 DEF Notice
    <3>2. Publishes(R, x.uid, x.pid)
      BY <1>8, <2>1, <3>1 DEF PubsKnown
    <3>3. CASE c \in others(R, u)
      BY <1>1, <1>3, <3>1, <3>2, <3>3
    <3>4. CASE c \notin others(R, u)
      <4>1. v = u
        BY <1>5, <1>6, <3>4 DEF others
      <4>2. PICK t \in PublishSession : HasPub(R, x.uid, t) /\ x.pid \in publishers(t)
        BY <3>2 DEF Publishes
      <4>3. HasPub(N, x.uid, t)
        BY <1>1, <2>1, <3>1, <4>1, <4>2
      <4> QED
        BY <4>2, <4>3 DEF Publishes
    <3> QED
      BY <3>3, <3>4
  <2>2. ASSUME NEW w \in Uids, NEW p \in Ids, w # v, Publishes(N, w, p)
        PROVE  \E x \in N.told[c].pubs : x.uid = w /\ x.pid = p
    <3>1. Publishes(R, w, p) /\ p \notin publishers(s)
      BY <1>3, <2>2
    <3>2. PICK x \in R.told[c].pubs : x.uid = w /\ x.pid = p
      BY <1>8, <2>2, <3>1 DEF PubsKnown
    <3> QED
      BY <1>1, <3>1, <3>2
  <2> QED
    BY <2>1, <2>2 DEF PubsKnown
<1> QED
  BY <1>1, <1>7, <1>8, <1>10

-----------------------------------------------------------------------------
(* Subscribing and unsubscribing tell nobody. *)
LEMMA ViewsSame ==
  ASSUME NEW R \in Room, NEW N \in Room,
         members(N) = members(R),
         \A v \in members(R) : N.users[v].feedback = R.users[v].feedback,
         \A v \in Uids : \A t : HasPub(N, v, t) <=> HasPub(R, v, t),
         N.told = R.told,
         NEW cs, Views(R, cs)
  PROVE  Views(N, cs)
<1>1. \A v \in Uids : \A p : Publishes(N, v, p) <=> Publishes(R, v, p)
  BY DEF Publishes
<1> SUFFICES ASSUME NEW v \in members(N), N.users[v].feedback \in cs
             PROVE  /\ N.told[N.users[v].feedback].users = members(N)
                    /\ PubsKnown(N, v, N.told[N.users[v].feedback].pubs)
  BY DEF Views
<1>2. v \in Uids
  BY DEF members
<1>3. PICK c \in Conns : c = R.users[v].feedback
  BY <1>2, Members
<1>4. R.told[c].users = members(R) /\ PubsKnown(R, v, R.told[c].pubs)
  BY <1>3 DEF Views
<1>5. R.told[c].pubs \subseteq Notice
  BY DEF Room, Told
<1>6. \A x \in R.told[c].pubs : x.uid \in Uids
  BY <1>5 DEF Notice
<1>7. PubsKnown(N, v, R.told[c].pubs)
  BY <1>1, <1>4, <1>6 DEF PubsKnown
<1> QED
  BY <1>3, <1>4, <1>7

LEMMA FeedbackSame ==
  ASSUME NEW R, NEW N, members(N) = members(R),
         \A v \in members(R) : N.users[v].feedback = R.users[v].feedback,
         NEW r, NEW cn, Feedback(R, r, cn)
  PROVE  Feedback(N, r, cn)
  BY DEF Feedback

(* subscribed: the session enters, insert_subscriber. *)
LEMMA SubscribeFields ==
  ASSUME NEW R \in Room, NEW u \in members(R), NEW s \in SubscribeSession,
         NEW N, N = subscribed(R, u, s)
  PROVE  /\ N \in Room
         /\ members(N) = members(R)
         /\ \A v \in members(R) : N.users[v].feedback = R.users[v].feedback
         /\ \A v \in Uids : \A t : HasPub(N, v, t) <=> HasPub(R, v, t)
         /\ \A v \in Uids : \A t : HasSub(N, v, t) <=> HasSub(R, v, t) \/ (v = u /\ t = s)
         /\ \A p \in Pids : \A id : id \in N.pid2subscribers_[p] <=>
              \/ id \in R.pid2subscribers_[p]
              \/ \E m \in DOMAIN s.src : s.src[m] = p /\ id = <<s.id, m>>
         /\ N.told = R.told
<1> DEFINE x == [R.users[u] EXCEPT !.subscribe_sessions_ = @ \cup {s}]
           subs == insert_subscriber(R.pid2subscribers_, s)
<1>1. u \in Uids /\ R.users[u] \in User /\ R.users[u] # NoUser
  BY Members DEF members
<1>2. x \in User /\ x.feedback = R.users[u].feedback
      /\ x.publish_sessions_ = R.users[u].publish_sessions_
      /\ x.subscribe_sessions_ = R.users[u].subscribe_sessions_ \cup {s}
  BY <1>1 DEF User
<1>3. R.pid2subscribers_ \in [Pids -> SUBSET Ids]
  BY DEF Room
<1>4. \A m \in DOMAIN s.src : <<s.id, m>> \in Ids
  BY SourceTyped DEF Ids
<1>5. /\ subs \in [Pids -> SUBSET Ids]
      /\ \A p \in Pids : \A id : id \in subs[p] <=>
           \/ id \in R.pid2subscribers_[p]
           \/ \E m \in DOMAIN s.src : s.src[m] = p /\ id = <<s.id, m>>
  BY <1>3, <1>4 DEF insert_subscriber
<1> HIDE DEF x, subs
<1>6. N = WithUser(R, u, x, subs)
  BY DEF x, subs, Room, subscribed, WithUser
<1>7. /\ N \in Room
      /\ N.users[u] = x
      /\ \A v \in Uids : v # u => N.users[v] = R.users[v]
      /\ N.pid2subscribers_ = subs
      /\ N.told = R.told
      /\ members(N) = members(R) \cup {u}
  BY <1>1, <1>2, <1>5, <1>6, UserFields
<1>8. members(N) = members(R)
      /\ \A v \in members(R) : N.users[v].feedback = R.users[v].feedback
  BY <1>2, <1>7 DEF members
<1>9. /\ \A v \in Uids : \A y : HasPub(N, v, y) <=> HasPub(R, v, y)
      /\ \A v \in Uids : \A y : HasSub(N, v, y) <=> HasSub(R, v, y) \/ (v = u /\ y = s)
  BY <1>2, <1>7, <1>8 DEF HasPub, HasSub
<1> QED
  BY <1>5, <1>7, <1>8, <1>9

(* handle_unsubscribe: the session goes; subs is what is left of the table. *)
unsubscribed(R, u, s, subs) ==
  [R EXCEPT !.users[u].subscribe_sessions_ = @ \ {s}, !.pid2subscribers_ = subs]

LEMMA UnsubscribeFields ==
  ASSUME NEW R \in Room, NEW u \in members(R), NEW s \in SubscribeSession,
         NEW subs \in [Pids -> SUBSET Ids],
         NEW N, N = unsubscribed(R, u, s, subs)
  PROVE  /\ N \in Room
         /\ members(N) = members(R)
         /\ \A v \in members(R) : N.users[v].feedback = R.users[v].feedback
         /\ \A v \in Uids : \A t : HasPub(N, v, t) <=> HasPub(R, v, t)
         /\ \A v \in Uids : \A t : HasSub(N, v, t) <=> HasSub(R, v, t) /\ ~(v = u /\ t = s)
         /\ N.pid2subscribers_ = subs
         /\ N.told = R.told
<1> DEFINE x == [R.users[u] EXCEPT !.subscribe_sessions_ = @ \ {s}]
<1>1. u \in Uids /\ R.users[u] \in User /\ R.users[u] # NoUser
  BY Members DEF members
<1>2. x \in User /\ x.feedback = R.users[u].feedback
      /\ x.publish_sessions_ = R.users[u].publish_sessions_
      /\ x.subscribe_sessions_ = R.users[u].subscribe_sessions_ \ {s}
  BY <1>1 DEF User
<1> HIDE DEF x
<1>3. N = WithUser(R, u, x, subs)
  BY DEF x, Room, unsubscribed, WithUser
<1>4. /\ N \in Room
      /\ N.users[u] = x
      /\ \A v \in Uids : v # u => N.users[v] = R.users[v]
      /\ N.pid2subscribers_ = subs
      /\ N.told = R.told
      /\ members(N) = members(R) \cup {u}
  BY <1>1, <1>2, <1>3, UserFields
<1>5. members(N) = members(R)
      /\ \A v \in members(R) : N.users[v].feedback = R.users[v].feedback
  BY <1>2, <1>4 DEF members
<1>6. /\ \A v \in Uids : \A y : HasPub(N, v, y) <=> HasPub(R, v, y)
      /\ \A v \in Uids : \A y : HasSub(N, v, y) <=> HasSub(R, v, y) /\ ~(v = u /\ y = s)
  BY <1>2, <1>4, <1>5 DEF HasPub, HasSub
<1> QED
  BY <1>4, <1>5, <1>6

(* The entries of the named publishers go, and are known to be cut off. *)
CutOff(own, named, subs, lost) ==
  /\ \A p \in Pids : subs[p] = IF p \in named THEN {} ELSE own[p]
  /\ \A p \in named : own[p] \subseteq lost

LEMMA UnsubscribeTables ==
  ASSUME NEW R \in Room, NEW u \in members(R), NEW s \in SubscribeSession, HasSub(R, u, s),
         NEW own, own = on_unsubscribe(R.pid2subscribers_, {s}),
         NEW named \in SUBSET Pids,
         NEW subs \in [Pids -> SUBSET Ids],
         NEW N, N = unsubscribed(R, u, s, subs),
         NEW n \in Nat, NEW lost, NEW lost2, TablesInv(R, n, lost), lost \subseteq lost2,
         CutOff(own, named, subs, lost2)
  PROVE  TablesInv(N, n, lost2)
<1>1. /\ N \in Room
      /\ \A v \in Uids : \A t : HasPub(N, v, t) <=> HasPub(R, v, t)
      /\ \A v \in Uids : \A t : HasSub(N, v, t) <=> HasSub(R, v, t) /\ ~(v = u /\ t = s)
      /\ N.pid2subscribers_ = subs
  BY UnsubscribeFields
<1>2. R.pid2subscribers_ \in [Pids -> SUBSET Ids] /\ u \in Uids
  BY DEF Room, members
<1>3. \A p \in Pids : \A id : id \in own[p] <=>
        id \in R.pid2subscribers_[p] /\ id \notin subscribers(s)
  BY <1>2, OnUnsubscribe
<1>4. NothingNew(R, N)
  BY <1>1, <1>3 DEF NothingNew, CutOff
<1>5. EntriesStay(R, N)
  BY <1>1, <1>3 DEF EntriesStay, CutOff
<1>6. ServedStay(R, N, lost2)
  <2> SUFFICES ASSUME NEW v \in Uids, NEW w \in Uids,
                      NEW t \in SubscribeSession, NEW q \in PublishSession,
                      HasSub(N, v, t), HasPub(N, w, q), NEW m \in DOMAIN t.src,
                      <<t.id, m>> \notin lost2,
                      <<t.id, m>> \in R.pid2subscribers_[t.src[m]]
               PROVE  <<t.id, m>> \in N.pid2subscribers_[t.src[m]]
    BY DEF ServedStay
  <2>1. HasSub(R, v, t) /\ ~(v = u /\ t = s)
    BY <1>1
  <2>2. t.id # s.id
    BY <1>2, <2>1 DEF TablesInv, SubIdsUnique
  <2>3. <<t.id, m>> \notin subscribers(s) /\ t.src[m] \in Pids
    BY <2>2, SubscriberIds, SourceTyped
  <2>4. <<t.id, m>> \in own[t.src[m]]
    BY <1>3, <2>3
  <2> QED
    BY <1>1, <2>3, <2>4 DEF CutOff
<1> QED
  BY <1>1, <1>4, <1>5, <1>6, TablesShrink

-----------------------------------------------------------------------------
(* What the newcomer u is sent: the publishers of the others, each with the *)
(* pcid of the session its user's loop came to last.                        *)
Sent(R, x, last) ==
  {[p EXCEPT !.pcid = last[x]] : p \in get_publishs_information(R, x)}

AllSent(R, u, last) == UNION {Sent(R, x, last) : x \in members(R) \ {u}}

LEMMA Information ==
  ASSUME NEW R \in Room, NEW v \in members(R)
  PROVE  /\ \A x \in get_publishs_information(R, v) :
              x \in Notice /\ x.uid = v /\ Publishes(R, v, x.pid)
         /\ \A p : Publishes(R, v, p) =>
              \E x \in get_publishs_information(R, v) : x.pid = p
<1>1. v \in Uids /\ R.users[v].publish_sessions_ \subseteq PublishSession
  BY Members DEF members
<1>2. ASSUME NEW x \in get_publishs_information(R, v)
      PROVE  x \in Notice /\ x.uid = v /\ Publishes(R, v, x.pid)
  <2>0. PICK s \in R.users[v].publish_sessions_ :
          \E p \in publishers(s) : x = [uid |-> v, pid |-> p, pcid |-> s.id]
    BY <1>2 DEF get_publishs_information
  <2>1. PICK p \in publishers(s) : x = [uid |-> v, pid |-> p, pcid |-> s.id]
    BY <2>0
  <2>2. s \in PublishSession /\ s.id \in SessionIds /\ p \in Ids
    BY <1>1, <2>1, PublisherIds DEF PublishSession
  <2>3. x \in Notice /\ x.uid = v /\ x.pid = p
    BY <1>1, <2>1, <2>2 DEF Notice
  <2>4. HasPub(R, v, s)
    BY DEF HasPub
  <2> QED
    BY <2>2, <2>3, <2>4 DEF Publishes
<1>3. ASSUME NEW p, Publishes(R, v, p)
      PROVE  \E x \in get_publishs_information(R, v) : x.pid = p
  <2>1. PICK s \in R.users[v].publish_sessions_ : p \in publishers(s)
    BY <1>3 DEF Publishes, HasPub
  <2>2. [uid |-> v, pid |-> p, pcid |-> s.id] \in get_publishs_information(R, v)
    BY <2>1 DEF get_publishs_information
  <2>3. PICK x \in get_publishs_information(R, v) : x = [uid |-> v, pid |-> p, pcid |-> s.id]
    BY <2>2
  <2> QED
    BY <2>3
<1> QED
  BY <1>2, <1>3

(* A user that has a publisher has a last session. *)
LEMMA LastSession ==
  ASSUME NEW R \in Room, NEW last \in last_sessions(R), NEW v \in members(R),
         NEW p, Publishes(R, v, p)
  PROVE  last[v] \in SessionIds
<1>1. PICK s \in PublishSession : HasPub(R, v, s) /\ p \in publishers(s)
  BY DEF Publishes
<1>2. v \in Uids /\ R.users[v] # NoUser /\ s \in R.users[v].publish_sessions_ /\ s.medias # {}
  BY <1>1 DEF HasPub, publishers, members
<1> DEFINE own == {z.id : z \in {y \in R.users[v].publish_sessions_ : y.medias # {}}}
<1>3. own # {} /\ own \subseteq SessionIds
  BY <1>2, Members DEF PublishSession
<1>4. IF own = {} THEN last[v] = 0 ELSE last[v] \in own
  BY <1>2 DEF last_sessions
<1> QED
  BY <1>3, <1>4

LEMMA AllSentKnown ==
  ASSUME NEW R \in Room, NEW u \in Uids, NEW last,
         \A v \in members(R) : \A p : v # u /\ Publishes(R, v, p) => last[v] \in SessionIds
  PROVE  /\ AllSent(R, u, last) \subseteq Notice
         /\ \A x \in AllSent(R, u, last) : Publishes(R, x.uid, x.pid)
         /\ PubsKnown(R, u, AllSent(R, u, last))
<1>1. ASSUME NEW x \in AllSent(R, u, last)
      PROVE  x \in Notice /\ Publishes(R, x.uid, x.pid)
  <2>1. PICK v \in members(R) \ {u} : x \in Sent(R, v, last)
    BY <1>1 DEF AllSent
  <2>2. PICK y \in get_publishs_information(R, v) : x = [y EXCEPT !.pcid = last[v]]
    BY <2>1 DEF Sent
  <2>3. y \in Notice /\ y.uid = v /\ Publishes(R, v, y.pid)
    BY <2>2, Information
  <2>4. last[v] \in SessionIds
    BY <2>1, <2>3
  <2>5. x \in Notice /\ x.uid = y.uid /\ x.pid = y.pid
    BY <2>2, <2>3, <2>4 DEF Notice
  <2> QED
    BY <2>3, <2>5
<1>2. ASSUME NEW v \in Uids, NEW p \in Ids, v # u, Publishes(R, v, p)
      PROVE  \E x \in AllSent(R, u, last) : x.uid = v /\ x.pid = p
  <2>1. v \in members(R) \ {u}
    BY <1>2 DEF Publishes, HasPub
  <2>2. PICK y \in get_publishs_information(R, v) : y.pid = p
    BY <1>2, <2>1, Information
  <2>3. y \in Notice /\ y.uid = v
    BY <2>1, <2>2, Information
  <2>4. [y EXCEPT !.pcid = last[v]] \in Sent(R, v, last)
    BY DEF Sent
  <2>5. PICK x \in AllSent(R, u, last) : x = [y EXCEPT !.pcid = last[v]]
    BY <2>1, <2>4 DEF AllSent
  <2>6. x.uid = v /\ x.pid = p
    BY <2>2, <2>3, <2>5 DEF Notice
  <2> QED
    BY <2>6
<1> QED
  BY <1>1, <1>2 DEF PubsKnown

-----------------------------------------------------------------------------
(* handle_join: the user enters, notify_userin_to_others, the answer and    *)
(* notify_others_publisher_to_me.                                           *)
NewUser(c) == [feedback |-> c, publish_sessions_ |-> {}, subscribe_sessions_ |-> {}]

joined(R, u, c) == [R EXCEPT !.users[u] = NewUser(c)]

accepted(J, u, c) ==
  tell(notify_userin_to_others(J, u), {c},
       [d \in Conns |-> [users |-> members(J), pubs |-> {}]])

NewcomerTold(R, N, u, c) ==
  /\ N.told[c].users = members(N)
  /\ PubsKnown(N, u, N.told[c].pubs)
  /\ \A x \in N.told[c].pubs : Publishes(N, x.uid, x.pid)
  /\ \A d \in Conns \ {c} :
       /\ N.told[d].pubs = R.told[d].pubs
       /\ N.told[d].users = IF d \in others(N, u) THEN R.told[d].users \cup {u}
                                                  ELSE R.told[d].users

LEMMA JoinFields ==
  ASSUME NEW R \in Room, NEW u \in Uids, R.users[u] = NoUser, NEW c \in Conns,
         NEW last \in last_sessions(R),
         NEW J, J = joined(R, u, c),
         NEW A, A = accepted(J, u, c),
         NEW N, N = notify_others_publisher_to_me(A, u, c, last)
  PROVE  /\ N \in Room
         /\ members(N) = members(R) \cup {u}
         /\ N.users[u].feedback = c
         /\ \A v \in members(R) : v # u /\ N.users[v] = R.users[v]
         /\ \A v \in Uids : \A t : HasPub(N, v, t) <=> HasPub(R, v, t)
         /\ \A v \in Uids : \A t : HasSub(N, v, t) <=> HasSub(R, v, t)
         /\ N.pid2subscribers_ = R.pid2subscribers_
         /\ NewcomerTold(R, N, u, c)
<1> DEFINE x == NewUser(c)
<1>1. x \in User /\ x.feedback = c /\ x.publish_sessions_ = {} /\ x.subscribe_sessions_ = {}
  BY DEF User, NewUser
<1> HIDE DEF x
<1>2. J = WithUser(R, u, x, R.pid2subscribers_)
  BY DEF joined, WithUser, x, Room
<1>3. R.pid2subscribers_ \in [Pids -> SUBSET Ids]
  BY DEF Room
<1>4. /\ J \in Room
      /\ J.users[u] = x
      /\ \A v \in Uids : v # u => J.users[v] = R.users[v]
      /\ J.pid2subscribers_ = R.pid2subscribers_
      /\ J.told = R.told
      /\ members(J) = members(R) \cup {u}
  BY <1>1, <1>2, <1>3, UserFields
<1>5. u \notin members(R)
  BY DEF members
<1>6. /\ \A v \in Uids : \A t : HasPub(J, v, t) <=> HasPub(R, v, t)
      /\ \A v \in Uids : \A t : HasSub(J, v, t) <=> HasSub(R, v, t)
  BY <1>1, <1>4, <1>5 DEF HasPub, HasSub
<1>7. \A v \in Uids : \A p : Publishes(J, v, p) <=> Publishes(R, v, p)
  BY <1>6 DEF Publishes
<1> DEFINE t1 == [d \in Conns |-> [J.told[d] EXCEPT !.users = @ \cup {u}]]
           B == notify_userin_to_others(J, u)
<1>8. /\ t1 \in [Conns -> Told]
      /\ \A d \in Conns : t1[d].users = R.told[d].users \cup {u} /\ t1[d].pubs = R.told[d].pubs
  BY <1>4 DEF Room, Told
<1>9. B = tell(J, others(J, u), t1)
  BY DEF notify_userin_to_others
<1> HIDE DEF t1, B
<1>10. /\ B \in Room /\ B.users = J.users /\ B.pid2subscribers_ = J.pid2subscribers_
       /\ \A d \in Conns : B.told[d] = IF d \in others(J, u) THEN t1[d] ELSE J.told[d]
  BY <1>4, <1>8, <1>9, TellFields
<1> DEFINE t2 == [d \in Conns |-> [users |-> members(J), pubs |-> {}]]
<1>11. /\ t2 \in [Conns -> Told]
       /\ \A d \in Conns : t2[d].users = members(J)
  BY DEF Told, members
<1>12. A = tell(B, {c}, t2)
  BY DEF accepted, B
<1> HIDE DEF t2
<1>13. /\ A \in Room /\ A.users = J.users /\ A.pid2subscribers_ = J.pid2subscribers_
       /\ A.told[c].users = members(J)
       /\ \A d \in Conns : d # c => A.told[d] = B.told[d]
  BY <1>10, <1>11, <1>12, TellFields
<1>14. /\ members(A) = members(J)
       /\ \A v, t : HasPub(A, v, t) <=> HasPub(J, v, t)
       /\ \A v, t : HasSub(A, v, t) <=> HasSub(J, v, t)
       /\ \A v, p : Publishes(A, v, p) <=> Publishes(J, v, p)
       /\ others(A, u) = others(J, u)
  BY <1>13, SameUsers
<1>15. ASSUME NEW v \in members(A), NEW p, v # u, Publishes(A, v, p)
       PROVE  last[v] \in SessionIds
  <2>1. v \in members(R) /\ Publishes(R, v, p)
    BY <1>4, <1>7, <1>14, <1>15 DEF members
  <2> QED
    BY <2>1, LastSession
<1> DEFINE all == AllSent(A, u, last)
           t3 == [d \in Conns |-> [A.told[d] EXCEPT !.pubs = all]]
<1>16. /\ all \subseteq Notice
       /\ \A y \in all : Publishes(A, y.uid, y.pid)
       /\ PubsKnown(A, u, all)
  BY <1>13, <1>15, AllSentKnown
<1>17. N = tell(A, {c}, t3)
  BY DEF notify_others_publisher_to_me, AllSent, Sent
<1> HIDE DEF all
<1>18. /\ t3 \in [Conns -> Told]
       /\ \A d \in Conns : t3[d].users = A.told[d].users /\ t3[d].pubs = all
  BY <1>13, <1>16 DEF Room, Told
<1> HIDE DEF t3
<1>19. /\ N \in Room /\ N.users = A.users /\ N.pid2subscribers_ = A.pid2subscribers_
       /\ N.told[c].users = members(J) /\ N.told[c].pubs = all
       /\ \A d \in Conns : d # c => N.told[d] = A.told[d]
  BY <1>13, <1>17, <1>18, TellFields
<1>20. /\ members(N) = members(A)
       /\ \A v, t : HasPub(N, v, t) <=> HasPub(A, v, t)
       /\ \A v, t : HasSub(N, v, t) <=> HasSub(A, v, t)
       /\ \A v, p : Publishes(N, v, p) <=> Publishes(A, v, p)
       /\ others(N, u) = others(A, u)
  BY <1>19, SameUsers
<1>21. /\ PubsKnown(N, u, N.told[c].pubs)
       /\ \A y \in N.told[c].pubs : Publishes(N, y.uid, y.pid)
  BY <1>16, <1>19, <1>20 DEF PubsKnown
<1>22. ASSUME NEW d \in Conns, d # c
       PROVE  /\ N.told[d].pubs = R.told[d].pubs
              /\ N.told[d].users = IF d \in others(N, u) THEN R.told[d].users \cup {u}
                                                         ELSE R.told[d].users
  <2>1. N.told[d] = IF d \in others(N, u) THEN t1[d] ELSE R.told[d]
    BY <1>4, <1>10, <1>13, <1>14, <1>19, <1>20, <1>22
  <2> QED
    BY <1>8, <2>1
<1>23. \A v \in members(R) : v # u /\ N.users[v] = R.users[v]
  BY <1>4, <1>5, <1>13, <1>19 DEF members
<1>24. /\ \A v \in Uids : \A t : HasPub(N, v, t) <=> HasPub(R, v, t)
       /\ \A v \in Uids : \A t : HasSub(N, v, t) <=> HasSub(R, v, t)
  BY <1>6, <1>14, <1>20
<1>25. NewcomerTold(R, N, u, c)
  BY <1>14, <1>19, <1>20, <1>21, <1>22 DEF NewcomerTold
<1> QED
  BY <1>1, <1>4, <1>13, <1>14, <1>19, <1>20, <1>23, <1>24, <1>25

(* The newcomer knows everybody, and everybody knows the newcomer. *)
LEMMA JoinRoom ==
  ASSUME NEW R \in Room, NEW u \in Uids, R.users[u] = NoUser, NEW c \in Conns,
         NEW last \in last_sessions(R),
         NEW J, J = joined(R, u, c),
         NEW A, A = accepted(J, u, c),
         NEW N, N = notify_others_publisher_to_me(A, u, c, last),
         NEW n \in Nat, NEW lost, TablesInv(R, n, lost),
         NEW cs, Views(R, cs)
  PROVE  TablesInv(N, n, lost) /\ Views(N, cs)
<1>1. /\ N \in Room
      /\ members(N) = members(R) \cup {u}
      /\ N.users[u].feedback = c
      /\ \A v \in members(R) : v # u /\ N.users[v] = R.users[v]
      /\ \A v \in Uids : \A t : HasPub(N, v, t) <=> HasPub(R, v, t)
      /\ \A v \in Uids : \A t : HasSub(N, v, t) <=> HasSub(R, v, t)
      /\ N.pid2subscribers_ = R.pid2subscribers_
  BY JoinFields
<1>2. NewcomerTold(R, N, u, c)
  BY JoinFields
<1>3. TablesInv(N, n, lost)
  <2>1. NothingNew(R, N) /\ EntriesStay(R, N) /\ ServedStay(R, N, lost)
    BY <1>1 DEF NothingNew, EntriesStay, ServedStay
  <2> QED
    BY <1>1, <2>1, TablesShrink
<1>4. \A v \in Uids : \A p : Publishes(N, v, p) <=> Publishes(R, v, p)
  BY <1>1 DEF Publishes
<1>5. \A p : ~Publishes(N, u, p)
  <2>1. u \notin members(R)
    BY DEF members
  <2>2. \A p : ~Publishes(R, u, p)
    BY <2>1 DEF Publishes, HasPub
  <2> QED
    BY <1>4, <2>2
<1>6. Views(N, cs)
  <2> SUFFICES ASSUME NEW v \in members(N), N.users[v].feedback \in cs
               PROVE  /\ N.told[N.users[v].feedback].users = members(N)
                      /\ PubsKnown(N, v, N.told[N.users[v].feedback].pubs)
    BY DEF Views
  <2>1. v \in Uids
    BY DEF members
  <2>2. PICK d \in Conns : d = N.users[v].feedback
    BY <1>1, <2>1, Members
  <2>3. CASE d = c
    <3>1. PubsKnown(N, v, N.told[c].pubs)
      BY <1>2, <1>5 DEF NewcomerTold, PubsKnown
    <3> QED
      BY <1>2, <2>2, <2>3, <3>1 DEF NewcomerTold
  <2>4. CASE d # c
    <3>1. v # u /\ v \in members(R) /\ d = R.users[v].feedback
      BY <1>1, <2>2, <2>4
    <3>2. d \in others(N, u)
      BY <2>2, <3>1 DEF others
    <3>3. R.told[d].users = members(R) /\ PubsKnown(R, v, R.told[d].pubs)
      BY <2>2, <3>1 DEF Views
    <3>4. \A x \in R.told[d].pubs : x.uid \in Uids
      BY DEF Room, Told, Notice
    <3>5. PubsKnown(N, v, R.told[d].pubs)
      BY <1>4, <3>3, <3>4 DEF PubsKnown
    <3> QED
      BY <1>1, <1>2, <2>2, <2>4, <3>2, <3>3, <3>5 DEF NewcomerTold
  <2> QED
    BY <2>3, <2>4
<1> QED
  BY <1>3, <1>6

LEMMA JoinFeedback ==
  ASSUME NEW R \in Room, NEW u \in Uids, R.users[u] = NoUser, NEW c \in Conns,
         NEW last \in last_sessions(R),
         NEW J, J = joined(R, u, c),
         NEW A, A = accepted(J, u, c),
         NEW N, N = notify_others_publisher_to_me(A, u, c, last),
         NEW r, NEW cn, Feedback(R, r, cn), cn[c].obj = "open"
  PROVE  Feedback(N, r, cn)
<1>1. /\ members(N) = members(R) \cup {u}
      /\ N.users[u].feedback = c
      /\ \A v \in members(R) : v # u /\ N.users[v] = R.users[v]
  BY JoinFields
<1> QED
  BY <1>1 DEF Feedback

-----------------------------------------------------------------------------
(* What becomes of a room when a connection opens, names a user or closes. *)
LEMMA FeedbackOpens ==
  ASSUME NEW R \in Room, NEW r, NEW cn, Feedback(R, r, cn),
         NEW c \in Conns, NEW cn2, cn2[c].obj = "open",
         \A d \in Conns : d # c => cn2[d] = cn[d]
  PROVE  Feedback(R, r, cn2)
<1> SUFFICES ASSUME NEW v \in members(R)
             PROVE  /\ cn2[R.users[v].feedback].obj # "none"
                    /\ r # EmptyId /\ cn2[R.users[v].feedback].room = r
                       /\ cn2[R.users[v].feedback].uid = v
                         => cn2[R.users[v].feedback].obj = "open"
  BY DEF Feedback
<1>1. PICK d \in Conns : d = R.users[v].feedback
  BY Members DEF members
<1>2. CASE d = c
  BY <1>1, <1>2
<1>3. CASE d # c
  BY <1>1, <1>3 DEF Feedback
<1> QED
  BY <1>2, <1>3

LEMMA FeedbackCloses ==
  ASSUME NEW R \in Room, NEW r, NEW cn, Feedback(R, r, cn),
         NEW c \in Conns, NEW cn2,
         cn2[c].obj = "closed",
         \A d \in Conns : d # c => cn2[d] = cn[d],
         r # EmptyId /\ cn2[c].room = r => cn2[c].uid \notin members(R)
  PROVE  Feedback(R, r, cn2)
<1> SUFFICES ASSUME NEW v \in members(R)
             PROVE  /\ cn2[R.users[v].feedback].obj # "none"
                    /\ r # EmptyId /\ cn2[R.users[v].feedback].room = r
                       /\ cn2[R.users[v].feedback].uid = v
                         => cn2[R.users[v].feedback].obj = "open"
  BY DEF Feedback
<1>1. PICK d \in Conns : d = R.users[v].feedback
  BY Members DEF members
<1>2. CASE d = c
  BY <1>1, <1>2
<1>3. CASE d # c
  BY <1>1, <1>3 DEF Feedback
<1> QED
  BY <1>2, <1>3

LEMMA ViewsFewer ==
  ASSUME NEW R, NEW cs, NEW cs2, Views(R, cs), cs2 \subseteq cs
  PROVE  Views(R, cs2)
  BY DEF Views

(* What every room is in: RoomInv with its state as arguments. *)
RoomsInv(rooms, n, lost, cs, cn) ==
  \A q \in Rooms : /\ TablesInv(rooms[q], n, lost)
                   /\ Views(rooms[q], cs)
                   /\ Feedback(rooms[q], q, cn)

LEMMA IInvParts == IInv <=> Typed /\ RoomsInv(room, nsessions, cut, Open, conn)
  BY DEF IInv, RoomInv, RoomsInv

LEMMA IInvPartsPrime == IInv' <=> Typed' /\ RoomsInv(room', nsessions', cut', Open', conn')
  BY DEF IInv, RoomInv, RoomsInv

(* protoo_server::on_close: the user it names leaves, with its connection. *)
LEMMA CloseSession ==
  ASSUME NEW rooms \in [Rooms -> Room], conn \in [Conns -> Connection],
         NEW c \in Conns, close_session(rooms, c),
         NEW n \in Nat, NEW lost, RoomsInv(rooms, n, lost, Open, conn)
  PROVE  /\ conn' \in [Conns -> Connection]
         /\ room' \in [Rooms -> Room]
         /\ RoomsInv(room', n, lost, Open', conn')
<1> DEFINE r == conn[c].room
           u == conn[c].uid
<1>1. /\ conn' \in [Conns -> Connection]
      /\ conn'[c].obj = "closed" /\ conn'[c].room = r /\ conn'[c].uid = u
      /\ \A d \in Conns : d # c => conn'[d] = conn[d]
  BY DEF close_session, Connection
<1>2. Open' \subseteq Open
  BY <1>1 DEF Open
<1> HIDE DEF r, u
<1>3. CASE r \in Rooms \ {EmptyId} /\ u \in Uids /\ u \in members(rooms[r])
  <2> DEFINE L == leave(rooms[r], u)
  <2>1. room' = [rooms EXCEPT ![r] = L]
    BY <1>3 DEF close_session, on_close, r, u
  <2>2. /\ rooms[r] \in Room
        /\ TablesInv(rooms[r], n, lost) /\ Views(rooms[r], Open) /\ Feedback(rooms[r], r, conn)
    BY <1>3 DEF RoomsInv
  <2>3. L \in Room /\ members(L) = members(rooms[r]) \ {u}
    BY <1>3, <2>2, LeaveFields
  <2>4. TablesInv(L, n, lost)
    BY <1>3, <2>2, LeaveTables
  <2>5. Views(L, Open')
    BY <1>2, <1>3, <2>2, LeaveViews, ViewsFewer
  <2>6. Feedback(L, r, conn)
    BY <1>3, <2>2, LeaveFeedback
  <2> HIDE DEF L
  <2>7. Feedback(L, r, conn')
    BY <1>1, <2>3, <2>6, FeedbackCloses DEF r, u
  <2>8. room' \in [Rooms -> Room] /\ room'[r] = L
        /\ \A q \in Rooms : q # r => room'[q] = rooms[q]
    BY <1>3, <2>1, <2>3
  <2>9. ASSUME NEW q \in Rooms
        PROVE  TablesInv(room'[q], n, lost) /\ Views(room'[q], Open')
               /\ Feedback(room'[q], q, conn')
    <3>1. CASE q = r
      BY <2>4, <2>5, <2>7, <2>8, <3>1
    <3>2. CASE q # r
      <4>1. room'[q] = rooms[q] /\ rooms[q] \in Room /\ TablesInv(rooms[q], n, lost)
            /\ Views(rooms[q], Open) /\ Feedback(rooms[q], q, conn)
        BY <2>8, <3>2 DEF RoomsInv
      <4>2. Views(rooms[q], Open')
        BY <1>2, <4>1, ViewsFewer
      <4>3. Feedback(rooms[q], q, conn')
        BY <1>1, <3>2, <4>1, FeedbackCloses DEF r, u
      <4> QED
        BY <4>1, <4>2, <4>3
    <3> QED
      BY <3>1, <3>2
  <2> QED
    BY <1>1, <2>8, <2>9 DEF RoomsInv
<1>4. CASE ~(r \in Rooms \ {EmptyId} /\ u \in Uids /\ u \in members(rooms[r]))
  <2>1. room' = rooms
    BY <1>4 DEF close_session, on_close, r, u
  <2>2. ASSUME NEW q \in Rooms
        PROVE  TablesInv(rooms[q], n, lost) /\ Views(rooms[q], Open')
               /\ Feedback(rooms[q], q, conn')
    <3>1. rooms[q] \in Room /\ TablesInv(rooms[q], n, lost)
          /\ Views(rooms[q], Open) /\ Feedback(rooms[q], q, conn)
      BY DEF RoomsInv
    <3>2. Views(rooms[q], Open')
      BY <1>2, <3>1, ViewsFewer
    <3>3. q # EmptyId /\ r = q => u \notin members(rooms[q])
      BY <1>4 DEF members
    <3>4. Feedback(rooms[q], q, conn')
      BY <1>1, <3>1, <3>3, FeedbackCloses DEF r, u
    <3> QED
      BY <3>1, <3>2, <3>4
  <2> QED
    BY <1>1, <2>1, <2>2 DEF RoomsInv
<1> QED
  BY <1>3, <1>4

(***************************************************************************)
(* A request changes one room: the others keep their invariant, since ids  *)
(* only get more, and so do the subscribers that were cut off.             *)
(***************************************************************************)
OnlyRoom(rooms, rooms2, r, N) ==
  /\ rooms2[r] = N
  /\ \A q \in Rooms : q # r => rooms2[q] = rooms[q]

LEMMA OneRoom ==
  ASSUME NEW rooms \in [Rooms -> Room], NEW r \in Rooms, NEW N \in Room,
         NEW n \in Nat, NEW n2 \in Nat, NEW lost, NEW lost2, n <= n2, lost \subseteq lost2,
         NEW cs, NEW cn, RoomsInv(rooms, n, lost, cs, cn),
         TablesInv(N, n2, lost2), Views(N, cs), Feedback(N, r, cn),
         NEW rooms2, OnlyRoom(rooms, rooms2, r, N)
  PROVE  RoomsInv(rooms2, n2, lost2, cs, cn)
<1>1. ASSUME NEW q \in Rooms, q # r
      PROVE  TablesInv(rooms[q], n2, lost2)
  BY TablesSame DEF RoomsInv
<1> QED
  BY <1>1 DEF RoomsInv, OnlyRoom

-----------------------------------------------------------------------------
(* One lemma per action. *)
LEMMA OnAcceptStep ==
  ASSUME IInv, NEW c \in Conns, OnAccept(c)
  PROVE  IInv'
<1>1. Typed /\ RoomsInv(room, nsessions, cut, Open, conn)
  BY IInvParts
<1>2. /\ conn' \in [Conns -> Connection] /\ conn[c].obj = "none" /\ conn'[c].obj = "open"
      /\ \A d \in Conns : d # c => conn'[d] = conn[d]
      /\ room' = room /\ nsessions' = nsessions /\ cut' = cut
  BY <1>1 DEF OnAccept, Typed, Connection
<1>3. Typed'
  BY <1>1, <1>2 DEF Typed
<1>4. ASSUME NEW q \in Rooms
      PROVE  Views(room[q], Open') /\ Feedback(room[q], q, conn')
  <2>1. room[q] \in Room /\ Views(room[q], Open) /\ Feedback(room[q], q, conn)
    BY <1>1 DEF Typed, RoomsInv
  <2>2. \A v \in members(room[q]) : room[q].users[v].feedback # c
    BY <1>2, <2>1 DEF Feedback
  <2>3. \A d \in Open' : d # c => d \in Open
    BY <1>2 DEF Open
  <2>4. Views(room[q], Open')
    BY <2>1, <2>2, <2>3 DEF Views
  <2> QED
    BY <1>2, <2>1, <2>4, FeedbackOpens
<1>5. RoomsInv(room', nsessions', cut', Open', conn')
  BY <1>1, <1>2, <1>4 DEF RoomsInv
<1> QED
  BY <1>3, <1>5, IInvPartsPrime

LEMMA DisconnectStep ==
  ASSUME IInv, NEW c \in Conns, Disconnect(c)
  PROVE  IInv'
<1>1. Typed /\ RoomsInv(room, nsessions, cut, Open, conn)
  BY IInvParts
<1>2. close_session(room, c) /\ nsessions' = nsessions /\ cut' = cut
      /\ nsessions \in Nat
  BY <1>1, MaxSessionsAssumption DEF Disconnect, Typed
<1>3. /\ conn' \in [Conns -> Connection]
      /\ room' \in [Rooms -> Room]
      /\ RoomsInv(room', nsessions, cut, Open', conn')
  BY <1>1, <1>2, CloseSession DEF Typed
<1> QED
  BY <1>1, <1>2, <1>3, IInvPartsPrime DEF Typed

(* A join that throws: no room changes, and the connection names none. *)
LEMMA JoinThrowsStep ==
  ASSUME IInv, NEW c \in Conns, JoinThrows(c)
  PROVE  IInv'
<1>1. Typed /\ RoomsInv(room, nsessions, cut, Open, conn)
  BY IInvParts
<1> DEFINE x == [[conn[c] EXCEPT !.room = EmptyId] EXCEPT !.obj = "closed"]
<1>2. conn \in [Conns -> Connection]
  BY <1>1 DEF Typed
<1>3. x \in Connection /\ x.obj = "closed" /\ x.room = EmptyId
  BY <1>2 DEF Connection
<1>4. conn' = [conn EXCEPT ![c] = x] /\ room' = room /\ nsessions' = nsessions /\ cut' = cut
  BY <1>2 DEF JoinThrows, Connection
<1> HIDE DEF x
<1>5. /\ conn' \in [Conns -> Connection] /\ conn'[c].obj = "closed" /\ conn'[c].room = EmptyId
      /\ \A d \in Conns : d # c => conn'[d] = conn[d]
  BY <1>2, <1>3, <1>4
<1>6. Open' \subseteq Open
  BY <1>5 DEF Open
<1>7. ASSUME NEW q \in Rooms
      PROVE  Views(room[q], Open') /\ Feedback(room[q], q, conn')
  <2>1. room[q] \in Room /\ Views(room[q], Open) /\ Feedback(room[q], q, conn)
    BY <1>1 DEF Typed, RoomsInv
  <2>2. Views(room[q], Open')
    BY <1>6, <2>1, ViewsFewer
  <2>3. Feedback(room[q], q, conn')
    BY <1>5, <2>1, FeedbackCloses
  <2> QED
    BY <2>2, <2>3
<1>8. RoomsInv(room', nsessions', cut', Open', conn')
  BY <1>1, <1>4, <1>7 DEF RoomsInv
<1> QED
  BY <1>1, <1>4, <1>5, <1>8, IInvPartsPrime DEF Typed

(* A connection that names another user stays open. *)
LEMMA JoinNames ==
  ASSUME IInv, NEW c \in Conns, NEW r \in Rooms, NEW u \in Uids \cup {"none"},
         on_join(c, r, u)
  PROVE  /\ conn' \in [Conns -> Connection]
         /\ conn'[c].obj = "open"
         /\ Open' = Open
         /\ RoomsInv(room, nsessions, cut, Open, conn')
<1>1. Typed /\ RoomsInv(room, nsessions, cut, Open, conn)
  BY IInvParts
<1> DEFINE x == [[conn[c] EXCEPT !.room = r] EXCEPT !.uid = u]
<1>2. conn \in [Conns -> Connection] /\ conn[c].obj = "open"
  BY <1>1 DEF Typed, on_join
<1>3. x \in Connection /\ x.obj = "open"
  BY <1>2 DEF Connection
<1>4. conn' = [conn EXCEPT ![c] = x]
  BY <1>2 DEF on_join, Connection
<1> HIDE DEF x
<1>5. /\ conn' \in [Conns -> Connection] /\ conn'[c].obj = "open"
      /\ \A d \in Conns : d # c => conn'[d] = conn[d]
  BY <1>2, <1>3, <1>4
<1>6. Open' = Open
  BY <1>2, <1>5 DEF Open
<1>7. ASSUME NEW q \in Rooms
      PROVE  Feedback(room[q], q, conn')
  BY <1>1, <1>5, FeedbackOpens DEF Typed, RoomsInv
<1> QED
  BY <1>1, <1>5, <1>6, <1>7 DEF RoomsInv

LEMMA JoinRejectedStep ==
  ASSUME IInv, NEW c \in Conns, NEW r \in Rooms, NEW u \in Uids \cup {"none"},
         JoinRejected(c, r, u)
  PROVE  IInv'
<1>1. on_join(c, r, u) /\ room' = room /\ nsessions' = nsessions /\ cut' = cut
  BY DEF JoinRejected
<1>2. /\ conn' \in [Conns -> Connection]
      /\ Open' = Open
      /\ RoomsInv(room, nsessions, cut, Open, conn')
  BY <1>1, JoinNames
<1>3. Typed'
  BY <1>1, <1>2, IInvParts DEF Typed
<1> QED
  BY <1>1, <1>2, <1>3, IInvPartsPrime

LEMMA HandleJoinStep ==
  ASSUME IInv, NEW c \in Conns, NEW r \in Rooms, NEW u \in Uids \cup {"none"},
         handle_join(c, r, u)
  PROVE  IInv'
<1> DEFINE R == room[r]
           J == joined(R, u, c)
           A == accepted(J, u, c)
<1>1. /\ on_join(c, r, u) /\ u \in Uids /\ R.users[u] = NoUser
      /\ nsessions' = nsessions /\ cut' = cut
  BY DEF handle_join
<1>2. PICK last \in last_sessions(R) :
        room' = [room EXCEPT ![r] = notify_others_publisher_to_me(A, u, c, last)]
  BY DEF handle_join, joined, accepted, NewUser
<1> DEFINE N == notify_others_publisher_to_me(A, u, c, last)
<1>3. /\ conn' \in [Conns -> Connection]
      /\ conn'[c].obj = "open"
      /\ Open' = Open
      /\ RoomsInv(room, nsessions, cut, Open, conn')
  BY <1>1, JoinNames
<1>4. Typed /\ R \in Room /\ nsessions \in Nat
  BY IInvParts, MaxSessionsAssumption DEF Typed
<1>5. TablesInv(R, nsessions, cut) /\ Views(R, Open) /\ Feedback(R, r, conn')
  BY <1>3 DEF RoomsInv
<1> HIDE DEF R
<1>6. N \in Room
  BY <1>1, <1>4, JoinFields
<1>7. TablesInv(N, nsessions, cut) /\ Views(N, Open)
  BY <1>1, <1>4, <1>5, JoinRoom
<1>8. Feedback(N, r, conn')
  BY <1>1, <1>3, <1>4, <1>5, JoinFeedback
<1> HIDE DEF N
<1>9. room' = [room EXCEPT ![r] = N]
  BY <1>2 DEF N
<1>10. room' \in [Rooms -> Room] /\ RoomsInv(room', nsessions, cut, Open, conn')
  <2>1. room' \in [Rooms -> Room] /\ OnlyRoom(room, room', r, N)
    BY <1>4, <1>6, <1>9 DEF Typed, OnlyRoom
  <2> QED
    BY <1>3, <1>4, <1>6, <1>7, <1>8, <1>9, <2>1, OneRoom DEF Typed
<1> QED
  BY <1>1, <1>3, <1>4, <1>10, IInvPartsPrime DEF Typed

LEMMA PublishStep ==
  ASSUME IInv, NEW c \in Conns, NEW r \in Rooms, NEW u \in members(room[r]),
         NEW medias \in SUBSET Media, handle_publish(c, r, u, medias)
  PROVE  IInv'
<1> DEFINE R == room[r]
           s == [id |-> nsessions + 1, medias |-> medias]
           P == published(R, u, s)
           ps == Notices(u, s)
           N == notify_publisher_to_others(P, u, ps)
<1>1. Typed /\ RoomsInv(room, nsessions, cut, Open, conn) /\ R \in Room /\ nsessions \in Nat
      /\ u \in Uids
  BY IInvParts, MaxSessionsAssumption DEF Typed, members
<1>2. TablesInv(R, nsessions, cut) /\ Views(R, Open) /\ Feedback(R, r, conn)
  BY <1>1 DEF RoomsInv
<1>3. /\ room' = [room EXCEPT ![r] = N]
      /\ nsessions < MaxSessions /\ nsessions' = nsessions + 1
      /\ conn' = conn /\ cut' = cut
  BY DEF handle_publish, published, Notices
<1>4. s \in PublishSession /\ s.id = nsessions + 1
  BY <1>1, <1>3, MaxSessionsAssumption DEF PublishSession, SessionIds
<1> HIDE DEF R, s, P, ps, N
<1>5. ps \subseteq Notice /\ Views(N, Open)
  BY <1>1, <1>2, <1>4, PublishViews DEF P, ps, N, R
<1>6. /\ N \in Room
      /\ members(N) = members(R)
      /\ \A v \in members(R) : N.users[v].feedback = R.users[v].feedback
      /\ \A v \in Uids : \A t :
               HasPub(N, v, t) <=> HasPub(R, v, t) \/ (v = u /\ t = s)
      /\ \A v \in Uids : \A t : HasSub(N, v, t) <=> HasSub(R, v, t)
      /\ N.pid2subscribers_ = R.pid2subscribers_
  BY <1>1, <1>4, <1>5, PublishFields DEF P, N, R
<1>7. TablesInv(N, nsessions + 1, cut)
  BY <1>1, <1>2, <1>4, <1>6, TablesPublish
<1>8. Feedback(N, r, conn)
  BY <1>2, <1>6, FeedbackSame
<1>9. room' \in [Rooms -> Room] /\ RoomsInv(room', nsessions + 1, cut, Open, conn)
  <2>1. room' \in [Rooms -> Room] /\ OnlyRoom(room, room', r, N)
    BY <1>1, <1>6, <1>3 DEF Typed, OnlyRoom
  <2> QED
    BY <1>1, <1>3, <1>5, <1>6, <1>7, <1>8, <2>1, OneRoom DEF Typed
<1>10. Open' = Open /\ nsessions' \in 0 .. MaxSessions
  BY <1>1, <1>3, MaxSessionsAssumption DEF Open
<1> QED
  BY <1>1, <1>3, <1>9, <1>10, IInvPartsPrime DEF Typed

LEMMA UnpublishStep ==
  ASSUME IInv, NEW c \in Conns, NEW r \in Rooms, NEW u \in members(room[r]),
         NEW s \in room[r].users[u].publish_sessions_, handle_unpublish(c, r, u, s)
  PROVE  IInv'
<1> DEFINE R == room[r]
           P == unpublished(R, u, s)
           N == notify_unpublisher_to_others(P, u, publishers(s))
<1>1. Typed /\ RoomsInv(room, nsessions, cut, Open, conn) /\ R \in Room /\ nsessions \in Nat
      /\ u \in Uids
  BY IInvParts, MaxSessionsAssumption DEF Typed, members
<1>2. TablesInv(R, nsessions, cut) /\ Views(R, Open) /\ Feedback(R, r, conn)
  BY <1>1 DEF RoomsInv
<1>3. /\ room' = [room EXCEPT ![r] = N]
      /\ nsessions' = nsessions /\ conn' = conn /\ cut' = cut
  BY DEF handle_unpublish, unpublished
<1>4. s \in PublishSession /\ HasPub(R, u, s)
  BY <1>1, Members DEF HasPub
<1> HIDE DEF R, P, N
<1>5. Views(N, Open)
  BY <1>1, <1>2, <1>4, UnpublishViews DEF P, N, R
<1>6. /\ N \in Room
      /\ members(N) = members(R)
      /\ \A v \in members(R) : N.users[v].feedback = R.users[v].feedback
  BY <1>1, <1>4, UnpublishFields DEF P, N, R
<1>7. TablesInv(N, nsessions, cut)
  BY <1>1, <1>2, <1>4, UnpublishTables DEF P, N, R
<1>8. Feedback(N, r, conn)
  BY <1>2, <1>6, FeedbackSame
<1>9. room' \in [Rooms -> Room] /\ RoomsInv(room', nsessions, cut, Open, conn)
  <2>1. room' \in [Rooms -> Room] /\ OnlyRoom(room, room', r, N)
    BY <1>1, <1>6, <1>3 DEF Typed, OnlyRoom
  <2> QED
    BY <1>1, <1>3, <1>5, <1>6, <1>7, <1>8, <2>1, OneRoom DEF Typed
<1>10. Open' = Open
  BY <1>3 DEF Open
<1> QED
  BY <1>1, <1>3, <1>9, <1>10, IInvPartsPrime DEF Typed

(* The session that a subscription makes, of all the medias or of some. *)
LEMMA SubscriptionTyped ==
  ASSUME NEW p \in PublishSession, NEW offered \in SUBSET Media, NEW named,
         nsessions \in Nat, nsessions < MaxSessions, p.id <= nsessions,
         NEW s, s = new_subscription(p, offered, named)
  PROVE  /\ s \in SubscribeSession
         /\ s.id = nsessions + 1
         /\ \A m \in DOMAIN s.src : s.src[m][1] <= nsessions
<1> DEFINE f == [m \in offered |-> IF m \in named THEN <<p.id, m>> ELSE NoPid]
<1>1. p.id \in SessionIds
  BY DEF PublishSession
<1>2. ASSUME NEW m \in offered
      PROVE  f[m] \in Pids /\ f[m][1] <= nsessions
  <2>1. CASE m \in named
    BY <1>1, <2>1 DEF Pids, Ids
  <2>2. CASE m \notin named
    BY <2>2 DEF Pids, NoPid
  <2> QED
    BY <2>1, <2>2
<1>3. DOMAIN f = offered /\ f = [m \in offered |-> f[m]]
  OBVIOUS
<1>4. s = [id |-> nsessions + 1, src |-> f]
  BY DEF new_subscription
<1> HIDE DEF f
<1>5. f \in [offered -> Pids]
  BY <1>2, <1>3
<1>6. f \in UNION {[ms -> Pids] : ms \in SUBSET Media}
  BY <1>5
<1>7. nsessions + 1 \in SessionIds
  BY MaxSessionsAssumption DEF SessionIds
<1> QED
  BY <1>2, <1>3, <1>4, <1>6, <1>7 DEF SubscribeSession

with_subscription(r, u, s) == [room EXCEPT ![r] = subscribed(room[r], u, s)]

LEMMA SubscribeRoom ==
  ASSUME IInv, NEW c \in Conns, NEW r \in Rooms, NEW u \in members(room[r]),
         NEW ru \in members(room[r]), NEW p \in room[r].users[ru].publish_sessions_,
         NEW offered \in SUBSET Media, NEW named, nsessions < MaxSessions,
         NEW rooms, rooms = with_subscription(r, u, new_subscription(p, offered, named))
  PROVE  /\ rooms \in [Rooms -> Room]
         /\ RoomsInv(rooms, nsessions + 1, cut, Open, conn)
<1> DEFINE R == room[r]
           s == new_subscription(p, offered, named)
           N == subscribed(R, u, s)
<1>1. Typed /\ RoomsInv(room, nsessions, cut, Open, conn) /\ R \in Room /\ nsessions \in Nat
      /\ u \in Uids /\ ru \in Uids
  BY IInvParts, MaxSessionsAssumption DEF Typed, members
<1>2. TablesInv(R, nsessions, cut) /\ Views(R, Open) /\ Feedback(R, r, conn)
  BY <1>1 DEF RoomsInv
<1>3. p \in PublishSession /\ HasPub(R, ru, p)
  BY <1>1, Members DEF HasPub
<1>4. p.id <= nsessions
  BY <1>1, <1>2, <1>3 DEF TablesInv, PubIdsUnique
<1>5. /\ s \in SubscribeSession
      /\ s.id = nsessions + 1
      /\ \A m \in DOMAIN s.src : s.src[m][1] <= nsessions
  BY <1>1, <1>3, <1>4, SubscriptionTyped
<1>6. rooms = [room EXCEPT ![r] = N] /\ u \in members(R)
  BY DEF with_subscription
<1> HIDE DEF R, s, N
<1>7. /\ N \in Room
      /\ members(N) = members(R)
      /\ \A v \in members(R) : N.users[v].feedback = R.users[v].feedback
      /\ \A v \in Uids : \A t : HasPub(N, v, t) <=> HasPub(R, v, t)
      /\ \A v \in Uids : \A t : HasSub(N, v, t) <=> HasSub(R, v, t) \/ (v = u /\ t = s)
      /\ \A q \in Pids : \A id : id \in N.pid2subscribers_[q] <=>
           \/ id \in R.pid2subscribers_[q]
           \/ \E m \in DOMAIN s.src : s.src[m] = q /\ id = <<s.id, m>>
      /\ N.told = R.told
  BY <1>1, <1>5, <1>6, SubscribeFields DEF N
<1>8. TablesInv(N, nsessions + 1, cut)
  BY <1>1, <1>2, <1>5, <1>7, TablesSubscribe
<1>9. Views(N, Open)
  BY <1>1, <1>2, <1>7, ViewsSame
<1>10. Feedback(N, r, conn)
  BY <1>2, <1>7, FeedbackSame
<1>11. rooms \in [Rooms -> Room] /\ OnlyRoom(room, rooms, r, N)
  BY <1>1, <1>6, <1>7 DEF Typed, OnlyRoom
<1> QED
  BY <1>1, <1>7, <1>8, <1>9, <1>10, <1>11, OneRoom DEF Typed

LEMMA SubscribeStep ==
  ASSUME IInv, NEW c \in Conns, NEW r \in Rooms, NEW u \in members(room[r]),
         NEW ru \in members(room[r]), NEW p \in room[r].users[ru].publish_sessions_,
         NEW offered \in SUBSET Media, NEW named,
         handle_subscribe(c, r, u, ru, p, offered, named)
  PROVE  IInv'
<1>1. Typed
  BY IInvParts
<1>2. nsessions < MaxSessions /\ nsessions' = nsessions + 1 /\ conn' = conn /\ cut' = cut
      /\ room' = with_subscription(r, u, new_subscription(p, offered, named))
  BY DEF handle_subscribe, may_subscribe, with_subscription
<1>3. room' \in [Rooms -> Room] /\ RoomsInv(room', nsessions + 1, cut, Open, conn)
  BY <1>2, SubscribeRoom
<1>4. Open' = Open /\ nsessions' \in 0 .. MaxSessions
  BY <1>1, <1>2, MaxSessionsAssumption DEF Open, Typed
<1>5. Typed'
  BY <1>1, <1>2, <1>3, <1>4 DEF Typed
<1> QED
  BY <1>2, <1>3, <1>4, <1>5, IInvPartsPrime

LEMMA SubscribeThrowsStep ==
  ASSUME IInv, NEW c \in Conns, NEW r \in Rooms, NEW u \in members(room[r]),
         NEW ru \in members(room[r]), NEW p \in room[r].users[ru].publish_sessions_,
         NEW offered \in SUBSET Media, NEW named,
         SubscribeThrows(c, r, u, ru, p, offered, named)
  PROVE  IInv'
<1>1. Typed /\ nsessions \in Nat
  BY IInvParts, MaxSessionsAssumption DEF Typed
<1>2. nsessions < MaxSessions /\ nsessions' = nsessions + 1 /\ cut' = cut
  BY DEF SubscribeThrows, may_subscribe
<1>3. PICK made \in SUBSET Media :
        close_session(with_subscription(r, u, new_subscription(p, made, named)), c)
  BY DEF SubscribeThrows, with_subscription
<1> DEFINE rooms == with_subscription(r, u, new_subscription(p, made, named))
<1>4. rooms \in [Rooms -> Room] /\ RoomsInv(rooms, nsessions + 1, cut, Open, conn)
  BY <1>2, SubscribeRoom
<1>5. close_session(rooms, c)
  BY <1>3
<1> HIDE DEF rooms
<1>6. /\ conn' \in [Conns -> Connection]
      /\ room' \in [Rooms -> Room]
      /\ RoomsInv(room', nsessions + 1, cut, Open', conn')
  BY <1>1, <1>4, <1>5, CloseSession DEF Typed
<1>7. nsessions' \in 0 .. MaxSessions
  BY <1>1, <1>2, MaxSessionsAssumption
<1>8. Typed'
  BY <1>1, <1>2, <1>6, <1>7 DEF Typed
<1> QED
  BY <1>2, <1>6, <1>8, IInvPartsPrime

LEMMA UnsubscribeStep ==
  ASSUME IInv, NEW c \in Conns, NEW r \in Rooms, NEW u \in members(room[r]),
         NEW s \in room[r].users[u].subscribe_sessions_, NEW named \in SUBSET Pids,
         handle_unsubscribe(c, r, u, s, named)
  PROVE  IInv'
<1> DEFINE R == room[r]
           own == on_unsubscribe(R.pid2subscribers_, {s})
           subs == [p \in Pids |-> IF p \in named THEN {} ELSE own[p]]
           N == unsubscribed(R, u, s, subs)
           lost == cut \cup UNION {own[p] : p \in named}
<1>1. Typed /\ RoomsInv(room, nsessions, cut, Open, conn) /\ R \in Room /\ nsessions \in Nat
      /\ u \in Uids
  BY IInvParts, MaxSessionsAssumption DEF Typed, members
<1>2. TablesInv(R, nsessions, cut) /\ Views(R, Open) /\ Feedback(R, r, conn)
  BY <1>1 DEF RoomsInv
<1>3. s \in SubscribeSession /\ HasSub(R, u, s)
  BY <1>1, Members DEF HasSub
<1>4. nsessions' = nsessions /\ conn' = conn /\ cut' = lost
  BY DEF handle_unsubscribe
<1>5. room' = [room EXCEPT ![r] = N]
  BY <1>1 DEF handle_unsubscribe, unsubscribed, Typed, Room
<1>6. own \in [Pids -> SUBSET Ids]
  BY <1>1, OnUnsubscribe DEF Room
<1>0. own = on_unsubscribe(R.pid2subscribers_, {s}) /\ N = unsubscribed(R, u, s, subs)
      /\ u \in members(R)
  OBVIOUS
<1> HIDE DEF R, own
<1>7. /\ subs \in [Pids -> SUBSET Ids]
      /\ CutOff(own, named, subs, lost)
      /\ cut \subseteq lost /\ lost \subseteq Ids
  BY <1>1, <1>6 DEF Typed, CutOff
<1> HIDE DEF subs, lost, N
<1>8. /\ N \in Room
      /\ members(N) = members(R)
      /\ \A v \in members(R) : N.users[v].feedback = R.users[v].feedback
      /\ \A v \in Uids : \A t : HasPub(N, v, t) <=> HasPub(R, v, t)
      /\ N.told = R.told
  BY <1>1, <1>3, <1>7, UnsubscribeFields DEF N, R
<1>9. TablesInv(N, nsessions, lost)
  BY <1>0, <1>1, <1>2, <1>3, <1>7, UnsubscribeTables
<1>10. Views(N, Open)
  BY <1>1, <1>2, <1>8, ViewsSame
<1>11. Feedback(N, r, conn)
  BY <1>2, <1>8, FeedbackSame
<1>12. room' \in [Rooms -> Room] /\ OnlyRoom(room, room', r, N)
  BY <1>1, <1>5, <1>8 DEF Typed, OnlyRoom
<1>13. RoomsInv(room', nsessions, lost, Open, conn)
  BY <1>1, <1>7, <1>8, <1>9, <1>10, <1>11, <1>12, OneRoom DEF Typed
<1>14. Open' = Open
  BY <1>4 DEF Open
<1> QED
  BY <1>1, <1>4, <1>7, <1>12, <1>13, <1>14, IInvPartsPrime DEF Typed

LEMMA OnNotificationStep ==
  ASSUME IInv, NEW c \in Conns, NEW r \in Rooms, NEW u \in members(room[r]),
         on_notification(c, r, u)
  PROVE  IInv'
<1> DEFINE R == room[r]
           N == leave(R, u)
<1>1. Typed /\ RoomsInv(room, nsessions, cut, Open, conn) /\ R \in Room /\ nsessions \in Nat
  BY IInvParts, MaxSessionsAssumption DEF Typed
<1>2. TablesInv(R, nsessions, cut) /\ Views(R, Open) /\ Feedback(R, r, conn)
  BY <1>1 DEF RoomsInv
<1>3. /\ room' = [room EXCEPT ![r] = N]
      /\ nsessions' = nsessions /\ conn' = conn /\ cut' = cut
  BY DEF on_notification
<1>4. N \in Room
  BY <1>1, LeaveFields
<1>5. TablesInv(N, nsessions, cut)
  BY <1>1, <1>2, LeaveTables
<1>6. Views(N, Open)
  BY <1>1, <1>2, LeaveViews
<1>7. Feedback(N, r, conn)
  BY <1>1, <1>2, LeaveFeedback
<1> HIDE DEF N
<1>8. room' \in [Rooms -> Room] /\ OnlyRoom(room, room', r, N)
  BY <1>1, <1>3, <1>4 DEF Typed, OnlyRoom
<1>9. RoomsInv(room', nsessions, cut, Open, conn)
  BY <1>1, <1>4, <1>5, <1>6, <1>7, <1>8, OneRoom DEF Typed
<1>10. Open' = Open
  BY <1>3 DEF Open
<1> QED
  BY <1>1, <1>3, <1>8, <1>9, <1>10, IInvPartsPrime DEF Typed

-----------------------------------------------------------------------------
LEMMA InitIInv == Init => IInv
<1> SUFFICES ASSUME Init PROVE IInv
  OBVIOUS
<1>1. conn \in [Conns -> Connection] /\ nsessions \in 0 .. MaxSessions /\ cut \subseteq Ids
  BY MaxSessionsAssumption DEF Init, NoConn, Connection
<1>2. EmptyRoom \in Room
  <2>1. [u \in Uids |-> NoUser] \in [Uids -> User \cup {NoUser}]
    OBVIOUS
  <2>2. [p \in Pids |-> {}] \in [Pids -> SUBSET Ids]
    OBVIOUS
  <2>3. [c \in Conns |-> [users |-> {}, pubs |-> {}]] \in [Conns -> Told]
    BY DEF Told
  <2> QED
    BY <2>1, <2>2, <2>3 DEF EmptyRoom, Room
<1>3. members(EmptyRoom) = {} /\ \A p \in Pids : EmptyRoom.pid2subscribers_[p] = {}
  BY DEF members, EmptyRoom
<1>4. \A v, s : ~HasPub(EmptyRoom, v, s) /\ ~HasSub(EmptyRoom, v, s)
  BY <1>3 DEF HasPub, HasSub
<1>5. TablesInv(EmptyRoom, nsessions, cut)
  BY <1>3, <1>4 DEF TablesInv, PubIdsUnique, SubIdsUnique, SourcesMade, EntriesLive, Served
<1>6. \A r \in Rooms : Views(EmptyRoom, Open) /\ Feedback(EmptyRoom, r, conn)
  BY <1>3 DEF Views, Feedback
<1>7. room \in [Rooms -> Room] /\ \A r \in Rooms : room[r] = EmptyRoom
  BY <1>2 DEF Init
<1> QED
  BY <1>1, <1>5, <1>6, <1>7 DEF IInv, RoomInv, Typed

LEMMA UserRequestStep ==
  ASSUME IInv, NEW c \in Conns, NEW r \in Rooms, NEW u \in members(room[r]),
         UserRequest(c, r, u)
  PROVE  IInv'
<1>1. CASE \E medias \in SUBSET Media \ {{}} : handle_publish(c, r, u, medias)
  BY <1>1, PublishStep
<1>2. CASE \E s \in room[r].users[u].publish_sessions_ : handle_unpublish(c, r, u, s)
  BY <1>2, UnpublishStep
<1>3. CASE \E ru \in members(room[r]) : \E p \in room[r].users[ru].publish_sessions_ :
             \E offered \in SUBSET Media \ {{}} : \E named \in SUBSET p.medias :
               \/ handle_subscribe(c, r, u, ru, p, offered, named)
               \/ SubscribeThrows(c, r, u, ru, p, offered, named)
  BY <1>3, SubscribeStep, SubscribeThrowsStep
<1>4. CASE \E s \in room[r].users[u].subscribe_sessions_ :
             \E named \in (SUBSET {s.src[m] : m \in DOMAIN s.src}) \cup {{p} : p \in Ids} :
               handle_unsubscribe(c, r, u, s, named)
  <2>1. PICK s \in room[r].users[u].subscribe_sessions_ :
          \E named \in (SUBSET {s.src[m] : m \in DOMAIN s.src}) \cup {{p} : p \in Ids} :
            handle_unsubscribe(c, r, u, s, named)
    BY <1>4
  <2>2. s \in SubscribeSession
    BY IInvParts, Members DEF Typed, members
  <2>3. \A m \in DOMAIN s.src : s.src[m] \in Pids
    BY <2>2, SourceTyped
  <2>4. PICK named \in SUBSET Pids : handle_unsubscribe(c, r, u, s, named)
    BY <2>1, <2>3 DEF Pids
  <2> QED
    BY <2>4, UnsubscribeStep
<1>5. CASE on_notification(c, r, u)
  BY <1>5, OnNotificationStep
<1> QED
  BY <1>1, <1>2, <1>3, <1>4, <1>5 DEF UserRequest

LEMMA StutterIInv == IInv /\ UNCHANGED vars => IInv'
<1> SUFFICES ASSUME IInv, UNCHANGED vars PROVE IInv'
  OBVIOUS
<1>1. conn' = conn /\ room' = room /\ nsessions' = nsessions /\ cut' = cut
  BY DEF vars
<1>2. Open' = Open
  BY <1>1 DEF Open
<1>3. Typed' <=> Typed
  BY <1>1 DEF Typed
<1> QED
  BY <1>1, <1>2, <1>3, IInvParts, IInvPartsPrime

LEMMA NextIInv == IInv /\ [Next]_vars => IInv'
<1> SUFFICES ASSUME IInv, [Next]_vars PROVE IInv'
  OBVIOUS
<1>1. CASE \E c \in Conns : OnAccept(c) \/ Disconnect(c) \/ JoinThrows(c)
  BY <1>1, OnAcceptStep, DisconnectStep, JoinThrowsStep
<1>2. CASE \E c \in Conns, r \in Rooms, u \in Uids \cup {"none"} :
             JoinRejected(c, r, u) \/ handle_join(c, r, u)
  BY <1>2, JoinRejectedStep, HandleJoinStep
<1>3. CASE \E c \in Conns, r \in Rooms : \E u \in members(room[r]) : UserRequest(c, r, u)
  BY <1>3, UserRequestStep
<1>4. CASE UNCHANGED vars
  BY <1>4, StutterIInv
<1> QED
  BY <1>1, <1>2, <1>3, <1>4 DEF Next

LEMMA Invariance == Spec => []IInv
  BY InitIInv, NextIInv, PTL DEF Spec

-----------------------------------------------------------------------------
LEMMA TypedIsTypeOK == Typed => TypeOK
<1> SUFFICES ASSUME Typed PROVE TypeOK
  OBVIOUS
<1>1. ASSUME NEW r \in Rooms, NEW u \in Uids, room[r].users[u] # NoUser
      PROVE  /\ room[r].users[u].feedback \in Conns
             /\ room[r].users[u].publish_sessions_ \subseteq PublishSession
             /\ \A s \in room[r].users[u].subscribe_sessions_ :
                  /\ s.id \in SessionIds
                  /\ \A m \in DOMAIN s.src : m \in Media /\ s.src[m] \in Pids
  <2>1. room[r] \in Room /\ u \in members(room[r])
    BY <1>1 DEF Typed, members
  <2> QED
    BY <2>1, Members, SourceTyped
<1>2. ASSUME NEW r \in Rooms
      PROVE  /\ room[r].pid2subscribers_ \in [Pids -> SUBSET Ids]
             /\ \A c \in Conns :
                  /\ room[r].told[c].users \subseteq Uids
                  /\ room[r].told[c].pubs \subseteq [uid : Uids, pid : Ids, pcid : SessionIds]
  <2>1. room[r] \in Room
    BY DEF Typed
  <2>2. \A c \in Conns : room[r].told[c] \in Told
    BY <2>1 DEF Room
  <2>3. room[r].pid2subscribers_ \in [Pids -> SUBSET Ids]
    BY <2>1 DEF Room
  <2> QED
    BY <2>2, <2>3 DEF Told, Notice
<1> QED
  BY <1>1, <1>2 DEF Typed, TypeOK, Connection

(* The publishers a user is told of, by the sets of the property. *)
LEMMA PubsKnownExact ==
  ASSUME NEW R \in Room, NEW u \in Uids, NEW ps \in SUBSET Notice, PubsKnown(R, u, ps)
  PROVE  {p.pid : p \in {x \in ps : x.uid # u}}
           = UNION {{p.pid : p \in get_publishs_information(R, v)} : v \in members(R) \ {u}}
<1>1. ASSUME NEW x \in ps, x.uid # u
      PROVE  \E v \in members(R) \ {u} : \E y \in get_publishs_information(R, v) : y.pid = x.pid
  <2>1. Publishes(R, x.uid, x.pid)
    BY <1>1 DEF PubsKnown
  <2>2. x.uid \in members(R) \ {u}
    BY <1>1, <2>1 DEF Publishes, HasPub
  <2> QED
    BY <2>1, <2>2, Information
<1>2. ASSUME NEW v \in members(R) \ {u}, NEW y \in get_publishs_information(R, v)
      PROVE  \E x \in ps : x.uid # u /\ x.pid = y.pid
  <2>1. y \in Notice /\ Publishes(R, v, y.pid)
    BY <1>2, Information
  <2>2. v \in Uids /\ v # u /\ y.pid \in Ids
    BY <2>1 DEF members, Notice
  <2>3. PICK x \in ps : x.uid = v /\ x.pid = y.pid
    BY <2>1, <2>2 DEF PubsKnown
  <2> QED
    BY <2>2, <2>3
<1> QED
  BY <1>1, <1>2

LEMMA IInvMeans ==
  IInv => /\ FeedbackIsLive
          /\ SubscriberSessionIsLive
          /\ SubscriptionIsServed
          /\ ViewIsExact
<1> SUFFICES ASSUME IInv PROVE /\ FeedbackIsLive
                               /\ SubscriberSessionIsLive
                               /\ SubscriptionIsServed
                               /\ ViewIsExact
  OBVIOUS
<1>1. \A r \in Rooms : /\ room[r] \in Room
                       /\ TablesInv(room[r], nsessions, cut)
                       /\ Views(room[r], Open)
                       /\ Feedback(room[r], r, conn)
  BY DEF IInv, Typed, RoomInv
<1>2. FeedbackIsLive
  BY <1>1 DEF FeedbackIsLive, Feedback
<1>3. SubscriberSessionIsLive
  <2> SUFFICES ASSUME NEW r \in Rooms, NEW p \in Pids, NEW id \in room[r].pid2subscribers_[p]
               PROVE  \E u \in members(room[r]) : \E s \in room[r].users[u].subscribe_sessions_ :
                        id \in subscribers(s) /\ s.src[id[2]] = p
    BY DEF SubscriberSessionIsLive
  <2>1. PICK u \in Uids, s \in SubscribeSession :
          HasSub(room[r], u, s) /\ id \in subscribers(s) /\ s.src[id[2]] = p
    BY <1>1 DEF TablesInv, EntriesLive
  <2> QED
    BY <2>1 DEF HasSub
<1>4. SubscriptionIsServed
  <2> SUFFICES ASSUME NEW r \in Rooms, NEW u \in members(room[r]), NEW v \in members(room[r]),
                      NEW s \in room[r].users[u].subscribe_sessions_,
                      NEW p \in room[r].users[v].publish_sessions_,
                      NEW m \in DOMAIN s.src,
                      s.src[m] \in publishers(p), <<s.id, m>> \notin cut
               PROVE  <<s.id, m>> \in room[r].pid2subscribers_[s.src[m]]
    BY DEF SubscriptionIsServed
  <2>1. u \in Uids /\ v \in Uids
    BY DEF members
  <2>2. s \in SubscribeSession /\ p \in PublishSession
    BY <1>1, <2>1, Members
  <2>3. HasSub(room[r], u, s) /\ HasPub(room[r], v, p)
    BY DEF HasSub, HasPub
  <2>4. Served(room[r], cut)
    BY <1>1 DEF TablesInv
  <2> QED
    BY <2>1, <2>2, <2>3, <2>4 DEF Served
<1>5. ASSUME NEW r \in Rooms, NEW u \in members(room[r]),
             conn[room[r].users[u].feedback].obj = "open"
      PROVE  LET c == room[r].users[u].feedback
             IN  /\ room[r].told[c].users = members(room[r])
                 /\ {p.pid : p \in {x \in room[r].told[c].pubs : x.uid # u}}
                      = UNION {{p.pid : p \in get_publishs_information(room[r], v)} :
                                 v \in members(room[r]) \ {u}}
  <2>1. u \in Uids /\ room[r] \in Room
    BY <1>1 DEF members
  <2>2. PICK c \in Conns : c = room[r].users[u].feedback
    BY <2>1, Members
  <2>3. c \in Open
    BY <1>5, <2>2 DEF Open
  <2>4. room[r].told[c].users = members(room[r]) /\ PubsKnown(room[r], u, room[r].told[c].pubs)
    BY <1>1, <2>2, <2>3 DEF Views
  <2>5. room[r].told[c].pubs \subseteq Notice
    BY <2>1 DEF Room, Told
  <2>6. {p.pid : p \in {x \in room[r].told[c].pubs : x.uid # u}}
          = UNION {{p.pid : p \in get_publishs_information(room[r], v)} :
                     v \in members(room[r]) \ {u}}
    BY <2>1, <2>4, <2>5, PubsKnownExact
  <2> QED
    BY <2>2, <2>4, <2>6
<1>6. ViewIsExact
  BY <1>5 DEF ViewIsExact, MembersViewIsExact, PublisherViewIsExact
<1> QED
  BY <1>2, <1>3, <1>4, <1>6

-----------------------------------------------------------------------------
(***************************************************************************)
(* Every table of room_service keeps its type: users, sessions, the relay  *)
(* table pid2subscribers_ and what the connections were told.              *)
(***************************************************************************)
THEOREM TypeCorrect == Spec => []TypeOK
<1>1. IInv => TypeOK
  BY TypedIsTypeOK DEF IInv
<1> QED
  BY <1>1, Invariance, PTL

(***************************************************************************)
(* The raw pointer to a protoo_server that a user_info keeps is good as    *)
(* long as that connection names the user: on_close takes the user away.   *)
(* Not so in the room with the empty id, which on_close leaves alone.      *)
(***************************************************************************)
THEOREM FeedbackStaysLive == Spec => []FeedbackIsLive
  BY Invariance, IInvMeans, PTL

(***************************************************************************)
(* The relay never reaches a subscriber whose session is gone: by leave,   *)
(* unsubscribe, unpublish, a lost connection or a throw in subscribe.      *)
(***************************************************************************)
THEOREM RelayReachesLiveSessions == Spec => []SubscriberSessionIsLive
  BY Invariance, IInvMeans, PTL

(***************************************************************************)
(* The end of one session takes the subscribers of no other from the       *)
(* table, but for those that an unsubscribe names publishers of.           *)
(***************************************************************************)
THEOREM SubscriptionsAreServed == Spec => []SubscriptionIsServed
  BY Invariance, IInvMeans, PTL

(***************************************************************************)
(* The notifications an open connection was sent add up to the users of    *)
(* the room and to the publishers of the others.                           *)
(***************************************************************************)
THEOREM ViewsAreExact == Spec => []ViewIsExact
  BY Invariance, IInvMeans, PTL
=============================================================================
