--------------------------- MODULE PresenceProofs ----------------------------
(***************************************************************************)
(* The safety of Presence for any number of users, sockets, conversations  *)
(* and events, and for every scene: the invariants of the two Redis sets   *)
(* hold with any number of sockets per user and whatever fails or expires. *)
(***************************************************************************)
EXTENDS Presence, TLAPS

EventsOf(u) == {r \in Requests : User(r) = u}

\* An event runs one half of Promise.all at least, of a join or of a leave.
TodoInv ==
  \A r \in Requests :
    /\ todo[r] \subseteq Joining \/ todo[r] \subseteq Leaving
    /\ r \notin asked => todo[r] = {}
    /\ "addRoom" \in todo[r] => {"addUser", "expireRoom"} \subseteq todo[r]

\* A join of the user will still enter the conversation in the index.
Pending(u, c) == \E r \in EventsOf(u) : Conv(r) = c /\ HalfJoined(r)

\* Every conversation that lists the user is in the set, or is about to be
\* entered in the index.
Covered(u, set) ==
  \A c \in Conversations : u \in online[c] => c \in set \/ Pending(u, c)

\* No disconnect of the user that could still remove it is under way.
NobodyCleans(u) ==
  \A s \in SocketsOf(u) : sock[s] \notin WillRead \cup {"remove"}

\* What a disconnect relies on: the index covers the rooms that list the user,
\* what it has read of the index and not yet dealt with still does, and with no
\* disconnect to come only a join half-way lists it.
CleanUser(u) ==
  /\ Covered(u, onlineRooms[u])
  /\ \A s \in SocketsOf(u) : sock[s] = "remove" => Covered(u, view[s])
  /\ NobodyCleans(u) => Covered(u, {})
  /\ \A r \in EventsOf(u) : todo[r] = {"removeUser"} => u \notin online[Conv(r)]

CleanInv == \A u \in Users \ exposed : CleanUser(u)

\* From the connection until the disconnect has been cleaned up.
Alive(s) == sock[s] = "open" \/ sock[s] \in Closing

\* The scenes JoinedIsOnline speaks of.
Orderly == scene.orderly /\ scene.faults \subseteq {"session", "index"}

\* The user's SADD to the conversation is still to come.
Arriving(u, c) == \E r \in EventsOf(u) : Conv(r) = c /\ "addRoom" \in todo[r]

\* A user has one socket at a time, whose events run while it is connected; a
\* leave has left the Socket.IO room, and every room joined lists the user or
\* is about to.
CalmUser(u) ==
  /\ \A s, t \in SocketsOf(u) : Alive(s) /\ Alive(t) => s = t
  /\ \A s \in SocketsOf(u) : sock[s] # "open" => inRoom[s] = {}
  /\ \A r \in EventsOf(u) : todo[r] # {} => sock[Socket(r)] = "open"
  /\ \A r \in EventsOf(u) :
       "removeRoom" \in todo[r] => Conv(r) \notin inRoom[Socket(r)]
  /\ \A s \in SocketsOf(u) : \A c \in inRoom[s] :
       u \in members[c] => u \in online[c] \/ Arriving(u, c)

CalmInv == Orderly => \A u \in Users : CalmUser(u)

IInv == TypeOK /\ TodoInv /\ RoomsExpire /\ CleanInv /\ CalmInv

-----------------------------------------------------------------------------
(* Types.                                                                  *)

LEMMA RequestTypes ==
  ASSUME NEW r \in Requests
  PROVE  /\ Socket(r) \in Sockets
         /\ Conv(r) \in Conversations
         /\ User(r) \in Users
         /\ User(r) = owner[Socket(r)]
<1>1. req[r] \in [kind: {"join", "leave"}, socket: Sockets, conv: Conversations]
  BY PresenceAssumption
<1> QED
  BY <1>1, PresenceAssumption DEF Socket, Conv, User

LEMMA OwnerType ==
  ASSUME NEW s \in Sockets
  PROVE  owner[s] \in Users
  BY PresenceAssumption

\* Redis forgets the TTL of an empty set, and only that.
LEMMA ForgottenKeys ==
  ASSUME ForgetEmptyKeys
  PROVE  /\ ttl' \subseteq ttl
         /\ \A c \in Conversations : c \in ttl /\ online'[c] # {} => c \in ttl'
<1>1. \A c \in Conversations : c \notin Users
  BY PresenceAssumption
<1> QED
  BY <1>1 DEF ForgetEmptyKeys

LEMMA TypeInit == Init => TypeOK
  BY DEF Init, TypeOK, SockState

LEMMA TypeStep == TypeOK /\ [Next]_vars => TypeOK'
<1> SUFFICES ASSUME TypeOK, [Next]_vars PROVE TypeOK'
  OBVIOUS
<1> USE OwnerType, RequestTypes
    DEF TypeOK, session, rooms, history, SockState, Closing, Become, Execute,
        Expose, Strand
<1>1. CASE UNCHANGED vars
  BY <1>1 DEF vars
<1>2. ASSUME NEW s \in Sockets, UNCHANGED scene,
             \/ Connect(s) \/ ConnectFails(s) \/ Disconnect(s)
             \/ AbortDisconnect(s) \/ SessionExpires(s)
      PROVE  TypeOK'
  <2>1. CASE Connect(s)
    BY <1>2, <2>1 DEF Connect
  <2>2. CASE ConnectFails(s) \/ Disconnect(s)
    BY <1>2, <2>2 DEF ConnectFails, Disconnect
  <2>3. CASE AbortDisconnect(s)
    BY <1>2, <2>3 DEF AbortDisconnect
  <2>4. CASE SessionExpires(s)
    BY <1>2, <2>4 DEF SessionExpires
  <2> QED
    BY <1>2, <2>1, <2>2, <2>3, <2>4
<1>3. ASSUME NEW s \in Sockets, UNCHANGED scene, Cleanup(s) PROVE TypeOK'
  <2>1. CASE SocketUnknown(s) \/ SocketKnown(s) \/ GetUserOnlineRooms(s)
    BY <1>3, <2>1 DEF SocketUnknown, SocketKnown, GetUserOnlineRooms
  <2>2. CASE ClearUserOnlineRooms(s)
    BY <1>3, <2>2, ForgottenKeys DEF ClearUserOnlineRooms
  <2>3. CASE ClearUserSession(s)
    BY <1>3, <2>3 DEF ClearUserSession
  <2>4. ASSUME NEW c \in Conversations, RemoveFromRoom(s, c) PROVE TypeOK'
    BY <1>3, <2>4, ForgottenKeys DEF RemoveFromRoom
  <2> QED
    BY <1>3, <2>1, <2>2, <2>3, <2>4 DEF Cleanup
<1>4. ASSUME NEW r \in Requests, UNCHANGED scene,
             JoinRoom(r) \/ LeaveRoom(r) \/ Handle(r) \/ AbortRequest(r)
      PROVE  TypeOK'
  <2>1. CASE JoinRoom(r) \/ LeaveRoom(r)
    BY <1>4, <2>1 DEF JoinRoom, LeaveRoom, Ask, Commands
  <2>2. CASE AddUserToRoom(r) \/ AddRoomToUser(r)
    BY <1>4, <2>2 DEF AddUserToRoom, AddRoomToUser
  <2>3. CASE ExpireRoom(r) \/ ExpireUserRooms(r)
    BY <1>4, <2>3 DEF ExpireRoom, ExpireUserRooms
  <2>4. CASE RemoveUserFromRoom(r) \/ RemoveRoomFromUser(r)
    BY <1>4, <2>4, ForgottenKeys DEF RemoveUserFromRoom, RemoveRoomFromUser
  <2>5. CASE AbortRequest(r)
    BY <1>4, <2>5 DEF AbortRequest
  <2> QED
    BY <1>4, <2>1, <2>2, <2>3, <2>4, <2>5 DEF Handle
<1>5. ASSUME NEW r \in Requests, NEW c \in Commands, UNCHANGED scene,
             RejectCommand(r, c)
      PROVE  TypeOK'
  BY <1>5 DEF RejectCommand
<1>6. ASSUME NEW c \in Conversations, UNCHANGED scene,
             RoomExpires(c) \/ \E u \in Users : LeaveConversation(u, c)
      PROVE  TypeOK'
  BY <1>6, ForgottenKeys DEF RoomExpires, LeaveConversation
<1>7. ASSUME NEW u \in Users, UNCHANGED scene, IndexExpires(u)
      PROVE  TypeOK'
  BY <1>7 DEF IndexExpires
<1> QED
  BY <1>1, <1>2, <1>3, <1>4, <1>5, <1>6, <1>7 DEF Next

-----------------------------------------------------------------------------
(* The commands of the events.                                             *)

LEMMA TodoInit == Init => TodoInv
  BY DEF Init, TodoInv

\* No socket step, expiry or REST call touches the commands of an event.
LEMMA EventsKept ==
  ASSUME [Next]_vars
  PROVE  \/ UNCHANGED <<asked, todo>>
         \/ \E r \in Requests :
              \/ JoinRoom(r) \/ LeaveRoom(r) \/ Handle(r) \/ AbortRequest(r)
              \/ \E c \in Commands : RejectCommand(r, c)
<1>1. CASE UNCHANGED vars
  BY <1>1 DEF vars
<1>2. ASSUME NEW s \in Sockets,
             \/ Connect(s) \/ ConnectFails(s) \/ Disconnect(s) \/ Cleanup(s)
             \/ AbortDisconnect(s) \/ SessionExpires(s)
      PROVE  UNCHANGED <<asked, todo>>
  BY <1>2 DEF Connect, ConnectFails, Disconnect, Cleanup, SocketUnknown,
     SocketKnown, GetUserOnlineRooms, RemoveFromRoom, ClearUserOnlineRooms,
     ClearUserSession, AbortDisconnect, SessionExpires
<1>3. ASSUME NEW c \in Conversations, NEW u \in Users,
             RoomExpires(c) \/ LeaveConversation(u, c) \/ IndexExpires(u)
      PROVE  UNCHANGED <<asked, todo>>
  BY <1>3 DEF RoomExpires, LeaveConversation, IndexExpires
<1>4. ASSUME NEW c \in Conversations, RoomExpires(c)
      PROVE  UNCHANGED <<asked, todo>>
  BY <1>4 DEF RoomExpires
<1>5. ASSUME NEW u \in Users, IndexExpires(u)
      PROVE  UNCHANGED <<asked, todo>>
  BY <1>5 DEF IndexExpires
<1> QED
  BY <1>1, <1>2, <1>3, <1>4, <1>5 DEF Next

\* The SADD of the room comes before the other SADD and before its EXPIRE,
\* which goes with it.
LEMMA RoomCommands ==
  /\ "addRoom" \in Before["expireRoom"]
  /\ "addRoom" \in Before["addUser"]
  /\ \A c \in Commands : "addUser" \notin Awaiting[c]
  /\ \A c \in Commands : "expireRoom" \in Awaiting[c] => c = "addRoom"
  BY DEF Before, Awaiting, Commands, Joining, Leaving

\* A command is carried out once every command before it has been.
LEMMA CommandStep ==
  ASSUME NEW r \in Requests, Handle(r)
  PROVE  /\ \E c \in todo[r] :
              /\ todo' = [todo EXCEPT ![r] = @ \ {c}]
              /\ todo[r] \cap Before[c] = {}
         /\ asked' = asked
  BY DEF Handle, AddUserToRoom, AddRoomToUser, ExpireRoom, ExpireUserRooms,
     RemoveUserFromRoom, RemoveRoomFromUser, Execute, Due

LEMMA TodoStep == TypeOK /\ TodoInv /\ [Next]_vars => TodoInv'
<1> SUFFICES ASSUME TypeOK, TodoInv, [Next]_vars PROVE TodoInv'
  OBVIOUS
<1> USE DEF TypeOK, TodoInv
<1>1. CASE UNCHANGED <<asked, todo>>
  BY <1>1
<1>2. ASSUME NEW r \in Requests, JoinRoom(r) \/ LeaveRoom(r) PROVE TodoInv'
  BY <1>2 DEF JoinRoom, LeaveRoom, Ask, Joining, Leaving
<1>3. ASSUME NEW r \in Requests, Handle(r) PROVE TodoInv'
  <2>1. PICK c \in todo[r] : /\ todo' = [todo EXCEPT ![r] = @ \ {c}]
                             /\ todo[r] \cap Before[c] = {}
    BY <1>3, CommandStep
  <2>2. "addRoom" \in todo'[r] => {"addUser", "expireRoom"} \subseteq todo'[r]
    BY <2>1, RoomCommands
  <2> QED
    BY <1>3, <2>1, <2>2, CommandStep
<1>4. ASSUME NEW r \in Requests, AbortRequest(r) PROVE TodoInv'
  BY <1>4 DEF AbortRequest
<1>5. ASSUME NEW r \in Requests, NEW c \in Commands, RejectCommand(r, c)
      PROVE  TodoInv'
  <2>1. /\ todo' = [todo EXCEPT ![r] = @ \ ({c} \cup Awaiting[c])]
        /\ asked' = asked
        /\ todo[r] \cap Before[c] = {}
        /\ c \in todo[r]
    BY <1>5 DEF RejectCommand, Due
  <2>2. "addRoom" \in todo'[r] => {"addUser", "expireRoom"} \subseteq todo'[r]
    BY <2>1, RoomCommands
  <2> QED
    BY <2>1, <2>2
<1> QED
  BY <1>1, <1>2, <1>3, <1>4, <1>5, EventsKept

-----------------------------------------------------------------------------
(* The rooms that list somebody expire.                                    *)

Expiring(c) ==
  \/ online[c] = {}
  \/ c \in ttl \cup stranded
  \/ \E r \in Requests : Conv(r) = c /\ AwaitsExpire(r)

LEMMA ExpiringInit == Init => RoomsExpire
  BY DEF Init, RoomsExpire

\* No TTL is lost while the room lists somebody, and no EXPIRE is.
LEMMA ExpiringFrame ==
  ASSUME NEW c, Expiring(c),
         online[c] = {} => online'[c] = {},
         c \in ttl => c \in ttl' \/ online'[c] = {},
         c \in stranded => c \in stranded',
         \A r \in Requests : AwaitsExpire(r) => AwaitsExpire(r)'
  PROVE  Expiring(c)'
  BY DEF Expiring

LEMMA ExpiringStep ==
  TypeOK /\ TodoInv /\ RoomsExpire /\ [Next]_vars => RoomsExpire'
<1> SUFFICES ASSUME TypeOK, TodoInv, RoomsExpire, [Next]_vars,
                    NEW k \in Conversations
             PROVE  Expiring(k)'
  BY DEF RoomsExpire, Expiring
<1>a. Expiring(k)
  BY DEF RoomsExpire, Expiring
<1> USE <1>a, RequestTypes DEF TypeOK, rooms, history
<1>1. CASE UNCHANGED <<rooms, todo, stranded>>
  <2>1. \A r \in Requests : AwaitsExpire(r) => AwaitsExpire(r)'
    BY <1>1 DEF AwaitsExpire
  <2> QED
    BY <1>1, <2>1, ExpiringFrame
<1>2. ASSUME NEW s \in Sockets,
             \/ ClearUserOnlineRooms(s)
             \/ \E c \in Conversations : RemoveFromRoom(s, c)
      PROVE  Expiring(k)'
  <2>1. \A r \in Requests : AwaitsExpire(r) => AwaitsExpire(r)'
    BY <1>2 DEF RemoveFromRoom, ClearUserOnlineRooms, AwaitsExpire
  <2> QED
    BY <1>2, <2>1, ExpiringFrame, ForgottenKeys
    DEF RemoveFromRoom, ClearUserOnlineRooms
<1>3. ASSUME NEW s \in Sockets,
             \/ Connect(s) \/ ConnectFails(s) \/ Disconnect(s) \/ Cleanup(s)
             \/ AbortDisconnect(s) \/ SessionExpires(s)
      PROVE  Expiring(k)'
  BY <1>1, <1>2, <1>3 DEF Connect, ConnectFails, Disconnect, Cleanup,
     SocketUnknown, SocketKnown, GetUserOnlineRooms, ClearUserSession,
     AbortDisconnect, SessionExpires
<1>4. ASSUME NEW r \in Requests, JoinRoom(r) \/ LeaveRoom(r)
      PROVE  Expiring(k)'
  <2>1. /\ UNCHANGED <<rooms, stranded>>
        /\ todo[r] = {}
        /\ \A q \in Requests : q # r => todo'[q] = todo[q]
    BY <1>4 DEF JoinRoom, LeaveRoom, Ask, TodoInv
  <2>2. \A q \in Requests : AwaitsExpire(q) => AwaitsExpire(q)'
    BY <2>1 DEF AwaitsExpire
  <2> QED
    BY <2>1, <2>2, ExpiringFrame
<1>5. ASSUME NEW r \in Requests, AddUserToRoom(r) PROVE Expiring(k)'
  <2>1. /\ "addRoom" \in todo[r]
        /\ todo' = [todo EXCEPT ![r] = @ \ {"addRoom"}]
        /\ "expireRoom" \in todo[r]
        /\ online' = [online EXCEPT ![Conv(r)] = @ \cup {User(r)}]
        /\ UNCHANGED <<ttl, stranded>>
    BY <1>5 DEF AddUserToRoom, Execute, Due, TodoInv
  <2>2. AwaitsExpire(r)'
    BY <2>1 DEF AwaitsExpire
  <2>3. \A q \in Requests : AwaitsExpire(q) => AwaitsExpire(q)'
    BY <2>1, <2>2 DEF AwaitsExpire
  <2>4. CASE Conv(r) = k
    BY <2>2, <2>4 DEF Expiring
  <2>5. CASE Conv(r) # k
    BY <2>1, <2>3, <2>5, ExpiringFrame
  <2> QED
    BY <2>4, <2>5
<1>6. ASSUME NEW r \in Requests,
             \/ AddRoomToUser(r) \/ ExpireUserRooms(r)
             \/ RemoveUserFromRoom(r) \/ RemoveRoomFromUser(r)
      PROVE  Expiring(k)'
  <2>1. PICK c \in todo[r] \cap {"addUser", "expireUser", "removeRoom", "removeUser"} :
          todo' = [todo EXCEPT ![r] = @ \ {c}]
    BY <1>6 DEF AddRoomToUser, ExpireUserRooms, RemoveUserFromRoom,
       RemoveRoomFromUser, Execute, Due
  <2>2. \A q \in Requests : AwaitsExpire(q) => AwaitsExpire(q)'
    BY <2>1 DEF AwaitsExpire
  <2>3. /\ online[k] = {} => online'[k] = {}
        /\ k \in ttl => k \in ttl' \/ online'[k] = {}
        /\ stranded' = stranded
    BY <1>6, ForgottenKeys DEF AddRoomToUser, ExpireUserRooms,
       RemoveUserFromRoom, RemoveRoomFromUser
  <2> QED
    BY <2>2, <2>3, ExpiringFrame
<1>7. ASSUME NEW r \in Requests, ExpireRoom(r) PROVE Expiring(k)'
  <2>1. /\ todo' = [todo EXCEPT ![r] = @ \ {"expireRoom"}]
        /\ online' = online
        /\ ttl' = IF online[Conv(r)] # {} THEN ttl \cup {Conv(r)} ELSE ttl
        /\ stranded' = stranded \ {Conv(r)}
    BY <1>7 DEF ExpireRoom, Execute
  <2>2. CASE Conv(r) = k
    BY <2>1, <2>2 DEF Expiring
  <2>3. CASE Conv(r) # k
    <3>1. \A q \in Requests : q # r /\ AwaitsExpire(q) => AwaitsExpire(q)'
      BY <2>1 DEF AwaitsExpire
    <3> QED
      BY <2>1, <2>3, <3>1 DEF Expiring
  <2> QED
    BY <2>2, <2>3
<1>8. ASSUME NEW r \in Requests, AbortRequest(r) PROVE Expiring(k)'
  <2>1. /\ todo' = [todo EXCEPT ![r] = {}]
        /\ UNCHANGED <<online, ttl>>
        /\ stranded' = IF AwaitsExpire(r) /\ Conv(r) \notin ttl
                         THEN stranded \cup {Conv(r)} ELSE stranded
    BY <1>8 DEF AbortRequest, Strand
  <2>2. \A q \in Requests : q # r /\ AwaitsExpire(q) => AwaitsExpire(q)'
    BY <2>1 DEF AwaitsExpire
  <2> QED
    BY <2>1, <2>2 DEF Expiring
<1>9. ASSUME NEW r \in Requests, NEW c \in Commands, RejectCommand(r, c)
      PROVE  Expiring(k)'
  <2>1. /\ todo' = [todo EXCEPT ![r] = @ \ ({c} \cup Awaiting[c])]
        /\ UNCHANGED <<online, ttl>>
        /\ stranded' = IF c = "expireRoom" /\ Conv(r) \notin ttl
                         THEN stranded \cup {Conv(r)} ELSE stranded
        /\ c \in todo[r]
    BY <1>9 DEF RejectCommand, Strand, Due
  <2>2. \A q \in Requests : q # r /\ AwaitsExpire(q) => AwaitsExpire(q)'
    BY <2>1 DEF AwaitsExpire
  <2>3. c # "expireRoom" /\ AwaitsExpire(r) => AwaitsExpire(r)'
    BY <2>1, RoomCommands DEF AwaitsExpire
  <2> QED
    BY <2>1, <2>2, <2>3 DEF Expiring
<1>10. ASSUME NEW c \in Conversations, RoomExpires(c) PROVE Expiring(k)'
  <2>1. \A r \in Requests : AwaitsExpire(r) => AwaitsExpire(r)'
    BY <1>10 DEF RoomExpires, AwaitsExpire
  <2> QED
    BY <1>10, <2>1, ExpiringFrame DEF RoomExpires
<1>11. ASSUME NEW c \in Conversations, NEW u \in Users, LeaveConversation(u, c)
       PROVE  Expiring(k)'
  <2>1. \A r \in Requests : AwaitsExpire(r) => AwaitsExpire(r)'
    BY <1>11 DEF LeaveConversation, AwaitsExpire
  <2> QED
    BY <1>11, <2>1, ExpiringFrame, ForgottenKeys DEF LeaveConversation
<1>12. ASSUME NEW u \in Users, IndexExpires(u) PROVE Expiring(k)'
  <2>1. \A r \in Requests : AwaitsExpire(r) => AwaitsExpire(r)'
    BY <1>12 DEF IndexExpires, AwaitsExpire
  <2>2. k # u
    BY PresenceAssumption
  <2> QED
    BY <1>12, <2>1, <2>2, ExpiringFrame DEF IndexExpires
<1>13. CASE UNCHANGED vars
  BY <1>1, <1>13 DEF vars
<1> QED
  BY <1>3, <1>4, <1>5, <1>6, <1>7, <1>8, <1>9, <1>10, <1>11, <1>12, <1>13
  DEF Next, Handle

-----------------------------------------------------------------------------
(* What a disconnect relies on.                                            *)

LEMMA CleanInit == Init => CleanInv
  BY DEF Init, CleanInv, CleanUser, Covered, EventsOf

\* Whoever is listed nowhere is clean, whatever the handlers are doing.
LEMMA Unlisted ==
  ASSUME NEW u, \A c \in Conversations : u \notin online'[c]
  PROVE  CleanUser(u)'
<1>1. \A r \in EventsOf(u) : Conv(r) \in Conversations
  BY RequestTypes DEF EventsOf
<1>2. Covered(u, onlineRooms[u])' /\ Covered(u, {})'
  BY DEF Covered
<1>3. \A s \in SocketsOf(u) : Covered(u, view[s])'
  BY DEF Covered
<1> QED
  BY <1>1, <1>2, <1>3 DEF CleanUser

\* Listed in some conversation.
Listed(u) == \E c \in Conversations : u \in online[c]

\* The steps that list the user in no further room, take nothing from the
\* index and what was read of it, and stop no join half-way.
LEMMA CleanFrame ==
  ASSUME NEW u, CleanUser(u),
         \A c \in Conversations : u \in online'[c] => u \in online[c],
         \A c \in Conversations : Pending(u, c) => Pending(u, c)',
         onlineRooms[u] \subseteq onlineRooms'[u],
         \A s \in SocketsOf(u) : sock'[s] = "remove" =>
           /\ sock[s] = "remove"
           /\ view'[s] = view[s],
         NobodyCleans(u)' => NobodyCleans(u),
         \A r \in EventsOf(u) : todo'[r] = {"removeUser"} => todo[r] = {"removeUser"}
  PROVE  CleanUser(u)'
<1>1. \A r \in EventsOf(u) : Conv(r) \in Conversations
  BY RequestTypes DEF EventsOf
<1>2. ASSUME NEW old, NEW new, old \subseteq new, Covered(u, old)
      PROVE  \A c \in Conversations : u \in online'[c] => c \in new \/ Pending(u, c)'
  BY <1>2 DEF Covered
<1>3. Covered(u, onlineRooms[u])'
  BY <1>2 DEF CleanUser, Covered
<1>4. ASSUME NEW s \in SocketsOf(u), sock'[s] = "remove"
      PROVE  Covered(u, view[s])'
  BY <1>2, <1>4 DEF CleanUser, Covered
<1>5. NobodyCleans(u)' => Covered(u, {})'
  BY <1>2 DEF CleanUser, Covered
<1> QED
  BY <1>1, <1>3, <1>4, <1>5 DEF CleanUser

\* The steps that change no socket of the user.
LEMMA SameSockets ==
  ASSUME NEW u, \A s \in SocketsOf(u) : sock'[s] = sock[s] /\ view'[s] = view[s]
  PROVE  /\ NobodyCleans(u)' <=> NobodyCleans(u)
         /\ \A s \in SocketsOf(u) : sock'[s] = "remove" =>
              sock[s] = "remove" /\ view'[s] = view[s]
  BY DEF NobodyCleans, SocketsOf

LEMMA SameEvents ==
  ASSUME NEW u, \A r \in EventsOf(u) : todo'[r] = todo[r]
  PROVE  /\ \A c : Pending(u, c)' <=> Pending(u, c)
         /\ \A r \in EventsOf(u) :
              todo'[r] = {"removeUser"} => todo[r] = {"removeUser"}
  BY DEF Pending, HalfJoined, EventsOf

\* Any step of a socket, a key that expires, or a REST call.
LEMMA CleanSocketFrame ==
  ASSUME NEW u, CleanUser(u), todo' = todo,
         \A c \in Conversations : u \in online'[c] => u \in online[c],
         onlineRooms[u] \subseteq onlineRooms'[u],
         \A s \in SocketsOf(u) : sock'[s] = "remove" =>
           sock[s] = "remove" /\ view'[s] = view[s],
         NobodyCleans(u)' => NobodyCleans(u)
  PROVE  CleanUser(u)'
  BY SameEvents, CleanFrame

\* Any step of an event.
LEMMA CleanEventFrame ==
  ASSUME NEW u, CleanUser(u), UNCHANGED <<sock, view>>,
         \A c \in Conversations : u \in online'[c] => u \in online[c],
         \A c \in Conversations : Pending(u, c) => Pending(u, c)',
         onlineRooms[u] \subseteq onlineRooms'[u],
         \A r \in EventsOf(u) : todo'[r] = {"removeUser"} => todo[r] = {"removeUser"}
  PROVE  CleanUser(u)'
<1>1. \A s \in SocketsOf(u) : sock'[s] = sock[s] /\ view'[s] = view[s]
  OBVIOUS
<1> QED
  BY <1>1, SameSockets, CleanFrame

\* A socket's steps list no user anywhere.
LEMMA SocketStepsOnline ==
  ASSUME TypeOK, NEW s \in Sockets,
         \/ Connect(s) \/ ConnectFails(s) \/ Disconnect(s) \/ Cleanup(s)
         \/ AbortDisconnect(s) \/ SessionExpires(s),
         NEW u \in Users
  PROVE  /\ todo' = todo
         /\ \A c \in Conversations : u \in online'[c] => u \in online[c]
         /\ owner[s] # u => /\ onlineRooms'[u] = onlineRooms[u]
                            /\ u \notin exposed' => u \notin exposed
         /\ \A t \in Sockets : t # s => sock'[t] = sock[t] /\ view'[t] = view[t]
<1> USE OwnerType DEF TypeOK, Become, rooms, session, history, Expose
<1>1. CASE Connect(s)
  BY <1>1 DEF Connect
<1>2. CASE ConnectFails(s) \/ Disconnect(s)
  BY <1>2 DEF ConnectFails, Disconnect
<1>3. CASE SocketUnknown(s) \/ SocketKnown(s) \/ GetUserOnlineRooms(s)
  BY <1>3 DEF SocketUnknown, SocketKnown, GetUserOnlineRooms
<1>4. ASSUME NEW d \in Conversations, RemoveFromRoom(s, d)
      PROVE  /\ todo' = todo
             /\ \A c \in Conversations : u \in online'[c] => u \in online[c]
             /\ UNCHANGED <<sock, onlineRooms, exposed>>
             /\ \A t \in Sockets : t # s => view'[t] = view[t]
  BY <1>4 DEF RemoveFromRoom
<1>5. CASE ClearUserOnlineRooms(s) \/ ClearUserSession(s)
  BY <1>5 DEF ClearUserOnlineRooms, ClearUserSession
<1>6. CASE AbortDisconnect(s) \/ SessionExpires(s)
  BY <1>6 DEF AbortDisconnect, SessionExpires
<1> QED
  BY <1>1, <1>2, <1>3, <1>4, <1>5, <1>6 DEF Cleanup

LEMMA CleanSocketStep ==
  ASSUME TypeOK, CleanInv, NEW s \in Sockets,
         \/ Connect(s) \/ ConnectFails(s) \/ Disconnect(s) \/ Cleanup(s)
         \/ AbortDisconnect(s) \/ SessionExpires(s),
         NEW u \in Users, u \notin exposed', Listed(u)'
  PROVE  CleanUser(u)'
<1>1. /\ todo' = todo
      /\ \A c \in Conversations : u \in online'[c] => u \in online[c]
      /\ \A t \in SocketsOf(u) : t # s => sock'[t] = sock[t] /\ view'[t] = view[t]
  BY SocketStepsOnline DEF SocketsOf
<1>2. \A c \in Conversations : Pending(u, c)' <=> Pending(u, c)
  BY <1>1, SameEvents
<1>3. \A r \in EventsOf(u) : Conv(r) \in Conversations
  BY RequestTypes DEF EventsOf
<1>4. CASE owner[s] # u
  <2>1. /\ onlineRooms'[u] = onlineRooms[u]
        /\ u \notin exposed
        /\ \A t \in SocketsOf(u) : sock'[t] = sock[t] /\ view'[t] = view[t]
    BY <1>1, <1>4, SocketStepsOnline DEF SocketsOf
  <2>2. CleanUser(u)
    BY <2>1 DEF CleanInv
  <2>3. NobodyCleans(u)' <=> NobodyCleans(u)
    BY <2>1, SameSockets
  <2> QED
    BY <1>1, <2>1, <2>2, <2>3, CleanSocketFrame
<1> SUFFICES ASSUME owner[s] = u PROVE CleanUser(u)'
  BY <1>4
<1>5. s \in SocketsOf(u)
  BY DEF SocketsOf
<1> USE DEF TypeOK, Become, rooms, session, history, Expose
<1>6. CASE Connect(s)
  <2>1. sock[s] = "new" /\ sock'[s] = "open" /\ onlineRooms' = onlineRooms
    BY <1>6 DEF Connect
  <2>2. CASE u \in exposed
    BY <1>1, <1>6, <2>2 DEF Connect, ListedIn, Listed
  <2>3. CASE u \notin exposed
    <3>1. CleanUser(u)
      BY <2>3 DEF CleanInv
    <3>2. NobodyCleans(u)' => NobodyCleans(u)
      BY <1>1, <1>5, <2>1 DEF NobodyCleans, WillRead
    <3>3. \A t \in SocketsOf(u) : sock'[t] = "remove" =>
            sock[t] = "remove" /\ view'[t] = view[t]
      BY <1>1, <2>1
    <3> QED
      BY <1>1, <2>1, <3>1, <3>2, <3>3, CleanSocketFrame
  <2> QED
    BY <2>2, <2>3
<1>7. CASE ConnectFails(s) \/ Disconnect(s) \/ SocketKnown(s)
  <2>1. /\ sock[s] \in {"new", "open", "lookup"}
        /\ sock'[s] \in {"lookup", "getRooms"}
        /\ onlineRooms' = onlineRooms
        /\ exposed' = exposed
    BY <1>7 DEF ConnectFails, Disconnect, SocketKnown
  <2>2. CleanUser(u)
    BY <2>1 DEF CleanInv
  <2>3. NobodyCleans(u)' => NobodyCleans(u)
    BY <1>1, <1>5, <2>1 DEF NobodyCleans, WillRead
  <2>4. \A t \in SocketsOf(u) : sock'[t] = "remove" =>
          sock[t] = "remove" /\ view'[t] = view[t]
    BY <1>1, <2>1
  <2> QED
    BY <1>1, <2>1, <2>2, <2>3, <2>4, CleanSocketFrame
<1>8. CASE SessionExpires(s)
  <2>1. UNCHANGED <<sock, view, onlineRooms, exposed>>
    BY <1>8 DEF SessionExpires
  <2>2. CleanUser(u)
    BY <2>1 DEF CleanInv
  <2>3. \A t \in SocketsOf(u) : sock'[t] = sock[t] /\ view'[t] = view[t]
    BY <2>1
  <2> QED
    BY <1>1, <2>1, <2>2, <2>3, SameSockets, CleanSocketFrame
<1>9. CASE SocketUnknown(s) \/ AbortDisconnect(s)
  <2>1. /\ sock[s] \in Closing
        /\ sock'[s] = "closed"
        /\ onlineRooms' = onlineRooms
        /\ exposed' = IF LastCleaner(s) THEN exposed \cup {u} ELSE exposed
    BY <1>9 DEF Listed, SocketUnknown, AbortDisconnect, Closing
  <2>2. ~LastCleaner(s) /\ CleanUser(u)
    BY <2>1 DEF CleanInv
  <2>3. NobodyCleans(u)' => NobodyCleans(u)
    <3>1. CASE sock[s] \in WillRead \cup {"remove"}
      <4>1. PICK t \in SocketsOf(u) : t # s /\ sock[t] \in WillRead \cup {"remove"}
        BY <1>5, <2>2, <3>1 DEF LastCleaner
      <4> QED
        BY <1>1, <4>1 DEF NobodyCleans, WillRead
    <3>2. CASE sock[s] \notin WillRead \cup {"remove"}
      BY <1>1, <2>1, <3>2 DEF NobodyCleans, WillRead
    <3> QED
      BY <3>1, <3>2
  <2>4. \A t \in SocketsOf(u) : sock'[t] = "remove" =>
          sock[t] = "remove" /\ view'[t] = view[t]
    BY <1>1, <2>1
  <2> QED
    BY <1>1, <2>1, <2>2, <2>3, <2>4, CleanSocketFrame
<1>10. CASE GetUserOnlineRooms(s)
  <2>1. /\ sock[s] = "getRooms"
        /\ sock'[s] = "remove"
        /\ view'[s] = onlineRooms[u]
        /\ online' = online
        /\ onlineRooms' = onlineRooms
        /\ exposed' = exposed
    BY <1>10 DEF GetUserOnlineRooms
  <2>2. CleanUser(u)
    BY <2>1 DEF CleanInv
  <2>3. Covered(u, onlineRooms[u])'
    BY <1>2, <2>1, <2>2 DEF CleanUser, Covered
  <2>4. ASSUME NEW t \in SocketsOf(u), sock'[t] = "remove"
        PROVE  Covered(u, view[t])'
    BY <1>1, <1>2, <2>1, <2>2, <2>4 DEF CleanUser, Covered
  <2>5. NobodyCleans(u)' => NobodyCleans(u)
    BY <1>1, <1>5, <2>1 DEF NobodyCleans, WillRead
  <2>6. NobodyCleans(u)' => Covered(u, {})'
    BY <1>2, <2>1, <2>2, <2>5 DEF CleanUser, Covered
  <2> QED
    BY <1>1, <2>1, <2>2, <2>3, <2>4, <2>6 DEF CleanUser
<1>11. ASSUME NEW c \in Conversations, RemoveFromRoom(s, c)
       PROVE  CleanUser(u)'
  <2>1. /\ sock[s] = "remove"
        /\ sock' = sock
        /\ u \notin online'[c]
        /\ view'[s] = view[s] \ {c}
        /\ onlineRooms' = onlineRooms
        /\ exposed' = exposed
    BY <1>11 DEF RemoveFromRoom
  <2>2. CleanUser(u)
    BY <2>1 DEF CleanInv
  <2>3. Covered(u, onlineRooms[u])'
    BY <1>1, <1>2, <2>1, <2>2 DEF CleanUser, Covered
  <2>4. ASSUME NEW t \in SocketsOf(u), sock'[t] = "remove"
        PROVE  Covered(u, view[t])'
    <3>1. Covered(u, view[t])
      BY <2>1, <2>2, <2>4 DEF CleanUser
    <3> QED
      BY <1>1, <1>2, <2>1, <2>4, <3>1 DEF Covered
  <2>5. ~NobodyCleans(u)'
    BY <1>5, <2>1 DEF NobodyCleans
  <2> QED
    BY <1>1, <1>3, <2>2, <2>3, <2>4, <2>5 DEF CleanUser
<1>12. CASE ClearUserOnlineRooms(s)
  <2>1. /\ sock[s] = "remove"
        /\ view[s] = {}
        /\ online' = online
        /\ exposed' = exposed
    BY <1>12 DEF ClearUserOnlineRooms
  <2>2. CleanUser(u)
    BY <2>1 DEF CleanInv
  <2>3. Covered(u, {})
    BY <1>5, <2>1, <2>2 DEF CleanUser
  <2>4. Covered(u, {})'
    BY <1>2, <2>1, <2>3 DEF Covered
  <2>5. /\ Covered(u, onlineRooms[u])'
        /\ \A t \in SocketsOf(u) : Covered(u, view[t])'
    BY <2>4 DEF Covered
  <2> QED
    BY <1>1, <1>3, <2>1, <2>2, <2>4, <2>5 DEF CleanUser
<1>13. CASE ClearUserSession(s)
  <2>1. /\ sock[s] = "clearSession"
        /\ sock'[s] = "closed"
        /\ onlineRooms' = onlineRooms
        /\ exposed' = exposed
    BY <1>13 DEF ClearUserSession
  <2>2. CleanUser(u)
    BY <2>1 DEF CleanInv
  <2>3. NobodyCleans(u)' => NobodyCleans(u)
    BY <1>1, <1>5, <2>1 DEF NobodyCleans, WillRead
  <2>4. \A t \in SocketsOf(u) : sock'[t] = "remove" =>
          sock[t] = "remove" /\ view'[t] = view[t]
    BY <1>1, <2>1
  <2> QED
    BY <1>1, <2>1, <2>2, <2>3, <2>4, CleanSocketFrame
<1> QED
  BY <1>6, <1>7, <1>8, <1>9, <1>10, <1>11, <1>12, <1>13 DEF Cleanup

\* An event's steps touch its own user only, and no socket.
EventStep(r) ==
  \/ JoinRoom(r) \/ LeaveRoom(r) \/ Handle(r) \/ AbortRequest(r)
  \/ \E c \in Commands : RejectCommand(r, c)

LEMMA EventStepsLocal ==
  ASSUME TypeOK, NEW r \in Requests, EventStep(r), NEW u \in Users
  PROVE  /\ UNCHANGED <<sock, view>>
         /\ \A q \in Requests : q # r => todo'[q] = todo[q]
         /\ u \notin exposed' => u \notin exposed
         /\ User(r) # u =>
              /\ \A c \in Conversations : u \in online'[c] <=> u \in online[c]
              /\ onlineRooms'[u] = onlineRooms[u]
              /\ \A s \in SocketsOf(u) : inRoom'[s] = inRoom[s]
              /\ \A q \in EventsOf(u) : todo'[q] = todo[q]
<1> USE RequestTypes
    DEF TypeOK, rooms, session, history, Expose, Execute, EventsOf, SocketsOf
<1>1. CASE JoinRoom(r) \/ LeaveRoom(r)
  BY <1>1 DEF JoinRoom, LeaveRoom, Ask
<1>2. CASE AddUserToRoom(r) \/ AddRoomToUser(r)
  BY <1>2 DEF AddUserToRoom, AddRoomToUser
<1>3. CASE ExpireRoom(r) \/ ExpireUserRooms(r)
  BY <1>3 DEF ExpireRoom, ExpireUserRooms
<1>4. CASE RemoveUserFromRoom(r) \/ RemoveRoomFromUser(r)
  BY <1>4 DEF RemoveUserFromRoom, RemoveRoomFromUser
<1>5. CASE AbortRequest(r)
  BY <1>5 DEF AbortRequest
<1>6. ASSUME NEW c \in Commands, RejectCommand(r, c)
      PROVE  /\ UNCHANGED <<sock, view, online, onlineRooms, inRoom>>
             /\ \A q \in Requests : q # r => todo'[q] = todo[q]
             /\ u \notin exposed' => u \notin exposed
  BY <1>6 DEF RejectCommand
<1> QED
  BY <1>1, <1>2, <1>3, <1>4, <1>5, <1>6 DEF EventStep, Handle

\* An event does not start half-way.
LEMMA EventsStartWhole == {"removeUser"} \notin {{}, Joining, Leaving}
<1>1. "addRoom" \in Joining /\ "removeRoom" \in Leaving
  BY DEF Joining, Leaving
<1> QED
  BY <1>1

LEMMA CleanEventStep ==
  ASSUME TypeOK, TodoInv, CleanInv, NEW r \in Requests, EventStep(r),
         NEW u \in Users, u \notin exposed', Listed(u)'
  PROVE  CleanUser(u)'
<1>1. /\ UNCHANGED <<sock, view>>
      /\ \A q \in Requests : q # r => todo'[q] = todo[q]
      /\ CleanUser(u)
  BY EventStepsLocal DEF CleanInv
<1>2. CASE User(r) # u
  <2>1. /\ \A c \in Conversations : u \in online'[c] => u \in online[c]
        /\ onlineRooms'[u] = onlineRooms[u]
        /\ \A q \in EventsOf(u) : todo'[q] = todo[q]
    BY <1>2, EventStepsLocal
  <2> QED
    BY <1>1, <2>1, SameEvents, CleanEventFrame
<1> SUFFICES ASSUME User(r) = u PROVE CleanUser(u)'
  BY <1>2
<1>3. /\ r \in EventsOf(u)
      /\ Conv(r) \in Conversations
      /\ EventsOf(u) \subseteq Requests
      /\ \A q \in EventsOf(u) : Conv(q) \in Conversations
  BY RequestTypes DEF EventsOf
<1>4. ASSUME HalfJoined(r) => HalfJoined(r)'
      PROVE  \A c \in Conversations : Pending(u, c) => Pending(u, c)'
  BY <1>1, <1>3, <1>4 DEF Pending, HalfJoined
<1> USE DEF TypeOK, rooms, session, history, Expose
<1>5. CASE JoinRoom(r) \/ LeaveRoom(r)
  <2>1. /\ todo[r] = {}
        /\ todo'[r] \in {{}, Joining, Leaving}
        /\ UNCHANGED <<online, onlineRooms>>
    BY <1>5 DEF JoinRoom, LeaveRoom, Ask, TodoInv
  <2>3. todo'[r] # {"removeUser"}
    BY <2>1, EventsStartWhole
  <2>2. HalfJoined(r) => HalfJoined(r)'
    BY <2>1 DEF HalfJoined
  <2> QED
    BY <1>1, <1>3, <1>4, <2>1, <2>2, <2>3, CleanEventFrame
<1>6. CASE AddUserToRoom(r)
  <2>1. /\ "addRoom" \in todo[r]
        /\ todo'[r] = todo[r] \ {"addRoom"}
        /\ \A c \in Conversations : u \in online'[c] => u \in online[c] \/ c = Conv(r)
        /\ onlineRooms' = onlineRooms
        /\ ~CrossesLeave(r)
    BY <1>6 DEF Listed, AddUserToRoom, Execute, Due
  <2>2. HalfJoined(r)'
    BY <1>6 DEF AddUserToRoom, Execute, Due, TodoInv, HalfJoined
  <2>3. /\ Pending(u, Conv(r))'
        /\ \A c \in Conversations : Pending(u, c) => Pending(u, c)'
    BY <1>3, <1>4, <2>2 DEF Pending
  <2>4. /\ Covered(u, onlineRooms[u])'
        /\ \A s \in SocketsOf(u) : sock'[s] = "remove" => Covered(u, view[s])'
        /\ NobodyCleans(u)' => Covered(u, {})'
    BY <1>1, <2>1, <2>3 DEF CleanUser, Covered, NobodyCleans
  <2>5. ASSUME NEW q \in EventsOf(u), todo'[q] = {"removeUser"}
        PROVE  u \notin online'[Conv(q)]
    <3>1. q # r
      BY <2>2, <2>5 DEF HalfJoined
    <3>2. todo[q] = {"removeUser"} /\ Conv(q) # Conv(r)
      BY <1>1, <1>3, <2>1, <2>5, <3>1 DEF CrossesLeave, EventsOf
    <3> QED
      BY <1>1, <1>3, <2>1, <3>2 DEF CleanUser
  <2> QED
    BY <2>4, <2>5 DEF CleanUser
<1>7. CASE AddRoomToUser(r)
  <2>1. /\ "addUser" \in todo[r]
        /\ "addRoom" \notin todo[r]
        /\ todo'[r] = todo[r] \ {"addUser"}
        /\ onlineRooms'[u] = onlineRooms[u] \cup {Conv(r)}
        /\ online' = online
        /\ ~Unnoticed(u)
    BY <1>7 DEF Listed, AddRoomToUser, Execute, Due, Before
  <2>2. todo'[r] # {"removeUser"}
    BY <1>3, <2>1 DEF TodoInv, Joining, Leaving
  <2>3. \A c \in Conversations : c # Conv(r) /\ Pending(u, c) => Pending(u, c)'
    BY <1>1, <1>3 DEF Pending, HalfJoined
  <2>4. Covered(u, onlineRooms[u])'
    BY <1>1, <2>1, <2>3 DEF CleanUser, Covered
  <2>5. /\ \A s \in SocketsOf(u) : sock'[s] # "remove"
        /\ ~NobodyCleans(u)'
    BY <1>1, <2>1 DEF Unnoticed, NobodyCleans, SocketsOf
  <2>6. \A q \in EventsOf(u) : todo'[q] = {"removeUser"} => u \notin online'[Conv(q)]
    BY <1>1, <1>3, <2>1, <2>2 DEF CleanUser
  <2> QED
    BY <2>4, <2>5, <2>6 DEF CleanUser
<1>8. CASE ExpireRoom(r) \/ ExpireUserRooms(r)
  <2>1. PICK e \in {"expireRoom", "expireUser"} :
          /\ e \in todo[r]
          /\ todo'[r] = todo[r] \ {e}
          /\ UNCHANGED <<online, onlineRooms>>
    BY <1>8 DEF ExpireRoom, ExpireUserRooms, Execute, Due
  <2>2. /\ HalfJoined(r) => HalfJoined(r)'
        /\ todo'[r] # {"removeUser"}
    BY <1>3, <2>1 DEF HalfJoined, TodoInv, Joining, Leaving
  <2> QED
    BY <1>1, <1>3, <1>4, <2>1, <2>2, CleanEventFrame
<1>9. CASE RemoveUserFromRoom(r)
  <2>1. /\ "removeRoom" \in todo[r]
        /\ todo'[r] = todo[r] \ {"removeRoom"}
        /\ \A c \in Conversations : u \in online'[c] => u \in online[c] /\ c # Conv(r)
        /\ onlineRooms' = onlineRooms
    BY <1>9 DEF RemoveUserFromRoom, Execute, Due
  <2>2. HalfJoined(r) => HalfJoined(r)'
    BY <2>1 DEF HalfJoined
  <2>3. /\ Covered(u, onlineRooms[u])'
        /\ \A s \in SocketsOf(u) : sock'[s] = "remove" => Covered(u, view[s])'
        /\ NobodyCleans(u)' => Covered(u, {})'
    BY <1>1, <1>4, <2>1, <2>2 DEF CleanUser, Covered, NobodyCleans
  <2>4. \A q \in EventsOf(u) : todo'[q] = {"removeUser"} => u \notin online'[Conv(q)]
    BY <1>1, <1>3, <2>1 DEF CleanUser
  <2> QED
    BY <2>3, <2>4 DEF CleanUser
<1>10. CASE RemoveRoomFromUser(r)
  <2>1. /\ todo[r] = {"removeUser"}
        /\ todo'[r] = {}
        /\ onlineRooms'[u] = onlineRooms[u] \ {Conv(r)}
        /\ online' = online
    BY <1>3, <1>10 DEF RemoveRoomFromUser, Execute, Due, Before, TodoInv,
       Joining, Leaving
  <2>2. u \notin online[Conv(r)]
    BY <1>1, <1>3, <2>1 DEF CleanUser
  <2>3. HalfJoined(r) => HalfJoined(r)'
    BY <2>1 DEF HalfJoined
  <2>4. /\ Covered(u, onlineRooms[u])'
        /\ \A s \in SocketsOf(u) : sock'[s] = "remove" => Covered(u, view[s])'
        /\ NobodyCleans(u)' => Covered(u, {})'
    BY <1>1, <1>4, <2>1, <2>2, <2>3 DEF CleanUser, Covered, NobodyCleans
  <2>5. \A q \in EventsOf(u) : todo'[q] = {"removeUser"} => u \notin online'[Conv(q)]
    BY <1>1, <1>3, <2>1 DEF CleanUser
  <2> QED
    BY <2>4, <2>5 DEF CleanUser
<1>11. CASE AbortRequest(r)
  <2>1. /\ ~HalfJoined(r)
        /\ todo'[r] = {}
        /\ UNCHANGED <<online, onlineRooms>>
    BY <1>11 DEF Listed, AbortRequest
  <2> QED
    BY <1>1, <1>3, <1>4, <2>1, CleanEventFrame
<1>12. ASSUME NEW c \in Commands, RejectCommand(r, c) PROVE CleanUser(u)'
  <2>1. /\ c \in todo[r]
        /\ c \notin {"addUser", "removeRoom"}
        /\ todo'[r] = todo[r] \ ({c} \cup Awaiting[c])
        /\ UNCHANGED <<online, onlineRooms>>
    BY <1>12 DEF Listed, RejectCommand, Due
  <2>2. HalfJoined(r) => HalfJoined(r)'
    BY <2>1, RoomCommands DEF HalfJoined
  <2>3. c \in Joining => todo'[r] # {"removeUser"}
    BY <1>3, <2>1 DEF TodoInv, Joining, Leaving
  <2>4. c \notin Joining => todo'[r] # {"removeUser"}
    BY <1>3, <2>1 DEF Commands, Joining, Leaving
  <2> QED
    BY <1>1, <1>3, <1>4, <2>1, <2>2, <2>3, <2>4, CleanEventFrame
<1> QED
  BY <1>5, <1>6, <1>7, <1>8, <1>9, <1>10, <1>11, <1>12 DEF EventStep, Handle

LEMMA CleanStep ==
  TypeOK /\ TodoInv /\ CleanInv /\ [Next]_vars => CleanInv'
<1> SUFFICES ASSUME TypeOK, TodoInv, CleanInv, [Next]_vars,
                    NEW u \in Users, u \notin exposed', Listed(u)'
             PROVE  CleanUser(u)'
  BY Unlisted DEF CleanInv, Listed
<1>1. CASE /\ UNCHANGED <<sock, view, todo>>
           /\ \A c \in Conversations : u \in online'[c] => u \in online[c]
           /\ onlineRooms'[u] = onlineRooms[u]
           /\ u \notin exposed
  <2>1. CleanUser(u)
    BY <1>1 DEF CleanInv
  <2>2. \A s \in SocketsOf(u) : sock'[s] = sock[s] /\ view'[s] = view[s]
    BY <1>1
  <2> QED
    BY <1>1, <2>1, <2>2, SameSockets, CleanSocketFrame
<1>2. CASE UNCHANGED vars
  BY <1>1, <1>2 DEF vars, rooms, history
<1>3. ASSUME NEW s \in Sockets,
             \/ Connect(s) \/ ConnectFails(s) \/ Disconnect(s) \/ Cleanup(s)
             \/ AbortDisconnect(s) \/ SessionExpires(s)
      PROVE  CleanUser(u)'
  BY <1>3, CleanSocketStep
<1>4. ASSUME NEW r \in Requests, EventStep(r) PROVE CleanUser(u)'
  BY <1>4, CleanEventStep
<1> USE DEF TypeOK, rooms, session, history
<1>5. ASSUME NEW v \in Users, IndexExpires(v) PROVE CleanUser(u)'
  BY <1>1, <1>5 DEF IndexExpires, Expose, Listed
<1>6. ASSUME NEW c \in Conversations, RoomExpires(c) PROVE CleanUser(u)'
  BY <1>1, <1>6 DEF RoomExpires
<1>7. ASSUME NEW c \in Conversations, NEW v \in Users, LeaveConversation(v, c)
      PROVE  CleanUser(u)'
  BY <1>1, <1>7 DEF LeaveConversation
<1> QED
  BY <1>2, <1>3, <1>4, <1>5, <1>6, <1>7 DEF Next, EventStep

-----------------------------------------------------------------------------
(* One socket and one event of a user at a time.                           *)

LEMMA CalmInit == Init => CalmInv
<1> SUFFICES ASSUME Init, NEW u \in Users PROVE CalmUser(u)
  BY DEF CalmInv
<1>1. /\ \A s \in SocketsOf(u) : ~Alive(s) /\ inRoom[s] = {}
      /\ \A r \in EventsOf(u) : todo[r] = {}
  BY DEF Init, SocketsOf, EventsOf, Alive, Closing
<1> QED
  BY <1>1 DEF CalmUser

\* The steps that keep the user's sockets, finish commands other than the SADD
\* of the room, and remove the user from no room it has joined.
LEMMA CalmFrame ==
  ASSUME NEW u, CalmUser(u),
         \A s \in SocketsOf(u) : /\ Alive(s)' <=> Alive(s)
                                 /\ sock'[s] = "open" <=> sock[s] = "open"
                                 /\ inRoom'[s] = inRoom[s],
         \A r \in EventsOf(u) : /\ todo'[r] \subseteq todo[r]
                                /\ "addRoom" \in todo[r] => "addRoom" \in todo'[r],
         \A c : u \in online[c] /\ (\E s \in SocketsOf(u) : c \in inRoom[s])
                  => u \in online'[c]
  PROVE  CalmUser(u)'
<1>1. \A r \in EventsOf(u) : Socket(r) \in SocketsOf(u)
  BY RequestTypes DEF EventsOf, SocketsOf
<1>2. \A c : Arriving(u, c) => Arriving(u, c)'
  BY DEF Arriving
<1> QED
  BY <1>1, <1>2 DEF CalmUser

\* The steps there are in an orderly scene.
LEMMA CalmSteps ==
  ASSUME Orderly, [Next]_vars
  PROVE  \/ UNCHANGED vars
         \/ \E s \in Sockets : \/ Connect(s) \/ Disconnect(s) \/ Cleanup(s)
                               \/ SessionExpires(s)
         \/ \E r \in Requests : JoinRoom(r) \/ LeaveRoom(r) \/ Handle(r)
         \/ \E u \in Users : IndexExpires(u)
  BY DEF Next, Orderly, ConnectFails, AbortDisconnect, AbortRequest,
     RejectCommand, RoomExpires, LeaveConversation

\* While a socket of the user connects or closes, and while one that closed is
\* cleaned up, no other is there and no event runs.
LEMMA NobodyElse ==
  ASSUME Orderly, NEW u \in Users, CalmUser(u), NEW s \in SocketsOf(u),
         Connect(s) \/ Disconnect(s) \/ Cleanup(s)
  PROVE  /\ \A t \in SocketsOf(u) : t # s => ~Alive(t)
         /\ \A r \in EventsOf(u) : todo[r] = {}
<1>1. s \in Sockets /\ owner[s] = u
  BY DEF SocketsOf
<1>2. CASE Connect(s)
  BY <1>1, <1>2 DEF Connect, MayConnect, Orderly, Connected, Busy, Alive, EventsOf
<1>3. CASE Disconnect(s)
  BY <1>1, <1>3 DEF Disconnect, Become, MayStart, Orderly, Busy, Alive, EventsOf,
     CalmUser
<1>4. CASE Cleanup(s)
  <2>1. sock[s] \in Closing
    BY <1>4 DEF Cleanup, SocketUnknown, SocketKnown, GetUserOnlineRooms,
       RemoveFromRoom, ClearUserOnlineRooms, ClearUserSession, Become, Closing
  <2>2. \A r \in EventsOf(u) : Socket(r) \in SocketsOf(u)
    BY RequestTypes DEF EventsOf, SocketsOf
  <2> QED
    BY <2>1, <2>2 DEF CalmUser, Alive, Closing
<1> QED
  BY <1>2, <1>3, <1>4

LEMMA CalmSocketStep ==
  ASSUME TypeOK, Orderly, NEW u \in Users, CalmUser(u), NEW s \in Sockets,
         Connect(s) \/ Disconnect(s) \/ Cleanup(s)
  PROVE  CalmUser(u)'
<1> USE OwnerType DEF TypeOK, Become, rooms, session, history
<1>1. /\ todo' = todo
      /\ \A t \in Sockets : t # s => sock'[t] = sock[t] /\ inRoom'[t] = inRoom[t]
      /\ inRoom'[s] = inRoom[s] \/ inRoom'[s] = {}
      /\ sock[s] \in {"new", "open"} \cup Closing
      /\ sock'[s] \in {"open", "closed"} \cup Closing
      /\ sock'[s] = "open" => sock[s] = "new"
      /\ sock[s] = "open" => inRoom'[s] = {}
  BY DEF Connect, Disconnect, Cleanup, SocketUnknown, SocketKnown,
     GetUserOnlineRooms, RemoveFromRoom, ClearUserOnlineRooms,
     ClearUserSession, Closing
<1>2. CASE owner[s] # u
  <2>1. \A t \in SocketsOf(u) : t # s /\ t \in Sockets
    BY <1>2 DEF SocketsOf
  <2>2. \A t \in SocketsOf(u) : Alive(t)' <=> Alive(t)
    BY <1>1, <2>1 DEF Alive
  <2>3. ASSUME NEW c, u \in online[c], NEW t \in SocketsOf(u), c \in inRoom[t]
        PROVE  u \in online'[c]
    <3>1. c \in Conversations
      BY <2>1, <2>3
    <3> QED
      BY <1>2, <2>3, <3>1 DEF Connect, Disconnect, Cleanup, SocketUnknown,
         SocketKnown, GetUserOnlineRooms, RemoveFromRoom,
         ClearUserOnlineRooms, ClearUserSession
  <2> QED
    BY <1>1, <2>1, <2>2, <2>3, CalmFrame
<1>3. CASE owner[s] = u
  <2>1. /\ s \in SocketsOf(u)
        /\ \A t \in SocketsOf(u) : t # s => ~Alive(t)
        /\ \A r \in EventsOf(u) : todo[r] = {}
    BY <1>3, NobodyElse DEF SocketsOf
  <2>2. \A t \in SocketsOf(u) : t # s => ~Alive(t)' /\ inRoom'[t] = {}
    BY <1>1, <2>1 DEF CalmUser, Alive, SocketsOf
  <2>3. inRoom'[s] = {}
    BY <1>1, <2>1 DEF CalmUser
  <2> QED
    BY <1>1, <2>1, <2>2, <2>3 DEF CalmUser
<1> QED
  BY <1>2, <1>3

LEMMA CalmEventStep ==
  ASSUME TypeOK, TodoInv, Orderly, NEW u \in Users, CalmUser(u),
         NEW r \in Requests, JoinRoom(r) \/ LeaveRoom(r) \/ Handle(r)
  PROVE  CalmUser(u)'
<1>1. /\ UNCHANGED <<sock, view>>
      /\ \A q \in Requests : q # r => todo'[q] = todo[q]
      /\ User(r) # u =>
           /\ \A c \in Conversations : u \in online'[c] <=> u \in online[c]
           /\ \A s \in SocketsOf(u) : inRoom'[s] = inRoom[s]
           /\ \A q \in EventsOf(u) : todo'[q] = todo[q]
  BY EventStepsLocal DEF EventStep
<1>2. /\ \A s \in SocketsOf(u) : Alive(s)' <=> Alive(s)
      /\ \A s \in SocketsOf(u) : \A c \in inRoom[s] : c \in Conversations
  BY <1>1 DEF Alive, TypeOK, SocketsOf
<1>3. CASE User(r) # u
  BY <1>1, <1>2, <1>3, CalmFrame
<1> SUFFICES ASSUME User(r) = u PROVE CalmUser(u)'
  BY <1>3
<1>4. /\ r \in EventsOf(u)
      /\ Conv(r) \in Conversations
      /\ Socket(r) \in SocketsOf(u)
      /\ Socket(r) \in Sockets
      /\ EventsOf(u) \subseteq Requests
      /\ \A q \in EventsOf(u) : Socket(q) \in SocketsOf(u)
  BY RequestTypes DEF EventsOf, SocketsOf
<1> USE DEF TypeOK, rooms, session, history
<1>5. CASE JoinRoom(r) \/ LeaveRoom(r)
  <2>1. /\ sock[Socket(r)] = "open"
        /\ \A q \in EventsOf(u) : todo[q] = {}
    BY <1>4, <1>5 DEF JoinRoom, LeaveRoom, Ask, MayStart, Orderly, Busy, EventsOf
  <2>2. \A s \in SocketsOf(u) : s # Socket(r) => inRoom'[s] = {}
    <3>1. \A s \in SocketsOf(u) : s # Socket(r) => inRoom[s] = {}
      BY <1>4, <2>1 DEF CalmUser, Alive
    <3> QED
      BY <1>5, <3>1 DEF JoinRoom, LeaveRoom, SocketsOf
  <2>3. \A q \in EventsOf(u) : q # r => todo'[q] = {}
    BY <1>1, <1>4, <2>1
  <2>4. online' = online
    BY <1>5 DEF JoinRoom, LeaveRoom
  <2>5. "removeRoom" \in todo'[r] => Conv(r) \notin inRoom'[Socket(r)]
    <3>1. CASE JoinRoom(r)
      BY <1>4, <2>1, <3>1 DEF JoinRoom, Joining
    <3>2. CASE LeaveRoom(r)
      BY <1>4, <3>2 DEF LeaveRoom
    <3> QED
      BY <1>5, <3>1, <3>2
  <2>6. ASSUME NEW c \in inRoom'[Socket(r)], u \in members[c]
        PROVE  u \in online[c] \/ Arriving(u, c)'
    <3>1. CASE c \in inRoom[Socket(r)]
      BY <1>4, <2>1, <2>6, <3>1 DEF CalmUser, Arriving
    <3>2. CASE c \notin inRoom[Socket(r)]
      <4>1. JoinRoom(r) /\ c = Conv(r)
        BY <1>4, <1>5, <2>6, <3>2 DEF JoinRoom, LeaveRoom
      <4>2. "addRoom" \in todo'[r]
        BY <1>4, <2>6, <4>1 DEF JoinRoom, Joining
      <4> QED
        BY <1>4, <4>1, <4>2 DEF Arriving
    <3> QED
      BY <3>1, <3>2
  <2> QED
    BY <1>1, <1>2, <1>4, <2>1, <2>2, <2>3, <2>4, <2>5, <2>6 DEF CalmUser
<1>6. CASE AddUserToRoom(r)
  <2>1. /\ todo'[r] \subseteq todo[r]
        /\ inRoom' = inRoom
        /\ \A c \in Conversations : u \in online'[c] <=> u \in online[c] \/ c = Conv(r)
    BY <1>4, <1>6 DEF AddUserToRoom, Execute
  <2>2. \A c : c # Conv(r) /\ Arriving(u, c) => Arriving(u, c)'
    BY <1>1, <1>4 DEF Arriving
  <2> QED
    BY <1>1, <1>2, <1>4, <2>1, <2>2 DEF CalmUser
<1>7. CASE AddRoomToUser(r) \/ ExpireRoom(r) \/ ExpireUserRooms(r) \/ RemoveRoomFromUser(r)
  <2>1. PICK e \in Commands \ {"addRoom"} : todo' = [todo EXCEPT ![r] = @ \ {e}]
    BY <1>7 DEF AddRoomToUser, ExpireRoom, ExpireUserRooms, RemoveRoomFromUser,
       Execute, Commands, Joining, Leaving
  <2>2. UNCHANGED <<online, inRoom>>
    BY <1>7 DEF AddRoomToUser, ExpireRoom, ExpireUserRooms, RemoveRoomFromUser
  <2>3. \A q \in EventsOf(u) : /\ todo'[q] \subseteq todo[q]
                               /\ "addRoom" \in todo[q] => "addRoom" \in todo'[q]
    BY <1>1, <1>4, <2>1
  <2> QED
    BY <1>1, <1>2, <2>2, <2>3, CalmFrame
<1>8. CASE RemoveUserFromRoom(r)
  <2>1. /\ "removeRoom" \in todo[r]
        /\ todo' = [todo EXCEPT ![r] = @ \ {"removeRoom"}]
        /\ inRoom' = inRoom
        /\ \A c \in Conversations : c # Conv(r) => online'[c] = online[c]
    BY <1>4, <1>8 DEF RemoveUserFromRoom, Execute, Due
  <2>2. \A s \in SocketsOf(u) : Conv(r) \notin inRoom[s]
    BY <1>4, <2>1 DEF CalmUser, Alive
  <2>3. \A q \in EventsOf(u) : /\ todo'[q] \subseteq todo[q]
                               /\ "addRoom" \in todo[q] => "addRoom" \in todo'[q]
    BY <1>1, <1>4, <2>1
  <2> QED
    BY <1>1, <1>2, <2>1, <2>2, <2>3, CalmFrame
<1> QED
  BY <1>5, <1>6, <1>7, <1>8 DEF Handle

LEMMA CalmStep == TypeOK /\ TodoInv /\ CalmInv /\ [Next]_vars => CalmInv'
<1> SUFFICES ASSUME TypeOK, TodoInv, CalmInv, [Next]_vars, Orderly',
                    NEW u \in Users
             PROVE  CalmUser(u)'
  BY DEF CalmInv
<1>1. scene' = scene
  BY DEF Next, vars
<1>2. Orderly
  BY <1>1 DEF Orderly
<1>3. CalmUser(u)
  BY <1>2 DEF CalmInv
<1>4. CASE UNCHANGED <<sock, inRoom, todo, online>>
  <2>1. \A s \in SocketsOf(u) : Alive(s)' <=> Alive(s)
    BY <1>4 DEF Alive
  <2> QED
    BY <1>3, <1>4, <2>1, CalmFrame
<1>5. CASE UNCHANGED vars
  BY <1>4, <1>5 DEF vars, rooms
<1>6. ASSUME NEW s \in Sockets, SessionExpires(s) PROVE CalmUser(u)'
  BY <1>4, <1>6 DEF SessionExpires, rooms
<1>7. ASSUME NEW v \in Users, IndexExpires(v) PROVE CalmUser(u)'
  BY <1>4, <1>7 DEF IndexExpires
<1> QED
  BY <1>2, <1>3, <1>5, <1>6, <1>7, CalmSteps, CalmSocketStep, CalmEventStep

-----------------------------------------------------------------------------
(* The theorems.                                                           *)

\* The inductive invariant: types, the order of an event's commands, the TTL
\* of every room, for every user whose cleanup nothing got in the way of what
\* a disconnect relies on, and the rooms joined in an orderly scene.
THEOREM PresenceInvariant == Spec => []IInv
<1>1. Init => IInv
  BY TypeInit, TodoInit, ExpiringInit, CleanInit, CalmInit DEF IInv
<1>2. IInv /\ [Next]_vars => IInv'
  BY TypeStep, TodoStep, ExpiringStep, CleanStep, CalmStep DEF IInv
<1> QED
  BY <1>1, <1>2, PTL DEF Spec

\* Sessions, rooms and handlers keep their types, whatever fails or expires.
THEOREM TypeCorrect == Spec => []TypeOK
<1>1. IInv => TypeOK
  BY DEF IInv
<1> QED
  BY <1>1, PresenceInvariant, PTL

\* With any number of sockets and events per user, and whatever fails or
\* expires, room:online lists nobody without a handler and a connected socket,
\* but for the users whom one of the five accidents has exposed.
THEOREM NobodyStaysListed == Spec => []NoGhosts
<1>1. ASSUME IInv, NEW u \in Users \ exposed, ~Busy(u), ~Connected(u),
             NEW c \in ListedIn(u)
      PROVE  FALSE
  <2>1. \A s \in SocketsOf(u) : sock[s] \notin WillRead \cup {"remove"}
    BY <1>1 DEF Busy, Connected, WillRead, Closing
  <2>2. Covered(u, {})
    BY <1>1, <2>1 DEF IInv, CleanInv, CleanUser, NobodyCleans
  <2>3. Pending(u, c)
    BY <1>1, <2>2 DEF Covered, ListedIn
  <2> QED
    BY <1>1, <2>3 DEF Pending, HalfJoined, EventsOf, Busy
<1>2. IInv => NoGhosts
  BY <1>1 DEF NoGhosts
<1> QED
  BY <1>2, PresenceInvariant, PTL

\* A user with one socket and one event at a time is listed in every room its
\* socket has joined, though its session and its index may expire meanwhile.
THEOREM JoinedAreOnline == Spec => []JoinedIsOnline
<1>1. ASSUME IInv, Orderly, NEW s \in Sockets, NEW c \in inRoom[s],
             ~Busy(owner[s]), owner[s] \in members[c]
      PROVE  owner[s] \in online[c]
  <2>1. CalmUser(owner[s]) /\ s \in SocketsOf(owner[s])
    BY <1>1, OwnerType DEF IInv, CalmInv, SocketsOf
  <2>2. ~Arriving(owner[s], c)
    BY <1>1 DEF Busy, Arriving, EventsOf
  <2> QED
    BY <1>1, <2>1, <2>2 DEF CalmUser
<1>2. IInv => JoinedIsOnline
  BY <1>1 DEF JoinedIsOnline, Orderly
<1> QED
  BY <1>2, PresenceInvariant, PTL

\* A room that lists anybody has a TTL, waits for its EXPIRE, or is one of the
\* stranded, so that apart from those nobody is listed for good.
THEOREM ListedRoomsExpire == Spec => []RoomsExpire
<1>1. IInv => RoomsExpire
  BY DEF IInv
<1> QED
  BY <1>1, PresenceInvariant, PTL
=============================================================================
