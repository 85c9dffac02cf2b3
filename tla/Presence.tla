------------------------------ MODULE Presence ------------------------------
(***************************************************************************)
(* Who is online in which conversation: the WebSocket sessions, joinRoom,  *)
(* leaveRoom and disconnects of ChatGateway and ChatService, over the      *)
(* Redis keys socket:<id>:userId, user:<id>:socketId, room:online:<conv>   *)
(* and user:online-rooms:<user>.  sendMessage pushes to the participants   *)
(* that room:online does not list.                                         *)
(*                                                                         *)
(* A user may have several sockets, on several server instances.  The      *)
(* commands one handler sends in the same tick on one connection still     *)
(* interleave with the commands of other instances.                        *)
(***************************************************************************)
EXTENDS FiniteSets

CONSTANTS
  Users,
  Sockets,
  owner,          \* owner[s]: the authenticated user of socket s
  Conversations,
  members,        \* members[c]: users with a row, whether they left or not
  Requests,       \* the joinRoom and leaveRoom events clients send
  req,            \* req[r]: kind, socket and conversation
  None,
  Scenes          \* who takes part and what may go wrong, see Scene

FaultKinds == {"abort",    \* a command is rejected, or the process dies
               "session",  \* SESSION_TTL ends while the socket is connected
               "room",     \* ROOM_ONLINE_TTL ends
               "index",    \* USER_ONLINE_ROOMS_TTL ends
               "rest"}     \* leaveConversation of the REST API

\* The sockets and requests there are; orderly: a user has one socket and one
\* event in flight at a time.
Scene == [sockets: SUBSET Sockets, requests: SUBSET Requests,
          faults: SUBSET FaultKinds, orderly: BOOLEAN]

ASSUME PresenceAssumption ==
  /\ owner \in [Sockets -> Users]
  /\ members \in [Conversations -> SUBSET Users]
  /\ req \in [Requests -> [kind: {"join", "leave"}, socket: Sockets,
                           conv: Conversations]]
  /\ None \notin Users /\ None \notin Sockets
  /\ Conversations \cap Users = {}
  /\ Scenes \subseteq Scene

VARIABLES
  scene,        \* one of Scenes, chosen at the start
  sock,         \* life of a socket, and where its handleDisconnect is
  view,         \* the rooms a handleDisconnect has still to remove its user from
  asked,        \* the events clients have sent
  todo,         \* the Redis commands of an event that are still to come
  inRoom,       \* Socket.IO rooms conversation_<id> a socket is in
  socketUser,   \* Redis socket:<id>:userId
  userSocket,   \* Redis user:<id>:socketId
  online,       \* Redis room:online:<conv>
  onlineRooms,  \* Redis user:online-rooms:<user>
  ttl,          \* the keys of these two kinds that have a TTL
  \* History, which guards no step:
  exposed,      \* listed users whose cleanup something has got in the way of
  stranded      \* rooms left without a TTL by a join that was cut short

session == <<socketUser, userSocket>>
rooms   == <<online, onlineRooms, ttl>>
history == <<exposed, stranded>>
vars == <<scene, sock, view, asked, todo, inRoom, session, rooms, history>>

Closing   == {"lookup", "getRooms", "remove", "clearSession"}
SockState == {"new", "open", "closed"} \cup Closing

\* Promise.all of addUserToRoom and addRoomToUser, each a SADD and then an
\* EXPIRE, and of removeUserFromRoom and removeRoomFromUser.
Joining  == {"addRoom", "addUser", "expireRoom", "expireUser"}
Leaving  == {"removeRoom", "removeUser"}
Commands == Joining \cup Leaving

\* Mutant: the EXPIRE of the room leaves before its SADD.
Before_ExpireFirst ==
  [addRoom    |-> {"expireRoom"},
   addUser    |-> {"addRoom"},
   expireRoom |-> {},
   expireUser |-> {"addRoom", "addUser"},
   removeRoom |-> {},
   removeUser |-> {"removeRoom"}]

\* One connection keeps the order in which a handler sends its commands; an
\* EXPIRE is sent once its SADD is answered.
Before ==
  [addRoom    |-> {},
   addUser    |-> {"addRoom"},
   expireRoom |-> {"addRoom", "addUser"},
   expireUser |-> {"addRoom", "addUser", "expireRoom"},
   removeRoom |-> {},
   removeUser |-> {"removeRoom"}]

\* What is not sent when c is rejected; the other half of Promise.all is.
Awaiting ==
  [addRoom    |-> {"expireRoom"},
   addUser    |-> {"expireUser"},
   expireRoom |-> {}, expireUser |-> {}, removeRoom |-> {}, removeUser |-> {}]

Socket(r) == req[r].socket
Conv(r)   == req[r].conv
User(r)   == owner[Socket(r)]

SocketsOf(u) == {s \in Sockets : owner[s] = u}
ListedIn(u)  == {c \in Conversations : u \in online[c]}

TypeOK ==
  /\ scene \in Scenes
  /\ sock \in [Sockets -> SockState]
  /\ view \in [Sockets -> SUBSET Conversations]
  /\ asked \subseteq Requests
  /\ todo \in [Requests -> SUBSET Commands]
  /\ inRoom \in [Sockets -> SUBSET Conversations]
  /\ socketUser \in [Sockets -> Users \cup {None}]
  /\ userSocket \in [Users -> Sockets \cup {None}]
  /\ online \in [Conversations -> SUBSET Users]
  /\ onlineRooms \in [Users -> SUBSET Conversations]
  /\ ttl \subseteq Conversations \cup Users
  /\ exposed \subseteq Users
  /\ stranded \subseteq Conversations

Init ==
  /\ scene \in Scenes
  /\ sock = [s \in Sockets |-> IF s \in scene.sockets THEN "new" ELSE "closed"]
  /\ view = [s \in Sockets |-> {}]
  /\ asked = Requests \ scene.requests
  /\ todo = [r \in Requests |-> {}]
  /\ inRoom = [s \in Sockets |-> {}]
  /\ socketUser = [s \in Sockets |-> None]
  /\ userSocket = [u \in Users |-> None]
  /\ online = [c \in Conversations |-> {}]
  /\ onlineRooms = [u \in Users |-> {}]
  /\ ttl = {}
  /\ exposed = {}
  /\ stranded = {}

Busy(u) ==
  \/ \E s \in SocketsOf(u) : sock[s] \in Closing
  \/ \E r \in Requests : User(r) = u /\ todo[r] # {}

Connected(u) == \E s \in SocketsOf(u) : sock[s] = "open"

Become(s, from, to) ==
  /\ sock[s] = from
  /\ sock' = [sock EXCEPT ![s] = to]

\* The next command of event r, in the order they leave.
Due(r, c) == c \in todo[r] /\ todo[r] \cap Before[c] = {}

Execute(r, c) ==
  /\ Due(r, c)
  /\ todo' = [todo EXCEPT ![r] = @ \ {c}]

MayConnect(u) == scene.orderly => ~Connected(u) /\ ~Busy(u)
MayStart(u)   == scene.orderly => ~Busy(u)

\* Redis deletes a set that has become empty, and its TTL with it.
ForgetEmptyKeys ==
  ttl' = {k \in ttl : IF k \in Users THEN onlineRooms'[k] # {}
                                     ELSE online'[k] # {}}

-----------------------------------------------------------------------------
(* History: what may leave a listed user listed after the disconnect.      *)

WillRead == {"open", "lookup", "getRooms"}

\* A SADD to the index that no disconnect of the user looks for: between the
\* SMEMBERS and the DEL of one, or after the SMEMBERS of the last.
Unnoticed(u) ==
  \/ \E s \in SocketsOf(u) : sock[s] = "remove"
  \/ \A s \in SocketsOf(u) : sock[s] \notin WillRead

\* A SADD to a room between the two SREMs of a leaveRoom of that room.
CrossesLeave(r) ==
  \E q \in Requests : /\ User(q) = User(r)
                      /\ Conv(q) = Conv(r)
                      /\ todo[q] = {"removeUser"}

\* Nobody else is going to remove the user from the rooms.
LastCleaner(s) ==
  LET cleaners == {t \in SocketsOf(owner[s]) : sock[t] \in WillRead \cup {"remove"}}
  IN cleaners = {s}

\* Listed in the room and not yet in the index.
HalfJoined(r) == "addUser" \in todo[r] /\ "addRoom" \notin todo[r]

\* In the room, whose EXPIRE is still to come.
AwaitsExpire(r) == "expireRoom" \in todo[r] /\ "addRoom" \notin todo[r]

Expose(u, when) ==
  exposed' = IF when /\ (\E c \in Conversations : u \in online'[c])
               THEN exposed \cup {u} ELSE exposed

Strand(c, when) ==
  stranded' = IF when /\ c \notin ttl THEN stranded \cup {c} ELSE stranded

-----------------------------------------------------------------------------
(* Connections.                                                            *)

\* handleConnection sends setUserSocket before anything else of the socket.
\* Whoever is listed nowhere by then starts afresh.
Connect(s) ==
  LET u == owner[s] IN
  /\ MayConnect(u)
  /\ Become(s, "new", "open")
  /\ socketUser' = [socketUser EXCEPT ![s] = u]
  /\ userSocket' = [userSocket EXCEPT ![u] = s]
  /\ exposed' = IF Busy(u) \/ ListedIn(u) # {} THEN exposed ELSE exposed \ {u}
  /\ UNCHANGED <<view, asked, todo, inRoom, rooms, stranded>>

\* SESSION_REGISTRATION_FAILED: the server disconnects the client.
ConnectFails(s) ==
  /\ "abort" \in scene.faults
  /\ MayConnect(owner[s])
  /\ Become(s, "new", "lookup")
  /\ UNCHANGED <<view, asked, todo, inRoom, session, rooms, history>>

\* The transport closes, at any moment; Socket.IO forgets its rooms.
Disconnect(s) ==
  /\ MayStart(owner[s])
  /\ Become(s, "open", "lookup")
  /\ inRoom' = [inRoom EXCEPT ![s] = {}]
  /\ UNCHANGED <<view, asked, todo, session, rooms, history>>

-----------------------------------------------------------------------------
(* handleUserDisconnect, one action per await.                             *)

\* No session: the early return.
SocketUnknown(s) ==
  /\ socketUser[s] = None
  /\ Become(s, "lookup", "closed")
  /\ UNCHANGED <<view, asked, todo, inRoom, session, rooms, stranded>>
  /\ Expose(owner[s], LastCleaner(s))

SocketKnown(s) ==
  /\ socketUser[s] # None
  /\ Become(s, "lookup", "getRooms")
  /\ UNCHANGED <<view, asked, todo, inRoom, session, rooms, history>>

\* Mutant: only the conversations the closing socket itself joined.
GetUserOnlineRooms_OfSocket(s) ==
  /\ Become(s, "getRooms", "remove")
  /\ view' = [view EXCEPT ![s] = inRoom[s]]
  /\ UNCHANGED <<asked, todo, inRoom, session, rooms, history>>

GetUserOnlineRooms(s) ==
  /\ Become(s, "getRooms", "remove")
  /\ view' = [view EXCEPT ![s] = onlineRooms[owner[s]]]
  /\ UNCHANGED <<asked, todo, inRoom, session, rooms, history>>

\* One SREM of the Promise.all.
RemoveFromRoom(s, c) ==
  /\ sock[s] = "remove"
  /\ c \in view[s]
  /\ view' = [view EXCEPT ![s] = @ \ {c}]
  /\ online' = [online EXCEPT ![c] = @ \ {owner[s]}]
  /\ UNCHANGED <<sock, asked, todo, inRoom, session, onlineRooms, history>>
  /\ ForgetEmptyKeys

\* DEL, once all of them are answered.
ClearUserOnlineRooms(s) ==
  /\ view[s] = {}
  /\ Become(s, "remove", "clearSession")
  /\ onlineRooms' = [onlineRooms EXCEPT ![owner[s]] = {}]
  /\ UNCHANGED <<view, asked, todo, inRoom, session, online, history>>
  /\ ForgetEmptyKeys

\* Deletes user:<id>:socketId whichever socket it names.
ClearUserSession(s) ==
  /\ Become(s, "clearSession", "closed")
  /\ socketUser' = [socketUser EXCEPT ![s] = None]
  /\ userSocket' = [userSocket EXCEPT ![owner[s]] = None]
  /\ UNCHANGED <<view, asked, todo, inRoom, rooms, history>>

-----------------------------------------------------------------------------
(* joinRoom and leaveRoom.                                                 *)

Ask(r, kind) ==
  /\ req[r].kind = kind
  /\ sock[Socket(r)] = "open"
  /\ MayStart(User(r))
  /\ r \notin asked
  /\ asked' = asked \cup {r}

\* client.join comes first; then the caller must be a participant.
JoinRoom(r) ==
  /\ Ask(r, "join")
  /\ inRoom' = [inRoom EXCEPT ![Socket(r)] = @ \cup {Conv(r)}]
  /\ todo' = IF User(r) \in members[Conv(r)]
               THEN [todo EXCEPT ![r] = Joining] ELSE todo
  /\ UNCHANGED <<sock, view, session, rooms, history>>

\* The SADDs go out after the check was answered: the socket may be closed.
AddUserToRoom(r) ==
  /\ Execute(r, "addRoom")
  /\ online' = [online EXCEPT ![Conv(r)] = @ \cup {User(r)}]
  /\ UNCHANGED <<sock, view, asked, inRoom, session, onlineRooms, ttl, stranded>>
  /\ Expose(User(r), CrossesLeave(r))

\* Mutant: the conversation is filed under the socket, not under the user.
AddRoomToUser_BySocket(r) ==
  /\ Execute(r, "addUser")
  /\ onlineRooms' = [onlineRooms EXCEPT ![User(r)] = @ \cup {Socket(r)}]
  /\ UNCHANGED <<sock, view, asked, inRoom, session, online, ttl, stranded>>
  /\ Expose(User(r), Unnoticed(User(r)))

AddRoomToUser(r) ==
  /\ Execute(r, "addUser")
  /\ onlineRooms' = [onlineRooms EXCEPT ![User(r)] = @ \cup {Conv(r)}]
  /\ UNCHANGED <<sock, view, asked, inRoom, session, online, ttl, stranded>>
  /\ Expose(User(r), Unnoticed(User(r)))

\* Mutant: no EXPIRE after the SADD.
ExpireRoom_Never(r) ==
  /\ Execute(r, "expireRoom")
  /\ UNCHANGED <<sock, view, asked, inRoom, session, rooms, history>>

\* EXPIRE does nothing for a key that is gone.
ExpireRoom(r) ==
  /\ Execute(r, "expireRoom")
  /\ ttl' = IF online[Conv(r)] # {} THEN ttl \cup {Conv(r)} ELSE ttl
  /\ stranded' = stranded \ {Conv(r)}
  /\ UNCHANGED <<sock, view, asked, inRoom, session, online, onlineRooms, exposed>>

ExpireUserRooms(r) ==
  /\ Execute(r, "expireUser")
  /\ ttl' = IF onlineRooms[User(r)] # {} THEN ttl \cup {User(r)} ELSE ttl
  /\ UNCHANGED <<sock, view, asked, inRoom, session, online, onlineRooms, history>>

LeaveRoom(r) ==
  /\ Ask(r, "leave")
  /\ inRoom' = [inRoom EXCEPT ![Socket(r)] = @ \ {Conv(r)}]
  /\ todo' = [todo EXCEPT ![r] = Leaving]
  /\ UNCHANGED <<sock, view, session, rooms, history>>

\* Mutant: leaving one conversation leaves them all.
RemoveUserFromRoom_All(r) ==
  /\ Execute(r, "removeRoom")
  /\ online' = [c \in Conversations |-> online[c] \ {User(r)}]
  /\ UNCHANGED <<sock, view, asked, inRoom, session, onlineRooms, history>>
  /\ ForgetEmptyKeys

RemoveUserFromRoom(r) ==
  /\ Execute(r, "removeRoom")
  /\ online' = [online EXCEPT ![Conv(r)] = @ \ {User(r)}]
  /\ UNCHANGED <<sock, view, asked, inRoom, session, onlineRooms, history>>
  /\ ForgetEmptyKeys

RemoveRoomFromUser(r) ==
  /\ Execute(r, "removeUser")
  /\ onlineRooms' = [onlineRooms EXCEPT ![User(r)] = @ \ {Conv(r)}]
  /\ UNCHANGED <<sock, view, asked, inRoom, session, online, history>>
  /\ ForgetEmptyKeys

-----------------------------------------------------------------------------
(* Failures, expiry and the REST API.                                      *)

\* The process dies: none of the commands left is sent.
AbortRequest(r) ==
  /\ "abort" \in scene.faults
  /\ todo[r] # {}
  /\ todo' = [todo EXCEPT ![r] = {}]
  /\ Strand(Conv(r), AwaitsExpire(r))
  /\ UNCHANGED <<sock, view, asked, inRoom, session, rooms>>
  /\ Expose(User(r), HalfJoined(r))

\* One command is rejected: what awaits it is not sent, the rest is.
RejectCommand(r, c) ==
  /\ "abort" \in scene.faults
  /\ Due(r, c)
  /\ todo' = [todo EXCEPT ![r] = @ \ ({c} \cup Awaiting[c])]
  /\ Strand(Conv(r), c = "expireRoom")
  /\ UNCHANGED <<sock, view, asked, inRoom, session, rooms>>
  /\ Expose(User(r), c \in {"addUser", "removeRoom"})

AbortDisconnect(s) ==
  /\ "abort" \in scene.faults
  /\ sock[s] \in Closing
  /\ sock' = [sock EXCEPT ![s] = "closed"]
  /\ UNCHANGED <<view, asked, todo, inRoom, session, rooms, stranded>>
  /\ Expose(owner[s], LastCleaner(s))

\* The two session keys are set together and never refreshed.
SessionExpires(s) ==
  /\ "session" \in scene.faults
  /\ socketUser[s] # None
  /\ socketUser' = [socketUser EXCEPT ![s] = None]
  /\ userSocket' = [userSocket EXCEPT ![owner[s]] = IF @ = s THEN None ELSE @]
  /\ UNCHANGED <<sock, view, asked, todo, inRoom, rooms, history>>

RoomExpires(c) ==
  /\ "room" \in scene.faults
  /\ c \in ttl
  /\ online' = [online EXCEPT ![c] = {}]
  /\ ttl' = ttl \ {c}
  /\ UNCHANGED <<sock, view, asked, todo, inRoom, session, onlineRooms, history>>

IndexExpires(u) ==
  /\ "index" \in scene.faults
  /\ u \in ttl
  /\ onlineRooms' = [onlineRooms EXCEPT ![u] = {}]
  /\ ttl' = ttl \ {u}
  /\ UNCHANGED <<sock, view, asked, todo, inRoom, session, online, stranded>>
  /\ Expose(u, TRUE)

\* leaveConversation clears room:online only.
LeaveConversation(u, c) ==
  /\ "rest" \in scene.faults
  /\ u \in members[c] \cap online[c]
  /\ online' = [online EXCEPT ![c] = @ \ {u}]
  /\ UNCHANGED <<sock, view, asked, todo, inRoom, session, onlineRooms, history>>
  /\ ForgetEmptyKeys

Cleanup(s) ==
  \/ SocketUnknown(s) \/ SocketKnown(s) \/ GetUserOnlineRooms(s)
  \/ ClearUserOnlineRooms(s) \/ ClearUserSession(s)
  \/ \E c \in Conversations : RemoveFromRoom(s, c)

Handle(r) ==
  \/ AddUserToRoom(r) \/ AddRoomToUser(r)
  \/ ExpireRoom(r) \/ ExpireUserRooms(r)
  \/ RemoveUserFromRoom(r) \/ RemoveRoomFromUser(r)

Next ==
  /\ \/ \E s \in Sockets :
          \/ Connect(s) \/ ConnectFails(s) \/ Disconnect(s) \/ Cleanup(s)
          \/ AbortDisconnect(s) \/ SessionExpires(s)
     \/ \E r \in Requests :
          \/ JoinRoom(r) \/ LeaveRoom(r) \/ Handle(r) \/ AbortRequest(r)
          \/ \E c \in Commands : RejectCommand(r, c)
     \/ \E u \in Users : IndexExpires(u)
     \/ \E c \in Conversations :
          RoomExpires(c) \/ \E u \in Users : LeaveConversation(u, c)
  /\ UNCHANGED scene

Spec == Init /\ [][Next]_vars

\* Handlers that have started go on, and a room with a TTL that nobody joins
\* for a day expires; nothing makes a client connect, join or disconnect.
FairSpec ==
  /\ Spec
  /\ \A s \in Sockets : WF_vars(Cleanup(s) /\ UNCHANGED scene)
  /\ \A r \in Requests : WF_vars(Handle(r) /\ UNCHANGED scene)
  /\ \A c \in Conversations : WF_vars(RoomExpires(c) /\ UNCHANGED scene)

-----------------------------------------------------------------------------
(* Properties.                                                             *)

\* With any number of sockets, joins, leaves and disconnects of a user at
\* once, and whatever expires: once none of the user's handlers runs and no
\* socket is connected, the user is listed online nowhere, and so gets a push
\* for every message.  There are five exceptions, which history records: the
\* last disconnect finds no session or fails; it has read the index before a
\* joinRoom enters the room there; a joinRoom falls between the two SREMs of a
\* leaveRoom; a command is lost half-way; or the index has expired.
NoGhosts ==
  \A u \in Users \ exposed :
    ~Busy(u) /\ ~Connected(u) => ListedIn(u) = {}

\* With one socket and one event of a user at a time, though sessions and
\* indexes expire: a participant whose connected socket has joined a
\* conversation is listed online there, and so gets 'newMessage' and no push.
JoinedIsOnline ==
  scene.orderly /\ scene.faults \subseteq {"session", "index"}
    => \A s \in Sockets : \A c \in inRoom[s] :
         ~Busy(owner[s]) /\ owner[s] \in members[c] => owner[s] \in online[c]

\* ROOM_ONLINE_TTL: SADD and EXPIRE are two commands, yet a room that lists
\* anybody has a TTL, unless an EXPIRE is on its way to it or the join that
\* should have sent it was cut short and nobody has joined since.
RoomsExpire ==
  \A c \in Conversations :
    \/ online[c] = {}
    \/ c \in ttl \cup stranded
    \/ \E r \in Requests : Conv(r) = c /\ AwaitsExpire(r)

\* However handlers race, fail and miss their session, once the TTLs have run
\* out a user who stays away is listed nowhere, except in a room whose EXPIRE
\* was never sent.
AwayIsEventuallyOffline ==
  "room" \in scene.faults
    => \A u \in Users :
         <>[](~Connected(u)) => <>[](ListedIn(u) \subseteq stranded)
=============================================================================
