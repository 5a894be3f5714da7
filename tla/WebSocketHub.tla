----------------------------- MODULE WebSocketHub -----------------------------
(***************************************************************************)
(* Live connections: websocket/hub.go and websocket/client.go.             *)
(*                                                                         *)
(* One goroutine, the hub, owns the two maps and handles one registration, *)
(* unregistration or message at a time.  Every connection has two more: a  *)
(* reader, which hands chat messages to the hub and unregisters when the   *)
(* connection fails, and a writer, which empties the connection's buffered *)
(* channel.  The hub never waits for a writer: it closes the channel of a  *)
(* connection whose buffer is full.  Closing a closed channel, or sending  *)
(* on one, is a panic that nothing recovers: the process dies.             *)
(*                                                                         *)
(* A message to a room is delivered to all its members in one step: the    *)
(* hub holds its lock, so only writers run in between, and each of them    *)
(* touches a buffer that the hub looks at once.                            *)
(***************************************************************************)
EXTENDS Naturals, Sequences

CONSTANTS
  User,
  Conn,          \* connections; one that has closed never opens again
  ChatRooms,     \* rooms other than the users' private ones
  NoConn,        \* no connection is registered for a user
  NoUser,        \* no user: of an unopened connection, of a message to a room
  NoRoom,        \* a message that names no room
  ServerSends,   \* whether SendToUser and SendToRoom are called
  Server,        \* sender of a message that no connection sent
  SendCap,       \* buffer of a connection, 256 in the code
  BroadcastCap,  \* buffer of the hub, 256 in the code
  MaxMessages    \* bound of the model: messages sent in all

\* The private room of a user, "user:" + UserID, is named by the user.
Room == User \cup ChatRooms

ASSUME ConnAssumption ==
  /\ NoConn \notin Conn
  /\ NoUser \notin User
  /\ Server \notin Conn
ASSUME RoomAssumption ==
  /\ NoRoom \notin Room
  /\ ChatRooms \cap User = {}
ASSUME CapAssumption ==
  /\ SendCap \in Nat \ {0}
  /\ BroadcastCap \in Nat \ {0}
  /\ MaxMessages \in Nat
ASSUME ServerAssumption == ServerSends \in BOOLEAN

VARIABLES
  clients,    \* clients[u]: the connection registered for u
  rooms,      \* rooms[r]: its members; a room without members is no room
  broadcast,  \* messages handed to the hub
  send,       \* send[c]: the buffer of c's channel
  owner,      \* owner[c]: whose token c was opened with
  closed,     \* connections whose channel is closed
  reader,     \* reader[c]: where the reader of c is
  inHand,     \* inHand[c]: the message c's reader is handing to the hub
  writer,     \* writer[c]: whether the writer of c runs
  up,         \* connections whose socket works
  panicked,   \* the hub's goroutine panicked
  sent,       \* messages sent so far
  dropped,    \* history: connections the hub closed because they were full
  met         \* history: connections that were active at the same time as
              \* another one of their user

hubVars  == <<clients, rooms>>
pumpVars == <<owner, reader, inHand, writer, up>>
vars == <<hubVars, broadcast, send, closed, pumpVars, panicked, sent, dropped, met>>

Message == [room : Room \cup {NoRoom}, user : User \cup {NoUser}, from : Conn \cup {Server}]

ReaderState == {"new", "registering", "reading", "sending", "leaving", "done"}

TypeOK ==
  /\ clients   \in [User -> Conn \cup {NoConn}]
  /\ rooms     \in [Room -> SUBSET Conn]
  /\ broadcast \in Seq(Message)
  /\ send      \in [Conn -> Seq(Message)]
  /\ owner     \in [Conn -> User \cup {NoUser}]
  /\ closed    \subseteq Conn
  /\ reader    \in [Conn -> ReaderState]
  /\ inHand    \in [Conn -> Seq(Message)]
  /\ writer    \in [Conn -> {"off", "on", "done"}]
  /\ up        \subseteq Conn
  /\ panicked  \in BOOLEAN
  /\ sent      \in Nat
  /\ dropped   \subseteq Conn
  /\ met       \subseteq Conn

Init ==
  /\ clients   = [u \in User |-> NoConn]
  /\ rooms     = [r \in Room |-> {}]
  /\ broadcast = <<>>
  /\ send      = [c \in Conn |-> <<>>]
  /\ owner     = [c \in Conn |-> NoUser]
  /\ closed    = {}
  /\ reader    = [c \in Conn |-> "new"]
  /\ inHand    = [c \in Conn |-> <<>>]
  /\ writer    = [c \in Conn |-> "off"]
  /\ up        = {}
  /\ panicked  = FALSE
  /\ sent      = 0
  /\ dropped   = {}
  /\ met       = {}

ReaderTo(c, s) == reader' = [reader EXCEPT ![c] = s]
WriterTo(c, s) == writer' = [writer EXCEPT ![c] = s]

-----------------------------------------------------------------------------
(* A connection. *)

\* HandleConnect: the socket is open, Register waits for the hub.
Connect(c, u) ==
  /\ ~panicked
  /\ reader[c] = "new"
  /\ owner' = [owner EXCEPT ![c] = u]
  /\ ReaderTo(c, "registering")
  /\ up' = up \cup {c}
  /\ UNCHANGED <<hubVars, broadcast, send, closed, inHand, writer, panicked, sent, dropped, met>>

\* The browser goes away, or answers no ping for pongWait.
PeerLeaves(c) ==
  /\ ~panicked
  /\ c \in up
  /\ up' = up \ {c}
  /\ UNCHANGED <<hubVars, broadcast, send, owner, closed, reader, inHand, writer,
                 panicked, sent, dropped, met>>

\* Mutant: the user is the one the message names, not the reader's own.
ReadChatUnstamped(c, r) ==
  /\ ~panicked
  /\ reader[c] = "reading"
  /\ c \in up
  /\ sent < MaxMessages
  /\ \E u \in User : inHand' = [inHand EXCEPT ![c] = <<[room |-> r, user |-> u, from |-> c]>>]
  /\ sent' = sent + 1
  /\ ReaderTo(c, "sending")
  /\ UNCHANGED <<hubVars, broadcast, send, owner, closed, writer, up, panicked, dropped, met>>

\* A chat message names a room or none; its user is the reader's own.  The
\* message waits until the hub's buffer has room.
ReadChat(c, r) ==
  /\ ~panicked
  /\ reader[c] = "reading"
  /\ c \in up
  /\ sent < MaxMessages
  /\ inHand' = [inHand EXCEPT ![c] = <<[room |-> r, user |-> owner[c], from |-> c]>>]
  /\ sent' = sent + 1
  /\ ReaderTo(c, "sending")
  /\ UNCHANGED <<hubVars, broadcast, send, owner, closed, writer, up, panicked, dropped, met>>

HandOver(c) ==
  /\ ~panicked
  /\ reader[c] = "sending"
  /\ Len(broadcast) < BroadcastCap
  /\ broadcast' = broadcast \o inHand[c]
  /\ inHand' = [inHand EXCEPT ![c] = <<>>]
  /\ ReaderTo(c, "reading")
  /\ UNCHANGED <<hubVars, send, owner, closed, writer, up, panicked, sent, dropped, met>>

\* ReadMessage fails: the socket is closed, or the message too long.  The
\* deferred function waits for the hub to take the unregistration.
ReadFails(c) ==
  /\ ~panicked
  /\ reader[c] = "reading"
  /\ ReaderTo(c, "leaving")
  /\ UNCHANGED <<hubVars, broadcast, send, owner, closed, inHand, writer, up,
                 panicked, sent, dropped, met>>

\* The writer takes a message; the write may fail or time out, and then the
\* writer closes the socket and returns.
Write(c) ==
  /\ ~panicked
  /\ writer[c] = "on"
  /\ send[c] # <<>>
  /\ send' = [send EXCEPT ![c] = Tail(@)]
  /\ \/ c \in up /\ UNCHANGED <<writer, up>>
     \/ WriterTo(c, "done") /\ up' = up \ {c}
  /\ UNCHANGED <<hubVars, broadcast, owner, closed, reader, inHand, panicked, sent, dropped, met>>

\* The channel is closed and empty: say so to the browser, and return.
WriteClose(c) ==
  /\ ~panicked
  /\ writer[c] = "on"
  /\ send[c] = <<>>
  /\ c \in closed
  /\ WriterTo(c, "done")
  /\ up' = up \ {c}
  /\ UNCHANGED <<hubVars, broadcast, send, owner, closed, reader, inHand, panicked, sent, dropped, met>>

\* Mutant: a failing ping does not end the writer.
PingUnnoticed(c) ==
  /\ ~panicked
  /\ writer[c] = "on"
  /\ c \notin up
  /\ UNCHANGED vars

\* The ping of every pingPeriod fails on a closed socket.
PingFails(c) ==
  /\ ~panicked
  /\ writer[c] = "on"
  /\ c \notin up
  /\ WriterTo(c, "done")
  /\ UNCHANGED <<hubVars, broadcast, send, owner, closed, reader, inHand, up,
                 panicked, sent, dropped, met>>

-----------------------------------------------------------------------------
(* Other goroutines.  The repository has no caller of these yet; a room is *)
(* taken to be joined on behalf of a client that is being read.            *)

JoinRoom(c, r) ==
  /\ ~panicked
  /\ reader[c] = "reading"
  /\ r \in ChatRooms
  /\ rooms' = [rooms EXCEPT ![r] = @ \cup {c}]
  /\ UNCHANGED <<clients, broadcast, send, closed, pumpVars, panicked, sent, dropped, met>>

Publish(m) ==
  /\ ~panicked
  /\ ServerSends
  /\ sent < MaxMessages
  /\ Len(broadcast) < BroadcastCap
  /\ broadcast' = Append(broadcast, m)
  /\ sent' = sent + 1
  /\ UNCHANGED <<hubVars, send, closed, pumpVars, panicked, dropped, met>>

SendToUser(u) == Publish([room |-> NoRoom, user |-> u, from |-> Server])

SendToRoom(r) == Publish([room |-> r, user |-> NoUser, from |-> Server])

-----------------------------------------------------------------------------
(* The hub. *)

\* Between its registration and its unregistration.
Active(c) == reader[c] \in {"reading", "sending", "leaving"}

\* The connections of c's user that are there when c is registered.
Others(c) == {d \in Conn \ {c} : owner[d] = owner[c] /\ Active(d)}

Meet(c) == met' = IF Others(c) = {} THEN met ELSE met \cup Others(c) \cup {c}

\* Mutant: the connection that is already registered for the user stays.
RegisterKeepsFirst(c) ==
  /\ ~panicked
  /\ reader[c] = "registering"
  /\ IF clients[owner[c]] = NoConn
       THEN /\ clients' = [clients EXCEPT ![owner[c]] = c]
            /\ rooms' = [rooms EXCEPT ![owner[c]] = @ \cup {c}]
       ELSE UNCHANGED <<clients, rooms>>
  /\ ReaderTo(c, "reading")
  /\ WriterTo(c, "on")
  /\ Meet(c)
  /\ UNCHANGED <<broadcast, send, owner, closed, inHand, up, panicked, sent, dropped>>

\* A second connection of a user takes the place of the first in clients, but
\* not in the private room.  Then HandleConnect starts reader and writer.
Register(c) ==
  /\ ~panicked
  /\ reader[c] = "registering"
  /\ clients' = [clients EXCEPT ![owner[c]] = c]
  /\ rooms' = [rooms EXCEPT ![owner[c]] = @ \cup {c}]
  /\ ReaderTo(c, "reading")
  /\ WriterTo(c, "on")
  /\ Meet(c)
  /\ UNCHANGED <<broadcast, send, owner, closed, inHand, up, panicked, sent, dropped>>

\* Mutant: the rooms are not looked through.
UnregisterKeepsRooms(c) ==
  /\ ~panicked
  /\ reader[c] = "leaving"
  /\ ReaderTo(c, "done")
  /\ up' = up \ {c}
  /\ IF clients[owner[c]] # NoConn
       THEN /\ clients' = [clients EXCEPT ![owner[c]] = NoConn]
            /\ UNCHANGED rooms
            /\ closed' = closed \cup {c}
            /\ panicked' = (c \in closed)
       ELSE UNCHANGED <<clients, rooms, closed, panicked>>
  /\ UNCHANGED <<broadcast, send, owner, inHand, writer, sent, dropped, met>>

\* Mutant: only the private room is.
UnregisterPrivateOnly(c) ==
  /\ ~panicked
  /\ reader[c] = "leaving"
  /\ ReaderTo(c, "done")
  /\ up' = up \ {c}
  /\ IF clients[owner[c]] # NoConn
       THEN /\ clients' = [clients EXCEPT ![owner[c]] = NoConn]
            /\ rooms' = [rooms EXCEPT ![owner[c]] = @ \ {c}]
            /\ closed' = closed \cup {c}
            /\ panicked' = (c \in closed)
       ELSE UNCHANGED <<clients, rooms, closed, panicked>>
  /\ UNCHANGED <<broadcast, send, owner, inHand, writer, sent, dropped, met>>

\* Mutant: the user stays registered.
UnregisterKeepsClient(c) ==
  /\ ~panicked
  /\ reader[c] = "leaving"
  /\ ReaderTo(c, "done")
  /\ up' = up \ {c}
  /\ IF clients[owner[c]] # NoConn
       THEN /\ UNCHANGED clients
            /\ rooms' = [r \in Room |-> rooms[r] \ {c}]
            /\ closed' = closed \cup {c}
            /\ panicked' = (c \in closed)
       ELSE UNCHANGED <<clients, rooms, closed, panicked>>
  /\ UNCHANGED <<broadcast, send, owner, inHand, writer, sent, dropped, met>>

\* The hub looks for the user of c, not for c: whichever connection is
\* registered is forgotten, and c is forgotten only if one is.  Once the hub has
\* taken c, its reader closes the socket.
Unregister(c) ==
  /\ ~panicked
  /\ reader[c] = "leaving"
  /\ ReaderTo(c, "done")
  /\ up' = up \ {c}
  /\ IF clients[owner[c]] # NoConn
       THEN /\ clients' = [clients EXCEPT ![owner[c]] = NoConn]
            /\ rooms' = [r \in Room |-> rooms[r] \ {c}]
            /\ closed' = closed \cup {c}
            /\ panicked' = (c \in closed)
       ELSE UNCHANGED <<clients, rooms, closed, panicked>>
  /\ UNCHANGED <<broadcast, send, owner, inHand, writer, sent, dropped, met>>

\* Offer m to the connections S: a full buffer costs the connection its
\* channel, a closed channel the hub its life.
Full(S) == {c \in S : Len(send[c]) >= SendCap}

Offer(m, S) ==
  /\ panicked' = (S \cap closed # {})
  /\ send' = [c \in Conn |-> IF c \in (S \ Full(S)) \ closed THEN Append(send[c], m) ELSE send[c]]
  /\ closed' = closed \cup Full(S)
  /\ dropped' = dropped \cup Full(S)

DeliverToRoom(r) ==
  /\ ~panicked
  /\ broadcast # <<>>
  /\ Head(broadcast).room = r
  /\ Offer(Head(broadcast), rooms[r])
  /\ rooms' = [rooms EXCEPT ![r] = @ \ Full(@)]
  /\ broadcast' = Tail(broadcast)
  /\ UNCHANGED <<clients, pumpVars, sent, met>>

\* Mutant: the entry of a dropped connection is set to nil, not deleted.
DeliverToUserSetsNil(u) ==
  /\ ~panicked
  /\ broadcast # <<>>
  /\ Head(broadcast).room = NoRoom
  /\ Head(broadcast).user = u
  /\ LET S == {clients[u]} \ {NoConn} IN
       /\ Offer(Head(broadcast), S)
       /\ clients' = [clients EXCEPT ![u] = IF Full(S) = {} THEN @ ELSE "nil"]
  /\ broadcast' = Tail(broadcast)
  /\ UNCHANGED <<rooms, pumpVars, sent, met>>

DeliverToUser(u) ==
  /\ ~panicked
  /\ broadcast # <<>>
  /\ Head(broadcast).room = NoRoom
  /\ Head(broadcast).user = u
  /\ LET S == {clients[u]} \ {NoConn} IN
       /\ Offer(Head(broadcast), S)
       /\ clients' = [clients EXCEPT ![u] = IF Full(S) = {} THEN @ ELSE NoConn]
  /\ broadcast' = Tail(broadcast)
  /\ UNCHANGED <<rooms, pumpVars, sent, met>>

-----------------------------------------------------------------------------
(* The specification.  A panic ends every goroutine: no action follows it. *)

Deliver ==
  \/ \E r \in Room : DeliverToRoom(r)
  \/ \E u \in User : DeliverToUser(u)

\* The goroutines of c: its writer, and its reader once the socket has failed.
WriterStep(c) == Write(c) \/ WriteClose(c) \/ PingFails(c)
ReaderStep(c) == HandOver(c) \/ (c \notin up /\ ReadFails(c))

ConnStep(c) ==
  \/ \E u \in User : Connect(c, u)
  \/ PeerLeaves(c) \/ ReadFails(c) \/ HandOver(c) \/ WriterStep(c)
  \/ \E r \in Room \cup {NoRoom} : ReadChat(c, r)
  \/ \E r \in ChatRooms : JoinRoom(c, r)
  \/ Register(c) \/ Unregister(c)

Next ==
  \/ \E c \in Conn : ConnStep(c)
  \/ \E u \in User : SendToUser(u)
  \/ \E r \in Room : SendToRoom(r)
  \/ Deliver

Spec == Init /\ [][Next]_vars

\* The runtime runs every goroutine that can run; the hub's select takes each
\* ready case in turn, as Go picks among ready cases at random.
Fairness ==
  /\ \A c \in Conn : /\ WF_vars(Register(c))
                     /\ WF_vars(Unregister(c))
                     /\ WF_vars(ReaderStep(c))
                     /\ WF_vars(WriterStep(c))
  /\ WF_vars(Deliver)

FairSpec == Spec /\ Fairness

-----------------------------------------------------------------------------
(* Properties. *)

HasConnected(c) == Active(c) \/ reader[c] = "done"

\* As long as no buffer overflows, the hub neither closes a channel twice nor
\* sends on a closed one, however connections of one user come, go and overlap.
PanicOnlyAfterOverflow == panicked => dropped # {}

\* The members of a user's private room are all of the user's connections that
\* are open, unless they were dropped: closing one device leaves the others in.
LiveIsReachable ==
  \A c \in Conn : Active(c) => c \in rooms[owner[c]] \/ c \in dropped

\* The hub keeps a connection that has unregistered only if it dropped it, or if
\* another connection of the same user was active at the same time as it: one that
\* came and went before, or comes after, takes nothing away from it.
LeakOnlyAfterTakeover ==
  \A c \in Conn, r \in Room :
    reader[c] = "done" /\ c \in rooms[r] => c \in dropped \/ c \in met

\* A message without a room that a connection sent is for its own user only.
OwnUser(m) == m.from \in Conn => m.user # NoUser /\ m.user = owner[m.from]

Addressed(c, m) ==
  /\ m.room \in User => m.room = owner[c]
  /\ m.room = NoRoom => m.user = owner[c] /\ OwnUser(m)

\* What waits for a connection is addressed to it: to its user's private room,
\* to a chat room, or to its user, and in that case by the user.
AddressedToReader ==
  \A c \in Conn : \A i \in 1..Len(send[c]) : Addressed(c, send[c][i])

\* Both goroutines of a connection end after its socket fails, although the
\* hub may have forgotten the connection or never close its channel.
NoGoroutineLeaks ==
  \A c \in Conn :
    reader[c] # "new" /\ c \notin up ~>
      panicked \/ (reader[c] = "done" /\ writer[c] = "done")

\* "Unregister removes a client from the hub" (hub.go:133): the hub outlives it.
\* It does not: see the README.
UnregisterSucceeds ==
  [][\A c \in Conn : reader[c] = "leaving" /\ reader'[c] = "done" => ~panicked']_vars

\* "Unregister removes a client from the hub": none of the maps has it after.
\* They may: see the README.
UnregisterRemoves ==
  \A c \in Conn :
    reader[c] = "done" => /\ \A u \in User : clients[u] # c
                          /\ \A r \in Room : c \notin rooms[r]

-----------------------------------------------------------------------------
\* The inductive invariant behind the invariants above.

\* A connection that has not been opened has no owner, and nothing waits for one
\* that the hub has not registered.
OwnersConsistent ==
  \A c \in Conn : /\ reader[c] = "new" <=> owner[c] = NoUser
                  /\ ~HasConnected(c) => send[c] = <<>>

\* Who is registered is active; members of rooms have connected, and private
\* rooms hold connections of their user only.
MapsConsistent ==
  /\ \A u \in User : clients[u] # NoConn => owner[clients[u]] = u /\ Active(clients[u])
  /\ \A r \in Room : \A c \in rooms[r] : HasConnected(c) /\ (r \in User => owner[c] = r)

\* A channel is closed for overflow, or by an unregistration that also took the
\* connection out of every room.
ClosedConsistent ==
  \A c \in closed :
    \/ c \in dropped
    \/ reader[c] = "done" /\ \A r \in Room : c \notin rooms[r]

\* While a connection is active it is the registered one of its user, unless it was
\* dropped or met another connection of the user; two that are active have met.
RegisteredUnlessTakenOver ==
  /\ \A c \in Conn :
       Active(c) => clients[owner[c]] = c \/ c \in dropped \/ c \in met
  /\ \A c, d \in Conn :
       c # d /\ owner[c] = owner[d] /\ Active(c) /\ Active(d) => c \in met

MessagesConsistent ==
  /\ \A i \in 1..Len(broadcast) : OwnUser(broadcast[i])
  /\ \A c \in Conn : \A i \in 1..Len(inHand[c]) : OwnUser(inHand[c][i])

HubInv ==
  /\ OwnersConsistent
  /\ MapsConsistent
  /\ ClosedConsistent
  /\ RegisteredUnlessTakenOver
  /\ LiveIsReachable
  /\ LeakOnlyAfterTakeover
  /\ MessagesConsistent
  /\ AddressedToReader
  /\ PanicOnlyAfterOverflow

=============================================================================
