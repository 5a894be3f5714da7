------------------------- MODULE WebSocketHub_proofs -------------------------
(***************************************************************************)
(* Theorems about WebSocketHub, for all users, connections, rooms, buffer  *)
(* sizes and numbers of messages.  The inductive invariant is              *)
(* TypeOK /\ HubInv.                                                       *)
(***************************************************************************)
EXTENDS WebSocketHub, SequenceTheorems, TLAPS

-----------------------------------------------------------------------------
(* Types. *)

\* The messages that are built are messages.
LEMMA MessageTypes ==
  ASSUME TypeOK
  PROVE  /\ \A c \in Conn, r \in Room \cup {NoRoom} :
              [room |-> r, user |-> owner[c], from |-> c] \in Message
         /\ \A u \in User : [room |-> NoRoom, user |-> u, from |-> Server] \in Message
         /\ \A r \in Room : [room |-> r, user |-> NoUser, from |-> Server] \in Message
  BY DEF TypeOK, Message

\* A statement of the hub's broadcast case keeps the types of what it touches.
LEMMA OfferType ==
  ASSUME TypeOK, NEW m \in Message, NEW S \in SUBSET Conn, Offer(m, S)
  PROVE  /\ send' \in [Conn -> Seq(Message)]
         /\ closed' \subseteq Conn
         /\ dropped' \subseteq Conn
         /\ panicked' \in BOOLEAN
  <1>1. \A c \in Conn : send[c] \in Seq(Message) /\ Append(send[c], m) \in Seq(Message)
    BY AppendProperties DEF TypeOK
  <1> QED
    BY <1>1 DEF TypeOK, Offer, Full

\* The head of the hub's buffer is a message, and the rest is a buffer.
LEMMA BroadcastType ==
  ASSUME TypeOK, broadcast # <<>>
  PROVE  Head(broadcast) \in Message /\ Tail(broadcast) \in Seq(Message)
  BY HeadTailProperties DEF TypeOK

\* Every step of a connection keeps the types.
LEMMA ConnType ==
  ASSUME TypeOK, NEW c \in Conn, ConnStep(c)
  PROVE  TypeOK'
  <1>1. ASSUME NEW u \in User, Connect(c, u) PROVE TypeOK'
    BY <1>1 DEF TypeOK, Connect, ReaderTo, ReaderState, hubVars
  <1>2. CASE PeerLeaves(c)
    BY <1>2 DEF TypeOK, PeerLeaves, hubVars
  <1>3. CASE ReadFails(c)
    BY <1>3 DEF TypeOK, ReadFails, ReaderTo, ReaderState, hubVars
  <1>4. CASE HandOver(c)
    <2>1. broadcast \o inHand[c] \in Seq(Message)
      BY ConcatProperties DEF TypeOK
    <2>2. <<>> \in Seq(Message)
      OBVIOUS
    <2> QED
      BY <1>4, <2>1, <2>2 DEF TypeOK, HandOver, ReaderTo, ReaderState, hubVars
  <1>5. CASE WriterStep(c)
    <2>1. CASE Write(c)
      <3>1. Tail(send[c]) \in Seq(Message)
        BY <2>1, HeadTailProperties DEF TypeOK, Write
      <3> QED
        BY <2>1, <3>1 DEF TypeOK, Write, WriterTo, hubVars
    <2>2. CASE WriteClose(c)
      BY <2>2 DEF TypeOK, WriteClose, WriterTo, hubVars
    <2>3. CASE PingFails(c)
      BY <2>3 DEF TypeOK, PingFails, WriterTo, hubVars
    <2> QED
      BY <1>5, <2>1, <2>2, <2>3 DEF WriterStep
  <1>6. ASSUME NEW r \in Room \cup {NoRoom}, ReadChat(c, r) PROVE TypeOK'
    <2>1. <<[room |-> r, user |-> owner[c], from |-> c]>> \in Seq(Message)
      BY MessageTypes
    <2> QED
      BY <1>6, <2>1 DEF TypeOK, ReadChat, ReaderTo, ReaderState, hubVars
  <1>7. ASSUME NEW r \in ChatRooms, JoinRoom(c, r) PROVE TypeOK'
    BY <1>7 DEF TypeOK, JoinRoom, pumpVars
  <1>8. CASE Register(c)
    <2>1. met' \subseteq Conn
      BY <1>8 DEF TypeOK, Register, Meet, Others
    <2> QED
      BY <1>8, <2>1 DEF TypeOK, Register, ReaderTo, WriterTo, ReaderState
  <1>9. CASE Unregister(c)
    <2>1. reader' \in [Conn -> ReaderState] /\ up' \subseteq Conn
      BY <1>9 DEF TypeOK, Unregister, ReaderTo, ReaderState
    <2>2. CASE clients[owner[c]] # NoConn
      <3>1. clients' \in [User -> Conn \cup {NoConn}]
        BY <1>9, <2>2 DEF TypeOK, Unregister
      <3>2. rooms' \in [Room -> SUBSET Conn]
        BY <1>9, <2>2 DEF TypeOK, Unregister
      <3>3. closed' \subseteq Conn /\ panicked' \in BOOLEAN
        BY <1>9, <2>2 DEF TypeOK, Unregister
      <3> QED
        BY <1>9, <2>1, <3>1, <3>2, <3>3 DEF TypeOK, Unregister
    <2>3. CASE clients[owner[c]] = NoConn
      BY <1>9, <2>1, <2>3 DEF TypeOK, Unregister
    <2> QED
      BY <2>2, <2>3
  <1> QED
    BY <1>1, <1>2, <1>3, <1>4, <1>5, <1>6, <1>7, <1>8, <1>9 DEF ConnStep

\* So does a message from the server.
LEMMA PublishType ==
  ASSUME TypeOK, NEW m \in Message, Publish(m)
  PROVE  TypeOK'
  <1>1. Append(broadcast, m) \in Seq(Message)
    BY AppendProperties DEF TypeOK
  <1> QED
    BY <1>1 DEF TypeOK, Publish, hubVars, pumpVars

\* So does a delivery.
LEMMA DeliverType ==
  ASSUME TypeOK, Deliver
  PROVE  TypeOK'
  <1>1. ASSUME NEW r \in Room, DeliverToRoom(r) PROVE TypeOK'
    <2>1. rooms[r] \in SUBSET Conn
      BY DEF TypeOK
    <2>2. Offer(Head(broadcast), rooms[r]) /\ broadcast # <<>>
      BY <1>1 DEF DeliverToRoom
    <2> QED
      BY <1>1, <2>1, <2>2, OfferType, BroadcastType DEF TypeOK, DeliverToRoom, pumpVars
  <1>2. ASSUME NEW u \in User, DeliverToUser(u) PROVE TypeOK'
    <2> DEFINE S == {clients[u]} \ {NoConn}
    <2>1. S \in SUBSET Conn
      BY DEF TypeOK
    <2>2. Offer(Head(broadcast), S) /\ broadcast # <<>>
      BY <1>2 DEF DeliverToUser
    <2> QED
      BY <1>2, <2>1, <2>2, OfferType, BroadcastType DEF TypeOK, DeliverToUser, pumpVars
  <1> QED
    BY <1>1, <1>2 DEF Deliver

LEMMA TypeInductive == TypeOK /\ [Next]_vars => TypeOK'
  <1> SUFFICES ASSUME TypeOK, [Next]_vars PROVE TypeOK'
    OBVIOUS
  <1>1. ASSUME NEW c \in Conn, ConnStep(c) PROVE TypeOK'
    BY <1>1, ConnType
  <1>2. ASSUME NEW u \in User, SendToUser(u) PROVE TypeOK'
    BY <1>2, PublishType, MessageTypes DEF SendToUser
  <1>3. ASSUME NEW r \in Room, SendToRoom(r) PROVE TypeOK'
    BY <1>3, PublishType, MessageTypes DEF SendToRoom
  <1>4. CASE Deliver
    BY <1>4, DeliverType
  <1>5. CASE UNCHANGED vars
    BY <1>5 DEF TypeOK, vars, hubVars, pumpVars
  <1> QED
    BY <1>1, <1>2, <1>3, <1>4, <1>5 DEF Next

LEMMA TypeInitial == Init => TypeOK
  <1> SUFFICES ASSUME Init PROVE TypeOK
    OBVIOUS
  <1>1. <<>> \in Seq(Message)
    OBVIOUS
  <1>2. rooms \in [Room -> SUBSET Conn] /\ clients \in [User -> Conn \cup {NoConn}]
    BY DEF Init
  <1>3. send \in [Conn -> Seq(Message)] /\ inHand \in [Conn -> Seq(Message)]
    BY <1>1 DEF Init
  <1> QED
    BY <1>1, <1>2, <1>3 DEF Init, TypeOK, ReaderState

\* The hub's two maps, the channels and the pumps always hold what they are
\* declared to hold.
THEOREM HubTypeCorrect == Spec => []TypeOK
  BY TypeInitial, TypeInductive, PTL DEF Spec

-----------------------------------------------------------------------------
(* The invariant. *)

Inv == TypeOK /\ HubInv

\* The parts of HubInv that are about the maps, the channels and the readers,
\* and those that are about messages.
MapPart ==
  /\ \A c \in Conn : reader[c] = "new" <=> owner[c] = NoUser
  /\ MapsConsistent
  /\ ClosedConsistent
  /\ RegisteredUnlessTakenOver
  /\ LiveIsReachable
  /\ LeakOnlyAfterTakeover
  /\ PanicOnlyAfterOverflow

MessagePart ==
  /\ \A c \in Conn : ~HasConnected(c) => send[c] = <<>>
  /\ MessagesConsistent
  /\ AddressedToReader

LEMMA Parts == HubInv <=> MapPart /\ MessagePart
  BY DEF HubInv, OwnersConsistent, MapPart, MessagePart

\* Where a reader is, as far as the hub cares.
SameStage(c) ==
  /\ reader'[c] = "new" <=> reader[c] = "new"
  /\ reader'[c] = "done" <=> reader[c] = "done"
  /\ Active(c)' <=> Active(c)

\* Steps of readers and writers that leave the hub alone.
LEMMA PumpsKeepMaps ==
  ASSUME TypeOK, MapPart, UNCHANGED <<clients, rooms, owner, closed, panicked, dropped, met>>,
         \A c \in Conn : SameStage(c)
  PROVE  MapPart'
  <1>1. \A c \in Conn : Active(c)' <=> Active(c)
    BY DEF SameStage
  <1>2. \A c \in Conn : HasConnected(c)' <=> HasConnected(c)
    BY DEF SameStage, HasConnected
  <1>3. (\A c \in Conn : reader[c] = "new" <=> owner[c] = NoUser)'
    BY DEF MapPart, SameStage
  <1>4. MapsConsistent'
    BY <1>1, <1>2 DEF TypeOK, MapPart, MapsConsistent
  <1>5. ClosedConsistent'
    BY DEF TypeOK, MapPart, ClosedConsistent, SameStage
  <1>6. RegisteredUnlessTakenOver'
    BY <1>1 DEF MapPart, RegisteredUnlessTakenOver
  <1>7. LiveIsReachable'
    BY <1>1 DEF MapPart, LiveIsReachable
  <1>8. LeakOnlyAfterTakeover'
    BY <1>2 DEF MapPart, LeakOnlyAfterTakeover, SameStage
  <1>9. PanicOnlyAfterOverflow'
    BY DEF MapPart, PanicOnlyAfterOverflow
  <1> QED
    BY <1>3, <1>4, <1>5, <1>6, <1>7, <1>8, <1>9 DEF MapPart

\* Steps that leave every message where it is.
LEMMA MessagesStay ==
  ASSUME TypeOK, MapPart, MessagePart, UNCHANGED <<broadcast, send, inHand>>,
         \A c \in Conn : owner[c] # NoUser => owner'[c] = owner[c],
         \A c \in Conn : HasConnected(c) => HasConnected(c)'
  PROVE  MessagePart'
  <1>1. \A m : OwnUser(m) => OwnUser(m)'
    BY DEF OwnUser
  <1>2. \A c \in Conn : HasConnected(c) => owner'[c] = owner[c]
    BY DEF MapPart, HasConnected, Active
  <1>3. (\A c \in Conn : ~HasConnected(c) => send[c] = <<>>)'
    BY DEF MessagePart
  <1>4. MessagesConsistent'
    BY <1>1 DEF MessagePart, MessagesConsistent
  <1>5. AddressedToReader'
    <2> SUFFICES ASSUME NEW c \in Conn, NEW i \in 1..Len(send[c])
                 PROVE  Addressed(c, send[c][i])'
      BY DEF AddressedToReader
    <2>1. HasConnected(c)
      <3>1. send[c] = <<>> => FALSE
        OBVIOUS
      <3> QED
        BY <3>1 DEF MessagePart
    <2>2. Addressed(c, send[c][i])
      BY DEF MessagePart, AddressedToReader
    <2>3. owner'[c] = owner[c]
      BY <1>2, <2>1
    <2>4. OwnUser(send[c][i]) => OwnUser(send[c][i])'
      BY <1>1
    <2>5. send'[c][i] = send[c][i]
      OBVIOUS
    <2> QED
      BY <2>2, <2>3, <2>4, <2>5 DEF Addressed
  <1> QED
    BY <1>3, <1>4, <1>5 DEF MessagePart

\* A new message in the hub's buffer, or in a reader's hand, has its user.
LEMMA NewMessage ==
  ASSUME TypeOK, MapPart, NEW c \in Conn, NEW r, reader[c] # "new"
  PROVE  OwnUser([room |-> r, user |-> owner[c], from |-> c])
  BY DEF MapPart, OwnUser

\* Readers and writers.
LEMMA ReadChatInv ==
  ASSUME Inv, NEW c \in Conn, NEW r, ReadChat(c, r)
  PROVE  MapPart' /\ MessagePart'
  <1> DEFINE m == [room |-> r, user |-> owner[c], from |-> c]
  <1> USE Parts DEF Inv
  <1>1. \A d \in Conn : SameStage(d)
    BY DEF ReadChat, ReaderTo, SameStage, Active, TypeOK
  <1>2. MapPart'
    BY <1>1, PumpsKeepMaps DEF ReadChat, hubVars
  <1>3. OwnUser(m)
    BY NewMessage DEF ReadChat
  <1>4. \A n : OwnUser(n) => OwnUser(n)'
    BY DEF OwnUser, ReadChat
  <1>5. (\A d \in Conn : ~HasConnected(d) => send[d] = <<>>)'
    BY <1>1 DEF MessagePart, HasConnected, SameStage, ReadChat
  <1>6. MessagesConsistent'
    <2>1. ASSUME NEW d \in Conn, NEW i \in 1..Len(inHand'[d]) PROVE OwnUser(inHand'[d][i])
      <3>1. CASE d = c
        <4>1. inHand'[d] = <<m>>
          BY <3>1 DEF ReadChat, TypeOK
        <4>2. inHand'[d][i] = m
          BY <4>1
        <4> QED
          BY <4>2, <1>3
      <3>2. CASE d # c
        <4>1. inHand'[d] = inHand[d]
          BY <3>2 DEF ReadChat, TypeOK
        <4> QED
          BY <4>1 DEF MessagePart, MessagesConsistent
      <3> QED
        BY <3>1, <3>2
    <2>2. broadcast' = broadcast
      BY DEF ReadChat
    <2> QED
      BY <1>4, <2>1, <2>2 DEF MessagePart, MessagesConsistent
  <1>7. AddressedToReader'
    BY <1>4 DEF MessagePart, AddressedToReader, Addressed, ReadChat
  <1> QED
    BY <1>2, <1>5, <1>6, <1>7 DEF MessagePart

LEMMA HandOverInv ==
  ASSUME Inv, NEW c \in Conn, HandOver(c)
  PROVE  MapPart' /\ MessagePart'
  <1> USE Parts DEF Inv
  <1>1. \A d \in Conn : SameStage(d)
    BY DEF HandOver, ReaderTo, SameStage, Active, TypeOK
  <1>2. MapPart'
    BY <1>1, PumpsKeepMaps DEF HandOver, hubVars
  <1>3. \A n : OwnUser(n) => OwnUser(n)'
    BY DEF OwnUser, HandOver
  <1>4. (\A d \in Conn : ~HasConnected(d) => send[d] = <<>>)'
    BY <1>1 DEF MessagePart, HasConnected, SameStage, HandOver
  <1>5. MessagesConsistent'
    <2>1. broadcast \in Seq(Message) /\ inHand[c] \in Seq(Message)
      BY DEF TypeOK
    <2>2. ASSUME NEW i \in 1..Len(broadcast') PROVE OwnUser(broadcast'[i])
      <3>1. broadcast' = broadcast \o inHand[c]
        BY DEF HandOver
      <3>2. \/ i \in 1..Len(broadcast) /\ broadcast'[i] = broadcast[i]
            \/ /\ i - Len(broadcast) \in 1..Len(inHand[c])
               /\ broadcast'[i] = inHand[c][i - Len(broadcast)]
        BY <2>1, <3>1, ConcatProperties, LenProperties
      <3> QED
        BY <3>2 DEF MessagePart, MessagesConsistent
    <2>3. ASSUME NEW d \in Conn, NEW i \in 1..Len(inHand'[d]) PROVE OwnUser(inHand'[d][i])
      <3>1. CASE d = c
        <4>1. inHand'[d] = <<>>
          BY <3>1 DEF HandOver, TypeOK
        <4> QED
          BY <4>1
      <3>2. CASE d # c
        <4>1. inHand'[d] = inHand[d]
          BY <3>2 DEF HandOver, TypeOK
        <4> QED
          BY <4>1 DEF MessagePart, MessagesConsistent
      <3> QED
        BY <3>1, <3>2
    <2> QED
      BY <1>3, <2>2, <2>3 DEF MessagesConsistent
  <1>6. AddressedToReader'
    BY <1>3 DEF MessagePart, AddressedToReader, Addressed, HandOver
  <1> QED
    BY <1>2, <1>4, <1>5, <1>6 DEF MessagePart

LEMMA ReadFailsInv ==
  ASSUME Inv, NEW c \in Conn, ReadFails(c)
  PROVE  MapPart' /\ MessagePart'
  <1> USE Parts DEF Inv
  <1>1. \A d \in Conn : SameStage(d)
    BY DEF ReadFails, ReaderTo, SameStage, Active, TypeOK
  <1>2. \A d \in Conn : HasConnected(d) => HasConnected(d)'
    BY <1>1 DEF SameStage, HasConnected
  <1> QED
    BY <1>1, <1>2, PumpsKeepMaps, MessagesStay DEF ReadFails, hubVars

LEMMA WriterInv ==
  ASSUME Inv, NEW c \in Conn, WriterStep(c)
  PROVE  MapPart' /\ MessagePart'
  <1> USE Parts DEF Inv
  <1>1. /\ UNCHANGED <<clients, rooms, broadcast, owner, closed, reader, inHand, panicked, dropped,
                       met>>
        /\ \/ UNCHANGED send
           \/ send[c] # <<>> /\ send' = [send EXCEPT ![c] = Tail(@)]
    BY DEF WriterStep, Write, WriteClose, PingFails, hubVars
  <1>2. \A d \in Conn : SameStage(d) /\ (HasConnected(d)' <=> HasConnected(d))
    BY <1>1 DEF SameStage, HasConnected, Active
  <1>3. MapPart'
    BY <1>1, <1>2, PumpsKeepMaps
  <1>4. CASE UNCHANGED send
    BY <1>1, <1>2, <1>3, <1>4, MessagesStay
  <1>5. CASE send[c] # <<>> /\ send' = [send EXCEPT ![c] = Tail(@)]
    <2>1. send'[c] = Tail(send[c]) /\ \A d \in Conn \ {c} : send'[d] = send[d]
      BY <1>5 DEF TypeOK
    <2>2. (\A d \in Conn : ~HasConnected(d) => send[d] = <<>>)'
      BY <1>2, <1>5, <2>1 DEF MessagePart
    <2>3. \A n : OwnUser(n) => OwnUser(n)'
      BY <1>1 DEF OwnUser
    <2>4. MessagesConsistent'
      BY <1>1, <2>3 DEF MessagePart, MessagesConsistent
    <2>5. ASSUME NEW d \in Conn, NEW i \in 1..Len(send'[d]) PROVE Addressed(d, send'[d][i])
      <3>1. CASE d = c
        <4>1. send[c] \in Seq(Message)
          BY DEF TypeOK
        <4>2. Len(send[c]) \in Nat /\ Len(send'[c]) = Len(send[c]) - 1
          BY <1>5, <2>1, <4>1, HeadTailProperties, LenProperties
        <4>3. i + 1 \in 1..Len(send[c])
          BY <3>1, <4>2
        <4>4. send'[c][i] = send[c][i + 1]
          BY <1>5, <2>1, <3>1, <4>1, <4>2, HeadTailProperties
        <4> QED
          BY <3>1, <4>3, <4>4 DEF MessagePart, AddressedToReader
      <3>2. CASE d # c
        BY <2>1, <3>2 DEF MessagePart, AddressedToReader
      <3> QED
        BY <3>1, <3>2
    <2>6. AddressedToReader'
      BY <1>1, <2>3, <2>5 DEF AddressedToReader, Addressed
    <2> QED
      BY <1>3, <2>2, <2>4, <2>6 DEF MessagePart
  <1> QED
    BY <1>1, <1>4, <1>5

LEMMA PeerLeavesInv ==
  ASSUME Inv, NEW c \in Conn, PeerLeaves(c)
  PROVE  MapPart' /\ MessagePart'
  <1> USE Parts DEF Inv
  <1>1. \A d \in Conn : SameStage(d) /\ (HasConnected(d)' <=> HasConnected(d))
    BY DEF PeerLeaves, SameStage, HasConnected, Active
  <1> QED
    BY <1>1, PumpsKeepMaps, MessagesStay DEF PeerLeaves, hubVars

\* The server sends a message of its own.
LEMMA PublishInv ==
  ASSUME Inv, NEW m \in Message, m.from = Server, Publish(m)
  PROVE  MapPart' /\ MessagePart'
  <1> USE Parts DEF Inv
  <1>1. \A d \in Conn : SameStage(d) /\ (HasConnected(d)' <=> HasConnected(d))
    BY DEF Publish, pumpVars, SameStage, HasConnected, Active
  <1>2. MapPart'
    BY <1>1, PumpsKeepMaps DEF Publish, hubVars, pumpVars
  <1>3. \A n : OwnUser(n) => OwnUser(n)'
    BY DEF OwnUser, Publish, pumpVars
  <1>4. OwnUser(m)
    BY ConnAssumption DEF OwnUser
  <1>5. ASSUME NEW i \in 1..Len(broadcast') PROVE OwnUser(broadcast'[i])
    <2>1. broadcast \in Seq(Message) /\ broadcast' = Append(broadcast, m)
      BY DEF Publish, TypeOK
    <2>2. \/ i \in 1..Len(broadcast) /\ broadcast'[i] = broadcast[i]
          \/ broadcast'[i] = m
      BY <2>1, AppendProperties, LenProperties
    <2> QED
      BY <1>4, <2>2 DEF MessagePart, MessagesConsistent
  <1>6. MessagesConsistent'
    BY <1>3, <1>5 DEF MessagePart, MessagesConsistent, Publish, pumpVars
  <1>7. (\A d \in Conn : ~HasConnected(d) => send[d] = <<>>)'
    BY <1>1 DEF MessagePart, Publish
  <1>8. AddressedToReader'
    BY <1>3 DEF MessagePart, AddressedToReader, Addressed, Publish, pumpVars
  <1> QED
    BY <1>2, <1>6, <1>7, <1>8 DEF MessagePart

\* Rooms, and the life of a connection.
LEMMA JoinRoomInv ==
  ASSUME Inv, NEW c \in Conn, NEW r \in ChatRooms, JoinRoom(c, r)
  PROVE  MapPart' /\ MessagePart'
  <1> USE Parts DEF Inv
  <1>1. /\ r \in Room /\ r \notin User
        /\ rooms' = [rooms EXCEPT ![r] = @ \cup {c}]
        /\ rooms'[r] = rooms[r] \cup {c} /\ \A s \in Room \ {r} : rooms'[s] = rooms[s]
        /\ reader[c] = "reading"
        /\ UNCHANGED <<clients, broadcast, send, closed, owner, reader, inHand, panicked, dropped,
                       met>>
    BY RoomAssumption DEF JoinRoom, TypeOK, Room, pumpVars
  <1>2. \A d \in Conn : (Active(d)' <=> Active(d)) /\ (HasConnected(d)' <=> HasConnected(d))
    BY <1>1 DEF Active, HasConnected
  <1>3. MapsConsistent'
    BY <1>1, <1>2 DEF MapPart, MapsConsistent, TypeOK, HasConnected, Active
  <1>4. ClosedConsistent'
    BY <1>1 DEF MapPart, ClosedConsistent, TypeOK
  <1>5. RegisteredUnlessTakenOver'
    BY <1>1, <1>2 DEF MapPart, RegisteredUnlessTakenOver
  <1>6. LiveIsReachable'
    <2> SUFFICES ASSUME NEW d \in Conn, Active(d)' PROVE (d \in rooms[owner[d]] \/ d \in dropped)'
      BY DEF LiveIsReachable
    <2>1. owner[d] \in Room
      BY <1>2 DEF MapPart, Active, TypeOK, Room
    <2> QED
      BY <1>1, <1>2, <2>1 DEF MapPart, LiveIsReachable
  <1>7. LeakOnlyAfterTakeover'
    BY <1>1, <1>2 DEF MapPart, LeakOnlyAfterTakeover
  <1>8. MapPart'
    BY <1>1, <1>3, <1>4, <1>5, <1>6, <1>7 DEF MapPart, PanicOnlyAfterOverflow
  <1> QED
    BY <1>1, <1>2, <1>8, MessagesStay

LEMMA ConnectInv ==
  ASSUME Inv, NEW c \in Conn, NEW u \in User, Connect(c, u)
  PROVE  MapPart' /\ MessagePart'
  <1> USE Parts DEF Inv
  <1>1. /\ reader[c] = "new" /\ owner[c] = NoUser
        /\ owner'[c] = u /\ reader'[c] = "registering"
        /\ \A d \in Conn \ {c} : owner'[d] = owner[d] /\ reader'[d] = reader[d]
        /\ UNCHANGED <<clients, rooms, broadcast, send, closed, inHand, panicked, dropped, met>>
    BY DEF Connect, ReaderTo, TypeOK, MapPart, hubVars
  <1>2. \A d \in Conn : (Active(d)' <=> Active(d)) /\ (HasConnected(d)' <=> HasConnected(d))
    BY <1>1 DEF Active, HasConnected
  <1>3. \A d \in Conn : HasConnected(d) => owner'[d] = owner[d]
    BY <1>1 DEF HasConnected, Active
  <1>4. \A d \in Conn : Active(d) => HasConnected(d)
    BY DEF HasConnected
  <1>5. \A d \in Conn : reader'[d] = "done" <=> reader[d] = "done"
    BY <1>1
  <1>6. (\A d \in Conn : reader[d] = "new" <=> owner[d] = NoUser)'
    BY <1>1, ConnAssumption DEF MapPart
  <1>7. MapsConsistent'
    BY <1>1, <1>2, <1>3, <1>4 DEF MapPart, MapsConsistent, TypeOK
  <1>8. ClosedConsistent'
    BY <1>1, <1>5 DEF MapPart, ClosedConsistent, TypeOK
  <1>9. RegisteredUnlessTakenOver'
    <2>1. ASSUME NEW d \in Conn, Active(d)'
          PROVE  clients'[owner'[d]] = d \/ d \in dropped' \/ d \in met'
      BY <1>1, <1>2, <1>3, <1>4, <2>1 DEF MapPart, RegisteredUnlessTakenOver
    <2>2. ASSUME NEW d \in Conn, NEW e \in Conn, d # e, owner'[d] = owner'[e], Active(d)', Active(e)'
          PROVE  d \in met'
      BY <1>1, <1>2, <1>3, <1>4, <2>2 DEF MapPart, RegisteredUnlessTakenOver
    <2> QED
      BY <2>1, <2>2 DEF RegisteredUnlessTakenOver
  <1>10. LiveIsReachable'
    BY <1>1, <1>2, <1>3, <1>4 DEF MapPart, LiveIsReachable
  <1>11. LeakOnlyAfterTakeover'
    BY <1>1, <1>5 DEF MapPart, LeakOnlyAfterTakeover
  <1>12. MapPart'
    BY <1>1, <1>6, <1>7, <1>8, <1>9, <1>10, <1>11 DEF MapPart, PanicOnlyAfterOverflow
  <1> QED
    BY <1>1, <1>2, <1>12, MessagesStay

LEMMA RegisterInv ==
  ASSUME Inv, NEW c \in Conn, Register(c)
  PROVE  MapPart' /\ MessagePart'
  <1> USE Parts DEF Inv
  <1> DEFINE u == owner[c]
  <1>1. u \in User /\ u \in Room /\ reader[c] = "registering"
    BY DEF Register, MapPart, TypeOK, Room
  <1>2. /\ clients'[u] = c /\ \A v \in User \ {u} : clients'[v] = clients[v]
        /\ rooms'[u] = rooms[u] \cup {c} /\ \A r \in Room \ {u} : rooms'[r] = rooms[r]
        /\ reader'[c] = "reading" /\ \A d \in Conn \ {c} : reader'[d] = reader[d]
        /\ UNCHANGED <<broadcast, send, closed, owner, inHand, panicked, dropped>>
    BY <1>1 DEF Register, ReaderTo, TypeOK
  <1>3. /\ Active(c)' /\ HasConnected(c)' /\ ~HasConnected(c)
        /\ \A d \in Conn \ {c} : (Active(d)' <=> Active(d)) /\ (HasConnected(d)' <=> HasConnected(d))
    BY <1>1, <1>2 DEF Active, HasConnected
  <1>4. \A d \in Conn : HasConnected(d) => HasConnected(d)'
    BY <1>3
  <1>5. (\A d \in Conn : reader[d] = "new" <=> owner[d] = NoUser)'
    BY <1>1, <1>2 DEF MapPart
  <1>6. MapsConsistent'
    <2>1. ASSUME NEW v \in User, clients'[v] # NoConn
          PROVE  (owner[clients[v]] = v /\ Active(clients[v]))'
      <3>1. CASE v = u
        BY <1>2, <1>3, <3>1
      <3>2. CASE v # u
        <4>1. clients'[v] = clients[v] /\ clients[v] \in Conn
          BY <1>2, <2>1, <3>2 DEF TypeOK
        <4>2. owner[clients[v]] = v /\ Active(clients[v])
          BY <2>1, <4>1 DEF MapPart, MapsConsistent
        <4>3. clients[v] # c
          BY <3>2, <4>2
        <4> QED
          BY <1>2, <1>3, <4>1, <4>2, <4>3
      <3> QED
        BY <3>1, <3>2
    <2>2. ASSUME NEW r \in Room, NEW d \in rooms'[r]
          PROVE  HasConnected(d)' /\ (r \in User => owner[d] = r)
      <3>1. d \in Conn /\ (d \in rooms[r] \/ (r = u /\ d = c))
        BY <1>1, <1>2 DEF TypeOK
      <3>2. CASE d \in rooms[r]
        BY <1>4, <3>1, <3>2 DEF MapPart, MapsConsistent
      <3>3. CASE r = u /\ d = c
        BY <1>3, <3>3
      <3> QED
        BY <3>1, <3>2, <3>3
    <2>3. owner' = owner
      BY <1>2
    <2> QED
      BY <2>1, <2>2, <2>3 DEF MapsConsistent
  <1>7. ClosedConsistent'
    BY <1>1, <1>2 DEF MapPart, ClosedConsistent, TypeOK
  <1>8. RegisteredUnlessTakenOver'
    <2>1. met \subseteq met' /\ \A d \in Others(c) : d \in met' /\ c \in met'
      BY DEF Register, Meet
    <2>2. \A d \in Conn : d # c /\ owner[d] = u /\ Active(d) => d \in Others(c)
      BY DEF Others
    <2>3. ASSUME NEW d \in Conn, Active(d)', d # c
          PROVE  clients'[owner[d]] = d \/ d \in dropped \/ d \in met'
      <3>1. owner[d] \in User /\ Active(d)
        BY <1>2, <1>3, <2>3 DEF MapPart, Active, TypeOK
      <3>2. CASE owner[d] = u
        BY <2>1, <2>2, <2>3, <3>1, <3>2
      <3>3. CASE owner[d] # u
        BY <1>2, <2>1, <3>1, <3>3 DEF MapPart, RegisteredUnlessTakenOver
      <3> QED
        BY <3>2, <3>3
    <2>4. ASSUME NEW d \in Conn, NEW e \in Conn, d # e, owner[d] = owner[e], Active(d)', Active(e)'
          PROVE  d \in met'
      <3>1. CASE d = c
        BY <1>3, <2>1, <2>2, <2>4, <3>1
      <3>2. CASE e = c
        BY <1>3, <2>1, <2>2, <2>4, <3>2
      <3>3. CASE d # c /\ e # c
        BY <1>3, <2>1, <2>4, <3>3 DEF MapPart, RegisteredUnlessTakenOver
      <3> QED
        BY <3>1, <3>2, <3>3
    <2> QED
      BY <1>2, <2>3, <2>4 DEF RegisteredUnlessTakenOver
  <1>9. LiveIsReachable'
    <2> SUFFICES ASSUME NEW d \in Conn, Active(d)' PROVE d \in rooms'[owner[d]] \/ d \in dropped
      BY <1>2 DEF LiveIsReachable
    <2>1. CASE d = c
      BY <1>2, <2>1
    <2>2. CASE d # c
      <3>1. owner[d] \in Room /\ Active(d)
        BY <1>2, <1>3, <2>2 DEF MapPart, Active, TypeOK, Room
      <3> QED
        BY <1>2, <3>1 DEF MapPart, LiveIsReachable
    <2> QED
      BY <2>1, <2>2
  <1>10. LeakOnlyAfterTakeover'
    <2>1. met \subseteq met'
      BY DEF Register, Meet
    <2> QED
      BY <1>2, <2>1 DEF MapPart, LeakOnlyAfterTakeover
  <1>11. MapPart'
    BY <1>2, <1>5, <1>6, <1>7, <1>8, <1>9, <1>10 DEF MapPart, PanicOnlyAfterOverflow
  <1> QED
    BY <1>2, <1>4, <1>11, MessagesStay

\* The connection that unregisters is registered, or was dropped, or another
\* connection of its user has been active beside it.
LEMMA UnregisterInv ==
  ASSUME Inv, NEW c \in Conn, Unregister(c)
  PROVE  MapPart' /\ MessagePart'
  <1> USE Parts DEF Inv
  <1> DEFINE u == owner[c]
  <1>1. u \in User /\ reader[c] = "leaving" /\ Active(c)
    BY DEF Unregister, MapPart, TypeOK, Active
  <1>2. /\ reader'[c] = "done" /\ \A d \in Conn \ {c} : reader'[d] = reader[d]
        /\ UNCHANGED <<broadcast, send, owner, inHand, dropped, met>>
    BY DEF Unregister, ReaderTo, TypeOK
  <1>3. /\ ~Active(c)' /\ \A d \in Conn \ {c} : Active(d)' <=> Active(d)
        /\ \A d \in Conn : HasConnected(d)' <=> HasConnected(d)
    BY <1>1, <1>2 DEF Active, HasConnected
  <1>4. (\A d \in Conn : reader[d] = "new" <=> owner[d] = NoUser)'
    BY <1>1, <1>2 DEF MapPart
  <1>5. ASSUME clients[u] # NoConn PROVE MapPart'
    <2>1. /\ clients'[u] = NoConn /\ \A v \in User \ {u} : clients'[v] = clients[v]
          /\ \A r \in Room : rooms'[r] = rooms[r] \ {c}
          /\ closed' = closed \cup {c}
          /\ panicked' = (c \in closed)
      BY <1>1, <1>5 DEF Unregister, TypeOK
    <2>2. MapsConsistent'
      <3>1. ASSUME NEW v \in User, clients'[v] # NoConn
            PROVE  (owner[clients[v]] = v /\ Active(clients[v]))'
        <4>1. v # u /\ clients'[v] = clients[v] /\ clients[v] \in Conn
          BY <2>1, <3>1 DEF TypeOK
        <4>2. owner[clients[v]] = v /\ Active(clients[v])
          BY <3>1, <4>1 DEF MapPart, MapsConsistent
        <4>3. clients[v] # c
          BY <4>1, <4>2
        <4> QED
          BY <1>2, <1>3, <4>1, <4>2, <4>3
      <3>2. ASSUME NEW r \in Room, NEW d \in rooms'[r]
            PROVE  (HasConnected(d) /\ (r \in User => owner[d] = r))'
        <4>1. d \in Conn /\ d \in rooms[r]
          BY <2>1 DEF TypeOK
        <4> QED
          BY <1>2, <1>3, <4>1 DEF MapPart, MapsConsistent
      <3> QED
        BY <3>1, <3>2 DEF MapsConsistent
    <2>3. ClosedConsistent'
      BY <1>2, <2>1 DEF MapPart, ClosedConsistent, TypeOK
    <2>4. RegisteredUnlessTakenOver'
      <3>1. ASSUME NEW d \in Conn, Active(d)'
            PROVE  clients'[owner[d]] = d \/ d \in dropped \/ d \in met
        <4>1. d # c /\ Active(d) /\ owner[d] \in User
          BY <1>2, <1>3, <3>1 DEF MapPart, Active, TypeOK
        <4>2. CASE owner[d] = u
          BY <1>1, <4>1, <4>2 DEF MapPart, RegisteredUnlessTakenOver
        <4>3. CASE owner[d] # u
          BY <2>1, <4>1, <4>3 DEF MapPart, RegisteredUnlessTakenOver
        <4> QED
          BY <4>2, <4>3
      <3>2. ASSUME NEW d \in Conn, NEW e \in Conn, d # e, owner[d] = owner[e], Active(d)', Active(e)'
            PROVE  d \in met
        <4>1. Active(d) /\ Active(e)
          BY <1>3, <3>2
        <4> QED
          BY <3>2, <4>1 DEF MapPart, RegisteredUnlessTakenOver
      <3> QED
        BY <1>2, <3>1, <3>2 DEF RegisteredUnlessTakenOver
    <2>5. LiveIsReachable'
      <3> SUFFICES ASSUME NEW d \in Conn, Active(d)' PROVE (d \in rooms[owner[d]] \/ d \in dropped)'
        BY DEF LiveIsReachable
      <3>1. d # c /\ Active(d) /\ owner[d] \in Room
        BY <1>2, <1>3 DEF MapPart, Active, TypeOK, Room
      <3> QED
        BY <1>2, <2>1, <3>1 DEF MapPart, LiveIsReachable
    <2>6. LeakOnlyAfterTakeover'
      BY <1>2, <1>3, <2>1 DEF MapPart, LeakOnlyAfterTakeover
    <2>7. PanicOnlyAfterOverflow'
      BY <1>1, <1>2, <2>1 DEF MapPart, ClosedConsistent, PanicOnlyAfterOverflow
    <2> QED
      BY <1>4, <2>2, <2>3, <2>4, <2>5, <2>6, <2>7 DEF MapPart
  <1>6. ASSUME clients[u] = NoConn PROVE MapPart'
    <2>1. UNCHANGED <<clients, rooms, closed, panicked>>
      BY <1>6 DEF Unregister
    <2>2. MapsConsistent'
      <3>1. ASSUME NEW v \in User, clients'[v] # NoConn
            PROVE  (owner[clients[v]] = v /\ Active(clients[v]))'
        <4>1. v # u /\ clients[v] \in Conn /\ owner[clients[v]] = v /\ Active(clients[v])
          BY <1>6, <2>1, <3>1 DEF TypeOK, MapPart, MapsConsistent
        <4>2. clients[v] # c
          BY <4>1
        <4> QED
          BY <1>2, <1>3, <2>1, <4>1, <4>2
      <3>2. ASSUME NEW r \in Room, NEW d \in rooms'[r]
            PROVE  (HasConnected(d) /\ (r \in User => owner[d] = r))'
        BY <1>2, <1>3, <2>1 DEF TypeOK, MapPart, MapsConsistent
      <3> QED
        BY <3>1, <3>2 DEF MapsConsistent
    <2>3. ClosedConsistent'
      BY <1>1, <1>2, <2>1 DEF MapPart, ClosedConsistent, TypeOK
    <2>4. RegisteredUnlessTakenOver'
      <3>1. \A d \in Conn : Active(d)' => Active(d)
        BY <1>3
      <3> QED
        BY <1>2, <2>1, <3>1 DEF MapPart, RegisteredUnlessTakenOver
    <2>5. LiveIsReachable'
      BY <1>2, <1>3, <2>1 DEF MapPart, LiveIsReachable
    <2>6. LeakOnlyAfterTakeover'
      <3>1. c \in dropped \/ c \in met
        BY <1>1, <1>6, ConnAssumption DEF MapPart, RegisteredUnlessTakenOver
      <3> QED
        BY <1>2, <2>1, <3>1 DEF MapPart, LeakOnlyAfterTakeover
    <2> QED
      BY <1>2, <1>4, <2>1, <2>2, <2>3, <2>4, <2>5, <2>6 DEF MapPart, PanicOnlyAfterOverflow
  <1>7. MapPart'
    BY <1>5, <1>6
  <1> QED
    BY <1>2, <1>3, <1>7, MessagesStay

\* A delivery to connections it may reach keeps every message where it belongs.
LEMMA OfferMessages ==
  ASSUME Inv, broadcast # <<>>, broadcast' = Tail(broadcast), UNCHANGED pumpVars,
         NEW S \in SUBSET Conn, Offer(Head(broadcast), S),
         \A c \in S : HasConnected(c) /\ Addressed(c, Head(broadcast))
  PROVE  MessagePart'
  <1> USE Parts DEF Inv
  <1> DEFINE m == Head(broadcast)
  <1>1. UNCHANGED <<owner, reader, inHand>>
    BY DEF pumpVars
  <1>2. \A n : OwnUser(n) => OwnUser(n)'
    BY <1>1 DEF OwnUser
  <1>3. \A c \in Conn : \/ send'[c] = send[c]
                        \/ c \in S /\ send'[c] = Append(send[c], m)
    BY DEF Offer
  <1>4. (\A c \in Conn : ~HasConnected(c) => send[c] = <<>>)'
    BY <1>1, <1>3 DEF MessagePart, HasConnected, Active
  <1>5. ASSUME NEW i \in 1..Len(broadcast') PROVE OwnUser(broadcast'[i])
    <2>1. broadcast \in Seq(Message)
      BY DEF TypeOK
    <2>2. Len(broadcast) \in Nat /\ Len(broadcast') = Len(broadcast) - 1
      BY <2>1, HeadTailProperties, LenProperties
    <2>3. i + 1 \in 1..Len(broadcast)
      BY <2>2
    <2>4. broadcast'[i] = broadcast[i + 1]
      BY <2>1, <2>2, HeadTailProperties
    <2> QED
      BY <2>3, <2>4 DEF MessagePart, MessagesConsistent
  <1>6. MessagesConsistent'
    BY <1>1, <1>2, <1>5 DEF MessagePart, MessagesConsistent
  <1>7. ASSUME NEW c \in Conn, NEW i \in 1..Len(send'[c]) PROVE Addressed(c, send'[c][i])
    <2>1. CASE send'[c] = send[c]
      BY <2>1 DEF MessagePart, AddressedToReader
    <2>2. CASE c \in S /\ send'[c] = Append(send[c], m)
      <3>1. send[c] \in Seq(Message)
        BY DEF TypeOK
      <3>2. \/ i \in 1..Len(send[c]) /\ send'[c][i] = send[c][i]
            \/ send'[c][i] = m
        BY <2>2, <3>1, AppendProperties, LenProperties
      <3> QED
        BY <2>2, <3>2 DEF MessagePart, AddressedToReader
    <2> QED
      BY <1>3, <2>1, <2>2
  <1>8. AddressedToReader'
    BY <1>1, <1>2, <1>7 DEF AddressedToReader, Addressed
  <1> QED
    BY <1>4, <1>6, <1>8 DEF MessagePart

LEMMA DeliverToRoomInv ==
  ASSUME Inv, NEW r \in Room, DeliverToRoom(r)
  PROVE  MapPart' /\ MessagePart'
  <1> USE Parts DEF Inv
  <1> DEFINE m == Head(broadcast)
             F == Full(rooms[r])
  <1>1. /\ UNCHANGED <<clients, owner, reader, met>>
        /\ rooms'[r] = rooms[r] \ F /\ \A s \in Room \ {r} : rooms'[s] = rooms[s]
        /\ F \subseteq rooms[r] /\ rooms[r] \subseteq Conn
        /\ Offer(m, rooms[r])
    BY DEF DeliverToRoom, pumpVars, TypeOK, Full
  <1>2. /\ closed' = closed \cup F
        /\ dropped' = dropped \cup F
        /\ panicked' = (rooms[r] \cap closed # {})
    BY <1>1 DEF Offer
  <1>3. \A d \in Conn : (Active(d)' <=> Active(d)) /\ (HasConnected(d)' <=> HasConnected(d))
    BY <1>1 DEF Active, HasConnected
  <1>4. (\A d \in Conn : reader[d] = "new" <=> owner[d] = NoUser)'
    BY <1>1 DEF MapPart
  <1>5. MapsConsistent'
    <2>1. ASSUME NEW v \in User, clients'[v] # NoConn
          PROVE  (owner[clients[v]] = v /\ Active(clients[v]))'
      BY <1>1, <1>3, <2>1 DEF TypeOK, MapPart, MapsConsistent
    <2>2. ASSUME NEW s \in Room, NEW d \in rooms'[s]
          PROVE  (HasConnected(d) /\ (s \in User => owner[d] = s))'
      <3>1. d \in Conn /\ d \in rooms[s]
        BY <1>1 DEF TypeOK
      <3> QED
        BY <1>1, <1>3, <3>1 DEF MapPart, MapsConsistent
    <2> QED
      BY <2>1, <2>2 DEF MapsConsistent
  <1>6. ClosedConsistent'
    BY <1>1, <1>2 DEF MapPart, ClosedConsistent, TypeOK
  <1>7. RegisteredUnlessTakenOver'
    BY <1>1, <1>2, <1>3 DEF MapPart, RegisteredUnlessTakenOver
  <1>8. LiveIsReachable'
    <2> SUFFICES ASSUME NEW d \in Conn, Active(d)' PROVE (d \in rooms[owner[d]] \/ d \in dropped)'
      BY DEF LiveIsReachable
    <2>1. Active(d) /\ owner[d] \in Room
      BY <1>3 DEF MapPart, Active, TypeOK, Room
    <2> QED
      BY <1>1, <1>2, <2>1 DEF MapPart, LiveIsReachable
  <1>9. LeakOnlyAfterTakeover'
    BY <1>1, <1>2, <1>3 DEF MapPart, LeakOnlyAfterTakeover
  <1>10. PanicOnlyAfterOverflow'
    <2> SUFFICES ASSUME NEW c \in rooms[r], c \in closed PROVE dropped' # {}
      BY <1>2 DEF PanicOnlyAfterOverflow
    <2>1. c \in dropped
      BY <1>1 DEF MapPart, ClosedConsistent, TypeOK
    <2> QED
      BY <1>2, <2>1
  <1>11. \A c \in rooms[r] : HasConnected(c) /\ Addressed(c, m)
    <2>1. m.room = r /\ r # NoRoom
      BY RoomAssumption DEF DeliverToRoom
    <2> QED
      BY <1>1, <2>1 DEF MapPart, MapsConsistent, Addressed
  <1>12. MessagePart'
    BY <1>1, <1>11, OfferMessages DEF DeliverToRoom
  <1> QED
    BY <1>4, <1>5, <1>6, <1>7, <1>8, <1>9, <1>10, <1>12 DEF MapPart

LEMMA DeliverToUserInv ==
  ASSUME Inv, NEW u \in User, DeliverToUser(u)
  PROVE  MapPart' /\ MessagePart'
  <1> USE Parts DEF Inv
  <1> DEFINE m == Head(broadcast)
             S == {clients[u]} \ {NoConn}
             F == Full(S)
  <1>1. S \subseteq Conn /\ F \subseteq S
    BY DEF TypeOK, Full
  <1>2. /\ UNCHANGED <<rooms, owner, reader, met>>
        /\ Offer(m, S)
    BY DEF DeliverToUser, pumpVars
  <1>3. clients' = [clients EXCEPT ![u] = IF F = {} THEN @ ELSE NoConn]
    BY DEF DeliverToUser
  <1>4. /\ closed' = closed \cup F
        /\ dropped' = dropped \cup F
        /\ panicked' = (S \cap closed # {})
    BY <1>2 DEF Offer
  <1>5. \A d \in Conn : (Active(d)' <=> Active(d)) /\ (HasConnected(d)' <=> HasConnected(d))
    BY <1>2 DEF Active, HasConnected
  <1>6. \A c \in S : owner[c] = u /\ Active(c) /\ HasConnected(c)
    BY DEF MapPart, MapsConsistent, HasConnected
  <1>7. (\A d \in Conn : reader[d] = "new" <=> owner[d] = NoUser)'
    BY <1>2 DEF MapPart
  <1>8. MapsConsistent'
    <2>1. ASSUME NEW v \in User, clients'[v] # NoConn
          PROVE  (owner[clients[v]] = v /\ Active(clients[v]))'
      <3>1. clients'[v] = clients[v] /\ clients[v] \in Conn
        BY <1>3, <2>1 DEF TypeOK
      <3> QED
        BY <1>2, <1>5, <2>1, <3>1 DEF MapPart, MapsConsistent
    <2>2. ASSUME NEW s \in Room, NEW d \in rooms'[s]
          PROVE  (HasConnected(d) /\ (s \in User => owner[d] = s))'
      BY <1>2, <1>5 DEF TypeOK, MapPart, MapsConsistent
    <2> QED
      BY <2>1, <2>2 DEF MapsConsistent
  <1>9. ClosedConsistent'
    BY <1>2, <1>4 DEF MapPart, ClosedConsistent, TypeOK
  <1>10. RegisteredUnlessTakenOver'
    <2>1. ASSUME NEW d \in Conn, Active(d)'
          PROVE  clients'[owner[d]] = d \/ d \in dropped' \/ d \in met
      <3>1. Active(d) /\ owner[d] \in User
        BY <1>5, <2>1 DEF MapPart, Active, TypeOK
      <3>2. CASE clients[owner[d]] = d
        <4>1. CASE owner[d] # u \/ F = {}
          BY <1>3, <3>1, <3>2, <4>1 DEF TypeOK
        <4>2. CASE owner[d] = u /\ F # {}
          <5>1. S \subseteq {d}
            BY <3>2, <4>2
          <5> QED
            BY <1>1, <1>4, <4>2, <5>1
        <4> QED
          BY <4>1, <4>2
      <3>3. CASE clients[owner[d]] # d
        BY <1>4, <3>1, <3>3 DEF MapPart, RegisteredUnlessTakenOver
      <3> QED
        BY <3>2, <3>3
    <2>2. ASSUME NEW d \in Conn, NEW e \in Conn, d # e, owner[d] = owner[e], Active(d)', Active(e)'
          PROVE  d \in met
      <3>1. Active(d) /\ Active(e)
        BY <1>5, <2>2
      <3> QED
        BY <2>2, <3>1 DEF MapPart, RegisteredUnlessTakenOver
    <2> QED
      BY <1>2, <2>1, <2>2 DEF RegisteredUnlessTakenOver
  <1>11. LiveIsReachable'
    BY <1>2, <1>4, <1>5 DEF MapPart, LiveIsReachable
  <1>12. LeakOnlyAfterTakeover'
    BY <1>2, <1>4, <1>5 DEF MapPart, LeakOnlyAfterTakeover
  <1>13. PanicOnlyAfterOverflow'
    <2> SUFFICES ASSUME NEW c \in S, c \in closed PROVE dropped' # {}
      BY <1>4 DEF PanicOnlyAfterOverflow
    <2>1. c \in dropped
      BY <1>1, <1>6 DEF MapPart, ClosedConsistent, Active
    <2> QED
      BY <1>4, <2>1
  <1>14. \A c \in S : HasConnected(c) /\ Addressed(c, m)
    <2>1. m.room = NoRoom /\ m.user = u /\ NoRoom \notin User
      BY RoomAssumption DEF DeliverToUser, Room
    <2>2. OwnUser(m)
      <3>1. broadcast \in Seq(Message) /\ broadcast # <<>>
        BY DEF TypeOK, DeliverToUser
      <3>2. 1 \in 1..Len(broadcast) /\ m = broadcast[1]
        BY <3>1, HeadTailProperties, LenProperties, EmptySeq
      <3> QED
        BY <3>2 DEF MessagePart, MessagesConsistent
    <2> QED
      BY <1>6, <2>1, <2>2 DEF Addressed
  <1>15. MessagePart'
    BY <1>1, <1>2, <1>14, OfferMessages DEF DeliverToUser
  <1> QED
    BY <1>7, <1>8, <1>9, <1>10, <1>11, <1>12, <1>13, <1>15 DEF MapPart

LEMMA HubInductive == Inv /\ [Next]_vars => Inv'
  <1>0. (MapPart /\ MessagePart)' => HubInv'
    BY DEF HubInv, OwnersConsistent, MapPart, MessagePart
  <1> SUFFICES ASSUME Inv, [Next]_vars PROVE MapPart' /\ MessagePart'
    BY <1>0, TypeInductive DEF Inv
  <1>1. ASSUME NEW c \in Conn, ConnStep(c) PROVE MapPart' /\ MessagePart'
    BY <1>1, ConnectInv, PeerLeavesInv, ReadFailsInv, HandOverInv, WriterInv, ReadChatInv,
       JoinRoomInv, RegisterInv, UnregisterInv DEF ConnStep
  <1>2. ASSUME NEW u \in User, SendToUser(u) PROVE MapPart' /\ MessagePart'
    BY <1>2, PublishInv, MessageTypes DEF SendToUser, Inv
  <1>3. ASSUME NEW r \in Room, SendToRoom(r) PROVE MapPart' /\ MessagePart'
    BY <1>3, PublishInv, MessageTypes DEF SendToRoom, Inv
  <1>4. CASE Deliver
    BY <1>4, DeliverToRoomInv, DeliverToUserInv DEF Deliver
  <1>5. CASE UNCHANGED vars
    <2>1. \A d \in Conn : SameStage(d) /\ (HasConnected(d)' <=> HasConnected(d))
      BY <1>5 DEF vars, pumpVars, SameStage, HasConnected, Active
    <2> QED
      BY <1>5, <2>1, PumpsKeepMaps, MessagesStay, Parts DEF Inv, vars, hubVars, pumpVars
  <1> QED
    BY <1>1, <1>2, <1>3, <1>4, <1>5 DEF Next

LEMMA HubInitial == Init => Inv
  <1> SUFFICES ASSUME Init PROVE TypeOK /\ HubInv
    BY DEF Inv
  <1>1. TypeOK
    BY TypeInitial
  <1>2. \A c \in Conn : ~Active(c) /\ ~HasConnected(c)
    BY DEF Init, Active, HasConnected
  <1>3. /\ Len(broadcast) = 0
        /\ \A c \in Conn : Len(send[c]) = 0 /\ Len(inHand[c]) = 0
    BY DEF Init
  <1>4. OwnersConsistent /\ MapsConsistent /\ ClosedConsistent /\ PanicOnlyAfterOverflow
    BY DEF Init, OwnersConsistent, MapsConsistent, ClosedConsistent, PanicOnlyAfterOverflow
  <1>5. RegisteredUnlessTakenOver /\ LiveIsReachable /\ LeakOnlyAfterTakeover
    BY <1>2 DEF Init, RegisteredUnlessTakenOver, LiveIsReachable, LeakOnlyAfterTakeover
  <1>6. MessagesConsistent /\ AddressedToReader
    BY <1>3 DEF MessagesConsistent, AddressedToReader
  <1> QED
    BY <1>1, <1>4, <1>5, <1>6 DEF HubInv

\* The maps, the channels and the messages of the hub stay consistent, whatever
\* the users' connections do and in whatever order.
THEOREM HubInvHolds == Spec => []HubInv
  <1>1. Inv => HubInv
    BY DEF Inv
  <1> QED
    BY HubInitial, HubInductive, <1>1, PTL DEF Spec

\* Until a buffer overflows, no channel is closed twice and none is used after.
THEOREM NoPanicWithoutOverflow == Spec => []PanicOnlyAfterOverflow
  <1>1. HubInv => PanicOnlyAfterOverflow
    BY DEF HubInv
  <1> QED
    BY HubInvHolds, <1>1, PTL

\* Every open connection is in the private room of its user, unless dropped.
THEOREM OpenConnectionsReachable == Spec => []LiveIsReachable
  <1>1. HubInv => LiveIsReachable
    BY DEF HubInv
  <1> QED
    BY HubInvHolds, <1>1, PTL

\* A connection stays in the hub after it has unregistered only if it was
\* dropped, or if another connection of its user was active at the same time.
THEOREM LeaksExplained == Spec => []LeakOnlyAfterTakeover
  <1>1. HubInv => LeakOnlyAfterTakeover
    BY DEF HubInv
  <1> QED
    BY HubInvHolds, <1>1, PTL

\* No connection ever holds a message that is for another user.
THEOREM MessagesAddressed == Spec => []AddressedToReader
  <1>1. HubInv => AddressedToReader
    BY DEF HubInv
  <1> QED
    BY HubInvHolds, <1>1, PTL

=============================================================================
