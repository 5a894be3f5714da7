SPECIFICATION Spec
CONSTANTS
  User = {u1}
  Conn = {c1, c2}
  ChatRooms = {}
  NoConn = NoConn
  NoUser = NoUser
  NoRoom = NoRoom
  Server = Server
  ServerSends = FALSE
  SendCap = 1
  BroadcastCap = 1
  MaxMessages = 0
INVARIANTS
  UnregisterRemoves
CHECK_DEADLOCK FALSE
