SPECIFICATION Spec
CONSTANTS
  User = {u1}
  Conn = {c1}
  ChatRooms = {}
  NoConn = NoConn
  NoUser = NoUser
  NoRoom = NoRoom
  Server = Server
  ServerSends = FALSE
  SendCap = 1
  BroadcastCap = 1
  MaxMessages = 2
PROPERTIES
  UnregisterSucceeds
CHECK_DEADLOCK FALSE
