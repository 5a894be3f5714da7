SPECIFICATION FairSpec
CONSTANTS
  User = {u1}
  Conn = {c1, c2}
  ChatRooms = {chat}
  NoConn = NoConn
  NoUser = NoUser
  NoRoom = NoRoom
  Server = Server
  ServerSends = TRUE
  SendCap = 1
  BroadcastCap = 1
  MaxMessages = 2
PROPERTIES
  NoGoroutineLeaks
CHECK_DEADLOCK FALSE
