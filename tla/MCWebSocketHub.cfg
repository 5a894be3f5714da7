SPECIFICATION Spec
CONSTANTS
  User = {u1, u2}
  Conn = {c1, c2}
  ChatRooms = {chat}
  NoConn = NoConn
  NoUser = NoUser
  NoRoom = NoRoom
  Server = Server
  ServerSends = TRUE
  SendCap = 1
  BroadcastCap = 1
  MaxMessages = 3
SYMMETRY HubSymmetry
INVARIANTS
  TypeOK
  PanicOnlyAfterOverflow
  LiveIsReachable
  LeakOnlyAfterTakeover
  AddressedToReader
  HubInv
CHECK_DEADLOCK FALSE
