SPECIFICATION HandoverSpec
CONSTANTS
  Clients = {c1, c2}
  Users = {admin, u, v}
  Names = {general}
  Admin = admin
  General = general
  NoUser = NoUser
  Absent = Absent
  NoClient = NoClient
  MaxRooms = 1
  IdSpace = 8
PROPERTIES
  RelayOnlyAccepted
