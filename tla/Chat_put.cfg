SPECIFICATION GrantsSpec
CONSTANTS
  Clients = {c1, c2, c3}
  Users = {admin, u, v}
  Names = {general}
  Admin = admin
  General = general
  NoUser = NoUser
  Absent = Absent
  NoClient = NoClient
  MaxRooms = 1
  IdSpace = 8
PROPERTIES
  AcceptedMayPut
