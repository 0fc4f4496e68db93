SPECIFICATION MovesSpec
CONSTANTS
  Clients = {c1, c2}
  Users = {admin, u}
  Names = {general}
  Admin = admin
  General = general
  NoUser = NoUser
  Absent = Absent
  NoClient = NoClient
  MaxRooms = 2
  IdSpace = 8
PROPERTIES
  MessageStaysInLobby
