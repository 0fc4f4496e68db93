SPECIFICATION MixedSpec
CONSTANTS
  Clients = {c1, c2, c3}
  Users = {admin, u, v}
  Names = {general, lobby}
  Admin = admin
  General = general
  NoUser = NoUser
  Absent = Absent
  NoClient = NoClient
  MaxRooms = 2
  IdSpace = 8
INVARIANTS
  TypeOK
  SessionsAgree
  MembershipAgrees
  MembersAreIn
  RoomMeansEntries
  PrivateIsPrivate
PROPERTIES
  OnlyAdminsEndSessions
  OnlyAdminsAdminister
  PendingNotReplaced
  AcceptMeets
