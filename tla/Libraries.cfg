SPECIFICATION Spec
CONSTANTS
  Absent = Absent
  Values = {v1, v2}
  ListData <- MCListData
  ListNodes = 3
  Keys <- MCKeys
  Capacity = 2
  HashSpace = 4
  TreeData <- MCTreeData
  TreeNodes = 5
  Requests <- MCRequests
  Length = 2
  MaxPacket = 4
  ChunkSize = 2
  FrameSize = 2
  Messages = 1
INVARIANTS
  LinksAreWhole
  TableIsWhole
  WorkersInSync
  FramesWhole
PROPERTIES
  ImplementsList
  ImplementsMap
  ImplementsSortedSet
