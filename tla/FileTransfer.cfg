SPECIFICATION Spec
CONSTANTS
  Senders = {c1, c2}
  Targets = {c2, t1}
  NoSender = NoSender
  MaxChunks = 3
  SocketSize = 1
INVARIANTS
  TypeOK
  FilesContiguous
  ReadToLast
  SuccessMeansWhole
  WrittenIsSent
PROPERTIES
  TransfersEnd
