SPECIFICATION Spec
CONSTANTS
  Senders = {s1, s2}
  Targets = {t1}
  NoSender = NoSender
  MaxChunks = 2
  SocketSize = 1
PROPERTIES
  ShutdownUnblocks
