\* Packets arrive whole and the broker answers a SUBSCRIBE before it publishes.
SPECIFICATION Spec
CONSTANTS
  m1 = m1
  m2 = m2
  c1 = c1
  NoMsg = NoMsg
  Msgs <- MCMsgs
  Oversized <- MCOversized
  Cmds <- MCCmds
  MaxPacketId = 2
  UintMax = 3
  MaxRetries = 2
  ShortReads = 0
  EarlyPublish = FALSE
INVARIANTS
  TypeOK
  NoStalePuback
  SessionAnswered
  PingNotStuck
  AckedWasHandled
  NoCommandMissed
PROPERTIES
  ImplementsContract
