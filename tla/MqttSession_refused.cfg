\* The broker may refuse a SUBSCRIBE.
SPECIFICATION Spec
CONSTANTS
  m1 = m1
  m2 = m2
  c1 = c1
  NoMsg = NoMsg
  Msgs <- MCMsgs
  Oversized <- MCOversized
  Cmds <- MCCmds
  MaxPacketId = 2
  UintMax = 3
  MaxRetries = 2
  ShortReads = 0
  EarlyPublish = FALSE
INVARIANTS
  SessionSubscribed
