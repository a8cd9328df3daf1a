\* A read may time out inside a packet, the broker may publish to a filter
\* before it answers the SUBSCRIBE.
SPECIFICATION FairSpec
CONSTANTS
  m1 = m1
  m2 = m2
  c1 = c1
  NoMsg = NoMsg
  Msgs <- MCOneMsg
  Oversized = {}
  Cmds <- MCCmds
  MaxPacketId = 1
  UintMax = 1
  MaxRetries = 1
  ShortReads = 1
  EarlyPublish = TRUE
PROPERTIES
  BrokenLinkNoticed
