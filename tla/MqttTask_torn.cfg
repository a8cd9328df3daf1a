\* A data point is still flagged when the next one is written.
SPECIFICATION Spec
CONSTANTS
  NoText = NoText
  Cmds <- MCCmds
  MaxSample = 2
INVARIANTS
  ReadyWhenSignalled
