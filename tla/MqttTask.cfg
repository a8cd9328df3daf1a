SPECIFICATION TasksSpec
CONSTANTS
  NoText = NoText
  Cmds <- MCCmds
  MaxSample = 2
  Workers = {"DataGatherTask"}
INVARIANTS
  ClockBeforeTLS
PROPERTIES
  RebootWasAsked
  RebootObeyed
  SpinEnds
  LockIsGranted
