CONSTANTS
  CommandCap = 2
  OutcomeCap = 3
  MessageCommands = 2
  Diarizing = FALSE
SPECIFICATION FairChannelSpec
PROPERTY WedgeReaped
CHECK_DEADLOCK FALSE
