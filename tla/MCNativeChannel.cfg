CONSTANTS
  CommandCap = 2
  OutcomeCap = 3
  MessageCommands = 2
  Diarizing = TRUE
SPECIFICATION FairChannelSpec
INVARIANTS NoMutualWait InFlightIsWatched
PROPERTY WatchedWedgeReaped
CHECK_DEADLOCK FALSE
