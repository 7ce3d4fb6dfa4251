CONSTANTS
  FrameMs = 2
  SpeechStartMs = 3
  SpeechStopMs = 3
  MaxUtteranceMs = 9
  NoSpeechTimeoutMs = 4
  PreRollMs = 3
  DefaultMaxFrames = 1
  SlackMs = 4
  PartialIntervalMs = 2
  QueueCapacity = 1
  MaxUtterances = 2
  Horizon = 18
  MaxFaults = 1
  None = None
SPECIFICATION FairSpec
INVARIANTS CapacitySuffices SpeechIsKept OneInFlight SavedTranscriptComplete
PROPERTIES TranscriptOnlyMovesForward LiveEnds
CHECK_DEADLOCK FALSE
