CONSTANTS
  file = file
  plain = plain
  timeline = timeline
  stream = stream
  s1 = s1
  s2 = s2
  Models = {m1, m2}
  Booted = m1
  Tasks <- MCTasks
  Registered = {file}
  Auxiliary = {timeline}
  Streaming = {stream}
  Setters = {s1, s2}
  Casts <- MCCasts
  MaxPolls = 1
  MayFail = TRUE
  None = None
SPECIFICATION FairSpec
PROPERTIES  AcceptedSwitchKept SwitchFollowsTask
CHECK_DEADLOCK FALSE
