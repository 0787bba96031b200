SPECIFICATION FairSpec
CONSTANTS
  action = action
  plain = plain
  timed = timed
  instant = instant
  Request = {plain, timed, action}
  Priority <- MCPriority
  Action = {action}
  Timed = {timed}
  Duration <- MCDuration
  MaxUpdateTime = 1
  MaxUpdateCount = 1
  Bots = TRUE
  BotPlayTimer = 0
  MaxCounter = 3
  MaxAnimation = 2
PROPERTIES
  CommitEnds
  WaitingEnds
  TimedRequestEnds
