SPECIFICATION Spec
CONSTANTS
  action = action
  plain = plain
  timed = timed
  instant = instant
  Request = {action, plain, timed, instant}
  Priority <- MCPriority
  Action = {action}
  Timed = {timed, instant}
  Duration <- MCDuration
  MaxUpdateTime = 1
  MaxUpdateCount = 1
  Bots = TRUE
  BotPlayTimer = 1
  MaxCounter = 4
  MaxAnimation = 2
INVARIANTS
  TypeOK
  TopPresented
PROPERTIES
  StablePriorityOrder
