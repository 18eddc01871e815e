CONSTANTS
  MaxUpdates = 3
  MaxDrops = 3
  OutBuffer = 1
  BusBuffer = 1
SPECIFICATION ReconnectFairSpec
INVARIANTS ReconnectNotForgotten
PROPERTY LossIsFollowedByRead
