SPECIFICATION Spec
CONSTANTS
  c1 = c1
  c2 = c2
  Clients = {c1, c2}
  Kinds <- MCKinds
  Typed <- MCTyped
  Wants <- MCWants
  SubscriberBuffer = 1
  StreamBuffer = 1
  Window = 1
  MaxEvents = 2
CHECK_DEADLOCK FALSE
INVARIANTS
  NoSendOnClosed
PROPERTIES
  FeedSpec
  NoGoroutineLeft
  StopEnds
