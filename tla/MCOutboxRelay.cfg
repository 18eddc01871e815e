CONSTANTS
  o1 = o1
  o2 = o2
  Orders = {o1, o2}
  Batch = 2
  Buffer = 1
  MaxRows = 4
  MaxCrashes = 1
SPECIFICATION Spec
INVARIANTS NoRowSkipped OrderEventsInOrder DropsAreCounted
PROPERTIES EventuallyPublished
CHECK_DEADLOCK FALSE
