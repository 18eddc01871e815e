CONSTANTS
  o1 = o1
  c1 = c1
  Orders = {o1}
  Callers = {c1}
  Qty = 2
  MaxCalls = 3
  MaxCrashes = 1
SPECIFICATION Spec
INVARIANTS OwnOrderNeverOrphan LocalNeverAhead
PROPERTIES ConvergesToVenue AdoptsOpenOrder
