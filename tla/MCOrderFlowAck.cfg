CONSTANTS
  o1 = o1
  c1 = c1
  Orders = {o1}
  Callers = {c1}
  Qty = 1
  MaxCalls = 1
  MaxCrashes = 0
SPECIFICATION Spec
PROPERTY ConvergesAlone
