CONSTANTS
  Qty = 3
  MaxLots = 3
  MaxQty = 3
  Times = {1, 2}
  Prices = {0, 2, 5}
  Scale = 10
SPECIFICATION RulesSpec
INVARIANTS OrderIndependent AgreesOnceTold SelectIsFifo AverageAgrees
