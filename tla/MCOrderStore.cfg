CONSTANTS
  buy1 = buy1
  sell1 = sell1
  w1 = w1
  w2 = w2
  Orders <- MCOrders
  Workers <- MCWorkers
  Inventories <- MCInventories
  SideOf <- MCSideOf
  InventoryOf <- MCInventoryOf
  Events <- MCEvents
  MaxApplies = 3
SPECIFICATION Spec
INVARIANTS AuditTrail FillsTellTheQuantity OutboxTellsEverything LedgerConserved
PROPERTIES OversellOnlyWhenEmpty AtomicSpec EveryApplyEnds
