----------------------------- MODULE MCOrderStore -----------------------------
(* Model checking of OrderStore: a buy and a sell order of one inventory,    *)
(* two concurrent callers.                                                   *)
EXTENDS OrderStore

CONSTANTS buy1, sell1, w1, w2

MCOrders      == {buy1, sell1}
MCWorkers     == {w1, w2}
MCInventories == {"inv"}
MCSideOf      == [o \in MCOrders |-> IF o = sell1 THEN "sell" ELSE "buy"]
MCInventoryOf == [o \in MCOrders |-> "inv"]

Ev(status, filled, venueOrderID, fillID, at) ==
  [status |-> status, filledQty |-> filled, venueOrderID |-> venueOrderID,
   venueFillID |-> fillID, at |-> at]

\* An ack, a late pending report with the venue's ID, two partial fills and a
\* full fill of which two share a fill ID, and a cancel whose quantity lags.
MCEvents == {Ev("open", 0, "v1", None, 2),
             Ev("pending", 0, "v2", None, 1),
             Ev("partially_filled", 1, None, "f1", 2),
             Ev("filled", 2, None, "f1", 1),
             Ev("canceled", 0, "v1", None, 2)}
===============================================================================
