----------------------------- MODULE AtomicOrders -----------------------------
(***************************************************************************)
(* What the order store promises its callers (ports/store.go): the orders  *)
(* table changes as if every call were one atomic step.  OrderStore        *)
(* implements this specification; OrderFlow uses its operators for the     *)
(* store calls of the services.                                            *)
(***************************************************************************)
EXTENDS OrderMachine

CONSTANTS Orders,      \* client order IDs
          Events       \* the events that can be applied

VARIABLE orders        \* orders[o]: the row of o, or NoRow

None == "none"         \* an absent venue order ID
NoRow == [status |-> None]  \* no row in orders for this client order ID

\* A row as CreatePending inserts it.
PendingRow == [status |-> "pending", filledQty |-> 0, venueOrderID |-> None,
               cancelRequested |-> FALSE]

\* The row after an event: the state machine's verdict, and the first venue
\* order ID to arrive, even with an event whose state is dropped.
Applied(row, ev) ==
  LET s == Apply([status |-> row.status, filledQty |-> row.filledQty], ev)
  IN  [status |-> s.status,
       filledQty |-> s.filledQty,
       venueOrderID |-> IF row.venueOrderID # None THEN row.venueOrderID
                        ELSE ev.venueOrderID,
       cancelRequested |-> row.cancelRequested]

Init == orders = [o \in Orders |-> NoRow]

CreatePending(o) == /\ orders[o] = NoRow
                    /\ orders' = [orders EXCEPT ![o] = PendingRow]

MarkCancelRequested(o) ==
  /\ orders[o] # NoRow
  /\ orders' = [orders EXCEPT ![o] = [orders[o] EXCEPT !.cancelRequested = TRUE]]

ApplyEvent(o, ev) == /\ orders[o] # NoRow
                     /\ orders' = [orders EXCEPT ![o] = Applied(orders[o], ev)]

Next == \E o \in Orders : \/ CreatePending(o)
                          \/ MarkCancelRequested(o)
                          \/ \E ev \in Events : ApplyEvent(o, ev)

Spec == Init /\ [][Next]_orders
===============================================================================
