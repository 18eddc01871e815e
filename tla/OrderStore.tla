------------------------------ MODULE OrderStore ------------------------------
(***************************************************************************)
(* The Postgres order store (internal/adapters/postgres/orders.go and      *)
(* ledger.go) under concurrent callers.  Each caller of ApplyEvent is a    *)
(* worker that runs one transaction at a time, one SQL step per action;    *)
(* its writes stay private until Commit makes them visible at once, and    *)
(* Abort (a database error, a cancelled context, a crash of the daemon) discards *)
(* them.  Isolation is READ COMMITTED, pgx's default: a statement sees     *)
(* what is committed when it runs.                                         *)
(*                                                                         *)
(* Two locks order the transactions: the order row (SELECT ... FOR UPDATE) *)
(* and, for a fill, the advisory lock of the inventory.  Both are held to  *)
(* the end of the transaction.  The FOR UPDATE locks on lots are implied   *)
(* by the inventory lock, which every writer of lots holds.                *)
(*                                                                         *)
(* Venue order IDs are names local to an order: equal names of two orders  *)
(* are different IDs, so the unique index on (venue, venue_order_id) is    *)
(* never hit; a venue that did reuse an ID would make the statement fail,  *)
(* which is Abort.                                                         *)
(***************************************************************************)
EXTENDS OrderMachine, FifoLedger, FiniteSetsExt

CONSTANTS
  Orders,          \* client order IDs
  Workers,         \* concurrent callers of ApplyEvent
  Inventories,     \* (bot, venue, base, quote) tuples
  SideOf,          \* SideOf[o]: "buy" or "sell"
  InventoryOf,     \* InventoryOf[o]: the tuple the order trades
  Events,          \* the events callers may apply
  MaxApplies       \* bound: transactions begun in one behaviour

None == "none"     \* an absent venue order ID or venue fill ID
NoRow == [status |-> None]  \* no row in orders for this client order ID
NoCall == [order |-> None]
NoWrites == [tr |-> None]
Free == "free"     \* an unheld lock

ASSUME StoreAssumption ==
  /\ SideOf \in [Orders -> {"buy", "sell"}]
  /\ InventoryOf \in [Orders -> Inventories]
  /\ Free \notin Workers
  /\ MaxApplies \in Nat
  /\ \A ev \in Events : /\ ev.status \in Status
                        /\ ev.filledQty \in Nat
                        /\ ev.at \in Nat

VARIABLES
  orders,          \* orders[o]: the committed row, or NoRow
  transitions,     \* transitions[o]: committed order_transitions rows
  fills,           \* fills[o]: committed fills rows
  lots,            \* lots[i]: committed lots of inventory i, by lot ID
  closures,        \* committed lot_closures rows
  unmatched,       \* committed unmatched_sells rows
  outbox,          \* committed outbox rows
  outboxSeq,       \* the outbox identity sequence: ids are burnt by aborts
  rowLock,         \* rowLock[o]: the worker holding the order row, or Free
  invLock,         \* invLock[i]: the worker holding the inventory, or Free
  pc,              \* pc[w]: the next step of worker w's transaction
  call,            \* call[w]: the order and event w applies
  read,            \* read[w]: the row as read under the row lock
  writes,          \* writes[w]: uncommitted transition and fill rows
  posting,         \* posting[w]: uncommitted ledger rows
  staged,          \* staged[w]: uncommitted outbox rows
  applies          \* transactions begun so far

orderVars  == <<transitions, fills>>
ledgerVars == <<lots, closures, unmatched>>
outboxVars == <<outbox, outboxSeq>>
lockVars   == <<rowLock, invLock>>
txVars     == <<call, read, writes, posting, staged>>
vars == <<orders, orderVars, ledgerVars, outboxVars, lockVars, pc, txVars,
          applies>>

VenueOrderIDs == {ev.venueOrderID : ev \in Events} \cup {None}

Row == [status : Status, filledQty : Nat, venueOrderID : VenueOrderIDs,
        cancelRequested : BOOLEAN]

StateOf(row) == [status |-> row.status, filledQty |-> row.filledQty]

\* What worker w's transaction decided about the row it read.
DecisionOf(w) == Transition(StateOf(read[w]), call[w].ev)

NoPosting == [opened |-> <<>>, closed |-> <<>>, unmatched |-> 0]

Init == /\ orders = [o \in Orders |-> NoRow]
        /\ transitions = [o \in Orders |-> <<>>]
        /\ fills = [o \in Orders |-> <<>>]
        /\ lots = [i \in Inventories |-> <<>>]
        /\ closures = {}
        /\ unmatched = {}
        /\ outbox = {}
        /\ outboxSeq = 0
        /\ rowLock = [o \in Orders |-> Free]
        /\ invLock = [i \in Inventories |-> Free]
        /\ pc = [w \in Workers |-> "idle"]
        /\ call = [w \in Workers |-> NoCall]
        /\ read = [w \in Workers |-> NoRow]
        /\ writes = [w \in Workers |-> NoWrites]
        /\ posting = [w \in Workers |-> NoPosting]
        /\ staged = [w \in Workers |-> {}]
        /\ applies = 0

--------------------------------------------------------------------------------
(* The command side: single statements. *)

\* INSERT ... ON CONFLICT DO NOTHING: a second insert of the ID changes nothing.
CreatePending(o) ==
  /\ orders[o] = NoRow
  /\ orders' = [orders EXCEPT ![o] =
                  [status |-> "pending", filledQty |-> 0,
                   venueOrderID |-> None, cancelRequested |-> FALSE]]
  /\ UNCHANGED <<orderVars, ledgerVars, outboxVars, lockVars, pc, txVars,
                 applies>>

\* An UPDATE waits for the row lock like any other writer of the row.
MarkCancelRequested(o) ==
  /\ orders[o] # NoRow
  /\ rowLock[o] = Free
  /\ orders' = [orders EXCEPT ![o] = [orders[o] EXCEPT !.cancelRequested = TRUE]]
  /\ UNCHANGED <<orderVars, ledgerVars, outboxVars, lockVars, pc, txVars,
                 applies>>

--------------------------------------------------------------------------------
(* ApplyEvent. *)

\* Mutant of End: the inventory lock outlives the transaction, as a
\* session-level advisory lock would.
EndKeepsInventory(w) ==
  /\ rowLock' = [o \in Orders |-> IF rowLock[o] = w THEN Free ELSE rowLock[o]]
  /\ UNCHANGED invLock
  /\ pc' = [pc EXCEPT ![w] = "idle"]
  /\ call' = [call EXCEPT ![w] = NoCall]
  /\ read' = [read EXCEPT ![w] = NoRow]
  /\ writes' = [writes EXCEPT ![w] = NoWrites]
  /\ posting' = [posting EXCEPT ![w] = NoPosting]
  /\ staged' = [staged EXCEPT ![w] = {}]

\* The end of a transaction, either way, frees its locks and forgets its work.
End(w) ==
  /\ rowLock' = [o \in Orders |-> IF rowLock[o] = w THEN Free ELSE rowLock[o]]
  /\ invLock' = [i \in Inventories |->
                   IF invLock[i] = w THEN Free ELSE invLock[i]]
  /\ pc' = [pc EXCEPT ![w] = "idle"]
  /\ call' = [call EXCEPT ![w] = NoCall]
  /\ read' = [read EXCEPT ![w] = NoRow]
  /\ writes' = [writes EXCEPT ![w] = NoWrites]
  /\ posting' = [posting EXCEPT ![w] = NoPosting]
  /\ staged' = [staged EXCEPT ![w] = {}]

Begin(w, o, ev) ==
  /\ pc[w] = "idle"
  /\ applies < MaxApplies
  /\ applies' = applies + 1
  /\ pc' = [pc EXCEPT ![w] = "lock"]
  /\ call' = [call EXCEPT ![w] = [order |-> o, ev |-> ev]]
  /\ UNCHANGED <<orders, orderVars, ledgerVars, outboxVars, lockVars,
                 read, writes, posting, staged>>

\* GetOrderForUpdate finds no row: ErrNotFound.
OrderNotFound(w) ==
  /\ pc[w] = "lock"
  /\ orders[call[w].order] = NoRow
  /\ End(w)
  /\ UNCHANGED <<orders, orderVars, ledgerVars, outboxVars, applies>>

\* Mutant of LockOrder: a plain SELECT, which does not wait for the row.
ReadOrder(w) ==
  LET o == call[w].order
  IN  /\ pc[w] = "lock"
      /\ orders[o] # NoRow
      /\ read' = [read EXCEPT ![w] = orders[o]]
      /\ pc' = [pc EXCEPT ![w] = "decide"]
      /\ UNCHANGED <<orders, orderVars, ledgerVars, outboxVars, lockVars, call,
                     writes, posting, staged, applies>>

\* GetOrderForUpdate waits for the row, then reads its latest committed version.
LockOrder(w) ==
  LET o == call[w].order
  IN  /\ pc[w] = "lock"
      /\ orders[o] # NoRow
      /\ rowLock[o] = Free
      /\ rowLock' = [rowLock EXCEPT ![o] = w]
      /\ read' = [read EXCEPT ![w] = orders[o]]
      /\ pc' = [pc EXCEPT ![w] = "decide"]
      /\ UNCHANGED <<orders, orderVars, ledgerVars, outboxVars, invLock, call,
                     writes, posting, staged, applies>>

\* Nothing to persist, except a venue order ID the row still lacks.
AdoptVenueOrderID(w) ==
  LET o  == call[w].order
      id == call[w].ev.venueOrderID
  IN  /\ pc[w] = "decide"
      /\ ~Carries(DecisionOf(w))
      /\ orders' = IF read[w].venueOrderID = None /\ id # None
                   THEN [orders EXCEPT ![o] =
                           [orders[o] EXCEPT !.venueOrderID = id]]
                   ELSE orders
      /\ End(w)
      /\ UNCHANGED <<orderVars, ledgerVars, outboxVars, applies>>

\* InsertTransition numbers the row after the last committed one of the order.
TransitionRow(w) ==
  [seq       |-> Len(transitions[call[w].order]) + 1,
   from      |-> read[w].status,
   to        |-> DecisionOf(w).to,
   filledQty |-> read[w].filledQty + DecisionOf(w).fillDelta]

\* Mutant of FillRow: the row records the event's cumulative quantity.
FillRowCumulative(w) ==
  LET o == call[w].order
  IN  IF DecisionOf(w).fillDelta = 0 THEN <<>>
      ELSE <<[seq |-> Len(transitions[o]) + 1,
              qty |-> call[w].ev.filledQty,
              venueFillID |-> None]>>

\* InsertFill: a venue fill ID the order already has is left out, the quantity
\* is not.  A fill is named by the seq of its transition.
FillRow(w) ==
  LET o  == call[w].order
      id == call[w].ev.venueFillID
      conflict == \E n \in 1 .. Len(fills[o]) : fills[o][n].venueFillID = id
  IN  IF DecisionOf(w).fillDelta = 0 THEN <<>>
      ELSE <<[seq |-> Len(transitions[o]) + 1,
              qty |-> DecisionOf(w).fillDelta,
              venueFillID |-> IF conflict THEN None ELSE id]>>

\* The first half of persistDecision: the transition row and the fill row.
InsertTransition(w) ==
  /\ pc[w] = "decide"
  /\ Carries(DecisionOf(w))
  /\ writes' = [writes EXCEPT ![w] = [tr |-> TransitionRow(w),
                                      fill |-> FillRow(w)]]
  /\ pc' = [pc EXCEPT ![w] = IF DecisionOf(w).fillDelta > 0
                             THEN "inventory" ELSE "update"]
  /\ UNCHANGED <<orders, orderVars, ledgerVars, outboxVars, lockVars, call,
                 read, posting, staged, applies>>

\* Mutant of LockInventory: no lock is taken before the lots are read.
SkipInventoryLock(w) ==
  /\ pc[w] = "inventory"
  /\ pc' = [pc EXCEPT ![w] = "post"]
  /\ UNCHANGED <<orders, orderVars, ledgerVars, outboxVars, lockVars, txVars,
                 applies>>

\* pg_advisory_xact_lock on the inventory key.
LockInventory(w) ==
  LET i == InventoryOf[call[w].order]
  IN  /\ pc[w] = "inventory"
      /\ invLock[i] = Free
      /\ invLock' = [invLock EXCEPT ![i] = w]
      /\ pc' = [pc EXCEPT ![w] = "post"]
      /\ UNCHANGED <<orders, orderVars, ledgerVars, outboxVars, rowLock, txVars,
                     applies>>

\* A buy opens a lot of the whole fill.
OpenLot(w) ==
  LET fill == writes[w].fill[1]
  IN  /\ pc[w] = "post"
      /\ SideOf[call[w].order] = "buy"
      /\ posting' = [posting EXCEPT ![w] =
                       [opened |-> <<[order |-> call[w].order, seq |-> fill.seq,
                                      qty |-> fill.qty, remainingQty |-> fill.qty,
                                      openedAt |-> call[w].ev.at]>>,
                        closed |-> <<>>, unmatched |-> 0]]
      /\ pc' = [pc EXCEPT ![w] = "update"]
      /\ UNCHANGED <<orders, orderVars, ledgerVars, outboxVars, lockVars, call,
                     read, writes, staged, applies>>

\* ListOpenLotsForUpdate: the committed lots with something left.  A lot's ID
\* is its place in the inventory.  The code's ULIDs need not rise within one
\* millisecond (id.go:18), but IDs only break ties between lots with the same
\* openedAt, and no property here depends on which of those goes first.
OpenLots(i) ==
  {[id |-> n, openedAt |-> lots[i][n].openedAt,
    remainingQty |-> lots[i][n].remainingQty] :
      n \in {m \in 1 .. Len(lots[i]) : lots[i][m].remainingQty > 0}}

\* A sell closes lots oldest first; what no lot covers is recorded, with an
\* outbox row of its own.
CloseLots(w) ==
  LET o     == call[w].order
      alloc == Select(OpenLots(InventoryOf[o]), writes[w].fill[1].qty)
      over  == alloc.unmatched > 0
  IN  /\ pc[w] = "post"
      /\ SideOf[o] = "sell"
      /\ posting' = [posting EXCEPT ![w] =
                       [opened |-> <<>>, closed |-> alloc.closures,
                        unmatched |-> alloc.unmatched]]
      /\ outboxSeq' = IF over THEN outboxSeq + 1 ELSE outboxSeq
      /\ staged' = [staged EXCEPT ![w] =
                      IF over THEN {[id |-> outboxSeq + 1, order |-> o,
                                     subject |-> "ledger.unmatched_sell",
                                     seq |-> writes[w].tr.seq,
                                     qty |-> alloc.unmatched]}
                      ELSE {}]
      /\ pc' = [pc EXCEPT ![w] = "update"]
      /\ UNCHANGED <<orders, orderVars, ledgerVars, outbox, lockVars, call,
                     read, writes, applies>>

\* Mutant of EventOutbox: a fill without a status change, such as one that
\* arrives after the cancel, is not announced.
EventOutboxOnTransition(w) ==
  LET row(n, subject, qty) ==
        [id |-> outboxSeq + n, order |-> call[w].order, subject |-> subject,
         seq |-> writes[w].tr.seq, qty |-> qty]
  IN  IF DecisionOf(w).transition /\ DecisionOf(w).fillDelta > 0
      THEN {row(1, "order.updated", writes[w].tr.filledQty),
            row(2, "order.filled", DecisionOf(w).fillDelta)}
      ELSE {row(1, "order.updated", writes[w].tr.filledQty)}

\* insertEventOutbox: order.updated, then order.filled when there is a fill.
EventOutbox(w) ==
  LET row(n, subject, qty) ==
        [id |-> outboxSeq + n, order |-> call[w].order, subject |-> subject,
         seq |-> writes[w].tr.seq, qty |-> qty]
  IN  IF DecisionOf(w).fillDelta > 0
      THEN {row(1, "order.updated", writes[w].tr.filledQty),
            row(2, "order.filled", DecisionOf(w).fillDelta)}
      ELSE {row(1, "order.updated", writes[w].tr.filledQty)}

\* The second half of persistDecision: the row update (UpdatedRow, visible at
\* Commit) and the outbox rows.
InsertEventOutbox(w) ==
  /\ pc[w] = "update"
  /\ outboxSeq' = outboxSeq + (IF DecisionOf(w).fillDelta > 0 THEN 2 ELSE 1)
  /\ staged' = [staged EXCEPT ![w] = staged[w] \cup EventOutbox(w)]
  /\ pc' = [pc EXCEPT ![w] = "commit"]
  /\ UNCHANGED <<orders, orderVars, ledgerVars, outbox, lockVars, call, read,
                 writes, posting, applies>>

\* Mutant of UpdatedRow: the event's venue order ID replaces the stored one.
UpdatedRowLastID(w) ==
  [status |-> writes[w].tr.to,
   filledQty |-> writes[w].tr.filledQty,
   venueOrderID |-> call[w].ev.venueOrderID,
   cancelRequested |-> orders[call[w].order].cancelRequested]

\* ApplyOrderUpdate: the first venue order ID stays, the cancel intent too.
UpdatedRow(w) ==
  LET row == orders[call[w].order]
  IN  [status |-> writes[w].tr.to,
       filledQty |-> writes[w].tr.filledQty,
       venueOrderID |-> IF row.venueOrderID # None THEN row.venueOrderID
                        ELSE call[w].ev.venueOrderID,
       cancelRequested |-> row.cancelRequested]

\* DecrementLot for each closure; a sell closes a lot at most once.
Decremented(ls, closed) ==
  [n \in 1 .. Len(ls) |->
     IF \E k \in 1 .. Len(closed) : closed[k].lot = n
     THEN [ls[n] EXCEPT !.remainingQty =
             @ - closed[CHOOSE k \in 1 .. Len(closed) : closed[k].lot = n].qty]
     ELSE ls[n]]

\* Everything the transaction wrote becomes visible together.
Commit(w) ==
  LET o    == call[w].order
      i    == InventoryOf[o]
      p    == posting[w]
      name == [order |-> o, seq |-> writes[w].tr.seq]
  IN  /\ pc[w] = "commit"
      /\ orders' = [orders EXCEPT ![o] = UpdatedRow(w)]
      /\ transitions' = [transitions EXCEPT ![o] = Append(@, writes[w].tr)]
      /\ fills' = [fills EXCEPT ![o] = @ \o writes[w].fill]
      /\ lots' = [lots EXCEPT ![i] = Decremented(@, p.closed) \o p.opened]
      /\ closures' = closures \cup
           {[inventory |-> i, lot |-> p.closed[k].lot, fill |-> name,
             qty |-> p.closed[k].qty] : k \in 1 .. Len(p.closed)}
      /\ unmatched' = IF p.unmatched > 0
                      THEN unmatched \cup {[fill |-> name, qty |-> p.unmatched]}
                      ELSE unmatched
      /\ outbox' = outbox \cup staged[w]
      /\ End(w)
      /\ UNCHANGED <<outboxSeq, applies>>

\* A statement or the commit fails, the caller's context ends, or the daemon
\* dies: Postgres rolls the transaction back.
Abort(w) ==
  /\ pc[w] # "idle"
  /\ End(w)
  /\ UNCHANGED <<orders, orderVars, ledgerVars, outboxVars, applies>>

Step(w) == \/ OrderNotFound(w) \/ LockOrder(w) \/ AdoptVenueOrderID(w)
           \/ InsertTransition(w) \/ LockInventory(w) \/ OpenLot(w)
           \/ CloseLots(w) \/ InsertEventOutbox(w) \/ Commit(w)

Next == \/ \E o \in Orders : CreatePending(o) \/ MarkCancelRequested(o)
        \/ \E w \in Workers : \/ Step(w)
                              \/ Abort(w)
                              \/ \E o \in Orders, ev \in Events : Begin(w, o, ev)

\* A begun transaction keeps executing: Postgres grants a free lock to some
\* waiter and the driver issues the next statement.  Nothing obliges a caller
\* to begin one, or a transaction to fail.
Fairness == \A w \in Workers : WF_vars(Step(w))

Spec == Init /\ [][Next]_vars /\ Fairness

--------------------------------------------------------------------------------
(* Properties. *)

FillRows == [seq : Nat, qty : Nat,
             venueFillID : {ev.venueFillID : ev \in Events} \cup {None}]
TransitionRows == [seq : Nat, from : Status, to : Status, filledQty : Nat]

PastLock == {"decide", "inventory", "post", "update", "commit"}
PastInsert == PastLock \ {"decide"}

\* Tables, locks and transactions in flight have their types; no quantity in
\* them is ever negative.
TypeOK ==
  /\ orders \in [Orders -> Row \cup {NoRow}]
  /\ transitions \in [Orders -> Seq(TransitionRows)]
  /\ fills \in [Orders -> Seq(FillRows)]
  /\ outboxSeq \in Nat
  /\ rowLock \in [Orders -> Workers \cup {Free}]
  /\ invLock \in [Inventories -> Workers \cup {Free}]
  /\ pc \in [Workers -> PastLock \cup {"idle", "lock"}]
  /\ call \in [Workers -> [order : Orders, ev : Events] \cup {NoCall}]
  /\ read \in [Workers -> Row \cup {NoRow}]
  /\ writes \in [Workers -> [tr : TransitionRows, fill : Seq(FillRows)]
                             \cup {NoWrites}]
  /\ applies \in Nat

\* The state of order o before its n-th transition.
StateBefore(o, n) ==
  IF n = 1 THEN [status |-> "pending", filledQty |-> 0]
  ELSE [status |-> transitions[o][n - 1].to,
        filledQty |-> transitions[o][n - 1].filledQty]

\* order_transitions is the complete history of every row, whatever the
\* interleaving of ack, stream and reconcile: numbered without gap or
\* duplicate, each row starting where the one before it ended, never
\* un-filling, never lowering the rank, never leaving a terminal status, and
\* ending in the status and quantity of the orders row.
AuditTrail ==
  \A o \in Orders :
    /\ \A k \in 1 .. Len(transitions[o]) :
         LET before == StateBefore(o, k)
             t      == transitions[o][k]
         IN  /\ t.seq = k
             /\ t.from = before.status
             /\ t.filledQty >= before.filledQty
             /\ Rank(t.to) >= Rank(t.from)
             /\ Terminal(t.from) => t.to = t.from
             /\ t.to # t.from \/ t.filledQty > before.filledQty
    /\ orders[o] = NoRow => transitions[o] = <<>>
    /\ orders[o] # NoRow =>
         StateOf(orders[o]) = StateBefore(o, Len(transitions[o]) + 1)

\* Execution facts are never lost and never counted twice: an order's fills
\* rows are, in order, the quantities by which its transitions raised the
\* cumulative fill, also when the venue reuses a fill ID (persistDecision's
\* conflict branch).  They therefore add up to orders.filled_qty.
FillsTellTheQuantity ==
  \A o \in Orders :
    /\ \A n \in 1 .. Len(fills[o]) :
         LET f == fills[o][n]
         IN  /\ f.seq \in 1 .. Len(transitions[o])
             /\ f.qty > 0
             /\ f.qty = transitions[o][f.seq].filledQty
                          - StateBefore(o, f.seq).filledQty
    /\ \A m, n \in 1 .. Len(fills[o]) :
         m < n => fills[o][m].seq < fills[o][n].seq
    /\ \A k \in 1 .. Len(transitions[o]) :
         transitions[o][k].filledQty > StateBefore(o, k).filledQty
           => \E n \in 1 .. Len(fills[o]) : fills[o][n].seq = k
    /\ \A m, n \in 1 .. Len(fills[o]) :
         m # n /\ fills[o][m].venueFillID # None
           => fills[o][m].venueFillID # fills[o][n].venueFillID

\* The transactional outbox: every committed transition has one order.updated
\* row, every committed fill one order.filled row, every unmatched sell one
\* ledger.unmatched_sell row, there are no others, and an order's rows have
\* ids in the order of its transitions, so a relay in id order tells its story
\* in order.
OutboxTellsEverything ==
  /\ \A r, s \in outbox :
       /\ r # s => /\ r.id # s.id
                   /\ \/ r.subject # s.subject
                      \/ r.order # s.order
                      \/ r.seq # s.seq
       /\ r.order = s.order /\ r.id < s.id => r.seq <= s.seq
  /\ {<<r.order, r.seq, r.qty>> :
        r \in {x \in outbox : x.subject = "order.updated"}}
       = UNION {{<<o, k, transitions[o][k].filledQty>> :
                   k \in 1 .. Len(transitions[o])} : o \in Orders}
  /\ {<<r.order, r.seq, r.qty>> :
        r \in {x \in outbox : x.subject = "order.filled"}}
       = UNION {{<<o, fills[o][n].seq, fills[o][n].qty>> :
                   n \in 1 .. Len(fills[o])} : o \in Orders}
  /\ {<<r.order, r.seq, r.qty>> :
        r \in {x \in outbox : x.subject = "ledger.unmatched_sell"}}
       = {<<u.fill.order, u.fill.seq, u.qty>> : u \in unmatched}

\* The ledger accounts for every executed unit exactly once: a buy fill is one
\* lot of its quantity; what a lot has lost was closed by recorded sells; and a
\* sell fill is its closures plus its unmatched remainder, whatever other
\* transactions on the inventory did meanwhile.
LedgerConserved ==
  LET Filled(side) == UNION {{<<o, fills[o][n].seq, fills[o][n].qty>> :
                               n \in 1 .. Len(fills[o])} :
                               o \in {x \in Orders : SideOf[x] = side}}
      Qty(S)       == MapThenSumSet(LAMBDA r : r.qty, S)
      LotIDs       == UNION {{<<i, n>> : n \in 1 .. Len(lots[i])} :
                               i \in Inventories}
      LotAt(id)    == lots[id[1]][id[2]]
      Sold(fill)   == {c \in closures : c.fill = fill}
      Over(fill)   == {u \in unmatched : u.fill = fill}
  IN  /\ {<<LotAt(id).order, LotAt(id).seq, LotAt(id).qty>> : id \in LotIDs}
           = Filled("buy")
      /\ Cardinality(LotIDs) = Cardinality(Filled("buy"))
      /\ \A id \in LotIDs :
           /\ LotAt(id).remainingQty >= 0
           /\ LotAt(id).qty = LotAt(id).remainingQty
                + Qty({c \in closures : <<c.inventory, c.lot>> = id})
      /\ \A f \in Filled("sell") :
           LET name == [order |-> f[1], seq |-> f[2]]
           IN  Qty(Sold(name)) + Qty(Over(name)) = f[3]
      /\ \A r \in closures \cup unmatched :
           \E f \in Filled("sell") : r.fill = [order |-> f[1], seq |-> f[2]]

\* A sell is recorded as unmatched only if, at its commit, the inventory has
\* nothing left to sell: no concurrent buy can be missed ("the ledger
\* concurrency races", manual-trading.md:345).
OversellOnlyWhenEmpty ==
  [][\A u \in unmatched' \ unmatched :
       \A n \in 1 .. Len(lots'[InventoryOf[u.fill.order]]) :
         lots'[InventoryOf[u.fill.order]][n].remainingQty = 0]_unmatched

Atomic == INSTANCE AtomicOrders WITH Orders <- Orders, Events <- Events,
                                    orders <- orders

\* The store behaves as if every call of CreatePending, MarkCancelRequested and
\* ApplyEvent were one atomic step on the orders table, whatever transactions
\* overlap and abort ("in a single transaction", ports/store.go:59).
AtomicSpec == Atomic!Spec

\* Every transaction ends: the two locks are always taken in the same order
\* and always released, so callers never wait on each other forever.
EveryApplyEnds == \A w \in Workers : pc[w] # "idle" ~> pc[w] = "idle"
===============================================================================
