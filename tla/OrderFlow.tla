------------------------------- MODULE OrderFlow -------------------------------
(***************************************************************************)
(* Orders from the API call to agreement with the venue: the order service *)
(* (internal/service/order), the reconciliation loop of one venue          *)
(* (internal/service/reconcile) and the venue itself, which is external.   *)
(*                                                                         *)
(* Store calls are the atomic steps of AtomicOrders (OrderStore shows that *)
(* the Postgres store implements it).  Between two store or venue calls of *)
(* a Place, a Cancel or a reconciliation pass anything may happen: other   *)
(* calls on the same order, stream events, late requests reaching the      *)
(* venue, or a crash of the daemon, which keeps only the orders table.     *)
(***************************************************************************)
EXTENDS OrderMachine, FiniteSets

CONSTANTS
  Orders,         \* client order IDs
  Callers,        \* concurrent API calls
  Qty,            \* quantity of every order
  MaxCalls,       \* bound: Place and Cancel calls in one behaviour
  MaxCrashes      \* bound: daemon crashes in one behaviour

ASSUME FlowAssumption ==
  /\ Qty \in Nat \ {0}
  /\ MaxCalls \in Nat /\ MaxCrashes \in Nat

VenueID == "venue id"   \* the ID the venue gives an order

VARIABLES
  orders,         \* orders[o]: the stored row, or NoRow
  aged,           \* orders older than reconciliation's grace period
  caller,         \* caller[c]: the Place or Cancel call c is executing
  calls,          \* API calls begun
  venue,          \* venue[o]: [status, filledQty] at the venue, or NoOrder
  inflight,       \* submits that may still reach the venue
  stream,         \* reports sent on the private stream of this process
  recPc,          \* step of the reconciliation loop
  snap,           \* snap[o]: o in the OpenOrders answer, or NoOrder
  local,          \* local[o]: o in the ListActiveOrders answer, or NoRow
  todo,           \* local orders this pass has still to reconcile
  got,            \* the GetOrder answer about to be applied, or NoAnswer
  orphans,        \* own orders a pass has reported as reconcile.orphan
  refused,        \* orders a Place call settled as rejected by itself
  bare,           \* orders whose row was closed by a report without a quantity
  creds,          \* can this process authenticate at the venue?
  crashes         \* daemon deaths so far

Events == [status : Status, filledQty : 0 .. Qty, venueOrderID : {"none", VenueID}]

Store == INSTANCE AtomicOrders WITH Orders <- Orders, Events <- Events,
                                   orders <- orders

NoRow   == Store!NoRow
NoID    == Store!None
NoOrder == [status |-> "absent", filledQty |-> 0]
NoAnswer == [order |-> "none"]

callVars  == <<caller, calls>>
venueVars == <<venue, inflight, stream>>
passVars  == <<recPc, snap, local, todo, got, orphans>>
ownVars   == <<refused, bare>>      \* history: only the properties read it
procVars  == <<creds, crashes>>
vars == <<orders, aged, callVars, venueVars, passVars, ownVars, procVars>>

IdleCall == [pc |-> "idle", order |-> "none", ack |-> "none"]

Live(v) == v # NoOrder /\ ~Terminal(v.status)

\* toEvent and toSnapshot: what the venue reports of an order as the event the
\* store is given.  A status GCT knows and toStatus does not map makes no event:
\* the stream never delivers the report, OpenOrders fails as a whole (no
\* pass begins) and GetOrder fails for the order (PassSkips).
EventOf(v) == [status |-> v.status, filledQty |-> v.filledQty,
               venueOrderID |-> VenueID]

Init == /\ orders = [o \in Orders |-> NoRow]
        /\ aged = {}
        /\ caller = [c \in Callers |-> IdleCall]
        /\ calls = 0
        /\ venue = [o \in Orders |-> NoOrder]
        /\ inflight = {}
        /\ stream = {}
        /\ recPc = "idle"
        /\ snap = [o \in Orders |-> NoOrder]
        /\ local = [o \in Orders |-> NoRow]
        /\ todo = {}
        /\ got = NoAnswer
        /\ orphans = {}
        /\ refused = {}
        /\ bare = {}
        /\ creds \in BOOLEAN
        /\ crashes = 0

--------------------------------------------------------------------------------
(* The venue (external). *)

\* The client order ID is the idempotency key: a second submit of it creates
\* nothing (ports/trading.go:14).  The order enters the book, executes at once
\* or is turned down.
Accepted(o, v) == venue' = [venue EXCEPT ![o] = v]

VenueState == [status : Status \ {"pending"}, filledQty : 0 .. Qty]

\* It may also execute in part, and be cancelled or expire there and then (an
\* order that must execute immediately).
FirstStates ==
  {v \in VenueState :
     CASE v.status \in {"open", "rejected"}    -> v.filledQty = 0
       [] v.status = "partially_filled"        -> v.filledQty \in 1 .. Qty - 1
       [] v.status = "filled"                  -> v.filledQty = Qty
       [] v.status \in {"canceled", "expired"} -> v.filledQty < Qty}

\* What the venue says of an order: its state, but several venues' cancel
\* confirmations do not echo the execution (manual-trading.md:126).
Reports(v) == {v} \cup IF v.status = "canceled"
                       THEN {[v EXCEPT !.filledQty = 0]} ELSE {}

\* The venue tells the private stream.
Tells(o, v) == \E r \in Reports(v) :
                 stream' = stream \cup {[order |-> o, of |-> r]}

\* A submit whose caller saw an error reaches the venue after all.
VenueAcceptsLate(o) ==
  /\ o \in inflight
  /\ inflight' = inflight \ {o}
  /\ IF venue[o] = NoOrder
     THEN \E v \in FirstStates : /\ Accepted(o, v)
                                 /\ Tells(o, v)
     ELSE UNCHANGED <<venue, stream>>
  /\ UNCHANGED <<orders, aged, callVars, passVars, ownVars, procVars>>

\* More of the order executes.
Fillings(v) == {[status |-> IF q = Qty THEN "filled" ELSE "partially_filled",
                 filledQty |-> q] : q \in v.filledQty + 1 .. Qty}

\* The order leaves the book: it expires or is cancelled, here or elsewhere.
Closings(v) == [status : {"canceled", "expired"}, filledQty : {v.filledQty}]

VenueMoves(o) ==
  /\ Live(venue[o])
  /\ \E v \in Fillings(venue[o]) \cup Closings(venue[o]) :
       /\ venue' = [venue EXCEPT ![o] = v]
       /\ Tells(o, v)
  /\ UNCHANGED <<orders, aged, callVars, inflight, passVars, ownVars, procVars>>

--------------------------------------------------------------------------------
(* The order service. *)

\* History: an event that closes the row of o without a quantity.
NotesBare(o, ev) ==
  bare' = IF /\ ~Terminal(orders[o].status)
             /\ Terminal(ev.status) /\ ev.filledQty = 0
          THEN bare \cup {o} ELSE bare

Goto(c, pc) == caller' = [caller EXCEPT ![c].pc = pc]
Return(c)   == caller' = [caller EXCEPT ![c] = IdleCall]

\* Mutant of Place: the order is submitted before its row is inserted.
PlaceWithoutRow(c, o) ==
  /\ caller[c].pc = "idle"
  /\ calls < MaxCalls
  /\ calls' = calls + 1
  /\ caller' = [caller EXCEPT ![c] = [pc |-> "submit", order |-> o,
                                      ack |-> "none"]]
  /\ UNCHANGED <<orders, aged, venueVars, passVars, ownVars, procVars>>

\* preparePlace with a configured venue: CreatePending.
Place(c, o) ==
  /\ caller[c].pc = "idle"
  /\ calls < MaxCalls
  /\ calls' = calls + 1
  /\ caller' = [caller EXCEPT ![c] =
                  [pc |-> IF orders[o] = NoRow THEN "submit" ELSE "lookup",
                   order |-> o, ack |-> "none"]]
  /\ orders' = IF orders[o] = NoRow
               THEN [orders EXCEPT ![o] = Store!PendingRow] ELSE orders
  /\ UNCHANGED <<aged, venueVars, passVars, ownVars, procVars>>

\* The row existed: GetOrder.  Only a pending row without a venue order ID is
\* submitted again; otherwise the stored status is the answer.
PlaceExisting(c) ==
  LET row == orders[caller[c].order]
  IN  /\ caller[c].pc = "lookup"
      /\ IF row.status = "pending" /\ row.venueOrderID = NoID
         THEN Goto(c, "submit") ELSE Return(c)
      /\ UNCHANGED <<orders, aged, calls, venueVars, passVars, ownVars, procVars>>

\* PlaceOrder succeeds: the venue has taken the order and answers with any
\* status it has or had (toStatus; open when it cannot be mapped).
SubmitAcked(c) ==
  LET o == caller[c].order
  IN  /\ caller[c].pc \in {"submit", "retry"}
      /\ creds
      /\ venue[o] = NoOrder
      /\ \E v \in FirstStates, ack \in Status :
           /\ ack = v.status \/ Rank(ack) < Rank(v.status)
           /\ Accepted(o, v)
           /\ Tells(o, v)
           /\ caller' = [caller EXCEPT ![c].pc = "ack", ![c].ack = ack]
      /\ UNCHANGED <<orders, aged, calls, inflight, passVars, ownVars, procVars>>

\* PlaceOrder fails ambiguously: a lost request, a lost answer, a request that
\* is only late, or the venue's duplicate-ID error.  The same ID is retried.
\* Without credentials nothing is sent, but the limiter or the breaker may
\* still fail the call first.
SubmitAmbiguous(c) ==
  /\ caller[c].pc \in {"submit", "retry"}
  /\ Goto(c, "retry")
  /\ \/ inflight' = inflight
     \/ creds /\ inflight' = inflight \cup {caller[c].order}
  /\ UNCHANGED <<orders, aged, calls, venue, stream, passVars, ownVars, procVars>>

\* The retry budget is spent: submitFailure reports ErrSubmitUnsettled.
SubmitUnsettled(c) ==
  /\ caller[c].pc = "retry"
  /\ Return(c)
  /\ UNCHANGED <<orders, aged, calls, venueVars, passVars, ownVars, procVars>>

\* ErrAuth stops the retries.  It is a matter of configuration alone: without an
\* API key New leaves authentication disabled, the call fails before anything is
\* sent, and no answer of the venue is classified as it.
SubmitPermanentError(c) ==
  /\ ~creds
  /\ caller[c].pc \in {"submit", "retry"}
  /\ Goto(c, "reject")
  /\ UNCHANGED <<orders, aged, calls, venueVars, passVars, ownVars, procVars>>

\* apply of the ack, which carries no cumulative quantity.
ApplyAck(c) ==
  LET o  == caller[c].order
      ev == [status |-> caller[c].ack, filledQty |-> 0, venueOrderID |-> VenueID]
  IN  /\ caller[c].pc = "ack"
      /\ Store!ApplyEvent(o, ev)
      /\ NotesBare(o, ev)
      /\ Return(c)
      /\ UNCHANGED <<aged, calls, venueVars, passVars, refused, procVars>>

\* submitFailure settles the row itself.
ApplyReject(c) ==
  LET o  == caller[c].order
      ev == [status |-> "rejected", filledQty |-> 0, venueOrderID |-> NoID]
  IN  /\ caller[c].pc = "reject"
      /\ Store!ApplyEvent(o, ev)
      /\ refused' = IF Terminal(orders[o].status) THEN refused
                    ELSE refused \cup {o}
      /\ Return(c)
      /\ UNCHANGED <<aged, calls, venueVars, passVars, bare, procVars>>

\* The store refuses the ack or the rejection: acceptedUnsettled, or a logged
\* error; the row stays as it is.
ApplyFails(c) ==
  /\ caller[c].pc \in {"ack", "reject"}
  /\ Return(c)
  /\ UNCHANGED <<orders, aged, calls, venueVars, passVars, ownVars, procVars>>

\* Cancel: GetOrder and the terminal check.
Cancel(c, o) ==
  /\ caller[c].pc = "idle"
  /\ calls < MaxCalls
  /\ calls' = calls + 1
  /\ orders[o] # NoRow
  /\ ~Terminal(orders[o].status)
  /\ caller' = [caller EXCEPT ![c] = [pc |-> "mark", order |-> o, ack |-> "none"]]
  /\ UNCHANGED <<orders, aged, venueVars, passVars, ownVars, procVars>>

CancelMark(c) ==
  /\ caller[c].pc = "mark"
  /\ Store!MarkCancelRequested(caller[c].order)
  /\ Goto(c, "cancel")
  /\ UNCHANGED <<aged, calls, venueVars, passVars, ownVars, procVars>>

\* The venue cancels a live order, refuses, or is not reached.
CancelVenue(c) ==
  LET o == caller[c].order
      v == [status |-> "canceled", filledQty |-> venue[o].filledQty]
  IN  /\ caller[c].pc = "cancel"
      /\ \/ /\ creds /\ Live(venue[o])
            /\ venue' = [venue EXCEPT ![o] = v]
            /\ Tells(o, v)
         \/ UNCHANGED <<venue, stream>>
      /\ Return(c)
      /\ UNCHANGED <<orders, aged, calls, inflight, passVars, ownVars, procVars>>

\* consumeStream: a report arrives in any order with others, once, again, or
\* never: one that is not consumed any more is one the websocket has lost.
ConsumeStream(e) ==
  /\ e \in stream
  /\ creds
  /\ Store!ApplyEvent(e.order, EventOf(e.of))
  /\ NotesBare(e.order, EventOf(e.of))
  /\ UNCHANGED <<aged, callVars, venueVars, passVars, refused, procVars>>

--------------------------------------------------------------------------------
(* The reconciliation loop of the venue. *)

\* Two intervals have passed since the row was created.
GraceElapses(o) ==
  /\ orders[o] # NoRow /\ o \notin aged
  /\ aged' = aged \cup {o}
  /\ UNCHANGED <<orders, callVars, venueVars, passVars, ownVars, procVars>>

\* OpenOrders fails: the pass is skipped.
PassFails == recPc = "idle" /\ UNCHANGED vars

\* OpenOrders answers.
PassOpenOrders ==
  /\ recPc = "idle"
  /\ creds
  /\ snap' = [o \in Orders |-> IF Live(venue[o]) THEN venue[o] ELSE NoOrder]
  /\ recPc' = "list"
  /\ UNCHANGED <<orders, aged, callVars, venueVars, local, todo, got, orphans,
                 ownVars, procVars>>

\* The rows of ListActiveOrders.
ActiveOrders == {o \in Orders : orders[o] # NoRow /\ ~Terminal(orders[o].status)}

\* ListActiveOrders, after the venue's answer.
PassListActive ==
  /\ recPc = "list"
  /\ local' = [o \in Orders |-> IF o \in ActiveOrders THEN orders[o] ELSE NoRow]
  /\ todo' = ActiveOrders
  /\ recPc' = "local"
  /\ UNCHANGED <<orders, aged, callVars, venueVars, snap, got, orphans, ownVars,
                 procVars>>

\* Mutant of PassPresent: pending rows are left to the lookup.
PassPresentSkipsPending(o) ==
  LET lo   == local[o]
      same == snap[o].status = lo.status /\ snap[o].filledQty = lo.filledQty
  IN  /\ recPc = "local" /\ o \in todo
      /\ snap[o] # NoOrder
      /\ IF same \/ lo.status = "pending" THEN UNCHANGED orders
         ELSE Store!ApplyEvent(o, EventOf(snap[o]))
      /\ todo' = todo \ {o}
      /\ UNCHANGED <<aged, callVars, venueVars, recPc, snap, local, got, orphans,
                     ownVars, procVars>>

\* reconcileLocal, the venue still shows the order: apply unless nothing drifted.
PassPresent(o) ==
  LET lo      == local[o]
      same    == snap[o].status = lo.status /\ snap[o].filledQty = lo.filledQty
      adopts  == lo.venueOrderID = NoID
  IN  /\ recPc = "local" /\ o \in todo
      /\ snap[o] # NoOrder
      /\ IF same /\ ~adopts THEN UNCHANGED orders
                            ELSE Store!ApplyEvent(o, EventOf(snap[o]))
      /\ todo' = todo \ {o}
      /\ UNCHANGED <<aged, callVars, venueVars, recPc, snap, local, got, orphans,
                     ownVars, procVars>>

\* Mutant of LooksUp: an order that left the book is not looked up.
LooksUpPendingOnly(o) == /\ local[o].venueOrderID # NoID
                         /\ local[o].status = "pending"
                         /\ o \in aged

\* May the pass look a missing order up?  A pending one only after the grace
\* period, and neither without the venue's ID.
LooksUp(o) == /\ local[o].venueOrderID # NoID
              /\ local[o].status = "pending" => o \in aged

\* reconcilePending or reconcileMissingActive: GetOrder answers.
PassLookup(o) ==
  /\ recPc = "local" /\ o \in todo
  /\ snap[o] = NoOrder
  /\ LooksUp(o)
  /\ venue[o] # NoOrder
  /\ \E r \in Reports(venue[o]) : got' = [order |-> o, of |-> r]
  /\ recPc' = "apply"
  /\ todo' = todo \ {o}
  /\ UNCHANGED <<orders, aged, callVars, venueVars, snap, local, orphans,
                 ownVars, procVars>>

\* Mutant of PassSkips: absence from the open orders taken for a rejection.
PassPresumesRejected(o) ==
  /\ recPc = "local" /\ o \in todo
  /\ snap[o] = NoOrder
  /\ Store!ApplyEvent(o, [status |-> "rejected", filledQty |-> 0,
                          venueOrderID |-> NoID])
  /\ todo' = todo \ {o}
  /\ UNCHANGED <<aged, callVars, venueVars, recPc, snap, local, got, orphans,
                 ownVars, procVars>>

\* The order is too young, unresolved, or its lookup failed: left alone.
PassSkips(o) ==
  /\ recPc = "local" /\ o \in todo
  /\ snap[o] = NoOrder
  /\ todo' = todo \ {o}
  /\ UNCHANGED <<orders, aged, callVars, venueVars, recPc, snap, local, got,
                 orphans, ownVars, procVars>>

\* The looked-up state is applied to the row it was fetched for.
PassApply ==
  /\ recPc = "apply"
  /\ Store!ApplyEvent(got.order, EventOf(got.of))
  /\ NotesBare(got.order, EventOf(got.of))
  /\ got' = NoAnswer
  /\ recPc' = "local"
  /\ UNCHANGED <<aged, callVars, venueVars, snap, local, todo, orphans, refused,
                 procVars>>

\* reconcileOrphans for the orders of this system, whose client order ID the
\* venue echoes: one open at the venue that was not in the local list is an
\* orphan when the store does not know it at all.  Reports without a client
\* order ID, foreign by definition, concern no order of the model.  orphans
\* is everything ever announced, so lastOrphans, which only keeps a pass from
\* announcing again, changes nothing; a store or publish error ends the service
\* and with it the process (Crash).
PassOrphans ==
  /\ recPc = "local" /\ todo = {}
  /\ orphans' = orphans \cup
       {o \in Orders : /\ snap[o] # NoOrder
                       /\ local[o] = NoRow
                       /\ orders[o] = NoRow}
  /\ recPc' = "idle"
  /\ snap' = [o \in Orders |-> NoOrder]
  /\ local' = [o \in Orders |-> NoRow]
  /\ UNCHANGED <<orders, aged, callVars, venueVars, todo, got, ownVars, procVars>>

\* The daemon dies and is started again, possibly with another configuration of
\* the venue: calls, stream and pass are gone, requests already sent are not.
Crash ==
  /\ crashes < MaxCrashes
  /\ crashes' = crashes + 1
  /\ creds' \in BOOLEAN
  /\ caller' = [c \in Callers |-> IdleCall]
  /\ stream' = {}
  /\ recPc' = "idle"
  /\ snap' = [o \in Orders |-> NoOrder]
  /\ local' = [o \in Orders |-> NoRow]
  /\ todo' = {}
  /\ got' = NoAnswer
  /\ UNCHANGED <<orders, aged, calls, venue, inflight, orphans, ownVars>>

CallStep(c) ==
  \/ PlaceExisting(c) \/ SubmitAcked(c) \/ SubmitAmbiguous(c)
  \/ SubmitUnsettled(c) \/ SubmitPermanentError(c) \/ ApplyAck(c)
  \/ ApplyReject(c) \/ ApplyFails(c) \/ CancelMark(c) \/ CancelVenue(c)

Next ==
  \/ \E o \in Orders : \/ VenueAcceptsLate(o) \/ VenueMoves(o)
                       \/ GraceElapses(o)
                       \/ PassPresent(o) \/ PassLookup(o) \/ PassSkips(o)
  \/ \E e \in stream : ConsumeStream(e)
  \/ \E c \in Callers : \/ CallStep(c)
                        \/ \E o \in Orders : Place(c, o) \/ Cancel(c, o)
  \/ PassFails \/ PassOpenOrders \/ PassListActive \/ PassApply \/ PassOrphans
  \/ Crash

\* The loop runs for as long as the daemon does; a lookup that is possible in
\* every pass does not fail in every pass.  Nothing is assumed of callers, of
\* the venue's own moves or of the stream: every stream event may be lost.
Fairness ==
  /\ WF_vars(PassOpenOrders) /\ WF_vars(PassListActive)
  /\ WF_vars(PassApply) /\ WF_vars(PassOrphans)
  /\ \A o \in Orders : /\ WF_vars(PassPresent(o)) /\ WF_vars(PassSkips(o))
                       /\ SF_vars(PassLookup(o))
                       /\ WF_vars(GraceElapses(o))

Spec == Init /\ [][Next]_vars /\ Fairness

--------------------------------------------------------------------------------
(* Properties. *)

StoredRow == [status : Status, filledQty : 0 .. Qty,
              venueOrderID : {NoID, VenueID}, cancelRequested : BOOLEAN]

\* Rows, calls, answers and venue states have their types; in particular no
\* interleaving over-fills a stored row.
TypeOK ==
  /\ orders \in [Orders -> StoredRow \cup {NoRow}]
  /\ aged \subseteq Orders
  /\ \A c \in Callers :
       /\ caller[c].pc \in {"idle", "lookup", "submit", "retry", "ack", "reject",
                            "mark", "cancel"}
       /\ caller[c].pc # "idle" => caller[c].order \in Orders
  /\ venue \in [Orders -> VenueState \cup {NoOrder}]
  /\ inflight \subseteq Orders
  /\ stream \subseteq [order : Orders, of : VenueState]
  /\ recPc \in {"idle", "list", "local", "apply"}
  /\ snap \in [Orders -> VenueState \cup {NoOrder}]
  /\ local \in [Orders -> StoredRow \cup {NoRow}]
  /\ todo \subseteq Orders
  /\ orphans \subseteq Orders
  /\ refused \subseteq Orders /\ bare \subseteq Orders
  /\ creds \in BOOLEAN

StateOf(row) == [status |-> row.status, filledQty |-> row.filledQty]

Known(o) == orders[o] # NoRow /\ orders[o].venueOrderID # NoID

\* An order this system placed is never announced as a foreign one, however a
\* pass interleaves with its placement: the row is inserted before the submit
\* (manual-trading.md:175) and the local list is read after the venue's.  This
\* takes the venue at its word that it echoes the client order ID
\* (manual-trading.md:183): an order reported without one is announced.
OwnOrderNeverOrphan == orphans = {}

\* Local state is never better than the truth: what is filled locally is filled
\* at the venue, a local status has been reached there, and a terminal one is
\* the venue's, with the venue's final quantity unless an ack or a cancel
\* confirmation without a quantity closed the row - the one way to lose a fill.
\* Left out are the orders a Place call settled as rejected by itself.
LocalNeverAhead ==
  TypeOK /\ \A o \in Orders :
    orders[o] # NoRow =>
      /\ orders[o].filledQty <= venue[o].filledQty
      /\ o \notin refused /\ orders[o].status # "pending" =>
           /\ venue[o] # NoOrder
           /\ Rank(orders[o].status) <= Rank(venue[o].status)
           /\ Terminal(orders[o].status) =>
                /\ orders[o].status = venue[o].status
                /\ o \notin bare => orders[o].filledQty = venue[o].filledQty

\* Once an order is finished at the venue and its venue ID is known locally, a
\* daemon that can authenticate brings the row to the venue's status, even if
\* every stream event is lost and the daemon crashes; and to its quantity,
\* unless a report without one has closed the row before.
ConvergesToVenue ==
  \A o \in Orders :
    (Known(o) /\ Terminal(venue[o].status) /\ o \notin refused)
      ~> \/ /\ orders[o].status = venue[o].status
            /\ o \notin bare => orders[o].filledQty = venue[o].filledQty
         \/ o \in refused
         \/ ~creds

\* "The system would eventually converge on reconciliation alone"
\* (manual-trading.md:226), on the quantity too: the zero quantity of an ack is
\* "harmless: fill-bearing events outrank or out-fill it" (order.go:115).
ConvergesAlone ==
  \A o \in Orders :
    (Known(o) /\ Terminal(venue[o].status))
      ~> ((Known(o) /\ StateOf(orders[o]) = venue[o]) \/ o \in refused \/ ~creds)

\* A submit of unknown outcome that did reach the venue is adopted while it is
\* open there ("reconciliation adopts it when venue evidence appears"), by a
\* daemon that can authenticate.
AdoptsOpenOrder ==
  \A o \in Orders :
    Live(venue[o]) ~> (Known(o) \/ ~Live(venue[o]) \/ o \in refused \/ ~creds)

\* submitFailure's reason for settling the row itself: "No venue order can
\* exist" (order.go:189), at least none that trades.
RefusedHasNoVenueOrder ==
  \A o \in refused : ~Live(venue[o]) /\ venue[o].filledQty = 0
===============================================================================
