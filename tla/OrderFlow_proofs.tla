--------------------------- MODULE OrderFlow_proofs ---------------------------
(***************************************************************************)
(* The local view of an order never runs ahead of the venue, and an own    *)
(* order is never reported as an orphan, for any number of orders, callers *)
(* and crashes and any quantity.                                           *)
(*                                                                         *)
(* The argument: the venue only moves forward until it is terminal         *)
(* (Advances), so every report of it that is still on its way - a stream   *)
(* event, the pass's snapshot, a looked-up answer, an ack - stays a state  *)
(* the venue has reached (Reached), but for the quantity that an ack and   *)
(* some cancel confirmations leave out; and the store's join of the row    *)
(* with a reached state is again one.  A row exists before anything of its *)
(* order can exist anywhere else (RowFirst).                               *)
(***************************************************************************)
EXTENDS OrderFlow, OrderMachine_proofs

CallState == [pc : {"idle", "lookup", "submit", "retry", "ack", "reject",
                    "mark", "cancel"},
              order : Orders \cup {"none"},
              ack : Status \cup {"none"}]

\* TypeOK with the calls, and the answer about to be applied, in full.
Types ==
  /\ TypeOK
  /\ caller \in [Callers -> CallState]
  /\ got \in [order : Orders, of : VenueState] \cup {NoAnswer}
  /\ recPc = "apply" => got # NoAnswer

\* Nothing of an order exists outside the store before its row does.
RowFirst ==
  /\ \A o \in Orders : venue[o] # NoOrder => orders[o] # NoRow
  /\ \A o \in Orders : snap[o] # NoOrder => orders[o] # NoRow
  /\ \A o \in inflight : orders[o] # NoRow
  /\ \A c \in Callers : caller[c].pc # "idle" => orders[caller[c].order] # NoRow
  /\ orphans = {}

\* s is a state the venue's order v is in or has gone through, its quantity
\* possibly left out once it is finished.
Reached(s, v) ==
  /\ v # NoOrder
  /\ s.filledQty <= v.filledQty
  /\ Rank(s.status) <= Rank(v.status)
  /\ Terminal(s.status) => /\ s.status = v.status
                           /\ s.filledQty = v.filledQty \/ s.filledQty = 0

\* An order in the book is not completely filled.
BookOK == \A o \in Orders : Live(venue[o]) => venue[o].filledQty < Qty

\* Every report on its way to the store is a state the venue has reached.
ReportsTrue ==
  /\ \A e \in stream : Reached(e.of, venue[e.order])
  /\ \A o \in Orders : snap[o] # NoOrder =>
                         Live(snap[o]) /\ Reached(snap[o], venue[o])
  /\ got # NoAnswer => Reached(got.of, venue[got.order])

\* So is an ack, which has a status only: a terminal one is the venue's.
AckTrue(c) ==
  LET v == venue[caller[c].order]
  IN  /\ caller[c].ack \in Status
      /\ v # NoOrder
      /\ Rank(caller[c].ack) <= Rank(v.status)
      /\ Terminal(caller[c].ack) => caller[c].ack = v.status

AcksTrue == \A c \in Callers : caller[c].pc = "ack" => AckTrue(c)

\* What is stored of o has happened at the venue.
Behind(o) ==
  /\ orders[o].filledQty <= venue[o].filledQty
  /\ o \notin refused /\ orders[o].status # "pending" =>
       /\ venue[o] # NoOrder
       /\ Rank(orders[o].status) <= Rank(venue[o].status)
       /\ Terminal(orders[o].status) =>
            /\ orders[o].status = venue[o].status
            /\ o \notin bare => orders[o].filledQty = venue[o].filledQty

RowsBehind == \A o \in Orders : orders[o] # NoRow => Behind(o)

IndInv == /\ Types /\ RowFirst /\ BookOK /\ ReportsTrue /\ AcksTrue /\ RowsBehind

\* How one order moves at the venue in a step: it may appear, and in the book
\* it only gains quantity and rank.
Advances(v, w) ==
  \/ w = v
  \/ v = NoOrder
  \/ /\ Live(v) /\ w # NoOrder
     /\ v.filledQty <= w.filledQty
     /\ Rank(v.status) <= Rank(w.status)

--------------------------------------------------------------------------------
(* The store's join. *)

\* The store's state machine is OrderMachine's.
LEMMA StoreApply ==
  ASSUME NEW s, NEW ev
  PROVE  Store!Apply(s, ev) = Apply(s, ev)
<1>1. \A x : Store!Rank(x) = Rank(x)
  BY DEF Store!Rank, Rank
<1>2. Store!FillOf(s, ev) = FillOf(s, ev)
  BY DEF Store!FillOf, FillOf
<1>3. /\ \A f, r : Store!Keep(s, f, r) = Keep(s, f, r)
      /\ \A f, a : Store!Move(ev, f, a) = Move(ev, f, a)
      /\ Store!TerminalRank = TerminalRank
  BY DEF Store!Keep, Keep, Store!Move, Move, Store!TerminalRank, TerminalRank
<1>4. Store!Transition(s, ev) = Transition(s, ev)
  BY <1>1, <1>2, <1>3 DEF Store!Transition, Transition
<1> QED BY <1>4 DEF Store!Apply, Apply

\* A stored row after an event: it is a row, its status moves exactly to a
\* higher rank, and its quantity grows to the claimed one.
LEMMA AppliedRow ==
  ASSUME NEW row \in StoredRow, NEW ev \in Events
  PROVE  LET new == Store!Applied(row, ev)
         IN  /\ new \in StoredRow
             /\ new.status = IF Rank(ev.status) > Rank(row.status)
                             THEN ev.status ELSE row.status
             /\ new.filledQty = IF Claimed(ev) > row.filledQty
                                THEN Claimed(ev) ELSE row.filledQty
<1> DEFINE st == [status |-> row.status, filledQty |-> row.filledQty]
           a  == Apply(st, ev)
<1>1. /\ row.status \in Status /\ row.filledQty \in 0 .. Qty
      /\ row.venueOrderID \in {NoID, VenueID} /\ row.cancelRequested \in BOOLEAN
  BY DEF StoredRow
<1>2. /\ ev.status \in Status /\ ev.filledQty \in 0 .. Qty
      /\ ev.venueOrderID \in {NoID, VenueID}
  BY DEF Events, NoID, Store!None
<1>3. st \in State /\ st.status = row.status /\ st.filledQty = row.filledQty
  BY <1>1, FlowAssumption DEF State
<1>4. ev.filledQty \in Nat
  BY <1>2, FlowAssumption
<1>5. /\ a.status = IF Rank(ev.status) > Rank(row.status)
                    THEN ev.status ELSE row.status
      /\ a.filledQty = IF Claimed(ev) > row.filledQty
                       THEN Claimed(ev) ELSE row.filledQty
  <2> HIDE DEF st
  <2> QED BY <1>2, <1>3, <1>4, ApplyIsJoin
<1>6. a.status \in Status /\ a.filledQty \in 0 .. Qty
  BY <1>1, <1>2, <1>5, FlowAssumption DEF Claimed
<1> DEFINE id == IF row.venueOrderID # Store!None
                 THEN row.venueOrderID ELSE ev.venueOrderID
<1>7. Store!Applied(row, ev) =
        [status |-> a.status, filledQty |-> a.filledQty,
         venueOrderID |-> id, cancelRequested |-> row.cancelRequested]
  BY StoreApply DEF Store!Applied
<1>8. id \in {NoID, VenueID}
  BY <1>1, <1>2
<1> HIDE DEF a, id
<1>9. Store!Applied(row, ev) \in StoredRow
  BY <1>1, <1>6, <1>7, <1>8 DEF StoredRow
<1> QED BY <1>5, <1>7, <1>9

\* A stored row is not NoRow, and a venue state is not NoOrder.
LEMMA Distinct ==
  /\ \A row \in StoredRow : row # NoRow /\ row.status \in Status
  /\ \A v \in VenueState : v # NoOrder /\ v.status \in Status
  /\ NoRow \notin StoredRow /\ NoOrder \notin VenueState
<1>1. \A row \in StoredRow : row.status \in Status
  BY DEF StoredRow
<1>2. \A v \in VenueState : v.status \in Status
  BY DEF VenueState
<1>3. NoRow.status \notin Status /\ NoOrder.status \notin Status
  BY DEF NoRow, Store!NoRow, Store!None, NoOrder, Status
<1> QED BY <1>1, <1>2, <1>3

\* The event made of a venue state can be applied.
LEMMA EventOfType ==
  ASSUME NEW v \in VenueState
  PROVE  /\ EventOf(v) \in Events
         /\ EventOf(v).status = v.status /\ EventOf(v).filledQty = v.filledQty
         /\ Claimed(EventOf(v)) = v.filledQty
<1>1. v.status \in Status \ {"pending"} /\ v.filledQty \in 0 .. Qty
  BY DEF VenueState
<1> QED BY <1>1 DEF EventOf, Events, Claimed

\* The venue has reached the state it is in.
LEMMA ReachedNow ==
  ASSUME NEW v \in VenueState
  PROVE  Reached(v, v)
<1>1. v.filledQty \in 0 .. Qty /\ v.status \in Status /\ v # NoOrder
  BY Distinct DEF VenueState
<1>2. Rank(v.status) \in 0 .. 3
  BY <1>1, RankType
<1>3. v.filledQty <= v.filledQty /\ Rank(v.status) <= Rank(v.status)
  <2> HIDE DEF Rank
  <2> QED BY <1>1, <1>2
<1> QED BY <1>1, <1>3 DEF Reached

\* So has it every state it reports, with or without the quantity.
LEMMA ReportsReached ==
  ASSUME NEW v \in VenueState, NEW rep \in Reports(v)
  PROVE  rep \in VenueState /\ Reached(rep, v)
<1>1. v.filledQty \in 0 .. Qty /\ v.status \in Status /\ v # NoOrder
  BY Distinct DEF VenueState
<1>2. CASE rep = v
  BY <1>2, ReachedNow
<1>3. CASE rep # v
  <2>1. rep = [v EXCEPT !.filledQty = 0]
    BY <1>3 DEF Reports
  <2>2. /\ rep \in VenueState /\ rep.status = v.status /\ rep.filledQty = 0
    BY <2>1, FlowAssumption DEF VenueState
  <2>3. Rank(v.status) \in 0 .. 3
    BY <1>1, RankType
  <2>4. rep.filledQty <= v.filledQty /\ Rank(rep.status) <= Rank(v.status)
    <3> HIDE DEF Rank
    <3> QED BY <1>1, <2>2, <2>3, FlowAssumption
  <2> QED BY <1>1, <2>2, <2>4 DEF Reached
<1> QED BY <1>2, <1>3

--------------------------------------------------------------------------------
(* Who changes what. *)

\* The steps that change the venue, the rows, and each kind of report; every
\* other step leaves them alone.
LEMMA Frame ==
  ASSUME [Next]_vars
  PROVE  /\ \/ UNCHANGED venue
            \/ \E o \in Orders : VenueAcceptsLate(o) \/ VenueMoves(o)
            \/ \E c \in Callers : SubmitAcked(c) \/ CancelVenue(c)
         /\ \/ UNCHANGED orders
            \/ \E o \in Orders : PassPresent(o)
            \/ \E e \in stream : ConsumeStream(e)
            \/ \E c \in Callers : \/ ApplyAck(c) \/ ApplyReject(c)
                                  \/ CancelMark(c)
                                  \/ \E o \in Orders : Place(c, o)
            \/ PassApply
         /\ \/ UNCHANGED caller
            \/ \E c \in Callers : \/ CallStep(c)
                                  \/ \E o \in Orders : Place(c, o) \/ Cancel(c, o)
            \/ Crash
         /\ \/ UNCHANGED stream
            \/ \E o \in Orders : VenueAcceptsLate(o) \/ VenueMoves(o)
            \/ \E c \in Callers : SubmitAcked(c) \/ CancelVenue(c)
            \/ Crash
         /\ \/ UNCHANGED snap
            \/ PassOpenOrders \/ PassOrphans \/ Crash
         /\ \/ UNCHANGED <<local, todo>>
            \/ \E o \in Orders : PassPresent(o) \/ PassLookup(o) \/ PassSkips(o)
            \/ PassListActive \/ PassOrphans \/ Crash
         /\ \/ UNCHANGED <<got, recPc>>
            \/ \E o \in Orders : PassLookup(o)
            \/ PassOpenOrders \/ PassListActive \/ PassApply \/ PassOrphans
            \/ Crash
         /\ \/ UNCHANGED inflight
            \/ \E o \in Orders : VenueAcceptsLate(o)
            \/ \E c \in Callers : SubmitAmbiguous(c)
         /\ UNCHANGED orphans \/ PassOrphans
         /\ UNCHANGED aged \/ \E o \in Orders : GraceElapses(o)
         /\ UNCHANGED refused \/ \E c \in Callers : ApplyReject(c)
         /\ \/ UNCHANGED bare
            \/ \E e \in stream : ConsumeStream(e)
            \/ \E c \in Callers : ApplyAck(c)
            \/ PassApply
         /\ UNCHANGED creds \/ creds' \in BOOLEAN
<1> USE DEF vars, callVars, venueVars, passVars, ownVars, procVars
<1>1. CASE UNCHANGED vars \/ PassFails
  BY <1>1 DEF PassFails
<1>2. CASE \E o \in Orders : VenueAcceptsLate(o) \/ VenueMoves(o)
  BY <1>2 DEF VenueAcceptsLate, VenueMoves
<1>3. CASE \E o \in Orders : GraceElapses(o)
  BY <1>3 DEF GraceElapses
<1>4. CASE \E o \in Orders : PassPresent(o) \/ PassLookup(o) \/ PassSkips(o)
  BY <1>4 DEF PassPresent, PassLookup, PassSkips
<1>5. CASE \E e \in stream : ConsumeStream(e)
  BY <1>5 DEF ConsumeStream
<1>6. CASE \E c \in Callers : CallStep(c)
  <2> PICK c \in Callers : CallStep(c)
    BY <1>6
  <2>1. CASE \/ PlaceExisting(c) \/ SubmitUnsettled(c) \/ SubmitPermanentError(c)
             \/ ApplyFails(c)
    BY <2>1 DEF PlaceExisting, SubmitUnsettled, SubmitPermanentError, ApplyFails
  <2>2. CASE SubmitAcked(c) \/ CancelVenue(c)
    BY <2>2 DEF SubmitAcked, CancelVenue
  <2>3. CASE SubmitAmbiguous(c)
    BY <2>3 DEF SubmitAmbiguous
  <2>4. CASE ApplyAck(c) \/ ApplyReject(c) \/ CancelMark(c)
    BY <2>4 DEF ApplyAck, ApplyReject, CancelMark
  <2> QED BY <2>1, <2>2, <2>3, <2>4 DEF CallStep
<1>7. CASE \E c \in Callers, o \in Orders : Place(c, o) \/ Cancel(c, o)
  BY <1>7 DEF Place, Cancel
<1>8. CASE PassOpenOrders \/ PassListActive \/ PassApply \/ PassOrphans
  BY <1>8 DEF PassOpenOrders, PassListActive, PassApply, PassOrphans
<1>9. CASE Crash
  BY <1>9 DEF Crash
<1> QED BY <1>1, <1>2, <1>3, <1>4, <1>5, <1>6, <1>7, <1>8, <1>9 DEF Next

--------------------------------------------------------------------------------
(* The venue and the rows move forward. *)

\* What a step does to the venue's orders.
VenueForward ==
  /\ venue' \in [Orders -> VenueState \cup {NoOrder}]
  /\ \A o \in Orders : Advances(venue[o], venue'[o])
  /\ BookOK'

\* An order the venue takes starts in a state of the book or finished.
LEMMA FirstStatesType ==
  \A v \in FirstStates : v \in VenueState /\ (Live(v) => v.filledQty < Qty)
<1> SUFFICES ASSUME NEW v \in FirstStates
             PROVE  v \in VenueState /\ (Live(v) => v.filledQty < Qty)
  OBVIOUS
<1>1. v \in VenueState
  BY DEF FirstStates
<1>2. v.filledQty \in 0 .. Qty /\ v.status \in Status \ {"pending"}
  BY <1>1 DEF VenueState
<1>3. ASSUME Live(v) PROVE v.status \in {"open", "partially_filled"}
  BY <1>2, <1>3 DEF Live, Terminal, TerminalRank, Rank, Status
<1>4. /\ v.status = "open" => v.filledQty = 0
      /\ v.status = "partially_filled" => v.filledQty \in 1 .. Qty - 1
  BY DEF FirstStates
<1> QED BY <1>1, <1>3, <1>4, FlowAssumption

\* Writing one order of the venue moves it forward if the new state does.
LEMMA VenueWrite ==
  ASSUME Types, BookOK, NEW o \in Orders, NEW v \in VenueState,
         Live(v) => v.filledQty < Qty,
         Advances(venue[o], v),
         venue' = [venue EXCEPT ![o] = v]
  PROVE  VenueForward
<1>1. venue \in [Orders -> VenueState \cup {NoOrder}]
  BY DEF Types, TypeOK
<1>2. venue' \in [Orders -> VenueState \cup {NoOrder}]
  BY <1>1
<1>3. \A p \in Orders : venue'[p] = IF p = o THEN v ELSE venue[p]
  BY <1>1
<1>4. \A p \in Orders : Advances(venue[p], venue'[p])
  BY <1>3 DEF Advances
<1>5. BookOK'
  BY <1>3 DEF BookOK
<1> QED BY <1>2, <1>4, <1>5 DEF VenueForward

\* A move of the venue's own takes an order in the book forward.
LEMMA MovesForward ==
  ASSUME NEW v \in VenueState, Live(v), v.filledQty < Qty,
         NEW w \in Fillings(v) \cup Closings(v)
  PROVE  /\ w \in VenueState
         /\ Live(w) => w.filledQty < Qty
         /\ Advances(v, w)
<1>1. v.status \in Status \ {"pending"} /\ v.filledQty \in 0 .. Qty
  BY DEF VenueState
<1>2. Rank(v.status) \in 0 .. 2
  BY <1>1, RankType DEF Live, Terminal, TerminalRank
<1>3. CASE w \in Fillings(v)
  <2>1. PICK q \in v.filledQty + 1 .. Qty :
          w = [status |-> IF q = Qty THEN "filled" ELSE "partially_filled",
               filledQty |-> q]
    BY <1>3 DEF Fillings
  <2>2. q \in 0 .. Qty /\ v.filledQty <= q
    BY <1>1, <2>1, FlowAssumption
  <2>3. /\ w.filledQty = q
        /\ w.status \in {"filled", "partially_filled"}
        /\ q # Qty \/ w.status = "filled"
    BY <2>1
  <2>4. w \in VenueState
    BY <2>1, <2>2, <2>3 DEF VenueState, Status
  <2>5. Rank(w.status) \in {2, 3} /\ (w.status = "filled" => Rank(w.status) = 3)
    BY <2>3 DEF Rank
  <2>6. w # NoOrder
    BY <2>4, Distinct
  <2>7. Live(w) => w.filledQty < Qty
    BY <2>2, <2>3, <2>5, FlowAssumption DEF Live, Terminal, TerminalRank
  <2>8. Rank(v.status) <= Rank(w.status)
    <3> HIDE DEF Rank
    <3> QED BY <1>2, <2>5
  <2> QED BY <2>2, <2>3, <2>4, <2>6, <2>7, <2>8 DEF Advances
<1>4. CASE w \in Closings(v)
  <2>1. w.status \in {"canceled", "expired"} /\ w.filledQty = v.filledQty
    BY <1>4 DEF Closings
  <2>2. w \in VenueState
    BY <1>1, <1>4 DEF Closings, VenueState, Status
  <2>3. Rank(w.status) = 3
    BY <2>1 DEF Rank
  <2>4. w # NoOrder
    BY <2>2, Distinct
  <2>5. Rank(v.status) <= Rank(w.status) /\ v.filledQty <= w.filledQty
    <3> HIDE DEF Rank
    <3> QED BY <1>1, <1>2, <2>1, <2>3, FlowAssumption
  <2>6. ~Live(w)
    BY <2>3 DEF Live, Terminal, TerminalRank
  <2> QED BY <2>2, <2>4, <2>5, <2>6 DEF Advances
<1> QED BY <1>3, <1>4

\* The venue's own moves, late submits, acks and cancels are the only steps that
\* touch an order there, and none of them takes anything back.
LEMMA VenueStep ==
  ASSUME Types, BookOK, [Next]_vars
  PROVE  VenueForward
<1>0. venue \in [Orders -> VenueState \cup {NoOrder}]
  BY DEF Types, TypeOK
<1>1. CASE UNCHANGED venue
  BY <1>0, <1>1 DEF VenueForward, Advances, BookOK
<1>2. ASSUME NEW o \in Orders, VenueAcceptsLate(o)
      PROVE  VenueForward
  <2>1. CASE venue[o] = NoOrder
    <3> PICK v \in FirstStates : venue' = [venue EXCEPT ![o] = v]
      BY <1>2, <2>1 DEF VenueAcceptsLate, Accepted
    <3> QED BY <2>1, FirstStatesType, VenueWrite DEF Advances
  <2>2. CASE venue[o] # NoOrder
    BY <1>1, <1>2, <2>2 DEF VenueAcceptsLate
  <2> QED BY <2>1, <2>2
<1>3. ASSUME NEW o \in Orders, VenueMoves(o)
      PROVE  VenueForward
  <2>1. PICK v \in Fillings(venue[o]) \cup Closings(venue[o]) :
          venue' = [venue EXCEPT ![o] = v]
    BY <1>3 DEF VenueMoves
  <2>2. venue[o] \in VenueState /\ Live(venue[o]) /\ venue[o].filledQty < Qty
    BY <1>0, <1>3 DEF VenueMoves, Live, BookOK
  <2> QED BY <2>1, <2>2, VenueWrite, MovesForward
<1>4. ASSUME NEW c \in Callers, SubmitAcked(c)
      PROVE  VenueForward
  <2>1. caller[c].pc # "idle" /\ venue[caller[c].order] = NoOrder
    BY <1>4 DEF SubmitAcked
  <2>2. caller[c].order \in Orders
    BY <2>1 DEF Types, TypeOK
  <2> PICK v \in FirstStates : venue' = [venue EXCEPT ![caller[c].order] = v]
    BY <1>4 DEF SubmitAcked, Accepted
  <2> QED BY <2>1, <2>2, FirstStatesType, VenueWrite DEF Advances
<1>5. ASSUME NEW c \in Callers, CancelVenue(c)
      PROVE  VenueForward
  <2> DEFINE o == caller[c].order
             v == [status |-> "canceled", filledQty |-> venue[o].filledQty]
  <2>1. o \in Orders
    BY <1>5 DEF CancelVenue, Types, TypeOK
  <2>2. CASE Live(venue[o]) /\ venue' = [venue EXCEPT ![o] = v]
    <3>1. venue[o] \in VenueState
      BY <1>0, <2>1, <2>2 DEF Live
    <3>2. venue[o].status \in Status /\ venue[o].filledQty \in 0 .. Qty
      BY <3>1 DEF VenueState
    <3>3. v \in VenueState
      BY <3>2 DEF VenueState, Status
    <3>4. Rank(v.status) = 3 /\ Rank(venue[o].status) \in 0 .. 3
      BY <3>2, RankType DEF Rank
    <3>5. venue[o].filledQty <= v.filledQty
      BY <3>2
    <3>6. v # NoOrder
      BY <3>3, Distinct
    <3> HIDE DEF v
    <3>7. Advances(venue[o], v)
      BY <2>2, <3>4, <3>5, <3>6 DEF Advances
    <3>8. ~Live(v)
      BY <3>4 DEF Live, Terminal, TerminalRank
    <3> QED BY <2>1, <2>2, <3>3, <3>7, <3>8, VenueWrite
  <2> QED BY <1>1, <1>5, <2>2 DEF CancelVenue
<1> QED BY <1>1, <1>2, <1>3, <1>4, <1>5, Frame

\* What a step does to the rows: they are rows, and none disappears.
RowsForward ==
  /\ orders' \in [Orders -> StoredRow \cup {NoRow}]
  /\ \A o \in Orders : orders[o] # NoRow => orders'[o] # NoRow

\* An event applied to a row leaves a row, and the other rows alone.
LEMMA ApplyEventStep ==
  ASSUME Types, NEW o \in Orders, NEW ev \in Events, Store!ApplyEvent(o, ev)
  PROVE  /\ RowsForward
         /\ orders[o] \in StoredRow
         /\ orders'[o] = Store!Applied(orders[o], ev)
         /\ \A p \in Orders \ {o} : orders'[p] = orders[p]
<1>1. orders \in [Orders -> StoredRow \cup {NoRow}]
  BY DEF Types, TypeOK
<1>2. /\ orders[o] # NoRow
      /\ orders' = [orders EXCEPT ![o] = Store!Applied(orders[o], ev)]
  BY DEF Store!ApplyEvent, NoRow
<1>3. orders[o] \in StoredRow
  BY <1>1, <1>2
<1>4. Store!Applied(orders[o], ev) \in StoredRow
  BY <1>3, AppliedRow
<1> QED BY <1>1, <1>2, <1>3, <1>4, Distinct DEF RowsForward

\* The calls that apply an event, and the event: the one of the ack, of the
\* rejection by Place itself, or of a report of the venue.
AckEvent(c) == [status |-> caller[c].ack, filledQty |-> 0, venueOrderID |-> VenueID]
RejectEvent == [status |-> "rejected", filledQty |-> 0, venueOrderID |-> NoID]

\* Both are events the store can apply.
LEMMA OwnEventsType ==
  /\ RejectEvent \in Events
  /\ \A c \in Callers : caller[c].ack \in Status => AckEvent(c) \in Events
<1>1. 0 \in 0 .. Qty
  BY FlowAssumption
<1>2. "rejected" \in Status
  BY DEF Status
<1> QED BY <1>1, <1>2 DEF RejectEvent, AckEvent, Events, NoID, Store!None

\* Every step that touches a row inserts a pending one, marks it cancelled, or
\* applies an event to it.
LEMMA RowsStep ==
  ASSUME Types, ReportsTrue, AcksTrue, [Next]_vars
  PROVE  RowsForward
<1>0. orders \in [Orders -> StoredRow \cup {NoRow}]
  BY DEF Types, TypeOK
<1>1. CASE UNCHANGED orders
  BY <1>0, <1>1 DEF RowsForward
<1>2. ASSUME NEW o \in Orders, PassPresent(o) PROVE RowsForward
  <2>1. snap[o] \in VenueState
    BY <1>2 DEF PassPresent, Types, TypeOK
  <2>2. UNCHANGED orders \/ Store!ApplyEvent(o, EventOf(snap[o]))
    BY <1>2 DEF PassPresent
  <2> QED BY <1>1, <2>1, <2>2, EventOfType, ApplyEventStep
<1>3. ASSUME NEW e \in stream, ConsumeStream(e) PROVE RowsForward
  <2>1. e.order \in Orders /\ e.of \in VenueState
    BY DEF Types, TypeOK
  <2> QED BY <1>3, <2>1, EventOfType, ApplyEventStep DEF ConsumeStream
<1>4. ASSUME NEW c \in Callers, ApplyAck(c) PROVE RowsForward
  <2>1. caller[c].pc = "ack" /\ Store!ApplyEvent(caller[c].order, AckEvent(c))
    BY <1>4 DEF ApplyAck, AckEvent
  <2>2. caller[c].order \in Orders /\ caller[c].ack \in Status
    BY <2>1, FlowAssumption DEF Types, TypeOK, AcksTrue, AckTrue
  <2> QED BY <2>1, <2>2, OwnEventsType, ApplyEventStep
<1>5. ASSUME NEW c \in Callers, ApplyReject(c) PROVE RowsForward
  <2>1. caller[c].pc = "reject" /\ Store!ApplyEvent(caller[c].order, RejectEvent)
    BY <1>5 DEF ApplyReject, RejectEvent
  <2>2. caller[c].order \in Orders
    BY <2>1 DEF Types, TypeOK
  <2> QED BY <2>1, <2>2, OwnEventsType, ApplyEventStep
<1>6. ASSUME NEW c \in Callers, CancelMark(c) PROVE RowsForward
  <2> DEFINE o == caller[c].order
             new == [orders[o] EXCEPT !.cancelRequested = TRUE]
  <2>1. /\ o \in Orders /\ orders[o] # NoRow
        /\ orders' = [orders EXCEPT ![o] = new]
    BY <1>6 DEF CancelMark, Types, TypeOK, Store!MarkCancelRequested, NoRow
  <2>2. orders[o] \in StoredRow
    BY <1>0, <2>1
  <2>3. new \in StoredRow
    BY <2>2 DEF StoredRow
  <2> QED BY <1>0, <2>1, <2>3, Distinct DEF RowsForward
<1>7. ASSUME NEW c \in Callers, NEW o \in Orders, Place(c, o) PROVE RowsForward
  <2>1. UNCHANGED orders \/ orders' = [orders EXCEPT ![o] = Store!PendingRow]
    BY <1>7 DEF Place
  <2>2. Store!PendingRow \in StoredRow
    BY FlowAssumption DEF Store!PendingRow, StoredRow, Status, NoID
  <2> QED BY <1>0, <1>1, <2>1, <2>2, Distinct DEF RowsForward
<1>8. ASSUME PassApply PROVE RowsForward
  <2>1. got \in [order : Orders, of : VenueState]
    BY <1>8 DEF PassApply, Types
  <2>2. got.order \in Orders /\ got.of \in VenueState
    BY <2>1
  <2> QED BY <1>8, <2>2, EventOfType, ApplyEventStep DEF PassApply
<1> QED
  BY <1>1, <1>2, <1>3, <1>4, <1>5, <1>6, <1>7, <1>8, Frame

--------------------------------------------------------------------------------
(* Each part of the invariant is preserved. *)

\* A call moves through its program, its order fixed from Place or Cancel to
\* the return.
LEMMA CallerStep ==
  ASSUME Types, [Next]_vars
  PROVE  /\ caller' \in [Callers -> CallState]
         /\ \A c \in Callers : caller'[c].pc # "idle" => caller'[c].order \in Orders
<1>0. /\ caller \in [Callers -> CallState]
      /\ \A c \in Callers : caller[c].pc # "idle" => caller[c].order \in Orders
  BY DEF Types, TypeOK
<1>1. CASE UNCHANGED caller
  BY <1>0, <1>1
<1>2. IdleCall \in CallState /\ IdleCall.pc = "idle"
  BY DEF IdleCall, CallState
<1>3. CASE Crash
  BY <1>2, <1>3 DEF Crash
<1>4. ASSUME NEW c \in Callers, Return(c)
      PROVE  /\ caller' \in [Callers -> CallState]
             /\ \A d \in Callers : caller'[d].pc # "idle" => caller'[d].order \in Orders
  BY <1>0, <1>2, <1>4 DEF Return
<1>5. ASSUME NEW c \in Callers, caller[c].pc # "idle",
             NEW p \in {"submit", "retry", "reject", "cancel"}, Goto(c, p)
      PROVE  /\ caller' \in [Callers -> CallState]
             /\ \A d \in Callers : caller'[d].pc # "idle" => caller'[d].order \in Orders
  BY <1>0, <1>5 DEF Goto, CallState
<1>6. ASSUME NEW c \in Callers, SubmitAcked(c)
      PROVE  /\ caller' \in [Callers -> CallState]
             /\ \A d \in Callers : caller'[d].pc # "idle" => caller'[d].order \in Orders
  <2> PICK ack \in Status :
             caller' = [caller EXCEPT ![c].pc = "ack", ![c].ack = ack]
    BY <1>6 DEF SubmitAcked
  <2>1. caller[c].pc # "idle"
    BY <1>6 DEF SubmitAcked
  <2> QED BY <1>0, <2>1 DEF CallState
<1>7. ASSUME NEW c \in Callers, NEW o \in Orders, Place(c, o) \/ Cancel(c, o)
      PROVE  /\ caller' \in [Callers -> CallState]
             /\ \A d \in Callers : caller'[d].pc # "idle" => caller'[d].order \in Orders
  <2>1. PICK p \in {"submit", "lookup", "mark"} :
          caller' = [caller EXCEPT ![c] = [pc |-> p, order |-> o, ack |-> "none"]]
    BY <1>7 DEF Place, Cancel
  <2>2. [pc |-> p, order |-> o, ack |-> "none"] \in CallState
    BY DEF CallState
  <2> QED BY <1>0, <2>1, <2>2
<1>8. ASSUME NEW c \in Callers, CallStep(c)
      PROVE  \/ Return(c)
             \/ /\ caller[c].pc # "idle"
                /\ \E p \in {"submit", "retry", "reject", "cancel"} : Goto(c, p)
             \/ SubmitAcked(c)
  BY <1>8 DEF CallStep, PlaceExisting, SubmitAmbiguous, SubmitUnsettled,
              SubmitPermanentError, ApplyAck, ApplyReject, ApplyFails,
              CancelMark, CancelVenue
<1>9. CASE \E c \in Callers : CallStep(c)
  BY <1>4, <1>5, <1>6, <1>8, <1>9
<1> QED BY <1>1, <1>3, <1>7, <1>9, Frame

\* How a call that is not idle after a step came there: it went on, was acked,
\* or began.
LEMMA CallMoves ==
  ASSUME Types, [Next]_vars, NEW c \in Callers,
         caller'[c] # caller[c], caller'[c].pc # "idle"
  PROVE  \/ /\ caller[c].pc # "idle" /\ caller'[c].pc # "ack"
            /\ caller'[c].order = caller[c].order
         \/ SubmitAcked(c) /\ caller'[c].order = caller[c].order
         \/ \E o \in Orders : /\ Place(c, o) \/ Cancel(c, o)
                              /\ caller'[c].order = o /\ caller'[c].pc # "ack"
<1>0. caller \in [Callers -> CallState]
  BY DEF Types
<1>1. CASE Crash
  BY <1>1 DEF Crash, IdleCall
<1>2. ASSUME NEW d \in Callers, CallStep(d)
      PROVE  \/ Return(d)
             \/ /\ caller[d].pc # "idle"
                /\ \E p \in {"submit", "retry", "reject", "cancel"} : Goto(d, p)
             \/ SubmitAcked(d)
  BY <1>2 DEF CallStep, PlaceExisting, SubmitAmbiguous, SubmitUnsettled,
              SubmitPermanentError, ApplyAck, ApplyReject, ApplyFails,
              CancelMark, CancelVenue
<1>3. ASSUME NEW d \in Callers, Return(d) PROVE FALSE
  BY <1>0, <1>3 DEF Return, IdleCall
<1>4. ASSUME NEW d \in Callers, caller[d].pc # "idle",
             NEW p \in {"submit", "retry", "reject", "cancel"}, Goto(d, p)
      PROVE  /\ caller[c].pc # "idle" /\ caller'[c].pc # "ack"
             /\ caller'[c].order = caller[c].order
  BY <1>0, <1>4 DEF Goto, CallState
<1>5. ASSUME NEW d \in Callers, SubmitAcked(d)
      PROVE  SubmitAcked(c) /\ caller'[c].order = caller[c].order
  <2> PICK ack \in Status :
             caller' = [caller EXCEPT ![d].pc = "ack", ![d].ack = ack]
    BY <1>5 DEF SubmitAcked
  <2>1. c = d
    BY <1>0
  <2>2. caller'[c].order = caller[c].order
    BY <1>0, <2>1 DEF CallState
  <2> QED BY <1>5, <2>1, <2>2
<1>6. ASSUME NEW d \in Callers, NEW o \in Orders, Place(d, o) \/ Cancel(d, o)
      PROVE  d = c /\ caller'[c].order = o /\ caller'[c].pc # "ack"
  <2>1. PICK p \in {"submit", "lookup", "mark"} :
          caller' = [caller EXCEPT ![d] = [pc |-> p, order |-> o, ack |-> "none"]]
    BY <1>6 DEF Place, Cancel
  <2> QED BY <1>0, <2>1
<1>7. CASE \E d \in Callers : CallStep(d)
  BY <1>2, <1>3, <1>4, <1>5, <1>7
<1>8. CASE \E d \in Callers, o \in Orders : Place(d, o) \/ Cancel(d, o)
  BY <1>6, <1>8
<1> QED BY <1>1, <1>7, <1>8, Frame

\* The types.
LEMMA TypesStep ==
  ASSUME IndInv, [Next]_vars
  PROVE  Types'
<1>0. Types /\ BookOK /\ ReportsTrue /\ AcksTrue
  BY DEF IndInv
<1>1. orders' \in [Orders -> StoredRow \cup {NoRow}]
  BY <1>0, RowsStep DEF RowsForward
<1>2. venue' \in [Orders -> VenueState \cup {NoOrder}]
  BY <1>0, VenueStep DEF VenueForward
<1>3. /\ caller' \in [Callers -> CallState]
      /\ \A c \in Callers : caller'[c].pc # "idle" => caller'[c].order \in Orders
  BY <1>0, CallerStep
<1>4. \A c \in Callers :
        caller'[c].pc \in {"idle", "lookup", "submit", "retry", "ack", "reject",
                           "mark", "cancel"}
  BY <1>3 DEF CallState
<1>5. aged' \subseteq Orders
  BY <1>0, Frame DEF GraceElapses, Types, TypeOK
<1>6. inflight' \subseteq Orders
  <2>1. ASSUME NEW c \in Callers, SubmitAmbiguous(c) PROVE inflight' \subseteq Orders
    BY <1>0, <2>1 DEF SubmitAmbiguous, Types, TypeOK
  <2> QED BY <1>0, <2>1, Frame DEF VenueAcceptsLate, Types, TypeOK
<1>7. stream' \subseteq [order : Orders, of : VenueState]
  <2>0. stream \subseteq [order : Orders, of : VenueState]
    BY <1>0 DEF Types, TypeOK
  <2>1. ASSUME NEW o \in Orders, NEW v \in VenueState, Tells(o, v)
        PROVE  stream' \subseteq [order : Orders, of : VenueState]
    <3> PICK rep \in Reports(v) : stream' = stream \cup {[order |-> o, of |-> rep]}
      BY <2>1 DEF Tells
    <3>1. rep \in VenueState
      BY ReportsReached
    <3> QED BY <2>0, <3>1
  <2>2. ASSUME NEW o \in Orders, VenueAcceptsLate(o)
        PROVE  stream' \subseteq [order : Orders, of : VenueState]
    BY <2>0, <2>1, <2>2, FirstStatesType DEF VenueAcceptsLate
  <2>3. ASSUME NEW o \in Orders, VenueMoves(o)
        PROVE  stream' \subseteq [order : Orders, of : VenueState]
    <3> PICK v : venue' = [venue EXCEPT ![o] = v] /\ Tells(o, v)
      BY <2>3 DEF VenueMoves
    <3>1. v \in VenueState
      <4>1. v = venue'[o] /\ venue[o] # NoOrder
        BY <1>0, <2>3 DEF Types, TypeOK, VenueMoves, Live
      <4>2. v # NoOrder
        BY <1>0, <4>1, VenueStep DEF VenueForward, Advances
      <4> QED BY <1>2, <4>1, <4>2
    <3> QED BY <2>1, <3>1
  <2>4. ASSUME NEW c \in Callers, SubmitAcked(c)
        PROVE  stream' \subseteq [order : Orders, of : VenueState]
    <3>1. caller[c].order \in Orders
      BY <1>0, <2>4 DEF SubmitAcked, Types, TypeOK
    <3> QED BY <2>1, <2>4, <3>1, FirstStatesType DEF SubmitAcked
  <2>5. ASSUME NEW c \in Callers, CancelVenue(c)
        PROVE  stream' \subseteq [order : Orders, of : VenueState]
    <3> DEFINE o == caller[c].order
               v == [status |-> "canceled", filledQty |-> venue[o].filledQty]
    <3>1. o \in Orders
      BY <1>0, <2>5 DEF CancelVenue, Types, TypeOK
    <3>2. CASE Live(venue[o]) /\ Tells(o, v)
      <4>1. venue[o] \in VenueState
        BY <1>0, <3>1, <3>2 DEF Types, TypeOK, Live
      <4>2. v \in VenueState
        BY <4>1 DEF VenueState, Status
      <4> QED BY <2>1, <3>1, <3>2, <4>2
    <3> QED BY <2>0, <2>5, <3>2 DEF CancelVenue
  <2>6. CASE UNCHANGED stream \/ Crash
    BY <2>0, <2>6 DEF Crash
  <2> QED BY <2>2, <2>3, <2>4, <2>5, <2>6, Frame
<1>8. snap' \in [Orders -> VenueState \cup {NoOrder}]
  <2>1. CASE PassOpenOrders
    BY <1>0, <2>1 DEF PassOpenOrders, Types, TypeOK, Live
  <2> QED BY <1>0, <2>1, Frame DEF PassOrphans, Crash, Types, TypeOK
<1>9. local' \in [Orders -> StoredRow \cup {NoRow}] /\ todo' \subseteq Orders
  <2>1. CASE PassListActive
    BY <1>0, <2>1 DEF PassListActive, ActiveOrders, Types, TypeOK
  <2>2. CASE \E o \in Orders : PassPresent(o) \/ PassLookup(o) \/ PassSkips(o)
    BY <1>0, <2>2 DEF PassPresent, PassLookup, PassSkips, Types, TypeOK
  <2>3. CASE PassOrphans \/ Crash
    BY <1>0, <2>3 DEF PassOrphans, Crash, Types, TypeOK
  <2> QED BY <1>0, <2>1, <2>2, <2>3, Frame DEF Types, TypeOK
<1>10. /\ recPc' \in {"idle", "list", "local", "apply"}
       /\ got' \in [order : Orders, of : VenueState] \cup {NoAnswer}
       /\ recPc' = "apply" => got' # NoAnswer
  <2>1. CASE \E o \in Orders : PassLookup(o)
    <3> PICK o \in Orders : PassLookup(o)
      BY <2>1
    <3>1. PICK rep \in Reports(venue[o]) : got' = [order |-> o, of |-> rep]
      BY DEF PassLookup
    <3>2. venue[o] \in VenueState /\ recPc' = "apply"
      BY <1>0 DEF PassLookup, Types, TypeOK
    <3>3. rep \in VenueState
      BY <3>2, ReportsReached
    <3>4. got' # NoAnswer
      <4>1. got'.order = o /\ NoAnswer.order = "none" /\ DOMAIN got' # DOMAIN NoAnswer
        BY <3>1 DEF NoAnswer
      <4> QED BY <4>1
    <3> QED BY <3>1, <3>2, <3>3, <3>4
  <2>2. CASE PassOpenOrders \/ PassListActive \/ PassApply \/ PassOrphans \/ Crash
    BY <1>0, <2>2 DEF PassOpenOrders, PassListActive, PassApply, PassOrphans,
                      Crash, Types
  <2> QED BY <1>0, <2>1, <2>2, Frame DEF Types, TypeOK
<1>11. orphans' \subseteq Orders
  BY <1>0, Frame DEF PassOrphans, Types, TypeOK
<1>12. refused' \subseteq Orders
  <2>1. ASSUME NEW c \in Callers, ApplyReject(c) PROVE refused' \subseteq Orders
    <3>1. caller[c].order \in Orders
      BY <1>0, <2>1 DEF ApplyReject, Types, TypeOK
    <3> QED BY <1>0, <2>1, <3>1 DEF ApplyReject, Types, TypeOK
  <2> QED BY <1>0, <2>1, Frame DEF Types, TypeOK
<1>bare. bare' \subseteq Orders
  <2>0. bare \subseteq Orders
    BY <1>0 DEF Types, TypeOK
  <2>1. ASSUME NEW o \in Orders, NEW ev, NotesBare(o, ev) PROVE bare' \subseteq Orders
    BY <2>0, <2>1 DEF NotesBare
  <2>2. ASSUME NEW e \in stream, ConsumeStream(e) PROVE bare' \subseteq Orders
    <3>1. e.order \in Orders
      BY <1>0 DEF Types, TypeOK
    <3> QED BY <2>1, <2>2, <3>1 DEF ConsumeStream
  <2>3. ASSUME NEW c \in Callers, ApplyAck(c) PROVE bare' \subseteq Orders
    <3>1. caller[c].order \in Orders
      BY <1>0, <2>3 DEF ApplyAck, Types, TypeOK
    <3> QED BY <2>1, <2>3, <3>1 DEF ApplyAck
  <2>4. CASE PassApply
    <3>1. got \in [order : Orders, of : VenueState]
      BY <1>0, <2>4 DEF PassApply, Types
    <3>2. got.order \in Orders
      BY <3>1
    <3> QED BY <2>1, <2>4, <3>2 DEF PassApply
  <2> QED BY <2>0, <2>2, <2>3, <2>4, Frame
<1>creds. creds' \in BOOLEAN
  BY <1>0, Frame DEF Types, TypeOK
<1>13. TypeOK'
  BY <1>1, <1>2, <1>3, <1>4, <1>5, <1>6, <1>7, <1>8, <1>9, <1>10, <1>11, <1>12,
     <1>bare, <1>creds DEF TypeOK
<1> QED BY <1>3, <1>10, <1>13 DEF Types

\* Rows come first: Place inserts the row before the call can submit anything,
\* and a pass lists the rows after it has read the venue.
LEMMA RowFirstStep ==
  ASSUME IndInv, [Next]_vars
  PROVE  RowFirst'
<1>0. Types /\ BookOK /\ ReportsTrue /\ AcksTrue /\ RowFirst
  BY DEF IndInv
<1>1. \A o \in Orders : orders[o] # NoRow => orders'[o] # NoRow
  BY <1>0, RowsStep DEF RowsForward
<1>2. ASSUME NEW c \in Callers, caller[c].pc # "idle"
      PROVE  caller[c].order \in Orders /\ orders[caller[c].order] # NoRow
  BY <1>0, <1>2 DEF RowFirst, Types, TypeOK
<1>3. ASSUME NEW o \in Orders, venue'[o] # NoOrder PROVE orders[o] # NoRow
  <2>0. venue \in [Orders -> VenueState \cup {NoOrder}]
    BY <1>0 DEF Types, TypeOK
  <2>1. CASE venue[o] # NoOrder
    BY <1>0, <2>1 DEF RowFirst
  <2>2. CASE venue[o] = NoOrder
    <3>1. ASSUME NEW p \in Orders, VenueAcceptsLate(p) PROVE orders[o] # NoRow
      <4>1. p = o
        BY <1>3, <2>0, <2>2, <3>1 DEF VenueAcceptsLate, Accepted
      <4> QED BY <1>0, <3>1, <4>1 DEF VenueAcceptsLate, RowFirst
    <3>2. ASSUME NEW p \in Orders, VenueMoves(p) PROVE FALSE
      <4>1. p # o
        BY <2>2, <3>2 DEF VenueMoves, Live
      <4> QED BY <1>3, <2>0, <2>2, <3>2, <4>1 DEF VenueMoves
    <3>3. ASSUME NEW c \in Callers, SubmitAcked(c) PROVE orders[o] # NoRow
      <4>1. caller[c].pc # "idle"
        BY <3>3 DEF SubmitAcked
      <4>2. caller[c].order = o
        BY <1>3, <2>0, <2>2, <3>3 DEF SubmitAcked, Accepted
      <4> QED BY <1>2, <4>1, <4>2
    <3>4. ASSUME NEW c \in Callers, CancelVenue(c) PROVE orders[o] # NoRow
      <4>1. caller[c].pc # "idle"
        BY <3>4 DEF CancelVenue
      <4>2. caller[c].order = o
        BY <1>3, <2>0, <2>2, <3>4 DEF CancelVenue
      <4> QED BY <1>2, <4>1, <4>2
    <3> QED BY <1>3, <2>2, <3>1, <3>2, <3>3, <3>4, Frame
  <2> QED BY <2>1, <2>2
<1>4. ASSUME NEW o \in Orders, snap'[o] # NoOrder PROVE orders[o] # NoRow
  <2>1. CASE UNCHANGED snap
    BY <1>0, <1>4, <2>1 DEF RowFirst
  <2>2. CASE PassOpenOrders
    BY <1>0, <1>4, <2>2 DEF PassOpenOrders, Live, RowFirst
  <2>3. CASE PassOrphans \/ Crash
    BY <1>4, <2>3 DEF PassOrphans, Crash
  <2> QED BY <2>1, <2>2, <2>3, Frame
<1>5. ASSUME NEW o \in inflight' PROVE o \in Orders /\ orders[o] # NoRow
  <2>1. CASE o \in inflight
    BY <1>0, <2>1 DEF RowFirst, Types, TypeOK
  <2>2. ASSUME NEW c \in Callers, SubmitAmbiguous(c), o \notin inflight
        PROVE  o = caller[c].order /\ caller[c].pc # "idle"
    BY <1>5, <2>2 DEF SubmitAmbiguous
  <2> QED BY <1>2, <1>5, <2>1, <2>2, Frame DEF VenueAcceptsLate
<1>6. ASSUME NEW c \in Callers, caller'[c].pc # "idle"
      PROVE  orders'[caller'[c].order] # NoRow
  <2>1. CASE caller'[c] = caller[c]
    BY <1>1, <1>2, <1>6, <2>1
  <2>2. ASSUME NEW o \in Orders, Place(c, o) PROVE orders'[o] # NoRow
    <3>1. CASE orders[o] # NoRow
      BY <1>1, <3>1
    <3>2. CASE orders[o] = NoRow
      <4>1. orders' = [orders EXCEPT ![o] = Store!PendingRow]
        BY <2>2, <3>2 DEF Place
      <4>2. orders'[o] = Store!PendingRow
        BY <1>0, <4>1 DEF Types, TypeOK
      <4>3. Store!PendingRow.status # NoRow.status
        BY DEF Store!PendingRow, NoRow, Store!NoRow, Store!None
      <4> QED BY <4>2, <4>3
    <3> QED BY <3>1, <3>2
  <2>3. ASSUME NEW o \in Orders, Cancel(c, o) PROVE orders'[o] # NoRow
    BY <1>1, <2>3 DEF Cancel
  <2>4. SubmitAcked(c) => caller[c].pc # "idle"
    BY DEF SubmitAcked
  <2> QED BY <1>0, <1>1, <1>2, <1>6, <2>1, <2>2, <2>3, <2>4, CallMoves
<1>7. orphans' = {}
  <2>1. CASE PassOrphans
    BY <1>0, <2>1 DEF PassOrphans, RowFirst
  <2> QED BY <1>0, <2>1, Frame DEF RowFirst
<1>8. \A o \in inflight' : orders'[o] # NoRow
  BY <1>1, <1>5
<1> QED BY <1>1, <1>3, <1>4, <1>6, <1>7, <1>8 DEF RowFirst

\* A state the venue has reached stays reached.
LEMMA ReachedStays ==
  ASSUME NEW s \in VenueState, NEW v \in VenueState \cup {NoOrder},
         NEW w \in VenueState \cup {NoOrder}, Reached(s, v), Advances(v, w)
  PROVE  Reached(s, w)
<1>1. CASE w = v
  BY <1>1
<1>2. CASE w # v
  <2>1. v \in VenueState /\ w \in VenueState /\ Live(v)
    BY <1>2 DEF Reached, Advances
  <2>2. /\ s.filledQty \in 0 .. Qty /\ v.filledQty \in 0 .. Qty
        /\ w.filledQty \in 0 .. Qty
        /\ s.status \in Status /\ v.status \in Status /\ w.status \in Status
    BY <2>1 DEF VenueState
  <2>3. /\ s.filledQty <= v.filledQty /\ v.filledQty <= w.filledQty
        /\ Rank(s.status) <= Rank(v.status) /\ Rank(v.status) <= Rank(w.status)
        /\ w # NoOrder
    BY <1>2 DEF Reached, Advances
  <2>4. /\ Rank(s.status) \in 0 .. 3 /\ Rank(v.status) \in 0 .. 3
        /\ Rank(w.status) \in 0 .. 3
    BY <2>2, RankType
  <2>5. ~Terminal(s.status)
    BY <2>1, <2>3, <2>4 DEF Live, Terminal, TerminalRank
  <2>6. /\ s.filledQty <= w.filledQty
        /\ Rank(s.status) <= Rank(w.status)
    <3> HIDE DEF Rank
    <3> QED BY <2>2, <2>3, <2>4, FlowAssumption
  <2> QED BY <2>3, <2>5, <2>6 DEF Reached
<1> QED BY <1>1, <1>2

\* Every report is made of the venue's state at the time, and stays true however
\* late it arrives.
LEMMA ReportsStep ==
  ASSUME IndInv, [Next]_vars
  PROVE  ReportsTrue'
<1>0. Types /\ BookOK /\ ReportsTrue
  BY DEF IndInv
<1>1. /\ venue \in [Orders -> VenueState \cup {NoOrder}]
      /\ venue' \in [Orders -> VenueState \cup {NoOrder}]
      /\ \A o \in Orders : Advances(venue[o], venue'[o])
  BY <1>0, VenueStep DEF VenueForward, Types, TypeOK
<1>2. ASSUME NEW o \in Orders, NEW s \in VenueState, Reached(s, venue[o])
      PROVE  Reached(s, venue'[o])
  BY <1>1, <1>2, ReachedStays
<1>3. ASSUME NEW e \in stream' PROVE Reached(e.of, venue'[e.order])
  <2>old. CASE e \in stream
    <3>1. e.order \in Orders /\ e.of \in VenueState /\ Reached(e.of, venue[e.order])
      BY <1>0, <2>old DEF Types, TypeOK, ReportsTrue
    <3> QED BY <1>2, <3>1
  <2>new. ASSUME NEW o \in Orders, NEW v, e \notin stream,
                 venue' = [venue EXCEPT ![o] = v], v # NoOrder, Tells(o, v)
          PROVE  Reached(e.of, venue'[e.order])
    <3>1. venue'[o] = v /\ v \in VenueState
      BY <1>1, <2>new
    <3>2. PICK rep \in Reports(v) : e = [order |-> o, of |-> rep]
      BY <1>3, <2>new DEF Tells
    <3> QED BY <3>1, <3>2, ReportsReached
  <2>late. ASSUME NEW o \in Orders, VenueAcceptsLate(o), e \notin stream
           PROVE  Reached(e.of, venue'[e.order])
    <3>1. venue[o] = NoOrder
      BY <1>3, <2>late DEF VenueAcceptsLate
    <3>2. PICK v \in FirstStates : venue' = [venue EXCEPT ![o] = v] /\ Tells(o, v)
      BY <2>late, <3>1 DEF VenueAcceptsLate, Accepted
    <3> QED BY <2>late, <2>new, <3>2, FirstStatesType, Distinct
  <2>moves. ASSUME NEW o \in Orders, VenueMoves(o), e \notin stream
            PROVE  Reached(e.of, venue'[e.order])
    <3>1. PICK v \in Fillings(venue[o]) \cup Closings(venue[o]) :
            venue' = [venue EXCEPT ![o] = v] /\ Tells(o, v)
      BY <2>moves DEF VenueMoves
    <3>2. venue[o] \in VenueState /\ Live(venue[o]) /\ venue[o].filledQty < Qty
      BY <1>0, <1>1, <2>moves DEF VenueMoves, Live, BookOK
    <3> QED BY <2>moves, <2>new, <3>1, <3>2, MovesForward, Distinct
  <2>ack. ASSUME NEW c \in Callers, SubmitAcked(c), e \notin stream
          PROVE  Reached(e.of, venue'[e.order])
    <3>1. caller[c].order \in Orders
      BY <1>0, <2>ack DEF SubmitAcked, Types, TypeOK
    <3>2. PICK v \in FirstStates : /\ venue' = [venue EXCEPT ![caller[c].order] = v]
                                   /\ Tells(caller[c].order, v)
      BY <2>ack DEF SubmitAcked, Accepted
    <3> QED BY <2>ack, <2>new, <3>1, <3>2, FirstStatesType, Distinct
  <2>cancel. ASSUME NEW c \in Callers, CancelVenue(c), e \notin stream
             PROVE  Reached(e.of, venue'[e.order])
    <3> DEFINE o == caller[c].order
               v == [status |-> "canceled", filledQty |-> venue[o].filledQty]
    <3>1. o \in Orders
      BY <1>0, <2>cancel DEF CancelVenue, Types, TypeOK
    <3>2. venue' = [venue EXCEPT ![o] = v] /\ Tells(o, v)
      BY <1>3, <2>cancel DEF CancelVenue
    <3>3. v # NoOrder
      BY DEF NoOrder
    <3> HIDE DEF o, v
    <3> QED BY <2>cancel, <2>new, <3>1, <3>2, <3>3
  <2>crash. CASE Crash
    BY <1>3, <2>crash DEF Crash
  <2> QED BY <1>3, <2>old, <2>late, <2>moves, <2>ack, <2>cancel, <2>crash, Frame
<1>4. ASSUME NEW o \in Orders, snap'[o] # NoOrder
      PROVE  Live(snap'[o]) /\ Reached(snap'[o], venue'[o])
  <2>1. CASE UNCHANGED snap
    BY <1>0, <1>2, <1>4, <2>1 DEF Types, TypeOK, ReportsTrue
  <2>2. CASE PassOpenOrders
    <3>1. snap'[o] = venue[o] /\ venue[o] \in VenueState /\ Live(venue[o])
      BY <1>1, <1>4, <2>2 DEF PassOpenOrders
    <3> QED BY <1>2, <3>1, ReachedNow
  <2>3. CASE PassOrphans \/ Crash
    BY <1>4, <2>3 DEF PassOrphans, Crash
  <2> QED BY <2>1, <2>2, <2>3, Frame
<1>5. ASSUME got' # NoAnswer PROVE Reached(got'.of, venue'[got'.order])
  <2>1. CASE UNCHANGED got
    <3>1. got \in [order : Orders, of : VenueState] /\ Reached(got.of, venue[got.order])
      BY <1>0, <1>5, <2>1 DEF Types, ReportsTrue
    <3>2. got.order \in Orders /\ got.of \in VenueState
      BY <3>1
    <3> QED BY <1>2, <2>1, <3>1, <3>2
  <2>2. ASSUME NEW o \in Orders, PassLookup(o)
        PROVE  Reached(got'.of, venue'[got'.order])
    <3>1. venue[o] \in VenueState
      BY <1>1, <2>2 DEF PassLookup
    <3>2. PICK rep \in Reports(venue[o]) : got' = [order |-> o, of |-> rep]
      BY <2>2 DEF PassLookup
    <3>3. rep \in VenueState /\ Reached(rep, venue[o])
      BY <3>1, ReportsReached
    <3> QED BY <1>2, <3>2, <3>3
  <2>3. CASE PassApply \/ Crash
    BY <1>5, <2>3 DEF PassApply, Crash
  <2>4. CASE PassOpenOrders \/ PassListActive \/ PassOrphans
    BY <2>1, <2>4 DEF PassOpenOrders, PassListActive, PassOrphans
  <2> QED BY <2>1, <2>2, <2>3, <2>4, Frame
<1> QED BY <1>3, <1>4, <1>5 DEF ReportsTrue

\* An ack in a caller's hand stays true while the venue moves on.
LEMMA AcksStep ==
  ASSUME IndInv, [Next]_vars
  PROVE  AcksTrue'
<1>0. Types /\ BookOK /\ AcksTrue
  BY DEF IndInv
<1>1. /\ venue \in [Orders -> VenueState \cup {NoOrder}]
      /\ venue' \in [Orders -> VenueState \cup {NoOrder}]
      /\ \A o \in Orders : Advances(venue[o], venue'[o])
  BY <1>0, VenueStep DEF VenueForward, Types, TypeOK
<1> SUFFICES ASSUME NEW c \in Callers, caller'[c].pc = "ack"
             PROVE  AckTrue(c)'
  BY DEF AcksTrue
<1>2. CASE caller'[c] = caller[c]
  <2> DEFINE o == caller[c].order
             a == caller[c].ack
             v == venue[o]
             w == venue'[o]
  <2>1. o \in Orders /\ AckTrue(c)
    BY <1>0, <1>2 DEF Types, TypeOK, AcksTrue
  <2>2. /\ a \in Status /\ v # NoOrder
        /\ Rank(a) <= Rank(v.status)
        /\ Terminal(a) => a = v.status
    BY <2>1 DEF AckTrue
  <2>3. caller'[c].order = o /\ caller'[c].ack = a
    BY <1>2
  <2>4. CASE w = v
    BY <2>2, <2>3, <2>4 DEF AckTrue
  <2>5. CASE w # v
    <3>1. /\ Live(v) /\ w # NoOrder /\ Rank(v.status) <= Rank(w.status)
      BY <1>1, <2>1, <2>2, <2>5 DEF Advances
    <3>2. v \in VenueState /\ w \in VenueState
      BY <1>1, <2>1, <2>2, <3>1
    <3>3. Rank(a) \in 0 .. 3 /\ Rank(v.status) \in 0 .. 3 /\ Rank(w.status) \in 0 .. 3
      BY <2>2, <3>2, Distinct, RankType
    <3>4. ~Terminal(a) /\ Rank(a) <= Rank(w.status)
      <4>1. Rank(v.status) # 3
        BY <3>1 DEF Live, Terminal, TerminalRank
      <4>2. Rank(a) # 3 /\ Rank(a) <= Rank(w.status)
        <5> HIDE DEF Rank, a, v, w
        <5> QED BY <2>2, <3>1, <3>3, <4>1
      <4> QED BY <4>2 DEF Terminal, TerminalRank
    <3> QED BY <2>2, <2>3, <3>1, <3>4 DEF AckTrue
  <2> QED BY <2>4, <2>5
<1>3. CASE caller'[c] # caller[c]
  <2>1. SubmitAcked(c) /\ caller'[c].order = caller[c].order
    BY <1>0, <1>3, CallMoves
  <2> DEFINE o == caller[c].order
  <2>2. o \in Orders
    BY <1>0, <2>1 DEF SubmitAcked, Types, TypeOK
  <2>3. PICK v \in FirstStates, ack \in Status :
          /\ ack = v.status \/ Rank(ack) < Rank(v.status)
          /\ venue' = [venue EXCEPT ![o] = v]
          /\ caller' = [caller EXCEPT ![c].pc = "ack", ![c].ack = ack]
    BY <2>1 DEF SubmitAcked, Accepted
  <2>4. venue'[o] = v /\ v \in VenueState /\ v # NoOrder
    BY <1>1, <2>2, <2>3, FirstStatesType, Distinct
  <2>5. caller'[c].ack = ack
    BY <1>0, <2>3 DEF Types, CallState
  <2>6. ack \in Status /\ v.status \in Status
    BY <2>4, Distinct
  <2>7. Rank(ack) \in 0 .. 3 /\ Rank(v.status) \in 0 .. 3
    BY <2>6, RankType
  <2>8. Rank(ack) <= Rank(v.status) /\ (Rank(ack) = 3 => ack = v.status)
    <3> HIDE DEF Rank
    <3> QED BY <2>3, <2>7
  <2> QED BY <2>1, <2>4, <2>5, <2>8 DEF AckTrue, Terminal, TerminalRank
<1> QED BY <1>2, <1>3

\* A row that does not change stays behind the venue as the venue moves on.
LEMMA BehindStays ==
  ASSUME Types, NEW o \in Orders, orders[o] # NoRow, Behind(o),
         venue'[o] \in VenueState \cup {NoOrder},
         Advances(venue[o], venue'[o]),
         o \in refused => o \in refused',
         o \in bare => o \in bare',
         orders'[o].status = orders[o].status,
         orders'[o].filledQty = orders[o].filledQty
  PROVE  Behind(o)'
<1>1. orders[o] \in StoredRow /\ venue[o] \in VenueState \cup {NoOrder}
  BY DEF Types, TypeOK
<1>2. /\ orders[o].status \in Status /\ orders[o].filledQty \in 0 .. Qty
      /\ venue[o].filledQty \in 0 .. Qty /\ venue'[o].filledQty \in 0 .. Qty
  BY <1>1, FlowAssumption DEF StoredRow, VenueState, NoOrder
<1>3. CASE venue'[o] = venue[o]
  BY <1>3 DEF Behind
<1>4. CASE venue[o] = NoOrder
  <2>1. orders[o].filledQty <= 0 /\ (o \in refused \/ orders[o].status = "pending")
    BY <1>4 DEF Behind, NoOrder
  <2>2. orders'[o].filledQty <= venue'[o].filledQty
    BY <1>2, <2>1
  <2> QED BY <2>1, <2>2 DEF Behind
<1>5. CASE /\ Live(venue[o]) /\ venue'[o] # NoOrder
           /\ venue[o].filledQty <= venue'[o].filledQty
           /\ Rank(venue[o].status) <= Rank(venue'[o].status)
  <2>1. venue[o] \in VenueState /\ venue'[o] \in VenueState
    BY <1>1, <1>5 DEF Live
  <2>2. /\ Rank(orders[o].status) \in 0 .. 3 /\ Rank(venue[o].status) \in 0 .. 3
        /\ Rank(venue'[o].status) \in 0 .. 3
    BY <1>2, <2>1, Distinct, RankType
  <2>3. Rank(venue[o].status) # 3
    BY <1>5 DEF Live, Terminal, TerminalRank
  <2>4. orders'[o].filledQty <= venue'[o].filledQty
    BY <1>2, <1>5 DEF Behind
  <2>5. ASSUME o \notin refused', orders'[o].status # "pending"
        PROVE  /\ Rank(orders'[o].status) <= Rank(venue'[o].status)
               /\ Rank(orders'[o].status) # 3
    <3>1. Rank(orders[o].status) <= Rank(venue[o].status)
      BY <2>5 DEF Behind
    <3> HIDE DEF Rank
    <3> QED BY <1>5, <2>2, <2>3, <3>1
  <2> QED BY <1>5, <2>4, <2>5 DEF Behind, Terminal, TerminalRank
<1> QED BY <1>3, <1>4, <1>5 DEF Advances

\* An event that tells of order o nothing the venue has not reached, and if it
\* leaves out the final quantity is noted as doing so.
Truthful(ev, o) ==
  /\ venue[o] # NoOrder
  /\ Rank(ev.status) <= Rank(venue[o].status)
  /\ Terminal(ev.status) =>
       /\ ev.status = venue[o].status
       /\ Claimed(ev) = venue[o].filledQty \/ ev.filledQty = 0

\* NotesBare notes every event that closes the row without a quantity.
Noted(ev, o) ==
  \/ Terminal(orders[o].status)
  \/ ~Terminal(ev.status)
  \/ ev.filledQty # 0
  \/ o \in bare'

\* The join of a row that is behind with a truthful event is behind; so is the
\* join with any event that claims no more than the venue has filled, when the
\* order is one the call itself refuses.
LEMMA BehindApplied ==
  ASSUME IndInv, [Next]_vars, UNCHANGED venue,
         NEW o \in Orders, NEW ev \in Events, Store!ApplyEvent(o, ev),
         Claimed(ev) <= venue[o].filledQty,
         \/ Truthful(ev, o) /\ Noted(ev, o)
         \/ Terminal(orders[o].status)
         \/ o \in refused',
         o \in refused => o \in refused',
         o \in bare => o \in bare'
  PROVE  Behind(o)'
<1>0. Types /\ RowsBehind
  BY DEF IndInv
<1>1. /\ orders[o] \in StoredRow /\ orders[o] # NoRow
      /\ orders'[o] = Store!Applied(orders[o], ev)
  BY <1>0, ApplyEventStep, Distinct
<1> DEFINE r == orders[o]
           n == orders'[o]
           v == venue[o]
<1>2. /\ n.status = IF Rank(ev.status) > Rank(r.status) THEN ev.status ELSE r.status
      /\ n.filledQty = IF Claimed(ev) > r.filledQty THEN Claimed(ev) ELSE r.filledQty
  BY <1>1, AppliedRow
<1>3. /\ r.status \in Status /\ r.filledQty \in 0 .. Qty
      /\ ev.status \in Status /\ Claimed(ev) \in 0 .. Qty
      /\ v.filledQty \in 0 .. Qty /\ Claimed(ev) <= v.filledQty
  BY <1>0, <1>1, FlowAssumption
     DEF StoredRow, Events, Claimed, Types, TypeOK, VenueState, NoOrder
<1>4. Rank(r.status) \in 0 .. 3 /\ Rank(ev.status) \in 0 .. 3
  BY <1>3, RankType
<1>5. Behind(o)
  BY <1>0, <1>1 DEF RowsBehind
<1>6. n.filledQty <= v.filledQty
  <2>1. r.filledQty <= v.filledQty
    BY <1>5 DEF Behind
  <2> HIDE DEF r, n, v, Rank
  <2> QED BY <1>2, <1>3, <2>1
<1>7. ASSUME o \notin refused', n.status # "pending"
      PROVE  /\ v # NoOrder
             /\ Rank(n.status) <= Rank(v.status)
             /\ Terminal(n.status) =>
                  /\ n.status = v.status
                  /\ o \notin bare' => n.filledQty = v.filledQty
  <2>1. CASE Rank(ev.status) > Rank(r.status)
    <3>1. n.status = ev.status
      BY <1>2, <2>1
    <3>2. ~Terminal(r.status)
      <4>1. Rank(r.status) # 3
        <5> HIDE DEF Rank, r
        <5> QED BY <1>4, <2>1
      <4> QED BY <4>1 DEF Terminal, TerminalRank
    <3>3. /\ Truthful(ev, o)
          /\ Terminal(ev.status) /\ o \notin bare' => ev.filledQty # 0
      BY <1>7, <3>2 DEF Noted
    <3>4. ASSUME Claimed(ev) = v.filledQty
          PROVE  n.filledQty = v.filledQty
      <4>1. r.filledQty <= v.filledQty
        BY <1>5 DEF Behind
      <4> HIDE DEF r, n, v, Rank
      <4> QED BY <1>2, <1>3, <3>4, <4>1
    <3> QED BY <3>1, <3>3, <3>4 DEF Truthful
  <2>2. CASE ~(Rank(ev.status) > Rank(r.status))
    <3>1. n.status = r.status
      BY <1>2, <2>2
    <3>2. /\ v # NoOrder
          /\ Rank(r.status) <= Rank(v.status)
          /\ Terminal(r.status) =>
               /\ r.status = v.status
               /\ o \notin bare' => r.filledQty = v.filledQty
      BY <1>5, <1>7, <3>1 DEF Behind
    <3>3. r.filledQty = v.filledQty => n.filledQty = v.filledQty
      <4> HIDE DEF r, n, v, Rank
      <4> QED BY <1>2, <1>3
    <3> QED BY <3>1, <3>2, <3>3
  <2> QED BY <2>1, <2>2
<1> QED BY <1>6, <1>7 DEF Behind

\* The same for an event made of a state the venue has reached.
LEMMA BehindReport ==
  ASSUME IndInv, [Next]_vars, UNCHANGED <<venue, refused>>,
         NEW o \in Orders, NEW s \in VenueState, Reached(s, venue[o]),
         Store!ApplyEvent(o, EventOf(s)),
         Noted(EventOf(s), o), o \in bare => o \in bare'
  PROVE  Behind(o)'
<1>1. /\ EventOf(s) \in Events /\ EventOf(s).status = s.status
      /\ EventOf(s).filledQty = s.filledQty
      /\ Claimed(EventOf(s)) = s.filledQty
  BY EventOfType
<1>2. Claimed(EventOf(s)) <= venue[o].filledQty /\ Truthful(EventOf(s), o)
  BY <1>1 DEF Reached, Truthful
<1> QED BY <1>1, <1>2, BehindApplied

\* Rows stay behind the venue.
LEMMA RowsBehindStep ==
  ASSUME IndInv, [Next]_vars
  PROVE  RowsBehind'
<1>0. Types /\ BookOK /\ ReportsTrue /\ AcksTrue /\ RowsBehind
  BY DEF IndInv
<1>1. /\ orders \in [Orders -> StoredRow \cup {NoRow}]
      /\ venue \in [Orders -> VenueState \cup {NoOrder}]
  BY <1>0 DEF Types, TypeOK
<1>2. /\ venue' \in [Orders -> VenueState \cup {NoOrder}]
      /\ \A o \in Orders : Advances(venue[o], venue'[o])
  BY <1>0, VenueStep DEF VenueForward
<1>3. refused \subseteq refused' /\ bare \subseteq bare'
  <2>1. refused \subseteq refused'
    BY Frame DEF ApplyReject
  <2>2. \A o, ev : NotesBare(o, ev) => bare \subseteq bare'
    BY DEF NotesBare
  <2>3. bare \subseteq bare'
    BY <2>2, Frame DEF ConsumeStream, ApplyAck, PassApply
  <2> QED BY <2>1, <2>3
<1>noted. \A o, ev : NotesBare(o, ev) => Noted(ev, o)
  BY DEF NotesBare, Noted
<1>4. ASSUME NEW o \in Orders, orders[o] # NoRow, orders'[o] = orders[o]
      PROVE  Behind(o)'
  <2>1. Behind(o)
    BY <1>0, <1>4 DEF RowsBehind
  <2> QED BY <1>0, <1>2, <1>3, <1>4, <2>1, BehindStays
<1>5. CASE UNCHANGED orders
  BY <1>4, <1>5 DEF RowsBehind
<1>6. ASSUME NEW o \in Orders, NEW ev \in Events, Store!ApplyEvent(o, ev),
             Behind(o)'
      PROVE  RowsBehind'
  <2>1. \A p \in Orders \ {o} : orders'[p] = orders[p]
    BY <1>0, <1>6, ApplyEventStep
  <2> QED BY <1>4, <1>6, <2>1 DEF RowsBehind
<1>7. ASSUME NEW o \in Orders, NEW s \in VenueState, Reached(s, venue[o]),
             UNCHANGED <<venue, refused>>, Store!ApplyEvent(o, EventOf(s)),
             Noted(EventOf(s), o)
      PROVE  RowsBehind'
  <2>1. EventOf(s) \in Events
    BY EventOfType
  <2>2. Behind(o)'
    BY <1>3, <1>7, BehindReport
  <2> QED BY <1>6, <1>7, <2>1, <2>2
<1>8. ASSUME NEW o \in Orders, PassPresent(o) PROVE RowsBehind'
  <2>1. snap[o] \in VenueState /\ Live(snap[o]) /\ Reached(snap[o], venue[o])
    BY <1>0, <1>8 DEF PassPresent, Types, TypeOK, ReportsTrue
  <2>2. /\ UNCHANGED <<venue, refused>>
        /\ UNCHANGED orders \/ Store!ApplyEvent(o, EventOf(snap[o]))
    BY <1>8 DEF PassPresent, venueVars, ownVars
  <2>3. Noted(EventOf(snap[o]), o)
    BY <2>1, EventOfType DEF Live, Noted
  <2> QED BY <1>5, <1>7, <2>1, <2>2, <2>3
<1>9. ASSUME NEW e \in stream, ConsumeStream(e) PROVE RowsBehind'
  <2>1. e.order \in Orders /\ e.of \in VenueState /\ Reached(e.of, venue[e.order])
    BY <1>0 DEF Types, TypeOK, ReportsTrue
  <2>2. /\ UNCHANGED <<venue, refused>> /\ Store!ApplyEvent(e.order, EventOf(e.of))
        /\ Noted(EventOf(e.of), e.order)
    BY <1>9, <1>noted DEF ConsumeStream, venueVars
  <2> QED BY <1>7, <2>1, <2>2
<1>10. ASSUME PassApply PROVE RowsBehind'
  <2>1. got \in [order : Orders, of : VenueState] /\ Reached(got.of, venue[got.order])
    BY <1>0, <1>10 DEF PassApply, Types, ReportsTrue
  <2>2. got.order \in Orders /\ got.of \in VenueState
    BY <2>1
  <2>3. /\ UNCHANGED <<venue, refused>> /\ Store!ApplyEvent(got.order, EventOf(got.of))
        /\ Noted(EventOf(got.of), got.order)
    BY <1>10, <1>noted DEF PassApply, venueVars
  <2> QED BY <1>7, <2>1, <2>2, <2>3
<1>11. ASSUME NEW c \in Callers, ApplyAck(c) PROVE RowsBehind'
  <2>0. PICK o \in Orders : o = caller[c].order
    BY <1>0, <1>11 DEF ApplyAck, Types, TypeOK
  <2>1. /\ caller[c].pc = "ack" /\ Store!ApplyEvent(o, AckEvent(c))
        /\ UNCHANGED <<venue, refused>> /\ Noted(AckEvent(c), o)
    BY <1>11, <1>noted, <2>0 DEF ApplyAck, AckEvent, venueVars
  <2>2. AckTrue(c) /\ caller[c].ack \in Status
    BY <1>0, <2>1, FlowAssumption DEF Types, TypeOK, AcksTrue, AckTrue
  <2>3. AckEvent(c) \in Events
    BY <2>2, OwnEventsType
  <2>4. /\ AckEvent(c).status = caller[c].ack
        /\ AckEvent(c).filledQty = 0 /\ Claimed(AckEvent(c)) = 0
    BY DEF AckEvent, Claimed
  <2>5. Claimed(AckEvent(c)) <= venue[o].filledQty
    BY <1>1, <2>4, FlowAssumption DEF VenueState, NoOrder
  <2>6. Truthful(AckEvent(c), o)
    BY <2>0, <2>2, <2>4 DEF Truthful, AckTrue
  <2>7. Behind(o)'
    BY <1>3, <2>1, <2>2, <2>3, <2>5, <2>6, BehindApplied
  <2> QED BY <1>6, <2>1, <2>2, <2>3, <2>7
<1>12. ASSUME NEW c \in Callers, ApplyReject(c) PROVE RowsBehind'
  <2>0. PICK o \in Orders : o = caller[c].order
    BY <1>0, <1>12 DEF ApplyReject, Types, TypeOK
  <2>1. /\ caller[c].pc = "reject" /\ Store!ApplyEvent(o, RejectEvent)
        /\ UNCHANGED venue
        /\ Terminal(orders[o].status) \/ o \in refused'
    BY <1>12, <2>0 DEF ApplyReject, RejectEvent, venueVars
  <2>2. Claimed(RejectEvent) = 0
    BY DEF RejectEvent, Claimed
  <2>3. Claimed(RejectEvent) <= venue[o].filledQty
    BY <1>1, <2>2, FlowAssumption DEF VenueState, NoOrder
  <2>4. Behind(o)'
    BY <1>3, <2>1, <2>3, OwnEventsType, BehindApplied
  <2> QED BY <1>6, <2>1, <2>4, OwnEventsType
<1>13. ASSUME NEW c \in Callers, CancelMark(c) PROVE RowsBehind'
  <2>0. PICK o \in Orders : o = caller[c].order
    BY <1>0, <1>13 DEF CancelMark, Types, TypeOK
  <2> DEFINE new == [orders[o] EXCEPT !.cancelRequested = TRUE]
  <2>1. /\ orders[o] # NoRow
        /\ orders' = [orders EXCEPT ![o] = new]
    BY <1>13, <2>0 DEF CancelMark, Store!MarkCancelRequested, NoRow
  <2>2. orders[o] \in StoredRow
    BY <1>1, <2>1
  <2>3. new.status = orders[o].status /\ new.filledQty = orders[o].filledQty
    BY <2>2 DEF StoredRow
  <2>4. \A p \in Orders : orders'[p] = IF p = o THEN new ELSE orders[p]
    BY <1>1, <2>1
  <2>5. Behind(o)
    BY <1>0, <2>1 DEF RowsBehind
  <2>6. Behind(o)'
    BY <1>0, <1>2, <1>3, <2>1, <2>3, <2>4, <2>5, BehindStays
  <2> QED BY <1>4, <2>4, <2>6 DEF RowsBehind
<1>14. ASSUME NEW c \in Callers, NEW o \in Orders, Place(c, o) PROVE RowsBehind'
  <2>1. CASE orders[o] # NoRow
    BY <1>5, <1>14, <2>1 DEF Place
  <2>2. CASE orders[o] = NoRow
    <3>1. orders' = [orders EXCEPT ![o] = Store!PendingRow]
      BY <1>14, <2>2 DEF Place
    <3>2. \A p \in Orders : orders'[p] = IF p = o THEN Store!PendingRow ELSE orders[p]
      BY <1>1, <3>1
    <3>3. venue'[o].filledQty \in 0 .. Qty
      BY <1>2, FlowAssumption DEF VenueState, NoOrder
    <3>4. orders'[o].status = "pending" /\ orders'[o].filledQty = 0
      BY <3>2 DEF Store!PendingRow
    <3>5. Behind(o)'
      BY <3>3, <3>4, FlowAssumption DEF Behind
    <3> QED BY <1>4, <3>2, <3>5 DEF RowsBehind
  <2> QED BY <2>1, <2>2
<1> QED
  BY <1>5, <1>8, <1>9, <1>10, <1>11, <1>12, <1>13, <1>14, Frame

--------------------------------------------------------------------------------
(* The theorems. *)

\* The invariant holds in every reachable state.
THEOREM Invariance == Spec => []IndInv
<1>1. Init => IndInv
  <2> SUFFICES ASSUME Init PROVE IndInv
    OBVIOUS
  <2> USE DEF Init
  <2>1. IdleCall \in CallState /\ IdleCall.pc = "idle"
    BY DEF IdleCall, CallState
  <2>2. TypeOK
    BY <2>1 DEF TypeOK
  <2>3. Types
    BY <2>1, <2>2 DEF Types
  <2>4. RowFirst /\ AcksTrue
    BY <2>1 DEF RowFirst, AcksTrue
  <2>5. BookOK /\ ReportsTrue /\ RowsBehind
    BY DEF BookOK, Live, ReportsTrue, RowsBehind
  <2> QED BY <2>3, <2>4, <2>5 DEF IndInv
<1>2. IndInv /\ [Next]_vars => IndInv'
  <2> SUFFICES ASSUME IndInv, [Next]_vars PROVE IndInv'
    OBVIOUS
  <2>1. BookOK'
    BY VenueStep DEF IndInv, VenueForward
  <2> QED
    BY <2>1, TypesStep, RowFirstStep, ReportsStep, AcksStep, RowsBehindStep
       DEF IndInv
<1> QED BY <1>1, <1>2, PTL DEF Spec

\* An order of this system is never announced as a foreign one, however passes,
\* placements, late submits and crashes interleave.
THEOREM NeverOrphan == Spec => []OwnOrderNeverOrphan
<1>1. IndInv => OwnOrderNeverOrphan
  BY DEF IndInv, RowFirst, OwnOrderNeverOrphan
<1> QED BY <1>1, Invariance, PTL

\* The local row is never ahead of the venue: Place, Cancel, the stream consumer
\* and the pass store no fill, no status and no end of an order that the venue
\* has not reached, whatever the acks say; and a closed row has the venue's
\* final quantity unless a report without a quantity closed it.
THEOREM NeverAhead == Spec => []LocalNeverAhead
<1>1. IndInv => LocalNeverAhead
  BY DEF IndInv, Types, RowsBehind, Behind, LocalNeverAhead
<1> QED BY <1>1, Invariance, PTL
================================================================================
