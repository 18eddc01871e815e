------------------------------ MODULE OrderEvents ------------------------------
(***************************************************************************)
(* One order, its life at the venue, and the reports of that life reaching *)
(* the local state machine through the ack, the private stream and         *)
(* reconciliation: in any order, any number of times, or never.            *)
(*                                                                         *)
(* A report pairs a status the order had at the venue with a cumulative    *)
(* fill that the venue had reached by then, or an older one: the ack       *)
(* carries no cumulative quantity at all (order.go:115), and venues send a *)
(* cancel whose quantity lags a fill they already reported                 *)
(* (docs/specs/manual-trading.md:128).  Every report is applied with       *)
(* Transition, one at a time, as the row lock of ApplyEvent guarantees     *)
(* (module OrderStore).                                                    *)
(***************************************************************************)
EXTENDS OrderMachine

CONSTANT Qty          \* the quantity of the order: bounds what can fill

ASSUME QtyAssumption == Qty \in Nat \ {0}

VARIABLES
  venue,              \* the true state of the order at the venue
  reports,            \* every report the venue has made of it
  delivered,          \* the reports applied locally at least once
  local               \* the stored [status, filledQty]

vars == <<venue, reports, delivered, local>>

Report == [status : Status, filledQty : 0 .. Qty]

Init == /\ venue = [status |-> "pending", filledQty |-> 0]
        /\ reports = {}
        /\ delivered = {}
        /\ local = [status |-> "pending", filledQty |-> 0]

\* External: the order moves at the venue.  Ranks rise, quantities grow, a
\* terminal order is finished, and the order is filled exactly when nothing
\* of it is left.
VenueStep ==
  /\ ~Terminal(venue.status)
  /\ \E next \in Report :
       /\ next # venue
       /\ Rank(next.status) >= Rank(venue.status)
       /\ next.filledQty >= venue.filledQty
       /\ next.status = "filled" <=> next.filledQty = Qty
       /\ next.status \in {"pending", "open", "rejected"} => next.filledQty = 0
       /\ next.status = "partially_filled" => next.filledQty > 0
       /\ venue' = next
  /\ UNCHANGED <<reports, delivered, local>>

\* External: the venue reports its current status with the current cumulative
\* quantity or one it had before.
VenueReport ==
  /\ \E q \in 0 .. venue.filledQty :
       reports' = reports \cup {[status |-> venue.status, filledQty |-> q]}
  /\ UNCHANGED <<venue, delivered, local>>

\* Any of the three sources applies a report, possibly not for the first time.
Deliver(ev) ==
  /\ ev \in reports
  /\ local' = Apply(local, ev)
  /\ delivered' = delivered \cup {ev}
  /\ UNCHANGED <<venue, reports>>

Next == \/ VenueStep
        \/ VenueReport
        \/ \E ev \in reports : Deliver(ev)

Spec == Init /\ [][Next]_vars

--------------------------------------------------------------------------------
\* The stored state is a status with a quantity the order can have: what
\* Transition computes never over-fills the order or goes negative.
TypeOK == /\ venue \in Report
          /\ reports \subseteq Report
          /\ delivered \subseteq reports
          /\ local \in Report

\* The stored state depends only on WHICH reports were applied, never on their
\* order or number: its status is one of the highest-ranked status applied and
\* its cumulative fill the largest one claimed ("apply order-independent
\* across the ack, stream, and reconcile sources", machine.go:75).
OrderIndependent ==
  /\ \A ev \in delivered : /\ Rank(ev.status) <= Rank(local.status)
                           /\ Claimed(ev) <= local.filledQty
                           /\ Rank(ev.status) = Rank(local.status)
                                => ev.status = local.status
  /\ \/ local.status = "pending"
     \/ \E ev \in delivered : ev.status = local.status
  /\ \/ local.filledQty = 0
     \/ \E ev \in delivered : Claimed(ev) = local.filledQty

\* The local state never runs ahead of the venue, and once the venue's final
\* report with its final quantity has been applied the two agree for good,
\* whatever arrived before or arrives after it.
AgreesOnceTold ==
  /\ Rank(local.status) <= Rank(venue.status)
  /\ local.filledQty <= venue.filledQty
  /\ Terminal(venue.status) /\ venue \in delivered => local = venue

\* No applied event un-fills an order, lowers its rank or replaces a terminal
\* status ("Never un-fill", machine.go:102; "none can follow another", :13).
NeverBackward ==
  [][/\ local'.filledQty >= local.filledQty
     /\ Rank(local'.status) >= Rank(local.status)
     /\ Terminal(local.status) => local'.status = local.status]_local

\* Replaying an applied report is recognised as carrying nothing, so
\* ApplyEvent writes no transition, fill or outbox row for it (machine.go:73).
ReplayCarriesNothing ==
  \A ev \in delivered : ~Carries(Transition(local, ev))
================================================================================
