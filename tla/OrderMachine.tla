----------------------------- MODULE OrderMachine -----------------------------
(***************************************************************************)
(* The pure order state machine of internal/domain/order/machine.go: the   *)
(* status ranks and Transition, which decides how one venue event applies  *)
(* to the stored state of an order.  Quantities are decimals in the code;  *)
(* here they are natural numbers counting the smallest tradable increment, *)
(* which is all that comparison and subtraction can tell apart.            *)
(***************************************************************************)
EXTENDS Integers

Status == {"pending", "open", "partially_filled",
           "filled", "canceled", "rejected", "expired"}

\* Mutant of Rank: a partial fill is not ranked above open.
RankIgnoresPartial(s) == CASE s = "pending"                      -> 0
                           [] s \in {"open", "partially_filled"} -> 1
                           [] OTHER                              -> 3

\* Source: the rank switch of rank().
Rank(s) == CASE s = "pending"          -> 0
             [] s = "open"             -> 1
             [] s = "partially_filled" -> 2
             [] OTHER                  -> 3

TerminalRank == 3

Terminal(s) == Rank(s) = TerminalRank

\* The stored view of an order that Transition decides against.
State == [status : Status, filledQty : Nat]

DropReason == {"", "stale", "duplicate", "terminal"}

Decision == [transition  : BOOLEAN,
             to          : Status,
             fillDelta   : Nat,
             fillAnomaly : BOOLEAN,
             drop        : DropReason]

\* Mutant of Keep: a fill that arrives after the terminal status is dropped
\* with it.
KeepDropsLateFill(current, fill, reason) ==
  [transition |-> FALSE, to |-> current.status,
   fillDelta |-> IF reason = "terminal" THEN 0 ELSE fill,
   fillAnomaly |-> FALSE, drop |-> reason]

\* The two shapes a decision takes: keep the stored status and say why the
\* event's status was dropped, or move to the event's status.
Keep(current, fill, reason) ==
  [transition |-> FALSE, to |-> current.status, fillDelta |-> fill,
   fillAnomaly |-> FALSE, drop |-> reason]

Move(ev, fill, anomaly) ==
  [transition |-> TRUE, to |-> ev.status, fillDelta |-> fill,
   fillAnomaly |-> anomaly, drop |-> ""]

\* The cumulative quantity an event can claim: none while it says pending.
Claimed(ev) == IF ev.status = "pending" THEN 0 ELSE ev.filledQty

\* A pending event carries no execution facts; otherwise the fill is what the
\* event's cumulative quantity adds to the stored one.
FillOf(current, ev) ==
  IF ev.filledQty > current.filledQty /\ ev.status # "pending"
  THEN ev.filledQty - current.filledQty
  ELSE 0

\* The switch of Transition, its cases in the order of the code.
Transition(current, ev) ==
  LET curRank   == Rank(current.status)
      evRank    == Rank(ev.status)
      fill      == FillOf(current, ev)
      regressed == ev.filledQty < current.filledQty
  IN  CASE curRank = TerminalRank ->
             Keep(current, fill, "terminal")
        [] curRank # TerminalRank /\ regressed /\ evRank <= curRank ->
             Keep(current, 0, "stale")
        [] curRank # TerminalRank /\ regressed /\ evRank > curRank ->
             Move(ev, 0, TRUE)
        [] curRank # TerminalRank /\ ~regressed /\ evRank < curRank ->
             Keep(current, fill, "stale")
        [] curRank # TerminalRank /\ ~regressed /\ evRank > curRank ->
             Move(ev, fill, FALSE)
        [] OTHER ->
             IF ev.status = "partially_filled" /\ fill > 0
             THEN Move(ev, fill, FALSE)
             ELSE Keep(current, fill, "duplicate")

\* ApplyEvent's early return: the decision carries nothing to persist.
Carries(d) == d.transition \/ d.fillDelta > 0

\* The state persistDecision writes: the decided status, and the stored
\* cumulative quantity plus the fill.
Apply(current, ev) ==
  LET d == Transition(current, ev)
  IN  [status    |-> d.to,
       filledQty |-> current.filledQty + d.fillDelta]
===============================================================================
