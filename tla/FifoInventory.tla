----------------------------- MODULE FifoInventory -----------------------------
(***************************************************************************)
(* One inventory as its fills change it, one at a time (the advisory lock  *)
(* of OrderStore): a buy opens a lot, a sell closes lots with Select.      *)
(* Venue times are not monotone: a fill that reconciliation discovers late *)
(* opens a lot that is older than lots already there, and may carry no     *)
(* price.  Select is compared with a definition that has no loop, and the  *)
(* running average price of the buying order with the prices of its fills. *)
(***************************************************************************)
EXTENDS FifoLedger, FiniteSetsExt, SequencesExt

CONSTANTS
  MaxLots,         \* bound: buy fills in one behaviour
  MaxQty,          \* bound: quantity of one fill
  Times,           \* venue times a fill may carry
  Prices,          \* prices a fill may carry; 0 is a fill without one
  Scale            \* units of an average's last decimal place in a price of one

ASSUME InventoryAssumption ==
  /\ MaxLots \in Nat /\ MaxQty \in Nat /\ Times \subseteq Nat /\ Prices \subseteq Nat
  /\ Scale \in Nat \ {0}

VARIABLES
  stock,           \* the lots rows of the inventory
  buys,            \* the fills rows of the buying order: quantity and price
  filledQty,       \* its orders row's filled_qty
  avgFillPrice     \* its orders row's average, in units of its last decimal place

inventoryVars == <<stock, buys, filledQty, avgFillPrice>>

Null == 0          \* no average: the columns' NULL, which zero is stored as

\* decimal.Div: a / b rounded to the last decimal place (the sixteenth), half a
\* unit up.  Prices are whole multiples of that place.
Rounded(a, b) == (2 * a + b) \div (2 * b)

\* Mutant of Average: fills without a price are weighted at zero.
AverageFromZero(delta, price) ==
  IF price = 0 THEN avgFillPrice
  ELSE Rounded(avgFillPrice * filledQty + price * Scale * delta, filledQty + delta)

\* avgFillPrice: a fill without a price keeps the average; the first price after
\* such fills starts it; any other is weighted in.
Average(delta, price) ==
  CASE price = 0 -> avgFillPrice
    [] price > 0 /\ avgFillPrice = Null /\ filledQty > 0 -> price * Scale
    [] OTHER -> Rounded(avgFillPrice * filledQty + price * Scale * delta,
                        filledQty + delta)

InventoryInit == /\ stock = {} /\ buys = <<>>
                 /\ filledQty = 0 /\ avgFillPrice = Null

\* A fill of the buying order: openLot, with the next lot ID, and the order's
\* new filled quantity and average.
Buy(qty, at, price) ==
  /\ Cardinality(stock) < MaxLots
  /\ stock' = stock \cup {[id |-> Cardinality(stock) + 1, openedAt |-> at,
                           remainingQty |-> qty]}
  /\ buys' = Append(buys, [qty |-> qty, price |-> price])
  /\ filledQty' = filledQty + qty
  /\ avgFillPrice' = Average(qty, price)

\* closeLots: Select over the lots with something left, then DecrementLot for
\* each closure.
Sell(qty) ==
  LET closures == Select({l \in stock : l.remainingQty > 0}, qty).closures
      closed(l) == {c \in ToSet(closures) : c.lot = l.id}
  IN  /\ stock # {}
      /\ stock' = {[l EXCEPT !.remainingQty =
                     @ - MapThenSumSet(LAMBDA c : c.qty, closed(l))] : l \in stock}
      /\ UNCHANGED <<buys, filledQty, avgFillPrice>>

InventoryNext ==
  \E qty \in 1 .. MaxQty :
    \/ Sell(qty)
    \/ \E at \in Times, price \in Prices : Buy(qty, at, price)

InventorySpec == InventoryInit /\ [][InventoryNext]_inventoryVars

--------------------------------------------------------------------------------
\* Lots keep their types: no sequence of sells takes more from a lot than it has.
InventoryTypeOK ==
  /\ stock \subseteq Lot
  /\ buys \in Seq([qty : 1 .. MaxQty, price : Prices])
  /\ filledQty \in Nat
  /\ avgFillPrice \in Nat

\* The queue a sell should find, stated without the code's comparison: by
\* opening time, and by ID among lots opened at the same time.
InFrontOf(m, l) == m.openedAt < l.openedAt \/ (m.openedAt = l.openedAt /\ m.id < l.id)

\* What the lots of S hold: the quantity of the closures that would empty them.
Held(S) ==
  MapThenSumSet(LAMBDA c : c.qty, {[lot |-> l.id, qty |-> l.remainingQty] : l \in S})

\* What is in front of lot l, and l's share of a sell: whatever the lots in
\* front of it leave over, at most all of it.
Ahead(l) == Held({m \in stock : InFrontOf(m, l)})
Share(l, qty) == Min({l.remainingQty, Max({0, qty - Ahead(l)})})

\* No sell takes more from a lot than it has (InventoryTypeOK), and Select
\* answers first in, first out, for every quantity and every set of lots that
\* fills can leave behind: one closure for each lot whose share is positive, of
\* that share, oldest lot first, and as unmatched exactly what the whole
\* inventory does not cover.
SelectIsFifo ==
  InventoryTypeOK /\ \A qty \in 1 .. MaxQty * MaxLots + 1 :
    LET answer == Select(stock, qty)
        lotOf(c) == CHOOSE l \in stock : l.id = c.lot
    IN  /\ ToSet(answer.closures) =
             {[lot |-> l.id, qty |-> Share(l, qty)] :
                l \in {m \in stock : Share(m, qty) > 0}}
        /\ \A i, j \in 1 .. Len(answer.closures) :
             i < j => InFrontOf(lotOf(answer.closures[i]), lotOf(answer.closures[j]))
        /\ answer.unmatched = Max({0, qty - Held(stock)})

\* The average agrees with the fills behind it although the code keeps only its
\* last value, rounded: it is missing exactly while no fill had a price; when
\* all had one it is the volume weighted average to within half a unit of its
\* last decimal place for each fill; and among fills with and without a price
\* it never leaves the range of the prices known.
AverageAgrees ==
  LET priced == {i \in DOMAIN buys : buys[i].price > 0}
      paid[k \in 0 .. Len(buys)] ==
        IF k = 0 THEN 0 ELSE paid[k - 1] + buys[k].qty * buys[k].price
      error == avgFillPrice * filledQty - Scale * paid[Len(buys)]
  IN  /\ avgFillPrice = Null <=> priced = {}
      /\ priced = DOMAIN buys =>
           /\ 2 * error <= Len(buys) * filledQty
           /\ -(2 * error) <= Len(buys) * filledQty
      /\ priced # {} =>
           /\ \E i \in priced : buys[i].price * Scale <= avgFillPrice
           /\ \E i \in priced : avgFillPrice <= buys[i].price * Scale
================================================================================
