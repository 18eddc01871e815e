------------------------------ MODULE FifoLedger ------------------------------
(***************************************************************************)
(* Lot selection of internal/domain/ledger/ledger.go: how a sell quantity  *)
(* is allocated across the open lots of one inventory.  A lot is a record  *)
(* with an id, the time it was opened and what remains of it; ids are      *)
(* ULIDs in the code, of which only the order matters here.                *)
(***************************************************************************)
EXTENDS Integers, Sequences, FiniteSets

Lot == [id : Nat, openedAt : Nat, remainingQty : Nat]

\* Mutant of Older: lots in the order they were recorded, not opened.
RecordedBefore(a, b) == a.id < b.id

\* Oldest first, ties broken by lot ID: the comparison given to sort.Slice.
Older(a, b) == \/ a.openedAt < b.openedAt
               \/ a.openedAt = b.openedAt /\ a.id < b.id

\* Mutant of Allocate: the closure takes the whole lot.
AllocateWholeLot(acc, lot) ==
  IF acc.unmatched > 0 /\ lot.remainingQty > 0
  THEN [closures  |-> Append(acc.closures, [lot |-> lot.id,
                                            qty |-> lot.remainingQty]),
        unmatched |-> acc.unmatched - lot.remainingQty]
  ELSE acc

\* One iteration of Select's loop over the sorted lots.
Allocate(acc, lot) ==
  LET qty == IF acc.unmatched < lot.remainingQty
             THEN acc.unmatched ELSE lot.remainingQty
  IN  IF acc.unmatched > 0 /\ lot.remainingQty > 0
      THEN [closures  |-> Append(acc.closures, [lot |-> lot.id, qty |-> qty]),
            unmatched |-> acc.unmatched - qty]
      ELSE acc

\* The lots as sort.Slice leaves them: each once, the oldest first.
Queue(open) ==
  CHOOSE q \in [1 .. Cardinality(open) -> open] :
    /\ \A i, j \in DOMAIN q : i < j => Older(q[i], q[j])
    /\ \A l \in open : \E i \in DOMAIN q : q[i] = l

\* FIFO.Select: the closures, oldest lot first, and the quantity no lot covers.
\* loop[k] is what the loop has after k lots.
Select(open, sellQty) ==
  LET loop[k \in 0 .. Cardinality(open)] ==
        IF k = 0 THEN [closures |-> <<>>, unmatched |-> sellQty]
        ELSE Allocate(loop[k - 1], Queue(open)[k])
  IN  loop[Cardinality(open)]
===============================================================================
