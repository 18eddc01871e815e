--------------------------- MODULE OrderStore_proofs ---------------------------
(***************************************************************************)
(* Proofs about the Postgres order store, for every set of orders, of      *)
(* concurrent workers and of events.  The inductive invariant says what    *)
(* the row lock buys: from LockOrder to the end of the transaction the     *)
(* committed row is the one the transaction read, so the rows it has       *)
(* written and not yet committed are still the right ones at Commit.  The  *)
(* history, the fills, the outbox and the refinement of the atomic store   *)
(* follow from it.  The ledger rests on what lot selection computes for    *)
(* every stock of lots, shown by induction over its loop, and on what the  *)
(* inventory lock buys: the lots a fill selected from are still the        *)
(* committed ones when it commits.                                         *)
(***************************************************************************)
EXTENDS OrderStore, OrderMachine_proofs, Ledger_proofs

Calls == [order : Orders, ev : Events]

\* Worker w holds the row it read, and its uncommitted rows follow from it.
HoldsRow(w) ==
  /\ pc[w] # "idle" => call[w] \in Calls
  /\ pc[w] \in PastLock =>
       /\ rowLock[call[w].order] = w
       /\ read[w] \in Row
       /\ orders[call[w].order] = read[w]
  /\ pc[w] \in PastInsert =>
       /\ Carries(DecisionOf(w))
       /\ writes[w] = [tr |-> TransitionRow(w), fill |-> FillRow(w)]

LockInv == \A w \in Workers : HoldsRow(w)

IndInv == TypeOK /\ LockInv /\ AuditTrail

--------------------------------------------------------------------------------

\* A stored row holds a state of the order machine.
LEMMA RowIsState ==
  ASSUME NEW r \in Row
  PROVE  /\ StateOf(r) \in State /\ r # NoRow
         /\ r.status \in Status /\ r.filledQty \in Nat
         /\ StateOf(r).status = r.status /\ StateOf(r).filledQty = r.filledQty
BY DEF Row, StateOf, State, NoRow, None, Status

\* Updating one column leaves the others.
LEMMA VenueOrderIDUpdate ==
  ASSUME NEW r \in Row, NEW id
  PROVE  [r EXCEPT !.venueOrderID = id] =
           [status |-> r.status, filledQty |-> r.filledQty,
            venueOrderID |-> id, cancelRequested |-> r.cancelRequested]
BY DEF Row

\* MarkCancelRequested changes the cancel flag of a row and nothing else.
LEMMA CancelRequestedUpdate ==
  ASSUME NEW r \in Row, NEW b \in BOOLEAN
  PROVE  /\ [r EXCEPT !.cancelRequested = b] \in Row
         /\ StateOf([r EXCEPT !.cancelRequested = b]) = StateOf(r)
BY DEF Row, StateOf

\* The events callers apply are events of the order machine.
LEMMA EventType ==
  ASSUME NEW ev \in Events
  PROVE  ev.status \in Status /\ ev.filledQty \in Nat
BY StoreAssumption

\* What a transaction that holds its row has decided.
LEMMA DecisionFacts ==
  ASSUME NEW w \in Workers, HoldsRow(w), pc[w] \in PastLock
  PROVE  /\ call[w] \in Calls /\ call[w].order \in Orders /\ call[w].ev \in Events
         /\ read[w] \in Row
         /\ DecisionOf(w).to \in Status
         /\ DecisionOf(w).fillDelta \in Nat
         /\ Apply(StateOf(read[w]), call[w].ev) =
              [status |-> DecisionOf(w).to,
               filledQty |-> read[w].filledQty + DecisionOf(w).fillDelta]
         /\ Rank(DecisionOf(w).to) >= Rank(read[w].status)
         /\ Terminal(read[w].status) => DecisionOf(w).to = read[w].status
         /\ Carries(DecisionOf(w)) <=> \/ DecisionOf(w).to # read[w].status
                                       \/ DecisionOf(w).fillDelta > 0
<1> DEFINE s == StateOf(read[w])
           ev == call[w].ev
<1>1. /\ call[w] \in Calls /\ call[w].order \in Orders /\ ev \in Events
      /\ read[w] \in Row
  BY DEF HoldsRow, PastLock, Calls
<1>2. /\ s \in State /\ ev.status \in Status /\ ev.filledQty \in Nat
      /\ read[w].status \in Status /\ read[w].filledQty \in Nat
      /\ s = [status |-> read[w].status, filledQty |-> read[w].filledQty]
      /\ s.status = read[w].status
  BY <1>1, RowIsState, EventType DEF StateOf
<1>3. DecisionOf(w) = Transition(s, ev)
  BY DEF DecisionOf
<1>4. DecisionOf(w) \in Decision
  BY <1>2, <1>3, TransitionType
<1>5. DecisionOf(w).to \in Status /\ DecisionOf(w).fillDelta \in Nat
  BY <1>4 DEF Decision
<1>6. Apply(s, ev) = [status |-> DecisionOf(w).to,
                      filledQty |-> read[w].filledQty + DecisionOf(w).fillDelta]
  BY <1>2, <1>3 DEF Apply
<1>7. DecisionOf(w).to = IF Rank(ev.status) > Rank(s.status)
                         THEN ev.status ELSE s.status
  BY <1>2, <1>6, ApplyIsJoin
<1>8. Rank(ev.status) \in 0 .. 3 /\ Rank(s.status) \in 0 .. 3
  BY <1>2, RankType
<1>9. Carries(DecisionOf(w)) <=> Apply(s, ev) # s
  BY <1>2, <1>3, CarriesIffChanges
<1>10. Apply(s, ev) # s <=> \/ DecisionOf(w).to # read[w].status
                            \/ DecisionOf(w).fillDelta > 0
  BY <1>2, <1>5, <1>6
<1> HIDE DEF s, ev
<1>11. /\ Rank(DecisionOf(w).to) >= Rank(read[w].status)
       /\ Terminal(read[w].status) => DecisionOf(w).to = read[w].status
  BY <1>2, <1>7, <1>8 DEF Terminal, TerminalRank
<1> QED BY <1>1, <1>5, <1>6, <1>9, <1>10, <1>11 DEF s, ev

\* The rows such a transaction writes are well formed.
LEMMA WritesType ==
  ASSUME TypeOK, NEW w \in Workers, HoldsRow(w), pc[w] \in PastLock
  PROVE  /\ TransitionRow(w) \in TransitionRows
         /\ FillRow(w) \in Seq(FillRows)
<1>1. /\ call[w].order \in Orders /\ call[w].ev \in Events /\ read[w] \in Row
      /\ DecisionOf(w).to \in Status /\ DecisionOf(w).fillDelta \in Nat
  BY DecisionFacts
<1>2. /\ transitions[call[w].order] \in Seq(TransitionRows)
      /\ Len(transitions[call[w].order]) \in Nat
  BY <1>1 DEF TypeOK
<1>3. read[w].status \in Status /\ read[w].filledQty \in Nat
  BY <1>1, RowIsState
<1>4. TransitionRow(w) \in TransitionRows
  BY <1>1, <1>2, <1>3 DEF TransitionRow, TransitionRows
<1>5. call[w].ev.venueFillID \in {ev.venueFillID : ev \in Events}
  BY <1>1
<1>6. FillRow(w) \in Seq(FillRows)
  <2>1. \A id \in {None, call[w].ev.venueFillID} :
          [seq |-> Len(transitions[call[w].order]) + 1,
           qty |-> DecisionOf(w).fillDelta, venueFillID |-> id] \in FillRows
    BY <1>1, <1>2, <1>5 DEF FillRows
  <2>2. \A r \in FillRows : <<r>> \in Seq(FillRows)
    OBVIOUS
  <2> QED BY <2>1, <2>2 DEF FillRow
<1> QED BY <1>4, <1>6

--------------------------------------------------------------------------------

\* Empty tables and free locks satisfy the invariant.
LEMMA InitIndInv == Init => IndInv
<1> SUFFICES ASSUME Init PROVE IndInv
  OBVIOUS
<1>1. TypeOK
  BY DEF Init, TypeOK, PastLock
<1>2. LockInv
  BY DEF Init, LockInv, HoldsRow, PastLock, PastInsert
<1>3. AuditTrail
  BY DEF Init, AuditTrail
<1> QED BY <1>1, <1>2, <1>3 DEF IndInv

\* Ending a transaction keeps the types.
LEMMA EndType ==
  ASSUME TypeOK, NEW w \in Workers, End(w)
  PROVE  /\ rowLock' \in [Orders -> Workers \cup {Free}]
         /\ invLock' \in [Inventories -> Workers \cup {Free}]
         /\ pc' \in [Workers -> PastLock \cup {"idle", "lock"}]
         /\ call' \in [Workers -> Calls \cup {NoCall}]
         /\ read' \in [Workers -> Row \cup {NoRow}]
         /\ writes' \in [Workers -> [tr : TransitionRows, fill : Seq(FillRows)]
                                    \cup {NoWrites}]
BY DEF TypeOK, End, Calls

\* Every step, of any worker, preserves the types.
LEMMA NextTypeOK == IndInv /\ [Next]_vars => TypeOK'
<1> SUFFICES ASSUME IndInv, [Next]_vars PROVE TypeOK'
  OBVIOUS
<1> USE DEF IndInv
<1>0. None \in VenueOrderIDs /\ \A ev \in Events : ev.venueOrderID \in VenueOrderIDs
  BY DEF VenueOrderIDs
<1>1. ASSUME NEW o \in Orders, CreatePending(o) PROVE TypeOK'
  <2>1. [status |-> "pending", filledQty |-> 0, venueOrderID |-> None,
         cancelRequested |-> FALSE] \in Row
    BY <1>0 DEF Row, Status
  <2> QED BY <1>1, <2>1 DEF TypeOK, CreatePending, orderVars, ledgerVars,
             outboxVars, lockVars, txVars
<1>2. ASSUME NEW o \in Orders, MarkCancelRequested(o) PROVE TypeOK'
  <2>1. [orders[o] EXCEPT !.cancelRequested = TRUE] \in Row
    BY <1>2 DEF TypeOK, MarkCancelRequested, Row
  <2> QED BY <1>2, <2>1 DEF TypeOK, MarkCancelRequested, orderVars, ledgerVars,
             outboxVars, lockVars, txVars
<1>3. ASSUME NEW w \in Workers, NEW o \in Orders, NEW ev \in Events,
             Begin(w, o, ev)
      PROVE  TypeOK'
  BY <1>3 DEF TypeOK, Begin, orderVars, ledgerVars, outboxVars, lockVars, PastLock
<1>4. ASSUME NEW w \in Workers, Abort(w) \/ OrderNotFound(w) PROVE TypeOK'
  <2>1. End(w) /\ UNCHANGED <<orders, transitions, fills, outboxSeq, applies>>
    BY <1>4 DEF Abort, OrderNotFound, orderVars, outboxVars
  <2> QED BY <2>1, EndType DEF TypeOK, Calls
<1>5. ASSUME NEW w \in Workers, LockOrder(w) PROVE TypeOK'
  BY <1>5 DEF TypeOK, LockOrder, LockInv, HoldsRow, Calls, PastLock,
          orderVars, ledgerVars, outboxVars
<1>6. ASSUME NEW w \in Workers, AdoptVenueOrderID(w) PROVE TypeOK'
  <2>1. /\ End(w) /\ UNCHANGED <<transitions, fills, outboxSeq, applies>>
        /\ pc[w] = "decide"
    BY <1>6 DEF AdoptVenueOrderID, orderVars, outboxVars
  <2>2. /\ call[w].order \in Orders /\ call[w].ev \in Events
        /\ orders[call[w].order] \in Row
    BY <2>1 DEF LockInv, HoldsRow, PastLock, Calls
  <2>3. [orders[call[w].order] EXCEPT !.venueOrderID = call[w].ev.venueOrderID]
          \in Row
    BY <1>0, <2>2 DEF Row
  <2>4. orders' \in [Orders -> Row \cup {NoRow}]
    BY <1>6, <2>2, <2>3 DEF AdoptVenueOrderID, TypeOK
  <2> QED BY <2>1, <2>4, EndType DEF TypeOK, Calls
<1>7. ASSUME NEW w \in Workers, InsertTransition(w) PROVE TypeOK'
  <2>1. TransitionRow(w) \in TransitionRows /\ FillRow(w) \in Seq(FillRows)
    BY <1>7, WritesType DEF InsertTransition, LockInv, PastLock
  <2> QED BY <1>7, <2>1 DEF TypeOK, InsertTransition, orderVars, ledgerVars,
             outboxVars, lockVars, PastLock
<1>8. ASSUME NEW w \in Workers, LockInventory(w) PROVE TypeOK'
  BY <1>8 DEF TypeOK, LockInventory, orderVars, ledgerVars, outboxVars, txVars,
          PastLock
<1>9. ASSUME NEW w \in Workers, OpenLot(w) PROVE TypeOK'
  BY <1>9 DEF TypeOK, OpenLot, orderVars, ledgerVars, outboxVars, lockVars,
          PastLock
<1>10. ASSUME NEW w \in Workers, CloseLots(w) PROVE TypeOK'
  <2>1. /\ outboxSeq' = outboxSeq + 1 \/ outboxSeq' = outboxSeq
        /\ pc' = [pc EXCEPT ![w] = "update"]
        /\ UNCHANGED <<orders, transitions, fills, rowLock, invLock, call, read,
                       writes, applies>>
    BY <1>10 DEF CloseLots, orderVars, lockVars
  <2> QED BY <2>1 DEF TypeOK, PastLock
<1>11. ASSUME NEW w \in Workers, InsertEventOutbox(w) PROVE TypeOK'
  BY <1>11 DEF TypeOK, InsertEventOutbox, orderVars, ledgerVars, lockVars,
          PastLock
<1>12. ASSUME NEW w \in Workers, Commit(w) PROVE TypeOK'
  <2>1. /\ End(w) /\ UNCHANGED <<outboxSeq, applies>> /\ pc[w] = "commit"
    BY <1>12 DEF Commit
  <2>2. /\ call[w].order \in Orders /\ call[w].ev \in Events
        /\ orders[call[w].order] \in Row
        /\ writes[w] = [tr |-> TransitionRow(w), fill |-> FillRow(w)]
    BY <2>1 DEF LockInv, HoldsRow, PastLock, PastInsert, Calls
  <2>3. TransitionRow(w) \in TransitionRows /\ FillRow(w) \in Seq(FillRows)
    BY <2>1, WritesType DEF LockInv, PastLock
  <2>4. writes[w].tr \in TransitionRows /\ writes[w].fill \in Seq(FillRows)
    BY <2>2, <2>3
  <2>5. UpdatedRow(w) \in Row
    BY <1>0, <2>2, <2>4 DEF UpdatedRow, Row, TransitionRows
  <2>6. orders' \in [Orders -> Row \cup {NoRow}]
    BY <1>12, <2>2, <2>5 DEF Commit, TypeOK
  <2>7. transitions' \in [Orders -> Seq(TransitionRows)]
    BY <1>12, <2>2, <2>4 DEF Commit, TypeOK
  <2>8. fills' \in [Orders -> Seq(FillRows)]
    BY <1>12, <2>2, <2>4 DEF Commit, TypeOK
  <2> QED BY <2>1, <2>6, <2>7, <2>8, EndType DEF TypeOK, Calls
<1>13. CASE UNCHANGED vars
  BY <1>13 DEF TypeOK, vars, orderVars, ledgerVars, outboxVars, lockVars, txVars
<1> QED
  BY <1>1, <1>2, <1>3, <1>4, <1>5, <1>6, <1>7, <1>8, <1>9, <1>10, <1>11, <1>12,
     <1>13 DEF Next, Step
\* A transaction that keeps its row keeps everything the invariant says of it,
\* if the row, its history and its own work stay as they are.
LEMMA HoldsRowStable ==
  ASSUME NEW w \in Workers, HoldsRow(w),
         pc'[w] = pc[w], call'[w] = call[w], read'[w] = read[w],
         writes'[w] = writes[w],
         pc[w] \in PastLock =>
           /\ rowLock'[call[w].order] = rowLock[call[w].order]
           /\ orders'[call[w].order] = orders[call[w].order]
           /\ transitions'[call[w].order] = transitions[call[w].order]
           /\ fills'[call[w].order] = fills[call[w].order]
  PROVE  HoldsRow(w)'
<1>1. PastInsert \subseteq PastLock
  BY DEF PastInsert
<1> QED
  BY <1>1 DEF HoldsRow, DecisionOf, TransitionRow, FillRow

\* The end of w's transaction leaves the others holding what they hold.
LEMMA EndKeepsLocks ==
  ASSUME IndInv, NEW w \in Workers, End(w),
         \A v \in Workers \ {w} : pc[v] \in PastLock =>
           /\ orders'[call[v].order] = orders[call[v].order]
           /\ transitions'[call[v].order] = transitions[call[v].order]
           /\ fills'[call[v].order] = fills[call[v].order]
  PROVE  LockInv'
<1> SUFFICES ASSUME NEW v \in Workers PROVE HoldsRow(v)'
  BY DEF LockInv
<1>1. CASE v = w
  <2>1. pc'[w] = "idle"
    BY DEF End, IndInv, TypeOK
  <2> QED BY <1>1, <2>1 DEF HoldsRow, PastLock, PastInsert
<1>2. CASE v # w
  <2>1. /\ pc'[v] = pc[v] /\ call'[v] = call[v] /\ read'[v] = read[v]
        /\ writes'[v] = writes[v] /\ HoldsRow(v)
    BY <1>2 DEF End, IndInv, TypeOK, LockInv
  <2>2. pc[v] \in PastLock => rowLock'[call[v].order] = rowLock[call[v].order]
    BY <1>2, <2>1 DEF End, HoldsRow, Calls, PastLock
  <2> QED BY <1>2, <2>1, <2>2, HoldsRowStable
<1> QED BY <1>1, <1>2

\* Every step preserves the locking discipline: whoever is past the row lock
\* holds it, and what it read under the lock is still the committed row.
LEMMA NextLockInv == IndInv /\ [Next]_vars => LockInv'
<1> SUFFICES ASSUME IndInv, [Next]_vars PROVE LockInv'
  OBVIOUS
<1>0. /\ TypeOK /\ LockInv
      /\ \A v \in Workers : HoldsRow(v)
      /\ \A v \in Workers : pc[v] \in PastLock =>
           /\ call[v].order \in Orders
           /\ rowLock[call[v].order] = v
           /\ orders[call[v].order] # NoRow
           /\ orders[call[v].order] = read[v]
      /\ Free \notin Workers
  BY RowIsState, StoreAssumption DEF IndInv, LockInv, HoldsRow, Calls, PastLock
<1>1. ASSUME NEW o \in Orders, CreatePending(o) \/ MarkCancelRequested(o)
      PROVE  LockInv'
  <2> SUFFICES ASSUME NEW v \in Workers PROVE HoldsRow(v)'
    BY DEF LockInv
  <2>1. /\ UNCHANGED <<transitions, fills, rowLock, pc, call, read, writes>>
        /\ orders[o] = NoRow \/ rowLock[o] = Free
        /\ \A p \in Orders \ {o} : orders'[p] = orders[p]
    BY <1>0, <1>1 DEF CreatePending, MarkCancelRequested, orderVars, lockVars,
                      txVars, TypeOK
  <2>2. pc[v] \in PastLock => orders'[call[v].order] = orders[call[v].order]
    BY <1>0, <2>1
  <2> QED BY <1>0, <2>1, <2>2, HoldsRowStable
<1>2. ASSUME NEW w \in Workers, NEW o \in Orders, NEW ev \in Events,
             Begin(w, o, ev)
      PROVE  LockInv'
  <2> SUFFICES ASSUME NEW v \in Workers PROVE HoldsRow(v)'
    BY DEF LockInv
  <2>1. CASE v = w
    BY <1>0, <1>2, <2>1 DEF Begin, HoldsRow, Calls, TypeOK, PastLock, PastInsert
  <2>2. CASE v # w
    BY <1>0, <1>2, <2>2, HoldsRowStable DEF Begin, orderVars, lockVars, TypeOK
  <2> QED BY <2>1, <2>2
<1>3. ASSUME NEW w \in Workers, Abort(w) \/ OrderNotFound(w) PROVE LockInv'
  BY <1>3, EndKeepsLocks DEF Abort, OrderNotFound, orderVars
<1>4. ASSUME NEW w \in Workers, LockOrder(w) PROVE LockInv'
  <2> SUFFICES ASSUME NEW v \in Workers PROVE HoldsRow(v)'
    BY DEF LockInv
  <2>1. /\ pc[w] = "lock" /\ call[w] \in Calls /\ call[w].order \in Orders
        /\ orders[call[w].order] # NoRow
        /\ rowLock[call[w].order] = Free
        /\ rowLock' = [rowLock EXCEPT ![call[w].order] = w]
        /\ read' = [read EXCEPT ![w] = orders[call[w].order]]
        /\ pc' = [pc EXCEPT ![w] = "decide"]
        /\ UNCHANGED <<orders, transitions, fills, call, writes>>
    BY <1>0, <1>4 DEF LockOrder, HoldsRow, orderVars, Calls
  <2>2. CASE v = w
    BY <1>0, <2>1, <2>2 DEF HoldsRow, TypeOK, PastLock, PastInsert
  <2>3. CASE v # w
    <3>1. pc[v] \in PastLock => call[v].order # call[w].order
      BY <1>0, <2>1
    <3> QED BY <1>0, <2>1, <2>3, <3>1, HoldsRowStable DEF TypeOK
  <2> QED BY <2>2, <2>3
<1>5. ASSUME NEW w \in Workers, AdoptVenueOrderID(w) PROVE LockInv'
  <2>1. /\ End(w) /\ UNCHANGED <<transitions, fills>> /\ pc[w] \in PastLock
        /\ \A p \in Orders \ {call[w].order} : orders'[p] = orders[p]
    BY <1>0, <1>5 DEF AdoptVenueOrderID, orderVars, PastLock, TypeOK
  <2>2. \A v \in Workers \ {w} : pc[v] \in PastLock =>
          call[v].order # call[w].order
    BY <1>0, <2>1
  <2> QED BY <1>0, <2>1, <2>2, EndKeepsLocks
<1>6. ASSUME NEW w \in Workers, InsertTransition(w) PROVE LockInv'
  <2> SUFFICES ASSUME NEW v \in Workers PROVE HoldsRow(v)'
    BY DEF LockInv
  <2>1. /\ pc[w] = "decide" /\ Carries(DecisionOf(w))
        /\ writes' = [writes EXCEPT ![w] = [tr |-> TransitionRow(w),
                                            fill |-> FillRow(w)]]
        /\ pc' = [pc EXCEPT ![w] = "inventory"] \/ pc' = [pc EXCEPT ![w] = "update"]
        /\ UNCHANGED <<orders, transitions, fills, rowLock, call, read>>
    BY <1>6 DEF InsertTransition, orderVars, lockVars
  <2>2. CASE v = w
    <3>1. /\ writes'[w] = [tr |-> TransitionRow(w), fill |-> FillRow(w)]
          /\ pc'[w] \in PastInsert /\ pc[w] \in PastLock
          /\ pc'[w] \in PastLock /\ pc'[w] # "idle" /\ pc[w] # "idle"
      BY <1>0, <2>1 DEF TypeOK, PastInsert, PastLock
    <3>2. /\ TransitionRow(w)' = TransitionRow(w)
          /\ FillRow(w)' = FillRow(w)
          /\ DecisionOf(w)' = DecisionOf(w)
      BY <2>1 DEF TransitionRow, FillRow, DecisionOf
    <3> QED BY <1>0, <2>1, <2>2, <3>1, <3>2 DEF HoldsRow
  <2>3. CASE v # w
    BY <1>0, <2>1, <2>3, HoldsRowStable DEF TypeOK
  <2> QED BY <2>2, <2>3
<1>7. ASSUME NEW w \in Workers,
             LockInventory(w) \/ OpenLot(w) \/ CloseLots(w) \/ InsertEventOutbox(w)
      PROVE  LockInv'
  <2> SUFFICES ASSUME NEW v \in Workers PROVE HoldsRow(v)'
    BY DEF LockInv
  <2>1. UNCHANGED <<orders, transitions, fills, rowLock, call, read, writes>>
    BY <1>7 DEF LockInventory, OpenLot, CloseLots, InsertEventOutbox, orderVars,
                lockVars, txVars
  <2>2. /\ pc[w] \in PastInsert
        /\ \E q \in PastInsert : pc' = [pc EXCEPT ![w] = q]
    BY <1>7 DEF LockInventory, OpenLot, CloseLots, InsertEventOutbox, PastInsert,
                PastLock
  <2>3. CASE v = w
    <3>1. pc'[w] \in PastInsert
      BY <1>0, <2>2 DEF TypeOK
    <3>2. /\ TransitionRow(w)' = TransitionRow(w)
          /\ FillRow(w)' = FillRow(w)
          /\ DecisionOf(w)' = DecisionOf(w)
      BY <2>1 DEF TransitionRow, FillRow, DecisionOf
    <3>3. \A q \in PastInsert : q \in PastLock /\ q # "idle"
      BY DEF PastInsert, PastLock
    <3> QED BY <1>0, <2>1, <2>2, <2>3, <3>1, <3>2, <3>3 DEF HoldsRow
  <2>4. CASE v # w
    BY <1>0, <2>1, <2>2, <2>4, HoldsRowStable DEF TypeOK
  <2> QED BY <2>3, <2>4
<1>8. ASSUME NEW w \in Workers, Commit(w) PROVE LockInv'
  <2>1. /\ End(w) /\ pc[w] \in PastLock
        /\ \A p \in Orders \ {call[w].order} : /\ orders'[p] = orders[p]
                                               /\ transitions'[p] = transitions[p]
                                               /\ fills'[p] = fills[p]
    BY <1>0, <1>8 DEF Commit, PastLock, TypeOK
  <2>2. \A v \in Workers \ {w} : pc[v] \in PastLock =>
          call[v].order # call[w].order
    BY <1>0, <2>1
  <2> QED BY <1>0, <2>1, <2>2, EndKeepsLocks
<1>9. CASE UNCHANGED vars
  <2> SUFFICES ASSUME NEW v \in Workers PROVE HoldsRow(v)'
    BY DEF LockInv
  <2> QED BY <1>0, <1>9, HoldsRowStable DEF vars, orderVars, lockVars, txVars
<1> QED
  BY <1>1, <1>2, <1>3, <1>4, <1>5, <1>6, <1>7, <1>8, <1>9 DEF Next, Step
--------------------------------------------------------------------------------
(* The audit trail. *)

\* What AuditTrail says of one order, given its row and its history.
Audited(o) ==
  /\ \A k \in 1 .. Len(transitions[o]) :
       LET before == StateBefore(o, k)
           t      == transitions[o][k]
       IN  /\ t.seq = k
           /\ t.from = before.status
           /\ t.filledQty >= before.filledQty
           /\ Rank(t.to) >= Rank(t.from)
           /\ Terminal(t.from) => t.to = t.from
           /\ t.to # t.from \/ t.filledQty > before.filledQty
  /\ orders[o] = NoRow => transitions[o] = <<>>
  /\ orders[o] # NoRow =>
       StateOf(orders[o]) = StateBefore(o, Len(transitions[o]) + 1)

\* An order whose row and history a step leaves alone stays audited.
LEMMA AuditedStable ==
  ASSUME NEW o \in Orders, Audited(o),
         transitions'[o] = transitions[o],
         orders[o] = NoRow => orders'[o] = NoRow
                              \/ StateOf(orders'[o]) =
                                   [status |-> "pending", filledQty |-> 0],
         orders[o] # NoRow => /\ orders'[o] # NoRow
                              /\ StateOf(orders'[o]) = StateOf(orders[o])
  PROVE  Audited(o)'
<1>1. \A k : StateBefore(o, k)' = StateBefore(o, k)
  BY DEF StateBefore
<1>2. CASE orders[o] = NoRow
  <2>1. transitions[o] = <<>> /\ Len(transitions[o]) = 0
    BY <1>2 DEF Audited
  <2>2. StateBefore(o, Len(transitions[o]) + 1)
          = [status |-> "pending", filledQty |-> 0]
    BY <2>1 DEF StateBefore
  <2> QED BY <1>1, <1>2, <2>1, <2>2 DEF Audited
<1>3. CASE orders[o] # NoRow
  BY <1>1, <1>3 DEF Audited
<1> QED BY <1>2, <1>3

\* A commit appends the transition it wrote under the lock.
LEMMA CommitAudited ==
  ASSUME IndInv, NEW w \in Workers, Commit(w)
  PROVE  \A p \in Orders : p = call[w].order => Audited(p)'
<1> DEFINE o  == call[w].order
           n  == Len(transitions[o])
           tr == TransitionRow(w)
<1>1. /\ pc[w] = "commit" /\ pc[w] \in PastLock /\ pc[w] \in PastInsert
      /\ HoldsRow(w)
  BY DEF Commit, PastLock, PastInsert, IndInv, LockInv
<1>2. /\ o \in Orders /\ orders[o] = read[w] /\ read[w] \in Row
      /\ writes[w] = [tr |-> tr, fill |-> FillRow(w)]
      /\ Carries(DecisionOf(w))
  BY <1>1, DecisionFacts DEF HoldsRow
<1>3. /\ transitions[o] \in Seq(TransitionRows) /\ n \in Nat
      /\ tr \in TransitionRows
  BY <1>1, <1>2, WritesType DEF IndInv, TypeOK
<1>4. transitions'[o] = Append(transitions[o], tr)
  BY <1>2 DEF Commit, IndInv, TypeOK
<1>5. /\ Len(transitions'[o]) = n + 1
      /\ \A k \in 1 .. n : transitions'[o][k] = transitions[o][k]
      /\ transitions'[o][n + 1] = tr
  BY <1>3, <1>4
<1>6. /\ tr.seq = n + 1 /\ tr.from = read[w].status /\ tr.to = DecisionOf(w).to
      /\ tr.filledQty = read[w].filledQty + DecisionOf(w).fillDelta
  BY DEF TransitionRow
<1>7. /\ read[w].filledQty \in Nat /\ read[w] # NoRow
      /\ StateOf(read[w]) = [status |-> read[w].status,
                             filledQty |-> read[w].filledQty]
  BY <1>2, RowIsState DEF StateOf
<1>8. /\ DecisionOf(w).fillDelta \in Nat
      /\ Rank(tr.to) >= Rank(tr.from)
      /\ Terminal(tr.from) => tr.to = tr.from
      /\ tr.to # tr.from \/ DecisionOf(w).fillDelta > 0
  BY <1>1, <1>2, <1>6, DecisionFacts
<1>9. Audited(o)
  BY <1>2 DEF IndInv, AuditTrail, Audited
<1>10. StateBefore(o, n + 1) = StateOf(read[w])
  BY <1>2, <1>7, <1>9 DEF Audited
<1> HIDE DEF n, tr
<1>11. PICK m \in Nat, r \in TransitionRows : m = n /\ r = tr
  BY <1>3
<1>12. ASSUME NEW k \in 1 .. m + 1
       PROVE  (IF k = 1 THEN [status |-> "pending", filledQty |-> 0]
               ELSE [status |-> transitions'[o][k - 1].to,
                     filledQty |-> transitions'[o][k - 1].filledQty])
              = StateBefore(o, k)
  <2>1. CASE k = 1
    BY <2>1 DEF StateBefore
  <2>2. CASE k # 1
    <3>1. k - 1 \in 1 .. n
      BY <1>3, <1>11, <2>2
    <3>2. transitions'[o][k - 1] = transitions[o][k - 1]
      BY <1>5, <3>1
    <3> QED BY <2>2, <3>2 DEF StateBefore
  <2> QED BY <2>1, <2>2
<1>13. ASSUME NEW p \in Orders, p = o PROVE Audited(p)'
  <2>1. \A k \in 1 .. m + 1 : StateBefore(p, k)' = StateBefore(o, k)
    BY <1>12, <1>13 DEF StateBefore
  <2>2. /\ orders'[p] = UpdatedRow(w)
        /\ UpdatedRow(w).status = r.to /\ UpdatedRow(w).filledQty = r.filledQty
    BY <1>2, <1>11, <1>13 DEF Commit, IndInv, TypeOK, UpdatedRow
  <2>3. StateOf(orders'[p]) = [status |-> r.to, filledQty |-> r.filledQty]
    BY <2>2 DEF StateOf
  <2>4. StateBefore(p, m + 2)' = [status |-> r.to, filledQty |-> r.filledQty]
    BY <1>3, <1>5, <1>11, <1>13 DEF StateBefore
  <2>5. orders'[p] # NoRow
    <3>1. UpdatedRow(w).status \in Status
      BY <1>11, <2>2 DEF TransitionRows
    <3> QED BY <2>2, <3>1 DEF NoRow, None, Status
  <2>6. Len(transitions'[p]) = m + 1
    BY <1>5, <1>11, <1>13
  <2>7. ASSUME NEW k \in 1 .. m + 1
        PROVE  /\ transitions'[p][k].seq = k
               /\ transitions'[p][k].from = StateBefore(o, k).status
               /\ transitions'[p][k].filledQty >= StateBefore(o, k).filledQty
               /\ Rank(transitions'[p][k].to) >= Rank(transitions'[p][k].from)
               /\ Terminal(transitions'[p][k].from)
                    => transitions'[p][k].to = transitions'[p][k].from
               /\ \/ transitions'[p][k].to # transitions'[p][k].from
                  \/ transitions'[p][k].filledQty > StateBefore(o, k).filledQty
    <3>1. CASE k = m + 1
      <4>1. transitions'[p][k] = r
        BY <1>5, <1>11, <1>13, <3>1
      <4>2. StateBefore(o, k).status = read[w].status
            /\ StateBefore(o, k).filledQty = read[w].filledQty
        BY <1>7, <1>10, <1>11, <3>1
      <4> QED BY <1>6, <1>7, <1>8, <1>11, <3>1, <4>1, <4>2
    <3>2. CASE k \in 1 .. m
      <4>1. transitions'[p][k] = transitions[o][k]
        BY <1>5, <1>11, <1>13, <3>2
      <4> QED BY <1>9, <1>11, <3>2, <4>1 DEF Audited, n
    <3> QED BY <1>3, <3>1, <3>2
  <2> QED BY <1>3, <2>1, <2>3, <2>4, <2>5, <2>6, <2>7 DEF Audited
<1> QED BY <1>13

\* Every step preserves the audit trail; only Commit extends it.
LEMMA NextAuditTrail == IndInv /\ [Next]_vars => AuditTrail'
<1> SUFFICES ASSUME IndInv, [Next]_vars, NEW p \in Orders PROVE Audited(p)'
  BY DEF AuditTrail, Audited
<1>0. /\ Audited(p) /\ TypeOK /\ LockInv
  BY DEF IndInv, AuditTrail, Audited
<1>1. ASSUME NEW o \in Orders, CreatePending(o) PROVE Audited(p)'
  <2>1. /\ transitions' = transitions /\ orders[o] = NoRow
        /\ p # o => orders'[p] = orders[p]
        /\ p = o => StateOf(orders'[p]) = [status |-> "pending", filledQty |-> 0]
    BY <1>0, <1>1 DEF CreatePending, orderVars, TypeOK, StateOf
  <2> QED BY <1>0, <2>1, AuditedStable
<1>2. ASSUME NEW o \in Orders, MarkCancelRequested(o) PROVE Audited(p)'
  <2>1. /\ transitions' = transitions /\ orders[o] \in Row
        /\ p # o => orders'[p] = orders[p]
        /\ p = o => orders'[p] = [orders[o] EXCEPT !.cancelRequested = TRUE]
    BY <1>0, <1>2 DEF MarkCancelRequested, orderVars, TypeOK
  <2>2. p = o => /\ orders'[p] \in Row
                 /\ StateOf(orders'[p]) = StateOf(orders[p])
    BY <2>1, CancelRequestedUpdate, Zenon
  <2> QED BY <1>0, <2>1, <2>2, AuditedStable, RowIsState
<1>3. ASSUME NEW w \in Workers, AdoptVenueOrderID(w) PROVE Audited(p)'
  <2> DEFINE o == call[w].order
  <2>1. pc[w] = "decide" /\ HoldsRow(w) /\ call[w].ev \in Events
        /\ o \in Orders /\ orders[o] \in Row
    BY <1>0, <1>3 DEF AdoptVenueOrderID, LockInv, HoldsRow, PastLock, Calls
  <2>2. /\ transitions' = transitions
        /\ p # o => orders'[p] = orders[p]
        /\ p = o => \/ orders'[p] = orders[p]
                    \/ orders'[p] = [orders[o] EXCEPT !.venueOrderID =
                                       call[w].ev.venueOrderID]
    BY <1>0, <1>3 DEF AdoptVenueOrderID, orderVars, TypeOK
  <2>3. p = o => /\ orders'[p] \in Row
                 /\ StateOf(orders'[p]) = StateOf(orders[p])
    BY <2>1, <2>2 DEF Row, StateOf, VenueOrderIDs
  <2> QED BY <1>0, <2>1, <2>2, <2>3, AuditedStable, RowIsState
<1>4. ASSUME NEW w \in Workers, Commit(w) PROVE Audited(p)'
  <2>1. CASE p = call[w].order
    BY <1>4, <2>1, CommitAudited
  <2>2. CASE p # call[w].order
    <3>1. transitions'[p] = transitions[p] /\ orders'[p] = orders[p]
      BY <1>0, <1>4, <2>2 DEF Commit, TypeOK
    <3> QED BY <1>0, <3>1, AuditedStable
  <2> QED BY <2>1, <2>2
<1>5. ASSUME UNCHANGED <<orders, transitions>> PROVE Audited(p)'
  BY <1>0, <1>5, AuditedStable
<1>6. ASSUME NEW w \in Workers,
             \/ Abort(w) \/ OrderNotFound(w) \/ LockOrder(w)
             \/ InsertTransition(w) \/ LockInventory(w) \/ OpenLot(w)
             \/ CloseLots(w) \/ InsertEventOutbox(w)
             \/ \E o \in Orders, ev \in Events : Begin(w, o, ev)
      PROVE  UNCHANGED <<orders, transitions>>
  BY <1>6 DEF Abort, OrderNotFound, LockOrder, InsertTransition, LockInventory,
     OpenLot, CloseLots, InsertEventOutbox, Begin, orderVars
<1>7. CASE UNCHANGED vars
  BY <1>5, <1>7 DEF vars, orderVars
<1> QED
  BY <1>1, <1>2, <1>3, <1>4, <1>5, <1>6, <1>7 DEF Next, Step

\* The strengthened invariant holds in every state.
LEMMA Invariance == Spec => []IndInv
<1>1. IndInv /\ [Next]_vars => IndInv'
  BY NextTypeOK, NextLockInv, NextAuditTrail DEF IndInv
<1> QED BY <1>1, InitIndInv, PTL DEF Spec

\* The tables, the locks and every transaction in flight keep their types.
THEOREM TypeCorrect == Spec => []TypeOK
<1>1. IndInv => TypeOK
  BY DEF IndInv
<1> QED BY <1>1, Invariance, PTL

\* ApplyEvent keeps order_transitions a complete, gapless, monotone history
\* of every row, for any number of concurrent callers and events.
THEOREM AuditTrailHolds == Spec => []AuditTrail
<1>1. IndInv => AuditTrail
  BY DEF IndInv
<1> QED BY <1>1, Invariance, PTL

--------------------------------------------------------------------------------
(* The fills table. *)

\* The cumulative quantity before the k-th transition of a history.
QtyBefore(T, k) == IF k = 1 THEN 0 ELSE T[k - 1].filledQty

\* FillsTellTheQuantity, of one order's transitions T and fills F.
FillsMatch(T, F) ==
  /\ \A n \in 1 .. Len(F) :
       /\ F[n].seq \in 1 .. Len(T)
       /\ F[n].qty > 0
       /\ F[n].qty = T[F[n].seq].filledQty - QtyBefore(T, F[n].seq)
  /\ \A m, n \in 1 .. Len(F) : m < n => F[m].seq < F[n].seq
  /\ \A k \in 1 .. Len(T) :
       T[k].filledQty > QtyBefore(T, k) => \E n \in 1 .. Len(F) : F[n].seq = k
  /\ \A m, n \in 1 .. Len(F) :
       m # n /\ F[m].venueFillID # None => F[m].venueFillID # F[n].venueFillID

\* A transition appended to a history changes nothing before it.
LEMMA AppendTransition ==
  ASSUME NEW T \in Seq(TransitionRows), NEW t \in TransitionRows,
         NEW n \in Nat, n = Len(T)
  PROVE  /\ Append(T, t) \in Seq(TransitionRows)
         /\ Len(Append(T, t)) = n + 1
         /\ \A k \in 1 .. n : Append(T, t)[k] = T[k]
         /\ Append(T, t)[n + 1] = t
         /\ \A k \in 1 .. n + 1 : QtyBefore(Append(T, t), k) = QtyBefore(T, k)
         /\ \A k \in 1 .. n + 1 : QtyBefore(T, k) \in Nat
<1>1. /\ Append(T, t) \in Seq(TransitionRows)
      /\ Len(Append(T, t)) = n + 1
      /\ \A k \in 1 .. n : Append(T, t)[k] = T[k]
      /\ Append(T, t)[n + 1] = t
  OBVIOUS
<1>2. \A k \in 1 .. n : T[k].filledQty \in Nat
  <2>1. \A k \in 1 .. n : T[k] \in TransitionRows
    OBVIOUS
  <2> QED BY <2>1 DEF TransitionRows
<1>3. ASSUME NEW k \in 1 .. n + 1
      PROVE  QtyBefore(Append(T, t), k) = QtyBefore(T, k) /\ QtyBefore(T, k) \in Nat
  <2>1. CASE k = 1
    BY <2>1 DEF QtyBefore
  <2>2. CASE k # 1
    <3>1. k - 1 \in 1 .. n
      BY <2>2
    <3> QED BY <1>1, <1>2, <2>2, <3>1 DEF QtyBefore
  <2> QED BY <2>1, <2>2
<1> QED BY <1>1, <1>3

\* A transition that raises nothing needs no fill row.
LEMMA NoFillMatches ==
  ASSUME NEW T \in Seq(TransitionRows), NEW t \in TransitionRows,
         NEW F \in Seq(FillRows), FillsMatch(T, F),
         t.filledQty = QtyBefore(T, Len(T) + 1)
  PROVE  FillsMatch(Append(T, t), F)
<1>1. PICK n \in Nat, l \in Nat : n = Len(T) /\ l = Len(F)
  OBVIOUS
<1>2. PICK U \in Seq(TransitionRows) : U = Append(T, t)
  BY AppendTransition, <1>1
<1>3. /\ Len(U) = n + 1 /\ U[n + 1] = t
      /\ \A k \in 1 .. n : U[k] = T[k]
      /\ \A k \in 1 .. n + 1 : QtyBefore(U, k) = QtyBefore(T, k)
      /\ QtyBefore(T, n + 1) \in Nat
  BY <1>1, <1>2, AppendTransition
<1>4. ASSUME NEW i \in 1 .. l
      PROVE  /\ F[i].seq \in 1 .. n + 1 /\ F[i].qty > 0
             /\ F[i].qty = U[F[i].seq].filledQty - QtyBefore(U, F[i].seq)
  <2>1. /\ F[i].seq \in 1 .. n /\ F[i].qty > 0
        /\ F[i].qty = T[F[i].seq].filledQty - QtyBefore(T, F[i].seq)
    BY <1>1 DEF FillsMatch
  <2>2. F[i].seq \in 1 .. n + 1
    BY <2>1
  <2> QED BY <1>3, <2>1, <2>2
<1>5. ASSUME NEW k \in 1 .. n + 1, U[k].filledQty > QtyBefore(U, k)
      PROVE  \E i \in 1 .. l : F[i].seq = k
  <2>1. k # n + 1
    BY <1>1, <1>3, <1>5
  <2>2. k \in 1 .. n
    BY <2>1
  <2>3. T[k].filledQty > QtyBefore(T, k)
    BY <1>3, <1>5, <2>2
  <2> QED BY <1>1, <2>2, <2>3 DEF FillsMatch
<1>6. /\ \A i, j \in 1 .. l : i < j => F[i].seq < F[j].seq
      /\ \A i, j \in 1 .. l : i # j /\ F[i].venueFillID # None
           => F[i].venueFillID # F[j].venueFillID
  BY <1>1 DEF FillsMatch
<1>7. FillsMatch(U, F)
  BY <1>1, <1>3, <1>4, <1>5, <1>6 DEF FillsMatch
<1> QED BY <1>2, <1>7

\* A transition that raises the quantity is matched by a fill row of what it
\* raised, with a venue fill ID that is new to the order or absent.
LEMMA FillMatches ==
  ASSUME NEW T \in Seq(TransitionRows), NEW t \in TransitionRows,
         NEW F \in Seq(FillRows), FillsMatch(T, F), NEW f \in FillRows,
         f.qty > 0, t.filledQty = QtyBefore(T, Len(T) + 1) + f.qty,
         f.seq = Len(T) + 1,
         \/ f.venueFillID = None
         \/ \A i \in 1 .. Len(F) : F[i].venueFillID # f.venueFillID
  PROVE  FillsMatch(Append(T, t), Append(F, f))
<1>1. PICK n \in Nat, l \in Nat : n = Len(T) /\ l = Len(F)
  OBVIOUS
<1>2. PICK U \in Seq(TransitionRows) : U = Append(T, t)
  BY AppendTransition, <1>1
<1>3. /\ Len(U) = n + 1 /\ U[n + 1] = t
      /\ \A k \in 1 .. n : U[k] = T[k]
      /\ \A k \in 1 .. n + 1 : QtyBefore(U, k) = QtyBefore(T, k)
      /\ QtyBefore(T, n + 1) \in Nat
  BY <1>1, <1>2, AppendTransition
<1>4. PICK G : G = Append(F, f)
  OBVIOUS
<1>5. /\ Len(G) = l + 1 /\ G[l + 1] = f
      /\ \A i \in 1 .. l : G[i] = F[i]
  BY <1>1, <1>4
<1>6. /\ f.qty \in Nat /\ f.seq = n + 1
      /\ t.filledQty = QtyBefore(T, n + 1) + f.qty
      /\ \/ f.venueFillID = None
         \/ \A i \in 1 .. l : F[i].venueFillID # f.venueFillID
  BY <1>1 DEF FillRows
<1>7. ASSUME NEW i \in 1 .. l
      PROVE  /\ F[i].seq \in 1 .. n /\ F[i].qty > 0
             /\ F[i].qty = T[F[i].seq].filledQty - QtyBefore(T, F[i].seq)
  BY <1>1 DEF FillsMatch
<1>8. ASSUME NEW i \in 1 .. l + 1
      PROVE  /\ G[i].seq \in 1 .. n + 1 /\ G[i].qty > 0
             /\ G[i].qty = U[G[i].seq].filledQty - QtyBefore(U, G[i].seq)
  <2>1. CASE i = l + 1
    <3>1. G[i] = f /\ U[f.seq] = t /\ QtyBefore(U, f.seq) = QtyBefore(T, n + 1)
      BY <1>3, <1>5, <1>6, <2>1
    <3> QED BY <1>3, <1>6, <3>1
  <2>2. CASE i \in 1 .. l
    <3>1. G[i] = F[i] /\ F[i].seq \in 1 .. n /\ F[i].seq \in 1 .. n + 1
      BY <1>5, <1>7, <2>2
    <3> QED BY <1>3, <1>7, <2>2, <3>1
  <2> QED BY <2>1, <2>2
<1>9. ASSUME NEW i \in 1 .. l + 1, NEW j \in 1 .. l + 1, i < j
      PROVE  G[i].seq < G[j].seq
  <2>1. i \in 1 .. l /\ G[i] = F[i] /\ F[i].seq \in 1 .. n
    BY <1>5, <1>7, <1>9
  <2>2. CASE j = l + 1
    BY <1>5, <1>6, <2>1, <2>2
  <2>3. CASE j \in 1 .. l
    <3>1. F[i].seq < F[j].seq
      BY <1>1, <1>9, <2>1, <2>3 DEF FillsMatch
    <3> QED BY <1>5, <2>1, <2>3, <3>1
  <2>4. j = l + 1 \/ j \in 1 .. l
    OBVIOUS
  <2> QED BY <2>2, <2>3, <2>4
<1>10. ASSUME NEW k \in 1 .. n + 1, U[k].filledQty > QtyBefore(U, k)
       PROVE  \E i \in 1 .. l + 1 : G[i].seq = k
  <2>1. CASE k = n + 1
    BY <1>5, <1>6, <2>1
  <2>2. CASE k \in 1 .. n
    <3>1. T[k].filledQty > QtyBefore(T, k)
      BY <1>3, <1>10, <2>2
    <3>2. PICK i \in 1 .. l : F[i].seq = k
      BY <1>1, <2>2, <3>1 DEF FillsMatch
    <3> QED BY <1>5, <3>2
  <2> QED BY <2>1, <2>2
<1>11. ASSUME NEW i \in 1 .. l + 1, NEW j \in 1 .. l + 1, i # j,
              G[i].venueFillID # None
       PROVE  G[i].venueFillID # G[j].venueFillID
  <2>1. \A a, b \in 1 .. l : a # b /\ F[a].venueFillID # None
          => F[a].venueFillID # F[b].venueFillID
    BY <1>1 DEF FillsMatch
  <2>2. CASE i \in 1 .. l /\ j \in 1 .. l
    BY <1>5, <1>11, <2>1, <2>2
  <2>3. CASE i = l + 1 /\ j \in 1 .. l
    BY <1>5, <1>6, <1>11, <2>3
  <2>4. CASE i \in 1 .. l /\ j = l + 1
    BY <1>5, <1>6, <1>11, <2>4
  <2> QED BY <1>11, <2>2, <2>3, <2>4
<1>12. FillsMatch(U, G)
  BY <1>3, <1>5, <1>8, <1>9, <1>10, <1>11 DEF FillsMatch
<1> QED BY <1>2, <1>4, <1>12

\* Only a commit changes a table other than orders, and one that changes the
\* tables of two orders does not exist.
LEMMA TablesFrame ==
  ASSUME TypeOK, LockInv, [Next]_vars
  PROVE  \/ UNCHANGED <<transitions, fills>>
         \/ \E w \in Workers :
              /\ Commit(w)
              /\ \A o \in Orders \ {call[w].order} :
                   /\ transitions'[o] = transitions[o]
                   /\ fills'[o] = fills[o]
<1>1. ASSUME NEW w \in Workers, Commit(w)
      PROVE  \A o \in Orders \ {call[w].order} :
               transitions'[o] = transitions[o] /\ fills'[o] = fills[o]
  BY <1>1 DEF Commit, TypeOK
<1>2. ASSUME NEW o \in Orders, CreatePending(o) \/ MarkCancelRequested(o)
      PROVE  UNCHANGED <<transitions, fills>>
  BY <1>2 DEF CreatePending, MarkCancelRequested, orderVars
<1>3. ASSUME NEW w \in Workers,
             \/ Abort(w) \/ OrderNotFound(w) \/ LockOrder(w)
             \/ AdoptVenueOrderID(w)
             \/ InsertTransition(w) \/ LockInventory(w) \/ OpenLot(w)
             \/ CloseLots(w) \/ InsertEventOutbox(w)
             \/ \E o \in Orders, ev \in Events : Begin(w, o, ev)
      PROVE  UNCHANGED <<transitions, fills>>
  BY <1>3 DEF Abort, OrderNotFound, LockOrder, AdoptVenueOrderID,
     InsertTransition, LockInventory, OpenLot, CloseLots, InsertEventOutbox,
     Begin, orderVars
<1>4. CASE UNCHANGED vars
  BY <1>4 DEF vars, orderVars
<1> QED BY <1>1, <1>2, <1>3, <1>4 DEF Next, Step

\* What a commit appends to the history of its order: one transition, which
\* raises the quantity by the decided delta, and the fill row of that delta.
LEMMA CommitAppends ==
  ASSUME IndInv, NEW w \in Workers, Commit(w)
  PROVE  LET o == call[w].order
         IN  /\ o \in Orders
             /\ transitions[o] \in Seq(TransitionRows)
             /\ fills[o] \in Seq(FillRows)
             /\ writes[w].tr = TransitionRow(w) /\ writes[w].fill = FillRow(w)
             /\ TransitionRow(w) \in TransitionRows
             /\ FillRow(w) \in Seq(FillRows)
             /\ transitions'[o] = Append(transitions[o], TransitionRow(w))
             /\ fills'[o] = fills[o] \o FillRow(w)
             /\ TransitionRow(w).seq = Len(transitions[o]) + 1
             /\ DecisionOf(w).fillDelta \in Nat
             /\ TransitionRow(w).filledQty
                  = QtyBefore(transitions[o], Len(transitions[o]) + 1)
                      + DecisionOf(w).fillDelta
<1> DEFINE o == call[w].order
           n == Len(transitions[o])
<1>1. /\ pc[w] = "commit" /\ pc[w] \in PastLock /\ pc[w] \in PastInsert
      /\ HoldsRow(w)
  BY DEF Commit, PastLock, PastInsert, IndInv, LockInv
<1>2. /\ orders[o] = read[w] /\ read[w] \in Row /\ o \in Orders
      /\ writes[w] = [tr |-> TransitionRow(w), fill |-> FillRow(w)]
  BY <1>1, DecisionFacts DEF HoldsRow
<1>3. /\ transitions[o] \in Seq(TransitionRows) /\ fills[o] \in Seq(FillRows)
      /\ TransitionRow(w) \in TransitionRows /\ FillRow(w) \in Seq(FillRows)
  BY <1>1, <1>2, WritesType DEF IndInv, TypeOK
<1>4. /\ transitions'[o] = Append(transitions[o], TransitionRow(w))
      /\ fills'[o] = fills[o] \o FillRow(w)
  BY <1>2 DEF Commit, IndInv, TypeOK
<1>5. /\ TransitionRow(w).seq = n + 1
      /\ TransitionRow(w).filledQty = read[w].filledQty + DecisionOf(w).fillDelta
  BY DEF TransitionRow
<1>6. /\ read[w] # NoRow
      /\ StateOf(read[w]).filledQty = read[w].filledQty
      /\ DecisionOf(w).fillDelta \in Nat
  BY <1>1, <1>2, RowIsState, DecisionFacts
<1>7. StateBefore(o, n + 1) = StateOf(read[w])
  BY <1>2, <1>6 DEF IndInv, AuditTrail
<1>8. QtyBefore(transitions[o], n + 1) = StateBefore(o, n + 1).filledQty
  BY DEF QtyBefore, StateBefore
<1>9. writes[w].tr = TransitionRow(w) /\ writes[w].fill = FillRow(w)
  BY <1>2
<1> QED BY <1>2, <1>3, <1>4, <1>5, <1>6, <1>7, <1>8, <1>9

\* A commit appends at most one fill row, which accounts for what its
\* transition raised and does not repeat a venue fill ID.
LEMMA CommitFills ==
  ASSUME IndInv, NEW w \in Workers, Commit(w),
         FillsMatch(transitions[call[w].order], fills[call[w].order])
  PROVE  FillsMatch(transitions'[call[w].order], fills'[call[w].order])
<1>1. PICK o \in Orders : o = call[w].order
  BY CommitAppends
<1>2. PICK T \in Seq(TransitionRows), F \in Seq(FillRows),
           t \in TransitionRows, d \in Nat :
        /\ T = transitions[o] /\ F = fills[o] /\ t = TransitionRow(w)
        /\ d = DecisionOf(w).fillDelta
  BY <1>1, CommitAppends
<1>3. /\ transitions'[o] = Append(T, t)
      /\ fills'[o] = F \o FillRow(w)
      /\ t.filledQty = QtyBefore(T, Len(T) + 1) + d
      /\ FillRow(w) \in Seq(FillRows)
  BY <1>1, <1>2, CommitAppends
<1>4. FillsMatch(T, F)
  BY <1>1, <1>2
<1>5. CASE d = 0
  <2>1. FillRow(w) = <<>>
    BY <1>2, <1>5 DEF FillRow
  <2>2. fills'[o] = F
    BY <1>3, <2>1
  <2>3. t.filledQty = QtyBefore(T, Len(T) + 1)
    BY <1>2, <1>3, <1>5, AppendTransition
  <2>4. FillsMatch(Append(T, t), F)
    BY <1>4, <2>3, NoFillMatches
  <2> QED BY <1>1, <1>3, <2>2, <2>4
<1>6. CASE d > 0
  <2>1. PICK f : /\ FillRow(w) = <<f>> /\ f.seq = Len(T) + 1 /\ f.qty = d
                 /\ \/ f.venueFillID = None
                    \/ \A i \in 1 .. Len(F) : F[i].venueFillID # f.venueFillID
    <3> DEFINE id == call[w].ev.venueFillID
               conflict == \E i \in 1 .. Len(F) : F[i].venueFillID = id
    <3>1. FillRow(w) = <<[seq |-> Len(T) + 1, qty |-> d,
                          venueFillID |-> IF conflict THEN None ELSE id]>>
      BY <1>1, <1>2, <1>6 DEF FillRow
    <3> DEFINE f == [seq |-> Len(T) + 1, qty |-> d,
                     venueFillID |-> IF conflict THEN None ELSE id]
    <3>2. f.seq = Len(T) + 1 /\ f.qty = d
          /\ f.venueFillID = IF conflict THEN None ELSE id
      OBVIOUS
    <3>3. ~conflict => \A i \in 1 .. Len(F) : F[i].venueFillID # id
      OBVIOUS
    <3> HIDE DEF f, conflict
    <3>4. \/ f.venueFillID = None
          \/ \A i \in 1 .. Len(F) : F[i].venueFillID # f.venueFillID
      BY <3>2, <3>3
    <3>5. FillRow(w) = <<f>>
      BY <3>1 DEF f
    <3> QED BY <3>2, <3>4, <3>5
  <2>2. f \in FillRows
    BY <1>3, <2>1
  <2>3. fills'[o] = Append(F, f)
    BY <1>3, <2>1, <2>2
  <2>4. FillsMatch(Append(T, t), Append(F, f))
    BY <1>3, <1>4, <1>6, <2>1, <2>2, FillMatches
  <2> QED BY <1>1, <1>3, <2>3, <2>4
<1> QED BY <1>5, <1>6

FillsInv == \A o \in Orders : FillsMatch(transitions[o], fills[o])

\* Order by order, the invariant is FillsTellTheQuantity.
LEMMA FillsByOrder == FillsInv => FillsTellTheQuantity
<1> SUFFICES ASSUME FillsInv PROVE FillsTellTheQuantity
  OBVIOUS
<1>1. ASSUME NEW o \in Orders, NEW k
      PROVE  StateBefore(o, k).filledQty = QtyBefore(transitions[o], k)
  BY DEF StateBefore, QtyBefore
<1>2. ASSUME NEW o \in Orders, NEW n \in 1 .. Len(fills[o])
      PROVE  /\ fills[o][n].seq \in 1 .. Len(transitions[o])
             /\ fills[o][n].qty > 0
             /\ fills[o][n].qty = transitions[o][fills[o][n].seq].filledQty
                                    - StateBefore(o, fills[o][n].seq).filledQty
  <2>1. /\ fills[o][n].seq \in 1 .. Len(transitions[o])
        /\ fills[o][n].qty > 0
        /\ fills[o][n].qty = transitions[o][fills[o][n].seq].filledQty
                               - QtyBefore(transitions[o], fills[o][n].seq)
    BY DEF FillsInv, FillsMatch
  <2>2. StateBefore(o, fills[o][n].seq).filledQty
          = QtyBefore(transitions[o], fills[o][n].seq)
    BY <1>1
  <2> QED BY <2>1, <2>2
<1>3. ASSUME NEW o \in Orders, NEW k \in 1 .. Len(transitions[o]),
             transitions[o][k].filledQty > StateBefore(o, k).filledQty
      PROVE  \E n \in 1 .. Len(fills[o]) : fills[o][n].seq = k
  <2>1. transitions[o][k].filledQty > QtyBefore(transitions[o], k)
    BY <1>1, <1>3
  <2> QED BY <2>1 DEF FillsInv, FillsMatch
<1>4. ASSUME NEW o \in Orders
      PROVE  /\ \A m, n \in 1 .. Len(fills[o]) :
                  m < n => fills[o][m].seq < fills[o][n].seq
             /\ \A m, n \in 1 .. Len(fills[o]) :
                  m # n /\ fills[o][m].venueFillID # None
                    => fills[o][m].venueFillID # fills[o][n].venueFillID
  BY DEF FillsInv, FillsMatch
<1> QED BY <1>2, <1>3, <1>4, Zenon DEF FillsTellTheQuantity

\* Every step preserves what the fills table says.
LEMMA NextFills == IndInv /\ FillsInv /\ [Next]_vars => FillsInv'
<1> SUFFICES ASSUME IndInv, FillsInv, [Next]_vars
             PROVE  \A o \in Orders : FillsMatch(transitions'[o], fills'[o])
  BY DEF FillsInv
<1>1. \A o \in Orders : FillsMatch(transitions[o], fills[o])
  BY DEF FillsInv
<1>2. CASE UNCHANGED <<transitions, fills>>
  BY <1>1, <1>2
<1>3. ASSUME NEW w \in Workers, Commit(w),
             \A o \in Orders \ {call[w].order} :
               transitions'[o] = transitions[o] /\ fills'[o] = fills[o]
      PROVE  \A o \in Orders : FillsMatch(transitions'[o], fills'[o])
  <2>1. call[w].order \in Orders
    BY <1>3, CommitAppends
  <2>2. FillsMatch(transitions'[call[w].order], fills'[call[w].order])
    BY <1>1, <1>3, <2>1, CommitFills
  <2> QED BY <1>1, <1>3, <2>2
<1> QED BY <1>2, <1>3, TablesFrame DEF IndInv

\* The fills of every order are exactly what its transitions raised, whatever
\* callers race on it and whichever fill IDs the venue reuses.
THEOREM FillsHold == Spec => []FillsTellTheQuantity
<1>1. Init => FillsInv
  BY DEF Init, FillsInv, FillsMatch
<1> QED BY <1>1, NextFills, FillsByOrder, Invariance, PTL DEF Spec

--------------------------------------------------------------------------------
(* The transactional outbox. *)

\* The outbox rows worker w's transaction owes at its step, by subject and
\* quantity.
Due(w) ==
  (IF pc[w] = "commit"
   THEN {<<"order.updated", writes[w].tr.filledQty>>} ELSE {})
    \cup (IF pc[w] = "commit" /\ DecisionOf(w).fillDelta > 0
          THEN {<<"order.filled", DecisionOf(w).fillDelta>>} ELSE {})
    \cup (IF pc[w] \in {"update", "commit"} /\ posting[w].unmatched > 0
          THEN {<<"ledger.unmatched_sell", posting[w].unmatched>>} ELSE {})

\* Worker w has staged exactly the rows it owes, under the number of the
\* transition it is about to append; before it posts it has staged nothing.
StagesDue(w) ==
  /\ pc[w] \notin {"update", "commit"} =>
       staged[w] = {} /\ posting[w] = NoPosting
  /\ \A r \in staged[w] :
       /\ r.id \in Nat /\ r.id <= outboxSeq
       /\ r.order = call[w].order
       /\ r.seq = Len(transitions[call[w].order]) + 1
       /\ <<r.subject, r.qty>> \in Due(w)
  /\ \A r, s \in staged[w] : r # s => r.id # s.id /\ r.subject # s.subject
  /\ \A d \in Due(w) :
       \E r \in staged[w] : r.subject = d[1] /\ r.qty = d[2]

\* No id is given out twice, and what is staged for an order comes after what
\* the outbox already has of it.
IdsApart ==
  /\ \A v, w \in Workers : v # w =>
       \A r \in staged[v], s \in staged[w] : r.id # s.id
  /\ \A w \in Workers : \A r \in staged[w], s \in outbox :
       r.id # s.id /\ (r.order = s.order => s.id < r.id)

\* The committed rows, told apart and in order.
RowsInOrder ==
  /\ \A r \in outbox :
       /\ r.id \in Nat /\ r.id <= outboxSeq
       /\ r.order \in Orders
       /\ r.seq \in 1 .. Len(transitions[r.order])
  /\ \A r, s \in outbox :
       /\ r # s => /\ r.id # s.id
                   /\ \/ r.subject # s.subject
                      \/ r.order # s.order
                      \/ r.seq # s.seq
       /\ r.order = s.order /\ r.id < s.id => r.seq <= s.seq

\* The correspondence of OutboxTellsEverything, row by row.
RowsTell(box, T, F, U) ==
  /\ \A r \in box : r.subject = "order.updated" =>
       /\ r.order \in Orders /\ r.seq \in 1 .. Len(T[r.order])
       /\ r.qty = T[r.order][r.seq].filledQty
  /\ \A o \in Orders : \A k \in 1 .. Len(T[o]) :
       \E r \in box : /\ r.subject = "order.updated" /\ r.order = o
                      /\ r.seq = k /\ r.qty = T[o][k].filledQty
  /\ \A r \in box : r.subject = "order.filled" =>
       /\ r.order \in Orders
       /\ \E n \in 1 .. Len(F[r.order]) :
            F[r.order][n].seq = r.seq /\ F[r.order][n].qty = r.qty
  /\ \A o \in Orders : \A n \in 1 .. Len(F[o]) :
       \E r \in box : /\ r.subject = "order.filled" /\ r.order = o
                      /\ r.seq = F[o][n].seq /\ r.qty = F[o][n].qty
  /\ \A r \in box : r.subject = "ledger.unmatched_sell" =>
       \E u \in U : /\ u.fill.order = r.order /\ u.fill.seq = r.seq
                    /\ u.qty = r.qty
  /\ \A u \in U :
       \E r \in box : /\ r.subject = "ledger.unmatched_sell"
                      /\ r.order = u.fill.order /\ r.seq = u.fill.seq
                      /\ r.qty = u.qty

OutboxInv ==
  /\ DOMAIN staged = Workers /\ DOMAIN posting = Workers
  /\ \A w \in Workers : StagesDue(w)
  /\ IdsApart
  /\ RowsInOrder
  /\ RowsTell(outbox, transitions, fills, unmatched)

\* Empty tables and no transaction satisfy it.
LEMMA InitOutbox == Init => OutboxInv
<1> SUFFICES ASSUME Init PROVE OutboxInv
  OBVIOUS
<1>1. DOMAIN staged = Workers /\ DOMAIN posting = Workers
  BY DEF Init
<1>2. ASSUME NEW w \in Workers PROVE StagesDue(w)
  BY DEF Init, StagesDue, Due, NoPosting
<1>3. IdsApart /\ RowsInOrder
  BY DEF Init, IdsApart, RowsInOrder
<1>4. RowsTell(outbox, transitions, fills, unmatched)
  BY DEF Init, RowsTell
<1> QED BY <1>1, <1>2, <1>3, <1>4 DEF OutboxInv

\* Row by row implies table by table.
LEMMA RowsTellTables == OutboxInv => OutboxTellsEverything
<1> SUFFICES ASSUME RowsInOrder, RowsTell(outbox, transitions, fills, unmatched)
             PROVE  OutboxTellsEverything
  BY DEF OutboxInv
<1>1. \A r, s \in outbox :
        /\ r # s => /\ r.id # s.id
                    /\ \/ r.subject # s.subject
                       \/ r.order # s.order
                       \/ r.seq # s.seq
        /\ r.order = s.order /\ r.id < s.id => r.seq <= s.seq
  BY DEF RowsInOrder
<1>2. {<<r.order, r.seq, r.qty>> :
         r \in {x \in outbox : x.subject = "order.updated"}}
        = UNION {{<<o, k, transitions[o][k].filledQty>> :
                    k \in 1 .. Len(transitions[o])} : o \in Orders}
  <2>1. ASSUME NEW r \in outbox, r.subject = "order.updated"
        PROVE  \E o \in Orders : \E k \in 1 .. Len(transitions[o]) :
                 <<r.order, r.seq, r.qty>> = <<o, k, transitions[o][k].filledQty>>
    BY <2>1 DEF RowsTell
  <2>2. ASSUME NEW o \in Orders, NEW k \in 1 .. Len(transitions[o])
        PROVE  \E r \in {x \in outbox : x.subject = "order.updated"} :
                 <<o, k, transitions[o][k].filledQty>> = <<r.order, r.seq, r.qty>>
    BY <2>2 DEF RowsTell
  <2> QED BY <2>1, <2>2
<1>3. {<<r.order, r.seq, r.qty>> :
         r \in {x \in outbox : x.subject = "order.filled"}}
        = UNION {{<<o, fills[o][n].seq, fills[o][n].qty>> :
                    n \in 1 .. Len(fills[o])} : o \in Orders}
  <2>1. ASSUME NEW r \in outbox, r.subject = "order.filled"
        PROVE  \E o \in Orders : \E n \in 1 .. Len(fills[o]) :
                 <<r.order, r.seq, r.qty>> = <<o, fills[o][n].seq, fills[o][n].qty>>
    BY <2>1 DEF RowsTell
  <2>2. ASSUME NEW o \in Orders, NEW n \in 1 .. Len(fills[o])
        PROVE  \E r \in {x \in outbox : x.subject = "order.filled"} :
                 <<o, fills[o][n].seq, fills[o][n].qty>> = <<r.order, r.seq, r.qty>>
    BY <2>2 DEF RowsTell
  <2> DEFINE L == {<<r.order, r.seq, r.qty>> :
                     r \in {x \in outbox : x.subject = "order.filled"}}
             Q(o) == {<<o, fills[o][n].seq, fills[o][n].qty>> :
                        n \in 1 .. Len(fills[o])}
  <2>3. ASSUME NEW x \in L PROVE \E o \in Orders : x \in Q(o)
    BY <2>1
  <2>4. ASSUME NEW o \in Orders, NEW x \in Q(o) PROVE x \in L
    BY <2>2
  <2> HIDE DEF L, Q
  <2>5. L = UNION {Q(o) : o \in Orders}
    BY <2>3, <2>4
  <2> QED BY <2>5 DEF L, Q
<1>4. {<<r.order, r.seq, r.qty>> :
         r \in {x \in outbox : x.subject = "ledger.unmatched_sell"}}
        = {<<u.fill.order, u.fill.seq, u.qty>> : u \in unmatched}
  <2>1. ASSUME NEW r \in outbox, r.subject = "ledger.unmatched_sell"
        PROVE  \E u \in unmatched :
                 <<r.order, r.seq, r.qty>> = <<u.fill.order, u.fill.seq, u.qty>>
    BY <2>1 DEF RowsTell
  <2>2. ASSUME NEW u \in unmatched
        PROVE  \E r \in {x \in outbox : x.subject = "ledger.unmatched_sell"} :
                 <<u.fill.order, u.fill.seq, u.qty>> = <<r.order, r.seq, r.qty>>
    BY <2>2 DEF RowsTell
  <2> QED BY <2>1, <2>2
<1> QED BY <1>1, <1>2, <1>3, <1>4 DEF OutboxTellsEverything

\* A transaction that does not move keeps what it has staged.
LEMMA StagesStable ==
  ASSUME NEW v \in Workers, StagesDue(v), outboxSeq \in Nat, outboxSeq' \in Nat,
         outboxSeq' >= outboxSeq,
         pc'[v] = pc[v], call'[v] = call[v], read'[v] = read[v],
         writes'[v] = writes[v], posting'[v] = posting[v],
         staged'[v] = staged[v],
         pc[v] \in {"update", "commit"} =>
           transitions'[call[v].order] = transitions[call[v].order]
  PROVE  StagesDue(v)'
<1>1. Due(v)' = Due(v)
  BY DEF Due, DecisionOf
<1>2. CASE pc[v] \notin {"update", "commit"}
  <2>1. staged[v] = {} /\ posting[v] = NoPosting
    BY <1>2 DEF StagesDue
  <2>2. Due(v) = {}
    BY <1>2, <2>1 DEF Due, NoPosting
  <2> QED BY <1>1, <1>2, <2>1, <2>2 DEF StagesDue
<1>3. CASE pc[v] \in {"update", "commit"}
  <2>1. \A r \in staged[v] :
          /\ r.id \in Nat /\ r.id <= outboxSeq
          /\ r.order = call[v].order
          /\ r.seq = Len(transitions[call[v].order]) + 1
          /\ <<r.subject, r.qty>> \in Due(v)
    BY DEF StagesDue
  <2>2. ASSUME NEW r \in staged'[v]
        PROVE  /\ r.id \in Nat /\ r.id <= outboxSeq'
               /\ r.order = call'[v].order
               /\ r.seq = Len(transitions'[call'[v].order]) + 1
               /\ <<r.subject, r.qty>> \in Due(v)'
    <3>1. r \in staged[v] /\ r.id \in Nat /\ r.id <= outboxSeq
      BY <2>1
    <3>2. r.id <= outboxSeq'
      BY <3>1
    <3>3. transitions'[call'[v].order] = transitions[call[v].order]
      BY <1>3
    <3>4. r.order = call'[v].order /\ <<r.subject, r.qty>> \in Due(v)'
      BY <1>1, <2>1, <3>1
    <3> QED BY <2>1, <3>1, <3>2, <3>3, <3>4
  <2>3. /\ \A r, s \in staged'[v] :
             r # s => r.id # s.id /\ r.subject # s.subject
        /\ \A d \in Due(v)' :
             \E r \in staged'[v] : r.subject = d[1] /\ r.qty = d[2]
    BY <1>1 DEF StagesDue
  <2>4. pc'[v] \in {"update", "commit"}
    BY <1>3
  <2> QED BY <2>2, <2>3, <2>4 DEF StagesDue
<1> QED BY <1>2, <1>3

\* A transaction that has ended, or not yet posted, has staged nothing and
\* owes nothing.
LEMMA StagesNothing ==
  ASSUME NEW w \in Workers, staged'[w] = {}, posting'[w] = NoPosting,
         pc'[w] # "commit"
  PROVE  StagesDue(w)'
<1>1. Due(w)' = {}
  BY DEF Due, NoPosting
<1> QED BY <1>1 DEF StagesDue

\* Two transactions past the row lock work on different orders.
LEMMA OneHolder ==
  ASSUME LockInv, NEW v \in Workers, NEW w \in Workers, v # w,
         pc[v] \in PastLock, pc[w] \in PastLock
  PROVE  call[v].order # call[w].order
BY DEF LockInv, HoldsRow

\* A step of one transaction leaves the others' work alone.
LEMMA OthersKeep ==
  ASSUME TypeOK, DOMAIN staged = Workers, DOMAIN posting = Workers,
         NEW w \in Workers,
         Step(w) \/ Abort(w) \/ \E o \in Orders, ev \in Events : Begin(w, o, ev)
  PROVE  /\ DOMAIN staged' = Workers /\ DOMAIN posting' = Workers
         /\ \A v \in Workers \ {w} :
              /\ pc'[v] = pc[v] /\ call'[v] = call[v] /\ read'[v] = read[v]
              /\ writes'[v] = writes[v] /\ posting'[v] = posting[v]
              /\ staged'[v] = staged[v]
<1> DEFINE Kept ==
      /\ DOMAIN staged' = Workers /\ DOMAIN posting' = Workers
      /\ \A v \in Workers \ {w} :
           /\ pc'[v] = pc[v] /\ call'[v] = call[v] /\ read'[v] = read[v]
           /\ writes'[v] = writes[v] /\ posting'[v] = posting[v]
           /\ staged'[v] = staged[v]
<1>0. /\ DOMAIN pc = Workers /\ DOMAIN call = Workers /\ DOMAIN read = Workers
      /\ DOMAIN writes = Workers
  BY DEF TypeOK
<1>1. ASSUME End(w) PROVE Kept
  BY <1>0, <1>1 DEF End
<1>2. CASE \/ Abort(w) \/ OrderNotFound(w) \/ AdoptVenueOrderID(w) \/ Commit(w)
  BY <1>1, <1>2 DEF Abort, OrderNotFound, AdoptVenueOrderID, Commit
<1>3. CASE \E o \in Orders, ev \in Events : Begin(w, o, ev)
  BY <1>0, <1>3 DEF Begin
<1>4. CASE LockOrder(w)
  BY <1>0, <1>4 DEF LockOrder
<1>5. CASE InsertTransition(w)
  BY <1>0, <1>5 DEF InsertTransition
<1>6. CASE LockInventory(w)
  BY <1>0, <1>6 DEF LockInventory, txVars
<1>7. CASE OpenLot(w)
  BY <1>0, <1>7 DEF OpenLot
<1>8. CASE CloseLots(w)
  BY <1>0, <1>8 DEF CloseLots
<1>9. CASE InsertEventOutbox(w)
  BY <1>0, <1>9 DEF InsertEventOutbox
<1> QED BY <1>2, <1>3, <1>4, <1>5, <1>6, <1>7, <1>8, <1>9 DEF Step

\* A step that commits nothing and stages nothing new keeps the invariant if
\* every transaction still stages what it owes.
LEMMA OutboxQuiet ==
  ASSUME OutboxInv, UNCHANGED <<transitions, fills, unmatched, outbox, outboxSeq>>,
         DOMAIN staged' = Workers, DOMAIN posting' = Workers,
         \A v \in Workers : StagesDue(v)' /\ staged'[v] \subseteq staged[v]
  PROVE  OutboxInv'
<1>1. IdsApart'
  BY DEF OutboxInv, IdsApart
<1>2. RowsInOrder'
  BY DEF OutboxInv, RowsInOrder
<1>3. RowsTell(outbox', transitions', fills', unmatched')
  BY DEF OutboxInv
<1> QED BY <1>1, <1>2, <1>3 DEF OutboxInv

\* Steps that neither stage nor commit outbox rows.
LEMMA NextOutboxQuiet ==
  ASSUME IndInv, OutboxInv, NEW w \in Workers,
         \/ OrderNotFound(w) \/ LockOrder(w) \/ AdoptVenueOrderID(w)
         \/ InsertTransition(w) \/ LockInventory(w) \/ OpenLot(w) \/ Abort(w)
         \/ \E o \in Orders, ev \in Events : Begin(w, o, ev)
  PROVE  OutboxInv'
<1>0. /\ DOMAIN staged = Workers /\ DOMAIN posting = Workers
      /\ TypeOK /\ \A v \in Workers : StagesDue(v)
      /\ outboxSeq \in Nat
      /\ DOMAIN pc = Workers
  BY DEF OutboxInv, IndInv, TypeOK
<1>1. UNCHANGED <<transitions, fills, unmatched, outbox, outboxSeq>>
  BY DEF OrderNotFound, LockOrder, AdoptVenueOrderID, InsertTransition,
     LockInventory, OpenLot, Abort, Begin, orderVars, ledgerVars, outboxVars
<1>2. /\ DOMAIN staged' = Workers /\ DOMAIN posting' = Workers
      /\ \A v \in Workers \ {w} :
           /\ pc'[v] = pc[v] /\ call'[v] = call[v] /\ read'[v] = read[v]
           /\ writes'[v] = writes[v] /\ posting'[v] = posting[v]
           /\ staged'[v] = staged[v]
  BY <1>0, OthersKeep DEF Step
<1>3. ASSUME NEW v \in Workers \ {w} PROVE StagesDue(v)' /\ staged'[v] = staged[v]
  BY <1>0, <1>1, <1>2, StagesStable
<1>4. StagesDue(w)' /\ staged'[w] \subseteq staged[w]
  <2>1. ASSUME End(w) PROVE StagesDue(w)' /\ staged'[w] \subseteq staged[w]
    <3>1. staged'[w] = {} /\ posting'[w] = NoPosting /\ pc'[w] = "idle"
      BY <1>0, <2>1 DEF End
    <3> QED BY <3>1, StagesNothing
  <2>2. CASE OrderNotFound(w) \/ AdoptVenueOrderID(w) \/ Abort(w)
    BY <2>1, <2>2 DEF OrderNotFound, AdoptVenueOrderID, Abort
  <2>3. CASE \/ LockOrder(w) \/ InsertTransition(w) \/ LockInventory(w)
             \/ \E o \in Orders, ev \in Events : Begin(w, o, ev)
    <3>1. /\ pc[w] \notin {"update", "commit"} /\ pc'[w] # "commit"
          /\ staged' = staged /\ posting' = posting
      BY <1>0, <2>3 DEF LockOrder, InsertTransition, LockInventory, Begin, txVars
    <3>2. staged'[w] = {} /\ posting'[w] = NoPosting /\ staged[w] = {}
      BY <1>0, <3>1 DEF StagesDue
    <3> QED BY <3>1, <3>2, StagesNothing
  <2>4. CASE OpenLot(w)
    <3>1. /\ pc[w] = "post" /\ pc'[w] = "update" /\ staged' = staged
          /\ posting'[w].unmatched = 0
      BY <1>0, <2>4 DEF OpenLot
    <3>2. staged'[w] = {} /\ staged[w] = {}
      BY <1>0, <3>1 DEF StagesDue
    <3>3. Due(w)' = {}
      BY <3>1 DEF Due
    <3> QED BY <3>1, <3>2, <3>3 DEF StagesDue
  <2> QED BY <2>2, <2>3, <2>4
<1> QED BY <1>1, <1>2, <1>3, <1>4, OutboxQuiet

\* A step that stages rows under ids not yet given out.
LEMMA OutboxStages ==
  ASSUME IndInv, OutboxInv, NEW w \in Workers, NEW New,
         pc[w] \in PastLock, StagesDue(w)',
         staged'[w] = staged[w] \cup New,
         \A r \in New : /\ r.id \in Nat /\ r.id > outboxSeq
                        /\ r.id <= outboxSeq' /\ r.order = call[w].order,
         outboxSeq' \in Nat, outboxSeq' >= outboxSeq,
         UNCHANGED <<transitions, fills, unmatched, outbox>>,
         DOMAIN staged' = Workers, DOMAIN posting' = Workers,
         \A v \in Workers \ {w} :
           /\ pc'[v] = pc[v] /\ call'[v] = call[v] /\ read'[v] = read[v]
           /\ writes'[v] = writes[v] /\ posting'[v] = posting[v]
           /\ staged'[v] = staged[v]
  PROVE  OutboxInv'
<1>0. /\ outboxSeq \in Nat /\ \A v \in Workers : StagesDue(v)
      /\ IdsApart /\ RowsInOrder
  BY DEF IndInv, TypeOK, OutboxInv
<1>1. ASSUME NEW v \in Workers PROVE StagesDue(v)'
  <2>1. CASE v # w
    BY <1>0, <2>1, StagesStable
  <2> QED BY <2>1
<1>2. \A v \in Workers : \A r \in staged[v] : r.id \in Nat /\ r.id <= outboxSeq
  BY <1>0 DEF StagesDue
<1>3. \A s \in outbox : s.id \in Nat /\ s.id <= outboxSeq
  BY <1>0 DEF RowsInOrder
<1>4. \A u, v \in Workers : u # v =>
        \A r \in staged'[u], s \in staged'[v] : r.id # s.id
  <2> SUFFICES ASSUME NEW u \in Workers, NEW v \in Workers, u # v,
                      NEW r \in staged'[u], NEW s \in staged'[v]
               PROVE  r.id # s.id
    OBVIOUS
  <2>1. CASE r \in staged[u] /\ s \in staged[v]
    BY <1>0, <2>1 DEF IdsApart
  <2>2. CASE r \in New /\ u = w
    <3>1. s \in staged[v]
      BY <2>2
    <3>2. r.id \in Nat /\ r.id > outboxSeq /\ s.id \in Nat /\ s.id <= outboxSeq
      BY <1>2, <2>2, <3>1
    <3> QED BY <1>0, <3>2
  <2>3. CASE s \in New /\ v = w
    <3>1. r \in staged[u]
      BY <2>3
    <3>2. s.id \in Nat /\ s.id > outboxSeq /\ r.id \in Nat /\ r.id <= outboxSeq
      BY <1>2, <2>3, <3>1
    <3> QED BY <1>0, <3>2
  <2>4. /\ r \in staged[u] \/ (r \in New /\ u = w)
        /\ s \in staged[v] \/ (s \in New /\ v = w)
    OBVIOUS
  <2> QED BY <2>1, <2>2, <2>3, <2>4
<1>5. ASSUME NEW v \in Workers, NEW r \in staged'[v], NEW s \in outbox'
      PROVE  r.id # s.id /\ (r.order = s.order => s.id < r.id)
  <2>1. CASE r \in staged[v]
    BY <1>0, <2>1 DEF IdsApart
  <2>2. CASE r \in New
    <3>1. r.id \in Nat /\ r.id > outboxSeq /\ s.id \in Nat /\ s.id <= outboxSeq
      BY <1>3, <2>2
    <3> QED BY <1>0, <3>1
  <2> QED BY <2>1, <2>2
<1>6. IdsApart'
  BY <1>4, <1>5 DEF IdsApart
<1>7. RowsInOrder'
  <2>1. \A r \in outbox' : r.id \in Nat /\ r.id <= outboxSeq'
    <3> SUFFICES ASSUME NEW r \in outbox PROVE r.id \in Nat /\ r.id <= outboxSeq'
      OBVIOUS
    <3>1. r.id \in Nat /\ r.id <= outboxSeq
      BY <1>3
    <3> QED BY <1>0, <3>1
  <2> QED BY <1>0, <2>1 DEF RowsInOrder
<1>8. RowsTell(outbox', transitions', fills', unmatched')
  BY DEF OutboxInv
<1> QED BY <1>1, <1>6, <1>7, <1>8 DEF OutboxInv

\* CloseLots stages one row, for what no lot covered.
LEMMA CloseLotsOutbox ==
  ASSUME IndInv, OutboxInv, NEW w \in Workers, CloseLots(w)
  PROVE  OutboxInv'
<1>0. /\ DOMAIN staged = Workers /\ DOMAIN posting = Workers
      /\ TypeOK /\ StagesDue(w) /\ HoldsRow(w) /\ outboxSeq \in Nat
      /\ DOMAIN pc = Workers
  BY DEF OutboxInv, IndInv, TypeOK, LockInv
<1>1. PICK o, q, row : /\ o = call[w].order
                       /\ q = Select(OpenLots(InventoryOf[o]),
                                     writes[w].fill[1].qty).unmatched
                       /\ row = [id |-> outboxSeq + 1, order |-> o,
                                 subject |-> "ledger.unmatched_sell",
                                 seq |-> writes[w].tr.seq, qty |-> q]
  OBVIOUS
<1>2. /\ pc[w] = "post" /\ pc'[w] = "update"
      /\ outboxSeq' = IF q > 0 THEN outboxSeq + 1 ELSE outboxSeq
      /\ staged'[w] = IF q > 0 THEN {row} ELSE {}
      /\ posting'[w].unmatched = q
      /\ UNCHANGED <<transitions, fills, unmatched, outbox, call, writes>>
  BY <1>0, <1>1 DEF CloseLots, orderVars, ledgerVars
<1>3. /\ DOMAIN staged' = Workers /\ DOMAIN posting' = Workers
      /\ \A v \in Workers \ {w} :
           /\ pc'[v] = pc[v] /\ call'[v] = call[v] /\ read'[v] = read[v]
           /\ writes'[v] = writes[v] /\ posting'[v] = posting[v]
           /\ staged'[v] = staged[v]
  BY <1>0, OthersKeep DEF Step
<1>4. staged[w] = {}
  BY <1>0, <1>2 DEF StagesDue
<1>5. writes[w].tr.seq = Len(transitions[o]) + 1
  BY <1>0, <1>1, <1>2 DEF HoldsRow, PastInsert, PastLock, TransitionRow
<1>6. Due(w)' = IF q > 0 THEN {<<"ledger.unmatched_sell", q>>} ELSE {}
  BY <1>2 DEF Due
<1>7. /\ row.id = outboxSeq + 1 /\ row.order = o /\ row.qty = q
      /\ row.subject = "ledger.unmatched_sell"
      /\ row.seq = Len(transitions[o]) + 1
  BY <1>1, <1>5
<1>8. StagesDue(w)'
  <2>1. CASE q > 0
    <3>1. staged'[w] = {row} /\ Due(w)' = {<<"ledger.unmatched_sell", q>>}
          /\ outboxSeq' = outboxSeq + 1
      BY <1>2, <1>6, <2>1
    <3>2. /\ row.id \in Nat /\ row.id <= outboxSeq'
          /\ row.order = call'[w].order
          /\ row.seq = Len(transitions'[call'[w].order]) + 1
      <4>1. row.id \in Nat /\ row.id <= outboxSeq'
        BY <1>0, <1>7, <3>1
      <4>2. call'[w].order = o /\ transitions' = transitions
        BY <1>1, <1>2
      <4> QED BY <1>7, <4>1, <4>2
    <3> QED BY <1>2, <1>7, <3>1, <3>2 DEF StagesDue
  <2>2. CASE ~(q > 0)
    <3>1. staged'[w] = {} /\ Due(w)' = {}
      BY <1>2, <1>6, <2>2
    <3> QED BY <1>2, <3>1 DEF StagesDue
  <2> QED BY <2>1, <2>2
<1>9. /\ outboxSeq' \in Nat /\ outboxSeq' >= outboxSeq
      /\ \A r \in staged'[w] : /\ r.id \in Nat /\ r.id > outboxSeq
                               /\ r.id <= outboxSeq' /\ r.order = call[w].order
  <2>1. CASE q > 0
    <3>1. staged'[w] = {row} /\ outboxSeq' = outboxSeq + 1
      BY <1>2, <2>1
    <3>2. row.order = call[w].order /\ row.id = outboxSeq + 1
      BY <1>1, <1>7
    <3> QED BY <1>0, <3>1, <3>2
  <2>2. CASE ~(q > 0)
    <3>1. staged'[w] = {} /\ outboxSeq' = outboxSeq
      BY <1>2, <2>2
    <3> QED BY <1>0, <3>1
  <2> QED BY <2>1, <2>2
<1>10. staged'[w] = staged[w] \cup staged'[w] /\ pc[w] \in PastLock
  BY <1>2, <1>4 DEF PastLock
<1> QED BY <1>2, <1>3, <1>8, <1>9, <1>10, OutboxStages

\* InsertEventOutbox stages the rows of the transition and of its fill.
LEMMA EventOutboxOutbox ==
  ASSUME IndInv, OutboxInv, NEW w \in Workers, InsertEventOutbox(w)
  PROVE  OutboxInv'
<1>0. /\ DOMAIN staged = Workers /\ DOMAIN posting = Workers
      /\ TypeOK /\ StagesDue(w) /\ HoldsRow(w) /\ outboxSeq \in Nat
      /\ DOMAIN pc = Workers
  BY DEF OutboxInv, IndInv, TypeOK, LockInv
<1>1. /\ pc[w] = "update" /\ pc'[w] = "commit"
      /\ outboxSeq' = outboxSeq + (IF DecisionOf(w).fillDelta > 0 THEN 2 ELSE 1)
      /\ staged'[w] = staged[w] \cup EventOutbox(w)
      /\ UNCHANGED <<transitions, fills, unmatched, outbox, call, read, writes,
                     posting>>
  BY <1>0 DEF InsertEventOutbox, orderVars, ledgerVars
<1>2. /\ DOMAIN staged' = Workers /\ DOMAIN posting' = Workers
      /\ \A v \in Workers \ {w} :
           /\ pc'[v] = pc[v] /\ call'[v] = call[v] /\ read'[v] = read[v]
           /\ writes'[v] = writes[v] /\ posting'[v] = posting[v]
           /\ staged'[v] = staged[v]
  BY <1>0, OthersKeep DEF Step
<1>3. PICK o, d, q : o = call[w].order /\ d = DecisionOf(w).fillDelta
                     /\ q = writes[w].tr.filledQty
  OBVIOUS
<1>4. writes[w].tr.seq = Len(transitions[o]) + 1
  BY <1>0, <1>1, <1>3 DEF HoldsRow, PastInsert, PastLock, TransitionRow
<1>5. PICK up, fl :
        /\ up = [id |-> outboxSeq + 1, order |-> o, subject |-> "order.updated",
                 seq |-> writes[w].tr.seq, qty |-> q]
        /\ fl = [id |-> outboxSeq + 2, order |-> o, subject |-> "order.filled",
                 seq |-> writes[w].tr.seq, qty |-> d]
  OBVIOUS
<1>6. /\ up.id = outboxSeq + 1 /\ up.order = o /\ up.subject = "order.updated"
      /\ up.seq = Len(transitions[o]) + 1 /\ up.qty = q
      /\ fl.id = outboxSeq + 2 /\ fl.order = o /\ fl.subject = "order.filled"
      /\ fl.seq = Len(transitions[o]) + 1 /\ fl.qty = d
  BY <1>4, <1>5
<1>7. EventOutbox(w) = IF d > 0 THEN {up, fl} ELSE {up}
  BY <1>3, <1>5 DEF EventOutbox
<1>8. DecisionOf(w)' = DecisionOf(w)
  BY <1>1 DEF DecisionOf
<1>9. /\ Due(w) = IF posting[w].unmatched > 0
                  THEN {<<"ledger.unmatched_sell", posting[w].unmatched>>}
                  ELSE {}
      /\ Due(w)' = Due(w) \cup {<<"order.updated", q>>}
                     \cup IF d > 0 THEN {<<"order.filled", d>>} ELSE {}
  <2>1. Due(w) = IF posting[w].unmatched > 0
                 THEN {<<"ledger.unmatched_sell", posting[w].unmatched>>}
                 ELSE {}
    BY <1>1 DEF Due
  <2>2. Due(w)' = {<<"order.updated", q>>}
                    \cup (IF d > 0 THEN {<<"order.filled", d>>} ELSE {})
                    \cup (IF posting[w].unmatched > 0
                          THEN {<<"ledger.unmatched_sell", posting[w].unmatched>>}
                          ELSE {})
    BY <1>1, <1>3, <1>8 DEF Due
  <2> QED BY <2>1, <2>2
<1>10. /\ outboxSeq' \in Nat /\ outboxSeq' >= outboxSeq
       /\ \A r \in EventOutbox(w) :
            /\ r.id \in Nat /\ r.id > outboxSeq
            /\ r.id <= outboxSeq' /\ r.order = call[w].order
  BY <1>0, <1>1, <1>3, <1>6, <1>7
<1>11. ASSUME NEW r \in staged[w]
       PROVE  /\ r.id \in Nat /\ r.id <= outboxSeq
              /\ r.order = o /\ r.seq = Len(transitions[o]) + 1
              /\ <<r.subject, r.qty>> \in Due(w)
              /\ r.subject = "ledger.unmatched_sell"
  <2>1. /\ r.id \in Nat /\ r.id <= outboxSeq
        /\ r.order = o /\ r.seq = Len(transitions[o]) + 1
        /\ <<r.subject, r.qty>> \in Due(w)
    BY <1>0, <1>3 DEF StagesDue
  <2>2. r.subject = "ledger.unmatched_sell"
    BY <1>9, <2>1
  <2> QED BY <2>1, <2>2
<1>12. ASSUME NEW r \in staged'[w]
       PROVE  /\ r.id \in Nat /\ r.id <= outboxSeq'
              /\ r.order = call'[w].order
              /\ r.seq = Len(transitions'[call'[w].order]) + 1
              /\ <<r.subject, r.qty>> \in Due(w)'
  <2>1. CASE r \in staged[w]
    <3>1. r.id \in Nat /\ r.id <= outboxSeq
      BY <1>11, <2>1
    <3>2. r.id <= outboxSeq'
      BY <1>0, <1>10, <3>1
    <3> QED BY <1>1, <1>3, <1>9, <1>11, <2>1, <3>2
  <2>2. CASE r \in EventOutbox(w)
    <3>1. /\ r.order = o /\ r.seq = Len(transitions[o]) + 1
          /\ r = up \/ (d > 0 /\ r = fl)
      BY <1>6, <1>7, <2>2
    <3>2. <<r.subject, r.qty>> \in Due(w)'
      BY <1>6, <1>9, <3>1
    <3> QED BY <1>1, <1>3, <1>10, <2>2, <3>1, <3>2
  <2> QED BY <1>1, <2>1, <2>2
<1>13. ASSUME NEW r \in staged'[w], NEW s \in staged'[w], r # s
       PROVE  r.id # s.id /\ r.subject # s.subject
  <2>1. CASE r \in staged[w] /\ s \in staged[w]
    BY <1>0, <1>13, <2>1 DEF StagesDue
  <2>2. ASSUME NEW x \in staged[w], NEW y \in EventOutbox(w)
        PROVE  x.id # y.id /\ x.subject # y.subject
    <3>1. /\ x.id \in Nat /\ x.id <= outboxSeq
          /\ y.id \in Nat /\ y.id > outboxSeq
          /\ x.subject = "ledger.unmatched_sell"
          /\ y.subject \in {"order.updated", "order.filled"}
      BY <1>6, <1>7, <1>10, <1>11
    <3> QED BY <1>0, <3>1
  <2>3. CASE r \in EventOutbox(w) /\ s \in EventOutbox(w)
    BY <1>0, <1>6, <1>7, <1>13, <2>3
  <2> QED BY <1>1, <2>1, <2>2, <2>3
<1>14. ASSUME NEW e \in Due(w)'
       PROVE  \E r \in staged'[w] : r.subject = e[1] /\ r.qty = e[2]
  <2>1. CASE e \in Due(w)
    BY <1>0, <1>1, <2>1 DEF StagesDue
  <2>2. CASE e = <<"order.updated", q>>
    BY <1>1, <1>6, <1>7, <2>2
  <2>3. CASE d > 0 /\ e = <<"order.filled", d>>
    BY <1>1, <1>6, <1>7, <2>3
  <2> QED BY <1>9, <2>1, <2>2, <2>3
<1>15. StagesDue(w)'
  BY <1>1, <1>12, <1>13, <1>14 DEF StagesDue
<1>16. pc[w] \in PastLock
  BY <1>1 DEF PastLock
<1> QED BY <1>1, <1>2, <1>10, <1>15, <1>16, OutboxStages

\* The rows a committing transaction publishes follow those of its order.
LEMMA CommitIds ==
  ASSUME IndInv, OutboxInv, NEW w \in Workers, Commit(w)
  PROVE  (\A v \in Workers : StagesDue(v)') /\ IdsApart' /\ RowsInOrder'
<1>0. /\ DOMAIN staged = Workers /\ DOMAIN posting = Workers
      /\ TypeOK /\ LockInv /\ outboxSeq \in Nat
      /\ \A v \in Workers : StagesDue(v)
      /\ IdsApart /\ RowsInOrder
  BY DEF OutboxInv, IndInv, TypeOK
<1>1. PICK o \in Orders : o = call[w].order
  BY CommitAppends
<1>2. PICK n \in Nat : n = Len(transitions[o])
  BY <1>0 DEF TypeOK
<1>3. /\ pc[w] = "commit" /\ pc[w] \in PastLock
      /\ outboxSeq' = outboxSeq /\ outbox' = outbox \cup staged[w] /\ End(w)
  BY DEF Commit, PastLock
<1>4. \A v \in Workers \ {w} :
        /\ pc'[v] = pc[v] /\ call'[v] = call[v] /\ read'[v] = read[v]
        /\ writes'[v] = writes[v] /\ posting'[v] = posting[v]
        /\ staged'[v] = staged[v]
  BY <1>0, OthersKeep DEF Step
<1>5. staged'[w] = {} /\ posting'[w] = NoPosting /\ pc'[w] = "idle"
  BY <1>0, <1>3 DEF End, TypeOK
<1>6. \A p \in Orders \ {o} : transitions'[p] = transitions[p]
  BY <1>0, <1>1 DEF Commit, TypeOK
<1>7. Len(transitions'[o]) = n + 1
  <2>1. /\ transitions[o] \in Seq(TransitionRows)
        /\ TransitionRow(w) \in TransitionRows
        /\ transitions'[o] = Append(transitions[o], TransitionRow(w))
    BY <1>1, CommitAppends
  <2> QED BY <1>2, <2>1
<1>8. ASSUME NEW v \in Workers \ {w}, pc[v] \in {"update", "commit"}
      PROVE  call[v].order \in Orders \ {o}
  <2>1. pc[v] \in PastLock
    BY <1>8 DEF PastLock
  <2>2. call[v].order \in Orders
    BY <1>0, <2>1, DecisionFacts DEF LockInv
  <2> QED BY <1>0, <1>1, <1>3, <2>1, <2>2, OneHolder
<1>9. ASSUME NEW v \in Workers PROVE StagesDue(v)'
  <2>1. CASE v = w
    BY <1>5, <2>1, StagesNothing
  <2>2. CASE v # w
    <3>1. pc[v] \in {"update", "commit"} =>
            transitions'[call[v].order] = transitions[call[v].order]
      BY <1>6, <1>8, <2>2
    <3>2. outboxSeq' \in Nat /\ outboxSeq' >= outboxSeq
      BY <1>0, <1>3
    <3> QED BY <1>0, <1>4, <2>2, <3>1, <3>2, StagesStable
  <2> QED BY <2>1, <2>2
<1>10. \A r \in staged[w] : /\ r.id \in Nat /\ r.id <= outboxSeq
                            /\ r.order = o /\ r.seq = n + 1
  BY <1>0, <1>1, <1>2 DEF StagesDue
<1>11. IdsApart'
  <2>1. ASSUME NEW u \in Workers, NEW v \in Workers, u # v,
               NEW r \in staged'[u], NEW s \in staged'[v]
        PROVE  r.id # s.id
    <3>1. u # w /\ v # w /\ r \in staged[u] /\ s \in staged[v]
      BY <1>4, <1>5, <2>1
    <3> QED BY <1>0, <2>1, <3>1 DEF IdsApart
  <2>2. ASSUME NEW v \in Workers, NEW r \in staged'[v], NEW s \in outbox'
        PROVE  r.id # s.id /\ (r.order = s.order => s.id < r.id)
    <3>1. v # w /\ r \in staged[v]
      BY <1>4, <1>5, <2>2
    <3>2. CASE s \in outbox
      BY <1>0, <3>1, <3>2 DEF IdsApart
    <3>3. CASE s \in staged[w]
      <4>1. r.id # s.id
        BY <1>0, <3>1, <3>3 DEF IdsApart
      <4>2. pc[v] \in {"update", "commit"} /\ r.order = call[v].order
        BY <1>0, <3>1 DEF StagesDue
      <4>3. r.order # s.order
        BY <1>8, <1>10, <3>1, <3>3, <4>2
      <4> QED BY <4>1, <4>3
    <3> QED BY <1>3, <3>2, <3>3
  <2> QED BY <2>1, <2>2 DEF IdsApart
<1>12. \A r \in outbox : /\ r.id \in Nat /\ r.id <= outboxSeq
                         /\ r.order \in Orders
                         /\ r.seq \in 1 .. Len(transitions[r.order])
  BY <1>0 DEF RowsInOrder
<1>13. ASSUME NEW r \in outbox'
       PROVE  /\ r.id \in Nat /\ r.id <= outboxSeq'
              /\ r.order \in Orders
              /\ r.seq \in 1 .. Len(transitions'[r.order])
  <2>1. CASE r \in staged[w]
    BY <1>3, <1>7, <1>10, <2>1
  <2>2. CASE r \in outbox /\ r.order = o
    <3>1. r.seq \in 1 .. n
      BY <1>2, <1>12, <2>2
    <3>2. r.seq \in 1 .. n + 1
      BY <3>1
    <3> QED BY <1>3, <1>7, <1>12, <2>2, <3>2
  <2>3. CASE r \in outbox /\ r.order # o
    <3>1. transitions'[r.order] = transitions[r.order]
      BY <1>6, <1>12, <2>3
    <3> QED BY <1>3, <1>12, <2>3, <3>1
  <2> QED BY <1>3, <2>1, <2>2, <2>3
<1>14. ASSUME NEW r \in outbox, NEW s \in staged[w]
       PROVE  /\ r.id # s.id /\ r # s
              /\ r.order # s.order \/ r.seq < s.seq
              /\ r.order = s.order => r.id < s.id
              /\ r.order = s.order => r.id \in Nat /\ s.id \in Nat
  <2>1. r.id # s.id /\ (r.order = s.order => r.id < s.id)
    BY <1>0 DEF IdsApart
  <2>2. r.order = s.order => r.seq \in 1 .. n /\ s.seq = n + 1
    BY <1>2, <1>10, <1>12
  <2>3. r.order # s.order \/ r.seq < s.seq
    BY <2>2
  <2> QED BY <1>10, <1>12, <2>1, <2>3
<1>15. ASSUME NEW r \in outbox', NEW s \in outbox'
       PROVE  /\ r # s => /\ r.id # s.id
                          /\ \/ r.subject # s.subject
                             \/ r.order # s.order
                             \/ r.seq # s.seq
              /\ r.order = s.order /\ r.id < s.id => r.seq <= s.seq
  <2>1. CASE r \in outbox /\ s \in outbox
    BY <1>0, <2>1 DEF RowsInOrder
  <2>2. CASE r \in staged[w] /\ s \in staged[w]
    <3>1. r # s => r.id # s.id /\ r.subject # s.subject
      BY <1>0, <2>2 DEF StagesDue
    <3>2. r.seq = n + 1 /\ s.seq = n + 1
      BY <1>10, <2>2
    <3> QED BY <3>1, <3>2
  <2>3. CASE r \in outbox /\ s \in staged[w]
    <3>1. /\ r.id # s.id
          /\ r.order # s.order \/ r.seq < s.seq
          /\ r.order = s.order => r.seq \in 1 .. n /\ s.seq = n + 1
      BY <1>2, <1>10, <1>12, <1>14, <2>3
    <3> QED BY <3>1
  <2>4. CASE r \in staged[w] /\ s \in outbox
    <3>1. /\ s.id # r.id
          /\ s.order # r.order \/ s.seq < r.seq
          /\ s.order = r.order => s.seq \in 1 .. n /\ r.seq = n + 1
      BY <1>2, <1>10, <1>12, <1>14, <2>4
    <3>2. r.order = s.order => ~(r.id < s.id)
      <4>1. r.order = s.order => /\ s.id < r.id /\ r.id \in Nat /\ s.id \in Nat
        BY <1>14, <2>4
      <4> QED BY <4>1
    <3> QED BY <3>1, <3>2
  <2> QED BY <1>3, <2>1, <2>2, <2>3, <2>4
<1>16. RowsInOrder'
  BY <1>13, <1>15 DEF RowsInOrder
<1> QED BY <1>9, <1>11, <1>16

\* What a commit publishes is what it appends to the tables.
LEMMA CommitTells ==
  ASSUME IndInv, OutboxInv, NEW w \in Workers, Commit(w)
  PROVE  RowsTell(outbox', transitions', fills', unmatched')
<1>0. /\ TypeOK /\ StagesDue(w) /\ pc[w] = "commit"
      /\ RowsTell(outbox, transitions, fills, unmatched) /\ RowsInOrder
      /\ outbox' = outbox \cup staged[w]
  BY DEF OutboxInv, IndInv, Commit
<1>1. PICK o \in Orders : o = call[w].order
  BY CommitAppends
<1>2. PICK n \in Nat, l \in Nat : n = Len(transitions[o]) /\ l = Len(fills[o])
  <2>1. transitions[o] \in Seq(TransitionRows) /\ fills[o] \in Seq(FillRows)
    BY <1>1, CommitAppends
  <2>2. Len(transitions[o]) \in Nat /\ Len(fills[o]) \in Nat
    BY <2>1
  <2> QED BY <2>2
<1>3. PICK t \in TransitionRows, d \in Nat :
        t = TransitionRow(w) /\ d = DecisionOf(w).fillDelta
  BY CommitAppends
<1>3a. PICK q : q = posting[w].unmatched
  OBVIOUS
<1>4. \A p \in Orders \ {o} :
        transitions'[p] = transitions[p] /\ fills'[p] = fills[p]
  BY <1>0, <1>1 DEF Commit, TypeOK
<1>5. /\ Len(transitions'[o]) = n + 1
      /\ \A k \in 1 .. n : transitions'[o][k] = transitions[o][k]
      /\ transitions'[o][n + 1] = t
      /\ t.seq = n + 1 /\ writes[w].tr = t
  <2>1. /\ transitions[o] \in Seq(TransitionRows)
        /\ transitions'[o] = Append(transitions[o], t)
        /\ t.seq = n + 1 /\ writes[w].tr = t
    BY <1>1, <1>2, <1>3, CommitAppends
  <2> QED BY <1>2, <2>1
<1>6. /\ fills[o] \in Seq(FillRows) /\ FillRow(w) \in Seq(FillRows)
      /\ fills'[o] = fills[o] \o FillRow(w)
  BY <1>1, CommitAppends
<1>7. /\ \A k \in 1 .. l : fills'[o][k] = fills[o][k]
      /\ d = 0 => Len(fills'[o]) = l
      /\ d > 0 => /\ Len(fills'[o]) = l + 1
                  /\ fills'[o][l + 1].seq = n + 1
                  /\ fills'[o][l + 1].qty = d
  <2>1. CASE d = 0
    <3>1. FillRow(w) = <<>>
      BY <1>3, <2>1 DEF FillRow
    <3>2. fills'[o] = fills[o]
      BY <1>6, <3>1
    <3> QED BY <1>2, <2>1, <3>2
  <2>2. CASE d > 0
    <3>1. PICK f : FillRow(w) = <<f>> /\ f.seq = n + 1 /\ f.qty = d
      <4> DEFINE id == call[w].ev.venueFillID
                 conflict == \E i \in 1 .. Len(fills[o]) :
                               fills[o][i].venueFillID = id
      <4>1. FillRow(w) = <<[seq |-> n + 1, qty |-> d,
                            venueFillID |-> IF conflict THEN None ELSE id]>>
        BY <1>1, <1>2, <1>3, <2>2 DEF FillRow
      <4> QED BY <4>1
    <3>2. fills'[o] = fills[o] \o <<f>>
      BY <1>6, <3>1
    <3>3. /\ Len(fills'[o]) = l + 1 /\ fills'[o][l + 1] = f
          /\ \A k \in 1 .. l : fills'[o][k] = fills[o][k]
      BY <1>2, <1>6, <3>2
    <3> QED BY <2>2, <3>1, <3>3
  <2> QED BY <2>1, <2>2
<1>8. unmatched' = IF q > 0
                   THEN unmatched \cup
                          {[fill |-> [order |-> o, seq |-> n + 1], qty |-> q]}
                   ELSE unmatched
  BY <1>1, <1>3, <1>3a, <1>5 DEF Commit
<1>9. Due(w) = {<<"order.updated", t.filledQty>>}
                 \cup (IF d > 0 THEN {<<"order.filled", d>>} ELSE {})
                 \cup (IF q > 0 THEN {<<"ledger.unmatched_sell", q>>} ELSE {})
  BY <1>0, <1>3, <1>3a, <1>5 DEF Due
<1>10. ASSUME NEW r \in staged[w]
       PROVE  /\ r.order = o /\ r.seq = n + 1
              /\ \/ r.subject = "order.updated" /\ r.qty = t.filledQty
                 \/ r.subject = "order.filled" /\ d > 0 /\ r.qty = d
                 \/ r.subject = "ledger.unmatched_sell" /\ q > 0 /\ r.qty = q
  <2>1. /\ r.order = o /\ r.seq = n + 1 /\ <<r.subject, r.qty>> \in Due(w)
    BY <1>0, <1>1, <1>2 DEF StagesDue
  <2> QED BY <1>9, <2>1
<1>11. ASSUME NEW e \in Due(w)
       PROVE  \E r \in staged[w] : /\ r.subject = e[1] /\ r.qty = e[2]
                                   /\ r.order = o /\ r.seq = n + 1
  BY <1>0, <1>10 DEF StagesDue
<1>12. ASSUME NEW r \in outbox', r.subject = "order.updated"
       PROVE  /\ r.order \in Orders /\ r.seq \in 1 .. Len(transitions'[r.order])
              /\ r.qty = transitions'[r.order][r.seq].filledQty
  <2>1. CASE r \in staged[w]
    BY <1>5, <1>10, <1>12, <2>1
  <2>2. CASE r \in outbox
    <3>1. /\ r.order \in Orders /\ r.seq \in 1 .. Len(transitions[r.order])
          /\ r.qty = transitions[r.order][r.seq].filledQty
      BY <1>0, <1>12, <2>2 DEF RowsTell
    <3>2. CASE r.order = o
      BY <1>2, <1>5, <3>1, <3>2
    <3>3. CASE r.order # o
      BY <1>4, <3>1, <3>3
    <3> QED BY <3>2, <3>3
  <2> QED BY <1>0, <2>1, <2>2
<1>13. ASSUME NEW p \in Orders, NEW k \in 1 .. Len(transitions'[p])
       PROVE  \E r \in outbox' :
                /\ r.subject = "order.updated" /\ r.order = p
                /\ r.seq = k /\ r.qty = transitions'[p][k].filledQty
  <2>1. CASE p = o /\ k = n + 1
    <3>1. <<"order.updated", t.filledQty>> \in Due(w)
      BY <1>9
    <3> QED BY <1>0, <1>5, <1>11, <2>1, <3>1
  <2>2. CASE ~(p = o /\ k = n + 1)
    <3>1. /\ k \in 1 .. Len(transitions[p])
          /\ transitions'[p][k] = transitions[p][k]
      BY <1>2, <1>4, <1>5, <2>2
    <3>2. PICK r \in outbox :
            /\ r.subject = "order.updated" /\ r.order = p
            /\ r.seq = k /\ r.qty = transitions[p][k].filledQty
      BY <1>0, <3>1 DEF RowsTell
    <3> QED BY <1>0, <3>1, <3>2
  <2> QED BY <2>1, <2>2
<1>14. ASSUME NEW r \in outbox', r.subject = "order.filled"
       PROVE  /\ r.order \in Orders
              /\ \E k \in 1 .. Len(fills'[r.order]) :
                   fills'[r.order][k].seq = r.seq /\ fills'[r.order][k].qty = r.qty
  <2>1. CASE r \in staged[w]
    <3>1. r.order = o /\ r.seq = n + 1 /\ d > 0 /\ r.qty = d
      BY <1>10, <1>14, <2>1
    <3> QED BY <1>7, <3>1
  <2>2. CASE r \in outbox
    <3>1. r.order \in Orders
      BY <1>0, <2>2 DEF RowsInOrder
    <3>2. PICK k \in 1 .. Len(fills[r.order]) :
            fills[r.order][k].seq = r.seq /\ fills[r.order][k].qty = r.qty
      BY <1>0, <1>14, <2>2 DEF RowsTell
    <3>3. CASE r.order = o
      <4>1. k \in 1 .. l /\ fills'[o][k] = fills[o][k]
        BY <1>2, <1>7, <3>2, <3>3
      <4>2. k \in 1 .. Len(fills'[o])
        BY <1>7, <4>1
      <4> QED BY <3>1, <3>2, <3>3, <4>1, <4>2
    <3>4. CASE r.order # o
      BY <1>4, <3>1, <3>2, <3>4
    <3> QED BY <3>3, <3>4
  <2> QED BY <1>0, <2>1, <2>2
<1>15. ASSUME NEW p \in Orders, NEW k \in 1 .. Len(fills'[p])
       PROVE  \E r \in outbox' :
                /\ r.subject = "order.filled" /\ r.order = p
                /\ r.seq = fills'[p][k].seq /\ r.qty = fills'[p][k].qty
  <2>1. CASE p = o /\ k = l + 1
    <3>1. d > 0
      BY <1>7, <2>1
    <3>2. <<"order.filled", d>> \in Due(w)
      BY <1>9, <3>1
    <3> QED BY <1>0, <1>7, <1>11, <2>1, <3>1, <3>2
  <2>2. CASE ~(p = o /\ k = l + 1)
    <3>1. k \in 1 .. Len(fills[p]) /\ fills'[p][k] = fills[p][k]
      BY <1>2, <1>4, <1>7, <2>2
    <3>2. PICK r \in outbox :
            /\ r.subject = "order.filled" /\ r.order = p
            /\ r.seq = fills[p][k].seq /\ r.qty = fills[p][k].qty
      BY <1>0, <3>1 DEF RowsTell
    <3> QED BY <1>0, <3>1, <3>2
  <2> QED BY <2>1, <2>2
<1>16. ASSUME NEW r \in outbox', r.subject = "ledger.unmatched_sell"
       PROVE  \E u \in unmatched' : /\ u.fill.order = r.order
                                    /\ u.fill.seq = r.seq /\ u.qty = r.qty
  <2>1. CASE r \in staged[w]
    <3>1. r.order = o /\ r.seq = n + 1 /\ q > 0 /\ r.qty = q
      BY <1>10, <1>16, <2>1
    <3> DEFINE new == [fill |-> [order |-> o, seq |-> n + 1], qty |-> q]
    <3>2. new \in unmatched'
      BY <1>8, <3>1
    <3>3. new.fill.order = o /\ new.fill.seq = n + 1 /\ new.qty = q
      OBVIOUS
    <3> QED BY <3>1, <3>2, <3>3
  <2>2. CASE r \in outbox
    <3>1. PICK u \in unmatched : /\ u.fill.order = r.order
                                 /\ u.fill.seq = r.seq /\ u.qty = r.qty
      BY <1>0, <1>16, <2>2 DEF RowsTell
    <3> QED BY <1>8, <3>1
  <2> QED BY <1>0, <2>1, <2>2
<1>17. ASSUME NEW u \in unmatched'
       PROVE  \E r \in outbox' : /\ r.subject = "ledger.unmatched_sell"
                                 /\ r.order = u.fill.order
                                 /\ r.seq = u.fill.seq /\ r.qty = u.qty
  <2>1. CASE u \in unmatched
    <3>1. PICK r \in outbox : /\ r.subject = "ledger.unmatched_sell"
                              /\ r.order = u.fill.order
                              /\ r.seq = u.fill.seq /\ r.qty = u.qty
      BY <1>0, <2>1 DEF RowsTell
    <3> QED BY <1>0, <3>1
  <2>2. CASE q > 0 /\ u = [fill |-> [order |-> o, seq |-> n + 1], qty |-> q]
    <3>1. <<"ledger.unmatched_sell", q>> \in Due(w)
      BY <1>9, <2>2
    <3>2. u.fill.order = o /\ u.fill.seq = n + 1 /\ u.qty = q
      BY <2>2
    <3> QED BY <1>0, <1>11, <3>1, <3>2
  <2> QED BY <1>8, <2>1, <2>2
<1> QED BY <1>12, <1>13, <1>14, <1>15, <1>16, <1>17 DEF RowsTell

\* Every step preserves the outbox invariant.
LEMMA NextOutbox == IndInv /\ OutboxInv /\ [Next]_vars => OutboxInv'
<1> SUFFICES ASSUME IndInv, OutboxInv, [Next]_vars PROVE OutboxInv'
  OBVIOUS
<1>1. ASSUME UNCHANGED <<transitions, fills, unmatched, outbox, outboxSeq, pc,
                         call, read, writes, posting, staged>>
      PROVE  OutboxInv'
  <2>1. ASSUME NEW v \in Workers PROVE StagesDue(v)' /\ staged'[v] \subseteq staged[v]
    <3>1. StagesDue(v) /\ outboxSeq \in Nat /\ outboxSeq' \in Nat
          /\ outboxSeq' >= outboxSeq
      BY <1>1 DEF OutboxInv, IndInv, TypeOK
    <3> QED BY <1>1, <3>1, StagesStable
  <2>2. DOMAIN staged' = Workers /\ DOMAIN posting' = Workers
    BY <1>1 DEF OutboxInv
  <2> QED BY <1>1, <2>1, <2>2, OutboxQuiet
<1>2. ASSUME NEW o \in Orders, CreatePending(o) \/ MarkCancelRequested(o)
      PROVE  OutboxInv'
  BY <1>1, <1>2 DEF CreatePending, MarkCancelRequested, orderVars, ledgerVars,
     outboxVars, txVars
<1>3. CASE UNCHANGED vars
  BY <1>1, <1>3 DEF vars, orderVars, ledgerVars, outboxVars, txVars
<1>4. ASSUME NEW w \in Workers, Commit(w) PROVE OutboxInv'
  <2>1. DOMAIN staged' = Workers /\ DOMAIN posting' = Workers
    BY <1>4, OthersKeep DEF OutboxInv, IndInv, Step
  <2> QED BY <1>4, <2>1, CommitIds, CommitTells DEF OutboxInv
<1> QED BY <1>2, <1>3, <1>4, NextOutboxQuiet, CloseLotsOutbox, EventOutboxOutbox
        DEF Next, Step

\* The transactional outbox tells every transition, fill and unmatched sell
\* once and in order, whatever transactions overlap, abort and burn ids.
THEOREM OutboxHolds == Spec => []OutboxTellsEverything
<1> QED BY InitOutbox, NextOutbox, RowsTellTables, Invariance, PTL DEF Spec

--------------------------------------------------------------------------------
(* The refinement. *)

\* The abstract specification's copy of the state machine is this one.
LEMMA SameApply ==
  ASSUME NEW s, NEW ev
  PROVE  Atomic!Apply(s, ev) = Apply(s, ev)
<1>1. \A x : Atomic!Rank(x) = Rank(x)
  BY DEF Atomic!Rank, Rank
<1>2. Atomic!FillOf(s, ev) = FillOf(s, ev)
  BY DEF Atomic!FillOf, FillOf
<1>3. /\ \A f, d : Atomic!Keep(s, f, d) = Keep(s, f, d)
      /\ \A f, a : Atomic!Move(ev, f, a) = Move(ev, f, a)
      /\ Atomic!TerminalRank = TerminalRank
  BY DEF Atomic!Keep, Keep, Atomic!Move, Move, Atomic!TerminalRank, TerminalRank
<1>4. Atomic!Transition(s, ev) = Transition(s, ev)
  BY <1>1, <1>2, <1>3 DEF Atomic!Transition, Transition
<1> QED BY <1>4 DEF Atomic!Apply, Apply

\* The initial tables are those of the atomic store.
LEMMA AtomicInit == Init => Atomic!Init
BY DEF Init, Atomic!Init, NoRow, None, Atomic!NoRow, Atomic!None

\* Under the row lock a transaction's outcome is the atomic one: at Commit the
\* row becomes Applied(row, event), and a dropped event does the same.
LEMMA AtomicStep == IndInv /\ [Next]_vars => [Atomic!Next]_orders
<1> SUFFICES ASSUME IndInv, [Next]_vars, orders' # orders PROVE Atomic!Next
  OBVIOUS
<1> USE DEF NoRow, None, Atomic!NoRow, Atomic!None
<1>0. TypeOK /\ LockInv
  BY DEF IndInv
<1>1. ASSUME NEW o \in Orders, CreatePending(o) PROVE Atomic!Next
  BY <1>1 DEF CreatePending, Atomic!Next, Atomic!CreatePending,
     Atomic!PendingRow
<1>2. ASSUME NEW o \in Orders, MarkCancelRequested(o) PROVE Atomic!Next
  BY <1>2 DEF MarkCancelRequested, Atomic!Next, Atomic!MarkCancelRequested
<1>3. ASSUME NEW w \in Workers, pc[w] \in PastLock, HoldsRow(w)
      PROVE  /\ call[w].order \in Orders /\ call[w].ev \in Events
             /\ orders[call[w].order] = read[w] /\ read[w] \in Row
             /\ read[w] # NoRow
             /\ Atomic!Applied(read[w], call[w].ev) =
                  [status |-> DecisionOf(w).to,
                   filledQty |-> read[w].filledQty + DecisionOf(w).fillDelta,
                   venueOrderID |-> IF read[w].venueOrderID # None
                                    THEN read[w].venueOrderID
                                    ELSE call[w].ev.venueOrderID,
                   cancelRequested |-> read[w].cancelRequested]
  <2>1. /\ call[w].order \in Orders /\ call[w].ev \in Events
        /\ orders[call[w].order] = read[w] /\ read[w] \in Row
        /\ read[w] # NoRow
    BY <1>3, DecisionFacts, RowIsState DEF HoldsRow
  <2>2. Atomic!Apply(StateOf(read[w]), call[w].ev) =
          [status |-> DecisionOf(w).to,
           filledQty |-> read[w].filledQty + DecisionOf(w).fillDelta]
    BY <1>3, DecisionFacts, SameApply
  <2> QED BY <2>1, <2>2 DEF Atomic!Applied, StateOf
<1>4. ASSUME NEW w \in Workers, AdoptVenueOrderID(w) PROVE Atomic!Next
  <2> DEFINE row == read[w]
             ev  == call[w].ev
  <2>1. pc[w] \in PastLock /\ HoldsRow(w)
    BY <1>0, <1>4 DEF AdoptVenueOrderID, PastLock, LockInv
  <2>2. /\ call[w].order \in Orders /\ ev \in Events
        /\ orders[call[w].order] = row /\ row \in Row /\ row # NoRow
        /\ Atomic!Applied(row, ev) =
             [status |-> DecisionOf(w).to,
              filledQty |-> row.filledQty + DecisionOf(w).fillDelta,
              venueOrderID |-> IF row.venueOrderID # None
                               THEN row.venueOrderID ELSE ev.venueOrderID,
              cancelRequested |-> row.cancelRequested]
    BY <1>3, <2>1
  <2>3. /\ row.venueOrderID = None
        /\ orders' = [orders EXCEPT ![call[w].order] =
             [orders[call[w].order] EXCEPT !.venueOrderID = ev.venueOrderID]]
        /\ ~Carries(DecisionOf(w))
    BY <1>4 DEF AdoptVenueOrderID
  <2>4. /\ DecisionOf(w).to = row.status /\ DecisionOf(w).fillDelta \in Nat
        /\ ~(DecisionOf(w).fillDelta > 0) /\ row.filledQty \in Nat
    BY <2>1, <2>2, <2>3, DecisionFacts, RowIsState
  <2>5. row.filledQty + DecisionOf(w).fillDelta = row.filledQty
    BY <2>4
  <2>6. [row EXCEPT !.venueOrderID = ev.venueOrderID] = Atomic!Applied(row, ev)
    BY <2>2, <2>3, <2>4, <2>5, VenueOrderIDUpdate
  <2>7. Atomic!ApplyEvent(call[w].order, ev)
    BY <2>2, <2>3, <2>6 DEF Atomic!ApplyEvent
  <2> QED BY <2>2, <2>7 DEF Atomic!Next
<1>5. ASSUME NEW w \in Workers, Commit(w) PROVE Atomic!Next
  <2>1. pc[w] \in PastLock /\ pc[w] \in PastInsert /\ HoldsRow(w)
    BY <1>0, <1>5 DEF Commit, PastLock, PastInsert, LockInv
  <2>2. /\ call[w].order \in Orders /\ call[w].ev \in Events
        /\ orders[call[w].order] = read[w] /\ read[w] # NoRow
        /\ Atomic!Applied(read[w], call[w].ev) =
             [status |-> DecisionOf(w).to,
              filledQty |-> read[w].filledQty + DecisionOf(w).fillDelta,
              venueOrderID |-> IF read[w].venueOrderID # None
                               THEN read[w].venueOrderID
                               ELSE call[w].ev.venueOrderID,
              cancelRequested |-> read[w].cancelRequested]
    BY <1>3, <2>1
  <2>3. /\ writes[w].tr.to = DecisionOf(w).to
        /\ writes[w].tr.filledQty = read[w].filledQty + DecisionOf(w).fillDelta
    BY <2>1 DEF HoldsRow, TransitionRow
  <2>4. UpdatedRow(w) = Atomic!Applied(read[w], call[w].ev)
    BY <2>2, <2>3 DEF UpdatedRow
  <2>5. Atomic!ApplyEvent(call[w].order, call[w].ev)
    BY <1>5, <2>2, <2>4 DEF Commit, Atomic!ApplyEvent
  <2> QED BY <2>2, <2>5 DEF Atomic!Next
<1>6. ASSUME NEW w \in Workers,
             \/ Abort(w) \/ OrderNotFound(w) \/ LockOrder(w)
             \/ InsertTransition(w) \/ LockInventory(w) \/ OpenLot(w)
             \/ CloseLots(w) \/ InsertEventOutbox(w)
             \/ \E o \in Orders, ev \in Events : Begin(w, o, ev)
      PROVE  FALSE
  BY <1>6 DEF Abort, OrderNotFound, LockOrder, InsertTransition, LockInventory,
     OpenLot, CloseLots, InsertEventOutbox, Begin
<1> QED BY <1>1, <1>2, <1>4, <1>5, <1>6 DEF Next, Step, vars

\* The store implements the atomic one its callers are written against:
\* every transaction's effect on the orders table is one ApplyEvent, however
\* its statements interleave with those of others, and an aborted one has none.
THEOREM StoreIsAtomic == Spec => AtomicSpec
<1> QED BY Invariance, AtomicInit, AtomicStep, PTL
        DEF Spec, AtomicSpec, Atomic!Spec

--------------------------------------------------------------------------------
(* The inventory lock. *)

(* The ledger. *)

LotRows == [order : Orders, seq : Nat, qty : Nat, remainingQty : Nat,
            openedAt : Nat]

Inventory(w) == InventoryOf[call[w].order]

\* Worker w has a fill to book and is past its inventory's lock.
Filling(w) == pc[w] \in {"post", "update", "commit"}
                /\ DecisionOf(w).fillDelta > 0

\* The ledger rows worker w's fill makes of the committed lots.
OpensLot(w) ==
  [opened |-> <<[order |-> call[w].order,
                 seq |-> Len(transitions[call[w].order]) + 1,
                 qty |-> DecisionOf(w).fillDelta,
                 remainingQty |-> DecisionOf(w).fillDelta,
                 openedAt |-> call[w].ev.at]>>,
   closed |-> <<>>, unmatched |-> 0]

Sale(w) == Select(OpenLots(Inventory(w)), DecisionOf(w).fillDelta)

ClosesLots(w) ==
  [opened |-> <<>>, closed |-> Sale(w).closures, unmatched |-> Sale(w).unmatched]

Books(w) == IF DecisionOf(w).fillDelta = 0 THEN NoPosting
            ELSE IF SideOf[call[w].order] = "buy" THEN OpensLot(w)
            ELSE ClosesLots(w)

\* From LockInventory to the end of the transaction the committed lots are the
\* ones the transaction read, so what it has booked is still right at Commit.
HoldsInventory(w) ==
  /\ pc[w] \in {"inventory", "post"} => DecisionOf(w).fillDelta > 0
  /\ Filling(w) => invLock[Inventory(w)] = w
  /\ pc[w] \in {"update", "commit"} => posting[w] = Books(w)

PostInv == /\ lots \in [Inventories -> Seq(LotRows)]
           /\ \A w \in Workers : HoldsInventory(w)

--------------------------------------------------------------------------------

\* The open lots are stock.
LEMMA OpenLotsAreStock ==
  ASSUME NEW i \in Inventories, lots \in [Inventories -> Seq(LotRows)]
  PROVE  Stock(OpenLots(i))
<1> DEFINE lot(n) == [id |-> n, openedAt |-> lots[i][n].openedAt,
                      remainingQty |-> lots[i][n].remainingQty]
           N == {m \in 1 .. Len(lots[i]) : lots[i][m].remainingQty > 0}
<1>1. lots[i] \in Seq(LotRows) /\ Len(lots[i]) \in Nat
  OBVIOUS
<1>2. IsFiniteSet(N)
  <2>1. IsFiniteSet(1 .. Len(lots[i]))
    BY <1>1, FS_Interval
  <2>2. N \subseteq 1 .. Len(lots[i])
    OBVIOUS
  <2> QED BY ONLY <2>1, <2>2, FS_Subset
<1>3. OpenLots(i) = {lot(n) : n \in N}
  BY DEF OpenLots
<1>4. ASSUME NEW n \in N PROVE lot(n) \in Lot /\ lot(n).id = n
  <2>1. n \in Nat /\ lots[i][n] \in LotRows
    BY <1>1
  <2>2. lots[i][n].openedAt \in Nat /\ lots[i][n].remainingQty \in Nat
    BY <2>1 DEF LotRows
  <2> QED BY <2>1, <2>2 DEF Lot
<1> HIDE DEF lot, N
<1>5. IsFiniteSet({lot(n) : n \in N})
  <2> DEFINE T == {lot(n) : n \in N}
             f == [n \in N |-> lot(n)]
  <2>1. f \in Surjection(N, T)
    BY DEF Surjection
  <2> QED BY ONLY <1>2, <2>1, FS_Surjection
<1> QED BY <1>3, <1>4, <1>5 DEF Stock

\* What a sale of qty does to the lots ls: closures of lots that are there,
\* each once and for no more than it has; all of them, if something is left;
\* and nothing lost.
Sells(ls, alloc, qty) ==
  /\ alloc.closures \in Seq(Bookings)
  /\ \A k \in 1 .. Len(alloc.closures) :
       /\ alloc.closures[k].lot \in 1 .. Len(ls)
       /\ alloc.closures[k].qty > 0
       /\ alloc.closures[k].qty <= ls[alloc.closures[k].lot].remainingQty
  /\ \A k, l \in 1 .. Len(alloc.closures) :
       alloc.closures[k].lot = alloc.closures[l].lot => k = l
  /\ alloc.unmatched > 0 =>
       \A n \in 1 .. Len(ls) : ls[n].remainingQty > 0 =>
         \E k \in 1 .. Len(alloc.closures) :
           /\ alloc.closures[k].lot = n
           /\ alloc.closures[k].qty = ls[n].remainingQty
  /\ AccountsFor(alloc.closures, alloc.unmatched, qty)

\* Select, of an inventory's open lots, is such a sale.
LEMMA SelectSells ==
  ASSUME NEW i \in Inventories, lots \in [Inventories -> Seq(LotRows)],
         NEW qty \in Nat
  PROVE  Sells(lots[i], Select(OpenLots(i), qty), qty)
<1> DEFINE open == OpenLots(i)
           q == Queue(open)
           N == Cardinality(open)
           alloc == Select(open, qty)
           cl == alloc.closures
           ls == lots[i]
<1>1. Stock(open)
  BY OpenLotsAreStock
<1>2. Lists(q, open) /\ Allocated(alloc, q, N, qty)
  BY <1>1, QueueLists, SelectAllocates
<1>3. ASSUME NEW j \in 1 .. N
      PROVE  /\ q[j].id \in 1 .. Len(ls)
             /\ q[j].remainingQty = ls[q[j].id].remainingQty
  <2>1. q[j] \in open
    BY <1>2 DEF Lists
  <2>2. PICK n \in 1 .. Len(ls) :
          q[j] = [id |-> n, openedAt |-> ls[n].openedAt,
                  remainingQty |-> ls[n].remainingQty]
    BY ONLY <2>1 DEF OpenLots
  <2> QED BY <2>2
<1>4. ASSUME NEW n \in 1 .. Len(ls), ls[n].remainingQty > 0
      PROVE  \E j \in 1 .. N : q[j].id = n /\ q[j].remainingQty = ls[n].remainingQty
  <2> DEFINE l == [id |-> n, openedAt |-> ls[n].openedAt,
                   remainingQty |-> ls[n].remainingQty]
  <2>1. l \in open
    BY <1>4 DEF OpenLots
  <2>2. PICK j \in 1 .. N : q[j] = l
    BY <1>2, <2>1 DEF Lists
  <2> QED BY <2>2
<1> HIDE DEF open, q, N, alloc, ls
<1>5. /\ cl \in Seq(Bookings)
      /\ \A k \in 1 .. Len(cl) : \E j \in 1 .. N :
           /\ cl[k].lot = q[j].id
           /\ cl[k].qty > 0 /\ cl[k].qty <= q[j].remainingQty
      /\ \A k, l \in 1 .. Len(cl) : cl[k].lot = cl[l].lot => k = l
      /\ AccountsFor(cl, alloc.unmatched, qty)
  BY <1>2 DEF Allocated, ClosesOnce
<1>6. ASSUME alloc.unmatched > 0, NEW n \in 1 .. Len(ls), ls[n].remainingQty > 0
      PROVE  \E k \in 1 .. Len(cl) : cl[k].lot = n /\ cl[k].qty = ls[n].remainingQty
  <2>1. PICK j \in 1 .. N : q[j].id = n /\ q[j].remainingQty = ls[n].remainingQty
    BY <1>4, <1>6
  <2> QED BY <1>2, <1>6, <2>1 DEF Allocated, ClosesAll
<1>7. \A k \in 1 .. Len(cl) : /\ cl[k].lot \in 1 .. Len(ls)
                              /\ cl[k].qty > 0
                              /\ cl[k].qty <= ls[cl[k].lot].remainingQty
  <2> SUFFICES ASSUME NEW k \in 1 .. Len(cl)
               PROVE  /\ cl[k].lot \in 1 .. Len(ls) /\ cl[k].qty > 0
                      /\ cl[k].qty <= ls[cl[k].lot].remainingQty
    OBVIOUS
  <2>1. PICK j \in 1 .. N : /\ cl[k].lot = q[j].id
                            /\ cl[k].qty > 0 /\ cl[k].qty <= q[j].remainingQty
    BY <1>5
  <2> QED BY ONLY <1>3, <2>1
<1>8. Sells(ls, alloc, qty)
  BY <1>5, <1>6, <1>7 DEF Sells
<1> QED BY <1>8 DEF ls, alloc, open

\* ds is ls with the quantities of the closures cl taken from it.
Taken(ls, ds, cl) ==
  /\ ds \in Seq(LotRows) /\ Len(ds) = Len(ls)
  /\ \A n \in 1 .. Len(ls) :
       /\ ds[n] = [ls[n] EXCEPT !.remainingQty = ds[n].remainingQty]
       /\ (\A k \in 1 .. Len(cl) : cl[k].lot # n) => ds[n] = ls[n]
  /\ \A k \in 1 .. Len(cl) :
       ds[cl[k].lot].remainingQty = ls[cl[k].lot].remainingQty - cl[k].qty

\* What DecrementLot leaves of a sale's lots.
LEMMA SaleDecrements ==
  ASSUME NEW ls \in Seq(LotRows), NEW alloc, NEW qty, Sells(ls, alloc, qty)
  PROVE  Taken(ls, Decremented(ls, alloc.closures), alloc.closures)
<1> DEFINE cl == alloc.closures
           ds == Decremented(ls, cl)
<1>0. /\ cl \in Seq(Bookings) /\ Len(cl) \in Nat /\ Len(ls) \in Nat
      /\ \A k \in 1 .. Len(cl) : /\ cl[k].lot \in 1 .. Len(ls) /\ cl[k].qty \in Nat
                                 /\ cl[k].qty <= ls[cl[k].lot].remainingQty
      /\ \A k, l \in 1 .. Len(cl) : cl[k].lot = cl[l].lot => k = l
      /\ \A n \in 1 .. Len(ls) : ls[n] \in LotRows
  <2>1. cl \in Seq(Bookings)
    BY DEF Sells
  <2>2. Len(cl) \in Nat /\ \A k \in 1 .. Len(cl) : cl[k] \in Bookings
    BY <2>1
  <2>3. \A k \in 1 .. Len(cl) : cl[k].qty \in Nat
    BY <2>2 DEF Bookings
  <2> QED BY <2>1, <2>2, <2>3 DEF Sells
<1> HIDE DEF cl
<1>1. DOMAIN ds = 1 .. Len(ls)
  BY DEF Decremented
<1>2. ASSUME NEW n \in 1 .. Len(ls), \A k \in 1 .. Len(cl) : cl[k].lot # n
      PROVE  ds[n] = ls[n]
  BY <1>2 DEF Decremented
<1>3. ASSUME NEW k \in 1 .. Len(cl)
      PROVE  ds[cl[k].lot] = [ls[cl[k].lot] EXCEPT
                                !.remainingQty = ls[cl[k].lot].remainingQty - cl[k].qty]
  <2>1. (CHOOSE l \in 1 .. Len(cl) : cl[l].lot = cl[k].lot) = k
    BY <1>0
  <2>2. cl[k].lot \in 1 .. Len(ls)
    BY <1>0
  <2> QED BY <2>1, <2>2 DEF Decremented
<1>4. ASSUME NEW k \in 1 .. Len(cl)
      PROVE  /\ ds[cl[k].lot] \in LotRows
             /\ ds[cl[k].lot].remainingQty = ls[cl[k].lot].remainingQty - cl[k].qty
             /\ ds[cl[k].lot] = [ls[cl[k].lot] EXCEPT
                                   !.remainingQty = ds[cl[k].lot].remainingQty]
  <2>1. PICK l \in LotRows, r \in Nat : l = ls[cl[k].lot] /\ r = l.remainingQty - cl[k].qty
    <3>1. ls[cl[k].lot] \in LotRows
      BY <1>0
    <3>2. ls[cl[k].lot].remainingQty \in Nat
      BY <3>1 DEF LotRows
    <3>3. /\ cl[k].qty \in Nat /\ cl[k].qty <= ls[cl[k].lot].remainingQty
      BY <1>0
    <3>4. ls[cl[k].lot].remainingQty - cl[k].qty \in Nat
      BY <3>2, <3>3
    <3> QED BY <3>1, <3>4
  <2>2. ds[cl[k].lot] = [l EXCEPT !.remainingQty = r]
    BY <1>3, <2>1
  <2>3. /\ [l EXCEPT !.remainingQty = r] \in LotRows
        /\ [l EXCEPT !.remainingQty = r].remainingQty = r
    BY DEF LotRows
  <2> QED BY <2>1, <2>2, <2>3
<1> HIDE DEF ds
<1>5. ASSUME NEW n \in 1 .. Len(ls)
      PROVE  /\ ds[n] \in LotRows
             /\ ds[n] = [ls[n] EXCEPT !.remainingQty = ds[n].remainingQty]
  <2>1. CASE \E k \in 1 .. Len(cl) : cl[k].lot = n
    BY <1>4, <2>1
  <2>2. CASE \A k \in 1 .. Len(cl) : cl[k].lot # n
    <3>1. ds[n] = ls[n] /\ ls[n] \in LotRows
      BY <1>0, <1>2, <2>2
    <3>2. \A l \in LotRows : l = [l EXCEPT !.remainingQty = l.remainingQty]
      BY DEF LotRows
    <3> QED BY <3>1, <3>2
  <2> QED BY <2>1, <2>2
<1>6. ds \in [1 .. Len(ls) -> LotRows]
  BY <1>1, <1>5 DEF ds, Decremented
<1>7. ds \in Seq(LotRows) /\ Len(ds) = Len(ls)
  BY <1>0, <1>6
<1>8. Taken(ls, ds, cl)
  BY <1>2, <1>4, <1>5, <1>7 DEF Taken
<1> QED BY <1>8 DEF ds, cl

\* The lot a buy of worker w opens.
NewLot(w) == OpensLot(w).opened[1]

\* What a commit does to the ledger of its inventory: nothing, if there was no
\* fill; one more lot, for a buy; the sale of what its transaction saw, for a
\* sell.
BooksFill(w, o, i, d, name) ==
  /\ o = call[w].order /\ o \in Orders /\ i = InventoryOf[o] /\ i \in Inventories
  /\ d = DecisionOf(w).fillDelta /\ d \in Nat /\ SideOf[o] \in {"buy", "sell"}
  /\ name = [order |-> o, seq |-> Len(transitions[o]) + 1]
  /\ \A j \in Inventories : j # i => lots'[j] = lots[j]
  /\ lots' \in [Inventories -> Seq(LotRows)]
  /\ d = 0 => UNCHANGED <<lots, closures, unmatched>>
  /\ d > 0 /\ SideOf[o] = "buy" =>
       /\ NewLot(w) \in LotRows
       /\ NewLot(w).order = o /\ NewLot(w).seq = name.seq
       /\ NewLot(w).qty = d /\ NewLot(w).remainingQty = d
       /\ lots'[i] = Append(lots[i], NewLot(w))
       /\ UNCHANGED <<closures, unmatched>>
  /\ d > 0 /\ SideOf[o] = "sell" =>
       /\ Sells(lots[i], Sale(w), d)
       /\ lots'[i] = Decremented(lots[i], Sale(w).closures)
       /\ closures' = closures \cup ClosureRows(i, name, Sale(w).closures)
       /\ unmatched' = IF Sale(w).unmatched > 0
                       THEN unmatched \cup {[fill |-> name,
                                             qty |-> Sale(w).unmatched]}
                       ELSE unmatched

\* No closures leave the lots as they are.
LEMMA NoSale ==
  ASSUME NEW ls \in Seq(LotRows) PROVE Decremented(ls, <<>>) = ls
<1>1. 1 .. Len(<<>>) = {}
  OBVIOUS
<1>2. Decremented(ls, <<>>) = [n \in 1 .. Len(ls) |-> ls[n]]
  BY <1>1 DEF Decremented
<1> QED BY <1>2

\* What Commit books.
LEMMA CommitBooks ==
  ASSUME IndInv, PostInv, NEW w \in Workers, Commit(w)
  PROVE  \E o, i, d, name : BooksFill(w, o, i, d, name)
<1> DEFINE o == call[w].order
           i == InventoryOf[o]
           d == DecisionOf(w).fillDelta
           p == posting[w]
           name == [order |-> o, seq |-> Len(transitions[o]) + 1]
<1>1. /\ o \in Orders /\ d \in Nat /\ writes[w].tr.seq = Len(transitions[o]) + 1
      /\ Len(transitions[o]) \in Nat
  <2>1. /\ o \in Orders /\ transitions[o] \in Seq(TransitionRows) /\ d \in Nat
        /\ writes[w].tr = TransitionRow(w)
        /\ TransitionRow(w).seq = Len(transitions[o]) + 1
    BY CommitAppends
  <2>2. Len(transitions[o]) \in Nat
    BY <2>1
  <2> QED BY <2>1, <2>2
<1>2. i \in Inventories /\ SideOf[o] \in {"buy", "sell"}
  BY <1>1, StoreAssumption
<1>3. /\ lots \in [Inventories -> Seq(LotRows)] /\ lots[i] \in Seq(LotRows)
      /\ p = Books(w)
  BY <1>2 DEF PostInv, HoldsInventory, Commit
<1>4. /\ lots' = [lots EXCEPT ![i] = Decremented(lots[i], p.closed) \o p.opened]
      /\ closures' = closures \cup
           {[inventory |-> i, lot |-> p.closed[k].lot, fill |-> name,
             qty |-> p.closed[k].qty] : k \in 1 .. Len(p.closed)}
      /\ unmatched' = IF p.unmatched > 0
                      THEN unmatched \cup {[fill |-> name, qty |-> p.unmatched]}
                      ELSE unmatched
  BY <1>1 DEF Commit
<1>5. closures' = closures \cup ClosureRows(i, name, p.closed)
  BY <1>4 DEF ClosureRows, ClosureRow
<1>6. /\ \A j \in Inventories : j # i => lots'[j] = lots[j]
      /\ lots'[i] = Decremented(lots[i], p.closed) \o p.opened
      /\ DOMAIN lots' = Inventories
  BY <1>2, <1>3, <1>4
<1>7. ClosureRows(i, name, <<>>) = {}
  BY DEF ClosureRows
<1>8. /\ call[w].ev \in Events /\ call[w].ev.at \in Nat
  <2>1. HoldsRow(w) /\ pc[w] \in PastLock
    BY DEF IndInv, LockInv, Commit, PastLock
  <2> QED BY <2>1, DecisionFacts, StoreAssumption
<1>9. ASSUME p.closed = <<>>, p.unmatched = 0
      PROVE  /\ lots'[i] = lots[i] \o p.opened
             /\ UNCHANGED <<closures, unmatched>>
  <2>1. lots'[i] = lots[i] \o p.opened
    BY <1>3, <1>6, <1>9, NoSale
  <2>2. closures' = closures
    BY <1>5, <1>7, <1>9
  <2>3. unmatched' = unmatched
    BY <1>4, <1>9
  <2> QED BY <2>1, <2>2, <2>3
<1>10. CASE d = 0
  <2>1. p.closed = <<>> /\ p.unmatched = 0 /\ p.opened = <<>>
    BY <1>3, <1>10 DEF Books, NoPosting
  <2>2. lots'[i] = lots[i] /\ UNCHANGED <<closures, unmatched>>
    BY <1>3, <1>9, <2>1
  <2>3. lots' = lots
    BY <1>3, <1>4, <1>6, <2>2
  <2>4. BooksFill(w, o, i, d, name)
    BY <1>1, <1>2, <1>3, <1>10, <2>2, <2>3 DEF BooksFill
  <2> QED BY <2>4
<1>11. CASE d > 0 /\ SideOf[o] = "buy"
  <2>1. p = OpensLot(w)
    BY <1>1, <1>3, <1>11 DEF Books
  <2>2. p.closed = <<>> /\ p.unmatched = 0 /\ p.opened = <<NewLot(w)>>
    BY <2>1 DEF OpensLot, NewLot
  <2>3. /\ NewLot(w) \in LotRows
        /\ NewLot(w).order = o /\ NewLot(w).seq = name.seq
        /\ NewLot(w).qty = d /\ NewLot(w).remainingQty = d
    BY <1>1, <1>8 DEF NewLot, OpensLot, LotRows
  <2>4. /\ lots'[i] = lots[i] \o <<NewLot(w)>> /\ UNCHANGED <<closures, unmatched>>
    BY <1>9, <2>2
  <2> HIDE DEF d, name, p, o, i
  <2>5. /\ lots'[i] = Append(lots[i], NewLot(w)) /\ lots'[i] \in Seq(LotRows)
    BY <1>3, <2>3, <2>4
  <2>6. lots' \in [Inventories -> Seq(LotRows)]
    <3>1. \A j \in Inventories : lots'[j] \in Seq(LotRows)
      BY <1>3, <1>6, <2>5
    <3> QED BY <1>4, <3>1, <1>3
  <2>7. /\ o = call[w].order /\ i = InventoryOf[o] /\ d = DecisionOf(w).fillDelta
        /\ name = [order |-> o, seq |-> Len(transitions[o]) + 1]
        /\ d # 0 /\ SideOf[o] # "sell"
    BY <1>1, <1>11 DEF o, i, d, name
  <2>8. BooksFill(w, o, i, d, name)
    BY <1>1, <1>2, <1>6, <2>3, <2>4, <2>5, <2>6, <2>7 DEF BooksFill
  <2> QED BY <2>8
<1>12. CASE d > 0 /\ SideOf[o] = "sell"
  <2>1. p = ClosesLots(w)
    BY <1>1, <1>3, <1>12 DEF Books
  <2>2. p.closed = Sale(w).closures /\ p.unmatched = Sale(w).unmatched /\ p.opened = <<>>
    BY <2>1 DEF ClosesLots
  <2>3. Sells(lots[i], Sale(w), d)
    BY <1>1, <1>2, <1>3, SelectSells DEF Sale, Inventory
  <2>4. Decremented(lots[i], Sale(w).closures) \in Seq(LotRows)
    BY <1>3, <2>3, SaleDecrements DEF Taken
  <2>5. lots'[i] = Decremented(lots[i], Sale(w).closures)
    BY <1>6, <2>2, <2>4
  <2> HIDE DEF d, name, p, o, i
  <2>6. lots' \in [Inventories -> Seq(LotRows)]
    <3>1. \A j \in Inventories : lots'[j] \in Seq(LotRows)
      BY <1>3, <1>6, <2>4, <2>5
    <3> QED BY <1>4, <3>1, <1>3
  <2>7. /\ o = call[w].order /\ i = InventoryOf[o] /\ d = DecisionOf(w).fillDelta
        /\ name = [order |-> o, seq |-> Len(transitions[o]) + 1]
        /\ d # 0 /\ SideOf[o] # "buy"
    BY <1>1, <1>12 DEF o, i, d, name
  <2>8. /\ closures' = closures \cup ClosureRows(i, name, Sale(w).closures)
        /\ unmatched' = IF Sale(w).unmatched > 0
                        THEN unmatched \cup {[fill |-> name, qty |-> Sale(w).unmatched]}
                        ELSE unmatched
    BY <1>4, <1>5, <2>2
  <2>9. BooksFill(w, o, i, d, name)
    BY <1>1, <1>2, <1>6, <2>3, <2>5, <2>6, <2>7, <2>8 DEF BooksFill
  <2> QED BY <2>9
<1> QED BY <1>1, <1>2, <1>10, <1>11, <1>12

\* A transaction keeps what it holds of the inventory if its own work, its
\* history and, once it holds the lock, the lock and the lots stay as they are.
LEMMA HoldsInventoryStable ==
  ASSUME NEW v \in Workers, HoldsInventory(v),
         pc'[v] = pc[v], call'[v] = call[v], read'[v] = read[v],
         posting'[v] = posting[v],
         pc[v] \in {"update", "commit"} =>
           /\ DecisionOf(v).fillDelta \in Nat
           /\ transitions'[call[v].order] = transitions[call[v].order],
         Filling(v) => /\ invLock'[Inventory(v)] = invLock[Inventory(v)]
                       /\ lots'[Inventory(v)] = lots[Inventory(v)]
  PROVE  HoldsInventory(v)'
<1>1. DecisionOf(v)' = DecisionOf(v) /\ Inventory(v)' = Inventory(v)
  BY DEF DecisionOf, Inventory
<1>2. Filling(v)' <=> Filling(v)
  BY <1>1 DEF Filling
<1>3. ASSUME pc[v] \in {"update", "commit"} PROVE Books(v)' = Books(v)
  <2>1. CASE DecisionOf(v).fillDelta = 0
    BY <1>1, <2>1 DEF Books
  <2>2. CASE DecisionOf(v).fillDelta # 0 /\ SideOf[call[v].order] = "buy"
    <3>1. OpensLot(v)' = OpensLot(v)
      BY <1>1, <1>3 DEF OpensLot
    <3> QED BY <1>1, <2>2, <3>1 DEF Books
  <2>3. CASE DecisionOf(v).fillDelta > 0 /\ SideOf[call[v].order] # "buy"
    <3>1. lots'[Inventory(v)] = lots[Inventory(v)]
      BY <1>3, <2>3 DEF Filling
    <3>2. OpenLots(Inventory(v))' = OpenLots(Inventory(v))
      BY <1>1, <3>1 DEF OpenLots
    <3>3. ClosesLots(v)' = ClosesLots(v)
      BY <1>1, <3>2 DEF ClosesLots, Sale
    <3> QED BY <1>1, <2>3, <3>3 DEF Books
  <2>4. DecisionOf(v).fillDelta = 0 \/ DecisionOf(v).fillDelta > 0
    BY <1>3
  <2> QED BY <2>1, <2>2, <2>3, <2>4
<1> QED BY <1>1, <1>2, <1>3 DEF HoldsInventory

\* What one worker's step leaves of the inventory another one holds.
LEMMA OthersHoldInventory ==
  ASSUME IndInv, OutboxInv, PostInv, NEW w \in Workers, NEW v \in Workers, v # w,
         Step(w) \/ Abort(w) \/ \E o \in Orders, ev \in Events : Begin(w, o, ev),
         pc[v] \in PastLock =>
           transitions'[call[v].order] = transitions[call[v].order],
         Filling(v) => /\ invLock'[Inventory(v)] = invLock[Inventory(v)]
                       /\ lots'[Inventory(v)] = lots[Inventory(v)]
  PROVE  HoldsInventory(v)'
<1>1. /\ pc'[v] = pc[v] /\ call'[v] = call[v] /\ read'[v] = read[v]
      /\ posting'[v] = posting[v]
  BY OthersKeep DEF IndInv, OutboxInv
<1>2. HoldsInventory(v)
  BY DEF PostInv
<1>3. ASSUME pc[v] \in {"update", "commit"}
      PROVE  pc[v] \in PastLock /\ DecisionOf(v).fillDelta \in Nat
  BY <1>3, DecisionFacts DEF PastLock, IndInv, LockInv
<1> QED BY <1>1, <1>2, <1>3, HoldsInventoryStable

\* Whoever is filling has a call, and holds its inventory alone.
LEMMA FillingHolds ==
  ASSUME IndInv, PostInv, NEW v \in Workers, Filling(v)
  PROVE  /\ pc[v] \in PastLock /\ call[v].order \in Orders
         /\ Inventory(v) \in Inventories /\ invLock[Inventory(v)] = v
<1>1. pc[v] \in PastLock /\ HoldsRow(v)
  BY DEF Filling, PastLock, IndInv, LockInv
<1>2. call[v].order \in Orders
  BY <1>1, DecisionFacts
<1> QED BY <1>1, <1>2, StoreAssumption DEF Inventory, PostInv, HoldsInventory

\* The end of w's transaction leaves the others' inventory locks.
LEMMA EndKeepsInventories ==
  ASSUME IndInv, PostInv, NEW w \in Workers, End(w), NEW v \in Workers, v # w,
         Filling(v)
  PROVE  invLock'[Inventory(v)] = invLock[Inventory(v)]
<1>1. Inventory(v) \in Inventories /\ invLock[Inventory(v)] = v
  BY FillingHolds
<1> QED BY <1>1 DEF End

\* A transaction that is not past its decision owes the ledger nothing.
LEMMA NothingHeld ==
  ASSUME NEW w \in Workers, pc'[w] \in {"idle", "lock", "decide"}
  PROVE  HoldsInventory(w)'
BY DEF HoldsInventory, Filling

\* Every step keeps the inventory discipline: whoever books a fill holds its
\* inventory's lock, and what it has booked is what the committed lots allow.
LEMMA NextPost == IndInv /\ OutboxInv /\ PostInv /\ [Next]_vars => PostInv'
<1> SUFFICES ASSUME IndInv, OutboxInv, PostInv, [Next]_vars PROVE PostInv'
  OBVIOUS
<1>0. /\ TypeOK /\ LockInv /\ DOMAIN pc = Workers /\ DOMAIN posting = Workers
      /\ lots \in [Inventories -> Seq(LotRows)]
      /\ \A v \in Workers : HoldsInventory(v)
      /\ Free \notin Workers
  BY StoreAssumption DEF IndInv, TypeOK, OutboxInv, PostInv
<1>1. ASSUME UNCHANGED <<transitions, lots, invLock, pc, call, read, posting>>
      PROVE  PostInv'
  <2>1. \A v \in Workers : HoldsInventory(v)' <=> HoldsInventory(v)
    BY <1>1 DEF HoldsInventory, Filling, Inventory, DecisionOf, Books, OpensLot,
       ClosesLots, Sale, OpenLots
  <2> QED BY <1>0, <1>1, <2>1 DEF PostInv
<1>2. ASSUME NEW w \in Workers,
             Step(w) \/ Abort(w) \/ \E o \in Orders, ev \in Events : Begin(w, o, ev),
             UNCHANGED <<transitions, lots>>,
             \A v \in Workers : v # w /\ Filling(v) =>
               invLock'[Inventory(v)] = invLock[Inventory(v)],
             HoldsInventory(w)'
      PROVE  PostInv'
  <2>1. ASSUME NEW v \in Workers, v # w PROVE HoldsInventory(v)'
    BY <1>2, <2>1, OthersHoldInventory
  <2> QED BY <1>0, <1>2, <2>1 DEF PostInv
<1>3. ASSUME NEW o \in Orders, CreatePending(o) \/ MarkCancelRequested(o)
      PROVE  PostInv'
  BY <1>1, <1>3 DEF CreatePending, MarkCancelRequested, orderVars, ledgerVars,
     lockVars, txVars
<1>4. CASE UNCHANGED vars
  BY <1>1, <1>4 DEF vars, orderVars, ledgerVars, lockVars, txVars
<1>5. ASSUME NEW w \in Workers, Abort(w) \/ OrderNotFound(w) \/ AdoptVenueOrderID(w)
      PROVE  PostInv'
  <2>1. End(w) /\ UNCHANGED <<transitions, lots>>
    BY <1>5 DEF Abort, OrderNotFound, AdoptVenueOrderID, orderVars, ledgerVars
  <2>2. pc'[w] = "idle"
    BY <1>0, <2>1 DEF End
  <2>3. HoldsInventory(w)'
    BY <2>2, NothingHeld
  <2>4. \A v \in Workers : v # w /\ Filling(v) =>
          invLock'[Inventory(v)] = invLock[Inventory(v)]
    BY <2>1, EndKeepsInventories
  <2>5. Step(w) \/ Abort(w)
    BY <1>5 DEF Step
  <2> QED BY <1>2, <2>1, <2>3, <2>4, <2>5
<1>6. ASSUME NEW w \in Workers,
             LockOrder(w) \/ \E o \in Orders, ev \in Events : Begin(w, o, ev)
      PROVE  PostInv'
  <2>1. /\ UNCHANGED <<transitions, lots, invLock>>
        /\ pc'[w] \in {"idle", "lock", "decide"}
    BY <1>0, <1>6 DEF LockOrder, Begin, orderVars, ledgerVars, lockVars
  <2>2. HoldsInventory(w)'
    BY <2>1, NothingHeld
  <2> QED BY <1>2, <1>6, <2>1, <2>2 DEF Step
<1>7. ASSUME NEW w \in Workers,
             \/ InsertTransition(w) \/ LockInventory(w) \/ OpenLot(w)
             \/ CloseLots(w) \/ InsertEventOutbox(w)
      PROVE  PostInv'
  <2> DEFINE d == DecisionOf(w).fillDelta
             o == call[w].order
             i == InventoryOf[o]
  <2>1. /\ UNCHANGED <<transitions, lots, call, read>> /\ pc[w] \in PastLock
        /\ Step(w)
    BY <1>7 DEF InsertTransition, LockInventory, OpenLot, CloseLots,
       InsertEventOutbox, orderVars, ledgerVars, txVars, PastLock, Step
  <2>2. /\ d \in Nat /\ o \in Orders /\ HoldsRow(w) /\ HoldsInventory(w)
        /\ DecisionOf(w)' = DecisionOf(w) /\ i \in Inventories
        /\ Inventory(w) = i /\ Inventory(w)' = i
    BY <1>0, <2>1, DecisionFacts, StoreAssumption
       DEF LockInv, DecisionOf, Inventory
  <2>3. Books(w)' = Books(w)
    BY <2>1, <2>2 DEF Books, OpensLot, ClosesLots, Sale, OpenLots
  <2>4. ASSUME pc[w] \in {"post"}
        PROVE  /\ d > 0 /\ invLock[i] = w
               /\ writes[w].fill[1].qty = d
               /\ writes[w].fill[1].seq = Len(transitions[o]) + 1
    <3>1. /\ d > 0 /\ invLock[i] = w
      BY <2>2, <2>4 DEF HoldsInventory, Filling
    <3>2. writes[w].fill = FillRow(w)
      BY <2>2, <2>4 DEF HoldsRow, PastInsert, PastLock
    <3>3. FillRow(w)[1].qty = d /\ FillRow(w)[1].seq = Len(transitions[o]) + 1
      BY <2>2, <3>1 DEF FillRow
    <3> QED BY <3>1, <3>2, <3>3
  <2>5. CASE InsertTransition(w)
    <3>1. /\ UNCHANGED invLock /\ pc'[w] = IF d > 0 THEN "inventory" ELSE "update"
          /\ posting'[w] = posting[w] /\ pc[w] = "decide"
      BY <1>0, <2>5 DEF InsertTransition, lockVars
    <3>2. posting[w] = NoPosting
      BY <3>1 DEF OutboxInv, StagesDue
    <3>3. ASSUME d > 0 PROVE HoldsInventory(w)'
      BY <2>2, <3>1, <3>3 DEF HoldsInventory, Filling
    <3>4. ASSUME d = 0 PROVE HoldsInventory(w)'
      <4>1. Books(w) = NoPosting
        BY <3>4 DEF Books
      <4> QED BY <2>2, <2>3, <3>1, <3>2, <3>4, <4>1 DEF HoldsInventory, Filling
    <3>5. HoldsInventory(w)'
      BY <2>2, <3>3, <3>4
    <3> QED BY <1>2, <2>1, <3>1, <3>5
  <2>6. CASE LockInventory(w)
    <3>1. /\ pc[w] = "inventory" /\ pc'[w] = "post" /\ invLock[i] = Free
          /\ invLock' = [invLock EXCEPT ![i] = w]
      BY <1>0, <2>6 DEF LockInventory
    <3>2. d > 0 /\ invLock'[i] = w
      BY <1>0, <2>2, <3>1 DEF HoldsInventory, TypeOK
    <3>3. HoldsInventory(w)'
      BY <2>2, <3>1, <3>2 DEF HoldsInventory, Filling
    <3>4. ASSUME NEW v \in Workers, v # w, Filling(v)
          PROVE  invLock'[Inventory(v)] = invLock[Inventory(v)]
      <4>1. Inventory(v) \in Inventories /\ invLock[Inventory(v)] = v
        BY <3>4, FillingHolds
      <4>2. Inventory(v) # i
        BY <1>0, <3>1, <4>1
      <4> QED BY <3>1, <4>1, <4>2
    <3> QED BY <1>2, <2>1, <3>3, <3>4
  <2>7. CASE OpenLot(w)
    <3>1. /\ UNCHANGED invLock /\ pc[w] = "post" /\ pc'[w] = "update"
          /\ SideOf[o] = "buy"
          /\ posting'[w] =
               [opened |-> <<[order |-> o, seq |-> writes[w].fill[1].seq,
                              qty |-> writes[w].fill[1].qty,
                              remainingQty |-> writes[w].fill[1].qty,
                              openedAt |-> call[w].ev.at]>>,
                closed |-> <<>>, unmatched |-> 0]
      BY <1>0, <2>7 DEF OpenLot, lockVars
    <3>2. posting'[w] = OpensLot(w)
      BY <2>4, <3>1 DEF OpensLot
    <3>3. Books(w) = OpensLot(w) /\ d > 0 /\ invLock'[i] = w
      BY <2>4, <3>1 DEF Books
    <3>4. HoldsInventory(w)'
      BY <2>2, <2>3, <3>1, <3>2, <3>3 DEF HoldsInventory, Filling
    <3> QED BY <1>2, <2>1, <3>1, <3>4
  <2>8. CASE CloseLots(w)
    <3>1. /\ UNCHANGED invLock /\ pc[w] = "post" /\ pc'[w] = "update"
          /\ SideOf[o] = "sell"
          /\ posting'[w] =
               [opened |-> <<>>,
                closed |-> Select(OpenLots(i), writes[w].fill[1].qty).closures,
                unmatched |-> Select(OpenLots(i), writes[w].fill[1].qty).unmatched]
      BY <1>0, <2>8 DEF CloseLots, lockVars
    <3>2. posting'[w] = ClosesLots(w)
      BY <2>2, <2>4, <3>1 DEF ClosesLots, Sale
    <3>3. Books(w) = ClosesLots(w) /\ d > 0 /\ invLock'[i] = w
      BY <2>4, <3>1 DEF Books
    <3>4. HoldsInventory(w)'
      BY <2>2, <2>3, <3>1, <3>2, <3>3 DEF HoldsInventory, Filling
    <3> QED BY <1>2, <2>1, <3>1, <3>4
  <2>9. CASE InsertEventOutbox(w)
    <3>1. /\ UNCHANGED invLock /\ pc[w] = "update" /\ pc'[w] = "commit"
          /\ posting'[w] = posting[w]
      BY <1>0, <2>9 DEF InsertEventOutbox, lockVars
    <3>2. posting[w] = Books(w) /\ (d > 0 => invLock[i] = w)
      BY <2>2, <3>1 DEF HoldsInventory, Filling
    <3>3. HoldsInventory(w)'
      BY <2>2, <2>3, <3>1, <3>2 DEF HoldsInventory, Filling
    <3> QED BY <1>2, <2>1, <3>1, <3>3
  <2> QED BY <1>7, <2>5, <2>6, <2>7, <2>8, <2>9
<1>8. ASSUME NEW w \in Workers, Commit(w) PROVE PostInv'
  <2>1. PICK o, i, d, name : BooksFill(w, o, i, d, name)
    BY <1>8, CommitBooks
  <2>2. /\ End(w) /\ pc[w] = "commit" /\ pc[w] \in PastLock /\ pc'[w] = "idle"
        /\ Step(w)
    BY <1>0, <1>8 DEF Commit, End, PastLock, Step
  <2>3. ASSUME NEW v \in Workers, v # w PROVE HoldsInventory(v)'
    <3>1. ASSUME pc[v] \in PastLock
          PROVE  transitions'[call[v].order] = transitions[call[v].order]
      <4>1. call[v].order # call[w].order
        BY <1>0, <2>2, <2>3, <3>1, OneHolder
      <4>2. call[v].order \in Orders
        BY <1>0, <3>1, DecisionFacts DEF LockInv
      <4> QED BY <1>0, <1>8, <4>1, <4>2 DEF Commit, TypeOK
    <3>2. ASSUME Filling(v) PROVE lots'[Inventory(v)] = lots[Inventory(v)]
      <4>1. Inventory(v) \in Inventories /\ invLock[Inventory(v)] = v
        BY <3>2, FillingHolds
      <4>2. CASE Inventory(v) # i
        BY <2>1, <4>1, <4>2 DEF BooksFill
      <4>3. CASE Inventory(v) = i
        <5>1. i = Inventory(w) /\ d = DecisionOf(w).fillDelta /\ d \in Nat
          BY <2>1 DEF BooksFill, Inventory
        <5>2. ~Filling(w)
          BY <2>3, <4>1, <4>3, <5>1, FillingHolds
        <5>3. d = 0
          BY <2>2, <5>1, <5>2 DEF Filling
        <5> QED BY <2>1, <5>3 DEF BooksFill
      <4> QED BY <4>2, <4>3
    <3>3. Filling(v) => invLock'[Inventory(v)] = invLock[Inventory(v)]
      BY <2>2, <2>3, EndKeepsInventories
    <3> QED BY <2>2, <2>3, <3>1, <3>2, <3>3, OthersHoldInventory
  <2>4. HoldsInventory(w)'
    BY <2>2, NothingHeld
  <2>5. lots' \in [Inventories -> Seq(LotRows)]
    BY <2>1 DEF BooksFill
  <2> QED BY <2>3, <2>4, <2>5 DEF PostInv
<1> QED BY <1>3, <1>4, <1>5, <1>6, <1>7, <1>8 DEF Next, Step

\* Empty books.
LEMMA InitPost == Init => PostInv
BY DEF Init, PostInv, HoldsInventory, Filling

\* A step that records an unmatched sell leaves nothing in its inventory.
LEMMA OversellStep ==
  ASSUME IndInv, OutboxInv, PostInv, [Next]_vars,
         NEW u \in unmatched' \ unmatched
  PROVE  \A n \in 1 .. Len(lots'[InventoryOf[u.fill.order]]) :
           lots'[InventoryOf[u.fill.order]][n].remainingQty = 0
<1>1. PICK w \in Workers : Commit(w)
  BY DEF Next, Step, CreatePending, MarkCancelRequested, Begin, OrderNotFound,
     LockOrder, AdoptVenueOrderID, InsertTransition, LockInventory, OpenLot,
     CloseLots, InsertEventOutbox, Abort, vars, ledgerVars
<1>2. PICK o, i, d, name : BooksFill(w, o, i, d, name)
  BY <1>1, CommitBooks
<1> DEFINE cl == Sale(w).closures
           ls == lots[i]
<1>3. d > 0 /\ SideOf[o] = "sell"
  BY <1>2 DEF BooksFill
<1>4. /\ Sells(ls, Sale(w), d) /\ lots'[i] = Decremented(ls, cl)
      /\ Sale(w).unmatched > 0 /\ u = [fill |-> name, qty |-> Sale(w).unmatched]
      /\ name.order = o /\ i = InventoryOf[o] /\ i \in Inventories
  BY <1>2, <1>3 DEF BooksFill
<1>5. u.fill.order = o /\ ls \in Seq(LotRows)
  BY <1>4 DEF PostInv
<1>6. Taken(ls, lots'[i], cl)
  BY <1>4, <1>5, SaleDecrements
<1>7. ASSUME NEW n \in 1 .. Len(ls) PROVE lots'[i][n].remainingQty = 0
  <2>0. ls[n] \in LotRows
    BY <1>5
  <2>1. ls[n].remainingQty \in Nat
    BY <2>0 DEF LotRows
  <2>2. CASE ls[n].remainingQty > 0
    <3>1. PICK k \in 1 .. Len(cl) : cl[k].lot = n /\ cl[k].qty = ls[n].remainingQty
      BY <1>4, <2>2 DEF Sells
    <3>2. lots'[i][n].remainingQty = ls[n].remainingQty - ls[n].remainingQty
      BY <1>6, <3>1 DEF Taken
    <3> QED BY <2>1, <3>2
  <2>3. CASE ls[n].remainingQty = 0
    <3>1. \A k \in 1 .. Len(cl) : cl[k].lot # n
      <4> SUFFICES ASSUME NEW k \in 1 .. Len(cl), cl[k].lot = n PROVE FALSE
        OBVIOUS
      <4>1. cl[k].qty > 0 /\ cl[k].qty <= 0 /\ cl[k] \in Bookings
        BY <1>4, <2>3 DEF Sells
      <4> QED BY <4>1 DEF Bookings
    <3> QED BY <1>6, <2>3, <3>1 DEF Taken
  <2> QED BY <2>1, <2>2, <2>3
<1>8. Len(lots'[i]) = Len(ls)
  BY <1>6 DEF Taken
<1> QED BY <1>4, <1>5, <1>7, <1>8

\* A sell is recorded as unmatched only when its commit leaves the inventory
\* empty: no lot a concurrent buy committed before it is missed.
THEOREM OversellHolds == Spec => OversellOnlyWhenEmpty
<1>1. IndInv /\ OutboxInv /\ PostInv /\ [Next]_vars =>
        [\A u \in unmatched' \ unmatched :
           \A n \in 1 .. Len(lots'[InventoryOf[u.fill.order]]) :
             lots'[InventoryOf[u.fill.order]][n].remainingQty = 0]_unmatched
  BY OversellStep
<1> QED BY <1>1, Invariance, InitOutbox, NextOutbox, InitPost, NextPost, PTL
        DEF Spec, OversellOnlyWhenEmpty

--------------------------------------------------------------------------------
(* The balance of the books. *)

(* LedgerConserved, of lots L, fills F, closures C and unmatched sells U. *)

Named(o, s) == [order |-> o, seq |-> s]

LotIDs(L) == UNION {{<<i, n>> : n \in 1 .. Len(L[i])} : i \in Inventories}

Filled(F, side) ==
  UNION {{<<o, F[o][n].seq, F[o][n].qty>> : n \in 1 .. Len(F[o])} :
           o \in {x \in Orders : SideOf[x] = side}}

HasFill(F, side, o, s, q) ==
  /\ o \in Orders /\ SideOf[o] = side
  /\ \E n \in 1 .. Len(F[o]) : F[o][n].seq = s /\ F[o][n].qty = q

\* The lots are the buy fills, one for one.
LotsAreBuys(L, F) ==
  /\ \A i \in Inventories : \A n \in 1 .. Len(L[i]) :
       HasFill(F, "buy", L[i][n].order, L[i][n].seq, L[i][n].qty)
  /\ \A o \in Orders : SideOf[o] = "buy" => \A k \in 1 .. Len(F[o]) :
       \E i \in Inventories : \E n \in 1 .. Len(L[i]) :
         /\ L[i][n].order = o
         /\ L[i][n].seq = F[o][k].seq /\ L[i][n].qty = F[o][k].qty

AsMany(A, B) == IsFiniteSet(A) /\ IsFiniteSet(B) /\ Cardinality(A) = Cardinality(B)

\* What a lot has lost was closed.
OfLot(C, i, n) == {c \in C : <<c.inventory, c.lot>> = <<i, n>>}
LotsAddUp(L, C) ==
  \A i \in Inventories : \A n \in 1 .. Len(L[i]) :
    L[i][n].qty = L[i][n].remainingQty + Total(OfLot(C, i, n))

\* A sell is its closures and its remainder.
OfFill(R, name) == {r \in R : r.fill = name}
SellsAddUp(F, C, U) ==
  \A o \in Orders : SideOf[o] = "sell" => \A k \in 1 .. Len(F[o]) :
    Total(OfFill(C, Named(o, F[o][k].seq))) + Total(OfFill(U, Named(o, F[o][k].seq)))
      = F[o][k].qty

\* Closures and remainders belong to sells, closures to lots.
OfSells(R, F) ==
  \A r \in R : \E o \in Orders :
    SideOf[o] = "sell" /\ \E k \in 1 .. Len(F[o]) : r.fill = Named(o, F[o][k].seq)
OfLots(C, L) ==
  \A c \in C : c.inventory \in Inventories /\ c.lot \in 1 .. Len(L[c.inventory])

BooksBalance(L, F, C, U) ==
  /\ Quantified(C) /\ Quantified(U)
  /\ LotsAreBuys(L, F) /\ AsMany(LotIDs(L), Filled(F, "buy"))
  /\ LotsAddUp(L, C) /\ SellsAddUp(F, C, U)
  /\ OfSells(C, F) /\ OfSells(U, F) /\ OfLots(C, L)

LedgerInv == BooksBalance(lots, fills, closures, unmatched)

\* A fill is a triple of the set.
LEMMA FilledHas ==
  ASSUME NEW F, NEW side
  PROVE  \A f : (f \in Filled(F, side)) <=>
           (\E o, s, q : f = <<o, s, q>> /\ HasFill(F, side, o, s, q))
<1>1. ASSUME NEW f \in Filled(F, side)
      PROVE  \E o, s, q : f = <<o, s, q>> /\ HasFill(F, side, o, s, q)
  <2>1a. PICK o \in Orders : \E n \in 1 .. Len(F[o]) :
          SideOf[o] = side /\ f = <<o, F[o][n].seq, F[o][n].qty>>
    BY DEF Filled
  <2>1. PICK n \in 1 .. Len(F[o]) :
          SideOf[o] = side /\ f = <<o, F[o][n].seq, F[o][n].qty>>
    BY <2>1a
  <2>2. HasFill(F, side, o, F[o][n].seq, F[o][n].qty)
    BY <2>1 DEF HasFill
  <2> QED BY <2>1, <2>2
<1>2. ASSUME NEW o, NEW s, NEW q, HasFill(F, side, o, s, q)
      PROVE  <<o, s, q>> \in Filled(F, side)
  BY <1>2 DEF Filled, HasFill
<1> QED BY <1>1, <1>2

\* The books balance: LedgerConserved.
LEMMA BalanceConserves == PostInv /\ LedgerInv => LedgerConserved
<1> SUFFICES ASSUME PostInv, LedgerInv PROVE LedgerConserved
  OBVIOUS
<1> DEFINE LotAt(id) == lots[id[1]][id[2]]
<1>0. BooksBalance(lots, fills, closures, unmatched)
  BY DEF LedgerInv
<1>1. \A id \in LotIDs(lots) : \E i \in Inventories : \E n \in 1 .. Len(lots[i]) :
        id = <<i, n>>
  BY DEF LotIDs
<1>2. {<<LotAt(id).order, LotAt(id).seq, LotAt(id).qty>> : id \in LotIDs(lots)}
        = Filled(fills, "buy")
  <2>1. ASSUME NEW id \in LotIDs(lots)
        PROVE  <<LotAt(id).order, LotAt(id).seq, LotAt(id).qty>> \in Filled(fills, "buy")
    <3>1a. PICK i \in Inventories : \E n \in 1 .. Len(lots[i]) : id = <<i, n>>
      BY <1>1
    <3>1. PICK n \in 1 .. Len(lots[i]) : id = <<i, n>>
      BY <3>1a
    <3>2. LotAt(id) = lots[i][n]
      BY <3>1
    <3>3. HasFill(fills, "buy", lots[i][n].order, lots[i][n].seq, lots[i][n].qty)
      BY <1>0 DEF BooksBalance, LotsAreBuys
    <3> QED BY <3>2, <3>3, FilledHas
  <2>2. ASSUME NEW f \in Filled(fills, "buy")
        PROVE  \E id \in LotIDs(lots) :
                 f = <<LotAt(id).order, LotAt(id).seq, LotAt(id).qty>>
    <3>1. PICK o, s, q : f = <<o, s, q>> /\ HasFill(fills, "buy", o, s, q)
      BY FilledHas
    <3>2. PICK k \in 1 .. Len(fills[o]) : fills[o][k].seq = s /\ fills[o][k].qty = q
      BY <3>1 DEF HasFill
    <3>3a. PICK i \in Inventories : \E n \in 1 .. Len(lots[i]) :
            lots[i][n].order = o /\ lots[i][n].seq = s /\ lots[i][n].qty = q
      BY <1>0, <3>1, <3>2 DEF BooksBalance, LotsAreBuys, HasFill
    <3>3. PICK n \in 1 .. Len(lots[i]) :
            lots[i][n].order = o /\ lots[i][n].seq = s /\ lots[i][n].qty = q
      BY <3>3a
    <3>4. <<i, n>> \in LotIDs(lots) /\ LotAt(<<i, n>>) = lots[i][n]
      BY DEF LotIDs
    <3> QED BY <3>1, <3>3, <3>4
  <2> QED BY <2>1, <2>2
<1>3. Cardinality(LotIDs(lots)) = Cardinality(Filled(fills, "buy"))
  BY <1>0 DEF BooksBalance, AsMany
<1>4. ASSUME NEW id \in LotIDs(lots)
      PROVE  /\ LotAt(id).remainingQty >= 0
             /\ LotAt(id).qty = LotAt(id).remainingQty
                  + Total({c \in closures : <<c.inventory, c.lot>> = id})
  <2>1a. PICK i \in Inventories : \E n \in 1 .. Len(lots[i]) : id = <<i, n>>
    BY <1>1
  <2>1. PICK n \in 1 .. Len(lots[i]) : id = <<i, n>>
    BY <2>1a
  <2>2. LotAt(id) = lots[i][n]
    BY <2>1
  <2>3. lots[i] \in Seq(LotRows)
    BY DEF PostInv
  <2>4. lots[i][n] \in LotRows
    BY <2>3
  <2>5. lots[i][n].remainingQty \in Nat
    BY <2>4 DEF LotRows
  <2>6. OfLot(closures, i, n) = {c \in closures : <<c.inventory, c.lot>> = id}
    BY <2>1 DEF OfLot
  <2>7. lots[i][n].qty = lots[i][n].remainingQty + Total(OfLot(closures, i, n))
    BY <1>0 DEF BooksBalance, LotsAddUp
  <2> QED BY <2>2, <2>5, <2>6, <2>7
<1>5. ASSUME NEW f \in Filled(fills, "sell")
      PROVE  Total({c \in closures : c.fill = [order |-> f[1], seq |-> f[2]]})
               + Total({u \in unmatched : u.fill = [order |-> f[1], seq |-> f[2]]})
               = f[3]
  <2>1. PICK o, s, q : f = <<o, s, q>> /\ HasFill(fills, "sell", o, s, q)
    BY FilledHas
  <2>2. PICK k \in 1 .. Len(fills[o]) : fills[o][k].seq = s /\ fills[o][k].qty = q
    BY <2>1 DEF HasFill
  <2>3. Total(OfFill(closures, Named(o, s))) + Total(OfFill(unmatched, Named(o, s))) = q
    BY <1>0, <2>1, <2>2 DEF BooksBalance, SellsAddUp, HasFill
  <2>4. f[1] = o /\ f[2] = s /\ f[3] = q
    BY <2>1
  <2> QED BY <2>3, <2>4 DEF OfFill, Named
<1>6. ASSUME NEW r \in closures \cup unmatched
      PROVE  \E f \in Filled(fills, "sell") : r.fill = [order |-> f[1], seq |-> f[2]]
  <2>1a. PICK o \in Orders : \E k \in 1 .. Len(fills[o]) :
          SideOf[o] = "sell" /\ r.fill = Named(o, fills[o][k].seq)
    BY <1>0 DEF BooksBalance, OfSells
  <2>1. PICK k \in 1 .. Len(fills[o]) :
          SideOf[o] = "sell" /\ r.fill = Named(o, fills[o][k].seq)
    BY <2>1a
  <2> DEFINE f == <<o, fills[o][k].seq, fills[o][k].qty>>
  <2>2. f \in Filled(fills, "sell")
    BY <2>1 DEF Filled
  <2>3. r.fill = [order |-> f[1], seq |-> f[2]]
    BY <2>1 DEF Named
  <2> QED BY <2>2, <2>3
<1> HIDE DEF LotAt
<1> QED BY <1>2, <1>3, <1>4, <1>5, <1>6
        DEF LedgerConserved, LotIDs, Filled, Total, LotAt

\* G is F with one more fill, of order o, which no other fill shares its seq s.
FillAdded(F, G, o, s, d) ==
  /\ o \in Orders /\ Len(F[o]) \in Nat /\ s \in Nat /\ d \in Nat
  /\ \A p \in Orders : p # o => G[p] = F[p]
  /\ Len(G[o]) = Len(F[o]) + 1
  /\ \A k \in 1 .. Len(F[o]) : G[o][k] = F[o][k] /\ F[o][k].seq # s
  /\ G[o][Len(F[o]) + 1].seq = s /\ G[o][Len(F[o]) + 1].qty = d

\* The fills of the old table are those of the new one but the one added.
LEMMA FillAddedHas ==
  ASSUME NEW F, NEW G, NEW o, NEW s, NEW d, FillAdded(F, G, o, s, d),
         NEW side, NEW p, NEW t, NEW q
  PROVE  /\ HasFill(G, side, p, t, q) <=>
              \/ HasFill(F, side, p, t, q)
              \/ p = o /\ t = s /\ q = d /\ SideOf[o] = side
         /\ ~HasFill(F, side, o, s, q)
<1> DEFINE l == Len(F[o])
<1>1. /\ o \in Orders /\ l \in Nat /\ Len(G[o]) = l + 1
      /\ \A k \in 1 .. l : G[o][k] = F[o][k] /\ F[o][k].seq # s
      /\ G[o][l + 1].seq = s /\ G[o][l + 1].qty = d
      /\ p \in Orders /\ p # o => G[p] = F[p]
  BY DEF FillAdded
<1> HIDE DEF l
<1>2. \A k : k \in 1 .. l + 1 <=> k \in 1 .. l \/ k = l + 1
  BY <1>1
<1>3. ~HasFill(F, side, o, s, q)
  BY <1>1 DEF HasFill, l
<1>4. ASSUME p # o PROVE HasFill(G, side, p, t, q) <=> HasFill(F, side, p, t, q)
  <2>1. CASE p \in Orders
    <3>1. G[p] = F[p]
      BY <1>1, <1>4, <2>1
    <3> QED BY ONLY <3>1 DEF HasFill
  <2>2. CASE p \notin Orders
    BY <2>2 DEF HasFill
  <2> QED BY <2>1, <2>2
<1>5. ASSUME HasFill(G, side, o, t, q)
      PROVE  \/ HasFill(F, side, o, t, q)
             \/ t = s /\ q = d /\ SideOf[o] = side
  <2>1. PICK n \in 1 .. l + 1 : G[o][n].seq = t /\ G[o][n].qty = q
    BY <1>1, <1>5 DEF HasFill
  <2>2. CASE n = l + 1
    BY <1>1, <1>5, <2>1, <2>2 DEF HasFill
  <2>3. CASE n \in 1 .. l
    <3>1. n \in 1 .. Len(F[o]) /\ F[o][n].seq = t /\ F[o][n].qty = q
      BY <1>1, <2>1, <2>3 DEF l
    <3> QED BY <1>1, <1>5, <3>1 DEF HasFill
  <2> QED BY <1>2, <2>2, <2>3
<1>6. ASSUME HasFill(F, side, o, t, q) PROVE HasFill(G, side, o, t, q)
  <2>1. PICK n \in 1 .. l : F[o][n].seq = t /\ F[o][n].qty = q
    BY <1>1, <1>6 DEF HasFill, l
  <2>2. n \in 1 .. Len(G[o]) /\ G[o][n].seq = t /\ G[o][n].qty = q
    BY <1>1, <1>2, <2>1
  <2> QED BY <1>1, <1>6, <2>2 DEF HasFill
<1>7. ASSUME t = s, q = d, SideOf[o] = side PROVE HasFill(G, side, o, t, q)
  <2>1. l + 1 \in 1 .. Len(G[o])
    BY <1>1
  <2> QED BY <1>1, <1>7, <2>1 DEF HasFill
<1> QED BY <1>3, <1>4, <1>5, <1>6, <1>7

\* With one more fill, the triples of its side are one more.
LEMMA FillAddedFilled ==
  ASSUME NEW F, NEW G, NEW o, NEW s, NEW d, FillAdded(F, G, o, s, d), NEW side
  PROVE  /\ \A f : (f \in Filled(G, side)) <=>
                     (f \in Filled(F, side) \/ (f = <<o, s, d>> /\ SideOf[o] = side))
         /\ <<o, s, d>> \notin Filled(F, side)
<1>1. \A f : (f \in Filled(G, side)) <=>
              (\E p, t, q : f = <<p, t, q>> /\ HasFill(G, side, p, t, q))
  BY FilledHas
<1>2. \A f : (f \in Filled(F, side)) <=>
              (\E p, t, q : f = <<p, t, q>> /\ HasFill(F, side, p, t, q))
  BY FilledHas
<1>3. \A p, t, q : HasFill(G, side, p, t, q) <=>
                     \/ HasFill(F, side, p, t, q)
                     \/ p = o /\ t = s /\ q = d /\ SideOf[o] = side
  BY FillAddedHas
<1>4. \A q : ~HasFill(F, side, o, s, q)
  BY FillAddedHas
<1>5. <<o, s, d>> \notin Filled(F, side)
  BY <1>2, <1>4
<1>6. ASSUME NEW f
      PROVE  (f \in Filled(G, side)) <=>
               (f \in Filled(F, side) \/ (f = <<o, s, d>> /\ SideOf[o] = side))
  <2>1. ASSUME f \in Filled(G, side)
        PROVE  f \in Filled(F, side) \/ (f = <<o, s, d>> /\ SideOf[o] = side)
    <3>1. PICK p, t, q : f = <<p, t, q>> /\ HasFill(G, side, p, t, q)
      BY <1>1, <2>1
    <3>2. CASE HasFill(F, side, p, t, q)
      BY <1>2, <3>1, <3>2
    <3>3. CASE p = o /\ t = s /\ q = d /\ SideOf[o] = side
      BY <3>1, <3>3
    <3> QED BY <1>3, <3>1, <3>2, <3>3
  <2>2. ASSUME f \in Filled(F, side) PROVE f \in Filled(G, side)
    <3>1. PICK p, t, q : f = <<p, t, q>> /\ HasFill(F, side, p, t, q)
      BY <1>2, <2>2
    <3>2. HasFill(G, side, p, t, q)
      BY <1>3, <3>1
    <3> QED BY <1>1, <3>1, <3>2
  <2>3. ASSUME SideOf[o] = side PROVE <<o, s, d>> \in Filled(G, side)
    <3>1. HasFill(G, side, o, s, d)
      BY <1>3, <2>3
    <3> QED BY <1>1, <3>1
  <2> QED BY <2>1, <2>2, <2>3
<1> QED BY <1>5, <1>6

\* Rows of sells stay rows of sells, and none is of the fill added.
LEMMA FillAddedOfSells ==
  ASSUME NEW F, NEW G, NEW o, NEW s, NEW d, FillAdded(F, G, o, s, d),
         NEW R, OfSells(R, F)
  PROVE  OfSells(R, G) /\ OfFill(R, Named(o, s)) = {}
<1> DEFINE l == Len(F[o])
<1>1. /\ o \in Orders /\ l \in Nat /\ Len(G[o]) = l + 1
      /\ \A k \in 1 .. l : G[o][k] = F[o][k] /\ F[o][k].seq # s
      /\ \A p \in Orders : p # o => G[p] = F[p]
  BY DEF FillAdded
<1>2. ASSUME NEW r \in R
      PROVE  /\ \E p \in Orders : SideOf[p] = "sell" /\ \E k \in 1 .. Len(G[p]) :
                                    r.fill = Named(p, G[p][k].seq)
             /\ r.fill # Named(o, s)
  <2>1. PICK p \in Orders : SideOf[p] = "sell" /\ \E k \in 1 .. Len(F[p]) :
                              r.fill = Named(p, F[p][k].seq)
    BY DEF OfSells
  <2>2. PICK k \in 1 .. Len(F[p]) : r.fill = Named(p, F[p][k].seq)
    BY <2>1
  <2>3. k \in 1 .. Len(G[p]) /\ G[p][k] = F[p][k]
    <3>1. CASE p = o
      BY <1>1, <3>1
    <3>2. CASE p # o
      BY <1>1, <3>2
    <3> QED BY <3>1, <3>2
  <2>4. r.fill # Named(o, s)
    <3>1. p = o => F[p][k].seq # s
      BY <1>1
    <3> HIDE DEF l
    <3> QED BY <2>2, <3>1 DEF Named
  <2> QED BY <2>1, <2>2, <2>3, <2>4
<1> QED BY <1>2 DEF OfSells, OfFill

\* A part of a set of rows, and one row.
LEMMA PartQuantified ==
  ASSUME NEW S, Quantified(S), NEW T \in SUBSET S
  PROVE  Quantified(T)
BY FS_Subset DEF Quantified

\* Two quantified sets together.
LEMMA UnionQuantified ==
  ASSUME NEW S, NEW T, Quantified(S), Quantified(T) PROVE Quantified(S \cup T)
BY FS_Union DEF Quantified

\* A buy of d by order o for inventory i, before and after its commit.
BuyBooked(L, M, F, G, C, U, o, s, d, i, lot) ==
  /\ L \in [Inventories -> Seq(LotRows)] /\ BooksBalance(L, F, C, U)
  /\ FillAdded(F, G, o, s, d) /\ SideOf[o] = "buy"
  /\ i \in Inventories /\ lot \in LotRows
  /\ M[i] = Append(L[i], lot)
  /\ \A j \in Inventories : j # i => M[j] = L[j]
  /\ lot.order = o /\ lot.seq = s /\ lot.qty = d /\ lot.remainingQty = d

\* A buy's lot and a buy's fill are one more each.
LEMMA BuyBalances ==
  ASSUME NEW L, NEW M, NEW F, NEW G, NEW C, NEW U,
         NEW o, NEW s, NEW d, NEW i, NEW lot,
         BuyBooked(L, M, F, G, C, U, o, s, d, i, lot)
  PROVE  BooksBalance(M, G, C, U)
<1> SUFFICES ASSUME L \in [Inventories -> Seq(LotRows)], BooksBalance(L, F, C, U),
                    FillAdded(F, G, o, s, d), SideOf[o] = "buy",
                    i \in Inventories, lot \in LotRows, M[i] = Append(L[i], lot),
                    \A j \in Inventories : j # i => M[j] = L[j],
                    lot.order = o, lot.seq = s, lot.qty = d, lot.remainingQty = d
             PROVE  BooksBalance(M, G, C, U)
  BY DEF BuyBooked
<1> DEFINE l == Len(L[i])
<1>0. /\ Quantified(C) /\ Quantified(U)
      /\ LotsAreBuys(L, F) /\ AsMany(LotIDs(L), Filled(F, "buy"))
      /\ LotsAddUp(L, C) /\ SellsAddUp(F, C, U)
      /\ OfSells(C, F) /\ OfSells(U, F) /\ OfLots(C, L)
  BY DEF BooksBalance
<1>1. /\ l \in Nat /\ Len(M[i]) = l + 1 /\ M[i][l + 1] = lot
      /\ \A n \in 1 .. l : M[i][n] = L[i][n]
  OBVIOUS
<1>2. o \in Orders /\ \A p \in Orders : p # o => G[p] = F[p]
  BY DEF FillAdded
<1> HIDE DEF l
<1>3. \A n : n \in 1 .. l + 1 <=> n \in 1 .. l \/ n = l + 1
  BY <1>1
<1>4. LotsAreBuys(M, G)
  <2>1. ASSUME NEW j \in Inventories, NEW n \in 1 .. Len(M[j])
        PROVE  HasFill(G, "buy", M[j][n].order, M[j][n].seq, M[j][n].qty)
    <3>1. CASE j = i /\ n = l + 1
      BY <1>1, <3>1, FillAddedHas
    <3>2. CASE ~(j = i /\ n = l + 1)
      <4>1. n \in 1 .. Len(L[j]) /\ M[j][n] = L[j][n]
        BY <1>1, <1>3, <3>2 DEF l
      <4>2. HasFill(F, "buy", M[j][n].order, M[j][n].seq, M[j][n].qty)
        BY <1>0, <4>1 DEF LotsAreBuys
      <4> QED BY <4>2, FillAddedHas
    <3> QED BY <3>1, <3>2
  <2>2. ASSUME NEW p \in Orders, SideOf[p] = "buy", NEW k \in 1 .. Len(G[p])
        PROVE  \E j \in Inventories : \E n \in 1 .. Len(M[j]) :
                 /\ M[j][n].order = p
                 /\ M[j][n].seq = G[p][k].seq /\ M[j][n].qty = G[p][k].qty
    <3>1. HasFill(G, "buy", p, G[p][k].seq, G[p][k].qty)
      BY <2>2 DEF HasFill
    <3>2. CASE p = o /\ G[p][k].seq = s /\ G[p][k].qty = d
      <4>1. l + 1 \in 1 .. Len(M[i])
        BY <1>1
      <4> QED BY <1>1, <3>2, <4>1
    <3>3. CASE HasFill(F, "buy", p, G[p][k].seq, G[p][k].qty)
      <4>1. PICK m \in 1 .. Len(F[p]) : /\ F[p][m].seq = G[p][k].seq
                                        /\ F[p][m].qty = G[p][k].qty
        BY <3>3 DEF HasFill
      <4>2. PICK j \in Inventories : \E n \in 1 .. Len(L[j]) :
              /\ L[j][n].order = p
              /\ L[j][n].seq = G[p][k].seq /\ L[j][n].qty = G[p][k].qty
        BY <1>0, <2>2, <4>1 DEF LotsAreBuys
      <4>3. PICK n \in 1 .. Len(L[j]) :
              /\ L[j][n].order = p
              /\ L[j][n].seq = G[p][k].seq /\ L[j][n].qty = G[p][k].qty
        BY <4>2
      <4>4. n \in 1 .. Len(M[j]) /\ M[j][n] = L[j][n]
        BY <1>1, <1>3 DEF l
      <4> QED BY <4>3, <4>4
    <3>4. \/ HasFill(F, "buy", p, G[p][k].seq, G[p][k].qty)
          \/ p = o /\ G[p][k].seq = s /\ G[p][k].qty = d
      BY ONLY FillAdded(F, G, o, s, d), <3>1, FillAddedHas
    <3> QED BY ONLY <3>2, <3>3, <3>4
  <2> QED BY <2>1, <2>2 DEF LotsAreBuys
<1>5. AsMany(LotIDs(M), Filled(G, "buy"))
  <2>1. LotIDs(M) = LotIDs(L) \cup {<<i, l + 1>>}
    <3>1. ASSUME NEW x \in LotIDs(M) PROVE x \in LotIDs(L) \/ x = <<i, l + 1>>
      <4>1. PICK j \in Inventories : \E n \in 1 .. Len(M[j]) : x = <<j, n>>
        BY DEF LotIDs
      <4>2. PICK n \in 1 .. Len(M[j]) : x = <<j, n>>
        BY <4>1
      <4>3. CASE j = i /\ n = l + 1
        BY <4>2, <4>3
      <4>4. CASE ~(j = i /\ n = l + 1)
        <5>1. n \in 1 .. Len(L[j])
          BY <1>1, <1>3, <4>4 DEF l
        <5> QED BY <4>2, <5>1 DEF LotIDs
      <4> QED BY <4>3, <4>4
    <3>2. ASSUME NEW x \in LotIDs(L) PROVE x \in LotIDs(M)
      <4>1. PICK j \in Inventories : \E n \in 1 .. Len(L[j]) : x = <<j, n>>
        BY DEF LotIDs
      <4>2. PICK n \in 1 .. Len(L[j]) : x = <<j, n>>
        BY <4>1
      <4>3. n \in 1 .. Len(M[j])
        BY <1>1, <1>3 DEF l
      <4> QED BY <4>2, <4>3 DEF LotIDs
    <3>3. <<i, l + 1>> \in LotIDs(M)
      <4>1. l + 1 \in 1 .. Len(M[i])
        BY <1>1
      <4> QED BY <4>1 DEF LotIDs
    <3> QED BY <3>1, <3>2, <3>3
  <2>2. <<i, l + 1>> \notin LotIDs(L)
    <3>1. l + 1 \notin 1 .. Len(L[i])
      BY <1>1 DEF l
    <3> QED BY <3>1 DEF LotIDs
  <2>3. /\ Filled(G, "buy") = Filled(F, "buy") \cup {<<o, s, d>>}
        /\ <<o, s, d>> \notin Filled(F, "buy")
    <3>1. /\ \A f : (f \in Filled(G, "buy")) <=>
                      (f \in Filled(F, "buy")
                         \/ (f = <<o, s, d>> /\ SideOf[o] = "buy"))
          /\ <<o, s, d>> \notin Filled(F, "buy")
      BY FillAddedFilled
    <3> QED BY <3>1
  <2>4. ASSUME NEW A, NEW x, IsFiniteSet(A), x \notin A
        PROVE  /\ IsFiniteSet(A \cup {x})
               /\ Cardinality(A \cup {x}) = Cardinality(A) + 1
    BY <2>4, FS_AddElement
  <2>5. /\ IsFiniteSet(LotIDs(M)) /\ Cardinality(LotIDs(M)) = Cardinality(LotIDs(L)) + 1
    BY ONLY <1>0, <2>1, <2>2, <2>4 DEF AsMany
  <2>6. /\ IsFiniteSet(Filled(G, "buy"))
        /\ Cardinality(Filled(G, "buy")) = Cardinality(Filled(F, "buy")) + 1
    BY ONLY <1>0, <2>3, <2>4 DEF AsMany
  <2> QED BY ONLY <1>0, <2>5, <2>6 DEF AsMany
<1>6. LotsAddUp(M, C)
  <2> SUFFICES ASSUME NEW j \in Inventories, NEW n \in 1 .. Len(M[j])
               PROVE  M[j][n].qty = M[j][n].remainingQty + Total(OfLot(C, j, n))
    BY DEF LotsAddUp
  <2>1. CASE j = i /\ n = l + 1
    <3>1. OfLot(C, j, n) = {}
      <4> SUFFICES ASSUME NEW c \in C, c.inventory = i, c.lot = l + 1 PROVE FALSE
        BY <2>1 DEF OfLot
      <4>1. l + 1 \in 1 .. l
        BY <1>0 DEF OfLots, l
      <4> QED BY <1>1, <4>1
    <3>2. M[j][n].qty = d /\ M[j][n].remainingQty = d /\ d \in Nat
      BY <1>1, <2>1 DEF FillAdded
    <3>3. Total(OfLot(C, j, n)) = 0
      BY <3>1, TotalEmpty
    <3> QED BY <3>2, <3>3
  <2>2. CASE ~(j = i /\ n = l + 1)
    <3>1. n \in 1 .. Len(L[j]) /\ M[j][n] = L[j][n]
      BY <1>1, <1>3, <2>2 DEF l
    <3> QED BY <1>0, <3>1 DEF LotsAddUp
  <2> QED BY <2>1, <2>2
<1>7. SellsAddUp(G, C, U)
  <2>1. \A p \in Orders : SideOf[p] = "sell" => G[p] = F[p]
    BY <1>2
  <2> QED BY <1>0, <2>1 DEF SellsAddUp
<1>8. OfSells(C, G) /\ OfSells(U, G)
  BY <1>0, FillAddedOfSells
<1>9. OfLots(C, M)
  <2> SUFFICES ASSUME NEW c \in C
               PROVE  c.inventory \in Inventories /\ c.lot \in 1 .. Len(M[c.inventory])
    BY DEF OfLots
  <2>1. c.inventory \in Inventories /\ c.lot \in 1 .. Len(L[c.inventory])
    BY <1>0 DEF OfLots
  <2>2. CASE c.inventory = i
    BY <1>1, <1>3, <2>1, <2>2 DEF l
  <2>3. CASE c.inventory # i
    BY <2>1, <2>3
  <2> QED BY <2>2, <2>3
<1> QED BY <1>0, <1>4, <1>5, <1>6, <1>7, <1>8, <1>9 DEF BooksBalance

\* Lots lose what the closures of a sale take, and the closures tell it.
LEMMA SaleAddsUp ==
  ASSUME NEW L \in [Inventories -> Seq(LotRows)], NEW M, NEW C,
         Quantified(C), LotsAddUp(L, C), NEW i \in Inventories, NEW name,
         NEW alloc, NEW d, Sells(L[i], alloc, d), Taken(L[i], M[i], alloc.closures),
         \A j \in Inventories : j # i => M[j] = L[j],
         OfFill(C, name) = {}
  PROVE  LotsAddUp(M, C \cup ClosureRows(i, name, alloc.closures))
<1> DEFINE cl == alloc.closures
           N == ClosureRows(i, name, cl)
           D == C \cup N
<1>1. /\ Len(M[i]) = Len(L[i])
      /\ \A n \in 1 .. Len(L[i]) :
           /\ M[i][n] = [L[i][n] EXCEPT !.remainingQty = M[i][n].remainingQty]
           /\ (\A k \in 1 .. Len(cl) : cl[k].lot # n) => M[i][n] = L[i][n]
      /\ \A k \in 1 .. Len(cl) :
           M[i][cl[k].lot].remainingQty = L[i][cl[k].lot].remainingQty - cl[k].qty
  BY DEF Taken
<1>2. /\ \A k \in 1 .. Len(cl) : /\ cl[k].lot \in 1 .. Len(L[i]) /\ cl[k].qty \in Nat
                                 /\ cl[k].qty <= L[i][cl[k].lot].remainingQty
      /\ \A k, l \in 1 .. Len(cl) : cl[k].lot = cl[l].lot => k = l
  <2>1. cl \in Seq(Bookings)
    BY DEF Sells
  <2>2. \A k \in 1 .. Len(cl) : cl[k] \in Bookings
    BY <2>1
  <2>3. \A k \in 1 .. Len(cl) : cl[k].qty \in Nat
    BY <2>2 DEF Bookings
  <2> QED BY <2>3 DEF Sells
<1> SUFFICES ASSUME NEW j \in Inventories, NEW n \in 1 .. Len(M[j])
             PROVE  M[j][n].qty = M[j][n].remainingQty + Total(OfLot(D, j, n))
  BY DEF LotsAddUp
<1>3. n \in 1 .. Len(L[j])
  BY <1>1
<1>4. L[j][n].qty = L[j][n].remainingQty + Total(OfLot(C, j, n))
  BY <1>3 DEF LotsAddUp
<1>5. ASSUME NEW r \in N
      PROVE  \E k \in 1 .. Len(cl) :
               /\ r = ClosureRow(i, name, cl[k]) /\ r.inventory = i
               /\ r.lot = cl[k].lot /\ r.fill = name /\ r.qty = cl[k].qty
  <2>1. PICK k \in 1 .. Len(cl) : r = ClosureRow(i, name, cl[k])
    BY DEF ClosureRows
  <2>2. /\ r.inventory = i /\ r.lot = cl[k].lot /\ r.fill = name
        /\ r.qty = cl[k].qty
    BY ONLY <2>1 DEF ClosureRow
  <2> QED BY <2>1, <2>2
<1>6. CASE j = i /\ \E k \in 1 .. Len(cl) : cl[k].lot = n
  <2>1. PICK k \in 1 .. Len(cl) : cl[k].lot = n
    BY <1>6
  <2> DEFINE r == ClosureRow(i, name, cl[k])
             S == OfLot(C, j, n)
  <2>2. r \in N /\ r.inventory = i /\ r.lot = n /\ r.fill = name /\ r.qty = cl[k].qty
    BY <2>1 DEF ClosureRows, ClosureRow
  <2>3. \A x \in N : x.lot = n => x = r
    BY <1>2, <1>5, <2>1
  <2>4. r \notin C
    BY <2>2 DEF OfFill
  <2> HIDE DEF r, N
  <2>5. OfLot(D, j, n) = S \cup {r} /\ r \notin S
    BY <1>6, <2>2, <2>3, <2>4 DEF OfLot, N
  <2>6. Quantified(S)
    <3>1. S \in SUBSET C
      BY DEF OfLot
    <3> QED BY ONLY <3>1, Quantified(C), PartQuantified
  <2> HIDE DEF S
  <2>7. Total(S) \in Nat /\ Total(S \cup {r}) = Total(S) + cl[k].qty
    <3>1. r.qty \in Nat /\ r.qty = cl[k].qty
      BY <1>2, <2>2
    <3>2. Total(S) \in Nat /\ Total(S \cup {r}) = Total(S) + r.qty
      BY ONLY <2>5, <2>6, <3>1, TotalAdd
    <3> QED BY <3>1, <3>2
  <2>8. M[i][n].remainingQty = L[i][n].remainingQty - cl[k].qty
    BY <1>1, <2>1
  <2>9. L[i] \in Seq(LotRows)
    OBVIOUS
  <2>10. L[i][n] \in LotRows
    BY <1>3, <1>6, <2>9
  <2>11. M[i][n].qty = L[i][n].qty /\ L[i][n].remainingQty \in Nat
    <3>1. PICK x : M[i][n] = [L[i][n] EXCEPT !.remainingQty = x]
      BY <1>1, <1>3, <1>6
    <3>2. \A l \in LotRows : \A y : [l EXCEPT !.remainingQty = y].qty = l.qty
      BY DEF LotRows
    <3>3. L[i][n].remainingQty \in Nat
      BY <2>10 DEF LotRows
    <3> QED BY ONLY <2>10, <3>1, <3>2, <3>3
  <2>12. cl[k].qty \in Nat
    BY <1>2
  <2>13. L[i][n].qty = L[i][n].remainingQty + Total(S)
    BY <1>4, <1>6 DEF S
  <2>14. L[i][n].remainingQty + Total(S)
           = (L[i][n].remainingQty - cl[k].qty) + (Total(S) + cl[k].qty)
    <3>1. \A a, b, c \in Nat : a + b = (a - c) + (b + c)
      OBVIOUS
    <3> QED BY ONLY <2>7, <2>11, <2>12, <3>1, Zenon
  <2> QED BY <1>6, <2>5, <2>7, <2>8, <2>11, <2>13, <2>14
<1>7. CASE ~(j = i /\ \E k \in 1 .. Len(cl) : cl[k].lot = n)
  <2>1. M[j][n] = L[j][n]
    BY <1>1, <1>3, <1>7
  <2>2. \A x \in N : ~(x.inventory = j /\ x.lot = n)
    BY <1>5, <1>7
  <2> HIDE DEF N
  <2>3. OfLot(D, j, n) = OfLot(C, j, n)
    BY <2>2 DEF OfLot, N
  <2> QED BY <1>4, <2>1, <2>3
<1> QED BY <1>6, <1>7

\* A sell of d by order o from inventory i, before and after its commit.
SellBooked(L, M, F, G, C, D, U, V, o, s, d, i, alloc) ==
  /\ L \in [Inventories -> Seq(LotRows)] /\ BooksBalance(L, F, C, U)
  /\ FillAdded(F, G, o, s, d) /\ SideOf[o] = "sell"
  /\ i \in Inventories /\ Sells(L[i], alloc, d)
  /\ Taken(L[i], M[i], alloc.closures)
  /\ \A j \in Inventories : j # i => M[j] = L[j]
  /\ D = C \cup ClosureRows(i, Named(o, s), alloc.closures)
  /\ V = IF alloc.unmatched > 0
         THEN U \cup {[fill |-> Named(o, s), qty |-> alloc.unmatched]} ELSE U

\* A sell's fill is its closures and its remainder; the other sells' rows stay.
LEMMA SaleBalances ==
  ASSUME NEW L, NEW M, NEW F, NEW G, NEW C, NEW D, NEW U, NEW V,
         NEW o, NEW s, NEW d, NEW i, NEW alloc,
         SellBooked(L, M, F, G, C, D, U, V, o, s, d, i, alloc)
  PROVE  BooksBalance(M, G, D, V)
<1>a. /\ L \in [Inventories -> Seq(LotRows)] /\ BooksBalance(L, F, C, U)
      /\ FillAdded(F, G, o, s, d) /\ SideOf[o] = "sell"
      /\ i \in Inventories /\ Sells(L[i], alloc, d)
      /\ Taken(L[i], M[i], alloc.closures)
      /\ \A j \in Inventories : j # i => M[j] = L[j]
      /\ D = C \cup ClosureRows(i, Named(o, s), alloc.closures)
      /\ V = IF alloc.unmatched > 0
             THEN U \cup {[fill |-> Named(o, s), qty |-> alloc.unmatched]} ELSE U
  BY DEF SellBooked
<1> DEFINE name == Named(o, s)
           cl == alloc.closures
           N == ClosureRows(i, name, cl)
           rest == alloc.unmatched
           u == [fill |-> name, qty |-> rest]
           W == IF rest > 0 THEN {u} ELSE {}
<1>0. /\ Quantified(C) /\ Quantified(U)
      /\ LotsAreBuys(L, F) /\ AsMany(LotIDs(L), Filled(F, "buy"))
      /\ LotsAddUp(L, C) /\ SellsAddUp(F, C, U)
      /\ OfSells(C, F) /\ OfSells(U, F) /\ OfLots(C, L)
  BY <1>a DEF BooksBalance
<1>1. /\ o \in Orders /\ \A p \in Orders : p # o => G[p] = F[p]
      /\ Len(F[o]) \in Nat /\ Len(G[o]) = Len(F[o]) + 1
      /\ \A k \in 1 .. Len(F[o]) : G[o][k] = F[o][k] /\ F[o][k].seq # s
      /\ G[o][Len(F[o]) + 1].seq = s /\ G[o][Len(F[o]) + 1].qty = d
  BY <1>a DEF FillAdded
<1>2. /\ rest \in Nat /\ Quantified(N) /\ Total(N) + rest = d
  BY <1>a DEF Sells, AccountsFor
<1>3. /\ OfSells(C, G) /\ OfFill(C, name) = {}
      /\ OfSells(U, G) /\ OfFill(U, name) = {}
  BY <1>0, <1>a, FillAddedOfSells
<1>4. V = U \cup W /\ Quantified(W) /\ Total(W) = rest /\ \A r \in W : r.fill = name
  <2>1. u.qty = rest /\ u.fill = name
    OBVIOUS
  <2>2. Total({u}) = rest /\ Quantified({u})
    <3> HIDE DEF u
    <3> QED BY <1>2, <2>1, TotalOne
  <2> HIDE DEF u
  <2>3. rest = 0 \/ rest > 0
    BY <1>2
  <2> QED BY <1>a, <2>1, <2>2, <2>3, TotalEmpty DEF u
<1>5. \A r \in N : r.fill = name /\ r.inventory = i /\ r.lot \in 1 .. Len(L[i])
  BY <1>a DEF ClosureRows, ClosureRow, Sells
<1>6. D = C \cup N
  BY <1>a
<1>7. /\ Len(M[i]) = Len(L[i])
      /\ \A n \in 1 .. Len(L[i]) :
           M[i][n] = [L[i][n] EXCEPT !.remainingQty = M[i][n].remainingQty]
  BY <1>a DEF Taken
<1>8. \A j \in Inventories : /\ Len(M[j]) = Len(L[j])
                             /\ \A n \in 1 .. Len(L[j]) : /\ M[j][n].order = L[j][n].order
                                                          /\ M[j][n].seq = L[j][n].seq
                                                          /\ M[j][n].qty = L[j][n].qty
  <2>1. \A l \in LotRows : \A x :
          /\ [l EXCEPT !.remainingQty = x].order = l.order
          /\ [l EXCEPT !.remainingQty = x].seq = l.seq
          /\ [l EXCEPT !.remainingQty = x].qty = l.qty
    BY DEF LotRows
  <2>2. \A n \in 1 .. Len(L[i]) : L[i][n] \in LotRows
    <3>1. L[i] \in Seq(LotRows)
      BY <1>a
    <3> QED BY <3>1
  <2>3. ASSUME NEW n \in 1 .. Len(L[i])
        PROVE  /\ M[i][n].order = L[i][n].order /\ M[i][n].seq = L[i][n].seq
               /\ M[i][n].qty = L[i][n].qty
    <3>1. PICK x : M[i][n] = [L[i][n] EXCEPT !.remainingQty = x]
      BY <1>7
    <3> QED BY ONLY <2>1, <2>2, <3>1
  <2> QED BY <1>a, <1>7, <2>3
<1>9. \A p \in Orders : SideOf[p] = "buy" => G[p] = F[p]
  BY <1>a, <1>1
<1>10. Quantified(D) /\ Quantified(V)
  <2> HIDE DEF W, N
  <2> QED BY ONLY <1>0, <1>2, <1>4, <1>6, UnionQuantified
<1>11. LotsAreBuys(M, G)
  <2>1. \A p, t, q : HasFill(G, "buy", p, t, q) <=> HasFill(F, "buy", p, t, q)
    BY <1>9 DEF HasFill
  <2>2. ASSUME NEW j \in Inventories, NEW n \in 1 .. Len(M[j])
        PROVE  HasFill(G, "buy", M[j][n].order, M[j][n].seq, M[j][n].qty)
    <3>1. n \in 1 .. Len(L[j])
      BY <1>8
    <3>2. HasFill(F, "buy", L[j][n].order, L[j][n].seq, L[j][n].qty)
      BY <1>0, <3>1 DEF LotsAreBuys
    <3> QED BY <1>8, <2>1, <3>1, <3>2
  <2>3. ASSUME NEW p \in Orders, SideOf[p] = "buy", NEW k \in 1 .. Len(G[p])
        PROVE  \E j \in Inventories : \E n \in 1 .. Len(M[j]) :
                 /\ M[j][n].order = p
                 /\ M[j][n].seq = G[p][k].seq /\ M[j][n].qty = G[p][k].qty
    <3>1. G[p] = F[p]
      BY <1>9, <2>3
    <3>2. PICK j \in Inventories : \E n \in 1 .. Len(L[j]) :
            /\ L[j][n].order = p
            /\ L[j][n].seq = F[p][k].seq /\ L[j][n].qty = F[p][k].qty
      BY <1>0, <2>3, <3>1 DEF LotsAreBuys
    <3> QED BY ONLY <1>8, <3>1, <3>2, j \in Inventories
  <2> QED BY <2>2, <2>3 DEF LotsAreBuys
<1>12. AsMany(LotIDs(M), Filled(G, "buy"))
  <2>1. LotIDs(M) = LotIDs(L)
    BY <1>8 DEF LotIDs
  <2>2. Filled(G, "buy") = Filled(F, "buy")
    <3>1. \A f : (f \in Filled(G, "buy")) <=>
                  (f \in Filled(F, "buy")
                     \/ (f = <<o, s, d>> /\ SideOf[o] = "buy"))
      BY <1>a, FillAddedFilled
    <3>2. SideOf[o] # "buy"
      BY <1>a
    <3> QED BY ONLY <3>1, <3>2
  <2> QED BY ONLY <1>0, <2>1, <2>2
<1>13. LotsAddUp(M, D)
  <2>1. LotsAddUp(M, C \cup ClosureRows(i, name, alloc.closures))
    <3> HIDE DEF name
    <3> QED BY ONLY <1>0, <1>3, <1>a, SaleAddsUp
  <2> QED BY <1>a, <2>1
<1>14. OfSells(D, G) /\ OfSells(V, G)
  <2>1. Len(F[o]) + 1 \in 1 .. Len(G[o]) /\ name = Named(o, G[o][Len(F[o]) + 1].seq)
    BY <1>1
  <2>2. \A r \in N \cup W : \E p \in Orders :
          SideOf[p] = "sell" /\ \E k \in 1 .. Len(G[p]) : r.fill = Named(p, G[p][k].seq)
    <3> HIDE DEF N, W, name
    <3> QED BY <1>a, <1>1, <1>4, <1>5, <2>1
  <2> HIDE DEF N, W, name
  <2> QED BY ONLY <1>3, <1>4, <1>6, <2>2 DEF OfSells
<1>15. OfLots(D, M)
  <2> HIDE DEF N
  <2> QED BY <1>0, <1>a, <1>5, <1>6, <1>8 DEF OfLots
<1>16. SellsAddUp(G, D, V)
  <2> SUFFICES ASSUME NEW p \in Orders, SideOf[p] = "sell", NEW k \in 1 .. Len(G[p])
               PROVE  Total(OfFill(D, Named(p, G[p][k].seq)))
                        + Total(OfFill(V, Named(p, G[p][k].seq))) = G[p][k].qty
    BY DEF SellsAddUp
  <2>1. CASE p = o /\ k = Len(F[o]) + 1
    <3>1. Named(p, G[p][k].seq) = name /\ G[p][k].qty = d
      BY <1>1, <2>1
    <3> HIDE DEF N, W, name
    <3>2. OfFill(D, name) = N /\ OfFill(V, name) = W
      BY <1>3, <1>4, <1>5, <1>6 DEF OfFill
    <3> QED BY <1>2, <1>4, <3>1, <3>2
  <2>2. CASE ~(p = o /\ k = Len(F[o]) + 1)
    <3>1. k \in 1 .. Len(F[p]) /\ G[p][k] = F[p][k] /\ (p = o => F[p][k].seq # s)
      <4>1. CASE p = o
        BY <1>1, <2>2, <4>1
      <4>2. CASE p # o
        BY <1>1, <4>2
      <4> QED BY <4>1, <4>2
    <3> DEFINE other == Named(p, F[p][k].seq)
    <3>2. other # name
      BY <3>1 DEF Named
    <3>3. Total(OfFill(C, other)) + Total(OfFill(U, other)) = F[p][k].qty
      BY <1>0, <3>1 DEF SellsAddUp
    <3> HIDE DEF N, W, name, other
    <3>4. OfFill(D, other) = OfFill(C, other) /\ OfFill(V, other) = OfFill(U, other)
      BY <1>4, <1>5, <1>6, <3>2 DEF OfFill
    <3> QED BY <3>1, <3>3, <3>4 DEF other
  <2> QED BY <2>1, <2>2
<1> QED BY <1>3, <1>10, <1>11, <1>12, <1>13, <1>14, <1>15, <1>16 DEF BooksBalance

\* A commit with a fill adds one row to its order's fills, under a seq no other
\* fill of the order has.
LEMMA CommitAddsFill ==
  ASSUME IndInv, FillsInv, NEW w \in Workers, Commit(w)
  PROVE  LET o == call[w].order
             d == DecisionOf(w).fillDelta
         IN  /\ d = 0 => fills' = fills
             /\ d > 0 => FillAdded(fills, fills', o, Len(transitions[o]) + 1, d)
<1>1. PICK o \in Orders, d \in Nat : /\ o = call[w].order
                                     /\ d = DecisionOf(w).fillDelta
  BY CommitAppends
<1>2. PICK n \in Nat, l \in Nat : n = Len(transitions[o]) /\ l = Len(fills[o])
  <2>1. transitions[o] \in Seq(TransitionRows) /\ fills[o] \in Seq(FillRows)
    BY <1>1, CommitAppends
  <2>2. Len(transitions[o]) \in Nat /\ Len(fills[o]) \in Nat
    BY <2>1
  <2> QED BY <2>2
<1>3. /\ fills[o] \in Seq(FillRows) /\ FillRow(w) \in Seq(FillRows)
      /\ fills'[o] = fills[o] \o FillRow(w)
  BY <1>1, CommitAppends
<1>4. /\ \A p \in Orders : p # o => fills'[p] = fills[p]
      /\ fills' = [fills EXCEPT ![o] = fills'[o]]
      /\ DOMAIN fills = Orders
      /\ fills = [fills EXCEPT ![o] = fills[o]]
  BY <1>1 DEF Commit, IndInv, TypeOK
<1>5. CASE d = 0
  <2>1. FillRow(w) = <<>>
    BY <1>1, <1>5 DEF FillRow
  <2>2. fills'[o] = fills[o]
    BY <1>3, <2>1
  <2>3. fills' = fills
    BY <1>4, <2>2
  <2> QED BY <1>1, <1>5, <2>3
<1>6. CASE d > 0
  <2>1. PICK f : FillRow(w) = <<f>> /\ f.seq = n + 1 /\ f.qty = d
    <3> DEFINE id == call[w].ev.venueFillID
               conflict == \E i \in 1 .. Len(fills[o]) :
                             fills[o][i].venueFillID = id
    <3>1. FillRow(w) = <<[seq |-> n + 1, qty |-> d,
                          venueFillID |-> IF conflict THEN None ELSE id]>>
      BY <1>1, <1>2, <1>6 DEF FillRow
    <3> QED BY <3>1
  <2>2. fills'[o] = fills[o] \o <<f>>
    BY <1>3, <2>1
  <2>3. /\ Len(fills'[o]) = l + 1 /\ fills'[o][l + 1] = f
        /\ \A k \in 1 .. l : fills'[o][k] = fills[o][k]
    BY <1>2, <1>3, <2>2
  <2>4. \A k \in 1 .. l : fills[o][k].seq # n + 1
    BY <1>2 DEF FillsInv, FillsMatch
  <2>5. FillAdded(fills, fills', o, n + 1, d)
    BY <1>2, <1>4, <2>1, <2>3, <2>4 DEF FillAdded
  <2> QED BY <1>1, <1>2, <1>6, <2>5
<1> QED BY <1>5, <1>6

\* Commit keeps the books balanced.
LEMMA CommitBalances ==
  ASSUME IndInv, FillsInv, PostInv, LedgerInv, NEW w \in Workers, Commit(w)
  PROVE  LedgerInv'
<1>1. PICK o, i, d, name : BooksFill(w, o, i, d, name)
  BY CommitBooks
<1>2. /\ o = call[w].order /\ d = DecisionOf(w).fillDelta /\ d \in Nat
      /\ i \in Inventories /\ SideOf[o] \in {"buy", "sell"}
      /\ \A j \in Inventories : j # i => lots'[j] = lots[j]
      /\ name = Named(o, Len(transitions[o]) + 1)
      /\ name.seq = Len(transitions[o]) + 1
  BY <1>1 DEF BooksFill, Named
<1>3. /\ d = 0 => fills' = fills
      /\ d > 0 => FillAdded(fills, fills', o, name.seq, d)
  BY <1>2, CommitAddsFill
<1>4. /\ lots \in [Inventories -> Seq(LotRows)]
      /\ BooksBalance(lots, fills, closures, unmatched)
  BY DEF PostInv, LedgerInv
<1>5. CASE d = 0
  <2>1. UNCHANGED <<lots, closures, unmatched, fills>>
    BY <1>1, <1>3, <1>5 DEF BooksFill
  <2> QED BY <1>4, <2>1 DEF LedgerInv
<1>6. CASE d > 0 /\ SideOf[o] = "buy"
  <2>1. /\ NewLot(w) \in LotRows
        /\ NewLot(w).order = o /\ NewLot(w).seq = name.seq
        /\ NewLot(w).qty = d /\ NewLot(w).remainingQty = d
        /\ lots'[i] = Append(lots[i], NewLot(w))
        /\ UNCHANGED <<closures, unmatched>>
    BY <1>1, <1>6 DEF BooksFill
  <2>2. BuyBooked(lots, lots', fills, fills', closures, unmatched,
                  o, name.seq, d, i, NewLot(w))
    BY <1>2, <1>3, <1>4, <1>6, <2>1 DEF BuyBooked
  <2>3. BooksBalance(lots', fills', closures, unmatched)
    BY ONLY <2>2, BuyBalances
  <2> QED BY <2>1, <2>3 DEF LedgerInv
<1>7. CASE d > 0 /\ SideOf[o] = "sell"
  <2>1. /\ Sells(lots[i], Sale(w), d)
        /\ lots'[i] = Decremented(lots[i], Sale(w).closures)
        /\ closures' = closures \cup ClosureRows(i, name, Sale(w).closures)
        /\ unmatched' = IF Sale(w).unmatched > 0
                        THEN unmatched \cup {[fill |-> name,
                                              qty |-> Sale(w).unmatched]}
                        ELSE unmatched
    BY <1>1, <1>7 DEF BooksFill
  <2>2. Taken(lots[i], lots'[i], Sale(w).closures)
    BY <1>2, <1>4, <2>1, SaleDecrements
  <2>3. SellBooked(lots, lots', fills, fills', closures, closures', unmatched,
                   unmatched', o, name.seq, d, i, Sale(w))
    BY <1>2, <1>3, <1>4, <1>7, <2>1, <2>2 DEF SellBooked
  <2>4. BooksBalance(lots', fills', closures', unmatched')
    BY ONLY <2>3, SaleBalances
  <2> QED BY <2>4 DEF LedgerInv
<1> QED BY <1>2, <1>5, <1>6, <1>7

\* Empty books balance.
LEMMA InitLedger == Init => LedgerInv
<1> SUFFICES ASSUME Init PROVE LedgerInv
  OBVIOUS
<1>1. /\ \A i \in Inventories : lots[i] = <<>>
      /\ \A o \in Orders : fills[o] = <<>>
      /\ closures = {} /\ unmatched = {}
  BY DEF Init
<1>2. LotIDs(lots) = {} /\ Filled(fills, "buy") = {}
  BY <1>1 DEF LotIDs, Filled
<1>3. AsMany(LotIDs(lots), Filled(fills, "buy"))
  BY <1>2, FS_EmptySet DEF AsMany
<1>4. Quantified(closures) /\ Quantified(unmatched)
  BY <1>1, TotalEmpty
<1>5. LotsAreBuys(lots, fills) /\ LotsAddUp(lots, closures)
  BY <1>1 DEF LotsAreBuys, LotsAddUp
<1>6. /\ SellsAddUp(fills, closures, unmatched) /\ OfSells(closures, fills)
      /\ OfSells(unmatched, fills) /\ OfLots(closures, lots)
  BY <1>1 DEF SellsAddUp, OfSells, OfLots
<1> QED BY <1>3, <1>4, <1>5, <1>6 DEF LedgerInv, BooksBalance

\* Every step keeps the books balanced.
LEMMA NextLedger ==
  IndInv /\ FillsInv /\ PostInv /\ LedgerInv /\ [Next]_vars => LedgerInv'
<1> SUFFICES ASSUME IndInv, FillsInv, PostInv, LedgerInv, [Next]_vars PROVE LedgerInv'
  OBVIOUS
<1>1. CASE \E w \in Workers : Commit(w)
  BY <1>1, CommitBalances
<1>2. CASE ~\E w \in Workers : Commit(w)
  <2>1. UNCHANGED <<lots, fills, closures, unmatched>>
    BY <1>2 DEF Next, Step, CreatePending, MarkCancelRequested, Begin,
       OrderNotFound, LockOrder, AdoptVenueOrderID, InsertTransition,
       LockInventory, OpenLot, CloseLots, InsertEventOutbox, Abort, vars,
       orderVars, ledgerVars
  <2> QED BY <2>1 DEF LedgerInv
<1> QED BY <1>1, <1>2

\* The ledger accounts for every executed unit exactly once, for any number of
\* orders, inventories and concurrent transactions: every buy fill is one lot,
\* what a lot lost was closed, and a sell is its closures and its remainder.
THEOREM LedgerHolds == Spec => []LedgerConserved
<1>1. Init => FillsInv
  BY DEF Init, FillsInv, FillsMatch
<1> QED BY <1>1, NextFills, Invariance, InitOutbox, NextOutbox, InitPost, NextPost,
        InitLedger, NextLedger, BalanceConserves, PTL DEF Spec

================================================================================
