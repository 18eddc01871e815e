--------------------------- MODULE OrderEvents_proofs ---------------------------
(***************************************************************************)
(* Proofs about the delivery of one order's reports, for every quantity of *)
(* the order and every sequence of deliveries.                             *)
(***************************************************************************)
EXTENDS OrderEvents, OrderMachine_proofs

\* What makes the properties inductive: reports never claim more than the
\* venue has reached, and a report of the venue's rank has its status.
ReportsAreTrue ==
  \A ev \in reports : /\ Rank(ev.status) <= Rank(venue.status)
                      /\ Rank(ev.status) = Rank(venue.status)
                           => ev.status = venue.status
                      /\ ev.filledQty <= venue.filledQty

IndInv == TypeOK /\ ReportsAreTrue /\ OrderIndependent

\* A report of the venue is a state of the order machine.
LEMMA ReportIsState ==
  ASSUME NEW r \in Report
  PROVE  /\ r \in State
         /\ r.status \in Status
         /\ r.filledQty \in 0 .. Qty /\ r.filledQty \in Nat
BY QtyAssumption DEF Report, State

\* Nothing has been reported or applied.
LEMMA InitIndInv == Init => IndInv
<1> SUFFICES ASSUME Init PROVE IndInv
  OBVIOUS
<1>1. TypeOK
  BY QtyAssumption DEF Init, TypeOK, Report, Status
<1> QED BY <1>1 DEF Init, IndInv, ReportsAreTrue, OrderIndependent

\* Every move, report and delivery preserves the invariant.
LEMMA NextIndInv == IndInv /\ [Next]_vars => IndInv'
<1> SUFFICES ASSUME IndInv, [Next]_vars PROVE IndInv'
  OBVIOUS
<1> USE DEF IndInv
<1>0. /\ venue.status \in Status /\ venue.filledQty \in Nat
      /\ local.status \in Status /\ local.filledQty \in Nat
  BY ReportIsState DEF TypeOK
<1>1. CASE VenueStep
  <2>1. PICK next \in Report :
          /\ ~Terminal(venue.status)
          /\ Rank(next.status) >= Rank(venue.status)
          /\ next.filledQty >= venue.filledQty
          /\ venue' = next
    BY <1>1 DEF VenueStep
  <2>2. UNCHANGED <<reports, delivered, local>>
    BY <1>1 DEF VenueStep
  <2>3. TypeOK' /\ OrderIndependent'
    BY <2>1, <2>2 DEF TypeOK, OrderIndependent
  <2>4. ReportsAreTrue'
    <3> SUFFICES ASSUME NEW ev \in reports
                 PROVE  /\ Rank(ev.status) <= Rank(next.status)
                        /\ Rank(ev.status) = Rank(next.status)
                             => ev.status = next.status
                        /\ ev.filledQty <= next.filledQty
      BY <2>1, <2>2 DEF ReportsAreTrue
    <3>1. /\ ev.status \in Status /\ ev.filledQty \in Nat
          /\ next.status \in Status /\ next.filledQty \in Nat
      BY ReportIsState DEF TypeOK
    <3>2. /\ Rank(ev.status) <= Rank(venue.status)
          /\ ev.filledQty <= venue.filledQty
      BY DEF ReportsAreTrue
    <3>3. /\ Rank(ev.status) \in 0 .. 3 /\ Rank(next.status) \in 0 .. 3
          /\ Rank(venue.status) \in 0 .. 2
      BY <1>0, <2>1, <3>1, RankType DEF Terminal, TerminalRank
    <3>4. Rank(ev.status) = Rank(next.status) => ev.status = next.status
      BY <2>1, <3>1, <3>2, <3>3, RankType
    <3> QED BY <1>0, <2>1, <3>1, <3>2, <3>3, <3>4
  <2> QED BY <2>3, <2>4
<1>2. CASE VenueReport
  <2>1. PICK q \in 0 .. venue.filledQty :
          reports' = reports \cup {[status |-> venue.status, filledQty |-> q]}
    BY <1>2 DEF VenueReport
  <2>2. UNCHANGED <<venue, delivered, local>>
    BY <1>2 DEF VenueReport
  <2>3. [status |-> venue.status, filledQty |-> q] \in Report
    BY <1>0, <2>1, QtyAssumption DEF TypeOK, Report
  <2>4. Rank(venue.status) \in Nat
    BY <1>0, RankType
  <2>5. TypeOK' /\ OrderIndependent'
    BY <2>1, <2>2, <2>3 DEF TypeOK, OrderIndependent
  <2>6. ReportsAreTrue'
    BY <1>0, <2>1, <2>2, <2>4 DEF ReportsAreTrue
  <2> QED BY <2>5, <2>6
<1>3. ASSUME NEW ev \in reports, Deliver(ev) PROVE IndInv'
  <2>1. /\ local' = Apply(local, ev)
        /\ delivered' = delivered \cup {ev}
        /\ UNCHANGED <<venue, reports>>
    BY <1>3 DEF Deliver
  <2>2. /\ ev \in Report /\ ev.status \in Status
        /\ ev.filledQty \in 0 .. Qty /\ ev.filledQty \in Nat
        /\ local \in State
    BY ReportIsState DEF TypeOK
  <2>3. /\ local' \in State
        /\ local'.status = IF Rank(ev.status) > Rank(local.status)
                           THEN ev.status ELSE local.status
        /\ local'.filledQty = IF Claimed(ev) > local.filledQty
                              THEN Claimed(ev) ELSE local.filledQty
    BY <2>1, <2>2, ApplyIsJoin
  <2>4. Claimed(ev) \in 0 .. Qty /\ Claimed(ev) \in Nat
    BY <2>2, QtyAssumption DEF Claimed
  <2>5. TypeOK'
    <3>1. local' \in Report
      BY <1>0, <2>2, <2>3, <2>4 DEF TypeOK, Report, State
    <3> QED BY <2>1, <3>1 DEF TypeOK
  <2>6. ReportsAreTrue'
    BY <2>1 DEF ReportsAreTrue
  <2>7. OrderIndependent'
    <3>1. \A e \in delivered : /\ e.status \in Status
                               /\ Claimed(e) \in Nat
                               /\ Rank(e.status) \in 0 .. 3
      BY ReportIsState, RankType DEF TypeOK, Claimed
    <3>2. /\ Rank(ev.status) \in 0 .. 3 /\ Rank(local.status) \in 0 .. 3
          /\ Rank(venue.status) \in 0 .. 3
      BY <1>0, <2>2, RankType
    <3>3. Rank(ev.status) = Rank(local.status) => ev.status = local.status
      \* Either both are below the top rank, or both are the venue's status.
      <4>1. ASSUME Rank(ev.status) = Rank(local.status),
                   Rank(local.status) = 3
            PROVE  ev.status = local.status
        <5>1. local.status # "pending"
          BY <4>1, RankType, <1>0
        <5>2. PICK e \in delivered : e.status = local.status
          BY <5>1 DEF OrderIndependent
        <5>3. e \in reports
          BY DEF TypeOK
        <5>4. /\ Rank(e.status) <= Rank(venue.status)
              /\ Rank(e.status) = Rank(venue.status) => e.status = venue.status
              /\ Rank(ev.status) = Rank(venue.status) => ev.status = venue.status
          BY <1>3, <5>3 DEF ReportsAreTrue
        <5> QED BY <3>2, <4>1, <5>2, <5>4
      <4>2. ASSUME Rank(ev.status) = Rank(local.status),
                   Rank(local.status) # 3
            PROVE  ev.status = local.status
        BY <1>0, <2>2, <3>2, <4>2, RankType
      <4> QED BY <4>1, <4>2
    <3>4. \A e \in delivered' :
             /\ Rank(e.status) <= Rank(local'.status)
             /\ Claimed(e) <= local'.filledQty
             /\ Rank(e.status) = Rank(local'.status) => e.status = local'.status
      <4> SUFFICES ASSUME NEW e \in delivered'
                   PROVE  /\ Rank(e.status) <= Rank(local'.status)
                          /\ Claimed(e) <= local'.filledQty
                          /\ Rank(e.status) = Rank(local'.status)
                               => e.status = local'.status
        OBVIOUS
      <4>1. CASE e = ev
        BY <1>0, <2>3, <2>4, <3>2, <3>3, <4>1
      <4>2. CASE e \in delivered
        <5>1. /\ Rank(e.status) <= Rank(local.status)
              /\ Claimed(e) <= local.filledQty
              /\ Rank(e.status) = Rank(local.status) => e.status = local.status
          BY <4>2 DEF OrderIndependent
        <5> QED BY <1>0, <2>3, <2>4, <3>1, <3>2, <4>2, <5>1
      <4> QED BY <2>1, <4>1, <4>2
    <3>5. \/ local'.status = "pending"
          \/ \E e \in delivered' : e.status = local'.status
      BY <2>1, <2>3 DEF OrderIndependent
    <3>6. \/ local'.filledQty = 0
          \/ \E e \in delivered' : Claimed(e) = local'.filledQty
      BY <2>1, <2>3 DEF OrderIndependent
    <3> QED BY <3>4, <3>5, <3>6 DEF OrderIndependent, Claimed
  <2> QED BY <2>5, <2>6, <2>7
<1>4. CASE UNCHANGED vars
  BY <1>4 DEF vars, TypeOK, ReportsAreTrue, OrderIndependent, Claimed
<1> QED BY <1>1, <1>2, <1>3, <1>4 DEF Next

\* The inductive invariant holds always.
LEMMA Invariance == Spec => []IndInv
<1> QED BY InitIndInv, NextIndInv, PTL DEF Spec
\* Type correctness of the delivery model.
THEOREM TypeCorrect == Spec => []TypeOK
<1> QED BY Invariance, PTL DEF IndInv

\* The stored state is a function of the set of applied reports.
THEOREM OrderIndependence == Spec => []OrderIndependent
<1> QED BY Invariance, PTL DEF IndInv

\* Local never runs ahead, and agrees once the final report was applied.
THEOREM Agreement == Spec => []AgreesOnceTold
<1>1. IndInv => AgreesOnceTold
  <2> SUFFICES ASSUME IndInv PROVE AgreesOnceTold
    OBVIOUS
  <2> USE DEF IndInv
  <2>1. /\ venue \in Report /\ local \in Report
        /\ venue.status \in Status /\ venue.filledQty \in Nat
        /\ local.status \in Status /\ local.filledQty \in Nat
    BY ReportIsState DEF TypeOK
  <2>2. /\ Rank(venue.status) \in 0 .. 3 /\ Rank(local.status) \in 0 .. 3
        /\ Rank("pending") = 0
    BY <2>1, RankType DEF Rank
  <2>3. Rank(local.status) <= Rank(venue.status)
    <3>1. CASE local.status = "pending"
      BY <2>2, <3>1
    <3>2. CASE \E ev \in delivered : ev.status = local.status
      BY <3>2 DEF TypeOK, ReportsAreTrue
    <3> QED BY <3>1, <3>2 DEF OrderIndependent
  <2>4. local.filledQty <= venue.filledQty
    <3>1. CASE local.filledQty = 0
      BY <2>1, <3>1
    <3>2. CASE \E ev \in delivered : Claimed(ev) = local.filledQty
      <4>1. PICK ev \in delivered : Claimed(ev) = local.filledQty
        BY <3>2
      <4>2. ev.filledQty \in Nat /\ ev.filledQty <= venue.filledQty
        BY ReportIsState DEF TypeOK, ReportsAreTrue
      <4> QED BY <2>1, <4>1, <4>2 DEF Claimed
    <3> QED BY <3>1, <3>2 DEF OrderIndependent
  <2>5. ASSUME Terminal(venue.status), venue \in delivered
        PROVE  local = venue
    <3>1. venue.status # "pending" /\ Rank(venue.status) = 3
      BY <2>1, <2>5, RankType DEF Terminal, TerminalRank
    <3>2. /\ Rank(venue.status) <= Rank(local.status)
          /\ Claimed(venue) <= local.filledQty
          /\ Rank(venue.status) = Rank(local.status)
               => venue.status = local.status
      BY <2>5 DEF OrderIndependent
    <3>3. local.status = venue.status /\ local.filledQty = venue.filledQty
      BY <2>1, <2>2, <2>3, <2>4, <3>1, <3>2 DEF Claimed
    <3> QED BY <2>1, <3>3 DEF Report
  <2> QED BY <2>3, <2>4, <2>5 DEF AgreesOnceTold
<1> QED BY <1>1, Invariance, PTL

\* Every replay of an applied report is dropped without effect.
THEOREM Idempotence == Spec => []ReplayCarriesNothing
<1>1. IndInv => ReplayCarriesNothing
  <2> SUFFICES ASSUME IndInv, NEW ev \in delivered
               PROVE  ~Carries(Transition(local, ev))
    BY DEF ReplayCarriesNothing
  <2> USE DEF IndInv
  <2>1. /\ local \in State /\ ev.status \in Status /\ ev.filledQty \in Nat
        /\ local.status \in Status
    BY ReportIsState DEF TypeOK
  <2>2. /\ Rank(ev.status) <= Rank(local.status)
        /\ Claimed(ev) <= local.filledQty
    BY DEF OrderIndependent
  <2>3. /\ Rank(ev.status) \in 0 .. 3 /\ Rank(local.status) \in 0 .. 3
        /\ Claimed(ev) \in Nat /\ local.filledQty \in Nat
    BY <2>1, RankType DEF Claimed, State
  <2>4. /\ Apply(local, ev) \in State
        /\ Apply(local, ev).status = local.status
        /\ Apply(local, ev).filledQty = local.filledQty
    BY <2>1, <2>2, <2>3, ApplyIsJoin
  <2>5. Apply(local, ev) = local
    BY <2>1, <2>4 DEF State
  <2> QED BY <2>1, <2>5, CarriesIffChanges
<1> QED BY <1>1, Invariance, PTL

\* No step un-fills, lowers the rank or leaves a terminal status.
THEOREM Monotonicity == Spec => NeverBackward
<1> DEFINE Forward == /\ local'.filledQty >= local.filledQty
                      /\ Rank(local'.status) >= Rank(local.status)
                      /\ Terminal(local.status) => local'.status = local.status
<1>1. IndInv /\ [Next]_vars => [Forward]_local
  <2> SUFFICES ASSUME IndInv, Next, local' # local PROVE Forward
    BY DEF vars
  <2>1. PICK ev \in reports : Deliver(ev)
    BY DEF Next, VenueStep, VenueReport
  <2>2. /\ local \in State /\ ev.status \in Status /\ ev.filledQty \in Nat
        /\ local.status \in Status
    BY ReportIsState DEF IndInv, TypeOK
  <2>3. /\ local'.status = IF Rank(ev.status) > Rank(local.status)
                           THEN ev.status ELSE local.status
        /\ local'.filledQty = IF Claimed(ev) > local.filledQty
                              THEN Claimed(ev) ELSE local.filledQty
    BY <2>1, <2>2, ApplyIsJoin DEF Deliver
  <2>4. /\ Rank(ev.status) \in 0 .. 3 /\ Rank(local.status) \in 0 .. 3
        /\ Claimed(ev) \in Nat /\ local.filledQty \in Nat
    BY <2>2, RankType DEF Claimed, State
  <2> QED BY <2>3, <2>4 DEF Terminal, TerminalRank
<1> QED BY <1>1, Invariance, PTL DEF Spec, NeverBackward
===============================================================================
