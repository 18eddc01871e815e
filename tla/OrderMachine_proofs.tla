-------------------------- MODULE OrderMachine_proofs --------------------------
(***************************************************************************)
(* Transition is a join.  The status of higher rank and the larger         *)
(* cumulative quantity win; a pending event claims no quantity.  This is   *)
(* why one order's events may be applied in any order and any number of    *)
(* times, and everything proved of OrderEvents and OrderStore rests on it. *)
(***************************************************************************)
EXTENDS OrderMachine, TLAPS

\* A rank is one of four numbers, and only the terminal statuses share one.
LEMMA RankType ==
  ASSUME NEW s \in Status
  PROVE  /\ Rank(s) \in 0 .. 3
         /\ Rank(s) = 0 <=> s = "pending"
         /\ Rank(s) = 1 <=> s = "open"
         /\ Rank(s) = 2 <=> s = "partially_filled"
BY DEF Status, Rank

\* What an event does to the stored state, read off Transition's switch: the
\* status moves exactly when the event's rank is higher, and the cumulative
\* fill becomes the larger of the stored and the claimed one.
THEOREM ApplyIsJoin ==
  ASSUME NEW s \in State, NEW ev, ev.status \in Status, ev.filledQty \in Nat
  PROVE  /\ Apply(s, ev) \in State
         /\ Apply(s, ev).status = IF Rank(ev.status) > Rank(s.status)
                                  THEN ev.status ELSE s.status
         /\ Apply(s, ev).filledQty = IF Claimed(ev) > s.filledQty
                                     THEN Claimed(ev) ELSE s.filledQty
<1>1. s.status \in Status /\ s.filledQty \in Nat
  BY DEF State
<1>2. /\ Rank(s.status) \in 0 .. 3 /\ Rank(ev.status) \in 0 .. 3
      /\ Rank(ev.status) = 0 <=> ev.status = "pending"
      /\ Rank(ev.status) = 2 <=> ev.status = "partially_filled"
      /\ Rank(s.status) = 2 <=> s.status = "partially_filled"
  BY <1>1, RankType
<1> HIDE DEF Rank
<1> QED
  BY <1>1, <1>2 DEF Apply, Transition, Keep, Move, FillOf, TerminalRank,
                    State, Claimed

\* A decision carries something to persist exactly when it changes the stored
\* state, so ApplyEvent's early return loses nothing and writes nothing twice.
THEOREM CarriesIffChanges ==
  ASSUME NEW s \in State, NEW ev, ev.status \in Status, ev.filledQty \in Nat
  PROVE  Carries(Transition(s, ev)) <=> Apply(s, ev) # s
<1>1. s.status \in Status /\ s.filledQty \in Nat
  BY DEF State
<1>2. /\ Rank(s.status) \in 0 .. 3 /\ Rank(ev.status) \in 0 .. 3
      /\ Rank(ev.status) = 0 <=> ev.status = "pending"
      /\ Rank(ev.status) = 2 <=> ev.status = "partially_filled"
      /\ Rank(s.status) = 2 <=> s.status = "partially_filled"
  BY <1>1, RankType
<1>3. s = [status |-> s.status, filledQty |-> s.filledQty]
  BY DEF State
<1>4. ev.status = s.status => Rank(ev.status) = Rank(s.status)
  OBVIOUS
<1> HIDE DEF Rank
<1> QED
  BY <1>1, <1>2, <1>3, <1>4 DEF Carries, Apply, Transition, Keep, Move, FillOf,
                    TerminalRank
\* Two reports leave the same state in either order, unless they claim two
\* different terminal statuses ("all terminal statuses share the top rank
\* because none can follow another", machine.go:12).
THEOREM ApplyCommutes ==
  ASSUME NEW s \in State,
         NEW e1, e1.status \in Status, e1.filledQty \in Nat,
         NEW e2, e2.status \in Status, e2.filledQty \in Nat,
         Terminal(e1.status) /\ Terminal(e2.status) => e1.status = e2.status
  PROVE  Apply(Apply(s, e1), e2) = Apply(Apply(s, e2), e1)
<1> DEFINE a == Apply(s, e1)
           b == Apply(s, e2)
<1>1. a \in State /\ b \in State
  BY ApplyIsJoin
<1>2. Apply(a, e2) \in State /\ Apply(b, e1) \in State
  BY <1>1, ApplyIsJoin
<1>3. Claimed(e1) \in Nat /\ Claimed(e2) \in Nat /\ s.filledQty \in Nat
  BY DEF Claimed, State
<1>4. Apply(a, e2).filledQty = Apply(b, e1).filledQty
  <2>1. /\ a.filledQty = IF Claimed(e1) > s.filledQty THEN Claimed(e1)
                                                      ELSE s.filledQty
        /\ b.filledQty = IF Claimed(e2) > s.filledQty THEN Claimed(e2)
                                                      ELSE s.filledQty
    BY ApplyIsJoin
  <2>2. /\ Apply(a, e2).filledQty = IF Claimed(e2) > a.filledQty
                                    THEN Claimed(e2) ELSE a.filledQty
        /\ Apply(b, e1).filledQty = IF Claimed(e1) > b.filledQty
                                    THEN Claimed(e1) ELSE b.filledQty
    BY <1>1, ApplyIsJoin
  <2> HIDE DEF a, b
  <2> QED BY <1>3, <2>1, <2>2
<1>5. Apply(a, e2).status = Apply(b, e1).status
  <2>1. /\ a.status = IF Rank(e1.status) > Rank(s.status) THEN e1.status
                                                          ELSE s.status
        /\ b.status = IF Rank(e2.status) > Rank(s.status) THEN e2.status
                                                          ELSE s.status
    BY ApplyIsJoin
  <2>2. /\ Apply(a, e2).status = IF Rank(e2.status) > Rank(a.status)
                                 THEN e2.status ELSE a.status
        /\ Apply(b, e1).status = IF Rank(e1.status) > Rank(b.status)
                                 THEN e1.status ELSE b.status
    BY <1>1, ApplyIsJoin
  <2>3. s.status \in Status
    BY DEF State
  <2>4. /\ Rank(s.status) \in 0 .. 3
        /\ Rank(e1.status) \in 0 .. 3
        /\ Rank(e2.status) \in 0 .. 3
        /\ Rank(e1.status) = Rank(e2.status) => e1.status = e2.status
    BY <2>3, RankType DEF Terminal, TerminalRank
  <2> HIDE DEF a, b
  <2> QED BY <2>1, <2>2, <2>4
<1>6. \A x, y \in State : x.status = y.status /\ x.filledQty = y.filledQty
                            => x = y
  BY DEF State
<1> QED BY <1>2, <1>4, <1>5, <1>6
\* Every decision is well formed: in particular a fill is never negative.
LEMMA TransitionType ==
  ASSUME NEW s \in State, NEW ev, ev.status \in Status, ev.filledQty \in Nat
  PROVE  Transition(s, ev) \in Decision
<1>1. s.status \in Status /\ s.filledQty \in Nat
  BY DEF State
<1>2. Rank(s.status) \in 0 .. 3 /\ Rank(ev.status) \in 0 .. 3
  BY <1>1, RankType
<1> HIDE DEF Rank
<1> QED
  BY <1>1, <1>2 DEF Transition, Keep, Move, FillOf, TerminalRank, Decision,
                    DropReason
===============================================================================
