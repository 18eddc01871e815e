------------------------------ MODULE Venue_proofs ------------------------------
(***************************************************************************)
(* Proofs about the parts that talk to the venue.                          *)
(*                                                                         *)
(* VenueBreaker, for any number of callers, any threshold and any burst:   *)
(* the breaker never waits for a probe that is not there, and is quiet     *)
(* while it is open.                                                       *)
(*                                                                         *)
(* StreamReconnect, for channels of any capacity: a published reconnect is *)
(* not forgotten before a pass begins.  The argument needs the start       *)
(* order: the pump runs only after the order service has started, which    *)
(* waits for the subscription, so every publication finds the subscriber's *)
(* channel.                                                                *)
(*                                                                         *)
(* SnapshotService, for any number of targets, currencies and snapshots: a *)
(* checkpoint that says ok has its rows in the series store, and shutdown  *)
(* leaves no silent gap.  The invariant follows one snapshot's rows:       *)
(* whoever is between write and flush holds the mutex, so its rows are     *)
(* still in the buffer when its own flush succeeds; after that they are in *)
(* the store for good.                                                     *)
(***************************************************************************)
EXTENDS VenueBreaker, StreamReconnect, SnapshotService, FiniteSetTheorems, TLAPS

\* The results a decorated call can come back with.
Results == ReadResults \cup TradeResults \cup {"limiter", "unsupported"}

\* Every step is one of these: a call starts, a call passes the limiter, a call
\* returns, or time passes.
Begins(c) == /\ call[c] = "idle"
             /\ Before(c)
             /\ call' \in {[call EXCEPT ![c] = "read"], [call EXCEPT ![c] = "trade"]}
             /\ UNCHANGED <<trades, tokens, last>>

Passes(c) == /\ call[c] \in {"read", "trade"}
             /\ tokens > 0
             /\ tokens' = tokens - 1
             /\ call' \in {[call EXCEPT ![c] = "reading"], [call EXCEPT ![c] = "trading"]}
             /\ UNCHANGED <<trades, breaker, last>>

Returns(c, r) == /\ call[c] # "idle"
                 /\ Return(c, r)
                 /\ UNCHANGED tokens

\* The kinds of steps cover Next.
LEMMA StepKinds ==
  ASSUME Next
  PROVE  \/ \E c \in Callers : Begins(c) \/ Passes(c) \/ \E r \in Results : Returns(c, r)
         \/ TimeoutElapses
         \/ Refill
<1>1. CASE TimeoutElapses \/ Refill
  BY <1>1
<1>2. ASSUME NEW c \in Callers,
             \/ Read(c) \/ Trade(c)
             \/ TradingUnsupported(c) \/ WaitRead(c) \/ WaitTrade(c) \/ WaitFails(c)
             \/ AdapterReads(c) \/ AdapterTrades(c)
      PROVE  Begins(c) \/ Passes(c) \/ \E r \in Results : Returns(c, r)
  <2>begin. CASE Read(c) \/ Trade(c)
    BY <2>begin DEF Read, Trade, Begins
  <2>pass. CASE WaitRead(c) \/ WaitTrade(c)
    BY <2>pass DEF WaitRead, WaitTrade, Passes
  <2>refused. CASE TradingUnsupported(c)
    <3>1. Returns(c, "unsupported")
      BY <2>refused DEF TradingUnsupported, Returns
    <3> QED
      BY <3>1 DEF Results
  <2>waits. CASE WaitFails(c)
    <3>1. Returns(c, "limiter")
      BY <2>waits DEF WaitFails, Returns
    <3> QED
      BY <3>1 DEF Results
  <2>reads. CASE AdapterReads(c)
    <3>1. PICK r \in ReadResults : Return(c, r)
      BY <2>reads DEF AdapterReads
    <3>2. Returns(c, r)
      BY <2>reads, <3>1 DEF AdapterReads, Returns
    <3> QED
      BY <3>2 DEF Results
  <2>trades. CASE AdapterTrades(c)
    <3>1. PICK r \in TradeResults : Return(c, r)
      BY <2>trades DEF AdapterTrades
    <3>2. Returns(c, r)
      BY <2>trades, <3>1 DEF AdapterTrades, Returns
    <3> QED
      BY <3>2 DEF Results
  <2> QED
    BY <1>2, <2>begin, <2>pass, <2>refused, <2>waits, <2>reads, <2>trades
<1> QED
  BY <1>1, <1>2 DEF Next

--------------------------------------------------------------------------------
(* Types. *)

\* The part of TypeOK about the breaker's own counts; the Boolean variables are
\* kept apart from the numbers.
Counts == /\ state \in {"closed", "open", "half-open"}
          /\ admitted \subseteq Callers
          /\ probes \in 0 .. 1
          /\ failures \in 0 .. Threshold

Flags == trades \in BOOLEAN /\ elapsed \in BOOLEAN

Rest == /\ call \in [Callers -> {"idle", "read", "trade", "reading", "trading"}]
        /\ tokens \in 0 .. Burst
        /\ last \in Results

\* TypeOK is these three parts.
LEMMA TypeParts == TypeOK <=> Counts /\ Flags /\ Rest
  BY Zenon DEF TypeOK, Counts, Flags, Rest, Results

\* The initial state has the right types.
LEMMA InitType == Init => TypeOK
<1> SUFFICES ASSUME Init
             PROVE  TypeOK
  OBVIOUS
<1>1. Counts /\ Rest
  BY BreakerAssumption DEF Init, Counts, Rest, Results, ReadResults
<1>2. Flags
  BY Zenon DEF Init, Flags
<1> QED
  BY <1>1, <1>2, TypeParts

\* A call that begins keeps the types.
LEMMA BeginsType ==
  ASSUME TypeOK, NEW c \in Callers, Begins(c)
  PROVE  TypeOK'
<1>1. Counts /\ Flags /\ Rest
  BY TypeParts
<1>2. Counts'
  <2>1. CASE state = "closed"
    BY <1>1, <2>1 DEF Counts, Begins, Before
  <2>2. CASE state # "closed"
    BY <1>1, <2>2, BreakerAssumption DEF Counts, Begins, Before
  <2> QED
    BY <2>1, <2>2
<1>3. Flags'
  BY <1>1, Zenon DEF Flags, Begins, Before
<1>4. Rest'
  BY <1>1 DEF Rest, Begins
<1> QED
  BY <1>2, <1>3, <1>4, TypeParts, PTL

\* A call that passes a stage keeps the types.
LEMMA PassesType ==
  ASSUME TypeOK, NEW c \in Callers, Passes(c)
  PROVE  TypeOK'
<1>1. Counts /\ Flags /\ Rest
  BY TypeParts
<1>2. Counts'
  BY <1>1 DEF Counts, Passes, breaker
<1>3. Flags'
  BY <1>1, Zenon DEF Flags, Passes, breaker
<1>4. Rest'
  BY <1>1, BreakerAssumption DEF Rest, Passes
<1> QED
  BY <1>2, <1>3, <1>4, TypeParts, PTL

\* A call that returns, with whatever result, keeps the types.
LEMMA ReturnsType ==
  ASSUME TypeOK, NEW c \in Callers, NEW r \in Results, Returns(c, r)
  PROVE  TypeOK'
<1>1. Counts /\ Flags /\ Rest
  BY TypeParts
<1>2. After(c, IsBreakerSuccess(r))
  BY DEF Returns, Return
<1>3. Counts'
  BY <1>1, <1>2, BreakerAssumption DEF Counts, After, SetState, breaker
<1>4. Flags'
  <2>1. elapsed' \in BOOLEAN
    BY <1>1, <1>2 DEF Flags, After, SetState, breaker
  <2> QED
    BY <1>1, <2>1 DEF Flags, Returns, Return
<1>5. Rest'
  BY <1>1, BreakerAssumption DEF Rest, Returns, Return
<1> QED
  BY <1>3, <1>4, <1>5, TypeParts, PTL

\* Every step keeps the types.
LEMMA NextType == TypeOK /\ [Next]_vars => TypeOK'
<1> SUFFICES ASSUME TypeOK, [Next]_vars
             PROVE  TypeOK'
  OBVIOUS
<1>1. CASE UNCHANGED vars
  BY <1>1 DEF TypeOK, vars, breaker
<1>2. CASE TimeoutElapses
  BY <1>2 DEF TypeOK, TimeoutElapses
<1>3. CASE Refill
  BY <1>3, BreakerAssumption DEF TypeOK, Refill, breaker
<1> QED
  BY <1>1, <1>2, <1>3, StepKinds, BeginsType, PassesType, ReturnsType

\* Counts stay within the breaker's settings and tokens within the burst, for any
\* callers, threshold and burst (Decorate).
THEOREM TypeCorrect == Spec => []TypeOK
<1>1. TypeOK /\ [Next]_vars => TypeOK'
  BY NextType
<1> QED
  BY InitType, <1>1, PTL DEF Spec
--------------------------------------------------------------------------------
(* The probe of a half-open circuit. *)

\* The inductive invariant.
IndInv == TypeOK /\ ProbeUnderWay

\* The invariant holds before the first call.
LEMMA InitIndInv == Init => IndInv
<1> SUFFICES ASSUME Init
             PROVE  IndInv
  OBVIOUS
<1>1. ProbeUnderWay
  BY DEF Init, ProbeUnderWay
<1> QED
  BY <1>1, InitType DEF IndInv

\* A call that starts becomes the probe of a circuit that was waiting for one.
LEMMA BeginsProbe ==
  ASSUME IndInv, NEW c \in Callers, Begins(c)
  PROVE  ProbeUnderWay'
<1>1. Counts /\ Rest
  BY TypeParts DEF IndInv
<1>2. Running' = Running \cup {c}
  BY <1>1 DEF Rest, Running, Begins
<1> QED
  BY <1>1, <1>2 DEF IndInv, ProbeUnderWay, Begins, Before, Counts

\* A call that passes the limiter goes on running.
LEMMA PassesProbe ==
  ASSUME IndInv, NEW c \in Callers, Passes(c)
  PROVE  ProbeUnderWay'
<1>1. Rest
  BY TypeParts DEF IndInv
<1>2. Running' = Running
  BY <1>1 DEF Rest, Running, Passes
<1> QED
  BY <1>2 DEF IndInv, ProbeUnderWay, Passes, breaker

\* The probe's return decides the circuit; any other return leaves the probe
\* where it is.
LEMMA ReturnsProbe ==
  ASSUME IndInv, NEW c \in Callers, NEW r \in Results, Returns(c, r)
  PROVE  ProbeUnderWay'
<1>1. Counts /\ Rest
  BY TypeParts DEF IndInv
<1>2. Running' = Running \ {c}
  BY <1>1 DEF Rest, Running, Returns, Return
<1>3. After(c, IsBreakerSuccess(r))
  BY DEF Returns, Return
<1>4. CASE c \notin admitted
  BY <1>1, <1>2, <1>3, <1>4 DEF IndInv, ProbeUnderWay, After, SetState, breaker, Counts
<1>5. CASE c \in admitted
  BY <1>1, <1>2, <1>3, <1>5 DEF IndInv, ProbeUnderWay, After, SetState, breaker, Counts
<1> QED
  BY <1>4, <1>5

\* Every step keeps the invariant.
LEMMA NextIndInv == IndInv /\ [Next]_vars => IndInv'
<1> SUFFICES ASSUME IndInv, [Next]_vars
             PROVE  IndInv'
  OBVIOUS
<1>1. TypeOK'
  BY NextType DEF IndInv
<1>2. CASE UNCHANGED vars
  BY <1>1, <1>2 DEF IndInv, ProbeUnderWay, Running, vars, breaker
<1>3. CASE TimeoutElapses
  BY <1>1, <1>3 DEF IndInv, ProbeUnderWay, Running, TimeoutElapses
<1>4. CASE Refill
  BY <1>1, <1>4 DEF IndInv, ProbeUnderWay, Running, Refill, breaker
<1> QED
  BY <1>1, <1>2, <1>3, <1>4, StepKinds, BeginsProbe, PassesProbe, ReturnsProbe DEF IndInv

\* The invariant holds in every reachable state.
LEMMA Inductive == Spec => []IndInv
<1>1. IndInv /\ [Next]_vars => IndInv'
  BY NextIndInv
<1> QED
  BY InitIndInv, <1>1, PTL DEF Spec

\* A half-open circuit that turns calls away has exactly one running probe, and an
\* open one waits for nobody (Decorate's breaker around the limiter).
THEOREM ProbeExists == Spec => []ProbeUnderWay
<1>1. IndInv => ProbeUnderWay
  BY DEF IndInv
<1> QED
  BY Inductive, <1>1, PTL

--------------------------------------------------------------------------------
(* What a step may not do. *)

\* The property of one step behind OpenIsQuiet.
Quiet == (state = "open" /\ ~elapsed) =>
           /\ \A c \in Callers : call[c] = "idle" => call'[c] = "idle"
           /\ tokens' < tokens => \E c \in Running : call'[c] \in {"reading", "trading"}
           /\ state' = "open"

\* Every step under an open circuit is quiet.
LEMMA StepQuiet == IndInv /\ [Next]_vars => [Quiet]_vars
<1> SUFFICES ASSUME IndInv, Next, state = "open", ~elapsed
             PROVE  Quiet
  BY DEF Quiet
<1>1. admitted = {} /\ Rest
  BY TypeParts DEF IndInv, ProbeUnderWay
<1>2. CASE TimeoutElapses \/ Refill
  BY <1>1, <1>2 DEF TimeoutElapses, Refill, breaker, Quiet, Rest
<1>3. ASSUME NEW c \in Callers, Begins(c)
      PROVE  Quiet
  BY <1>3 DEF Begins, Before
<1>4. ASSUME NEW c \in Callers, Passes(c)
      PROVE  Quiet
  <2>1. c \in Running /\ call'[c] \in {"reading", "trading"}
    BY <1>1, <1>4 DEF Passes, Running, Rest
  <2>2. \A d \in Callers : call[d] = "idle" => call'[d] = "idle"
    BY <1>1, <1>4 DEF Passes, Rest
  <2> QED
    BY <1>4, <2>1, <2>2 DEF Passes, breaker, Quiet
<1>5. ASSUME NEW c \in Callers, NEW r \in Results, Returns(c, r)
      PROVE  Quiet
  <2>1. After(c, IsBreakerSuccess(r))
    BY <1>5 DEF Returns, Return
  <2>2. state' = "open"
    BY <1>1, <2>1 DEF After, breaker
  <2>3. \A d \in Callers : call[d] = "idle" => call'[d] = "idle"
    BY <1>1, <1>5 DEF Returns, Return, Rest
  <2> QED
    BY <1>1, <1>5, <2>2, <2>3 DEF Returns, Quiet, Rest
<1> QED
  BY <1>2, <1>3, <1>4, <1>5, StepKinds

\* While the circuit is open no call starts, no token is taken but by calls that
\* were admitted before, and no late result changes it (Decorate).
THEOREM OpenQuiet == Spec => OpenIsQuiet
<1>1. IndInv /\ [Next]_vars => [Quiet]_vars
  BY StepQuiet
<1> QED
  BY Inductive, <1>1, PTL DEF Spec, OpenIsQuiet, Quiet

--------------------------------------------------------------------------------
(* StreamReconnect: no reconnect is forgotten. *)

\* The stream is started only once reconciliation has subscribed.
StartOrder == /\ consumer # "off" => subscribed
              /\ pump # "none" => consumer # "off"

\* What the argument needs of the bus and loop variables.
Tokens == hints \in Nat /\ kick \in 0 .. 1

LinkInv == StartOrder /\ Tokens /\ ReconnectNotForgotten

\* Nothing has been started or published.
LEMMA InitLinkInv == ReconnectInit => LinkInv
BY DEF ReconnectInit, LinkInv, StartOrder, Tokens, ReconnectNotForgotten

\* A publication finds a subscription; a full channel already holds a hint.
LEMMA PublicationHeld ==
  ASSUME LinkInv, pump = "select", PublishHint
  PROVE  hints' \in Nat /\ hints' > 0
BY ReconnectAssumption DEF LinkInv, StartOrder, Tokens, PublishHint

\* Every step keeps the invariant.
LEMMA NextLinkInv == LinkInv /\ [ReconnectNext]_linkVars => LinkInv'
<1>. SUFFICES ASSUME LinkInv, [ReconnectNext]_linkVars PROVE LinkInv'
  OBVIOUS
<1>. USE DEF LinkInv, StartOrder, Tokens, ReconnectNotForgotten, venueVars,
             streamVars, busVars, loopVars
<1>1. CASE Venue
  BY <1>1 DEF Venue, VenueUpdate, Disconnect, Teardown, Reconnect
<1>2. CASE Stream /\ ~PumpPolls
  <2>service. CASE StartOrderService BY <2>service DEF StartOrderService
  <2>starts. CASE StreamStarts BY <2>starts DEF StreamStarts
  <2>pump. CASE PumpStarts BY <2>pump DEF PumpStarts
  <2>fails. CASE StreamFails \/ StreamRetry BY <2>fails DEF StreamFails, StreamRetry
  <2>receives. CASE PumpReceives BY <2>receives DEF PumpReceives
  <2>sends. CASE PumpSends BY <2>sends DEF PumpSends
  <2>consume. CASE Consume BY <2>consume DEF Consume
  <2>. QED BY <1>2, <2>service, <2>starts, <2>pump, <2>fails, <2>receives, <2>sends,
              <2>consume DEF Stream
<1>3. CASE PumpPolls
  <2>1. CASE socket = "up" /\ ~connected
    BY <1>3, <2>1, PublicationHeld DEF PumpPolls
  <2>2. CASE ~(socket = "up" /\ ~connected)
    BY <1>3, <2>2 DEF PumpPolls
  <2>. QED BY <2>1, <2>2
<1>4. CASE ReconcileRuns \/ BusDelivers \/ HandleReconnect
  BY <1>4 DEF ReconcileRuns, BusDelivers, HandleReconnect
<1>5. CASE LoopWakes \/ PassReads \/ PassFails \/ PassEnds
  BY <1>5 DEF LoopWakes, PassReads, PassFails, PassEnds
<1>6. CASE UNCHANGED linkVars
  BY <1>6 DEF linkVars
<1>. QED BY <1>1, <1>2, <1>3, <1>4, <1>5, <1>6 DEF ReconnectNext, Stream, Reconcile

--------------------------------------------------------------------------------
(* Types: channels and counters, sets of updates, flags and labels, each apart. *)

LinkCounts == /\ updates \in 0 .. MaxUpdates /\ relay \in 0 .. updates
              /\ drops \in 0 .. MaxDrops
              /\ out \in 0 .. OutBuffer /\ hints \in 0 .. BusBuffer /\ kick \in 0 .. 1

Misses == lost \subseteq 1 .. MaxUpdates

LinkFlags == /\ socket \in {"up", "down"} /\ torn \in BOOLEAN
             /\ pump \in {"none", "starting", "select", "sending"} /\ connected \in BOOLEAN
             /\ consumer \in {"off", "starting", "consuming", "delayed"}
             /\ subscribed \in BOOLEAN /\ handling \in BOOLEAN
             /\ loop \in {"off", "waiting", "reading", "applying"}
             /\ uncovered \in BOOLEAN

\* A channel is filled only below its capacity and emptied only when not empty;
\* GCT's data channel holds no more updates than the venue has sent.
LEMMA NextCounts == LinkCounts /\ [ReconnectNext]_linkVars => LinkCounts'
<1>. SUFFICES ASSUME LinkCounts, [ReconnectNext]_linkVars PROVE LinkCounts'
  OBVIOUS
<1>. USE ReconnectAssumption
     DEF LinkCounts, venueVars, streamVars, busVars, loopVars
<1>1. CASE VenueUpdate BY <1>1 DEF VenueUpdate
<1>2. CASE Disconnect \/ Teardown \/ Reconnect
  BY <1>2 DEF Disconnect, Teardown, Reconnect
<1>3. CASE StartOrderService \/ StreamFails \/ StreamRetry
  BY <1>3 DEF StartOrderService, StreamFails, StreamRetry
<1>4. CASE StreamStarts
  <2>1. /\ UNCHANGED <<relay, updates, drops, hints, kick>>
        /\ out' = 0
    BY <1>4, Zenon DEF StreamStarts
  <2>. QED BY <2>1
<1>5. CASE PumpStarts \/ PumpReceives \/ PumpSends \/ Consume
  BY <1>5 DEF PumpStarts, PumpReceives, PumpSends, Consume
<1>6. CASE PumpPolls BY <1>6 DEF PumpPolls, PublishHint
<1>7. CASE ReconcileRuns \/ BusDelivers \/ HandleReconnect
  BY <1>7 DEF ReconcileRuns, BusDelivers, HandleReconnect
<1>8. CASE LoopWakes \/ PassReads \/ PassFails \/ PassEnds
  BY <1>8 DEF LoopWakes, PassReads, PassFails, PassEnds
<1>9. CASE UNCHANGED linkVars BY <1>9 DEF linkVars
<1>. QED
  BY <1>1, <1>2, <1>3, <1>4, <1>5, <1>6, <1>7, <1>8, <1>9
  DEF ReconnectNext, Venue, Stream, Reconcile

\* Only a lost update enters, and only an answer of the venue takes out.
LEMMA NextMisses == LinkCounts /\ Misses /\ [ReconnectNext]_linkVars => Misses'
<1>. SUFFICES ASSUME LinkCounts, Misses, [ReconnectNext]_linkVars PROVE Misses'
  OBVIOUS
<1>1. CASE VenueUpdate
  <2>1. /\ updates < MaxUpdates /\ updates' = updates + 1
        /\ lost' = lost \/ lost' = lost \cup {updates'}
    BY <1>1, Zenon DEF VenueUpdate
  <2>2. updates' \in 1 .. MaxUpdates
    BY <2>1, ReconnectAssumption DEF LinkCounts
  <2>. QED BY <2>1, <2>2, Zenon DEF Misses
<1>2. CASE PassReads BY <1>2, Zenon DEF PassReads, Misses
<1>3. CASE [ReconnectNext]_linkVars /\ ~VenueUpdate /\ ~PassReads
  <2>1. UNCHANGED lost
    BY <1>3, Zenon
    DEF ReconnectNext, Venue, Stream, Reconcile, Disconnect, Teardown, Reconnect,
        StartOrderService, StreamStarts, StreamFails, StreamRetry, PumpStarts,
        PumpReceives, PumpSends, PumpPolls, Consume, ReconcileRuns, BusDelivers,
        HandleReconnect, LoopWakes, PassFails, PassEnds, linkVars
  <2>. QED BY <2>1, Zenon DEF Misses
<1>. QED BY <1>1, <1>2, <1>3

\* Connection, pump, consumer and loop stay among their states.
LEMMA NextFlags == LinkFlags /\ [ReconnectNext]_linkVars => LinkFlags'
<1>. SUFFICES ASSUME LinkFlags, [ReconnectNext]_linkVars PROVE LinkFlags'
  OBVIOUS
<1>. USE DEF LinkFlags, venueVars, streamVars, busVars, loopVars
<1>1. CASE Venue
  <2>1. CASE VenueUpdate BY <2>1, Zenon DEF VenueUpdate
  <2>2. CASE Disconnect BY <2>2 DEF Disconnect
  <2>3. CASE Teardown BY <2>3 DEF Teardown
  <2>4. CASE Reconnect BY <2>4 DEF Reconnect
  <2>. QED BY <1>1, <2>1, <2>2, <2>3, <2>4 DEF Venue
<1>2. CASE StartOrderService \/ StreamStarts \/ StreamFails \/ StreamRetry
  BY <1>2 DEF StartOrderService, StreamStarts, StreamFails, StreamRetry
<1>3. CASE PumpReceives \/ PumpSends \/ Consume
  BY <1>3 DEF PumpReceives, PumpSends, Consume
<1>start. CASE PumpStarts BY <1>start, Zenon DEF PumpStarts
<1>4. CASE PumpPolls BY <1>4 DEF PumpPolls
<1>5. CASE Reconcile
  BY <1>5 DEF Reconcile, ReconcileRuns, BusDelivers, HandleReconnect, LoopWakes,
              PassReads, PassFails, PassEnds
<1>6. CASE UNCHANGED linkVars BY <1>6 DEF linkVars
<1>. QED BY <1>1, <1>2, <1>start, <1>3, <1>4, <1>5, <1>6 DEF ReconnectNext, Stream

\* Every variable keeps its type, and no channel ever holds more than its
\* capacity, for any capacities.
THEOREM LinkTypeCorrect == ReconnectSpec => []ReconnectTypeOK
<1>1. ReconnectInit => LinkCounts BY ReconnectAssumption DEF ReconnectInit, LinkCounts
<1>2. ReconnectInit => Misses BY Zenon DEF ReconnectInit, Misses
<1>3. ReconnectInit => LinkFlags BY Zenon DEF ReconnectInit, LinkFlags
<1>4. LinkCounts => relay \in 0 .. MaxUpdates BY ReconnectAssumption DEF LinkCounts
<1>5. LinkCounts /\ Misses /\ LinkFlags => ReconnectTypeOK
  BY <1>4, Zenon DEF LinkCounts, Misses, LinkFlags, ReconnectTypeOK
<1>. QED
  BY <1>1, <1>2, <1>3, <1>5, NextCounts, NextMisses, NextFlags, PTL DEF ReconnectSpec

--------------------------------------------------------------------------------
\* No publication of stream.reconnected is forgotten, although the bus and the
\* kick channel both drop what does not fit; of one venue, with a subscription
\* of its own.
THEOREM NotForgotten == ReconnectSpec => []ReconnectNotForgotten
<1>1. LinkInv => ReconnectNotForgotten BY DEF LinkInv
<1>2. ReconnectSpec => []LinkInv BY InitLinkInv, NextLinkInv, PTL DEF ReconnectSpec
<1>. QED BY <1>1, <1>2, PTL

--------------------------------------------------------------------------------
(* SnapshotService. *)

\* Between write and flush a target holds the mutex.
MutexInv ==
  \A t \in Targets : pc[t] \in {"locked", "written"} => writeMu = t

\* Where the rows of a snapshot in progress are.
RowsInv ==
  \A t \in Targets :
    /\ pc[t] = "written" => RowsOf(Current(t)) \subseteq sender
    /\ pc[t] = "flushed" => RowsOf(Current(t)) \subseteq series
    /\ pc[t] = "recorded" => Anchored(Current(t))

SnapshotInv == SnapshotTypeOK /\ MutexInv /\ RowsInv /\ OkMeansDurable /\ NoSilentGap
                 /\ TakenIsAnchored

\* Initially every table, buffer and history is empty.
LEMMA InitSnapshotInv == SnapshotInit => SnapshotInv
<1>. SUFFICES ASSUME SnapshotInit PROVE SnapshotInv
  OBVIOUS
<1>1. snaps \in [Targets -> 0 .. MaxSnaps] /\ restarts \in 0 .. MaxRestarts
  BY SnapshotAssumption DEF SnapshotInit
<1>2. SnapshotTypeOK
  BY <1>1 DEF SnapshotInit, SnapshotTypeOK
<1>3. MutexInv /\ RowsInv
  BY DEF SnapshotInit, MutexInv, RowsInv
<1>4. OkMeansDurable /\ NoSilentGap /\ TakenIsAnchored
  BY DEF SnapshotInit, OkMeansDurable, NoSilentGap, TakenIsAnchored, Anchored
<1>. QED BY <1>2, <1>3, <1>4 DEF SnapshotInv

\* The snapshot of a target that is working on one, and its rows, are typed.
LEMMA CurrentTyped ==
  ASSUME SnapshotTypeOK, NEW t \in Targets, pc[t] \notin {"idle", "stopped"}
  PROVE  /\ Current(t) \in Snapshot
         /\ RowsOf(Current(t)) \subseteq Snapshot \X Currencies
BY SnapshotAssumption DEF SnapshotTypeOK, Current, Snapshot, RowsOf

\* Each step of a target preserves the types.
LEMMA StepType ==
  ASSUME SnapshotInv, NEW t \in Targets, Step(t)
  PROVE  SnapshotTypeOK'
<1>1. SnapshotTypeOK BY DEF SnapshotInv
<1>2. CASE Fetch(t)
  BY <1>1, <1>2, SnapshotAssumption DEF SnapshotTypeOK, Fetch, Goto
<1>3. CASE Lock(t)
  BY <1>1, <1>3 DEF SnapshotTypeOK, Lock, Goto
<1>4. CASE Write(t)
  <2>1. RowsOf(Current(t)) \subseteq Snapshot \X Currencies
    BY <1>1, <1>4, CurrentTyped DEF Write
  <2>2. sender' \subseteq Snapshot \X Currencies
    BY <1>1, <1>4, <2>1 DEF SnapshotTypeOK, Write
  <2>3. writeMu' \in Targets \cup {NoTarget}
    BY <1>1, <1>4 DEF SnapshotTypeOK, Write
  <2>. QED BY <1>1, <1>4, <2>2, <2>3 DEF SnapshotTypeOK, Write, Goto
<1>5. CASE Flush(t)
  <2>1. Current(t) \in Snapshot
    BY <1>1, <1>5, CurrentTyped DEF Flush
  <2>2. /\ sender' \subseteq Snapshot \X Currencies
        /\ series' \subseteq Snapshot \X Currencies
        /\ flushed' \subseteq Snapshot
    BY <1>1, <1>5, <2>1 DEF SnapshotTypeOK, Flush
  <2>. QED BY <1>1, <1>5, <2>2 DEF SnapshotTypeOK, Flush, Goto
<1>6. CASE RecordFailed(t)
  <2>1. Checkpoint(Current(t), "failed") \in [snap : Snapshot, status : {"ok", "failed"}]
    BY <1>1, <1>6, CurrentTyped DEF RecordFailed, Checkpoint
  <2>2. checkpoints' \subseteq [snap : Snapshot, status : {"ok", "failed"}]
    BY <1>1, <1>6, <2>1 DEF SnapshotTypeOK, RecordFailed, StoreFails
  <2>. QED BY <1>1, <1>6, <2>2 DEF SnapshotTypeOK, RecordFailed, StoreFails, Goto
<1>7. CASE RecordOk(t)
  <2>1. Checkpoint(Current(t), "ok") \in [snap : Snapshot, status : {"ok", "failed"}]
    BY <1>1, <1>7, CurrentTyped DEF RecordOk, Checkpoint
  <2>2. checkpoints' \subseteq [snap : Snapshot, status : {"ok", "failed"}]
    BY <1>1, <1>7, <2>1 DEF SnapshotTypeOK, RecordOk, StoreFails
  <2>. QED BY <1>1, <1>7, <2>2 DEF SnapshotTypeOK, RecordOk, StoreFails, Goto
<1>8. CASE Publish(t)
  <2>1. Current(t) \in Snapshot
    BY <1>1, <1>8, CurrentTyped DEF Publish
  <2>. QED BY <1>1, <1>8, <2>1 DEF SnapshotTypeOK, Publish, Goto
<1>9. CASE Stop(t)
  BY <1>1, <1>9 DEF SnapshotTypeOK, Stop, Goto
<1>. QED BY <1>2, <1>3, <1>4, <1>5, <1>6, <1>7, <1>8, <1>9 DEF Step

\* Each step of a target preserves the mutex discipline.
LEMMA StepMutex ==
  ASSUME SnapshotInv, NEW t \in Targets, Step(t)
  PROVE  MutexInv'
BY SnapshotAssumption
DEF SnapshotInv, SnapshotTypeOK, MutexInv, Step, Fetch, Lock, Write, Flush, RecordFailed,
    RecordOk, StoreFails, Publish, Stop, Goto

\* Only the steps of a target itself change what it is working on, and the
\* series store and the checkpoints only grow.
LEMMA StepFrame ==
  ASSUME SnapshotInv, NEW t \in Targets, Step(t)
  PROVE  /\ \A u \in Targets \ {t} : pc'[u] = pc[u] /\ Current(u)' = Current(u)
         /\ ~Fetch(t) => Current(t)' = Current(t)
         /\ series \subseteq series'
         /\ checkpoints \subseteq checkpoints'
<1>. USE DEF SnapshotInv, SnapshotTypeOK, Current, Goto
<1>1. CASE Fetch(t) BY <1>1 DEF Fetch
<1>2. CASE Lock(t) BY <1>2 DEF Lock, Fetch
<1>3. CASE Write(t) BY <1>3 DEF Write, Fetch
<1>4. CASE Flush(t) BY <1>4 DEF Flush, Fetch
<1>5. CASE RecordFailed(t) BY <1>5 DEF RecordFailed, StoreFails, Fetch
<1>6. CASE RecordOk(t) BY <1>6 DEF RecordOk, StoreFails, Fetch
<1>7. CASE Publish(t) BY <1>7 DEF Publish, Fetch
<1>8. CASE Stop(t) BY <1>8 DEF Stop, Fetch
<1>. QED BY <1>1, <1>2, <1>3, <1>4, <1>5, <1>6, <1>7, <1>8 DEF Step

\* The buffer keeps the rows of every other target that holds the mutex: only
\* the holder itself flushes.
LEMMA StepSender ==
  ASSUME SnapshotInv, NEW t \in Targets, Step(t),
         NEW u \in Targets \ {t}, pc[u] = "written"
  PROVE  sender \subseteq sender'
<1>1. ~Flush(t)
  BY DEF SnapshotInv, MutexInv, Flush
<1>. QED BY <1>1 DEF Step, Fetch, Lock, Write, RecordFailed, RecordOk,
                     StoreFails, Publish, Stop

\* Each step of a target keeps the rows of snapshots in progress where they are
\* claimed to be.
LEMMA StepRows ==
  ASSUME SnapshotInv, NEW t \in Targets, Step(t)
  PROVE  RowsInv'
<1>1. ASSUME NEW u \in Targets \ {t}
      PROVE  /\ pc'[u] = "written" => RowsOf(Current(u))' \subseteq sender'
             /\ pc'[u] = "flushed" => RowsOf(Current(u))' \subseteq series'
             /\ pc'[u] = "recorded" => Anchored(Current(u))'
  <2>1. pc'[u] = pc[u] /\ Current(u)' = Current(u)
    BY <1>1, StepFrame
  <2>2. pc[u] = "written" => sender \subseteq sender'
    BY <1>1, StepSender
  <2>3. RowsOf(Current(u))' = RowsOf(Current(u))
    BY <2>1 DEF RowsOf
  <2>. QED BY <1>1, <2>1, <2>2, <2>3, StepFrame
           DEF SnapshotInv, RowsInv, Anchored, Checkpoint
<1>2. /\ pc'[t] = "written" => RowsOf(Current(t))' \subseteq sender'
      /\ pc'[t] = "flushed" => RowsOf(Current(t))' \subseteq series'
      /\ pc'[t] = "recorded" => Anchored(Current(t))'
  <2>. USE DEF SnapshotInv, SnapshotTypeOK, Goto
  <2>fetch. CASE Fetch(t) BY <2>fetch DEF Fetch
  <2>lock. CASE Lock(t) BY <2>lock DEF Lock
  <2>write. CASE Write(t)
    <3>1. Current(t)' = Current(t) BY <2>write DEF Write, Current
    <3>2. RowsOf(Current(t))' = RowsOf(Current(t)) BY <3>1 DEF RowsOf
    <3>3. pc'[t] \in {"written", "failed"} BY <2>write DEF Write
    <3>4. pc'[t] = "written" => RowsOf(Current(t)) \subseteq sender'
      BY <2>write DEF Write
    <3>. QED BY <3>2, <3>3, <3>4
  <2>flush. CASE Flush(t)
    <3>1. Current(t)' = Current(t) BY <2>flush DEF Flush, Current
    <3>2. RowsOf(Current(t))' = RowsOf(Current(t)) BY <3>1 DEF RowsOf
    <3>3. pc'[t] \in {"flushed", "failed"} BY <2>flush DEF Flush
    <3>4. RowsOf(Current(t)) \subseteq sender BY <2>flush DEF Flush, RowsInv
    <3>5. pc'[t] = "flushed" => series' = series \cup sender BY <2>flush DEF Flush
    <3>. QED BY <3>2, <3>3, <3>4, <3>5
  <2>failed. CASE RecordFailed(t) BY <2>failed DEF RecordFailed, StoreFails
  <2>ok. CASE RecordOk(t)
    <3>1. Current(t)' = Current(t) BY <2>ok DEF RecordOk, Current
    <3>2. pc'[t] \in {"recorded", "stopped"} BY <2>ok DEF RecordOk, StoreFails
    <3>3. pc'[t] = "recorded"
            => checkpoints' = checkpoints \cup {Checkpoint(Current(t), "ok")}
      BY <2>ok DEF RecordOk, StoreFails
    <3>. QED BY <3>1, <3>2, <3>3 DEF Anchored, Checkpoint
  <2>publish. CASE Publish(t) BY <2>publish DEF Publish
  <2>stop. CASE Stop(t) BY <2>stop DEF Stop
  <2>. QED BY <2>fetch, <2>lock, <2>write, <2>flush, <2>failed, <2>ok, <2>publish,
              <2>stop DEF Step
<1>. QED BY <1>1, <1>2 DEF RowsInv

\* A step anchors a snapshot only after its rows reached the store.
LEMMA StepDurable ==
  ASSUME SnapshotInv, NEW t \in Targets, Step(t)
  PROVE  OkMeansDurable'
<1>. SUFFICES ASSUME NEW s \in Snapshot, Anchored(s)'
              PROVE  RowsOf(s) \subseteq series'
  BY DEF OkMeansDurable, RowsOf, Snapshot
<1>1. CASE Anchored(s)
  BY <1>1, StepFrame DEF SnapshotInv, OkMeansDurable
<1>2. CASE ~Anchored(s)
  <2>1. RecordOk(t) /\ Checkpoint(s, "ok") = Checkpoint(Current(t), "ok")
    BY <1>2 DEF Step, Fetch, Lock, Write, Flush, RecordFailed, RecordOk,
                StoreFails, Publish, Stop, Anchored, Checkpoint
  <2>2. s = Current(t) BY <2>1 DEF Checkpoint
  <2>. QED BY <2>1, <2>2, StepFrame DEF SnapshotInv, RowsInv, RecordOk
<1>. QED BY <1>1, <1>2

\* A flushed snapshot stays accounted for.
LEMMA StepNoGap ==
  ASSUME SnapshotInv, NEW t \in Targets, Step(t)
  PROVE  NoSilentGap'
<1>. SUFFICES ASSUME NEW s \in flushed'
              PROVE  \/ Anchored(s)'
                     \/ failed'
                     \/ \E u \in Targets : pc'[u] = "flushed" /\ Current(u)' = s
  BY DEF NoSilentGap
<1>1. CASE s \notin flushed
  <2>1. Flush(t) /\ s = Current(t) /\ pc'[t] = "flushed"
    BY <1>1 DEF Step, Fetch, Lock, Write, Flush, RecordFailed, RecordOk,
                StoreFails, Publish, Stop, SnapshotInv, SnapshotTypeOK, Goto
  <2>2. Current(t)' = Current(t) BY <2>1 DEF Flush, Current
  <2>. QED BY <2>1, <2>2
<1>2. CASE s \in flushed /\ Anchored(s)
  BY <1>2, StepFrame DEF Anchored, Checkpoint
<1>3. CASE failed
  BY <1>3 DEF Step, Fetch, Lock, Write, Flush, RecordFailed, RecordOk,
              StoreFails, Publish, Stop
<1>4. ASSUME NEW u \in Targets, pc[u] = "flushed", Current(u) = s
      PROVE  \/ Anchored(s)'
             \/ failed'
             \/ \E v \in Targets : pc'[v] = "flushed" /\ Current(v)' = s
  <2>1. CASE u # t BY <1>4, <2>1, StepFrame
  <2>2. CASE u = t
    <3>1. RecordOk(t)
      BY <1>4, <2>2 DEF Step, Fetch, Lock, Write, Flush, RecordFailed, Publish, Stop
    <3>2. \/ Checkpoint(Current(t), "ok") \in checkpoints'
          \/ failed'
      BY <3>1 DEF RecordOk, StoreFails
    <3>. QED BY <1>4, <2>2, <3>2 DEF Anchored, Checkpoint
  <2>. QED BY <2>1, <2>2
<1>. QED BY <1>1, <1>2, <1>3, <1>4 DEF SnapshotInv, NoSilentGap

\* Only a recorded snapshot is announced.
LEMMA StepTaken ==
  ASSUME SnapshotInv, NEW t \in Targets, Step(t)
  PROVE  TakenIsAnchored'
<1>. SUFFICES ASSUME NEW s \in taken'
              PROVE  Anchored(s)' /\ RowsOf(s) \subseteq series'
  BY DEF TakenIsAnchored, RowsOf
<1>1. CASE s \in taken
  BY <1>1, StepFrame DEF SnapshotInv, TakenIsAnchored, Anchored, Checkpoint
<1>2. CASE s \notin taken
  <2>1. Publish(t) /\ s = Current(t)
    BY <1>2 DEF Step, Fetch, Lock, Write, Flush, RecordFailed, RecordOk,
                StoreFails, Publish, Stop
  <2>2. Anchored(s) BY <2>1 DEF SnapshotInv, RowsInv, Publish
  <2>3. s \in Snapshot BY <2>1, CurrentTyped DEF SnapshotInv, Publish
  <2>. QED BY <2>2, <2>3, StepFrame DEF SnapshotInv, OkMeansDurable, Anchored, Checkpoint
<1>. QED BY <1>1, <1>2

\* Every step, shutdown and restart included, preserves the invariant.
LEMMA NextSnapshotInv == SnapshotInv /\ [SnapshotNext]_snapshotVars => SnapshotInv'
<1>. SUFFICES ASSUME SnapshotInv, [SnapshotNext]_snapshotVars PROVE SnapshotInv'
  OBVIOUS
<1>1. ASSUME NEW t \in Targets, Step(t) PROVE SnapshotInv'
  BY <1>1, StepType, StepMutex, StepRows, StepDurable, StepNoGap, StepTaken
  DEF SnapshotInv
<1>2. CASE Cancel
  BY <1>2 DEF Cancel, SnapshotInv, SnapshotTypeOK, MutexInv, RowsInv, OkMeansDurable,
              NoSilentGap, TakenIsAnchored, Anchored, Current, RowsOf, Checkpoint
<1>3. CASE Restart
  <2>1. SnapshotTypeOK'
    <3>1. restarts' \in 0 .. MaxRestarts
      BY <1>3, SnapshotAssumption DEF Restart, SnapshotInv, SnapshotTypeOK
    <3>2. series' \subseteq Snapshot \X Currencies
      BY <1>3 DEF Restart, SnapshotInv, SnapshotTypeOK
    <3>. QED BY <1>3, <3>1, <3>2 DEF Restart, SnapshotInv, SnapshotTypeOK
  <2>2. series \subseteq series' /\ checkpoints' = checkpoints
        /\ taken' = taken /\ flushed' = {}
    BY <1>3 DEF Restart
  <2>3. MutexInv' /\ RowsInv'
    BY <1>3 DEF Restart, MutexInv, RowsInv
  <2>4. OkMeansDurable' /\ NoSilentGap' /\ TakenIsAnchored'
    BY <2>2 DEF SnapshotInv, OkMeansDurable, NoSilentGap, TakenIsAnchored, Anchored,
                RowsOf, Checkpoint
  <2>. QED BY <2>1, <2>3, <2>4 DEF SnapshotInv
<1>4. CASE UNCHANGED snapshotVars
  BY <1>4 DEF snapshotVars, SnapshotInv, SnapshotTypeOK, MutexInv, RowsInv, OkMeansDurable,
              NoSilentGap, TakenIsAnchored, Anchored, Current, RowsOf, Checkpoint
<1>. QED BY <1>1, <1>2, <1>3, <1>4 DEF SnapshotNext

\* The strengthened invariant holds in every state.
LEMMA SnapshotInvariance == SnapshotSpec => []SnapshotInv
BY InitSnapshotInv, NextSnapshotInv, PTL DEF SnapshotSpec

\* For any targets, currencies and bounds the service's state keeps its types.
THEOREM SnapshotTypeCorrect == SnapshotSpec => []SnapshotTypeOK
<1>1. SnapshotInv => SnapshotTypeOK BY DEF SnapshotInv
<1>. QED BY <1>1, SnapshotInvariance, PTL

\* An ok checkpoint never points at missing data, however many targets share
\* the line sender: the guarantee writeSeries' mutex is there for.
THEOREM Durable == SnapshotSpec => []OkMeansDurable
<1>1. SnapshotInv => OkMeansDurable BY DEF SnapshotInv
<1>. QED BY <1>1, SnapshotInvariance, PTL

\* No snapshot that reached the series store is left without a checkpoint by a
\* shutdown, unless the service says that it failed.
THEOREM NoGap == SnapshotSpec => []NoSilentGap
<1>1. SnapshotInv => NoSilentGap BY DEF SnapshotInv
<1>. QED BY <1>1, SnapshotInvariance, PTL

\* Whatever is announced as snapshot.taken is checkpointed and durable.
THEOREM TakenAnchored == SnapshotSpec => []TakenIsAnchored
<1>1. SnapshotInv => TakenIsAnchored BY DEF SnapshotInv
<1>. QED BY <1>1, SnapshotInvariance, PTL

--------------------------------------------------------------------------------
(* What a client is told about the last snapshot. *)

\* A target records at most one checkpoint for each of its snapshots, never
\* for one it has not begun, none while it is still at work on the snapshot,
\* and the checkpoints of a target have a newest one.
CheckpointsInv ==
  /\ \A c, d \in checkpoints : c.snap = d.snap => c = d
  /\ \A c \in checkpoints : c.snap[2] <= snaps[c.snap[1]]
  /\ \A c \in checkpoints :
       c.snap[2] = snaps[c.snap[1]]
         => pc[c.snap[1]] \in {"idle", "recorded", "stopped"}
  /\ \A c \in checkpoints :
       \E d \in checkpoints :
         /\ d.snap[1] = c.snap[1]
         /\ \A e \in checkpoints :
              e.snap[1] = c.snap[1] => e.snap[2] <= d.snap[2]

\* What the type invariant says of one checkpoint.
LEMMA CheckpointTyped ==
  ASSUME SnapshotTypeOK, NEW c \in checkpoints
  PROVE  /\ c.snap[1] \in Targets /\ c.snap[2] \in Nat
         /\ c.snap = <<c.snap[1], c.snap[2]>>
         /\ c.status \in {"ok", "failed"} /\ c.snap \in Snapshot
         /\ c = Checkpoint(c.snap, c.status)
<1>1. c \in [snap : Snapshot, status : {"ok", "failed"}]
  BY DEF SnapshotTypeOK
<1>2. c.snap \in Snapshot /\ c.status \in {"ok", "failed"}
      /\ c = Checkpoint(c.snap, c.status)
  BY <1>1 DEF Checkpoint
<1>3. c.snap[1] \in Targets /\ c.snap[2] \in Nat
      /\ c.snap = <<c.snap[1], c.snap[2]>>
  BY <1>2, SnapshotAssumption DEF Snapshot
<1>. QED BY <1>2, <1>3

\* A step that records nothing: a target keeps the snapshot it is at, or goes
\* on from an idle state to the next.
LEMMA RecordsNothing ==
  ASSUME SnapshotTypeOK, SnapshotTypeOK', CheckpointsInv, checkpoints' = checkpoints,
         \A t \in Targets :
           \/ /\ snaps'[t] = snaps[t]
              /\ pc[t] \in {"idle", "recorded", "stopped"}
                   => pc'[t] \in {"idle", "recorded", "stopped"}
           \/ snaps'[t] > snaps[t]
  PROVE  CheckpointsInv'
<1>1. ASSUME NEW c \in checkpoints
      PROVE  /\ c.snap[2] <= snaps'[c.snap[1]]
             /\ c.snap[2] = snaps'[c.snap[1]]
                  => pc'[c.snap[1]] \in {"idle", "recorded", "stopped"}
  <2>1. PICK t \in Targets : t = c.snap[1]
    BY CheckpointTyped
  <2>2. PICK n \in Nat, k \in Nat, m \in Nat :
          n = c.snap[2] /\ k = snaps[t] /\ m = snaps'[t]
    BY CheckpointTyped, SnapshotAssumption DEF SnapshotTypeOK
  <2>3. n <= k /\ (n = k => pc[t] \in {"idle", "recorded", "stopped"})
    BY <2>1, <2>2 DEF CheckpointsInv
  <2>4. \/ /\ m = k
           /\ pc[t] \in {"idle", "recorded", "stopped"}
                => pc'[t] \in {"idle", "recorded", "stopped"}
        \/ m > k
    BY <2>2
  <2>5. n <= m /\ (n = m => pc'[t] \in {"idle", "recorded", "stopped"})
    BY <2>3, <2>4
  <2>. QED BY <2>1, <2>2, <2>5
<1>2. /\ \A c, d \in checkpoints : c.snap = d.snap => c = d
      /\ \A c \in checkpoints :
           \E d \in checkpoints :
             /\ d.snap[1] = c.snap[1]
             /\ \A e \in checkpoints :
                  e.snap[1] = c.snap[1] => e.snap[2] <= d.snap[2]
  BY DEF CheckpointsInv
<1>. QED BY <1>1, <1>2 DEF CheckpointsInv

\* A step of t that records the checkpoint of the snapshot t is at, which is
\* newer than all of t's others.
LEMMA RecordsCurrent ==
  ASSUME SnapshotTypeOK, SnapshotTypeOK', CheckpointsInv, NEW t \in Targets, NEW c,
         pc[t] \in {"failed", "flushed"}, c.snap = <<t, snaps[t]>>,
         checkpoints' = checkpoints \cup {c}, snaps' = snaps,
         pc'[t] \in {"idle", "recorded", "stopped"},
         \A u \in Targets \ {t} : pc'[u] = pc[u]
  PROVE  CheckpointsInv'
<1>1. c.snap[1] = t /\ c.snap[2] = snaps[t] /\ snaps[t] \in Nat
  BY SnapshotAssumption DEF SnapshotTypeOK
<1>2. ASSUME NEW d \in checkpoints, d.snap[1] = t
      PROVE  d.snap[2] \in Nat /\ d.snap[2] < snaps[t] /\ d.snap # c.snap
  <2>1. d.snap[2] \in Nat /\ d.snap[2] <= snaps[t] /\ d.snap[2] # snaps[t]
    BY <1>2, CheckpointTyped DEF CheckpointsInv
  <2>. QED BY <1>1, <2>1
<1>3. \A d, e \in checkpoints' : d.snap = e.snap => d = e
  BY <1>1, <1>2 DEF CheckpointsInv
<1>4. ASSUME NEW d \in checkpoints'
      PROVE  /\ d.snap[2] <= snaps'[d.snap[1]]
             /\ d.snap[2] = snaps'[d.snap[1]]
                  => pc'[d.snap[1]] \in {"idle", "recorded", "stopped"}
  <2>1. CASE d = c
    BY <1>1, <2>1
  <2>2. CASE d \in checkpoints /\ d.snap[1] = t
    BY <2>2 DEF CheckpointsInv
  <2>3. CASE d \in checkpoints /\ d.snap[1] # t
    <3>1. d.snap[1] \in Targets \ {t}
      BY <2>3, CheckpointTyped
    <3>. QED BY <2>3, <3>1 DEF CheckpointsInv
  <2>. QED BY <2>1, <2>2, <2>3
<1>5. ASSUME NEW d \in checkpoints'
      PROVE  \E f \in checkpoints' :
               /\ f.snap[1] = d.snap[1]
               /\ \A e \in checkpoints' :
                    e.snap[1] = d.snap[1] => e.snap[2] <= f.snap[2]
  <2>1. CASE d.snap[1] = t
    <3>1. \A e \in checkpoints' : e.snap[1] = t => e.snap[2] <= c.snap[2]
      <4>. SUFFICES ASSUME NEW e \in checkpoints', e.snap[1] = t
                    PROVE  e.snap[2] <= c.snap[2]
        OBVIOUS
      <4>1. CASE e = c
        BY <1>1, <4>1
      <4>2. CASE e \in checkpoints
        <5>1. e.snap[2] \in Nat /\ e.snap[2] < snaps[t]
          BY <1>2, <4>2
        <5>. QED BY <1>1, <5>1
      <4>. QED BY <4>1, <4>2
    <3>. QED BY <1>1, <2>1, <3>1
  <2>2. CASE d.snap[1] # t
    <3>1. d \in checkpoints
      BY <1>1, <2>2
    <3>2. PICK f \in checkpoints :
            /\ f.snap[1] = d.snap[1]
            /\ \A e \in checkpoints :
                 e.snap[1] = d.snap[1] => e.snap[2] <= f.snap[2]
      BY <3>1 DEF CheckpointsInv
    <3>3. \A e \in checkpoints' : e.snap[1] = d.snap[1] => e \in checkpoints
      BY <1>1, <2>2
    <3>. QED BY <3>2, <3>3
  <2>. QED BY <2>1, <2>2
<1>. QED BY <1>3, <1>4, <1>5 DEF CheckpointsInv

\* Every step, shutdown and restart included, keeps the checkpoints in order.
LEMMA NextCheckpoints ==
  SnapshotInv /\ SnapshotInv' /\ CheckpointsInv /\ [SnapshotNext]_snapshotVars => CheckpointsInv'
<1>. SUFFICES ASSUME SnapshotInv, SnapshotInv', CheckpointsInv, [SnapshotNext]_snapshotVars
              PROVE  CheckpointsInv'
  OBVIOUS
<1>0. SnapshotTypeOK /\ SnapshotTypeOK' /\ \A t \in Targets : snaps[t] \in Nat
  BY SnapshotAssumption DEF SnapshotInv, SnapshotTypeOK
<1>1. ASSUME NEW t \in Targets, RecordFailed(t) \/ RecordOk(t)
      PROVE  CheckpointsInv'
  <2>1. PICK c : /\ checkpoints' \in {checkpoints, checkpoints \cup {c}}
                 /\ c.snap = <<t, snaps[t]>>
    <3>1. PICK status : checkpoints' \in
                          {checkpoints,
                           checkpoints \cup {Checkpoint(Current(t), status)}}
      BY <1>1, Zenon DEF RecordFailed, RecordOk, StoreFails
    <3>2. Checkpoint(Current(t), status).snap = <<t, snaps[t]>>
      BY DEF Checkpoint, Current
    <3>. QED BY <3>1, <3>2
  <2>2. /\ pc[t] \in {"failed", "flushed"} /\ snaps' = snaps
        /\ pc'[t] \in {"idle", "recorded", "stopped"}
        /\ \A u \in Targets \ {t} : pc'[u] = pc[u]
    BY <1>0, <1>1 DEF RecordFailed, RecordOk, StoreFails, Goto, SnapshotTypeOK
  <2>3. CASE checkpoints' = checkpoints
    <3>1. \A u \in Targets :
            /\ snaps'[u] = snaps[u]
            /\ pc[u] \in {"idle", "recorded", "stopped"}
                 => pc'[u] \in {"idle", "recorded", "stopped"}
      BY <2>2
    <3>. QED BY <1>0, <2>3, <3>1, RecordsNothing
  <2>4. CASE checkpoints' = checkpoints \cup {c}
    BY <1>0, <2>1, <2>2, <2>4, RecordsCurrent
  <2>. QED BY <2>1, <2>3, <2>4
<1>2. ASSUME NEW t \in Targets, Fetch(t) PROVE CheckpointsInv'
  <2>1. /\ checkpoints' = checkpoints
        /\ snaps' = [snaps EXCEPT ![t] = @ + 1]
        /\ \A u \in Targets \ {t} : pc'[u] = pc[u]
    BY <1>0, <1>2 DEF Fetch, Goto, SnapshotTypeOK
  <2>2. \A u \in Targets : IF u = t THEN snaps'[u] > snaps[u]
                           ELSE snaps'[u] = snaps[u] /\ pc'[u] = pc[u]
    BY <1>0, <2>1 DEF SnapshotTypeOK
  <2>. QED BY <1>0, <2>1, <2>2, RecordsNothing
<1>3. ASSUME NEW t \in Targets,
             Lock(t) \/ Write(t) \/ Flush(t) \/ Publish(t) \/ Stop(t)
      PROVE  CheckpointsInv'
  <2>1. /\ checkpoints' = checkpoints /\ snaps' = snaps
        /\ \A u \in Targets \ {t} : pc'[u] = pc[u]
        /\ pc[t] \in {"idle", "recorded", "stopped"}
             => pc'[t] \in {"idle", "recorded", "stopped"}
    BY <1>0, <1>3 DEF Lock, Write, Flush, Publish, Stop, Goto, SnapshotTypeOK
  <2>. QED BY <1>0, <2>1, RecordsNothing
<1>4. CASE Cancel \/ Restart \/ UNCHANGED snapshotVars
  <2>1. /\ checkpoints' = checkpoints /\ snaps' = snaps
        /\ \A u \in Targets : pc[u] \in {"idle", "recorded", "stopped"}
             => pc'[u] \in {"idle", "recorded", "stopped"}
    BY <1>4 DEF Cancel, Restart, snapshotVars
  <2>. QED BY <1>0, <2>1, RecordsNothing
<1>. QED BY <1>1, <1>2, <1>3, <1>4 DEF SnapshotNext, Step

\* With the checkpoints in order, the answer to a client is one and true.
LEMMA LastFromCheckpoints == SnapshotInv /\ CheckpointsInv => LastSnapshotCurrent
<1>. SUFFICES ASSUME SnapshotInv, CheckpointsInv, NEW t \in Targets
              PROVE  /\ Cardinality(GetLastSnapshot(t)) <= 1
                     /\ \A c \in GetLastSnapshot(t) :
                          /\ StatusText(c.status) \in {"ok", "failed"}
                          /\ StatusText(c.status) = "ok"
                               => RowsOf(c.snap) \subseteq series
                     /\ \A n \in 1 .. MaxSnaps : <<t, n>> \in taken
                          => \E c \in GetLastSnapshot(t) : c.snap[2] >= n
  BY DEF LastSnapshotCurrent
<1>0. SnapshotTypeOK /\ OkMeansDurable /\ TakenIsAnchored
  BY DEF SnapshotInv
<1>. DEFINE Answer(c) == [snap |-> c.snap, status |-> CheckpointStatus(c.status)]
<1>1. \A x : x \in GetLastSnapshot(t) <=> \E c \in LastSnapshot(t) : x = Answer(c)
  BY DEF GetLastSnapshot
<1>2. \A c : c \in LastSnapshot(t) <=>
        /\ c \in checkpoints /\ c.snap[1] = t
        /\ \A d \in checkpoints : d.snap[1] = t => d.snap[2] <= c.snap[2]
  BY DEF LastSnapshot, Newest
<1>3. ASSUME NEW c \in LastSnapshot(t), NEW d \in LastSnapshot(t) PROVE c = d
  <2>1. /\ c \in checkpoints /\ d \in checkpoints
        /\ c.snap[1] = t /\ d.snap[1] = t
        /\ c.snap[2] <= d.snap[2] /\ d.snap[2] <= c.snap[2]
    BY <1>2
  <2>2. c.snap[2] = d.snap[2]
    BY <1>0, <2>1, CheckpointTyped
  <2>3. c.snap = d.snap
    BY <1>0, <2>1, <2>2, CheckpointTyped
  <2>. QED BY <2>1, <2>3 DEF CheckpointsInv
<1>4. Cardinality(GetLastSnapshot(t)) <= 1
  <2>1. CASE GetLastSnapshot(t) = {}
    BY <2>1, FS_EmptySet
  <2>2. CASE GetLastSnapshot(t) # {}
    <3>1. PICK x : x \in GetLastSnapshot(t)
      BY <2>2
    <3>2. ASSUME NEW y \in GetLastSnapshot(t) PROVE y = x
      <4>1. PICK c, d : /\ c \in LastSnapshot(t) /\ x = Answer(c)
                        /\ d \in LastSnapshot(t) /\ y = Answer(d)
        BY <1>1, <3>1, <3>2, Zenon
      <4>2. c = d
        BY <1>3, <4>1
      <4>. QED BY <4>1, <4>2
    <3>3. GetLastSnapshot(t) = {x}
      BY <3>1, <3>2
    <3>4. Cardinality({x}) = 1
      BY FS_Singleton, Zenon
    <3>. QED BY <3>3, <3>4
  <2>. QED BY <2>1, <2>2
<1>5. ASSUME NEW x \in GetLastSnapshot(t)
      PROVE  /\ StatusText(x.status) \in {"ok", "failed"}
             /\ StatusText(x.status) = "ok" => RowsOf(x.snap) \subseteq series
  <2>1. PICK c \in checkpoints : x = Answer(c)
    BY <1>1, <1>2
  <2>2. c.status \in {"ok", "failed"} /\ c.snap \in Snapshot
        /\ c = Checkpoint(c.snap, c.status)
    BY <1>0, CheckpointTyped
  <2>3. StatusText(x.status) = c.status /\ x.snap = c.snap
    BY <2>1, <2>2 DEF StatusText, CheckpointStatus
  <2>4. c.status = "ok" => Anchored(c.snap)
    BY <2>2 DEF Anchored
  <2>. QED BY <1>0, <2>2, <2>3, <2>4 DEF OkMeansDurable
<1>6. ASSUME NEW n \in 1 .. MaxSnaps, <<t, n>> \in taken
      PROVE  \E x \in GetLastSnapshot(t) : x.snap[2] >= n
  <2>1. PICK c \in checkpoints : c.snap = <<t, n>>
    BY <1>0, <1>6 DEF TakenIsAnchored, Anchored, Checkpoint
  <2>2. c.snap[1] = t /\ c.snap[2] = n
    BY <2>1
  <2>3. PICK d \in checkpoints :
          /\ d.snap[1] = t
          /\ \A e \in checkpoints : e.snap[1] = t => e.snap[2] <= d.snap[2]
    BY <2>2 DEF CheckpointsInv
  <2>4. Answer(d) \in GetLastSnapshot(t)
    BY <1>1, <1>2, <2>3
  <2>5. Answer(d).snap[2] >= n
    <3>1. d.snap[2] \in Nat /\ n \in Nat /\ n <= d.snap[2]
      BY <1>0, <2>2, <2>3, CheckpointTyped, SnapshotAssumption
    <3>. QED BY <3>1
  <2>. QED BY <2>4, <2>5
<1>. QED BY <1>4, <1>5, <1>6

\* GetLastSnapshot gives one answer, ok only with the data in the series store
\* and never older than what was announced, for any number of targets and
\* through any failures, shutdowns and restarts.
THEOREM LastIsCurrent == SnapshotSpec => []LastSnapshotCurrent
<1>1. SnapshotInit => CheckpointsInv
  BY DEF SnapshotInit, CheckpointsInv
<1>. QED BY <1>1, NextCheckpoints, LastFromCheckpoints, SnapshotInvariance, PTL
         DEF SnapshotSpec

================================================================================
