---------------------------- MODULE StreamReconnect ----------------------------
(***************************************************************************)
(* One venue's private stream and the reconciliation loop behind it: the   *)
(* pump of internal/adapters/gct/stream.go, which polls the connection,    *)
(* the consumer of internal/service/order, the bus subscription to         *)
(* stream.reconnected and the kick channel and timer of                    *)
(* internal/service/reconcile.  What a pass does to orders, and which it   *)
(* skips, is module OrderFlow; here it only reads the venue's open orders. *)
(* A store error, which ends the service and the process, is Lifecycle's.  *)
(*                                                                         *)
(* One venue only.  In the code the loops of all venues share the          *)
(* subscription: 64 hints of other venues that nobody has taken yet would  *)
(* fill its channel and drop this venue's.                                 *)
(***************************************************************************)
EXTENDS Integers

CONSTANTS
  MaxUpdates,      \* bound: order updates the venue makes
  MaxDrops,        \* bound: connection losses and teardowns
  OutBuffer,       \* the channel between pump and consumer (64 in the code)
  BusBuffer        \* a bus subscriber's channel (64 in the code)

ASSUME ReconnectAssumption ==
  /\ MaxUpdates \in Nat /\ MaxDrops \in Nat
  /\ OutBuffer \in Nat \ {0} /\ BusBuffer \in Nat \ {0}

VARIABLES
  socket,          \* the venue connection: "up" or "down"
  relay,           \* order updates in GCT's data channel
  torn,            \* GCT has closed that channel
  pump,            \* "none", "starting", "select", "sending" (blocked if out is full)
  connected,       \* the pump's memory of the connection
  out,             \* events in the pump's output channel
  consumer,        \* consumeStream: "off", "starting", "consuming", "delayed"
  subscribed,      \* reconciliation has subscribed (Ready is closed)
  hints,           \* stream.reconnected events in the subscriber's channel
  handling,        \* handleReconnect has received one and not kicked yet
  kick,            \* tokens in the kick channel, of capacity one
  loop,            \* runVenue: "off", "waiting", "reading", "applying"
  lost,            \* history: updates lost since the venue last answered a pass
  updates, drops,  \* counters for the bounds
  uncovered        \* history: a published reconnect has had no pass begin yet

linkVars == <<socket, relay, torn, pump, connected, out, consumer, subscribed, hints,
              handling, kick, loop, lost, updates, drops, uncovered>>

venueVars == <<socket, relay, torn, updates, drops>>
streamVars == <<pump, connected, out, consumer>>
busVars == <<subscribed, hints, handling>>
loopVars == <<kick, loop>>

ReconnectInit ==
  /\ socket = "down" /\ relay = 0 /\ torn = FALSE
  /\ pump = "none" /\ connected = FALSE /\ out = 0
  /\ consumer = "off"
  /\ subscribed = FALSE /\ hints = 0 /\ handling = FALSE
  /\ kick = 0 /\ loop = "off" /\ lost = {}
  /\ updates = 0 /\ drops = 0
  /\ uncovered = FALSE

--------------------------------------------------------------------------------
(* The venue and GCT's websocket manager (external).                       *)

\* An order moves at the venue: its update reaches the data channel or is lost,
\* also on a connection that is up.
VenueUpdate ==
  /\ updates < MaxUpdates
  /\ updates' = updates + 1
  /\ \/ /\ socket = "up" /\ ~torn
        /\ relay' = relay + 1
        /\ UNCHANGED lost
     \/ lost' = lost \cup {updates'} /\ UNCHANGED relay
  /\ UNCHANGED <<socket, torn, drops, streamVars, busVars, loopVars,
                 uncovered>>

\* The connection is lost, or the manager tears the data channel down with it;
\* a closed channel is still drained.
Disconnect ==
  /\ socket = "up" /\ drops < MaxDrops
  /\ socket' = "down" /\ drops' = drops + 1
  /\ UNCHANGED <<relay, torn, updates, streamVars, busVars, loopVars, lost,
                 uncovered>>

Teardown ==
  /\ ~torn /\ consumer = "consuming" /\ drops < MaxDrops
  /\ torn' = TRUE /\ socket' = "down" /\ drops' = drops + 1
  /\ UNCHANGED <<relay, updates, streamVars, busVars, loopVars, lost,
                 uncovered>>

\* GCT reconnects on its own while the stream is in use.
Reconnect ==
  /\ socket = "down" /\ ~torn /\ consumer = "consuming"
  /\ socket' = "up"
  /\ UNCHANGED <<relay, torn, updates, drops, streamVars, busVars, loopVars,
                 lost, uncovered>>

--------------------------------------------------------------------------------
(* The order service's consumer and the adapter's pump.                    *)

\* startServiceAfter: once reconciliation has subscribed.
StartOrderService ==
  /\ consumer = "off" /\ subscribed
  /\ consumer' = "starting"
  /\ UNCHANGED <<venueVars, pump, connected, out, busVars, loopVars,
                 lost, uncovered>>

\* StreamOrderEvents: connects if necessary, which may or may not replace a
\* closed channel, and starts the pump's goroutine.
StreamStarts ==
  /\ consumer = "starting"
  /\ socket' = "up"
  /\ torn' \in {torn, FALSE}
  /\ pump' = "starting" /\ out' = 0
  /\ consumer' = "consuming"
  /\ UNCHANGED <<relay, updates, drops, connected, busVars, loopVars, lost, uncovered>>

\* The goroutine takes the connection as it finds it, which may be lost again.
PumpStarts ==
  /\ pump = "starting"
  /\ connected' = (socket = "up") /\ pump' = "select"
  /\ UNCHANGED <<venueVars, out, consumer, busVars, loopVars, lost, uncovered>>

StreamFails ==
  /\ consumer = "starting" /\ socket = "down"
  /\ consumer' = "delayed"
  /\ UNCHANGED <<venueVars, pump, connected, out, busVars, loopVars, lost,
                 uncovered>>

\* streamRetryDelay passes.
StreamRetry ==
  /\ consumer = "delayed"
  /\ consumer' = "starting"
  /\ UNCHANGED <<venueVars, pump, connected, out, busVars, loopVars, lost,
                 uncovered>>

\* The pump receives a payload: an order update, to be sent on, or nothing more
\* because the channel is closed.
PumpReceives ==
  /\ pump = "select"
  /\ \/ relay > 0 /\ relay' = relay - 1 /\ pump' = "sending"
     \/ relay = 0 /\ torn /\ pump' = "none" /\ UNCHANGED relay
  /\ UNCHANGED <<socket, torn, updates, drops, connected, out, consumer,
                 busVars, loopVars, lost, uncovered>>

PumpSends ==
  /\ pump = "sending" /\ out < OutBuffer
  /\ out' = out + 1 /\ pump' = "select"
  /\ UNCHANGED <<venueVars, connected, consumer, busVars, loopVars,
                 lost, uncovered>>

\* bus.Publish to the subscription, if there is one; a full channel drops.
PublishHint ==
  hints' = IF subscribed /\ hints < BusBuffer THEN hints + 1 ELSE hints

\* The poll ticker fires in the pump's select.
PumpPolls ==
  /\ pump = "select"
  /\ connected' = (socket = "up")
  /\ IF socket = "up" /\ ~connected
     THEN /\ PublishHint
          /\ uncovered' = TRUE
     ELSE UNCHANGED <<hints, uncovered>>
  /\ UNCHANGED <<venueVars, pump, out, consumer, subscribed, handling,
                 loopVars, lost>>

\* consumeStream applies the next event; when the channel is closed and drained
\* it starts the stream again.
Consume ==
  /\ consumer = "consuming"
  /\ \/ out > 0 /\ out' = out - 1 /\ UNCHANGED consumer
     \/ out = 0 /\ pump = "none" /\ consumer' = "starting" /\ UNCHANGED out
  /\ UNCHANGED <<venueVars, pump, connected, busVars, loopVars, lost,
                 uncovered>>

--------------------------------------------------------------------------------
(* Reconciliation.                                                         *)

\* Run subscribes, closes Ready and starts the venue's loop with a pass.
ReconcileRuns ==
  /\ ~subscribed
  /\ subscribed' = TRUE
  /\ loop' = "reading"
  /\ UNCHANGED <<venueVars, streamVars, hints, handling, kick, lost,
                 uncovered>>

\* The subscriber's goroutine: receive, then kick this venue's loop without
\* blocking.  (A hint of another venue would kick another loop.)
BusDelivers ==
  /\ hints > 0 /\ ~handling
  /\ hints' = hints - 1 /\ handling' = TRUE
  /\ UNCHANGED <<venueVars, streamVars, subscribed, loopVars, lost,
                 uncovered>>

\* Mutant of HandleReconnect: an unbuffered kick channel, which only a loop in
\* its select receives from.
HandleReconnectUnbuffered ==
  /\ handling
  /\ handling' = FALSE
  /\ kick' = IF loop = "waiting" THEN 1 ELSE kick
  /\ UNCHANGED <<venueVars, streamVars, subscribed, hints, loop, lost,
                 uncovered>>

HandleReconnect ==
  /\ handling
  /\ handling' = FALSE
  /\ kick' = 1
  /\ UNCHANGED <<venueVars, streamVars, subscribed, hints, loop, lost,
                 uncovered>>

\* Mutant of LoopWakes: the loop waits for kicks alone.
LoopWakesOnKick ==
  /\ loop = "waiting" /\ kick = 1 /\ kick' = 0
  /\ loop' = "reading" /\ uncovered' = FALSE
  /\ UNCHANGED <<venueVars, streamVars, busVars, lost>>

\* runVenue's select: the interval or a kick, then a pass begins.
LoopWakes ==
  /\ loop = "waiting"
  /\ kick' \in IF kick = 1 THEN {0, 1} ELSE {0}
  /\ loop' = "reading" /\ uncovered' = FALSE
  /\ UNCHANGED <<venueVars, streamVars, busVars, lost>>

\* OpenOrders answers, after everything lost so far.  Nothing is said of what
\* the pass makes of the answer.
PassReads ==
  /\ loop = "reading"
  /\ lost' = {} /\ loop' = "applying"
  /\ UNCHANGED <<venueVars, streamVars, busVars, kick, uncovered>>

\* OpenOrders fails: the pass is skipped, and the kick that began it is spent.
PassFails ==
  /\ loop = "reading"
  /\ loop' = "waiting"
  /\ UNCHANGED <<venueVars, streamVars, busVars, kick, lost,
                 uncovered>>

PassEnds ==
  /\ loop = "applying"
  /\ loop' = "waiting"
  /\ UNCHANGED <<venueVars, streamVars, busVars, kick, lost, uncovered>>

--------------------------------------------------------------------------------
Venue == VenueUpdate \/ Disconnect \/ Teardown \/ Reconnect

Stream == \/ StartOrderService \/ StreamStarts \/ StreamFails \/ StreamRetry
          \/ PumpStarts \/ PumpReceives \/ PumpSends \/ PumpPolls \/ Consume

Reconcile == \/ ReconcileRuns \/ BusDelivers \/ HandleReconnect \/ LoopWakes
             \/ PassReads \/ PassFails \/ PassEnds

ReconnectNext == Venue \/ Stream \/ Reconcile

ReconnectSpec == ReconnectInit /\ [][ReconnectNext]_linkVars

\* Goroutines, timers and the poll ticker go on; the venue answers OpenOrders
\* again and again, though not every time.
ReconnectFairness ==
  /\ WF_linkVars(StartOrderService) /\ WF_linkVars(StreamStarts) /\ WF_linkVars(StreamRetry)
  /\ WF_linkVars(PumpStarts)
  /\ SF_linkVars(PumpReceives) /\ WF_linkVars(PumpSends) /\ SF_linkVars(PumpPolls)
  /\ WF_linkVars(Consume)
  /\ WF_linkVars(ReconcileRuns) /\ WF_linkVars(BusDelivers) /\ WF_linkVars(HandleReconnect)
  /\ WF_linkVars(LoopWakes) /\ SF_linkVars(PassReads) /\ WF_linkVars(PassEnds)

ReconnectFairSpec == ReconnectSpec /\ ReconnectFairness

--------------------------------------------------------------------------------
\* Types; no channel holds more than its capacity.
ReconnectTypeOK ==
  /\ socket \in {"up", "down"} /\ relay \in 0 .. MaxUpdates
  /\ torn \in BOOLEAN
  /\ pump \in {"none", "starting", "select", "sending"} /\ connected \in BOOLEAN
  /\ out \in 0 .. OutBuffer
  /\ consumer \in {"off", "starting", "consuming", "delayed"}
  /\ subscribed \in BOOLEAN /\ hints \in 0 .. BusBuffer /\ handling \in BOOLEAN
  /\ kick \in 0 .. 1 /\ loop \in {"off", "waiting", "reading", "applying"}
  /\ lost \subseteq 1 .. MaxUpdates
  /\ updates \in 0 .. MaxUpdates /\ drops \in 0 .. MaxDrops
  /\ uncovered \in BOOLEAN

\* A published reconnect is never forgotten: until a pass begins after it, a
\* hint is in the subscriber's channel, in the handler's hands or in the kick
\* channel, although both channels drop what does not fit and a pass may be
\* running ("reconciliation can close the event gap immediately",
\* order.go:25; the select with default in handleReconnect).  Of one venue: in
\* the code the hints of the others are in the subscriber's channel too.
ReconnectNotForgotten == uncovered => hints > 0 \/ handling \/ kick = 1

\* After every update that the stream loses the venue is read again, although
\* an outage shorter than the poll interval publishes no reconnect and a pass
\* whose OpenOrders fails spends the kick it was given: the interval is the
\* backstop ("The hint was an optimization; correctness never lived in it",
\* docs/adr/0005-in-process-bus-nats-later.md:47).  What a pass does with the
\* answer, and which orders it cannot help, is OrderFlow's ConvergesToVenue.
LossIsFollowedByRead == \A u \in 1 .. MaxUpdates : u \in lost ~> u \notin lost
================================================================================
