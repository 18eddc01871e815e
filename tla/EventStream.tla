------------------------------- MODULE EventStream -------------------------------
(***************************************************************************)
(* Events on their way to the clients of the control API: the in-process   *)
(* bus (internal/bus), EventServer.StreamEvents and the server's shutdown  *)
(* (internal/api), and the streaming commands of the client (cmd/ctl).     *)
(*                                                                         *)
(* An event crosses two bounded channels and the connection: the bus       *)
(* subscriber's channel, which its goroutine empties into the stream's own *)
(* channel, which StreamEvents sends to the client.  Both channels drop    *)
(* what does not fit.  The connection holds Window messages and a send     *)
(* blocks on a client that does not read.                                  *)
(***************************************************************************)
EXTENDS Integers, Sequences

CONSTANTS
  Clients,
  Kinds, Typed, Wants,   \* subjects, see EventFeed
  SubscriberBuffer,      \* bus.subscriberBuffer
  StreamBuffer,          \* api.streamBuffer
  Window,                \* messages the connection holds
  MaxEvents              \* bound: events published in one behaviour

ASSUME StreamAssumption ==
  /\ Typed \subseteq Kinds
  /\ Wants \in [Clients -> SUBSET Kinds]
  /\ {SubscriberBuffer, StreamBuffer, Window} \subseteq Nat \ {0}
  /\ MaxEvents \in Nat

VARIABLES
  log,        \* history: the events published, as their subjects
  since,      \* history: position of log at which a client subscribed
  subs,       \* clients registered with the bus
  ch,         \* ch[c]: the subscriber's channel, positions in log
  chClosed,   \* subscriber channels that are closed
  worker,     \* worker[c]: the subscriber's goroutine
  events,     \* events[c]: the stream's channel
  handler,    \* handler[c]: the StreamEvents call of client c
  sending,    \* sending[c]: the event stream.Send is blocked on, or 0
  wire,       \* wire[c]: events sent and not yet read
  screen,     \* screen[c]: the client: "off", "live", "left" or "error"
  got,        \* got[c]: the events the client has shown
  stop        \* the daemon: "up", "shutdown", "closing", "closed", "exited"

busVars    == <<subs, ch, chClosed, worker>>
serverVars == <<events, handler, sending>>
clientVars == <<wire, screen, got>>
vars == <<log, since, busVars, serverVars, clientVars, stop>>

Feed == INSTANCE EventFeed WITH log <- log, since <- since, got <- got

Init == /\ Feed!Init
        /\ subs = {} /\ chClosed = {}
        /\ ch = [c \in Clients |-> <<>>]
        /\ worker = [c \in Clients |-> "none"]
        /\ events = [c \in Clients |-> <<>>]
        /\ handler = [c \in Clients |-> "none"]
        /\ sending = [c \in Clients |-> 0]
        /\ wire = [c \in Clients |-> <<>>]
        /\ screen = [c \in Clients |-> "off"]
        /\ stop = "up"

\* The process is there until it has exited.
Alive == stop # "exited"

--------------------------------------------------------------------------------
(* The bus. *)

\* Publish, by the relay, the services or the adapter.  The channels it sends to
\* and drops for are changed under the bus mutex.
Publish(k) ==
  /\ stop \in {"up", "shutdown"}
  /\ Len(log) < MaxEvents
  /\ log' = Append(log, k)
  /\ ch' = [c \in Clients |->
              IF c \in subs /\ k \in Wants[c] /\ Len(ch[c]) < SubscriberBuffer
              THEN Append(ch[c], Len(log) + 1) ELSE ch[c]]
  /\ UNCHANGED <<since, subs, chClosed, worker, serverVars, clientVars, stop>>

\* Subscribe: StreamEvents registers and a goroutine starts.
Subscribe(c) ==
  /\ subs' = subs \cup {c}
  /\ worker' = [worker EXCEPT ![c] = "run"]
  /\ since' = [since EXCEPT ![c] = Len(log)]
  /\ UNCHANGED <<ch, chClosed>>

\* Mutant: the channel is closed before the subscriber is removed from the map.
UnsubscribeKeeps(c) == /\ chClosed' = chClosed \cup {c}
                       /\ UNCHANGED <<subs, ch, worker>>

\* Mutant: the subscriber is removed and its channel never closed.
UnsubscribeOpen(c) == /\ subs' = subs \ {c}
                      /\ UNCHANGED <<ch, chClosed, worker>>

\* The function Subscribe returns: it removes the subscriber, then closes its
\* channel.  Publish and this function each hold the bus mutex from beginning to
\* end, so each is one step; what they would do without it is not in the model.
Unsubscribe(c) ==
  /\ subs' = subs \ {c}
  /\ chClosed' = chClosed \cup {c}
  /\ UNCHANGED <<ch, worker>>

\* The goroutine hands an event to the stream's channel, or drops it.
WorkerTakes(c) ==
  /\ Alive /\ worker[c] = "run" /\ ch[c] # <<>>
  /\ ch' = [ch EXCEPT ![c] = Tail(@)]
  /\ events' = [events EXCEPT ![c] =
                  IF Len(@) < StreamBuffer THEN Append(@, Head(ch[c])) ELSE @]
  /\ UNCHANGED <<log, since, subs, chClosed, worker, handler, sending, clientVars, stop>>

WorkerExits(c) ==
  /\ Alive /\ worker[c] = "run"
  /\ \/ c \in chClosed /\ ch[c] = <<>>
     \/ stop = "closing"
  /\ worker' = [worker EXCEPT ![c] = "gone"]
  /\ UNCHANGED <<log, since, subs, ch, chClosed, serverVars, clientVars, stop>>

--------------------------------------------------------------------------------
(* EventServer.StreamEvents. *)

\* A client connects and the server accepts the call.
Accept(c) == /\ stop = "up"
             /\ screen[c] = "off"
             /\ screen' = [screen EXCEPT ![c] = "live"]
             /\ handler' = [handler EXCEPT ![c] = "accepted"]
             /\ UNCHANGED <<log, since, busVars, events, sending, wire, got, stop>>

StreamEvents(c) == /\ Alive /\ handler[c] = "accepted"
                   /\ handler' = [handler EXCEPT ![c] = "run"]
                   /\ Subscribe(c)
                   /\ UNCHANGED <<log, events, sending, clientVars, stop>>

\* Mutant: an event without a payload of the schema is sent untyped.
ToProtoEventUntyped(k) == k \in Kinds

\* toProtoEvent: an event without a wire form is counted and skipped, be it of a
\* subject the schema has no payload for or one whose payload is malformed: both
\* are kinds that are not Typed.
ToProtoEvent(k) == k \in Typed

\* One turn of the loop: the next event is converted and handed to Send.
Forward(c) ==
  /\ Alive /\ handler[c] = "run" /\ events[c] # <<>>
  /\ events' = [events EXCEPT ![c] = Tail(@)]
  /\ IF ToProtoEvent(log[Head(events[c])])
     THEN /\ sending' = [sending EXCEPT ![c] = Head(events[c])]
          /\ handler' = [handler EXCEPT ![c] = "send"]
     ELSE UNCHANGED <<sending, handler>>
  /\ UNCHANGED <<log, since, busVars, clientVars, stop>>

Send(c) == /\ Alive /\ handler[c] = "send"
           /\ Len(wire[c]) < Window
           /\ wire' = [wire EXCEPT ![c] = Append(@, sending[c])]
           /\ sending' = [sending EXCEPT ![c] = 0]
           /\ handler' = [handler EXCEPT ![c] = "run"]
           /\ UNCHANGED <<log, since, busVars, events, screen, got, stop>>

\* The client has gone and stream.Send fails.
SendFails(c) == /\ Alive /\ handler[c] = "send"
                /\ screen[c] = "left"
                /\ handler' = [handler EXCEPT ![c] = "ended"]
                /\ sending' = [sending EXCEPT ![c] = 0]
                /\ Unsubscribe(c)
                /\ UNCHANGED <<log, since, events, clientVars, stop>>

\* Mutant: Shutdown does not cancel the base context.
ContextDoneClientOnly(c) == /\ Alive /\ handler[c] = "run"
                            /\ screen[c] = "left"
                            /\ handler' = [handler EXCEPT ![c] = "ended"]
                            /\ Unsubscribe(c)
                            /\ UNCHANGED <<log, since, events, sending, clientVars, stop>>

\* ctx.Done: the client has gone, or Shutdown cancelled the base context.
ContextDone(c) == /\ Alive /\ handler[c] = "run"
                  /\ screen[c] = "left" \/ stop # "up"
                  /\ handler' = [handler EXCEPT ![c] = "ended"]
                  /\ Unsubscribe(c)
                  /\ UNCHANGED <<log, since, events, sending, clientVars, stop>>

--------------------------------------------------------------------------------
(* The client: runWatch and runEvents. *)

\* stream.Receive, and watchModel.Update or the printed line.
Receive(c) == /\ screen[c] = "live" /\ wire[c] # <<>>
              /\ wire' = [wire EXCEPT ![c] = Tail(@)]
              /\ got' = [got EXCEPT ![c] = Append(@, Head(wire[c]))]
              /\ UNCHANGED <<log, since, busVars, serverVars, screen, stop>>

\* The user leaves.
Quit(c) == /\ screen[c] = "live"
           /\ screen' = [screen EXCEPT ![c] = "left"]
           /\ wire' = [wire EXCEPT ![c] = <<>>]
           /\ UNCHANGED <<log, since, busVars, serverVars, got, stop>>

\* What StreamEvents returned reaches the client; it never returns nil.
StreamResult(c) == handler[c] = "ended"

\* The stream ends under the client: stream.Err is what the server returned, or
\* the connection's error, and the client stops with it.
StreamErr(c) == /\ screen[c] = "live"
                /\ \/ StreamResult(c) /\ wire[c] = <<>>
                   \/ stop = "exited"
                /\ screen' = [screen EXCEPT ![c] = "error"]
                /\ wire' = [wire EXCEPT ![c] = <<>>]
                /\ UNCHANGED <<log, since, busVars, serverVars, got, stop>>

--------------------------------------------------------------------------------
(* Shutdown. *)

Handled(c) == handler[c] \in {"accepted", "run", "send"}

\* The API's stop hook: http.Server.Shutdown, whose registered function cancels
\* the base context.
Shutdown == /\ stop = "up"
            /\ stop' = "shutdown"
            /\ UNCHANGED <<log, since, busVars, serverVars, clientVars>>

\* Every handler has returned; the last stop hook, bus.Close, marks the bus
\* closed and cancels its goroutines.
CloseBus == /\ stop = "shutdown"
            /\ ~\E c \in Clients : Handled(c)
            /\ stop' = "closing"
            /\ UNCHANGED <<log, since, busVars, serverVars, clientVars>>

\* bus.Close returns.
BusClosed == /\ stop = "closing"
             /\ ~\E c \in Clients : worker[c] = "run"
             /\ stop' = "closed"
             /\ UNCHANGED <<log, since, busVars, serverVars, clientVars>>

\* A handler blocked in Send is not reached by the context; the stop deadline
\* passes, the remaining hooks are skipped and the process exits.
StopDeadline == /\ stop = "shutdown"
                /\ \E c \in Clients : handler[c] = "send" /\ Len(wire[c]) = Window
                /\ stop' = "exited"
                /\ UNCHANGED <<log, since, busVars, serverVars, clientVars>>

Next == \/ \E k \in Kinds : Publish(k)
        \/ \E c \in Clients :
             \/ WorkerTakes(c) \/ WorkerExits(c)
             \/ Accept(c) \/ StreamEvents(c) \/ Forward(c) \/ Send(c)
             \/ SendFails(c) \/ ContextDone(c)
             \/ Receive(c) \/ Quit(c) \/ StreamErr(c)
        \/ Shutdown \/ CloseBus \/ BusClosed \/ StopDeadline

\* Goroutines of the daemon run, and the stop deadline passes; nothing is asked
\* of clients except that a connection's end reaches them.
Fairness ==
  /\ \A c \in Clients :
       /\ WF_vars(WorkerTakes(c)) /\ WF_vars(WorkerExits(c))
       /\ WF_vars(StreamEvents(c)) /\ WF_vars(Forward(c)) /\ WF_vars(Send(c))
       /\ WF_vars(SendFails(c)) /\ WF_vars(ContextDone(c)) /\ WF_vars(StreamErr(c))
  /\ WF_vars(CloseBus) /\ WF_vars(BusClosed) /\ WF_vars(StopDeadline)

Spec == Init /\ [][Next]_vars /\ Fairness

--------------------------------------------------------------------------------
(* Properties. *)

\* Every variable has its type; no channel exceeds its buffer.
TypeOK ==
  /\ log \in Seq(Kinds) /\ Len(log) <= MaxEvents
  /\ since \in [Clients -> Nat \cup {Feed!Absent}]
  /\ subs \subseteq Clients /\ chClosed \subseteq Clients
  /\ worker \in [Clients -> {"none", "run", "gone"}]
  /\ handler \in [Clients -> {"none", "accepted", "run", "send", "ended"}]
  /\ screen \in [Clients -> {"off", "live", "left", "error"}]
  /\ stop \in {"up", "shutdown", "closing", "closed", "exited"}
  /\ \A c \in Clients : /\ sending[c] \in 0 .. Len(log)
                        /\ Len(ch[c]) <= SubscriberBuffer
                        /\ Len(events[c]) <= StreamBuffer
                        /\ Len(wire[c]) <= Window

\* The two channels and the connection together implement the lossy feed: they
\* lose events and never repeat, reorder or invent one, and a client sees only
\* subjects of its prefix, from its subscription on.
FeedSpec == Feed!Spec

\* Publish sends to every registered subscriber, so no registered channel may be
\* closed (a send would panic and take the daemon down), and a stream that runs
\* is registered until it ends; and no buffer is exceeded (TypeOK).
NoSendOnClosed == /\ TypeOK
                  /\ subs \cap chClosed = {}
                  /\ \A c \in Clients : handler[c] \in {"run", "send"} <=> c \in subs

\* A stream that ended leaves no goroutine behind.
NoGoroutineLeft ==
  \A c \in Clients : handler[c] = "ended" ~> (worker[c] = "gone" \/ stop = "exited")

\* Shutdown ends, open streams or not: with idle clients the bus is closed in
\* order, and a client that stopped reading costs at most the stop deadline.
StopEnds == stop = "shutdown" ~> stop \in {"closed", "exited"}
================================================================================
