----------------------------- MODULE Daemon_proofs -----------------------------
(***************************************************************************)
(* Proofs about the daemon as its clients and its operator meet it.        *)
(*                                                                         *)
(* EventStream: whatever the capacities, a client's events travel through  *)
(* stages each of which is in order and older than the next, so a stream   *)
(* that drops at two channels is still the ordered, lossy feed EventFeed.  *)
(*                                                                         *)
(* OrderPages: for any table, limit and page size, the pages of a list are *)
(* one descending list.  What LIMIT cuts off is below what it keeps, and   *)
(* it cuts nothing off before the page is full: of the rows cut off, look  *)
(* at one with the fewest rows above it.                                   *)
(*                                                                         *)
(* Lifecycle: in every configuration the resources' hooks come first, so   *)
(* the count of started hooks bounds what runs and what must be open; and  *)
(* the API's path is this process's from the bind to the server's end.     *)
(***************************************************************************)
EXTENDS EventStream, OrderPages, Lifecycle, FiniteSetTheorems, SequenceTheorems, TLAPS

--------------------------------------------------------------------------------
(* EventStream: the stages of an event. *)

\* The elements of a sequence of positions.
Items(s) == {s[i] : i \in 1 .. Len(s)}

Increasing(s) == \A i, j \in 1 .. Len(s) : i < j => s[i] < s[j]

\* Everything in S was published before anything in T.
Before(S, T) == \A m \in S, n \in T : m < n

Shape == /\ TypeOK
         /\ sending \in [Clients -> Nat]
         /\ ch \in [Clients -> Seq(Nat)] /\ events \in [Clients -> Seq(Nat)]
         /\ wire \in [Clients -> Seq(Nat)] /\ got \in [Clients -> Seq(Nat)]

\* The event Send is blocked on, if any.
Held(c) == {sending[c]} \ {0}

\* A channel is closed exactly when the stream has ended; a client that has not
\* connected has no stream, and one that has not subscribed has no events.
Registered ==
  /\ \A c \in Clients : handler[c] \in {"run", "send"} <=> c \in subs
  /\ \A c \in Clients : c \in chClosed <=> handler[c] = "ended"
  /\ \A c \in Clients : screen[c] = "off" => handler[c] = "none"
  /\ \A c \in Clients : since[c] = Feed!Absent <=> handler[c] \in {"none", "accepted"}
  /\ \A c \in Clients : since[c] <= Len(log)
  /\ \A c \in Clients : sending[c] # 0 <=> handler[c] = "send"

\* What may be on its way to c: events since it subscribed, of its prefix.
Due(c) == {n \in 1 .. Len(log) :
             since[c] # Feed!Absent /\ since[c] < n /\ log[n] \in Wants[c]}

Sendable == {n \in 1 .. Len(log) : log[n] \in Typed}

\* The stages of one client's events, the newest in the subscriber's channel q,
\* then the stream's channel e, the event h in Send, the connection w, and g,
\* what it has shown: each in order, each older than the one before it.
Ordered(g, w, h, e, q) ==
  /\ Increasing(w) /\ Increasing(e) /\ Increasing(q)
  /\ Before(g, Items(w) \cup h \cup Items(e) \cup Items(q))
  /\ Before(Items(w), h \cup Items(e) \cup Items(q))
  /\ Before(h, Items(e) \cup Items(q))
  /\ Before(Items(e), Items(q))

\* They are events the client is due, and typed from Send on.
Selected(g, w, h, e, q, due, typed) ==
  /\ g \cup Items(w) \cup h \cup Items(e) \cup Items(q) \subseteq due
  /\ Items(w) \cup h \subseteq typed

FlowOK(c) ==
  /\ Ordered(Items(got[c]), wire[c], Held(c), events[c], ch[c])
  /\ Selected(Items(got[c]), wire[c], Held(c), events[c], ch[c], Due(c), Sendable)

StreamInv == Shape /\ Registered /\ \A c \in Clients : FlowOK(c)

--------------------------------------------------------------------------------
(* Queues. *)

\* Taking the first element leaves an ordered queue behind it.
LEMMA TailItems ==
  ASSUME NEW s \in Seq(Nat), s # <<>>
  PROVE  /\ Tail(s) \in Seq(Nat) /\ Len(Tail(s)) = Len(s) - 1
         /\ Items(Tail(s)) \subseteq Items(s)
         /\ Head(s) \in Items(s) /\ Head(s) \in Nat
         /\ Increasing(s) => /\ Increasing(Tail(s))
                             /\ Before({Head(s)}, Items(Tail(s)))
<1>1. /\ Len(s) \in Nat \ {0} /\ Tail(s) \in Seq(Nat) /\ Len(Tail(s)) = Len(s) - 1
      /\ Head(s) = s[1] /\ Head(s) \in Nat
      /\ \A i \in 1 .. Len(s) - 1 : Tail(s)[i] = s[i + 1]
  OBVIOUS
<1>2. Head(s) \in Items(s) /\ Items(Tail(s)) \subseteq Items(s)
  BY <1>1 DEF Items
<1>3. ASSUME Increasing(s) PROVE Increasing(Tail(s))
  BY <1>1, <1>3 DEF Increasing
<1>4. ASSUME Increasing(s) PROVE Before({Head(s)}, Items(Tail(s)))
  BY <1>1, <1>4 DEF Increasing, Before, Items
<1> QED BY <1>1, <1>2, <1>3, <1>4

\* Appending an event newer than the queue's keeps it ordered.
LEMMA AppendItems ==
  ASSUME NEW s \in Seq(Nat), NEW n \in Nat
  PROVE  /\ Append(s, n) \in Seq(Nat) /\ Len(Append(s, n)) = Len(s) + 1
         /\ Items(Append(s, n)) = Items(s) \cup {n}
         /\ Increasing(s) /\ Before(Items(s), {n}) => Increasing(Append(s, n))
<1>1. /\ Len(s) \in Nat /\ Append(s, n) \in Seq(Nat)
      /\ Len(Append(s, n)) = Len(s) + 1
      /\ \A i \in 1 .. Len(s) : Append(s, n)[i] = s[i]
      /\ Append(s, n)[Len(s) + 1] = n
  OBVIOUS
<1>2. Items(Append(s, n)) = Items(s) \cup {n}
  <2>1. ASSUME NEW x \in Items(Append(s, n)) PROVE x \in Items(s) \cup {n}
    <3> PICK i \in 1 .. Len(s) + 1 : x = Append(s, n)[i]
      BY <1>1, <2>1 DEF Items
    <3>1. CASE i = Len(s) + 1 BY <1>1, <3>1
    <3>2. CASE i \in 1 .. Len(s) BY <1>1, <3>2 DEF Items
    <3> QED BY <1>1, <3>1, <3>2
  <2>2. ASSUME NEW x \in Items(s) PROVE x \in Items(Append(s, n))
    <3> PICK i \in 1 .. Len(s) : x = s[i]
      BY <2>2 DEF Items
    <3> QED BY <1>1 DEF Items
  <2>3. n \in Items(Append(s, n))
    <3>1. Len(s) + 1 \in 1 .. Len(Append(s, n))
      BY <1>1
    <3> QED BY <1>1, <3>1 DEF Items
  <2> QED BY <2>1, <2>2, <2>3
<1>3. ASSUME Increasing(s), Before(Items(s), {n}) PROVE Increasing(Append(s, n))
  <2>1. \A i \in 1 .. Len(s) : s[i] < n
    BY <1>3 DEF Before, Items
  <2> QED BY <1>1, <1>3, <2>1 DEF Increasing
<1> QED BY <1>1, <1>2, <1>3

\* An empty queue is ordered.
LEMMA EmptyItems == /\ Items(<<>>) = {} /\ Increasing(<<>>)
                    /\ <<>> \in Seq(Nat) /\ Len(<<>>) = 0
BY DEF Items, Increasing

\* A client reads the oldest event of the connection.
LEMMA FlowReceive ==
  ASSUME NEW g, NEW w \in Seq(Nat), NEW h, NEW e, NEW q, NEW due, NEW typed,
         w # <<>>, Ordered(g, w, h, e, q), Selected(g, w, h, e, q, due, typed)
  PROVE  /\ Ordered(g \cup {Head(w)}, Tail(w), h, e, q)
         /\ Selected(g \cup {Head(w)}, Tail(w), h, e, q, due, typed)
BY TailItems DEF Ordered, Selected, Before

\* Send hands its event to the connection.
LEMMA FlowSend ==
  ASSUME NEW g, NEW w \in Seq(Nat), NEW x \in Nat, NEW e, NEW q, NEW due, NEW typed,
         Ordered(g, w, {x}, e, q), Selected(g, w, {x}, e, q, due, typed)
  PROVE  /\ Ordered(g, Append(w, x), {}, e, q)
         /\ Selected(g, Append(w, x), {}, e, q, due, typed)
<1>1. Before(Items(w), {x})
  BY DEF Ordered, Before
<1>2. Items(Append(w, x)) = Items(w) \cup {x} /\ Increasing(Append(w, x))
  BY <1>1, AppendItems DEF Ordered
<1>3. Ordered(g, Append(w, x), {}, e, q)
  BY <1>2 DEF Ordered, Before
<1>4. Selected(g, Append(w, x), {}, e, q, due, typed)
  BY <1>2 DEF Selected
<1> QED BY <1>3, <1>4

\* The loop takes the oldest event of the stream's channel, and sends or skips it.
LEMMA FlowForward ==
  ASSUME NEW g, NEW w, NEW e \in Seq(Nat), NEW q, NEW due, NEW typed,
         e # <<>>, Ordered(g, w, {}, e, q), Selected(g, w, {}, e, q, due, typed)
  PROVE  /\ Ordered(g, w, {}, Tail(e), q)
         /\ Selected(g, w, {}, Tail(e), q, due, typed)
         /\ Ordered(g, w, {Head(e)}, Tail(e), q)
         /\ Head(e) \in typed
              => Selected(g, w, {Head(e)}, Tail(e), q, due, typed)
BY TailItems DEF Ordered, Selected, Before

\* The goroutine takes the oldest event of its channel, and passes it on or not.
LEMMA FlowTake ==
  ASSUME NEW g, NEW w, NEW h, NEW e \in Seq(Nat), NEW q \in Seq(Nat),
         NEW due, NEW typed,
         q # <<>>, Ordered(g, w, h, e, q), Selected(g, w, h, e, q, due, typed)
  PROVE  /\ Ordered(g, w, h, e, Tail(q))
         /\ Selected(g, w, h, e, Tail(q), due, typed)
         /\ Ordered(g, w, h, Append(e, Head(q)), Tail(q))
         /\ Selected(g, w, h, Append(e, Head(q)), Tail(q), due, typed)
<1>1. /\ Items(Tail(q)) \subseteq Items(q) /\ Head(q) \in Items(q) /\ Head(q) \in Nat
      /\ Increasing(Tail(q)) /\ Before({Head(q)}, Items(Tail(q)))
  BY TailItems DEF Ordered
<1>2. Before(Items(e), {Head(q)})
  BY <1>1 DEF Ordered, Before
<1>3. /\ Items(Append(e, Head(q))) = Items(e) \cup {Head(q)}
      /\ Increasing(Append(e, Head(q)))
  BY <1>1, <1>2, AppendItems DEF Ordered
<1>4. Ordered(g, w, h, e, Tail(q)) /\ Selected(g, w, h, e, Tail(q), due, typed)
  BY <1>1 DEF Ordered, Selected, Before
<1>5. Ordered(g, w, h, Append(e, Head(q)), Tail(q))
  BY <1>1, <1>3 DEF Ordered, Before
<1>6. Selected(g, w, h, Append(e, Head(q)), Tail(q), due, typed)
  BY <1>1, <1>3 DEF Selected
<1> QED BY <1>4, <1>5, <1>6

\* A publication is newer than everything on its way.
LEMMA FlowPublish ==
  ASSUME NEW g, NEW w, NEW h, NEW e, NEW q \in Seq(Nat), NEW due, NEW typed,
         NEW n \in Nat, \A m \in due : m < n,
         Ordered(g, w, h, e, q), Selected(g, w, h, e, q, due, typed)
  PROVE  /\ Ordered(g, w, h, e, Append(q, n))
         /\ Selected(g, w, h, e, Append(q, n), due \cup {n}, typed)
<1>1. Before(Items(q), {n})
  BY DEF Selected, Before
<1>2. /\ Items(Append(q, n)) = Items(q) \cup {n} /\ Increasing(Append(q, n))
  BY <1>1, AppendItems DEF Ordered
<1>3. Ordered(g, w, h, e, Append(q, n))
  BY <1>2 DEF Ordered, Selected, Before
<1>4. Selected(g, w, h, e, Append(q, n), due \cup {n}, typed)
  BY <1>2 DEF Selected
<1> QED BY <1>3, <1>4

\* Losing what is in the connection or in Send leaves the rest in order.
LEMMA FlowLoses ==
  ASSUME NEW g, NEW w, NEW h, NEW e, NEW q, NEW due, NEW typed,
         Ordered(g, w, h, e, q), Selected(g, w, h, e, q, due, typed)
  PROVE  /\ Ordered(g, <<>>, h, e, q) /\ Selected(g, <<>>, h, e, q, due, typed)
         /\ Ordered(g, w, {}, e, q) /\ Selected(g, w, {}, e, q, due, typed)
BY EmptyItems DEF Ordered, Selected, Before

\* More events may be due or typed.
LEMMA FlowGrows ==
  ASSUME NEW g, NEW w, NEW h, NEW e, NEW q, NEW D, NEW E, NEW S, NEW T,
         D \subseteq E, S \subseteq T, Selected(g, w, h, e, q, D, S)
  PROVE  Selected(g, w, h, e, q, E, T)
BY DEF Selected

--------------------------------------------------------------------------------
(* Types. *)

\* Nothing is connected and nothing is published.
LEMMA InitIndInv == Init => StreamInv
<1> SUFFICES ASSUME Init PROVE StreamInv
  OBVIOUS
<1>1. /\ log = <<>> /\ Len(log) = 0 /\ log \in Seq(Kinds)
      /\ since = [c \in Clients |-> -1] /\ Feed!Absent = -1
      /\ got = [c \in Clients |-> <<>>]
  BY DEF Init, Feed!Init, Feed!Absent
<1>2. TypeOK
  BY <1>1, StreamAssumption DEF Init, TypeOK
<1>3. Shape
  BY <1>1, <1>2 DEF Init, Shape
<1>4. Registered
  BY <1>1 DEF Init, Registered
<1>5. ASSUME NEW c \in Clients PROVE FlowOK(c)
  <2>1. /\ got[c] = <<>> /\ wire[c] = <<>> /\ events[c] = <<>> /\ ch[c] = <<>>
        /\ Held(c) = {}
    BY <1>1 DEF Init, Held
  <2> QED BY <2>1, EmptyItems DEF FlowOK, Ordered, Selected, Before
<1> QED BY <1>3, <1>4, <1>5 DEF StreamInv

\* What one client's queues, positions and bounds look like.
LEMMA ClientShape ==
  ASSUME Shape, NEW c \in Clients
  PROVE  /\ log \in Seq(Kinds) /\ Len(log) \in Nat
         /\ ch[c] \in Seq(Nat) /\ events[c] \in Seq(Nat)
         /\ wire[c] \in Seq(Nat) /\ got[c] \in Seq(Nat)
         /\ sending[c] \in Nat /\ sending[c] \in 0 .. Len(log)
         /\ since[c] \in Int
         /\ Len(ch[c]) \in 0 .. SubscriberBuffer
         /\ Len(events[c]) \in 0 .. StreamBuffer
         /\ Len(wire[c]) \in 0 .. Window
  BY DEF Shape, TypeOK, Feed!Absent

\* No step over-fills a channel or the connection, and labels stay among their
\* values.
LEMMA NextShape ==
  ASSUME StreamInv, [Next]_vars PROVE Shape'
<1>0. Shape /\ TypeOK
  BY DEF StreamInv, Shape
<1> USE StreamAssumption, <1>0 DEF busVars, serverVars, clientVars
<1>1. ASSUME NEW k \in Kinds, Publish(k) PROVE Shape'
  <2>log. /\ log' \in Seq(Kinds) /\ Len(log') = Len(log) + 1 /\ Len(log) < MaxEvents
          /\ UNCHANGED <<since, subs, chClosed, worker, events, handler, sending,
                         wire, screen, got, stop>>
    BY <1>1 DEF Publish, TypeOK
  <2>bound. ASSUME NEW c \in Clients
            PROVE  ch'[c] \in Seq(Nat) /\ Len(ch'[c]) <= SubscriberBuffer
    <3>1. \/ ch'[c] = ch[c]
          \/ ch'[c] = Append(ch[c], Len(log) + 1) /\ Len(ch[c]) < SubscriberBuffer
      BY <1>1 DEF Publish
    <3>2. /\ ch[c] \in Seq(Nat) /\ Len(log) + 1 \in Nat
          /\ Len(ch[c]) \in Nat /\ Len(ch[c]) <= SubscriberBuffer
      BY ClientShape
    <3>3. /\ Append(ch[c], Len(log) + 1) \in Seq(Nat)
          /\ Len(Append(ch[c], Len(log) + 1)) = Len(ch[c]) + 1
      BY <3>2, AppendItems
    <3>4. SubscriberBuffer \in Nat
      OBVIOUS
    <3>5. CASE ch'[c] = ch[c] BY <3>2, <3>5
    <3>6. CASE /\ ch'[c] = Append(ch[c], Len(log) + 1)
               /\ Len(ch[c]) < SubscriberBuffer
      BY <3>2, <3>3, <3>4, <3>6
    <3> QED BY <3>1, <3>5, <3>6
  <2>queues. ch' \in [Clients -> Seq(Nat)]
    BY <1>1, <2>bound DEF Publish
  <2>sends. \A c \in Clients : sending[c] \in 0 .. Len(log')
    BY <2>log, ClientShape
  <2>room. Len(log') <= MaxEvents
    BY <2>log, ClientShape DEF TypeOK
  <2> QED BY <2>log, <2>bound, <2>queues, <2>sends, <2>room DEF Shape, TypeOK
<1>2. ASSUME NEW c \in Clients, WorkerTakes(c) PROVE Shape'
  <2>1. /\ UNCHANGED <<log, since, subs, chClosed, worker, handler, sending,
                       wire, screen, got, stop>>
        /\ ch[c] # <<>> /\ ch' = [ch EXCEPT ![c] = Tail(ch[c])]
        /\ events' = [events EXCEPT ![c] =
             IF Len(events[c]) < StreamBuffer
             THEN Append(events[c], Head(ch[c])) ELSE events[c]]
    BY <1>2 DEF WorkerTakes, Shape
  <2>2. Tail(ch[c]) \in Seq(Nat) /\ Len(Tail(ch[c])) <= SubscriberBuffer
    BY <2>1, ClientShape, TailItems
  <2>3. Head(ch[c]) \in Nat
    BY <2>1, ClientShape, TailItems
  <2>4. events'[c] \in Seq(Nat) /\ Len(events'[c]) <= StreamBuffer
    BY <2>1, <2>3, ClientShape, AppendItems DEF Shape
  <2>5. /\ ch' \in [Clients -> Seq(Nat)] /\ events' \in [Clients -> Seq(Nat)]
        /\ \A d \in Clients : /\ Len(ch'[d]) <= SubscriberBuffer
                              /\ Len(events'[d]) <= StreamBuffer
    BY <2>1, <2>2, <2>4, ClientShape DEF Shape
  <2> QED BY <2>1, <2>5 DEF Shape, TypeOK
<1>3. ASSUME NEW c \in Clients, Forward(c) PROVE Shape'
  <2>1. /\ UNCHANGED <<log, since, subs, ch, chClosed, worker, wire, screen, got, stop>>
        /\ events[c] # <<>> /\ events' = [events EXCEPT ![c] = Tail(events[c])]
        /\ \/ UNCHANGED <<sending, handler>>
           \/ /\ sending' = [sending EXCEPT ![c] = Head(events[c])]
              /\ handler' = [handler EXCEPT ![c] = "send"]
    BY <1>3 DEF Forward
  <2>2. Tail(events[c]) \in Seq(Nat) /\ Len(Tail(events[c])) <= StreamBuffer
    BY <2>1, ClientShape, TailItems
  <2>3. Head(events[c]) \in 0 .. Len(log) /\ Head(events[c]) \in Nat
    <3>1. Head(events[c]) \in Items(events[c]) /\ Len(log) \in Nat
      BY <2>1, ClientShape, TailItems
    <3>2. Items(events[c]) \subseteq 1 .. Len(log)
      BY DEF StreamInv, FlowOK, Selected, Due
    <3> QED BY <3>1, <3>2
  <2>4. /\ events' \in [Clients -> Seq(Nat)]
        /\ \A d \in Clients : Len(events'[d]) <= StreamBuffer
    BY <2>1, <2>2, ClientShape DEF Shape
  <2>5. /\ sending' \in [Clients -> Nat]
        /\ \A d \in Clients : sending'[d] \in 0 .. Len(log)
    BY <2>1, <2>3, ClientShape DEF Shape
  <2>6. handler' \in [Clients -> {"none", "accepted", "run", "send", "ended"}]
    BY <2>1 DEF TypeOK
  <2> QED BY <2>1, <2>4, <2>5, <2>6 DEF Shape, TypeOK
<1>4. ASSUME NEW c \in Clients, Send(c) PROVE Shape'
  <2>1. /\ UNCHANGED <<log, since, subs, ch, chClosed, worker, events, screen, got, stop>>
        /\ Len(wire[c]) < Window
        /\ wire' = [wire EXCEPT ![c] = Append(wire[c], sending[c])]
        /\ sending' = [sending EXCEPT ![c] = 0]
        /\ handler' = [handler EXCEPT ![c] = "run"]
    BY <1>4 DEF Send
  <2>2. /\ Append(wire[c], sending[c]) \in Seq(Nat)
        /\ Len(Append(wire[c], sending[c])) <= Window
    BY <2>1, ClientShape, AppendItems
  <2>3. /\ wire' \in [Clients -> Seq(Nat)]
        /\ \A d \in Clients : Len(wire'[d]) <= Window
    BY <2>1, <2>2, ClientShape DEF Shape
  <2>4. /\ sending' \in [Clients -> Nat]
        /\ \A d \in Clients : sending'[d] \in 0 .. Len(log)
    BY <2>1, ClientShape DEF Shape
  <2>5. handler' \in [Clients -> {"none", "accepted", "run", "send", "ended"}]
    BY <2>1 DEF TypeOK
  <2> QED BY <2>1, <2>3, <2>4, <2>5 DEF Shape, TypeOK
<1>5. ASSUME NEW c \in Clients, SendFails(c) \/ ContextDone(c) PROVE Shape'
  <2>1. /\ UNCHANGED <<log, since, ch, worker, events, wire, screen, got, stop>>
        /\ handler' = [handler EXCEPT ![c] = "ended"]
        /\ sending' = sending \/ sending' = [sending EXCEPT ![c] = 0]
        /\ subs' = subs \ {c} /\ chClosed' = chClosed \cup {c}
    BY <1>5 DEF SendFails, ContextDone, Unsubscribe
  <2>2. /\ sending' \in [Clients -> Nat]
        /\ \A d \in Clients : sending'[d] \in 0 .. Len(log)
    <3>1. /\ sending \in [Clients -> Nat] /\ Len(log) \in Nat
          /\ \A d \in Clients : sending[d] \in 0 .. Len(log)
      BY ClientShape DEF Shape
    <3>2. CASE sending' = sending BY <3>1, <3>2
    <3>3. CASE sending' = [sending EXCEPT ![c] = 0] BY <3>1, <3>3
    <3> QED BY <2>1, <3>2, <3>3
  <2>3. /\ handler' \in [Clients -> {"none", "accepted", "run", "send", "ended"}]
        /\ subs' \subseteq Clients /\ chClosed' \subseteq Clients
    BY <2>1 DEF TypeOK
  <2> QED BY <2>1, <2>2, <2>3 DEF Shape, TypeOK
<1>6. ASSUME NEW c \in Clients, StreamEvents(c) PROVE Shape'
  <2>1. /\ UNCHANGED <<log, ch, chClosed, events, sending, wire, screen, got, stop>>
        /\ handler' = [handler EXCEPT ![c] = "run"]
        /\ worker' = [worker EXCEPT ![c] = "run"]
        /\ since' = [since EXCEPT ![c] = Len(log)]
        /\ subs' = subs \cup {c}
    BY <1>6 DEF StreamEvents, Subscribe
  <2>2. since' \in [Clients -> Nat \cup {Feed!Absent}]
    BY <2>1, ClientShape DEF TypeOK
  <2> QED BY <2>1, <2>2 DEF Shape, TypeOK
<1>7. ASSUME NEW c \in Clients, WorkerExits(c) \/ Accept(c) PROVE Shape'
  BY <1>7 DEF WorkerExits, Accept, Shape, TypeOK
<1>8. ASSUME NEW c \in Clients, Receive(c) PROVE Shape'
  <2>1. /\ UNCHANGED <<log, since, subs, ch, chClosed, worker, events, handler,
                       sending, screen, stop>>
        /\ wire[c] # <<>> /\ wire' = [wire EXCEPT ![c] = Tail(wire[c])]
        /\ got' = [got EXCEPT ![c] = Append(got[c], Head(wire[c]))]
    BY <1>8 DEF Receive, Shape
  <2>2. /\ Tail(wire[c]) \in Seq(Nat) /\ Len(Tail(wire[c])) <= Window
        /\ Append(got[c], Head(wire[c])) \in Seq(Nat)
    BY <2>1, ClientShape, TailItems, AppendItems
  <2>3. /\ wire' \in [Clients -> Seq(Nat)] /\ got' \in [Clients -> Seq(Nat)]
        /\ \A d \in Clients : Len(wire'[d]) <= Window
    BY <2>1, <2>2, ClientShape DEF Shape
  <2> QED BY <2>1, <2>3 DEF Shape, TypeOK
<1>9. ASSUME NEW c \in Clients, Quit(c) \/ StreamErr(c) PROVE Shape'
  <2>1. /\ UNCHANGED <<log, since, subs, ch, chClosed, worker, events, handler,
                       sending, got, stop>>
        /\ wire' = [wire EXCEPT ![c] = <<>>]
        /\ screen' \in [Clients -> {"off", "live", "left", "error"}]
    BY <1>9 DEF Quit, StreamErr, TypeOK
  <2>2. /\ wire' \in [Clients -> Seq(Nat)]
        /\ \A d \in Clients : Len(wire'[d]) <= Window
    BY <2>1, EmptyItems, ClientShape DEF Shape
  <2> QED BY <2>1, <2>2 DEF Shape, TypeOK
<1>10. CASE Shutdown \/ CloseBus \/ BusClosed \/ StopDeadline \/ UNCHANGED vars
  BY <1>10 DEF Shutdown, CloseBus, BusClosed, StopDeadline, vars, Shape, TypeOK
<1> QED
  BY <1>1, <1>2, <1>3, <1>4, <1>5, <1>6, <1>7, <1>8, <1>9, <1>10 DEF Next

--------------------------------------------------------------------------------
(* Streams and their channels. *)

\* A stream is registered while it runs, and its channel closes with it.
LEMMA NextRegistered ==
  ASSUME StreamInv, [Next]_vars PROVE Registered'
<1>0. Shape /\ TypeOK /\ Registered
  BY DEF StreamInv, Shape
<1> USE <1>0 DEF busVars, serverVars, clientVars
<1>12. Len(log) \in Nat /\ \A d \in Clients : since[d] \in Int
  BY DEF TypeOK, Feed!Absent
<1>1. ASSUME UNCHANGED <<subs, chClosed, handler, since, sending>>,
             log' = log \/ Len(log') = Len(log) + 1,
             \A d \in Clients : screen'[d] = "off" => screen[d] = "off"
      PROVE  Registered'
  BY <1>12, <1>1 DEF Registered, Feed!Absent
<1>2. CASE \E k \in Kinds : Publish(k)
  <2>1. /\ UNCHANGED <<subs, chClosed, handler, since, sending, screen>>
        /\ Len(log') = Len(log) + 1
    BY <1>2 DEF Publish, TypeOK
  <2> QED BY <1>1, <2>1
<1>3. CASE \E c \in Clients : WorkerTakes(c) \/ WorkerExits(c) \/ Receive(c)
  BY <1>1, <1>3 DEF WorkerTakes, WorkerExits, Receive
<1>4. CASE \E c \in Clients : Quit(c) \/ StreamErr(c)
  BY <1>1, <1>4 DEF Quit, StreamErr, TypeOK
<1>5. CASE Shutdown \/ CloseBus \/ BusClosed \/ StopDeadline \/ UNCHANGED vars
  BY <1>1, <1>5 DEF Shutdown, CloseBus, BusClosed, StopDeadline, vars
<1>6. ASSUME NEW c \in Clients, Accept(c) PROVE Registered'
  BY <1>6 DEF Accept, Registered, TypeOK, Feed!Absent
<1>7. ASSUME NEW c \in Clients, StreamEvents(c) PROVE Registered'
  <2>1. /\ UNCHANGED <<log, chClosed, sending, screen>> /\ handler[c] = "accepted"
        /\ handler' = [handler EXCEPT ![c] = "run"]
        /\ since' = [since EXCEPT ![c] = Len(log)]
        /\ subs' = subs \cup {c}
    BY <1>7 DEF StreamEvents, Subscribe
  <2>2. Len(log) # Feed!Absent
    BY <1>12 DEF Feed!Absent
  <2> QED BY <1>12, <2>1, <2>2 DEF Registered, TypeOK, Feed!Absent
<1>8. ASSUME NEW c \in Clients, Forward(c) PROVE Registered'
  <2>1. /\ UNCHANGED <<log, chClosed, screen, since, subs>> /\ handler[c] = "run"
        /\ events[c] # <<>>
        /\ \/ UNCHANGED <<sending, handler>>
           \/ /\ sending' = [sending EXCEPT ![c] = Head(events[c])]
              /\ handler' = [handler EXCEPT ![c] = "send"]
    BY <1>8 DEF Forward
  <2>2. CASE UNCHANGED <<sending, handler>>
    BY <1>1, <2>1, <2>2
  <2>3. CASE /\ sending' = [sending EXCEPT ![c] = Head(events[c])]
             /\ handler' = [handler EXCEPT ![c] = "send"]
    <3>1. Head(events[c]) \in Items(events[c])
      BY <2>1, ClientShape, TailItems
    <3>2. Items(events[c]) \subseteq 1 .. Len(log)
      BY DEF StreamInv, FlowOK, Selected, Due
    <3>3. Head(events[c]) # 0
      BY <1>12, <3>1, <3>2
    <3> QED BY <2>1, <2>3, <3>3 DEF Registered, TypeOK, Shape, Feed!Absent
  <2> QED BY <2>1, <2>2, <2>3
<1>9. ASSUME NEW c \in Clients, Send(c) PROVE Registered'
  BY <1>9 DEF Send, Registered, TypeOK, Shape, Feed!Absent
<1>10. ASSUME NEW c \in Clients, SendFails(c) PROVE Registered'
  BY <1>10 DEF SendFails, Unsubscribe, Registered, TypeOK, Shape, Feed!Absent
<1>11. ASSUME NEW c \in Clients, ContextDone(c) PROVE Registered'
  BY <1>11 DEF ContextDone, Unsubscribe, Registered, TypeOK, Shape, Feed!Absent
<1> QED
  BY <1>2, <1>3, <1>4, <1>5, <1>6, <1>7, <1>8, <1>9, <1>10, <1>11 DEF Next

--------------------------------------------------------------------------------
(* The flow of events. *)

\* A step that leaves a client's stages and the log alone keeps its flow.
LEMMA Undisturbed ==
  ASSUME NEW d \in Clients, FlowOK(d), log' = log, since'[d] = since[d],
         got'[d] = got[d], wire'[d] = wire[d], sending'[d] = sending[d],
         events'[d] = events[d], ch'[d] = ch[d]
  PROVE  FlowOK(d)'
BY DEF FlowOK, Due, Sendable, Held, Feed!Absent

\* Every step keeps every client's stages in order.
LEMMA NextFlow ==
  ASSUME StreamInv, [Next]_vars, NEW d \in Clients PROVE FlowOK(d)'
<1>0. Shape /\ TypeOK /\ Registered /\ FlowOK(d)
  BY DEF StreamInv, Shape
<1> DEFINE g == Items(got[d])
           w == wire[d]
           h == Held(d)
           e == events[d]
           q == ch[d]
<1>11. Ordered(g, w, h, e, q) /\ Selected(g, w, h, e, q, Due(d), Sendable)
  BY <1>0 DEF FlowOK
<1>12. /\ w \in Seq(Nat) /\ e \in Seq(Nat) /\ q \in Seq(Nat) /\ got[d] \in Seq(Nat)
      /\ sending[d] \in Nat /\ Len(log) \in Nat
  BY <1>0, ClientShape
<1> HIDE DEF g, w, h, e, q
<1> USE DEF busVars, serverVars, clientVars
<1>1. ASSUME NEW k \in Kinds, Publish(k) PROVE FlowOK(d)'
  <2>1. /\ Len(log') = Len(log) + 1 /\ log'[Len(log) + 1] = k
        /\ \A n \in 1 .. Len(log) : log'[n] = log[n]
        /\ UNCHANGED <<since, subs, got, wire, sending, events>>
    BY <1>0, <1>1 DEF Publish, TypeOK
  <2>2. Due(d) \subseteq Due(d)' /\ Sendable \subseteq Sendable'
    BY <1>12, <2>1 DEF Due, Sendable, Feed!Absent
  <2>3. Held(d)' = h /\ Items(got[d])' = g /\ wire'[d] = w /\ events'[d] = e
    BY <2>1 DEF Held, g, h, w, e
  <2>4. CASE ch'[d] = q
    BY <1>11, <2>2, <2>3, <2>4, FlowGrows DEF FlowOK
  <2>5. CASE ch'[d] # q
    <3> DEFINE n == Len(log) + 1
    <3>1. d \in subs /\ k \in Wants[d] /\ ch'[d] = Append(q, n)
      BY <1>1, <2>5 DEF Publish, q
    <3>2. since[d] # Feed!Absent /\ since[d] <= Len(log) /\ since[d] \in Int
      BY <1>0, <3>1, ClientShape DEF Registered
    <3>3. n \in Nat /\ n \in 1 .. Len(log') /\ log'[n] = k /\ since'[d] < n
      BY <1>12, <2>1, <3>2
    <3>4. \A m \in Due(d) : m < n
      BY <1>12 DEF Due
    <3> HIDE DEF n
    <3>5. Due(d) \cup {n} \subseteq Due(d)'
      BY <2>1, <2>2, <3>1, <3>2, <3>3 DEF Due, Feed!Absent
    <3>6. /\ Ordered(g, w, h, e, Append(q, n))
          /\ Selected(g, w, h, e, Append(q, n), Due(d) \cup {n}, Sendable)
      BY <1>11, <1>12, <3>3, <3>4, FlowPublish
    <3>7. Selected(g, w, h, e, Append(q, n), Due(d)', Sendable')
      BY <2>2, <3>5, <3>6, FlowGrows
    <3> QED BY <2>3, <3>1, <3>6, <3>7 DEF FlowOK
  <2> QED BY <2>4, <2>5
<1>2. ASSUME NEW c \in Clients, WorkerTakes(c) PROVE FlowOK(d)'
  <2>1. /\ UNCHANGED <<log, since, sending, wire, got>> /\ ch[c] # <<>>
        /\ ch' = [ch EXCEPT ![c] = Tail(ch[c])]
        /\ events' = [events EXCEPT ![c] =
             IF Len(events[c]) < StreamBuffer
             THEN Append(events[c], Head(ch[c])) ELSE events[c]]
    BY <1>0, <1>2 DEF WorkerTakes, Shape
  <2>2. CASE c # d
    BY <1>0, <2>1, <2>2, Undisturbed
  <2>3. CASE c = d
    <3>1. /\ ch'[d] = Tail(q) /\ q # <<>>
          /\ events'[d] = e \/ events'[d] = Append(e, Head(q))
      BY <1>0, <2>1, <2>3 DEF Shape, e, q
    <3>2. /\ Held(d)' = h /\ Items(got[d])' = g /\ wire'[d] = w
          /\ Due(d)' = Due(d) /\ Sendable' = Sendable
      BY <2>1 DEF Held, Due, Sendable, Feed!Absent, g, h, w
    <3>3. /\ Ordered(g, w, h, events'[d], ch'[d])
          /\ Selected(g, w, h, events'[d], ch'[d], Due(d), Sendable)
      BY <1>11, <1>12, <3>1, FlowTake
    <3> QED BY <3>2, <3>3 DEF FlowOK
  <2> QED BY <2>2, <2>3
<1>3. ASSUME NEW c \in Clients, Forward(c) PROVE FlowOK(d)'
  <2>1. /\ UNCHANGED <<log, since, ch, wire, got>> /\ events[c] # <<>>
        /\ handler[c] = "run"
        /\ events' = [events EXCEPT ![c] = Tail(events[c])]
        /\ \/ UNCHANGED sending
           \/ /\ sending' = [sending EXCEPT ![c] = Head(events[c])]
              /\ log[Head(events[c])] \in Typed
    BY <1>3 DEF Forward, ToProtoEvent
  <2>2. CASE c # d
    BY <1>0, <2>1, <2>2, Undisturbed DEF Shape
  <2>3. CASE c = d
    <3>1. /\ events'[d] = Tail(e) /\ e # <<>> /\ sending[d] = 0 /\ h = {}
      BY <1>0, <2>1, <2>3 DEF Shape, e, h, Held, Registered
    <3>2. Head(e) \in 1 .. Len(log)
      <4>1. Head(e) \in Items(e)
        BY <1>12, <3>1, TailItems
      <4> QED BY <1>11, <4>1 DEF Selected, Due
    <3>3. \/ Held(d)' = {}
          \/ Held(d)' = {Head(e)} /\ Head(e) \in Sendable
      BY <1>0, <1>12, <2>1, <2>3, <3>1, <3>2 DEF Held, Shape, e, Sendable
    <3>4. /\ Items(got[d])' = g /\ wire'[d] = w /\ ch'[d] = q
          /\ Due(d)' = Due(d) /\ Sendable' = Sendable
      BY <2>1 DEF Due, Sendable, Feed!Absent, g, q, w
    <3>5. /\ Ordered(g, w, Held(d)', events'[d], q)
          /\ Selected(g, w, Held(d)', events'[d], q, Due(d), Sendable)
      <4>1. Ordered(g, w, {}, e, q) /\ Selected(g, w, {}, e, q, Due(d), Sendable)
        BY <1>11, <3>1
      <4> QED BY <1>12, <3>1, <3>3, <4>1, FlowForward
    <3> QED BY <3>4, <3>5 DEF FlowOK
  <2> QED BY <2>2, <2>3
<1>4. ASSUME NEW c \in Clients, Send(c) PROVE FlowOK(d)'
  <2>1. /\ UNCHANGED <<log, since, ch, events, got>>
        /\ handler[c] = "send"
        /\ wire' = [wire EXCEPT ![c] = Append(wire[c], sending[c])]
        /\ sending' = [sending EXCEPT ![c] = 0]
    BY <1>4 DEF Send
  <2>2. CASE c # d
    BY <1>0, <2>1, <2>2, Undisturbed DEF Shape
  <2>3. CASE c = d
    <3>1. /\ wire'[d] = Append(w, sending[d]) /\ Held(d)' = {}
          /\ h = {sending[d]}
      BY <1>0, <2>1, <2>3 DEF Shape, w, h, Held, Registered
    <3>2. /\ Items(got[d])' = g /\ events'[d] = e /\ ch'[d] = q
          /\ Due(d)' = Due(d) /\ Sendable' = Sendable
      BY <2>1 DEF Due, Sendable, Feed!Absent, g, e, q
    <3>3. /\ Ordered(g, Append(w, sending[d]), {}, e, q)
          /\ Selected(g, Append(w, sending[d]), {}, e, q, Due(d), Sendable)
      <4>1. /\ Ordered(g, w, {sending[d]}, e, q)
            /\ Selected(g, w, {sending[d]}, e, q, Due(d), Sendable)
        BY <1>11, <3>1
      <4> QED BY <1>12, <4>1, FlowSend
    <3> QED BY <3>1, <3>2, <3>3 DEF FlowOK
  <2> QED BY <2>2, <2>3
<1>5. ASSUME NEW c \in Clients, SendFails(c) \/ ContextDone(c) PROVE FlowOK(d)'
  <2>1. /\ UNCHANGED <<log, since, ch, events, wire, got>>
        /\ sending' = sending \/ sending' = [sending EXCEPT ![c] = 0]
    BY <1>5 DEF SendFails, ContextDone, Unsubscribe
  <2>2. CASE sending'[d] = sending[d]
    BY <1>0, <2>1, <2>2, Undisturbed
  <2>3. CASE sending'[d] # sending[d]
    <3>1. Held(d)' = {}
      BY <1>0, <2>1, <2>3 DEF Held, Shape
    <3>2. /\ Items(got[d])' = g /\ wire'[d] = w /\ events'[d] = e /\ ch'[d] = q
          /\ Due(d)' = Due(d) /\ Sendable' = Sendable
      BY <2>1 DEF Due, Sendable, Feed!Absent, g, w, e, q
    <3>3. /\ Ordered(g, w, {}, e, q)
          /\ Selected(g, w, {}, e, q, Due(d), Sendable)
      BY <1>11, FlowLoses
    <3> QED BY <3>1, <3>2, <3>3 DEF FlowOK
  <2> QED BY <2>2, <2>3
<1>6. ASSUME NEW c \in Clients, StreamEvents(c) PROVE FlowOK(d)'
  <2>1. /\ UNCHANGED <<log, ch, events, sending, wire, got>>
        /\ handler[c] = "accepted"
        /\ since' = [since EXCEPT ![c] = Len(log)]
    BY <1>6 DEF StreamEvents, Subscribe
  <2>2. CASE c # d
    BY <1>0, <2>1, <2>2, Undisturbed DEF TypeOK
  <2>3. CASE c = d
    <3>1. Due(d) = {}
      BY <1>0, <2>1, <2>3 DEF Registered, Due
    <3>2. /\ Held(d)' = h /\ Items(got[d])' = g /\ wire'[d] = w
          /\ events'[d] = e /\ ch'[d] = q /\ Sendable' = Sendable
      BY <2>1 DEF Held, Sendable, g, h, w, e, q
    <3>3. Selected(g, w, h, e, q, Due(d)', Sendable)
      <4>1. Due(d) \subseteq Due(d)'
        BY <3>1
      <4> QED BY <1>11, <4>1, FlowGrows
    <3> QED BY <1>11, <3>2, <3>3 DEF FlowOK
  <2> QED BY <2>2, <2>3
<1>7. ASSUME NEW c \in Clients, WorkerExits(c) \/ Accept(c) PROVE FlowOK(d)'
  BY <1>0, <1>7, Undisturbed DEF WorkerExits, Accept
<1>8. ASSUME NEW c \in Clients, Receive(c) PROVE FlowOK(d)'
  <2>1. /\ UNCHANGED <<log, since, ch, events, sending>> /\ wire[c] # <<>>
        /\ wire' = [wire EXCEPT ![c] = Tail(wire[c])]
        /\ got' = [got EXCEPT ![c] = Append(got[c], Head(wire[c]))]
    BY <1>0, <1>8 DEF Receive, Shape
  <2>2. CASE c # d
    BY <1>0, <2>1, <2>2, Undisturbed DEF Shape
  <2>3. CASE c = d
    <3>1. /\ wire'[d] = Tail(w) /\ w # <<>> /\ got'[d] = Append(got[d], Head(w))
      BY <1>0, <2>1, <2>3 DEF Shape, w
    <3>2. Items(got[d])' = g \cup {Head(w)}
      BY <1>12, <3>1, TailItems, AppendItems DEF g
    <3>3. /\ Held(d)' = h /\ events'[d] = e /\ ch'[d] = q
          /\ Due(d)' = Due(d) /\ Sendable' = Sendable
      BY <2>1 DEF Held, Due, Sendable, Feed!Absent, h, e, q
    <3>4. /\ Ordered(g \cup {Head(w)}, Tail(w), h, e, q)
          /\ Selected(g \cup {Head(w)}, Tail(w), h, e, q, Due(d), Sendable)
      BY <1>11, <1>12, <3>1, FlowReceive
    <3> QED BY <3>1, <3>2, <3>3, <3>4 DEF FlowOK
  <2> QED BY <2>2, <2>3
<1>9. ASSUME NEW c \in Clients, Quit(c) \/ StreamErr(c) PROVE FlowOK(d)'
  <2>1. /\ UNCHANGED <<log, since, ch, events, sending, got>>
        /\ wire' = [wire EXCEPT ![c] = <<>>]
    BY <1>9 DEF Quit, StreamErr
  <2>2. CASE c # d
    BY <1>0, <2>1, <2>2, Undisturbed DEF Shape
  <2>3. CASE c = d
    <3>1. wire'[d] = <<>>
      BY <1>0, <2>1, <2>3 DEF Shape
    <3>2. /\ Held(d)' = h /\ Items(got[d])' = g /\ events'[d] = e /\ ch'[d] = q
          /\ Due(d)' = Due(d) /\ Sendable' = Sendable
      BY <2>1 DEF Held, Due, Sendable, Feed!Absent, g, h, e, q
    <3>3. /\ Ordered(g, <<>>, h, e, q)
          /\ Selected(g, <<>>, h, e, q, Due(d), Sendable)
      BY <1>11, FlowLoses
    <3> QED BY <3>1, <3>2, <3>3 DEF FlowOK
  <2> QED BY <2>2, <2>3
<1>10. CASE Shutdown \/ CloseBus \/ BusClosed \/ StopDeadline \/ UNCHANGED vars
  BY <1>0, <1>10, Undisturbed DEF Shutdown, CloseBus, BusClosed, StopDeadline, vars
<1> QED
  BY <1>1, <1>2, <1>3, <1>4, <1>5, <1>6, <1>7, <1>8, <1>9, <1>10 DEF Next

\* The invariant holds throughout.
THEOREM StreamInvariance == Spec => []StreamInv
<1>1. StreamInv /\ [Next]_vars => StreamInv'
  BY NextShape, NextRegistered, NextFlow DEF StreamInv
<1> QED BY <1>1, InitIndInv, PTL DEF Spec

\* No publication ever meets a closed channel, no stream runs unregistered and no
\* channel is over-filled, for any clients and capacities.
THEOREM NeverSendOnClosed == Spec => []NoSendOnClosed
<1>1. StreamInv => NoSendOnClosed
  <2> SUFFICES ASSUME StreamInv PROVE NoSendOnClosed
    OBVIOUS
  <2>1. /\ TypeOK /\ subs \subseteq Clients
        /\ \A c \in Clients : handler[c] \in {"run", "send"} <=> c \in subs
        /\ \A c \in Clients : c \in chClosed <=> handler[c] = "ended"
    BY DEF StreamInv, Shape, Registered, TypeOK
  <2>2. subs \cap chClosed = {}
    BY <2>1
  <2> QED BY <2>1, <2>2 DEF NoSendOnClosed
<1> QED BY <1>1, StreamInvariance, PTL

--------------------------------------------------------------------------------
(* The abstract feed. *)

\* What the client reads is newer than what it has shown.
LEMMA ReceiveIsNew ==
  ASSUME StreamInv, NEW c \in Clients, wire[c] # <<>>
  PROVE  /\ Head(wire[c]) \in 1 .. Len(log)
         /\ since[c] # Feed!Absent /\ Head(wire[c]) > since[c]
         /\ Head(wire[c]) > Feed!Last(got[c])
         /\ log[Head(wire[c])] \in Wants[c] \cap Typed
<1> DEFINE n == Head(wire[c])
<1>1. /\ wire[c] \in Seq(Nat) /\ got[c] \in Seq(Nat) /\ since[c] \in Int
      /\ Len(log) \in Nat /\ Len(got[c]) \in Nat
  BY ClientShape DEF StreamInv
<1>2. n \in Items(wire[c])
  BY <1>1, TailItems
<1> HIDE DEF n
<1>3. n \in Due(c) /\ n \in Sendable
  BY <1>2 DEF StreamInv, FlowOK, Selected
<1>4. \A m \in Items(got[c]) : m < n
  BY <1>2 DEF StreamInv, FlowOK, Ordered, Before
<1>5. n > Feed!Last(got[c])
  <2>1. CASE got[c] = <<>>
    BY <1>1, <1>3, <2>1 DEF Feed!Last, Due
  <2>2. CASE got[c] # <<>>
    <3>1. Len(got[c]) \in 1 .. Len(got[c])
      BY <1>1, <2>2
    <3>2. got[c][Len(got[c])] \in Items(got[c])
      BY <3>1 DEF Items
    <3>3. got[c][Len(got[c])] \in Nat /\ n \in Nat
      BY <1>1, <1>3, <3>1 DEF Due
    <3> QED BY <1>4, <2>2, <3>2, <3>3 DEF Feed!Last
  <2> QED BY <2>1, <2>2
<1>6. n > since[c]
  BY <1>1, <1>3 DEF Due
<1> QED BY <1>3, <1>5, <1>6 DEF Due, Sendable, n

\* A step of the bus, the server or the client is one of the feed, or changes
\* nothing the feed speaks of.
LEMMA NextIsFeed ==
  ASSUME StreamInv, [Next]_vars
  PROVE  [Feed!Next]_<<log, since, got>>
<1> USE DEF busVars, serverVars, clientVars
<1>1. ASSUME NEW k \in Kinds, Publish(k) PROVE Feed!Next
  BY <1>1 DEF Publish, Feed!Next, Feed!Publish
<1>2. ASSUME NEW c \in Clients, StreamEvents(c) PROVE Feed!Next
  <2>1. Feed!Join(c)
    BY <1>2 DEF StreamEvents, Subscribe, Feed!Join, StreamInv, Registered
  <2> QED BY <2>1 DEF Feed!Next
<1>3. ASSUME NEW c \in Clients, Receive(c) PROVE Feed!Next
  <2>1. /\ UNCHANGED <<log, since>> /\ wire[c] # <<>>
        /\ got' = [got EXCEPT ![c] = Append(@, Head(wire[c]))]
    BY <1>3 DEF Receive
  <2>2. Feed!Deliver(c)
    BY <2>1, ReceiveIsNew DEF Feed!Deliver
  <2> QED BY <2>2 DEF Feed!Next
<1>4. CASE \E c \in Clients : WorkerTakes(c) \/ WorkerExits(c) \/ Accept(c)
                              \/ Forward(c) \/ Send(c)
  BY <1>4 DEF WorkerTakes, WorkerExits, Accept, Forward, Send
<1>5. CASE \E c \in Clients : SendFails(c) \/ ContextDone(c) \/ Quit(c) \/ StreamErr(c)
  BY <1>5 DEF SendFails, ContextDone, Quit, StreamErr, Unsubscribe
<1>6. CASE Shutdown \/ CloseBus \/ BusClosed \/ StopDeadline \/ UNCHANGED vars
  BY <1>6 DEF Shutdown, CloseBus, BusClosed, StopDeadline, vars
<1> QED BY <1>1, <1>2, <1>3, <1>4, <1>5, <1>6 DEF Next

\* Two channels that drop and a connection that breaks implement the lossy feed:
\* a client never sees an event twice, out of order, from before it subscribed or
\* of a subject it did not ask for.
THEOREM StreamIsFeed == Spec => FeedSpec
<1>1. Init => Feed!Init
  BY DEF Init
<1>2. StreamInv /\ [Next]_vars => [Feed!Next]_<<log, since, got>>
  BY NextIsFeed
<1> QED BY <1>1, <1>2, StreamInvariance, PTL DEF Spec, FeedSpec, Feed!Spec

--------------------------------------------------------------------------------
(* OrderPages: keyset pagination.  The order of rows. *)

\* What the query compares: a key of the table.
Keyed(k) == k.id \in Nat /\ k.createdAt \in Nat

\* The row comparison is a strict total order of keys.
LEMMA BelowOrders ==
  ASSUME NEW a, NEW b, NEW c, Keyed(a), Keyed(b), Keyed(c)
  PROVE  /\ ~Below(a, a)
         /\ Below(a, b) /\ Below(b, c) => Below(a, c)
         /\ Below(a, b) => ~Below(b, a)
         /\ a.id # b.id => Below(a, b) \/ Below(b, a)
  BY DEF Keyed, Below

\* It looks at the key alone.
LEMMA BelowKey ==
  ASSUME NEW a, NEW b
  PROVE  Below(a, Key(b)) <=> Below(a, b)
  BY DEF Below, Key

\* Rows of the table: finitely many, and one for each ID.
Rows(rows) == /\ IsFiniteSet(rows)
              /\ \A o \in rows : Keyed(o)
              /\ \A o, q \in rows : o.id = q.id => o = q

Above(rows, o) == {q \in rows : Below(o, q)}

\* Some of the rows are rows.
LEMMA SomeRows ==
  ASSUME NEW rows, Rows(rows), NEW some \in SUBSET rows
  PROVE  Rows(some)
  BY FS_Subset DEF Rows

\* A row that is below another has strictly more above it.
LEMMA AboveGrows ==
  ASSUME NEW rows, Rows(rows), NEW o \in rows, NEW q \in rows
  PROVE  /\ IsFiniteSet(Above(rows, o)) /\ Cardinality(Above(rows, o)) \in Nat
         /\ Below(o, q) => Cardinality(Above(rows, q)) < Cardinality(Above(rows, o))
<1> DEFINE ao == Above(rows, o)
           aq == Above(rows, q)
<1>1. ao \in SUBSET rows /\ aq \in SUBSET rows
  BY DEF Above
<1>2. IsFiniteSet(ao) /\ Cardinality(ao) \in Nat /\ IsFiniteSet(aq) /\ Cardinality(aq) \in Nat
  BY <1>1, FS_Subset, FS_CardinalityType DEF Rows
<1>3. ASSUME Below(o, q) PROVE Cardinality(aq) < Cardinality(ao)
  <2>1. aq \in SUBSET ao
    BY <1>3, BelowOrders DEF Above, Rows
  <2>2. q \in ao /\ q \notin aq
    BY <1>3, BelowOrders DEF Above, Rows
  <2> HIDE DEF ao, aq
  <2>3. Cardinality(aq) <= Cardinality(ao) /\ (Cardinality(ao) = Cardinality(aq) => ao = aq)
    BY <1>2, <2>1, FS_Subset
  <2>4. Cardinality(ao) # Cardinality(aq)
    BY <2>2, <2>3
  <2> QED BY <1>2, <2>3, <2>4
<1> QED BY <1>2, <1>3

\* The first rows of a query, by their rank.
LEMMA FirstRowsIs ==
  ASSUME NEW rows, NEW n
  PROVE  FirstRows(rows, n) = {o \in rows : Cardinality(Above(rows, o)) < n}
<1>1. \A o : {q \in rows : Below(o, Key(q))} = Above(rows, o)
  BY BelowKey DEF Above
<1> QED BY <1>1 DEF FirstRows

\* A row that LIMIT cuts off is below every row that it keeps.
LEMMA CutBelow ==
  ASSUME NEW rows, Rows(rows), NEW n \in Nat,
         NEW o \in rows \ FirstRows(rows, n), NEW q \in FirstRows(rows, n)
  PROVE  Below(o, q)
<1>1. /\ o \in rows /\ q \in rows /\ o # q
      /\ ~(Cardinality(Above(rows, o)) < n) /\ Cardinality(Above(rows, q)) < n
  BY FirstRowsIs
<1>2. Below(o, q) \/ Below(q, o)
  BY <1>1, BelowOrders DEF Rows
<1>3. /\ Cardinality(Above(rows, o)) \in Nat /\ Cardinality(Above(rows, q)) \in Nat
      /\ Below(q, o) => Cardinality(Above(rows, o)) < Cardinality(Above(rows, q))
  BY <1>1, AboveGrows
<1> QED BY <1>1, <1>2, <1>3

\* LIMIT cuts nothing off before the page is full.
LEMMA CutFull ==
  ASSUME NEW rows, Rows(rows), NEW n \in Nat,
         rows \ FirstRows(rows, n) # {}
  PROVE  Cardinality(FirstRows(rows, n)) >= n
<1> DEFINE rank(o) == Cardinality(Above(rows, o))
           cut == rows \ FirstRows(rows, n)
           ranks == {rank(o) : o \in cut}
<1>1. ranks \subseteq Nat /\ ranks # {}
  BY AboveGrows
<1>2. PICK r \in ranks : \A s \in ranks : ~(s < r)
  <2>1. PICK r \in ranks : \A s \in ranks : ~(<<s, r>> \in OpToRel(<, Nat))
    <3> HIDE DEF ranks
    <3> QED BY <1>1, NatLessThanWellFounded, WFMin
  <2> QED BY <1>1, <2>1 DEF OpToRel
<1>3. PICK o \in cut : rank(o) = r
  BY <1>2
<1>4. o \in rows /\ ~(rank(o) < n)
  BY <1>3, FirstRowsIs
<1>5. Above(rows, o) \in SUBSET FirstRows(rows, n)
  <2> SUFFICES ASSUME NEW q \in Above(rows, o) PROVE q \in FirstRows(rows, n)
    OBVIOUS
  <2>1. q \in rows /\ Below(o, q)
    BY DEF Above
  <2>2. rank(q) < rank(o)
    BY <1>4, <2>1, AboveGrows
  <2>3. q \in cut => rank(q) \in ranks
    OBVIOUS
  <2> QED BY <1>2, <1>3, <2>1, <2>2, <2>3
<1>6. IsFiniteSet(FirstRows(rows, n))
  BY FirstRowsIs, FS_Subset DEF Rows
<1>7. rank(o) <= Cardinality(FirstRows(rows, n)) /\ rank(o) \in Nat
  BY <1>4, <1>5, <1>6, FS_Subset, AboveGrows
<1>8. Cardinality(FirstRows(rows, n)) \in Nat
  BY <1>6, FS_CardinalityType
<1> QED BY <1>4, <1>7, <1>8

--------------------------------------------------------------------------------
(* Statuses on the wire. *)

\* A stored status survives the way to the terminal, and a text the way to the query;
\* every other text is refused.
LEMMA StatusWire ==
  ASSUME NEW s
  PROVE  /\ s \in Status => OrderStatusText(ToProtoOrderStatus(s)) = s
         /\ s \in Status => FromProtoOrderStatus(ParseOrderStatus(s)) = s
         /\ s \notin Status => ParseOrderStatus(s) = 0
<1>1. /\ DOMAIN EnumNames = 1 .. 7
      /\ EnumNames[1] = "pending" /\ EnumNames[2] = "open"
      /\ EnumNames[3] = "partially_filled" /\ EnumNames[4] = "filled"
      /\ EnumNames[5] = "canceled" /\ EnumNames[6] = "rejected" /\ EnumNames[7] = "expired"
  BY DEF EnumNames
<1>2. ASSUME s \in Status
      PROVE  \E n \in 1 .. 7 : EnumNames[n] = s
  BY <1>1, <1>2 DEF Status
<1>3. ASSUME s \in Status
      PROVE  OrderStatusText(ToProtoOrderStatus(s)) = s
  BY <1>1, <1>2, <1>3 DEF OrderStatusText, ToProtoOrderStatus
<1>4. ASSUME s \in Status
      PROVE  FromProtoOrderStatus(ParseOrderStatus(s)) = s
  <2>1. PICK n \in 1 .. 7 : n = ParseOrderStatus(s) /\ EnumNames[n] = s
    BY <1>1, <1>2, <1>4 DEF ParseOrderStatus
  <2>2. n = 1 \/ n = 2 \/ n = 3 \/ n = 4 \/ n = 5 \/ n = 6 \/ n = 7
    OBVIOUS
  <2>3. FromProtoOrderStatus(n) = EnumNames[n]
    BY <1>1, <2>2 DEF FromProtoOrderStatus
  <2> QED BY <2>1, <2>3
<1>5. s \notin Status => ParseOrderStatus(s) = 0
  BY DEF ParseOrderStatus
<1> QED BY <1>3, <1>4, <1>5

\* The filter of a list that is not refused is what the client asked for.
LEMMA FilterIsAsked ==
  ASSUME 0 \notin {ParseOrderStatus(text) : text \in asked}
  PROVE  /\ asked \subseteq Status
         /\ OrderFilter({ParseOrderStatus(text) : text \in asked}) = asked
<1>1. asked \subseteq Status
  BY StatusWire
<1>2. \A text \in asked : FromProtoOrderStatus(ParseOrderStatus(text)) = text
  BY <1>1, StatusWire
<1> QED BY <1>1, <1>2 DEF OrderFilter

--------------------------------------------------------------------------------
(* A page. *)

\* A line carries its row's key.
LEMMA LineKey ==
  ASSUME NEW o
  PROVE  /\ Line(o).id = o.id /\ Line(o).createdAt = o.createdAt
         /\ Line(o).stored = o.status
         /\ Line(o).text = OrderStatusText(ToProtoOrderStatus(o.status))
  BY DEF Line

\* The rows shown and their lines: a sorted page of at most n lines that lists every
\* row shown and no other, with the lowest of them last.
Page(rows, n, shown, lines) ==
  /\ shown \subseteq rows /\ Rows(shown)
  /\ Cardinality(shown) \in Nat /\ Cardinality(shown) <= n
  /\ lines \in [1 .. Cardinality(shown) -> {Line(o) : o \in shown}]
  /\ \A i, j \in 1 .. Cardinality(shown) : i < j => Below(lines[j], lines[i])
  /\ \A o \in shown : \E i \in 1 .. Cardinality(shown) : lines[i] = Line(o)
  /\ shown # {} => \E l \in shown : \A q \in shown : q = l \/ Below(l, q)

\* The sorted lines of the first n rows are such a page: all but the lowest of them
\* are among the fewer than n rows above it.
LEMMA FirstRowsPage ==
  ASSUME NEW rows, Rows(rows), NEW n \in Nat, NEW shown, shown = FirstRows(rows, n),
         NEW lines \in Lines(shown)
  PROVE  Page(rows, n, shown, lines)
<1> DEFINE k == Cardinality(shown)
<1>1. shown \in SUBSET rows /\ Rows(shown)
  BY FirstRowsIs, SomeRows
<1>2. k \in Nat /\ (k = 0 <=> shown = {})
  BY <1>1, FS_CardinalityType, FS_EmptySet DEF Rows
<1>3. /\ lines \in [1 .. k -> {Line(o) : o \in shown}]
      /\ \A i, j \in 1 .. k : i < j => Below(lines[j], lines[i])
      /\ \A o \in shown : \E i \in 1 .. k : lines[i] = Line(o)
  BY DEF Lines
<1> HIDE DEF k
<1>4. ASSUME shown # {}
      PROVE  \E l \in shown : \A q \in shown : q = l \/ Below(l, q)
  <2>1. k >= 1 /\ k \in 1 .. k
    BY <1>2, <1>4
  <2>2. PICK l \in shown : lines[k] = Line(l)
    BY <1>3, <2>1
  <2>3. ASSUME NEW q \in shown PROVE q = l \/ Below(l, q)
    <3>1. PICK i \in 1 .. k : lines[i] = Line(q)
      BY <1>3
    <3>2. CASE i = k
      <4>1. q.id = l.id
        BY <2>2, <3>1, <3>2, LineKey
      <4> QED BY <1>1, <4>1 DEF Rows
    <3>3. CASE i # k
      <4>1. Below(Line(l), Line(q))
        BY <1>2, <1>3, <2>1, <2>2, <3>1, <3>3
      <4> QED BY <4>1, LineKey DEF Below
    <3> QED BY <3>2, <3>3
  <2> QED BY <2>1, <2>2, <2>3
<1>5. k <= n
  <2>1. CASE shown = {} BY <1>2, <2>1
  <2>2. CASE shown # {}
    <3>1. PICK l \in shown : \A q \in shown : q = l \/ Below(l, q)
      BY <1>4, <2>2
    <3>2. l \in rows /\ Cardinality(Above(rows, l)) < n
      BY FirstRowsIs
    <3>3. IsFiniteSet(Above(rows, l)) /\ Cardinality(Above(rows, l)) \in Nat
      BY <3>2, AboveGrows
    <3>4. shown \ {l} \in SUBSET Above(rows, l)
      BY <1>1, <3>1 DEF Above
    <3>5. Cardinality(shown \ {l}) <= Cardinality(Above(rows, l))
      BY <3>3, <3>4, FS_Subset
    <3>6. Cardinality(shown \ {l}) = k - 1
      BY <1>1, FS_RemoveElement DEF Rows, k
    <3> QED BY <1>2, <3>2, <3>3, <3>5, <3>6
  <2> QED BY <2>1, <2>2
<1> QED BY <1>1, <1>2, <1>3, <1>4, <1>5 DEF k, Page

--------------------------------------------------------------------------------
(* The inductive invariant. *)

Printable == [id : Ids, createdAt : Times, text : Status, stored : Status]

\* The walk's own account: nothing is printed before the first page, and a walk goes
\* on only while it wants more.
WalkOK == /\ limit \in Nat /\ printed \in Seq(Printable)
          /\ walk = "new" => printed = <<>> /\ token = {} /\ remaining > 0
          /\ walk = "paging" => token # {} /\ remaining > 0

Sorted == \A i, j \in DOMAIN printed : i < j => Below(printed[j], printed[i])

SameKey(a, b) == a.id = b.id /\ a.createdAt = b.createdAt

\* The token is the key of the lowest line printed.
TokenIsLowest ==
  \A t \in token : /\ \E i \in DOMAIN printed : SameKey(printed[i], t)
                   /\ \A i \in DOMAIN printed : SameKey(printed[i], t) \/ Below(t, printed[i])

Asked(o) == asked = {} \/ o.status \in asked

\* Who counts as stable is in the table and matches the flags.
StableMatch == \A id \in stable : \E o \in orders : o.id = id /\ Asked(o)

PagesInv == /\ PagesTypeOK /\ Rows(orders) /\ WalkOK /\ Sorted /\ TokenIsLowest /\ StableMatch
            /\ StableOrdersListed /\ ShowsStoredStatus

--------------------------------------------------------------------------------
(* One turn of the client's loop. *)

\* What a turn reads, what it shows and what it leaves behind: found are the rows
\* below the cursor that match, n the size of the page.
Turn(found, n, rows, shown, lines) ==
  /\ walk \in {"new", "paging"} /\ asked \subseteq Status
  /\ found = {o \in Matching(asked) : PastCursor(o, token)}
  /\ n = PageLimit
  /\ rows = FirstRows(found, n + 1) /\ shown = FirstRows(rows, n)
  /\ lines \in Lines(shown)
  /\ printed' = printed \o lines
  /\ remaining' = remaining - Cardinality(shown)
  /\ token' = NextToken(rows, shown, asked)
  /\ walk' = IF token' = {} \/ shown = {} \/ remaining' <= 0 THEN "done" ELSE "paging"
  /\ stable' = IF walk = "new" THEN IdsOf(Matching(asked)) ELSE stable
  /\ UNCHANGED <<orders, asked, limit>>

\* ListPage is such a turn.
LEMMA ListPageTurns ==
  ASSUME ListPage
  PROVE  \E found, n, rows, shown, lines : Turn(found, n, rows, shown, lines)
<1> DEFINE sent == {ParseOrderStatus(text) : text \in asked}
           filter == OrderFilter(sent)
           rows == ListOrders(filter, token, PageLimit)
           shown == FirstRows(rows, PageLimit)
           found == {o \in Matching(asked) : PastCursor(o, token)}
<1>1. asked \subseteq Status /\ filter = asked
  BY FilterIsAsked DEF ListPage
<1>2. PICK lines \in Lines(shown) : printed' = printed \o lines
  BY DEF ListPage
<1>3. rows = FirstRows(found, PageLimit + 1)
  BY <1>1 DEF ListOrders
<1>4. /\ walk \in {"new", "paging"}
      /\ remaining' = remaining - Cardinality(shown)
      /\ token' = NextToken(rows, shown, filter)
      /\ walk' = IF token' = {} \/ shown = {} \/ remaining' <= 0 THEN "done" ELSE "paging"
      /\ stable' = IF walk = "new" THEN IdsOf(Matching(asked)) ELSE stable
      /\ UNCHANGED <<orders, asked, limit>>
  BY DEF ListPage
<1>5. token' = NextToken(rows, shown, asked)
  BY <1>1, <1>4
<1> HIDE DEF sent, filter, rows, shown, found
<1>6. Turn(found, PageLimit, rows, shown, lines)
  BY <1>1, <1>2, <1>3, <1>4, <1>5 DEF Turn, found, shown
<1> QED BY <1>6

\* The page is within what is wanted, and its rows are rows of the table.
PageOfTable(found, n, rows, shown, lines) ==
  /\ n \in Nat /\ n >= 1 /\ n <= remaining
  /\ remaining \in Nat /\ limit \in Nat
  /\ Rows(found) /\ Rows(rows) /\ Rows(shown)
  /\ shown \subseteq rows /\ rows \subseteq found /\ found \subseteq orders
  /\ \A o \in found : Asked(o) /\ o \in Order
  /\ lines \in Seq({Line(o) : o \in shown}) /\ Len(lines) = Cardinality(shown)
  /\ Len(lines) \in Nat /\ Len(lines) <= n

\* Every turn's page is such a page.
LEMMA TurnRows ==
  ASSUME PagesInv, NEW found, NEW n, NEW rows, NEW shown, NEW lines,
         Turn(found, n, rows, shown, lines)
  PROVE  PageOfTable(found, n, rows, shown, lines)
<1>1. remaining \in Nat /\ remaining > 0 /\ limit \in Nat
  BY DEF PagesInv, PagesTypeOK, WalkOK, Turn
<1>2. n \in Nat /\ n >= 1 /\ n <= remaining
  BY <1>1, PagesAssumption DEF Turn, PageLimit
<1>3. found \subseteq orders /\ \A o \in found : Asked(o) /\ o \in Order
  BY DEF Turn, Matching, Asked, PagesInv, PagesTypeOK
<1>4. Rows(found)
  BY <1>3, SomeRows DEF PagesInv
<1>5. rows \in SUBSET found
  BY FirstRowsIs DEF Turn
<1>6. Rows(rows)
  BY <1>4, <1>5, SomeRows
<1>7. lines \in Lines(shown) /\ shown = FirstRows(rows, n)
  BY DEF Turn
<1>8. /\ shown \subseteq rows /\ Rows(shown)
      /\ Cardinality(shown) \in Nat /\ Cardinality(shown) <= n
      /\ lines \in [1 .. Cardinality(shown) -> {Line(o) : o \in shown}]
  BY <1>2, <1>6, <1>7, FirstRowsPage DEF Page
<1>9. lines \in Seq({Line(o) : o \in shown}) /\ Len(lines) = Cardinality(shown)
  <2> DEFINE k == Cardinality(shown)
             L == {Line(o) : o \in shown}
  <2>1. k \in Nat /\ lines \in [1 .. k -> L]
    BY <1>8
  <2> HIDE DEF k, L
  <2>2. lines \in Seq(L) /\ Len(lines) = k
    BY <2>1
  <2> QED BY <2>2 DEF k, L
<1> QED BY <1>1, <1>2, <1>3, <1>4, <1>5, <1>6, <1>8, <1>9 DEF PageOfTable

\* Everything found is older than everything printed.
LEMMA FoundIsOlder ==
  ASSUME PagesInv, NEW found, NEW n, NEW rows, NEW shown, NEW lines,
         Turn(found, n, rows, shown, lines),
         NEW o \in found, NEW i \in DOMAIN printed
  PROVE  Below(o, printed[i])
<1>1. PICK t \in token : TRUE
  BY DEF Turn, PagesInv, WalkOK
<1>2. Below(o, t)
  BY <1>1 DEF Turn, PastCursor
<1>3. SameKey(printed[i], t) \/ Below(t, printed[i])
  BY <1>1 DEF PagesInv, TokenIsLowest
<1>4. Keyed(o) /\ Keyed(t) /\ Keyed(printed[i])
  <2>1. Keyed(o)
    <3>1. PageOfTable(found, n, rows, shown, lines)
      BY TurnRows, Zenon
    <3>2. Rows(found)
      BY ONLY <3>1, Zenon DEF PageOfTable
    <3> QED BY ONLY <3>2, o \in found, Zenon DEF Rows
  <2>2. Keyed(t)
    BY <1>1, PagesAssumption DEF PagesInv, PagesTypeOK, Keyed
  <2>3. printed[i] \in Printable
    BY DEF PagesInv, WalkOK
  <2> QED BY <2>1, <2>2, <2>3, PagesAssumption DEF Printable, Keyed
<1>5. CASE SameKey(printed[i], t)
  BY <1>2, <1>5 DEF SameKey, Below
<1>6. CASE Below(t, printed[i])
  BY <1>2, <1>4, <1>6, BelowOrders
<1> QED BY <1>3, <1>5, <1>6

\* A line shows the status its row was stored with.
LEMMA LineShows ==
  ASSUME NEW o \in Order
  PROVE  Line(o) \in Printable /\ Line(o).text = o.status /\ Line(o).stored = o.status
<1>1. o.status \in Status /\ o.id \in Ids /\ o.createdAt \in Times
  BY DEF Order
<1>2. OrderStatusText(ToProtoOrderStatus(o.status)) = o.status
  BY <1>1, StatusWire
<1> QED BY <1>1, <1>2 DEF Line, Printable

\* After a turn the list is what it was, followed by the lines of the page.
LEMMA TurnPrinted ==
  ASSUME PagesInv, NEW found, NEW n, NEW rows, NEW shown, NEW lines,
         Turn(found, n, rows, shown, lines)
  PROVE  /\ printed' \in Seq(Printable) /\ printed \in Seq(Printable)
         /\ Len(printed) \in Nat /\ Len(printed') = Len(printed) + Cardinality(shown)
         /\ DOMAIN printed = 1 .. Len(printed) /\ DOMAIN printed' = 1 .. Len(printed')
         /\ \A i \in DOMAIN printed : i \in DOMAIN printed' /\ printed'[i] = printed[i]
         /\ \A i \in DOMAIN printed' \ DOMAIN printed :
              /\ i > Len(printed) /\ i - Len(printed) \in 1 .. Cardinality(shown)
              /\ printed'[i] = lines[i - Len(printed)]
              /\ \E o \in shown : printed'[i] = Line(o)
         /\ \A o \in shown : \E i \in DOMAIN printed' : printed'[i] = Line(o)
<1>0. /\ shown \subseteq rows /\ rows \subseteq found /\ \A o \in found : o \in Order
      /\ lines \in Seq({Line(o) : o \in shown}) /\ Len(lines) = Cardinality(shown)
      /\ Len(lines) \in Nat
  <2>1. PageOfTable(found, n, rows, shown, lines)
    BY TurnRows
  <2> QED BY <2>1, Zenon DEF PageOfTable
<1>1. /\ shown \subseteq Order
      /\ lines \in Seq({Line(o) : o \in shown}) /\ Len(lines) = Cardinality(shown)
      /\ Len(lines) \in Nat
  BY <1>0, Zenon
<1>2. {Line(o) : o \in shown} \subseteq Printable
  BY <1>1, LineShows
<1>3. lines \in Seq(Printable)
  BY <1>1, <1>2
<1>4. printed \in Seq(Printable) /\ printed' = printed \o lines
  BY DEF PagesInv, WalkOK, Turn
<1> DEFINE m == Len(printed)
           k == Len(lines)
<1>5. m \in Nat /\ k \in Nat /\ DOMAIN printed = 1 .. m /\ DOMAIN lines = 1 .. k
  BY <1>3, <1>4
<1>6. /\ printed' \in Seq(Printable) /\ Len(printed') = m + k
      /\ DOMAIN printed' = 1 .. m + k
      /\ \A i \in 1 .. m : printed'[i] = printed[i]
      /\ \A j \in 1 .. k : printed'[m + j] = lines[j]
  BY <1>3, <1>4
<1>7. \A j \in 1 .. k : \E o \in shown : lines[j] = Line(o)
  BY <1>1, <1>5
<1>8. \A o \in shown : \E j \in 1 .. k : lines[j] = Line(o)
  BY <1>1 DEF Turn, Lines
<1> HIDE DEF m, k
<1>9. \A i \in DOMAIN printed' \ DOMAIN printed :
        i > m /\ i - m \in 1 .. k /\ printed'[i] = lines[i - m]
  <2> SUFFICES ASSUME NEW i \in DOMAIN printed' \ DOMAIN printed
               PROVE  i > m /\ i - m \in 1 .. k /\ printed'[i] = lines[i - m]
    OBVIOUS
  <2>1. i \in 1 .. m + k /\ i \notin 1 .. m
    BY <1>5, <1>6
  <2>2. PICK j \in 1 .. k : i = m + j
    <3>1. i - m \in 1 .. k /\ i = m + (i - m)
      BY <1>5, <2>1
    <3> QED BY <3>1
  <2>3. printed'[m + j] = lines[j]
    BY <1>6
  <2>4. i - m = j /\ i > m
    BY <1>5, <2>2
  <2> QED BY <2>2, <2>3, <2>4
<1>10. \A o \in shown : \E i \in DOMAIN printed' : printed'[i] = Line(o)
  <2> TAKE o \in shown
  <2>1. PICK j \in 1 .. k : lines[j] = Line(o)
    BY <1>8
  <2>2. m + j \in 1 .. m + k
    BY <1>5
  <2> QED BY <1>6, <2>1, <2>2
<1>11. \A i \in DOMAIN printed : i \in DOMAIN printed' /\ printed'[i] = printed[i]
  BY <1>5, <1>6
<1>12. k = Cardinality(shown)
  BY <1>1 DEF k
<1>13. \A i \in DOMAIN printed' \ DOMAIN printed : \E o \in shown : printed'[i] = Line(o)
  BY <1>7, <1>9
<1>14. /\ Len(printed') = Len(printed) + Cardinality(shown) /\ Len(printed) \in Nat
       /\ DOMAIN printed = 1 .. Len(printed) /\ DOMAIN printed' = 1 .. Len(printed')
  BY <1>5, <1>6, <1>12 DEF m
<1>15. \A i \in DOMAIN printed' \ DOMAIN printed :
         /\ i > Len(printed) /\ i - Len(printed) \in 1 .. Cardinality(shown)
         /\ printed'[i] = lines[i - Len(printed)]
  BY <1>9, <1>12, Zenon DEF m
<1> QED BY <1>4, <1>6, <1>10, <1>11, <1>13, <1>14, <1>15, Zenon

\* The next token is the key of the lowest row shown.
LEMMA TurnToken ==
  ASSUME PagesInv, NEW found, NEW n, NEW rows, NEW shown, NEW lines,
         Turn(found, n, rows, shown, lines),
         NEW t \in token'
  PROVE  \E l \in shown : /\ t = [id |-> l.id, createdAt |-> l.createdAt, digest |-> asked]
                          /\ rows # shown
                          /\ \A q \in shown : q = l \/ Below(l, q)
<1>1. PICK l \in shown : /\ t = [id |-> l.id, createdAt |-> l.createdAt, digest |-> asked]
                         /\ rows # shown /\ \A q \in shown : ~Below(q, Key(l))
  BY DEF Turn, NextToken
<1>2. ASSUME NEW q \in shown PROVE q = l \/ Below(l, q)
  <2>1. ~Below(q, l)
    BY <1>1, BelowKey
  <2>2. Rows(shown)
    BY TurnRows DEF PageOfTable
  <2>3. Keyed(q) /\ Keyed(l) /\ (q.id = l.id => q = l)
    BY <2>2 DEF Rows
  <2> QED BY <2>1, <2>3, BelowOrders
<1> QED BY <1>1, <1>2

\* A page that shows something and leaves rows out leaves a token; one that leaves
\* nothing out, or shows nothing, has shown everything that was found.
LEMMA TurnEnds ==
  ASSUME PagesInv, NEW found, NEW n, NEW rows, NEW shown, NEW lines,
         Turn(found, n, rows, shown, lines),
         token' = {} \/ shown = {}
  PROVE  found = shown
<1>0. /\ n \in Nat /\ n >= 1 /\ Rows(found) /\ Rows(rows) /\ Rows(shown)
      /\ shown \subseteq rows /\ rows \subseteq found /\ Len(lines) = Cardinality(shown)
      /\ Len(lines) \in Nat /\ Len(lines) <= n
  <2>1. PageOfTable(found, n, rows, shown, lines)
    BY TurnRows
  <2> QED BY <2>1, Zenon DEF PageOfTable
<1>1. Cardinality(shown) \in Nat /\ Cardinality(shown) <= n
  BY <1>0
<1>2. rows = FirstRows(found, n + 1) /\ shown = FirstRows(rows, n) /\ lines \in Lines(shown)
  BY DEF Turn
<1>3. rows = shown
  <2>1. CASE shown = {}
    <3>1. SUFFICES ASSUME rows # shown PROVE FALSE
      OBVIOUS
    <3>2. rows \ FirstRows(rows, n) # {}
      BY <1>0, <1>2, <3>1
    <3>3. Cardinality(shown) >= n
      BY <1>0, <1>2, <3>2, CutFull
    <3> QED BY <1>0, <2>1, <3>3, FS_EmptySet
  <2>2. CASE shown # {} /\ token' = {}
    <3>1. PICK l \in shown : \A q \in shown : q = l \/ Below(l, q)
      <4>1. Page(rows, n, shown, lines)
        BY <1>0, <1>2, FirstRowsPage
      <4> QED BY <2>2, <4>1, Zenon DEF Page
    <3>2. \A q \in shown : ~Below(q, Key(l))
      <4> TAKE q \in shown
      <4>1. Keyed(q) /\ Keyed(l)
        BY <1>0 DEF Rows
      <4> QED BY <3>1, <4>1, BelowOrders, BelowKey
    <3>3. SUFFICES ASSUME rows # shown PROVE FALSE
      OBVIOUS
    <3>4. [id |-> l.id, createdAt |-> l.createdAt, digest |-> asked] \in token'
      BY <3>2, <3>3 DEF Turn, NextToken
    <3> QED BY <2>2, <3>4
  <2> QED BY <2>1, <2>2
<1>4. ASSUME found # rows PROVE FALSE
  <2>0. n + 1 \in Nat
    BY <1>0
  <2>1. found \ FirstRows(found, n + 1) # {}
    BY <1>0, <1>2, <1>4, Zenon
  <2>2. Cardinality(rows) >= n + 1
    BY <1>0, <1>2, <2>0, <2>1, CutFull
  <2> QED BY <1>0, <1>1, <1>3, <2>2
<1> QED BY <1>3, <1>4

--------------------------------------------------------------------------------
(* A turn keeps the invariant. *)

\* The list stays within the limit and there is one token at most.
LEMMA TurnTypes ==
  ASSUME PagesInv, NEW found, NEW n, NEW rows, NEW shown, NEW lines,
         Turn(found, n, rows, shown, lines)
  PROVE  PagesTypeOK' /\ Rows(orders)' /\ WalkOK'
<1>0. PageOfTable(found, n, rows, shown, lines)
  BY TurnRows
<1>1. /\ n \in Nat /\ n <= remaining /\ remaining \in Nat /\ limit \in Nat
      /\ Cardinality(shown) \in Nat /\ Cardinality(shown) <= n
  BY <1>0 DEF PageOfTable
<1>2. /\ printed' \in Seq(Printable) /\ Len(printed) \in Nat
      /\ Len(printed') = Len(printed) + Cardinality(shown)
  BY TurnPrinted
<1>3. /\ remaining' = remaining - Cardinality(shown) /\ limit' = limit
      /\ Len(printed) + remaining = limit
  BY DEF Turn, PagesInv, PagesTypeOK
<1>4. /\ remaining' \in 0 .. limit' /\ Len(printed') + remaining' = limit' /\ limit' \in Nat
  BY <1>1, <1>2, <1>3
<1>5. orders' = orders /\ orders' \subseteq Order /\ Rows(orders)'
  BY DEF Turn, PagesInv, PagesTypeOK
<1>6. token' \subseteq [id : Ids, createdAt : Times, digest : SUBSET Status]
  <2> SUFFICES ASSUME NEW t \in token'
               PROVE  t \in [id : Ids, createdAt : Times, digest : SUBSET Status]
    OBVIOUS
  <2>1. PICK l \in shown : t = [id |-> l.id, createdAt |-> l.createdAt, digest |-> asked]
    BY TurnToken
  <2>2. l \in Order /\ asked \in SUBSET Status
    BY <1>0 DEF PageOfTable, Turn
  <2> QED BY <2>1, <2>2 DEF Order
<1>7. Cardinality(token') <= 1
  <2>1. ASSUME NEW t \in token', NEW u \in token' PROVE t = u
    <3>1. PICK l \in shown : /\ t = [id |-> l.id, createdAt |-> l.createdAt, digest |-> asked]
                             /\ \A q \in shown : q = l \/ Below(l, q)
      BY TurnToken
    <3>2. PICK k \in shown : /\ u = [id |-> k.id, createdAt |-> k.createdAt, digest |-> asked]
                             /\ \A q \in shown : q = k \/ Below(k, q)
      BY TurnToken
    <3>3. Keyed(l) /\ Keyed(k)
      BY <1>0 DEF PageOfTable, Rows
    <3>4. l = k
      BY <3>1, <3>2, <3>3, BelowOrders
    <3> QED BY <3>1, <3>2, <3>4
  <2>2. CASE token' = {} BY <2>2, FS_EmptySet
  <2>3. CASE token' # {}
    <3>1. PICK t \in token' : token' = {t}
      BY <2>1, <2>3
    <3> QED BY <3>1, FS_Singleton
  <2> QED BY <2>2, <2>3
<1>8. stable' \subseteq Ids
  BY DEF Turn, IdsOf, Matching, PagesInv, PagesTypeOK, Order
<1>9. /\ walk' \in {"paging", "done"}
      /\ walk' = "paging" => token' # {} /\ ~(remaining' <= 0)
  BY DEF Turn
<1>10. PagesTypeOK'
  BY <1>4, <1>5, <1>6, <1>7, <1>8, <1>9 DEF PagesTypeOK
<1>11. WalkOK'
  <2>1. remaining' \in Nat
    BY ONLY <1>4
  <2>2. ~(remaining' <= 0) => remaining' > 0
    BY ONLY <2>1
  <2>3. walk' # "new"
    BY ONLY <1>9
  <2> QED BY ONLY <1>2, <1>4, <1>9, <2>2, <2>3, Zenon DEF WalkOK
<1> QED BY <1>5, <1>10, <1>11

\* The lines of the page continue the list downwards.
LEMMA TurnSorted ==
  ASSUME PagesInv, NEW found, NEW n, NEW rows, NEW shown, NEW lines,
         Turn(found, n, rows, shown, lines)
  PROVE  Sorted'
<1>0. /\ Len(printed) \in Nat /\ DOMAIN printed = 1 .. Len(printed)
      /\ DOMAIN printed' = 1 .. Len(printed')
      /\ \A i \in DOMAIN printed : printed'[i] = printed[i]
      /\ \A i \in DOMAIN printed' \ DOMAIN printed :
           /\ i > Len(printed) /\ i - Len(printed) \in 1 .. Cardinality(shown)
           /\ printed'[i] = lines[i - Len(printed)]
           /\ \E o \in shown : printed'[i] = Line(o)
  BY TurnPrinted
<1>1. shown \subseteq found
  BY TurnRows DEF PageOfTable
<1> SUFFICES ASSUME NEW i \in DOMAIN printed', NEW j \in DOMAIN printed', i < j
             PROVE  Below(printed'[j], printed'[i])
  BY DEF Sorted
<1>2. CASE i \in DOMAIN printed /\ j \in DOMAIN printed
  BY <1>0, <1>2 DEF PagesInv, Sorted
<1>3. CASE i \in DOMAIN printed /\ j \notin DOMAIN printed
  <2>1. PICK o \in shown : printed'[j] = Line(o)
    BY <1>0, <1>3
  <2>2. Below(o, printed[i])
    BY <1>1, <1>3, FoundIsOlder
  <2> QED BY <1>0, <1>3, <2>1, <2>2, LineKey DEF Below
<1>4. CASE i \notin DOMAIN printed /\ j \notin DOMAIN printed
  <2>1. /\ i - Len(printed) \in 1 .. Cardinality(shown)
        /\ j - Len(printed) \in 1 .. Cardinality(shown)
        /\ printed'[i] = lines[i - Len(printed)] /\ printed'[j] = lines[j - Len(printed)]
        /\ i > Len(printed) /\ j > Len(printed)
    BY <1>0, <1>4
  <2>2. i - Len(printed) < j - Len(printed)
    BY <1>0
  <2>3. lines \in Lines(shown)
    BY DEF Turn
  <2>4. \A a, b \in 1 .. Cardinality(shown) : a < b => Below(lines[b], lines[a])
    BY <2>3 DEF Lines
  <2> QED BY <2>1, <2>2, <2>4
<1>5. ~(i \notin DOMAIN printed /\ j \in DOMAIN printed)
  BY <1>0
<1> QED BY <1>2, <1>3, <1>4, <1>5

\* The next token is below all that was printed before, and the lowest of the page.
LEMMA TurnTokenLowest ==
  ASSUME PagesInv, NEW found, NEW n, NEW rows, NEW shown, NEW lines,
         Turn(found, n, rows, shown, lines)
  PROVE  TokenIsLowest'
<1>0. /\ \A i \in DOMAIN printed : i \in DOMAIN printed' /\ printed'[i] = printed[i]
      /\ \A i \in DOMAIN printed' \ DOMAIN printed : \E o \in shown : printed'[i] = Line(o)
      /\ \A o \in shown : \E i \in DOMAIN printed' : printed'[i] = Line(o)
  BY TurnPrinted
<1>1. shown \subseteq found
  BY TurnRows DEF PageOfTable
<1> SUFFICES ASSUME NEW t \in token'
             PROVE  /\ \E i \in DOMAIN printed' : SameKey(printed'[i], t)
                    /\ \A i \in DOMAIN printed' :
                         SameKey(printed'[i], t) \/ Below(t, printed'[i])
  BY DEF TokenIsLowest, SameKey
<1>2. PICK l \in shown : /\ t = [id |-> l.id, createdAt |-> l.createdAt, digest |-> asked]
                         /\ \A q \in shown : q = l \/ Below(l, q)
  BY TurnToken
<1>3. SameKey(Line(l), t)
  BY <1>2, LineKey DEF SameKey
<1>4. ASSUME NEW k, Below(l, k) PROVE Below(t, k)
  BY <1>2, <1>4 DEF Below
<1>5. ASSUME NEW i \in DOMAIN printed'
      PROVE  SameKey(printed'[i], t) \/ Below(t, printed'[i])
  <2>1. CASE i \in DOMAIN printed
    BY <1>0, <1>1, <1>4, <2>1, FoundIsOlder
  <2>2. CASE i \notin DOMAIN printed
    <3>1. PICK q \in shown : printed'[i] = Line(q)
      BY <1>0, <2>2
    <3>2. CASE q = l BY <1>3, <3>1, <3>2
    <3>3. CASE Below(l, q)
      <4>1. Below(l, Line(q))
        BY <3>3, LineKey DEF Below
      <4> QED BY <1>4, <3>1, <4>1
    <3> QED BY <1>2, <3>2, <3>3
  <2> QED BY <2>1, <2>2
<1> QED BY <1>0, <1>3, <1>5

\* A line shows a stored status, and one that was asked for.
LEMMA TurnShows ==
  ASSUME PagesInv, NEW found, NEW n, NEW rows, NEW shown, NEW lines,
         Turn(found, n, rows, shown, lines)
  PROVE  ShowsStoredStatus'
<1>0. /\ \A i \in DOMAIN printed : i \in DOMAIN printed' /\ printed'[i] = printed[i]
      /\ \A i \in DOMAIN printed' \ DOMAIN printed : \E o \in shown : printed'[i] = Line(o)
  BY TurnPrinted
<1>1. /\ shown \subseteq found /\ \A o \in found : Asked(o) /\ o \in Order
  BY TurnRows DEF PageOfTable
<1>2. asked' = asked
  BY DEF Turn
<1> SUFFICES ASSUME NEW i \in DOMAIN printed'
             PROVE  /\ printed'[i].text = printed'[i].stored
                    /\ asked # {} => printed'[i].text \in asked
  BY <1>2 DEF ShowsStoredStatus
<1>3. CASE i \in DOMAIN printed
  BY <1>0, <1>3 DEF PagesInv, ShowsStoredStatus
<1>4. CASE i \notin DOMAIN printed
  <2>1. PICK o \in shown : printed'[i] = Line(o)
    BY <1>0, <1>4
  <2>2. o \in Order /\ Asked(o)
    BY <1>1
  <2> QED BY <2>1, <2>2, LineShows DEF Asked
<1> QED BY <1>3, <1>4

\* The orders that match at the first page are the stable ones.
LEMMA TurnStableMatch ==
  ASSUME PagesInv, NEW found, NEW n, NEW rows, NEW shown, NEW lines,
         Turn(found, n, rows, shown, lines)
  PROVE  StableMatch'
<1>1. orders' = orders /\ asked' = asked
  BY DEF Turn
<1> SUFFICES ASSUME NEW id \in stable'
             PROVE  \E o \in orders : o.id = id /\ Asked(o)
  BY <1>1 DEF StableMatch, Asked
<1>2. CASE walk = "new"
  BY <1>2 DEF Turn, IdsOf, Matching, Asked
<1>3. CASE walk # "new"
  BY <1>3 DEF Turn, PagesInv, StableMatch
<1> QED BY <1>2, <1>3

\* A stable order that is still not listed after a turn was found by its query and cut
\* off by its limit: the cursor has not passed it.
LEMMA MissingIsFound ==
  ASSUME PagesInv, NEW found, NEW n, NEW rows, NEW shown, NEW lines,
         Turn(found, n, rows, shown, lines),
         NEW o \in orders, o.id \in stable', o.id \notin PrintedIds'
  PROVE  o \in found /\ o \notin shown
<1>0. /\ \A i \in DOMAIN printed : i \in DOMAIN printed' /\ printed'[i] = printed[i]
      /\ \A q \in shown : \E i \in DOMAIN printed' : printed'[i] = Line(q)
  BY TurnPrinted
<1>1. o.id \notin PrintedIds
  BY <1>0 DEF PrintedIds
<1>2. o \notin shown
  <2>1. SUFFICES ASSUME o \in shown PROVE FALSE
    OBVIOUS
  <2>2. PICK i \in DOMAIN printed' : printed'[i] = Line(o)
    BY <1>0, <2>1
  <2>3. printed'[i].id = o.id
    BY <2>2, LineKey
  <2> QED BY <2>3 DEF PrintedIds
<1>3. Asked(o)
  <2>1. PICK p \in orders : p.id = o.id /\ Asked(p)
    <3>1. StableMatch' /\ orders' = orders /\ asked' = asked
      BY TurnStableMatch DEF Turn
    <3> QED BY <3>1 DEF StableMatch, Asked
  <2>2. p = o
    BY <2>1 DEF PagesInv, Rows
  <2> QED BY <2>1, <2>2
<1>4. PastCursor(o, token)
  <2> SUFFICES ASSUME NEW t \in token PROVE Below(o, t)
    BY DEF PastCursor
  <2>1. walk = "paging"
    BY DEF Turn, PagesInv, WalkOK
  <2>2. o.id \in stable
    BY <2>1 DEF Turn
  <2>3. PICK i \in DOMAIN printed : SameKey(printed[i], t)
    BY DEF PagesInv, TokenIsLowest
  <2>4. Below(o, printed[i])
    BY <1>1, <2>1, <2>2 DEF PagesInv, StableOrdersListed
  <2> QED BY <2>3, <2>4 DEF SameKey, Below
<1>5. o \in found
  BY <1>3, <1>4 DEF Turn, Matching, Asked
<1> QED BY <1>2, <1>5

\* What the limit cuts off is older than the page, and older than the pages before; a
\* walk that ends with room left has cut off nothing.
LEMMA TurnListed ==
  ASSUME PagesInv, NEW found, NEW n, NEW rows, NEW shown, NEW lines,
         Turn(found, n, rows, shown, lines)
  PROVE  StableOrdersListed'
<1>0. PageOfTable(found, n, rows, shown, lines)
  BY TurnRows
<1>1. /\ n \in Nat /\ n + 1 \in Nat /\ Rows(found) /\ Rows(rows)
      /\ shown \subseteq rows /\ rows \subseteq found
  BY <1>0 DEF PageOfTable
<1>2. rows = FirstRows(found, n + 1) /\ shown = FirstRows(rows, n) /\ orders' = orders
  BY DEF Turn
<1>3. ASSUME NEW o \in orders, o.id \in stable', o.id \notin PrintedIds',
             NEW i \in DOMAIN printed'
      PROVE  Below(o, printed'[i])
  <2>0. /\ \A a \in DOMAIN printed : printed'[a] = printed[a]
        /\ \A a \in DOMAIN printed' \ DOMAIN printed : \E q \in shown : printed'[a] = Line(q)
    BY TurnPrinted
  <2>1. o \in found /\ o \notin shown
    BY <1>3, MissingIsFound
  <2>2. CASE i \in DOMAIN printed
    BY <2>0, <2>1, <2>2, FoundIsOlder
  <2>3. CASE i \notin DOMAIN printed
    <3>1. PICK q \in shown : printed'[i] = Line(q)
      BY <2>0, <2>3
    <3>2. CASE o \in rows
      <4>1. Below(o, q)
        BY <1>1, <1>2, <2>1, <3>2, CutBelow
      <4> QED BY <3>1, <4>1, LineKey DEF Below
    <3>3. CASE o \notin rows
      <4>1. q \in FirstRows(found, n + 1) /\ o \in found \ FirstRows(found, n + 1)
        BY <1>1, <1>2, <2>1, <3>3
      <4>2. Below(o, q)
        BY <1>1, <4>1, CutBelow
      <4> QED BY <3>1, <4>2, LineKey DEF Below
    <3> QED BY <3>2, <3>3
  <2> QED BY <2>2, <2>3
<1>4. ASSUME walk' = "done", remaining' > 0, NEW id \in stable'
      PROVE  id \in PrintedIds'
  <2>1. SUFFICES ASSUME id \notin PrintedIds' PROVE FALSE
    OBVIOUS
  <2>2. PICK o \in orders : o.id = id
    BY <1>2, TurnStableMatch DEF StableMatch
  <2>3. o \in found /\ o \notin shown
    BY <2>1, <2>2, MissingIsFound
  <2>4. remaining' \in Nat
    BY TurnTypes DEF PagesTypeOK, WalkOK
  <2>5. token' = {} \/ shown = {}
    BY <1>4, <2>4 DEF Turn
  <2>6. found = shown
    BY <2>5, TurnEnds
  <2> QED BY <2>3, <2>6
<1> QED BY <1>2, <1>3, <1>4 DEF StableOrdersListed

\* A turn of the client's loop keeps the invariant.
LEMMA ListPageStep ==
  ASSUME PagesInv, ListPage
  PROVE  PagesInv'
<1>1. PICK found, n, rows, shown, lines : Turn(found, n, rows, shown, lines)
  BY ListPageTurns
<1>2. PagesTypeOK' /\ Rows(orders)' /\ WalkOK'
  BY <1>1, TurnTypes
<1>3. Sorted' /\ TokenIsLowest' /\ ShowsStoredStatus'
  BY <1>1, TurnSorted, TurnTokenLowest, TurnShows
<1>4. StableMatch' /\ StableOrdersListed'
  BY <1>1, TurnStableMatch, TurnListed
<1> QED BY <1>2, <1>3, <1>4 DEF PagesInv

--------------------------------------------------------------------------------
(* The other clients, and the theorems. *)

\* A new order is no stable one, wherever it lands.
LEMMA InsertStep ==
  ASSUME PagesInv, NEW id \in Ids, NEW at \in Times, Insert(id, at)
  PROVE  PagesInv'
<1> DEFINE new == [id |-> id, createdAt |-> at, status |-> "pending"]
<1>1. /\ orders' = orders \cup {new}
      /\ UNCHANGED <<asked, limit, remaining, token, walk, printed, stable>>
      /\ \A o \in orders : o.id # id
  BY DEF Insert, client, IdsOf
<1>2. new \in Order /\ new.id = id /\ new.createdAt = at
  BY DEF Order, Status, EnumNames
<1> HIDE DEF new
<1>3. PagesTypeOK'
  BY <1>1, <1>2 DEF PagesInv, PagesTypeOK
<1>4. Rows(orders)'
  <2>1. IsFiniteSet(orders')
    BY <1>1, FS_AddElement DEF PagesInv, Rows
  <2>2. \A o \in orders' : Keyed(o)
    BY <1>1, <1>2, PagesAssumption DEF PagesInv, Rows, Keyed
  <2>3. \A o, q \in orders' : o.id = q.id => o = q
    BY <1>1, <1>2 DEF PagesInv, Rows
  <2> QED BY <2>1, <2>2, <2>3 DEF Rows
<1>5. WalkOK' /\ Sorted' /\ TokenIsLowest' /\ ShowsStoredStatus' /\ PrintedIds' = PrintedIds
  BY <1>1 DEF PagesInv, WalkOK, Sorted, TokenIsLowest, SameKey, ShowsStoredStatus,
     PrintedIds
<1>6. StableMatch' /\ id \notin stable
  BY <1>1 DEF PagesInv, StableMatch, Asked
<1>7. StableOrdersListed'
  BY <1>1, <1>2, <1>5, <1>6 DEF PagesInv, StableOrdersListed
<1> QED BY <1>3, <1>4, <1>5, <1>6, <1>7 DEF PagesInv

\* An order that moves keeps its place; one that leaves the filter is no stable one.
LEMMA MoveStep ==
  ASSUME PagesInv, NEW o \in orders, NEW s \in Outcomes, Move(o, s)
  PROVE  PagesInv'
<1> DEFINE new == [o EXCEPT !.status = s]
<1>1. /\ orders' = (orders \ {o}) \cup {new}
      /\ stable' = IF asked = {} \/ s \in asked THEN stable ELSE stable \ {o.id}
      /\ UNCHANGED <<asked, limit, remaining, token, walk, printed>>
  BY DEF Move, client
<1>2. new \in Order /\ new.id = o.id /\ new.createdAt = o.createdAt /\ new.status = s
  BY PagesAssumption DEF PagesInv, PagesTypeOK, Order
<1>3. o \in Order
  BY DEF PagesInv, PagesTypeOK
<1> HIDE DEF new
<1>4. PagesTypeOK'
  BY <1>1, <1>2 DEF PagesInv, PagesTypeOK
<1>5. Rows(orders)'
  <2>1. IsFiniteSet(orders')
    BY <1>1, FS_AddElement, FS_RemoveElement DEF PagesInv, Rows
  <2>2. \A q \in orders' : Keyed(q)
    BY <1>1, <1>2 DEF PagesInv, Rows, Keyed
  <2>3. \A p, q \in orders' : p.id = q.id => p = q
    BY <1>1, <1>2 DEF PagesInv, Rows
  <2> QED BY <2>1, <2>2, <2>3 DEF Rows
<1>6. WalkOK' /\ Sorted' /\ TokenIsLowest' /\ ShowsStoredStatus' /\ PrintedIds' = PrintedIds
  BY <1>1 DEF PagesInv, WalkOK, Sorted, TokenIsLowest, SameKey, ShowsStoredStatus,
     PrintedIds
<1>7. StableMatch'
  <2> SUFFICES ASSUME NEW id \in stable'
               PROVE  \E q \in orders' : q.id = id /\ Asked(q)
    BY <1>1 DEF StableMatch, Asked
  <2>1. PICK q \in orders : q.id = id /\ Asked(q)
    BY <1>1 DEF PagesInv, StableMatch
  <2>2. CASE q = o
    BY <1>1, <1>2, <2>1, <2>2 DEF Asked
  <2>3. CASE q # o
    BY <1>1, <2>1, <2>3
  <2> QED BY <2>2, <2>3
<1>8. stable' \subseteq stable
  BY <1>1
<1>9. StableOrdersListed'
  <2>1. walk' = "done" /\ remaining' > 0 => stable' \subseteq PrintedIds'
    BY <1>1, <1>6, <1>8 DEF PagesInv, StableOrdersListed
  <2>2. ASSUME NEW q \in orders', q.id \in stable' \ PrintedIds', walk' \in {"paging", "done"},
               NEW i \in DOMAIN printed'
        PROVE  Below(q, printed'[i])
    <3>1. PICK p \in orders : p.id = q.id /\ p.createdAt = q.createdAt
      BY <1>1, <1>2
    <3>2. Below(p, printed[i])
      BY <1>1, <1>6, <1>8, <2>2, <3>1 DEF PagesInv, StableOrdersListed
    <3> QED BY <1>1, <3>1, <3>2 DEF Below
  <2> QED BY <2>1, <2>2 DEF StableOrdersListed
<1> QED BY <1>4, <1>5, <1>6, <1>7, <1>9 DEF PagesInv

\* In every reachable state the table has one row per ID, the list is sorted, the token
\* is its lowest line, and what is stable and missing is below it.
THEOREM PagesInvariance == PagesSpec => []PagesInv
<1>1. PagesInit => PagesInv
  <2> SUFFICES ASSUME PagesInit PROVE PagesInv
    OBVIOUS
  <2>1. PICK s \in Status, id \in Ids, at \in Times :
          orders = {[id |-> id, createdAt |-> at, status |-> s]}
    BY DEF PagesInit
  <2>2. limit \in Nat \ {0} /\ remaining = limit /\ token = {} /\ walk = "new"
          /\ printed = <<>> /\ stable = {}
    BY PagesAssumption DEF PagesInit
  <2>3. PagesTypeOK
    BY <2>1, <2>2, FS_EmptySet DEF PagesTypeOK, Order
  <2>4. Rows(orders)
    <3>1. PICK o \in Order : orders = {o}
      BY <2>1 DEF Order
    <3>2. IsFiniteSet(orders)
      BY <3>1, FS_Singleton
    <3>3. \A q \in orders : Keyed(q)
      BY <3>1, PagesAssumption DEF Keyed, Order
    <3> QED BY <3>1, <3>2, <3>3 DEF Rows
  <2>5. WalkOK
    BY <2>2 DEF WalkOK
  <2>6. DOMAIN printed = {}
    BY <2>2
  <2>7. Sorted /\ TokenIsLowest /\ StableMatch /\ StableOrdersListed /\ ShowsStoredStatus
    BY <2>2, <2>6, Zenon DEF Sorted, TokenIsLowest, StableMatch, StableOrdersListed,
       ShowsStoredStatus
  <2> QED BY <2>3, <2>4, <2>5, <2>7 DEF PagesInv
<1>2. PagesInv /\ [PagesNext]_pagesVars => PagesInv'
  <2> SUFFICES ASSUME PagesInv, [PagesNext]_pagesVars PROVE PagesInv'
    OBVIOUS
  <2>insert. CASE \E id \in Ids, at \in Times : Insert(id, at)
    BY <2>insert, InsertStep
  <2>move. CASE \E o \in orders, s \in Outcomes : Move(o, s)
    BY <2>move, MoveStep
  <2>refuse. CASE InvalidStatus
    <3>1. /\ UNCHANGED <<orders, asked, limit, remaining, token, printed, stable>>
          /\ walk' = "refused"
      BY <2>refuse DEF InvalidStatus
    <3>2. PagesTypeOK' /\ Rows(orders)' /\ WalkOK'
      BY <3>1 DEF PagesInv, PagesTypeOK, Rows, WalkOK
    <3>3. Sorted' /\ TokenIsLowest' /\ StableMatch' /\ ShowsStoredStatus'
      BY <3>1 DEF PagesInv, Sorted, TokenIsLowest, SameKey, StableMatch, Asked,
                  ShowsStoredStatus
    <3>4. StableOrdersListed'
      BY <3>1 DEF StableOrdersListed
    <3> QED BY <3>2, <3>3, <3>4 DEF PagesInv
  <2>page. CASE ListPage
    BY <2>page, ListPageStep
  <2>idle. CASE UNCHANGED pagesVars
    <3>1. UNCHANGED <<orders, asked, limit, remaining, token, walk, printed, stable>>
      BY <2>idle DEF pagesVars, client
    <3>2. PagesTypeOK' /\ Rows(orders)' /\ WalkOK'
      BY <3>1 DEF PagesInv, PagesTypeOK, Rows, WalkOK
    <3>3. Sorted' /\ TokenIsLowest' /\ StableMatch' /\ ShowsStoredStatus'
      BY <3>1 DEF PagesInv, Sorted, TokenIsLowest, SameKey, StableMatch, Asked,
                  ShowsStoredStatus
    <3>4. StableOrdersListed'
      BY <3>1 DEF PagesInv, StableOrdersListed, PrintedIds
    <3> QED BY <3>2, <3>3, <3>4 DEF PagesInv
  <2> QED BY <2>insert, <2>move, <2>refuse, <2>page, <2>idle DEF PagesNext
<1> QED BY <1>1, <1>2, PTL DEF PagesSpec

\* The pages together are strictly newest first, with no order twice and no more than
\* the limit, whatever is inserted or moves between two pages.
THEOREM ListIsNewestFirst == PagesSpec => []NewestFirst
<1>1. PagesInv => NewestFirst
  BY DEF PagesInv, NewestFirst, Sorted
<1> QED BY <1>1, PagesInvariance, PTL

\* An order that matched throughout is listed unless the limit ends the list above it.
THEOREM NoStableOrderSkipped == PagesSpec => []StableOrdersListed
<1>1. PagesInv => StableOrdersListed
  BY DEF PagesInv
<1> QED BY <1>1, PagesInvariance, PTL

\* A line shows the stored status, and one of those asked for.
THEOREM StatusSurvivesTheWire == PagesSpec => []ShowsStoredStatus
<1>1. PagesInv => ShowsStoredStatus
  BY DEF PagesInv
<1> QED BY <1>1, PagesInvariance, PTL

--------------------------------------------------------------------------------
(* Lifecycle: hooks and resources. *)

\* A service or a server runs only while its hook is among the started ones.
Launched ==
  \A h \in Services \cup Servers :
    Running(h) => \E i \in 4 .. started : Hooks[i] = h

\* A resource is open as long as its hook counts as started.
OpenInOrder == /\ started >= 1 => comp["bus"] = "up"
               /\ started >= 2 => comp["questdb"] = "up"
               /\ started >= 3 => comp["postgres"] = "up"

\* While hooks are stopped, a resource whose hook is behind the count is closed.
ClosedInOrder == phase \in {"stopping", "rollback"} =>
                   /\ started < 1 => ~Running("bus")
                   /\ started < 2 => ~Running("questdb")
                   /\ started < 3 => ~Running("postgres")

\* A process that has started has run every hook.
AllStarted == phase = "running" => started = Len(Hooks)

\* The path is this process's exactly from Listen's bind to the end of the server.
PathIsOurs == /\ phase # "exited" => (comp["api"] = "up" <=> socket = "live")
              /\ socket = "live" => phase \notin {"new", "exited"}
              /\ socket = "bound" => /\ phase = "starting" /\ started < Len(Hooks)
                                     /\ Hooks[started + 1] = "api"

LifeInv == /\ LifeTypeOK /\ Launched /\ OpenInOrder /\ ClosedInOrder /\ AllStarted
           /\ LeavesNothing /\ PathIsOurs /\ SocketIsTidy

\* From the n-th element on, f holds members of T.
From(n, f, T) == \A i \in n .. Len(f) : f[i] \in T

\* Appending members of T keeps the elements before and the rule after the n-th.
LEMMA Appended ==
  ASSUME NEW S, NEW T, NEW f \in Seq(S), NEW a \in Seq(S), NEW n \in Nat \ {0}, n <= Len(f),
         \A i \in n .. Len(f) : f[i] \in T,
         \A i \in 1 .. Len(a) : a[i] \in T
  PROVE  /\ f \o a \in Seq(S) /\ Len(f \o a) = Len(f) + Len(a)
         /\ \A i \in 1 .. Len(f) : (f \o a)[i] = f[i]
         /\ \A i \in n .. Len(f \o a) : (f \o a)[i] \in T
<1>0. Len(f) \in Nat /\ Len(a) \in Nat
  OBVIOUS
<1>1. /\ f \o a \in Seq(S) /\ Len(f \o a) = Len(f) + Len(a)
      /\ \A i \in 1 .. Len(f) + Len(a) :
           (f \o a)[i] = IF i <= Len(f) THEN f[i] ELSE a[i - Len(f)]
  BY ONLY f \in Seq(S), a \in Seq(S), ConcatProperties
<1> DEFINE g == f \o a
           k == Len(f)
           m == Len(a)
<1>2. \A i \in 1 .. k : g[i] = f[i]
  <2> TAKE i \in 1 .. k
  <2> HIDE DEF g
  <2> QED BY <1>0, <1>1 DEF g
<1>3. \A i \in n .. k + m : g[i] \in T
  <2> TAKE i \in n .. k + m
  <2> HIDE DEF g
  <2>0. i \in Nat BY <1>0
  <2>2. CASE i \in 1 .. k
    <3>1. i \in n .. k BY <2>2, <1>0
    <3> QED BY <1>2, <2>2, <3>1
  <2>3. CASE i \in k + 1 .. k + m
    <3>1. i - k \in 1 .. m BY <2>3, <1>0
    <3>2. g[i] = a[i - k]  BY <2>3, <1>0, <1>1 DEF g
    <3> QED BY <3>1, <3>2
  <2> QED BY <1>0, <2>0, <2>2, <2>3
<1> QED BY <1>0, <1>1, <1>2, <1>3

\* Whatever is configured, the resources' hooks come first, in the order the
\* constructors append them, and every hook after them is a service's or a server's.
LEMMA HookOrder ==
  /\ Len(Hooks) \in Nat /\ Len(Hooks) >= 6
  /\ Hooks[1] = "bus" /\ Hooks[2] = "questdb" /\ Hooks[3] = "postgres"
  /\ \A i \in 4 .. Len(Hooks) : Hooks[i] \in Services \cup Servers
<1>f. PICK f : f = <<"bus", "questdb", "postgres", "snapshot", "telemetry", "outbox">>
  OBVIOUS
<1>h. PICK h : h = Hooks
  OBVIOUS
<1>s. PICK S : S = Components
  OBVIOUS
<1>u. PICK U : U = Services \cup Servers
  OBVIOUS
<1>1. \E a \in {<<>>, <<"reconcile", "order">>}, b \in {<<>>, <<"api">>} :
        h = (f \o a) \o b
  <2>1. CASE config.trading /\ config.api BY <1>f, <1>h, <2>1, Zenon DEF Hooks
  <2>2. CASE config.trading /\ ~config.api BY <1>f, <1>h, <2>2, Zenon DEF Hooks
  <2>3. CASE ~config.trading /\ config.api BY <1>f, <1>h, <2>3, Zenon DEF Hooks
  <2>4. CASE ~config.trading /\ ~config.api BY <1>f, <1>h, <2>4, Zenon DEF Hooks
  <2> QED BY <2>1, <2>2, <2>3, <2>4
<1>2. /\ f \in Seq(S) /\ Len(f) = 6
      /\ f[1] = "bus" /\ f[2] = "questdb" /\ f[3] = "postgres"
      /\ From(4, f, U)
  BY <1>f, <1>s, <1>u DEF From, Services, Servers, Resources, Components
<1>3. PICK a, b : /\ h = (f \o a) \o b
                  /\ a \in Seq(S) /\ From(1, a, U)
                  /\ b \in Seq(S) /\ From(1, b, U)
  <2>1. PICK a \in {<<>>, <<"reconcile", "order">>}, b \in {<<>>, <<"api">>} :
          h = (f \o a) \o b
    BY <1>1
  <2>2. a \in Seq(S) /\ From(1, a, U)
    <3>1. CASE a = <<>> BY <3>1 DEF From
    <3>2. CASE a = <<"reconcile", "order">> BY <1>s, <1>u, <3>2 DEF From, Services,
       Components
    <3> QED BY <3>1, <3>2
  <2>3. b \in Seq(S) /\ From(1, b, U)
    <3>1. CASE b = <<>> BY <3>1 DEF From
    <3>2. CASE b = <<"api">> BY <1>s, <1>u, <3>2 DEF From, Servers, Components
    <3> QED BY <3>1, <3>2
  <2> QED BY ONLY <2>1, <2>2, <2>3
<1>4. PICK g : g = f \o a
  OBVIOUS
<1>5. /\ g \in Seq(S) /\ Len(g) = Len(f) + Len(a)
      /\ \A i \in 1 .. Len(f) : g[i] = f[i]
      /\ From(4, g, U)
  <2>1. 4 \in Nat \ {0} /\ 4 <= Len(f) BY ONLY <1>2
  <2>2. f \in Seq(S) /\ a \in Seq(S) /\ From(4, f, U) /\ From(1, a, U)
    BY ONLY <1>2, <1>3
  <2> QED BY ONLY <1>4, <2>1, <2>2, Appended DEF From
<1>6. /\ Len(f) \in Nat /\ Len(a) \in Nat /\ Len(b) \in Nat /\ Len(g) >= 6
  BY ONLY <1>2, <1>3, <1>5
<1>7. /\ h \in Seq(S) /\ Len(h) = Len(g) + Len(b)
      /\ \A i \in 1 .. Len(g) : h[i] = g[i]
      /\ From(4, h, U)
  <2>1. 4 \in Nat \ {0} /\ 4 <= Len(g) BY ONLY <1>2, <1>6, <1>5
  <2>2. h = g \o b BY ONLY <1>3, <1>4
  <2>3. g \in Seq(S) /\ b \in Seq(S) /\ From(4, g, U) /\ From(1, b, U)
    BY ONLY <1>3, <1>5
  <2> QED BY ONLY <2>1, <2>2, <2>3, Appended DEF From
<1>8. /\ Len(h) \in Nat /\ Len(h) >= 6
      /\ h[1] = "bus" /\ h[2] = "questdb" /\ h[3] = "postgres"
  BY ONLY <1>2, <1>5, <1>6, <1>7
<1> QED BY <1>7, <1>8, <1>h, <1>u DEF From

--------------------------------------------------------------------------------
(* What a step may do to the hooks and to the components. *)

\* A constructor opens a resource.
Opens == /\ started' = started
         /\ \E r \in Resources : comp' = [comp EXCEPT ![r] = "up"]

\* The next start hook runs.
Launches == /\ started < Len(Hooks) /\ started' = started + 1
            /\ Hooks[started + 1] \in Components
            /\ comp' = [comp EXCEPT ![Hooks[started + 1]] = "up"]

\* A running service or server comes nearer to its end.
Ends == /\ started' = started
        /\ \E h \in Services \cup Servers, s \in {"ending", "gone"} :
             Running(h) /\ comp' = [comp EXCEPT ![h] = s]

\* A stop hook finds its service or server gone.
Retires == /\ phase \in {"stopping", "rollback"} /\ started > 0 /\ started' = started - 1
           /\ Hooks[started] \in Services \cup Servers
           /\ comp[Hooks[started]] = "gone" /\ comp' = comp

\* A stop hook closes its resource.
Closes == /\ phase \in {"stopping", "rollback"} /\ started > 0 /\ started' = started - 1
          /\ Hooks[started] \in Resources
          /\ comp' = [comp EXCEPT ![Hooks[started]] = "gone"]

\* A new process has started nothing.
Resets == started' = 0 /\ comp' = Off

\* Every step is one of these, or leaves the hooks and the components alone; the
\* configuration, and with it the list of hooks, never changes.
LEMMA HookSteps ==
  ASSUME LifeTypeOK, LifeNext
  PROVE  /\ config' = config /\ Hooks' = Hooks
         /\ \/ UNCHANGED <<started, comp>> \/ Opens \/ Launches \/ Ends \/ Retires
            \/ Closes \/ Resets
<1> USE DEF hookVars, procVars, pathVars, histVars
<1>0. config' = config => Hooks' = Hooks
  BY DEF Hooks
<1>t. comp \in [Components -> {"off", "up", "ending", "gone"}]
  BY DEF LifeTypeOK
<1>1. CASE Construct
  <2>1. built \in 0 .. 3
    BY <1>1 DEF Construct, Constructors, LifeTypeOK
  <2>2. Constructors[built + 1] \in Components =>
          Constructors[built + 1] \in Resources
    BY <2>1 DEF Constructors, Components, Resources, Services, Servers
  <2> QED BY <1>0, <1>1, <2>2 DEF Construct, Opens
<1>2. CASE Constructed BY <1>0, <1>2 DEF Constructed
<1>3. ASSUME NEW h \in Components, StartResource(h) \/ StartServiceAfter(h)
      PROVE  config' = config /\ Launches
  BY <1>3 DEF StartResource, StartServiceAfter, Starting, HookStarted, Launches
<1>4. CASE StartTelemetryServer \/ StartAPIServer
  BY <1>0, <1>4 DEF StartTelemetryServer, StartAPIServer, Starting, HookStarted, Launches,
                    Components, Servers
<1>5. CASE ReconcileReady \/ Started \/ StopBegins \/ Stopped \/ GiveUp
  BY <1>0, <1>5 DEF ReconcileReady, Started, StopBegins, Stopped, GiveUp, Exit
<1>6. ASSUME NEW h \in Components,
             \/ CancelService(h) \/ ServiceEnds(h) \/ ShutdownServer(h) \/ HandlersDone(h)
             \/ Fails(h)
      PROVE  config' = config /\ Ends
  BY <1>6 DEF CancelService, ServiceEnds, ShutdownServer, HandlersDone, Fails, Ends, Running
<1>7. ASSUME NEW h \in Components, OnStopReturns(h)
      PROVE  config' = config /\ Retires
  BY <1>7 DEF OnStopReturns, Stopping, Retires
<1>8. ASSUME NEW h \in Components, CloseResource(h)
      PROVE  config' = config /\ Closes
  BY <1>8 DEF CloseResource, Stopping, Closes
<1>9. CASE ConstructFails \/ StartFails \/ Deadline \/ Interrupt \/ Crash
  BY <1>0, <1>9 DEF ConstructFails, StartFails, Deadline, Interrupt, Crash, Exit
<1>11. CASE ListenRefuses \/ ListenRemovesStale \/ ListenBinds
  BY <1>0, <1>11 DEF ListenRefuses, ListenRemovesStale, ListenBinds
<1>10. CASE Restart
  BY <1>0, <1>10 DEF Restart, Resets
<1> QED
  BY <1>0, <1>1, <1>2, <1>3, <1>4, <1>5, <1>6, <1>7, <1>8, <1>9, <1>10, <1>11, Zenon
     DEF LifeNext, Run, Disturb

--------------------------------------------------------------------------------
(* The hooks' part of the invariant. *)

\* A hook of a resource is one of the first three, and no other hook is.
LEMMA Places ==
  ASSUME NEW i \in 1 .. Len(Hooks)
  PROVE  /\ Hooks[i] \in Components
         /\ i >= 4 => Hooks[i] \in Services \cup Servers /\ Hooks[i] \notin Resources
         /\ i < 4 => Hooks[i] \in Resources /\ Hooks[i] \notin Services \cup Servers
         /\ Hooks[i] = "bus" <=> i = 1
         /\ Hooks[i] = "questdb" <=> i = 2
         /\ Hooks[i] = "postgres" <=> i = 3
<1>1. CASE i >= 4
  <2>1. Hooks[i] \in Services \cup Servers
    BY <1>1, HookOrder
  <2> QED BY <1>1, <2>1, HookOrder DEF Components, Resources, Services, Servers
<1>2. CASE i < 4
  <2>1. i = 1 \/ i = 2 \/ i = 3
    BY <1>2, HookOrder
  <2> QED BY <2>1, HookOrder DEF Components, Resources, Services, Servers
<1> QED BY <1>1, <1>2, HookOrder

\* A service or a server runs only within the count of started hooks: its hook raises
\* the count with it, and a stop hook lowers it once it is gone.
LEMMA LaunchedStep ==
  ASSUME LifeTypeOK, Launched, LifeNext
  PROVE  Launched'
<1>0. /\ Hooks' = Hooks
      /\ \/ UNCHANGED <<started, comp>> \/ Opens \/ Launches \/ Ends \/ Retires
         \/ Closes \/ Resets
  BY HookSteps
<1>t. /\ comp \in [Components -> {"off", "up", "ending", "gone"}]
      /\ started \in 0 .. Len(Hooks) /\ Len(Hooks) \in Nat /\ started \in Nat
  BY HookOrder DEF LifeTypeOK
<1>s. Services \cup Servers \subseteq Components
  BY DEF Components
<1> SUFFICES ASSUME NEW h \in Services \cup Servers, Running(h)'
             PROVE  \E i \in 4 .. started' : Hooks[i] = h
  BY <1>0 DEF Launched
<1>r. h \notin Resources
  BY DEF Resources, Services, Servers
<1>1. CASE UNCHANGED <<started, comp>>
  BY <1>1 DEF Launched, Running
<1>2. CASE Opens
  <2>1. comp'[h] = comp[h]
    BY <1>2, <1>r, <1>s, <1>t DEF Opens
  <2> QED BY <1>2, <2>1 DEF Opens, Launched, Running
<1>3. CASE Launches
  <2>1. CASE Hooks[started + 1] = h
    <3>1. started + 1 \in 1 .. Len(Hooks)
      BY <1>3, <1>t DEF Launches
    <3>2. started + 1 >= 4
      BY <2>1, <3>1, Places
    <3> QED BY <1>3, <1>t, <2>1, <3>2 DEF Launches
  <2>2. CASE Hooks[started + 1] # h
    <3>1. comp'[h] = comp[h]
      BY <1>3, <1>s, <1>t, <2>2 DEF Launches
    <3>2. PICK i \in 4 .. started : Hooks[i] = h
      BY <3>1 DEF Launched, Running
    <3> QED BY <1>3, <1>t, <3>2 DEF Launches
  <2> QED BY <2>1, <2>2
<1>4. CASE Ends
  <2>1. Running(h)
    BY <1>4, <1>s, <1>t DEF Ends, Running
  <2> QED BY <1>4, <2>1 DEF Ends, Launched
<1>5. CASE Retires \/ Closes
  <2>0. started' = started - 1 /\ started > 0
    BY <1>5 DEF Retires, Closes
  <2>1. Hooks[started] # h /\ comp'[h] = comp[h]
    <3>1. CASE Retires BY <3>1 DEF Retires, Running
    <3>2. CASE Closes BY <3>2, <1>r, <1>s, <1>t DEF Closes
    <3> QED BY <1>5, <3>1, <3>2
  <2>2. PICK i \in 4 .. started : Hooks[i] = h
    BY <2>1 DEF Launched, Running
  <2>3. i # started
    BY <2>1, <2>2
  <2> QED BY <1>t, <2>0, <2>2, <2>3
<1>6. CASE Resets
  <2>1. comp'[h] = "off"
    BY <1>6, <1>s DEF Resets, Off
  <2> QED BY <2>1 DEF Running
<1> QED BY <1>0, <1>1, <1>2, <1>3, <1>4, <1>5, <1>6

\* A resource is opened before its hook counts, and closed by the stop hook that
\* takes it off the count.
LEMMA OpenStep ==
  ASSUME LifeTypeOK, OpenInOrder, LifeNext
  PROVE  OpenInOrder'
<1>0. /\ Hooks' = Hooks
      /\ \/ UNCHANGED <<started, comp>> \/ Opens \/ Launches \/ Ends \/ Retires
         \/ Closes \/ Resets
  BY HookSteps
<1>t. /\ comp \in [Components -> {"off", "up", "ending", "gone"}]
      /\ started \in 0 .. Len(Hooks) /\ Len(Hooks) \in Nat /\ started \in Nat
  BY HookOrder DEF LifeTypeOK
<1>s. /\ "bus" \in Components /\ "questdb" \in Components /\ "postgres" \in Components
      /\ "bus" \notin Services \cup Servers /\ "questdb" \notin Services \cup Servers
      /\ "postgres" \notin Services \cup Servers
  BY DEF Components, Resources, Services, Servers
<1>1. CASE UNCHANGED <<started, comp>>
  BY <1>1 DEF OpenInOrder
<1>2. CASE Opens
  BY <1>2, <1>s, <1>t DEF Opens, OpenInOrder
<1>3. CASE Launches
  <2>1. started + 1 \in 1 .. Len(Hooks)
    BY <1>3, <1>t DEF Launches
  <2>2. /\ Hooks[started + 1] = "bus" <=> started + 1 = 1
        /\ Hooks[started + 1] = "questdb" <=> started + 1 = 2
        /\ Hooks[started + 1] = "postgres" <=> started + 1 = 3
    BY <2>1, Places
  <2> QED BY <1>3, <1>s, <1>t, <2>2 DEF Launches, OpenInOrder
<1>4. CASE Ends
  BY <1>4, <1>s, <1>t DEF Ends, OpenInOrder
<1>5. CASE Retires
  BY <1>5, <1>t DEF Retires, OpenInOrder
<1>6. CASE Closes
  <2>1. started \in 1 .. Len(Hooks)
    BY <1>6, <1>t DEF Closes
  <2>2. /\ Hooks[started] = "bus" <=> started = 1
        /\ Hooks[started] = "questdb" <=> started = 2
        /\ Hooks[started] = "postgres" <=> started = 3
    BY <2>1, Places
  <2> QED BY <1>6, <1>s, <1>t, <2>2 DEF Closes, OpenInOrder
<1>7. CASE Resets
  BY <1>7 DEF Resets, OpenInOrder
<1> QED BY <1>0, <1>1, <1>2, <1>3, <1>4, <1>5, <1>6, <1>7

--------------------------------------------------------------------------------
(* The process's part of the invariant. *)

\* Every action keeps the types; a start hook stays within the hooks there are, and a
\* stop hook above zero.
LEMMA TypeStep ==
  ASSUME LifeTypeOK, LifeNext
  PROVE  LifeTypeOK'
<1> USE DEF hookVars, procVars, pathVars, histVars
<1>0. /\ config' = config /\ Hooks' = Hooks
      /\ \/ UNCHANGED <<started, comp>> \/ Opens \/ Launches \/ Ends \/ Retires
         \/ Closes \/ Resets
  BY HookSteps
<1>t. /\ comp \in [Components -> {"off", "up", "ending", "gone"}]
      /\ started \in 0 .. Len(Hooks) /\ Len(Hooks) \in Nat /\ started \in Nat
      /\ runs \in 1 .. MaxRuns /\ runs \in Nat /\ MaxRuns \in Nat
      /\ built \in 0 .. Len(Constructors) /\ Len(Constructors) = 4 /\ built \in Nat
  BY HookOrder, RunsAssumption DEF LifeTypeOK, Constructors
<1>1. started' \in 0 .. Len(Hooks)'
  BY <1>0, <1>t DEF Opens, Launches, Ends, Retires, Closes, Resets
<1>2. comp' \in [Components -> {"off", "up", "ending", "gone"}]
  BY <1>0, <1>t DEF Opens, Launches, Ends, Retires, Closes, Resets, Off
<1>3. config' \in [trading : BOOLEAN, api : BOOLEAN, path : {"absent", "file", "other"}]
  BY <1>0 DEF LifeTypeOK
<1>4. ASSUME NEW h \in Components,
             \/ StartResource(h) \/ StartServiceAfter(h)
             \/ CancelService(h) \/ ServiceEnds(h) \/ ShutdownServer(h)
             \/ HandlersDone(h) \/ OnStopReturns(h) \/ CloseResource(h)
      PROVE  /\ UNCHANGED <<phase, built, deadline, ready, signal, exit, runs>>
             /\ UNCHANGED <<abandoned, failed, interrupted, disturbed>>
             /\ stopErr' \in {stopErr, TRUE}
             /\ socket' \in {socket, "absent"}
  BY <1>4 DEF StartResource, StartServiceAfter, HookStarted, CancelService, ServiceEnds,
              ShutdownServer, HandlersDone, OnStopReturns, CloseResource
<1>5. ASSUME NEW h \in Components, Fails(h)
      PROVE  /\ UNCHANGED <<phase, built, deadline, ready, exit, runs, abandoned>>
             /\ UNCHANGED <<stopErr, interrupted>>
             /\ socket' \in {socket, "absent"} /\ signal' \in {signal, "1"}
             /\ failed' \in BOOLEAN /\ disturbed' \in BOOLEAN
  BY <1>5 DEF Fails
<1>6. phase' \in {"new", "starting", "running", "stopping", "rollback", "exited"}
  BY <1>4, <1>5
     DEF LifeTypeOK, LifeNext, Run, Disturb, Construct, Constructed, HookStarted,
         StartTelemetryServer, StartAPIServer, ReconcileReady, Started, StopBegins, Stopped,
         ListenRefuses, ListenRemovesStale, ListenBinds,
         GiveUp, ConstructFails, StartFails, Deadline, Interrupt, Crash, Restart, Exit
<1>c. UNCHANGED <<built, runs>> \/ Construct \/ Restart
  <2>1. CASE Run
    BY <2>1, <1>4 DEF Run, Constructed, HookStarted, StartTelemetryServer, ListenRefuses,
       ListenRemovesStale, ListenBinds, StartAPIServer, ReconcileReady, Started, StopBegins,
       Stopped, GiveUp
  <2>2. CASE Disturb
    BY <2>2, <1>5 DEF Disturb, ConstructFails, StartFails, Deadline, Interrupt, Crash
  <2> QED BY <2>1, <2>2 DEF LifeNext
<1>7. built' \in 0 .. Len(Constructors)'
  BY <1>c, <1>t DEF Construct, Restart, Constructors
<1>8. /\ deadline' \in BOOLEAN /\ ready' \in BOOLEAN /\ stopErr' \in BOOLEAN
      /\ abandoned' \in BOOLEAN
      /\ failed' \in BOOLEAN /\ interrupted' \in BOOLEAN /\ disturbed' \in BOOLEAN
  BY <1>4, <1>5, Zenon
     DEF LifeTypeOK, LifeNext, Run, Disturb, Construct, Constructed, HookStarted,
         StartTelemetryServer, StartAPIServer, ReconcileReady, Started, StopBegins, Stopped,
         ListenRefuses, ListenRemovesStale, ListenBinds,
         GiveUp, ConstructFails, StartFails, Deadline, Interrupt, Crash, Restart, Exit
<1>9. /\ signal' \in {"none", "0", "1"}
      /\ socket' \in {"absent", "file", "other", "bound", "live", "stale"}
  BY <1>4, <1>5
     DEF LifeTypeOK, LifeNext, Run, Disturb, Construct, Constructed, HookStarted,
         StartTelemetryServer, StartAPIServer, ReconcileReady, Started, StopBegins, Stopped,
         ListenRefuses, ListenRemovesStale, ListenBinds,
         GiveUp, ConstructFails, StartFails, Deadline, Interrupt, Crash, Restart, Exit
<1>10. exit' \in {"none", "0", "1", "killed"}
  BY <1>4, <1>5
     DEF LifeTypeOK, LifeNext, Run, Disturb, Construct, Constructed, HookStarted,
         StartTelemetryServer, StartAPIServer, ReconcileReady, Started, StopBegins, Stopped,
         ListenRefuses, ListenRemovesStale, ListenBinds,
         GiveUp, ConstructFails, StartFails, Deadline, Interrupt, Crash, Restart, Exit
<1>11. runs' \in 1 .. MaxRuns
  BY <1>c, <1>t DEF Construct, Restart
<1> QED BY <1>1, <1>2, <1>3, <1>6, <1>7, <1>8, <1>9, <1>10, <1>11 DEF LifeTypeOK

\* How a process comes to run, to stop its hooks and to exit, or stays there.
LEMMA PhaseSteps ==
  ASSUME LifeTypeOK, LifeNext
  PROVE  /\ phase' = "running" => \/ phase = "running" /\ started' = started
                                  \/ Started
         /\ phase' \in {"stopping", "rollback"} =>
              \/ /\ phase \in {"stopping", "rollback"}
                 /\ \/ UNCHANGED <<started, comp>> \/ Ends \/ Retires \/ Closes
              \/ StopBegins \/ StartFails \/ ListenRefuses
         /\ phase' = "exited" => ConstructFails \/ Crash \/ Stopped \/ GiveUp
<1> USE DEF hookVars, procVars, pathVars, histVars
<1>1. CASE Construct BY <1>1 DEF Construct
<1>2. CASE Constructed BY <1>2 DEF Constructed
<1>3. ASSUME NEW h \in Components, StartResource(h) \/ StartServiceAfter(h)
      PROVE  phase' = "starting"
  BY <1>3 DEF StartResource, StartServiceAfter, Starting, HookStarted
<1>4. CASE StartTelemetryServer \/ StartAPIServer
  BY <1>4 DEF StartTelemetryServer, StartAPIServer, Starting, HookStarted
<1>5. ASSUME NEW h \in Components,
             \/ CancelService(h) \/ ServiceEnds(h) \/ ShutdownServer(h) \/ HandlersDone(h)
             \/ Fails(h)
      PROVE  phase' = phase /\ phase # "exited" /\ started' = started /\ Ends
  BY <1>5 DEF CancelService, ServiceEnds, ShutdownServer, HandlersDone, Fails, Ends,
     Running,
              Stopping
<1>6. ASSUME NEW h \in Components, OnStopReturns(h)
      PROVE  phase' = phase /\ Retires
  BY <1>6 DEF OnStopReturns, Stopping, Retires
<1>7. ASSUME NEW h \in Components, CloseResource(h)
      PROVE  phase' = phase /\ Closes
  BY <1>7 DEF CloseResource, Stopping, Closes
<1>8. Retires \/ Closes => phase \in {"stopping", "rollback"}
  BY DEF Retires, Closes
<1>9. CASE ReconcileReady \/ Deadline \/ Interrupt
  BY <1>9 DEF ReconcileReady, Deadline, Interrupt
<1>10. CASE Started BY <1>10 DEF Started
<1>11. CASE StopBegins BY <1>11 DEF StopBegins
<1>12. CASE StartFails \/ ListenRefuses BY <1>12 DEF StartFails, ListenRefuses
<1>16. CASE ListenRemovesStale \/ ListenBinds
  BY <1>16 DEF ListenRemovesStale, ListenBinds, Starting
<1>13. CASE Stopped \/ GiveUp \/ ConstructFails \/ Crash
  BY <1>13 DEF Stopped, GiveUp, ConstructFails, Crash, Exit
<1>14. CASE Restart BY <1>14 DEF Restart
<1>15. CASE \E h \in Components :
              \/ StartResource(h) \/ StartServiceAfter(h)
              \/ CancelService(h) \/ ServiceEnds(h) \/ ShutdownServer(h) \/ HandlersDone(h)
              \/ Fails(h) \/ OnStopReturns(h) \/ CloseResource(h)
  BY <1>3, <1>5, <1>6, <1>7, <1>8, <1>15
<1> QED
  BY <1>1, <1>2, <1>4, <1>9, <1>10, <1>11, <1>12, <1>13, <1>14, <1>15, <1>16, Zenon
     DEF LifeNext, Run, Disturb

\* A start hook that can fail is a server's, which comes after the resources.
LEMMA FailsLate ==
  ASSUME LifeTypeOK, StartFails \/ ListenRefuses
  PROVE  started >= 3
<1>1. /\ started + 1 \in 1 .. Len(Hooks) /\ started \in Nat
      /\ Hooks[started + 1] \in {"telemetry", "api"}
  BY HookOrder DEF LifeTypeOK, StartFails, ListenRefuses, Starting
<1>2. Hooks[started + 1] \notin Resources
  BY <1>1 DEF Resources
<1> QED BY <1>1, <1>2, Places

\* A process runs with every hook started.
LEMMA AllStartedStep ==
  ASSUME LifeTypeOK, AllStarted, LifeNext
  PROVE  AllStarted'
<1>1. Hooks' = Hooks
  BY HookSteps
<1>2. Started => started' = started /\ started = Len(Hooks)
  BY DEF Started, hookVars
<1> QED BY <1>1, <1>2, PhaseSteps DEF AllStarted

\* The stop begins with all resources open and counted, and closes the last of them
\* first.
LEMMA ClosedStep ==
  ASSUME LifeTypeOK, AllStarted, ClosedInOrder, LifeNext
  PROVE  ClosedInOrder'
<1>t. /\ comp \in [Components -> {"off", "up", "ending", "gone"}]
      /\ started \in 0 .. Len(Hooks) /\ Len(Hooks) \in Nat /\ started \in Nat
      /\ Len(Hooks) >= 6
  BY HookOrder DEF LifeTypeOK
<1>s. /\ "bus" \in Components /\ "questdb" \in Components /\ "postgres" \in Components
      /\ "bus" \notin Services \cup Servers /\ "questdb" \notin Services \cup Servers
      /\ "postgres" \notin Services \cup Servers
  BY DEF Components, Resources, Services, Servers
<1> SUFFICES ASSUME phase' \in {"stopping", "rollback"}
             PROVE  ClosedInOrder'
  BY DEF ClosedInOrder
<1>0. \/ /\ phase \in {"stopping", "rollback"}
         /\ \/ UNCHANGED <<started, comp>> \/ Ends \/ Retires \/ Closes
      \/ StopBegins \/ StartFails \/ ListenRefuses
  BY PhaseSteps
<1>1. CASE StopBegins
  <2>1. started' = Len(Hooks)
    BY <1>1 DEF StopBegins, AllStarted, hookVars
  <2> QED BY <1>t, <2>1 DEF ClosedInOrder
<1>2. CASE StartFails \/ ListenRefuses
  <2>1. started' = started /\ started >= 3
    BY <1>2, FailsLate DEF StartFails, ListenRefuses, hookVars
  <2> QED BY <1>t, <2>1 DEF ClosedInOrder
<1>3. CASE phase \in {"stopping", "rollback"} /\ UNCHANGED <<started, comp>>
  BY <1>3 DEF ClosedInOrder, Running
<1>4. CASE phase \in {"stopping", "rollback"} /\ Ends
  BY <1>4, <1>s, <1>t DEF Ends, ClosedInOrder, Running
<1>5. CASE phase \in {"stopping", "rollback"} /\ Retires
  <2>1. started \in 1 .. Len(Hooks)
    BY <1>5, <1>t DEF Retires
  <2>2. started >= 4
    BY <1>5, <2>1, Places DEF Retires
  <2> QED BY <1>5, <1>t, <2>2 DEF Retires, ClosedInOrder
<1>6. CASE phase \in {"stopping", "rollback"} /\ Closes
  <2>1. started \in 1 .. Len(Hooks)
    BY <1>6, <1>t DEF Closes
  <2>2. /\ Hooks[started] = "bus" <=> started = 1
        /\ Hooks[started] = "questdb" <=> started = 2
        /\ Hooks[started] = "postgres" <=> started = 3
    BY <2>1, Places
  <2> QED BY <1>6, <1>s, <1>t, <2>2 DEF Closes, ClosedInOrder, Running
<1> QED BY <1>0, <1>1, <1>2, <1>3, <1>4, <1>5, <1>6

\* The one exit in time and without a kill is at the end of the stop hooks, when
\* nothing is counted any more.
LEMMA LeavesStep ==
  ASSUME LifeTypeOK, Launched, ClosedInOrder, LifeNext
  PROVE  LeavesNothing'
<1> USE DEF hookVars
<1> SUFFICES ASSUME phase' = "exited", exit' \in {"0", "1"}, ~deadline',
                    built' = Len(Constructors)
             PROVE  \A h \in Components : ~Running(h)'
  BY DEF LeavesNothing, Constructors
<1>0. ConstructFails \/ Crash \/ Stopped \/ GiveUp
  BY PhaseSteps
<1>1. ~ConstructFails
  BY DEF ConstructFails, Constructors, LifeTypeOK
<1>2. ~Crash
  BY DEF Crash, Exit
<1>3. ~GiveUp
  BY DEF GiveUp, Exit
<1>4. Stopped
  BY <1>0, <1>1, <1>2, <1>3
<1>5. started = 0 /\ comp' = comp /\ phase \in {"stopping", "rollback"}
  BY <1>4 DEF Stopped
<1>6. \A h \in Resources : ~Running(h)
  BY <1>5 DEF ClosedInOrder, Resources
<1>7. \A h \in Services \cup Servers : ~Running(h)
  BY <1>5 DEF Launched
<1> QED BY <1>5, <1>6, <1>7 DEF Components, Running

\* What a step of another actor than Listen and the API server leaves alone.
PathLeftAlone == /\ UNCHANGED <<config, socket, abandoned>>
                 /\ comp'["api"] = "up" <=> comp["api"] = "up"

\* Between Listen's bind and the server nothing else happens to the hooks: the API's
\* is the next one.
LEMMA PathLeftAloneStep ==
  ASSUME LifeTypeOK, PathIsOurs, SocketIsTidy, PathLeftAlone, Hooks' = Hooks,
         phase' = "exited" <=> phase = "exited",
         socket = "live" => phase' \notin {"new", "exited"},
         socket = "bound" => UNCHANGED <<phase, started>>
  PROVE  PathIsOurs' /\ SocketIsTidy'
<1>1. PathIsOurs'
  BY Zenon DEF PathIsOurs, PathLeftAlone
<1>2. SocketIsTidy'
  BY Zenon DEF SocketIsTidy, PathLeftAlone
<1> QED BY <1>1, <1>2

\* Listen takes the path step by step, the server's end gives it back, and only a
\* kill or a deadline leaves a socket there: at a stop that ends in time no server is
\* up, and none is bound outside the start.
LEMMA SocketStep ==
  ASSUME LifeTypeOK, Launched, PathIsOurs, SocketIsTidy, LifeNext
  PROVE  PathIsOurs' /\ SocketIsTidy'
<1> USE DEF hookVars, procVars, pathVars, histVars
<1>t. /\ comp \in [Components -> {"off", "up", "ending", "gone"}]
      /\ "api" \in Components /\ "api" \in Servers /\ "api" \notin Services
      /\ "api" \notin Resources /\ "telemetry" \in Components /\ "telemetry" # "api"
  BY DEF LifeTypeOK, Components, Resources, Services, Servers
<1>h. Hooks' = Hooks /\ config' = config
  BY HookSteps
<1>b. ASSUME NEW h, Starting(h), h # "api"
      PROVE  socket # "bound"
  BY <1>b DEF Starting, PathIsOurs
<1>l. socket \in {"bound", "live"} => config.path = "absent"
  BY DEF SocketIsTidy, LifeTypeOK
<1>1. CASE Construct
  <2>1. built \in 0 .. 3
    BY <1>1 DEF Construct, Constructors, LifeTypeOK
  <2>2. Constructors[built + 1] # "api"
    BY <2>1 DEF Constructors
  <2>3. PathLeftAlone /\ UNCHANGED <<phase, started>> /\ phase # "exited"
    BY <1>1, <1>t, <2>2 DEF Construct, PathLeftAlone
  <2> QED BY <1>h, <2>3, PathLeftAloneStep DEF PathIsOurs
<1>2. ASSUME NEW h \in Components, StartResource(h) \/ StartServiceAfter(h)
      PROVE  PathIsOurs' /\ SocketIsTidy'
  <2>1. Starting(h) /\ h # "api"
    BY <1>2, <1>t DEF StartResource, StartServiceAfter
  <2>2. PathLeftAlone /\ phase' = phase /\ socket # "bound"
    BY <1>2, <1>b, <1>t, <2>1 DEF StartResource, StartServiceAfter, HookStarted,
       PathLeftAlone
  <2> QED BY <1>h, <2>2, PathLeftAloneStep DEF PathIsOurs
<1>3. CASE StartTelemetryServer
  <2>1. PathLeftAlone /\ phase' = phase /\ socket # "bound"
    BY <1>3, <1>b, <1>t DEF StartTelemetryServer, HookStarted, PathLeftAlone
  <2> QED BY <1>h, <2>1, PathLeftAloneStep DEF PathIsOurs
<1>4. CASE ListenRefuses
  BY <1>4, <1>h DEF ListenRefuses, Refused, Starting, PathIsOurs, SocketIsTidy
<1>5. CASE ListenRemovesStale \/ ListenBinds
  BY <1>5, <1>h DEF ListenRemovesStale, ListenBinds, Starting, PathIsOurs, SocketIsTidy,
     LifeTypeOK
<1>6. CASE StartAPIServer
  BY <1>6, <1>h, <1>l, <1>t DEF StartAPIServer, Starting, HookStarted, PathIsOurs,
     SocketIsTidy
<1>7. CASE StartFails
  <2>1. /\ UNCHANGED <<comp, started, abandoned>> /\ phase = "starting"
        /\ phase' = "rollback" /\ socket' = IF socket = "bound" THEN "absent" ELSE socket
    BY <1>7 DEF StartFails, Starting
  <2> QED BY <1>h, <1>l, <2>1 DEF PathIsOurs, SocketIsTidy
<1>8. ASSUME NEW h \in Components,
             CancelService(h) \/ ServiceEnds(h) \/ HandlersDone(h) \/ OnStopReturns(h)
               \/ CloseResource(h)
      PROVE  PathIsOurs' /\ SocketIsTidy'
  <2>1. UNCHANGED <<phase, config, socket, abandoned>>
    BY <1>8 DEF CancelService, ServiceEnds, HandlersDone, OnStopReturns, CloseResource
  <2>2. comp'["api"] = "up" <=> comp["api"] = "up"
    <3>1. CASE CancelService(h) \/ ServiceEnds(h) \/ CloseResource(h)
      BY <1>t, <3>1 DEF CancelService, ServiceEnds, CloseResource
    <3>2. CASE HandlersDone(h)
      BY <1>t, <3>2 DEF HandlersDone
    <3>3. CASE OnStopReturns(h)
      BY <3>3 DEF OnStopReturns
    <3> QED BY <1>8, <3>1, <3>2, <3>3
  <2>3. socket = "bound" => started' = started
    BY <1>8 DEF CancelService, ServiceEnds, HandlersDone, OnStopReturns, CloseResource,
       Stopping, PathIsOurs
  <2> QED BY <1>h, <2>1, <2>2, <2>3, PathLeftAloneStep DEF PathLeftAlone, PathIsOurs
<1>9. ASSUME NEW h \in Components, ShutdownServer(h) \/ Fails(h)
      PROVE  PathIsOurs' /\ SocketIsTidy'
  <2>1. /\ UNCHANGED <<phase, started, config, abandoned>> /\ phase # "exited"
        /\ h = "api" => socket' = "absent" /\ comp[h] = "up" /\ comp'[h] # "up"
        /\ h # "api" => socket' = socket /\ comp'["api"] = comp["api"]
    BY <1>9, <1>t DEF ShutdownServer, Stopping, Fails
  <2>2. CASE h = "api"
    BY <1>h, <1>l, <2>1, <2>2 DEF PathIsOurs, SocketIsTidy
  <2>3. CASE h # "api"
    BY <1>h, <2>1, <2>3, PathLeftAloneStep DEF PathLeftAlone, PathIsOurs
  <2> QED BY <2>2, <2>3
<1>10. CASE \/ Constructed \/ ReconcileReady \/ Started \/ StopBegins
            \/ Deadline \/ Interrupt
  <2>1. PathLeftAlone /\ started' = started
    BY <1>10, <1>h DEF Constructed, ReconcileReady, Started, StopBegins, Deadline,
       Interrupt, PathLeftAlone
  <2>2. /\ \/ phase # "exited" /\ phase' \notin {"new", "exited"}
           \/ phase' = phase
        /\ socket = "bound" => phase' = phase
    BY <1>10 DEF Constructed, ReconcileReady, Started, StopBegins, Deadline, Interrupt,
       PathIsOurs
  <2> QED BY <1>h, <2>1, <2>2, PathLeftAloneStep DEF PathIsOurs
<1>11. CASE Stopped \/ GiveUp \/ ConstructFails \/ Crash
  <2>1. /\ phase' = "exited" /\ socket' = IF Bound THEN "stale" ELSE socket
        /\ abandoned' = (abandoned \/ (Bound /\ (deadline \/ exit' = "killed")))
    BY <1>11 DEF Stopped, GiveUp, ConstructFails, Crash, Exit
  <2>2. Bound => deadline \/ exit' = "killed"
    <3>1. CASE Stopped
      <4>1. \A i \in 4 .. started : FALSE
        BY <3>1 DEF Stopped
      <4>2. ~Running("api")
        BY <1>t, <4>1 DEF Launched
      <4> QED BY <3>1, <4>2 DEF Stopped, PathIsOurs, Bound, Running
    <3>2. CASE GiveUp
      BY <3>2 DEF GiveUp
    <3>3. CASE ConstructFails
      BY <3>3 DEF ConstructFails, PathIsOurs, Bound
    <3>4. CASE Crash
      BY <3>4 DEF Crash, Exit
    <3> QED BY <1>11, <3>1, <3>2, <3>3, <3>4
  <2>3. socket' \notin {"bound", "live"} /\ (socket' = "stale" => abandoned')
    BY <2>1, <2>2 DEF Bound, SocketIsTidy
  <2>4. config'.path # "absent" => socket' = config'.path
    BY <1>h, <1>l, <2>1 DEF Bound, SocketIsTidy
  <2> QED BY <2>1, <2>3, <2>4 DEF PathIsOurs, SocketIsTidy
<1>12. CASE Restart
  BY <1>12, <1>h, <1>t DEF Restart, Off, PathIsOurs, SocketIsTidy
<1> QED
  BY <1>1, <1>2, <1>3, <1>4, <1>5, <1>6, <1>7, <1>8, <1>9, <1>10, <1>11, <1>12, Zenon
     DEF LifeNext, Run, Disturb

--------------------------------------------------------------------------------
(* The invariant and what it gives. *)

\* In every reachable state of the daemon's life the types hold, only started hooks'
\* components run, resources are open while they count as started and closed once the
\* stop has passed them, and the API's path is taken and given back with the server.
THEOREM LifecycleInvariance == LifeSpec => []LifeInv
<1> USE DEF LifeInv
<1>1. LifeInit => LifeInv
  <2> SUFFICES ASSUME LifeInit PROVE LifeInv
    OBVIOUS
  <2>1. \A h \in Components : comp[h] = "off"
    BY DEF LifeInit, Off
  <2>2. LifeTypeOK
    <3>1. /\ config \in [trading : BOOLEAN, api : BOOLEAN,
                         path : {"absent", "file", "other"}]
          /\ deadline \in BOOLEAN /\ stopErr \in BOOLEAN /\ abandoned \in BOOLEAN
          /\ ready \in BOOLEAN
          /\ failed \in BOOLEAN /\ interrupted \in BOOLEAN /\ disturbed \in BOOLEAN
      BY Zenon DEF LifeInit
    <3>3. config.path \in {"absent", "file", "other"}
      BY <3>1
    <3>2. /\ phase \in {"new", "starting", "running", "stopping", "rollback", "exited"}
          /\ built \in 0 .. Len(Constructors) /\ started \in 0 .. Len(Hooks)
          /\ comp \in [Components -> {"off", "up", "ending", "gone"}]
          /\ signal \in {"none", "0", "1"} /\ exit \in {"none", "0", "1", "killed"}
          /\ socket \in {"absent", "file", "other", "bound", "live", "stale"}
          /\ runs \in 1 .. MaxRuns
      BY <3>3, HookOrder, RunsAssumption DEF LifeInit, Off, Constructors
    <3> QED BY <3>1, <3>2, Zenon DEF LifeTypeOK
  <2>3. Launched
    BY <2>1 DEF Launched, Running, Components
  <2>4. OpenInOrder /\ ClosedInOrder /\ AllStarted /\ LeavesNothing
    BY DEF LifeInit, OpenInOrder, ClosedInOrder, AllStarted, LeavesNothing
  <2>5. config.path \in {"absent", "file", "other"} /\ socket = config.path
    BY <2>2 DEF LifeInit, LifeTypeOK
  <2>6. PathIsOurs /\ SocketIsTidy
    BY <2>1, <2>5 DEF PathIsOurs, SocketIsTidy, Components, Servers
  <2> QED BY <2>2, <2>3, <2>4, <2>6
<1>2. LifeInv /\ [LifeNext]_lifeVars => LifeInv'
  <2> SUFFICES ASSUME LifeInv, [LifeNext]_lifeVars PROVE LifeInv'
    OBVIOUS
  <2>1. CASE LifeNext
    BY <2>1, TypeStep, LaunchedStep, OpenStep, ClosedStep, AllStartedStep, LeavesStep,
       SocketStep
  <2>2. CASE UNCHANGED lifeVars
    <3> USE <2>2 DEF lifeVars, hookVars, procVars, pathVars, histVars
    <3>1. Hooks' = Hooks BY DEF Hooks
    <3>2. LifeTypeOK'
      <4>1. /\ config' \in [trading : BOOLEAN, api : BOOLEAN,
                            path : {"absent", "file", "other"}]
            /\ deadline' \in BOOLEAN /\ stopErr' \in BOOLEAN /\ abandoned' \in BOOLEAN
            /\ ready' \in BOOLEAN
            /\ failed' \in BOOLEAN /\ interrupted' \in BOOLEAN /\ disturbed' \in BOOLEAN
        BY DEF LifeTypeOK
      <4>2. started' \in 0 .. Len(Hooks') /\ built' \in 0 .. Len(Constructors)
        BY <3>1 DEF LifeTypeOK
      <4> QED BY <4>1, <4>2 DEF LifeTypeOK, Constructors
    <3>3. Launched' /\ OpenInOrder' /\ ClosedInOrder' /\ AllStarted'
      BY <3>1 DEF Launched, OpenInOrder, ClosedInOrder, AllStarted, Running
    <3>4. LeavesNothing' /\ SocketIsTidy'
      BY Zenon DEF LeavesNothing, SocketIsTidy, Running
    <3>5. PathIsOurs'
      BY <3>1, Zenon DEF PathIsOurs
    <3> QED BY <3>2, <3>3, <3>4, <3>5
  <2> QED BY <2>1, <2>2
<1> QED BY <1>1, <1>2, PTL DEF LifeSpec

\* No service or server ever runs with a resource it uses closed: with one running,
\* its hook counts, and the resources' hooks are below it (internal/app).
THEOREM NeverUsesClosed == LifeSpec => []UsesOpenResources
<1>1. LifeInv => UsesOpenResources
  <2> SUFFICES ASSUME LifeInv, NEW h \in Services \cup Servers, Running(h),
                      NEW r \in Uses[h]
               PROVE  comp[r] = "up"
    BY DEF LifeInv, UsesOpenResources
  <2>1. PICK i \in 4 .. started : Hooks[i] = h
    BY DEF LifeInv, Launched
  <2>2. started \in Nat /\ started >= 3
    BY <2>1, HookOrder DEF LifeInv, LifeTypeOK
  <2>3. r \in {"bus", "questdb", "postgres"}
    BY DEF Uses, Components, Services, Servers, Resources
  <2> QED BY <2>2, <2>3 DEF LifeInv, OpenInOrder
<1> QED BY <1>1, LifecycleInvariance, PTL

\* A process that exits by itself and in time has ended everything it started and
\* closed every resource, after a stop as after a failed start (fx rolls back).
THEOREM ExitsClean == LifeSpec => []LeavesNothing
<1>1. LifeInv => LeavesNothing
  BY DEF LifeInv
<1> QED BY <1>1, LifecycleInvariance, PTL

\* Over any failures, kills and restarts the API's path holds what was there before
\* the daemon, and a socket nobody serves only after a kill or a deadline: Listen's
\* error paths and every orderly end take the socket away (internal/api/listen.go).
THEOREM SocketStaysTidy == LifeSpec => []SocketIsTidy
<1>1. LifeInv => SocketIsTidy
  BY DEF LifeInv
<1> QED BY <1>1, LifecycleInvariance, PTL
================================================================================
