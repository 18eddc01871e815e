------------------------------ MODULE OutboxRelay ------------------------------
(***************************************************************************)
(* The transactional outbox from the insert to the subscriber: the store's *)
(* transactions that write rows (adapters/postgres/orders.go), the relay   *)
(* (service/outbox and adapters/postgres/outbox.go) and the in-process bus *)
(* (bus/bus.go) with one subscriber.                                       *)
(*                                                                         *)
(* A row's id is drawn from the identity sequence when the row is          *)
(* inserted, and the row is visible when its transaction commits.  An      *)
(* order has at most one open transaction, which holds the order's row     *)
(* lock (OrderStore).  The relay's transaction publishes first and marks   *)
(* afterwards; a crash or a database error in between rolls the mark back  *)
(* and stops the process, and with it the bus.                             *)
(***************************************************************************)
EXTENDS Integers, Sequences, FiniteSets, SequencesExt, FiniteSetsExt

CONSTANTS
  Orders,          \* orders whose transactions write to the outbox
  Batch,           \* rows claimed by one PublishPending
  Buffer,          \* capacity of a subscriber's channel (64 in the code)
  MaxRows,         \* bound: ids drawn in one behaviour
  MaxCrashes       \* bound: crashes in one behaviour

ASSUME RelayAssumption ==
  /\ Batch \in Nat \ {0} /\ Buffer \in Nat
  /\ MaxRows \in Nat /\ MaxCrashes \in Nat

VARIABLES
  outboxSeq,       \* the identity sequence
  open,            \* open[o]: ids inserted by o's open transaction, in order
  rows,            \* committed outbox rows
  marks,           \* batches marked so far: the clock of published_at
  claimed,         \* the rows the relay's open transaction holds
  sent,            \* those of them it has published
  queue,           \* the subscriber's channel: places in published
  dropped,         \* the bus's count of events that found the channel full
  crashes,
  committed,       \* history: rows in the order they became visible
  published,       \* history: ids handed to the bus, in order
  handled,         \* history: what the handler got since the process started
  started          \* history: the publications before that

writerVars == <<outboxSeq, open, committed>>
relayVars  == <<marks, claimed, sent, published>>
busVars    == <<queue, dropped, handled, started>>
vars == <<writerVars, rows, relayVars, busVars, crashes>>

\* publishedAt = 0 stands for NULL.
Row == [id : Nat, order : Orders, publishedAt : Nat]

Init == /\ outboxSeq = 0
        /\ open = [o \in Orders |-> <<>>]
        /\ rows = {}
        /\ marks = 0
        /\ claimed = {}
        /\ sent = {}
        /\ queue = <<>>
        /\ dropped = 0
        /\ crashes = 0
        /\ committed = <<>>
        /\ published = <<>>
        /\ handled = <<>>
        /\ started = 0

--------------------------------------------------------------------------------
(* The transactions that write rows. *)

InsertOutbox(o) ==
  /\ outboxSeq < MaxRows
  /\ outboxSeq' = outboxSeq + 1
  /\ open' = [open EXCEPT ![o] = Append(@, outboxSeq')]
  /\ UNCHANGED <<rows, relayVars, busVars, crashes, committed>>

CommitOutbox(o) ==
  /\ open[o] # <<>>
  /\ rows' = rows \cup {[id |-> n, order |-> o, publishedAt |-> 0] :
                          n \in ToSet(open[o])}
  /\ committed' = committed \o [k \in 1 .. Len(open[o]) |->
                                  [id |-> open[o][k], order |-> o]]
  /\ open' = [open EXCEPT ![o] = <<>>]
  /\ UNCHANGED <<outboxSeq, relayVars, busVars, crashes>>

\* The transaction rolls back; the ids it drew are gone.
AbortOutbox(o) ==
  /\ open[o] # <<>>
  /\ open' = [open EXCEPT ![o] = <<>>]
  /\ UNCHANGED <<outboxSeq, rows, relayVars, busVars, crashes, committed>>

--------------------------------------------------------------------------------
(* PublishPending, called by drain for as long as it finds rows. *)

Unpublished == {r \in rows : r.publishedAt = 0}

\* A batch is as long as the limit, unless fewer rows are left.
FullBatch(batch) ==
  Cardinality(batch) = Min({Batch, Cardinality(Unpublished)})

\* Mutant of FirstUnpublished: newest first.
NewestUnpublished(batch) ==
  /\ batch \subseteq Unpublished
  /\ FullBatch(batch)
  /\ \A r \in batch, s \in Unpublished \ batch : s.id < r.id

\* ClaimUnpublishedOutbox: the first rows by id.  No other transaction locks
\* unpublished rows, so SKIP LOCKED skips nothing.
FirstUnpublished(batch) ==
  /\ batch \subseteq Unpublished
  /\ FullBatch(batch)
  /\ \A r \in batch, s \in Unpublished \ batch : r.id < s.id

Claim ==
  /\ claimed = {}
  /\ Unpublished # {}
  /\ \E batch \in SUBSET Unpublished : /\ FirstUnpublished(batch)
                                       /\ claimed' = batch
  /\ UNCHANGED <<writerVars, rows, marks, sent, published, busVars, crashes>>

\* Mutant of BusPublish: a drop is not counted.
BusPublishUncounted ==
  /\ queue' = IF Len(queue) < Buffer
              THEN Append(queue, Len(published) + 1) ELSE queue
  /\ UNCHANGED dropped

\* Bus.Publish: never blocks, drops when the subscriber's channel is full.
BusPublish ==
  IF Len(queue) < Buffer
  THEN queue' = Append(queue, Len(published) + 1) /\ UNCHANGED dropped
  ELSE dropped' = dropped + 1 /\ UNCHANGED queue

\* The next row of the batch, in the order of the query.
Publish ==
  /\ \E r \in claimed \ sent :
       /\ \A s \in claimed \ sent : r.id <= s.id
       /\ published' = Append(published, r.id)
       /\ sent' = sent \cup {r}
  /\ BusPublish
  /\ UNCHANGED <<writerVars, rows, marks, claimed, handled, started, crashes>>

\* Mutant of Mark: the batch is marked before all of it is published.
MarkEarly ==
  /\ claimed # {}
  /\ marks' = marks + 1
  /\ rows' = (rows \ claimed)
               \cup {[r EXCEPT !.publishedAt = marks'] : r \in claimed}
  /\ claimed' = {}
  /\ sent' = {}
  /\ UNCHANGED <<writerVars, published, busVars, crashes>>

\* MarkOutboxPublished and the commit.
Mark ==
  /\ claimed # {}
  /\ sent = claimed
  /\ marks' = marks + 1
  /\ rows' = (rows \ claimed)
               \cup {[r EXCEPT !.publishedAt = marks'] : r \in claimed}
  /\ claimed' = {}
  /\ sent' = {}
  /\ UNCHANGED <<writerVars, published, busVars, crashes>>

\* Mutant of Cleanup: rows are deleted by age, published or not.
CleanupByAge(cutoff) ==
  /\ claimed = {}
  /\ \E r \in rows : r.publishedAt \in 1 .. cutoff - 1
  /\ rows' = {r \in rows : r.publishedAt >= cutoff}
  /\ UNCHANGED <<writerVars, relayVars, busVars, crashes>>

\* DeletePublishedBefore.
Cleanup(cutoff) ==
  /\ claimed = {}
  /\ \E r \in rows : r.publishedAt \in 1 .. cutoff - 1
  /\ rows' = {r \in rows : r.publishedAt = 0 \/ r.publishedAt >= cutoff}
  /\ UNCHANGED <<writerVars, relayVars, busVars, crashes>>

\* The subscriber's goroutine takes the next event.
Handle ==
  /\ queue # <<>>
  /\ queue' = Tail(queue)
  /\ handled' = Append(handled, Head(queue))
  /\ UNCHANGED <<writerVars, rows, relayVars, dropped, started, crashes>>

\* The daemon dies or stops on a store failure, and is started again.
Crash ==
  /\ crashes < MaxCrashes
  /\ crashes' = crashes + 1
  /\ open' = [o \in Orders |-> <<>>]
  /\ claimed' = {}
  /\ sent' = {}
  /\ queue' = <<>>
  /\ dropped' = 0
  /\ handled' = <<>>
  /\ started' = Len(published)
  /\ UNCHANGED <<outboxSeq, rows, marks, published, committed>>

Next == \/ \E o \in Orders : InsertOutbox(o) \/ CommitOutbox(o) \/ AbortOutbox(o)
        \/ Claim \/ Publish \/ Mark \/ Handle
        \/ \E cutoff \in 1 .. marks + 1 : Cleanup(cutoff)
        \/ Crash

\* The relay polls for as long as the daemon runs; a batch does not fail for
\* ever.  Nothing is assumed of writers, subscribers or the cleanup.
Fairness == WF_vars(Claim) /\ WF_vars(Publish) /\ WF_vars(Mark)

Spec == Init /\ [][Next]_vars /\ Fairness

--------------------------------------------------------------------------------
(* Properties. *)

\* Types; the queue of a subscriber never exceeds its channel.
TypeOK ==
  /\ outboxSeq \in Nat
  /\ open \in [Orders -> Seq(1 .. outboxSeq)]
  /\ rows \subseteq Row
  /\ marks \in Nat
  /\ claimed \subseteq rows
  /\ sent \subseteq claimed
  /\ queue \in Seq(1 .. Len(published)) /\ Len(queue) <= Buffer
  /\ dropped \in Nat
  /\ published \in Seq(1 .. outboxSeq)

\* At least once into the bus: a committed row that is marked published, or
\* already cleaned up, has been handed to the bus, whatever crashed in between
\* ("giving at-least-once delivery into the bus", service/outbox/outbox.go:4); and
\* no channel is over-filled (TypeOK).
NoRowSkipped ==
  TypeOK /\ \A k \in 1 .. Len(committed) :
    LET id == committed[k].id
    IN  \/ id \in ToSet(published)
        \/ \E r \in rows : r.id = id /\ r.publishedAt = 0

\* The events of one order reach the bus in the order of its transactions: when
\* a row is published, the rows committed before it for that order have been
\* published.  Repeats after a crash start the unmarked batch over.
OrderEventsInOrder ==
  \A i, j \in 1 .. Len(committed) :
    /\ i < j
    /\ committed[i].order = committed[j].order
    => \A k \in 1 .. Len(published) :
         published[k] = committed[j].id
           => \E m \in 1 .. k - 1 : published[m] = committed[i].id

\* A slow subscriber loses events, never their order: since the process
\* started every publication was handled or is queued, in publication order,
\* or is counted as dropped.
DropsAreCounted ==
  LET got == handled \o queue
  IN  /\ Len(got) + dropped = Len(published) - started
      /\ \A i, j \in 1 .. Len(got) : i < j => got[i] < got[j]
      /\ \A i \in 1 .. Len(got) : got[i] \in started + 1 .. Len(published)

\* Every committed row is published eventually, also when the daemon crashes in
\* the middle of a batch and when subscribers are slow.
EventuallyPublished ==
  \A n \in 1 .. MaxRows :
    (\E k \in 1 .. Len(committed) : committed[k].id = n)
      ~> (\E k \in 1 .. Len(published) : published[k] = n)
================================================================================
