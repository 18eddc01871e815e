# A TLA+ model of delta-works

delta-works is a trading daemon: a control API places and cancels orders at
exchanges, a private stream and a reconciliation loop bring back what became of
them, Postgres is the truth, an outbox relays every change onto an in-process
bus, and a snapshot service records balances in a time-series store.  This
directory models the parts of it that are hard to test and checks them with TLC;
all but the liveness properties are also proved with TLAPS, for every size of the
system.

`PROJECT.json` maps every definition to the lines it stands for and lists runs,
mutants, hazards, findings and theorems.

## 1. Inventory

| Component (source) | State | Operations | What is hard | What makes it correct |
|---|---|---|---|---|
| Order state machine (`internal/domain/order`) | status, cumulative fill | `Transition` | three sources report the same order in any order, repeatedly | result depends only on the set of events; never backward; terminal stays |
| Order store (`internal/adapters/postgres/orders.go`) | `orders`, `order_transitions`, `fills`, `outbox` | `CreatePending`, `MarkCancelRequested`, `ApplyEvent`, `ListOrders` | concurrent transactions, aborts between statements, reused fill IDs | gapless history that ends in the row; fills add up; one outbox row per fact; atomic to callers |
| Inventory ledger (`ledger.go`, `internal/domain/ledger`) | `lots`, `lot_closures`, `unmatched_sells` | `postLedgerFill`, FIFO `Select` | two orders on one inventory, late fills, over-selling | every unit accounted once; FIFO; unmatched only when empty |
| Order service (`internal/service/order`) | none of its own; calls in flight | `Place`, `Cancel`, stream consumer | ambiguous submits, retries, crashes, a late submit | the row exists before the submit; local state never ahead of the venue |
| Reconciliation (`internal/service/reconcile`) | kick channel, pass in progress, reported orphans | pass, kick, timer | reads of venue and store at different times, other writers meanwhile | converges; adopts; never presumes; own orders are never orphans |
| Venue adapter (`internal/adapters/gct`) | pump: last seen connection, channel | order calls, pump | polling a connection, back-pressure, teardown | gaps are announced or covered by the timer |
| Outbox relay (`internal/service/outbox`, `outbox.go`) | claimed batch, marks | drain, cleanup | ids before commits, crash between publish and mark | at least once, per-order order |
| Event bus (`internal/bus`) | subscriber channels, drop counter | `Publish`, `Subscribe`, unsubscribe, `Close` | full channels; closing while others publish or unsubscribe | never blocks, drops counted, order kept, no send on a closed channel |
| Snapshot service (`internal/service/snapshot`, `adapters/questdb`) | write mutex, sender buffer, checkpoints | poll, write, flush, record, `LastSnapshot` | shared buffer, partial failure, shutdown | an ok checkpoint means durable rows; a client is told the newest one |
| Exchange decorators (`internal/exchange`) | breaker state and counts, limiter tokens | every venue call | late results, throttled or lost probes, concurrent callers | quiet while open; recovers with the venue; opens only for what the venue did |
| Control API (`internal/api`) | per-stream channel, sockets | RPC handlers, `StreamEvents`, `Listen`, shutdown | page walks under writes; slow clients; streams open at shutdown | pages neither skip nor repeat; a stream is a lossy ordered feed; shutdown ends |
| Lifecycle (`internal/app`, `cmd/daemon`) | phase, running hooks, exit code | constructors, start and stop hooks, fail fast, signal | failure in the middle of a start; deadlines; kill and restart | nothing runs on a closed resource; a failed start leaves nothing; the socket goes with the server; a dead process's socket is taken over |
| Command line client (`cmd/ctl`) | the walk through the pages, the stream it shows | `order list`, `watch`, `events`, `status` | the server changes or stops under it | shows each order once, in order, with its status |
| Configuration, logging, telemetry | nothing that changes | | | not modelled |
| Generated code (`sqlcgen`, `api/gen`) | none | queries, enumerations | | modelled inside the operations that call it; accessors and descriptors are not |

Interactions: the API calls the order service; the service and reconciliation
call the venue through decorators and adapter and share the orders table through
the store; the store writes outbox rows in the same transaction; the relay reads
them and publishes on the bus; the pump publishes `stream.reconnected` on the
bus, to which reconciliation subscribes; every client of the API's event stream
is one more subscriber; the lifecycle starts and stops them all and owns the
pools they use.

## 2. Modules

| Module | Models | State and steps |
|---|---|---|
| `OrderMachine` | `machine.go`: `rank`, `Transition`; the early return and the new state of `ApplyEvent` | operators only |
| `OrderEvents` | one order at the venue, its reports, their delivery | a venue step, a report, a delivery |
| `AtomicOrders` | what callers of the store may assume (`ports/store.go`) | one step per store call |
| `OrderStore` | `ApplyEvent` and the ledger posting in the order of their SQL statements: the locks, the reads a decision rests on and each group of writes are steps | committed tables; per worker its private writes; row locks and inventory locks |
| `FifoLedger`, `FifoInventory` | FIFO `Select`; one inventory as fills change it; the order's average price | `Buy`, `Sell` |
| `OrderFlow` | `Place`, `Cancel`, the stream consumer and the reconciliation pass with the venue | composes `OrderMachine` and `AtomicOrders`; every store call and every venue call is a step; `Crash` keeps only the table |
| `OutboxRelay` | relay, outbox table, bus and one subscriber | insert, commit, claim, publish, mark, cleanup, handle, crash |
| `StreamReconnect` | pump, stream consumer, reconnect hint, kick, loop | every channel operation is a step |
| `SnapshotService` | `snapshot()` per target with one shared line sender | every call that can fail is a step; `LastSnapshot` |
| `OrderPages` | the order list from the table over the wire to the terminal: query, token, filter and status conversions, the client's walk | insert, change of status, start, list a page |
| `VenueBreaker` | `Decorate`: breaker outside, limiter inside, adapter innermost, with concurrent callers | a call is admitted, waits for a token, runs, reports its result |
| `EventFeed` | what a client of `StreamEvents` may assume: a lossy, ordered feed | publish, join, deliver |
| `EventStream` | bus, `StreamEvents`, the server's shutdown and the streaming client | every channel operation and every send is a step; composes the bus, the API and the client |
| `Lifecycle` | the daemon process: constructors, hooks, failure, signal, deadlines, kill, restart, the socket | one step per constructor and hook, and per thing `Listen` does to the path |

`MC*` modules and `.cfg` files instantiate them; `*_proofs` modules hold the
theorems: one each for the modules of orders and the outbox, `Ledger_proofs` for
`FifoLedger` and `FifoInventory` (`OrderStore_proofs` builds on it), `Venue_proofs`
for what depends on a venue (`VenueBreaker`, `StreamReconnect`,
`SnapshotService`) and `Daemon_proofs` for the daemon as clients and operator meet
it (`EventStream`, `OrderPages`, `Lifecycle`).  Where two modules are extended
together their specifications have names of their own (`PagesInit`, `LifeNext`,
`ReconnectSpec`, `SnapshotInit`, `InventorySpec`).  Operators whose comment begins "Mutant" are plausible bugs of
the definition after them and are not used by any specification: they show, one
per property, that the property notices.

Abstractions shared by all modules: quantities are natural numbers of the
smallest increment (the code uses exact decimals, which it compares, adds and
subtracts; the one division is the average price's); fees, wording, metrics and,
but for the average price in `FifoInventory`, prices are left out; IDs are
uninterpreted except where their order matters.

How code and model correspond where it is not obvious:

- *Transactions* (`OrderStore`).  A worker's writes stay in `writes`, `posting`
  and `staged` until `Commit`.  Isolation is READ COMMITTED.  `Abort` stands for
  a database error, a canceled context and a crash, and may happen at every
  step.  Identity values drawn by an aborted transaction are lost.  Statements
  whose rows nobody else sees before the commit are grouped: `InsertTransition`
  is the transition and its fill, `CloseLots` all closures and decrements of a sell,
  `InsertEventOutbox` the update of the order and its outbox rows, each under the
  locks held.
- *Ambiguity* (`OrderFlow`).  `SubmitAmbiguous` is a submit whose caller saw an
  error; the request may already be at the venue or arrive later (`inflight`).
  The duplicate of a client order ID creates nothing at the venue
  (`ports/trading.go:14`).  The venue, the stream and late arrivals are external.
- *What a venue says* (`OrderFlow`).  The ack of a submit carries any status the
  order has or had at the venue, filled and canceled among them, and no quantity
  (`gct/orders.go:36`, `order.go:118`).  A cancel confirmation may carry the
  quantity or zero (`manual-trading.md:126`).  A status the adapter cannot map is
  no event.  `bare` remembers the rows that a report without a quantity has
  closed.  A report stays in `stream` and may be consumed in any order, again, or
  never: a report never consumed is a lost one.
- *Credentials* (`OrderFlow`).  `creds` says whether this process can authenticate
  at the venue.  It is fixed for the life of a process and may be another after a
  restart; `ErrAuth` is the answer when it is false, and then nothing is sent.
- *Own orders* (`OrderFlow`) are reported by the venue with their client order ID
  (`manual-trading.md:183`).  Reports without one are orphans by definition
  (`reconcile.go:285`) and belong to no order of the model.
- *Time*.  Intervals, grace periods and delays are steps that may happen at any
  moment; only `GraceElapses` and the loop's timer are assumed to happen.
- *The line sender* (`SnapshotService`) is external: a failing flush may or may
  not have reached the server and may or may not keep its buffer.
- *Context cancellation* of the stream is left out of `StreamReconnect`.
- `StreamReconnect` follows the updates the stream has lost and the reads of the
  venue after them, and says nothing of what a pass does with the answer: the rows
  it skips, the lookups that fail and the rows that are terminal already are
  `OrderFlow`'s.  It has one venue; in the code all venues share the subscriber's
  channel of hints (`reconcile.go:82`), so the hints of others can fill it too.
- *The breaker's generation* (`VenueBreaker`) is the set `admitted` of calls let
  in since its last change of state; the result of any other call is ignored.
  The breaker and the limiter are libraries and external, configured as
  `Decorate` does.  Results are classes of errors: those `isBreakerSuccess` accepts
  and those it counts.
- *The average price* (`FifoInventory`) is kept in units of its last decimal place,
  `Scale` to one unit of price, and rounded half up at every fill, as the decimal
  library's `Div` does at 16 places; 0 stands for a missing price as NULL does in
  the row.
- *Statuses* (`OrderPages`) cross the wire as enumeration numbers and the
  terminal as text, in both directions; the model keeps the three vocabularies
  apart and converts with the code's tables.
- *Connections* (`EventStream`) hold `Window` messages; a send blocks on a client
  that does not read.  A client subscribes with a prefix, which is a set of
  subjects.  An event that has no wire form, or whose payload is malformed, is of
  a kind that is not `Typed`.  `Publish` and the unsubscribe function hold the
  bus mutex from beginning to end and are single steps: the model relies on the
  mutex and could not notice its removal.
- *fx* (`Lifecycle`) is external: hooks start in order, those started are
  stopped in reverse, an error of a stop hook is noted and the deadline ends
  the stopping.  `config` says whether a venue trades and the API has an
  address, which decides the hooks that exist, and what was at the API's path
  before the first start.
- *The API's path* (`Lifecycle`).  `Listen` refuses a file and a served socket,
  removes a socket nobody serves, binds and restricts the path; each is a step, and
  each of its calls may fail (`StartFails`), after the bind with the listener
  closed.  An API on a TCP address behaves as the telemetry server.

## 3. Runs

| Run | Bounds | Checks |
|---|---|---|
| `order_rules` | an order of 3 units; 3 lots, quantities to 3, 2 venue times, prices 0, 2 and 5, one decimal place | every delivery order, repetition and loss of reports, agreement once told; `Select` against a definition without a loop, the rounded average price against the fills |
| `order_store` | a buy and a sell order on one inventory, 2 workers, 3 transactions | audit trail, fills, outbox, ledger, unmatched sells, refinement of `AtomicOrders`, no transaction waits for ever |
| `order_flow` | 1 order of 2 units, 1 caller, 3 API calls, 1 crash | own orders are no orphans, local never ahead, convergence and adoption by reconciliation alone |
| `outbox_relay` | 2 orders, 4 rows, batch 2, channel of 1, 1 crash | at least once, order, drops, everything is published |
| `snapshot_service` | 2 targets, 2 currencies, 2 snapshots each, 1 restart | durable checkpoints, the newest one is told, no silent gap, shutdown ends |
| `stream_reconnect` | channels of 1, 3 updates, 3 losses | a published reconnect is not forgotten, the venue is read after every loss |
| `order_pages` | 4 orders, 2 times, pages of at most 2, limits 1, 3 and 5 | each order once and in order, none skipped, with the status it has |
| `venue_breaker` | 3 callers, threshold 2, burst 2 | quiet while open, recovers |
| `event_stream` | 2 clients, channels and window of 1, 2 events | refinement of `EventFeed`, no send on a closed channel, no goroutine left, shutdown ends |
| `lifecycle` | 2 processes, all configurations | resources outlive their users, a failed start leaves nothing, the path is left tidy, fail fast with the right exit code, an undisturbed start serves, stopping ends |

Types.  `TypeOK`, in some modules with a prefix, is a theorem for `OrderEvents`,
`OrderStore`, `VenueBreaker` (`TypeCorrect`), `StreamReconnect`
(`LinkTypeCorrect`) and `SnapshotService` (`SnapshotTypeCorrect`), and part of the
proved invariant of `OrderFlow`, `OutboxRelay`, `EventStream`, `OrderPages`,
`Lifecycle` and `FifoInventory`; in the last four it is also a conjunct of one
invariant of the run.
`NeverBackward` and `ReplayCarriesNothing` (`OrderEvents`), `TakenIsAnchored`
(`SnapshotService`) and `ProbeUnderWay` (`VenueBreaker`) are proved for every size
and have no run of their own.

Why the bounds are enough.  The store's conflicts are between two transactions
on one row or one inventory: two workers and two orders give all of them, and
three transactions allow a partial fill, a cancel and a late fill, or two buys
and a sell that spans them (longer inventories are `order_rules`').  The two parts
of `order_rules` share no state, so one rests while the other moves.  One order
suffices for `OrderFlow`, because calls, passes and events of different orders
share no state but the pass, which treats them one by one; three calls are a
Place, its repetition and a Cancel.  They come one after the other, but each may
leave a submit under way that lands during the next; calls that race on one ID
are left to the proofs: `NeverOrphan` and `NeverAhead` hold for any set of callers,
and convergence was also checked with two callers and two calls (637,222 states,
too slow to keep as a run).  Two units give a partial fill that is then cancelled;
how reports of longer series of fills combine is `order_rules`, and is proved for
every quantity.  One
decimal place already rounds: thirds do not fit.  Channels of capacity one are
full at once, so that two events already drop one.  Four orders on pages of two
end a page inside and between groups of equal creation time, and a limit of 3
ends the walk inside a page.  Three callers give a half-open circuit its probe,
a refused call and a late result of an older generation; a threshold of 2 tells
consecutive failures from single ones.  Two processes meet the socket a killed
one left behind.  Deadlock is not checked where the system may come to rest: an
idle outbox, a service, stream or process that has stopped, a finished page
walk.

### Runs that show a disagreement

- `order_flow_refused` (1 order, 1 caller, 2 calls, 1 restart): `order.go:189` says
  of a permanent error "No venue order can exist".  A Place that ends unsettled
  may have reached the venue.  After a restart without usable credentials a Place
  of the same ID finds the row pending, submits again and fails with `ErrAuth`:
  the row is rejected, the order trades on and is never reconciled.
- `order_flow_ack` (1 order, 1 caller, 1 call): `order.go:115` says a zero quantity
  in the ack is "harmless", and `manual-trading.md:226` that the system "would
  eventually converge on reconciliation alone".  An ack that already says filled
  closes the row with quantity 0; if the stream's report is then lost, no pass
  reads the order again.  A cancel confirmation without a quantity has the same
  effect.  `ConvergesToVenue` states what does hold: the status always, the quantity
  unless a report without one has closed the row (`bare`).

### Disagreements without a run

Met while modelling; the models follow the code.

- `manual-trading.md:139` says a transition row is appended "if the status
  changed": a fill that arrives after the cancel appends one without a change.
- `manual-trading.md:220` says `stream.reconnected` is published "after every
  reconnect": the pump compares two polls of the connection and does not see a
  loss and reconnect between them, after which only the timer makes the loop read
  the venue (`LossIsFollowedByRead`).
- `order.go:29` says the retry delay "spaces attempts to re-establish a venue
  stream after it failed to start or ended": a stream that ended is started
  again at once.
- `adr/0008-transactional-outbox.md:46` says events are "relayed in commit
  order".  They are relayed by id, which is drawn before the commit; the order
  holds per order (`OrderEventsInOrder`), as the row lock spans the draw.
- `registry.go:62` says configuration errors "must not open a venue-wide circuit".
  The limiter's decorator implements the trading interface for every adapter, so
  the breaker's own check never answers: `ErrTradingUnsupported` comes from inside
  the breaker (`middleware.go:107`) and counts as a venue failure
  (`IsBreakerSuccess`).  The adapter in use trades, but conversions that fail before
  anything is sent (a symbol the venue does not list, `gct/convert.go:58`) count
  likewise.
- A half-open probe that is canceled or throttled counts as a success and closes
  the circuit; a refusal by the venue counts as a failure.
- Drops of the API's stream channel are not counted, unlike those of the bus.
- A streaming client that stops reading holds the API's shutdown until the stop
  deadline, after which the remaining stop hooks are skipped.
- `Listen` checks for a living socket before it removes it: two daemons that
  start at once may both pass the check.  `Lifecycle` has one process at a time.
- Venue names that differ in case are one venue in the registry and two in the
  list of trading venues.

## 4. Fairness

- `OrderStore`: weak fairness of each worker's steps: the database answers or
  fails, statements have deadlines.  A worker waiting for a lock is not assumed
  to get it; that it does is `EveryApplyEnds`.
- `OrderFlow`: weak fairness of the pass's own steps (the loop runs as long as
  the daemon, and `OpenOrders` does not fail for ever), strong fairness of the point lookup (the venue does not fail it
  in every pass), weak fairness of the grace period.  Nothing is assumed of
  callers, the venue's moves or the stream.
- `OutboxRelay`: weak fairness of claim, publish and mark, nothing of writers,
  subscribers and cleanup.
- `SnapshotService`: weak fairness of each goroutine; fetch, write, flush and
  record are bounded by deadlines or by the canceled context.
- `VenueBreaker`: weak fairness of callers (the services poll for ever), of the
  limiter's refill, of the end of every call (each has a deadline) and of the
  breaker's timeout.
- `EventStream`: weak fairness of the daemon's goroutines and of its stop
  deadline; of clients only that the end of a connection reaches them.  No
  client is assumed to read.
- `Lifecycle`: weak fairness of the process's own progress, the end of the
  handlers that a server's shutdown waits for included.  A streaming client that
  does not read can hold a handler in the code; there the stop ends with its
  deadline, which `EventStream` models and assumes (`StopEnds`).  Nothing is
  assumed of signals, failures and deadlines here.
- `StreamReconnect`: weak fairness of goroutines and timers, strong fairness of
  the pump's two select branches (Go chooses among ready branches at random) and
  of a successful `OpenOrders`; nothing of the venue and the connection.

## 5. Proofs

Every invariant, action property and refinement that a passing run checks is also
a theorem; what is left to the runs is liveness, and the disagreements of section
3.

Assumptions are those the modules declare (`QtyAssumption`, `StoreAssumption`,
`InventoryAssumption`, `FlowAssumption`, `RelayAssumption`, `SnapshotAssumption`, `ReconnectAssumption`,
`BreakerAssumption`, `StreamAssumption`, `PagesAssumption`, `RunsAssumption`):
quantities, prices, times and bounds are natural numbers, batches, pages and the channels of
streams hold at least one element, lock holders are not the free mark.

- `OrderMachine_proofs`.  `ApplyIsJoin`: applying an event takes the status to
  the higher rank and the fill to the larger claim.  Hence `CarriesIffChanges`
  and `ApplyCommutes` (two events commute unless they claim different terminal
  statuses).
- `OrderEvents_proofs`.  The invariant is types, `ReportsAreTrue` (a report never
  claims more than the venue has reached, and one of the venue's rank has its
  status) and `OrderIndependent`.  `ReportsAreTrue` is needed because two
  different terminal reports would not commute: it says they cannot exist.
  Proved for every quantity: `TypeCorrect`, `OrderIndependence`, `Agreement`,
  `Idempotence`, `Monotonicity`.
- `OrderStore_proofs`.  The invariant adds `LockInv`: a worker past the row lock
  holds it, the row it read is still the committed row, and its private writes
  are what its decision prescribes.  So the decision is still right at `Commit`,
  which extends the history by one consistent row.  Proved for any orders,
  workers and events: `TypeCorrect`, `AuditTrailHolds`, and `StoreIsAtomic`, the
  refinement of `AtomicOrders` that `OrderFlow` builds on (`Commit` maps to
  `ApplyEvent`, every other step of a transaction to a stutter).
  `FillsHold` (`FillsTellTheQuantity`): the increment a transaction records is
  the difference between its decision and the row it read, and the row is still
  the end of the history at `Commit`.  `OutboxHolds`
  (`OutboxTellsEverything`) needs `OutboxInv`: a worker has staged exactly the
  outbox rows it owes for the statements it has executed (`StagesDue`), numbered
  for the transition it will append; no id is given out twice and, because the
  order's row lock is taken before an id is drawn, a staged id is above those its
  order has committed (`IdsApart`), so the committed rows stay in the order of
  the transitions (`RowsInOrder`).
- `OrderStore_proofs`, the ledger.  `PostInv`: from `LockInventory` on a worker
  holds the lock of its inventory, so the committed lots are those it read and
  what it has booked is what they allow (`HoldsInventory`).  `Commit` therefore
  adds one lot, or a sale of the committed lots (`CommitBooks`).  Hence
  `OversellHolds` (`OversellOnlyWhenEmpty`): a remainder is left only by a sale
  that takes everything.  `LedgerHolds` (`LedgerConserved`) needs `LedgerInv`,
  which adds that closures belong to lots that exist and that remainders and
  closures carry the name of a recorded sell: a new fill has a sequence number
  its order has not used, so none of the older rows is counted for it.
- `Ledger_proofs`.  Induction is done over sets of numbers: the set of the `n` for
  which a claim holds has 0 and every successor (`SetInduction`), so no theorem
  with an operator parameter is needed.  In this way: a sum over a finite set of
  rows does not depend on the order of summation (`AnyFirst`, `TotalAdd`); lots
  with different IDs can be listed oldest first, as `Queue` does (`QueueLists`); and
  after `m` lots the loop of `Select` has closed each of these lots' share of the
  sell, in that order, and has the rest left (`Shared`, `ShareStep`).  `StockInv`
  says that lots are numbered as they are recorded and hold at least nothing.
  Proved for any lots, times and quantities: `FifoHolds` (`SelectIsFifo`).  The
  average is rounded at every fill, by half a unit of its last place at most
  (`RoundedWithin`), and weighting scales the error it had before down with the
  quantity, so the error grows by half a unit for each fill and no faster
  (`ErrorGrows`); and
  rounding does not leave an interval with whole ends (`Between`).
  Proved for any fills, prices and scale: `AverageHolds` (`AverageAgrees`).
- `OrderFlow_proofs`.  The invariant is types, `RowFirst` (an order is known to
  the venue, or on its way there, only when its row exists), `BookOK` (an order
  in the venue's book is not completely filled), `ReportsTrue` and `AcksTrue` (a
  report or an ack in flight claims nothing the venue has not reached) and
  `RowsBehind` (nor does the row, and a terminal row that no report without a
  quantity closed has the venue's).  Since reports are only ever late or lack the
  quantity, `ApplyIsJoin` keeps the row behind the venue whichever source is
  applied next.  Proved for any orders, callers, quantity and crashes:
  `NeverOrphan` (`OwnOrderNeverOrphan`) and `NeverAhead` (`LocalNeverAhead`).
- `OutboxRelay_proofs`.  The invariant adds that ids grow along each order's
  transactions (`IdsGrow`), that the table holds committed rows (`RowsOK`), and
  `BatchOK`: the claimed batch is unmarked, what was sent of it is published, and
  with a row it contains the order's earlier unpublished ones.  The last part is
  why a batch by id keeps an order's events in order even though ids of other
  transactions become visible late, and why a batch that is repeated after a
  crash does no harm.  Proved for any orders, batch sizes and crashes:
  `NothingSkipped`, `EventsInOrder`, `OnlyCommittedPublished`; and for any buffer
  `DropsCounted`.
- `Venue_proofs`, `VenueBreaker`.  The steps fall into five kinds (a call begins,
  passes a stage, returns; the timeout passes; the limiter refills), and only the
  first and third touch the breaker.  Proved for any callers,
  threshold and burst: `TypeCorrect`, `ProbeExists` (a half-open circuit has a
  call of its generation under way, so it cannot stay half-open refusing
  everybody), `OpenQuiet`.
- `Venue_proofs`, `StreamReconnect`.  The invariant adds the start order (the
  pump runs only after the subscription).  Proved for any capacities:
  `LinkTypeCorrect` (no channel is over-filled) and `NotForgotten`.
- `Venue_proofs`, `SnapshotService`.  The invariant follows the rows of a snapshot: the
  target between write and flush holds the mutex, so its rows are still in the
  buffer when its flush succeeds.  Proved for any targets and currencies:
  `SnapshotTypeCorrect`, `Durable`, `NoGap`, `TakenAnchored`, and `LastIsCurrent`
  (`LastSnapshotCurrent`), whose invariant `CheckpointsInv` says that a snapshot
  has at most one checkpoint, none before its work is done, none newer than the
  last one begun, and that a target with a checkpoint has a newest one.
- `Daemon_proofs`, `EventStream`.  An event passes stages: the bus channel, the
  handler's channel, the blocked send, the connection, the client.  The
  invariant `StreamInv` says that every stage holds published events of the client's
  subjects, from after its subscription, in ascending order, and that each stage
  is older than the one before it (`FlowOK`); so whatever the two channels drop,
  what arrives next is newer than all that arrived before, which is what
  `EventFeed` asks.  `Registered` ties the subscriptions, the channels' closing
  and the streams' lives together.  Proved for any clients, subjects and
  capacities: `NeverSendOnClosed` and `StreamIsFeed`, the refinement.
- `Daemon_proofs`, `OrderPages`.  The invariant `PagesInv` says that the printed
  lines are strictly newest first, that the page token is the key of the lowest
  of them, and that an order that matched throughout is printed or below them all.
  What a page does with it rests on `LIMIT`: what it cuts off is below all it keeps,
  and it cuts nothing off unless the page is full.  The second needs an order cut
  off with the fewest orders above it, which exists because those numbers are
  natural (`CutFull`).  Proved for any table, times, limit and page
  size: `ListIsNewestFirst`, `NoStableOrderSkipped` and `StatusSurvivesTheWire`.
- `Daemon_proofs`, `Lifecycle`.  The invariant `LifeInv` bounds what runs and what
  is open by the number of started hooks: the resources' hooks are the first
  three in every configuration (`HookOrder`), every service's and server's comes
  after them, and stopping goes backward, so nothing that uses a resource is
  left when its hook stops it.  `PathIsOurs` adds that the path is this process's
  exactly from the bind to the server's end, and a bound path not yet served only
  inside the API's own start hook: so a stop that ends in time finds no socket to
  leave behind.  Proved for every configuration and any number of processes:
  `NeverUsesClosed`, `ExitsClean`, `SocketStaysTidy`.

Only model-checked: the liveness properties (`EveryApplyEnds`, `ConvergesToVenue`,
`AdoptsOpenOrder`, `EventuallyPublished`, `ShutdownEnds`, `LossIsFollowedByRead`,
`Recovers`, `NoGoroutineLeft`, `StopEnds`, `FailFast`, `ServesUnlessDisturbed`,
`StoppingEnds`).  They rest on fairness,
which is out of the prover's reach.

## 6. Not modelled, and the plan

Not modelled: fees, and prices except the average; request validation and error
mapping; flags and layout of the client; configuration, logging and telemetry;
protobuf accessors and descriptors; health checks; the values of balances,
instruments and tickers; the registry, which is filled once and then only read.
In `Place`, an existing ID with a different identity and a venue that is not
configured return before anything changes.

Next:

1. `OrderFlow`: orders of others, the orphan announcements and the memory that
   silences them; two orders in one pass.
2. `OrderStore`: several inventories in a run (the proofs already cover them), and
   prices of closures.
