------------------------------ MODULE OrderPages ------------------------------
(***************************************************************************)
(* The order list from the table to the terminal: keyset pagination of     *)
(* ListOrders (internal/api/orders.go and the query of the same name) and  *)
(* the client that walks the pages (runOrderList, cmd/ctl/order.go), while *)
(* orders are inserted, also with a creation time that is already behind   *)
(* the cursor, and change their status.  A status crosses the wire twice,  *)
(* as a filter and as a field of each order.                               *)
(*                                                                         *)
(* The filters on venue and bot, columns that never change, are left out.  *)
(***************************************************************************)
EXTENDS Integers, FiniteSets, Sequences

CONSTANTS
  Ids,             \* client order IDs, of which the order matters: numbers
  Times,           \* creation times, with ties
  PageCap,         \* the most orders a page may hold (500)
  Limits,          \* values of the -limit flag
  Asks,            \* sets of texts given with the -status flag
  Outcomes         \* bound: statuses an order moves to while the list is walked

VARIABLES
  orders,          \* the orders table
  asked,           \* the -status flags of the client
  limit,           \* its -limit flag
  remaining,       \* orders it still wants
  token,           \* the next page token: a set of at most one record
  walk,            \* "new", "paging", "done" or "refused"
  printed,         \* the lines it has printed
  stable           \* history: IDs that matched the flags ever since the start

client == <<asked, limit, remaining, token, walk, printed>>
pagesVars == <<orders, client, stable>>

--------------------------------------------------------------------------------
(* Statuses: in the table, on the wire and on the terminal. *)

\* OrderStatus of the wire schema, by number; 0 is "unspecified".
EnumNames == <<"pending", "open", "partially_filled", "filled", "canceled",
               "rejected", "expired">>

Status == {EnumNames[n] : n \in DOMAIN EnumNames}

ASSUME PagesAssumption == /\ Ids \subseteq Nat /\ Times \subseteq Nat
                          /\ PageCap \in Nat \ {0} /\ Limits \subseteq Nat \ {0}
                          /\ Outcomes \subseteq Status

\* A text the schema does not know becomes 0.  The flag is upper-cased and its
\* hyphens are underscores to the code; the texts here are written as it leaves
\* them.
ParseOrderStatus(text) ==
  IF text \in Status THEN CHOOSE n \in DOMAIN EnumNames : EnumNames[n] = text ELSE 0

OrderStatusText(n) == IF n = 0 THEN "unspecified" ELSE EnumNames[n]

FromProtoOrderStatus(n) ==
  CASE n = 1 -> "pending"  [] n = 2 -> "open"     [] n = 3 -> "partially_filled"
    [] n = 4 -> "filled"   [] n = 5 -> "canceled" [] n = 6 -> "rejected"
    [] n = 7 -> "expired"  [] OTHER -> ""

\* Mutant of ToProtoOrderStatus: a case is forgotten.
ToProtoOrderStatusPartial(s) ==
  CASE s = "pending" -> 1  [] s = "open" -> 2     [] s = "partially_filled" -> 3
    [] s = "filled" -> 4   [] s = "canceled" -> 5 [] s = "rejected" -> 6
    [] OTHER -> 0

ToProtoOrderStatus(s) ==
  CASE s = "pending" -> 1  [] s = "open" -> 2     [] s = "partially_filled" -> 3
    [] s = "filled" -> 4   [] s = "canceled" -> 5 [] s = "rejected" -> 6
    [] s = "expired" -> 7  [] OTHER -> 0

--------------------------------------------------------------------------------
(* The store. *)

Order == [id : Ids, createdAt : Times, status : Status]
Key(o) == [id |-> o.id, createdAt |-> o.createdAt]
IdsOf(rows) == {o.id : o \in rows}

\* The query's condition on the statuses; no statuses are no condition.
Matching(statuses) ==
  {o \in orders : statuses = {} \/ o.status \in statuses}

\* The row comparison of (created_at, client_order_id).
Below(o, key) == \/ o.createdAt < key.createdAt
                 \/ o.createdAt = key.createdAt /\ o.id < key.id

\* Mutants of PastCursor: the cursor's own row is let through; the comparison
\* looks at the creation time alone.
PastCursorInclusive(o, keys) ==
  \A key \in keys : Below(o, key) \/ Key(o) = Key(key)

PastCursorByTime(o, keys) == \A key \in keys : o.createdAt < key.createdAt

\* The query's condition on the cursor, which the first page does not have.
PastCursor(o, keys) == \A key \in keys : Below(o, key)

\* ORDER BY created_at DESC, client_order_id DESC LIMIT n.
FirstRows(rows, n) ==
  {o \in rows : Cardinality({q \in rows : Below(o, Key(q))}) < n}

\* The rows of the query: everything below the cursor, one more than a page.
ListOrders(statuses, keys, n) ==
  FirstRows({o \in Matching(statuses) : PastCursor(o, keys)}, n + 1)

\* CreatePending of another client: the ID and the time are anything.
Insert(id, at) ==
  /\ id \notin IdsOf(orders)
  /\ orders' = orders \cup {[id |-> id, createdAt |-> at, status |-> "pending"]}
  /\ UNCHANGED <<client, stable>>

\* The statuses that outrank s, to which an order of status s may move.
Outranking(s) == CASE s = "pending" -> Status \ {"pending"}
                   [] s = "open" -> Status \ {"pending", "open"}
                   [] s = "partially_filled" -> Status \ {"pending", "open", s}
                   [] OTHER -> {}

\* ApplyEvent moves an order on: it may leave the filter or enter it.
Move(o, s) ==
  /\ o \in orders /\ s \in Outranking(o.status)
  /\ orders' = (orders \ {o}) \cup {[o EXCEPT !.status = s]}
  /\ stable' = IF asked = {} \/ s \in asked THEN stable ELSE stable \ {o.id}
  /\ UNCHANGED client

--------------------------------------------------------------------------------
(* The API server and the client. *)

\* orderFilter: the statuses without repetition.  The token carries a digest of
\* them.
OrderFilter(wire) == {FromProtoOrderStatus(n) : n \in wire}

\* decodePageToken: a token of another filter is refused.
DecodePageToken(filter) == \A t \in token : t.digest = filter

\* The token of the last row shown, if there is more.
NextToken(rows, shown, filter) ==
  {[id |-> l.id, createdAt |-> l.createdAt, digest |-> filter] :
     l \in {l \in shown : rows # shown /\ \A q \in shown : ~Below(q, Key(l))}}

\* toProtoOrder and the line printed for it; stored is a history field.
Line(o) == [id |-> o.id, createdAt |-> o.createdAt,
            text |-> OrderStatusText(ToProtoOrderStatus(o.status)),
            stored |-> o.status]

\* The lines of a page, one for each row and the newest first: there is one such
\* sequence.
Lines(rows) ==
  {s \in [1 .. Cardinality(rows) -> {Line(o) : o \in rows}] :
     /\ \A i, j \in DOMAIN s : i < j => Below(s[j], s[i])
     /\ \A o \in rows : \E i \in DOMAIN s : s[i] = Line(o)}

PagesInit ==
  /\ \E s \in Status, id \in Ids, at \in Times :
       orders = {[id |-> id, createdAt |-> at, status |-> s]}
  /\ asked \in Asks
  /\ limit \in Limits /\ remaining = limit
  /\ token = {} /\ walk = "new"
  /\ printed = <<>> /\ stable = {}

\* runOrderList refuses a status it cannot parse before it calls.
InvalidStatus ==
  /\ walk = "new"
  /\ \E text \in asked : ParseOrderStatus(text) = 0
  /\ walk' = "refused"
  /\ UNCHANGED <<orders, asked, limit, remaining, token, printed, stable>>

PageLimit == IF remaining < PageCap THEN remaining ELSE PageCap

\* One turn of runOrderList's loop: a ListOrders call and the lines of its page.
ListPage ==
  LET wire   == {ParseOrderStatus(text) : text \in asked}
      filter == OrderFilter(wire)
      rows   == ListOrders(filter, token, PageLimit)
      shown  == FirstRows(rows, PageLimit)
  IN  /\ walk \in {"new", "paging"}
      /\ 0 \notin wire
      /\ DecodePageToken(filter)
      /\ printed' \in {printed \o lines : lines \in Lines(shown)}
      /\ remaining' = remaining - Cardinality(shown)
      /\ token' = NextToken(rows, shown, filter)
      /\ walk' = IF token' = {} \/ shown = {} \/ remaining' <= 0
                 THEN "done" ELSE "paging"
      /\ stable' = IF walk = "new" THEN IdsOf(Matching(asked)) ELSE stable
      /\ UNCHANGED <<orders, asked, limit>>

PagesNext == \/ \E id \in Ids, at \in Times : Insert(id, at)
             \/ \E o \in orders, s \in Outcomes : Move(o, s)
             \/ InvalidStatus
             \/ ListPage

PagesSpec == PagesInit /\ [][PagesNext]_pagesVars

--------------------------------------------------------------------------------
\* Types; the list never exceeds the -limit flag, and there is one token at most.
PagesTypeOK ==
  /\ orders \subseteq Order
  /\ remaining \in 0 .. limit /\ Len(printed) + remaining = limit
  /\ token \subseteq [id : Ids, createdAt : Times, digest : SUBSET Status]
  /\ Cardinality(token) <= 1
  /\ walk \in {"new", "paging", "done", "refused"}
  /\ stable \subseteq Ids

PrintedIds == {printed[i].id : i \in DOMAIN printed}

\* The lines of all pages together are strictly newest first: no order is shown
\* twice or out of place, whatever is inserted or moves between the pages
\* (queries/orders.sql:21), and there are no more than the limit (PagesTypeOK).
NewestFirst ==
  PagesTypeOK /\ \A i, j \in DOMAIN printed : i < j => Below(printed[j], printed[i])

\* An order that matched the flags throughout is listed unless the limit ends
\* the list above it: a walk that ends with room left has shown them all, and
\* what is missing at any moment is older than everything shown, also with equal
\* creation times and at a page's edge.
StableOrdersListed ==
  /\ walk = "done" /\ remaining > 0 => stable \subseteq PrintedIds
  /\ \A o \in orders : o.id \in stable \ PrintedIds /\ walk \in {"paging", "done"} =>
       \A i \in DOMAIN printed : Below(o, printed[i])

\* A line shows the status the order was stored with, one of those asked for:
\* the texts, the wire numbers and the stored values agree in both directions.
ShowsStoredStatus ==
  \A i \in DOMAIN printed :
    /\ printed[i].text = printed[i].stored
    /\ asked # {} => printed[i].text \in asked
===============================================================================
