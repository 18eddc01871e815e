-------------------------- MODULE OutboxRelay_proofs --------------------------
(***************************************************************************)
(* The outbox loses nothing, keeps the order of every order's events, and  *)
(* the bus accounts for what a slow subscriber misses, for any number of   *)
(* orders, rows and crashes, any batch size and any channel capacity.      *)
(*                                                                         *)
(* The argument: an order's transactions draw their ids one after the      *)
(* other, so an order's committed ids grow with its commits (IdsGrow);     *)
(* what the relay holds is closed downwards within an order (BatchOK),     *)
(* also while other transactions commit smaller ids; so the smallest row   *)
(* it has not sent comes after everything its order committed earlier.     *)
(***************************************************************************)
EXTENDS OutboxRelay, SequenceTheorems, TLAPS

CommittedRow == [id : Nat, order : Orders]

\* TypeOK with the history of the commits.
Types == TypeOK /\ committed \in Seq(CommittedRow)

\* Drawn ids are used once, and within an order they grow: along its committed
\* rows, from those to its open transaction, and along that.
IdsGrow ==
  /\ \A i \in 1 .. Len(committed) : committed[i].id \in 1 .. outboxSeq
  /\ \A i, j \in 1 .. Len(committed) :
       committed[i].id = committed[j].id => i = j
  /\ \A i, j \in 1 .. Len(committed) :
       i < j /\ committed[i].order = committed[j].order
         => committed[i].id < committed[j].id
  /\ \A o \in Orders : \A k \in 1 .. Len(open[o]), i \in 1 .. Len(committed) :
       /\ committed[i].id # open[o][k]
       /\ committed[i].order = o => committed[i].id < open[o][k]
  /\ \A o \in Orders : \A k, l \in 1 .. Len(open[o]) :
       k < l => open[o][k] < open[o][l]
  /\ \A o, p \in Orders : \A k \in 1 .. Len(open[o]), l \in 1 .. Len(open[p]) :
       open[o][k] = open[p][l] => o = p

\* A row of the table was committed, once.
RowsOK ==
  /\ \A r \in rows : \E i \in 1 .. Len(committed) :
       committed[i].id = r.id /\ committed[i].order = r.order
  /\ \A r, s \in rows : r.id = s.id => r = s

\* Only committed rows reach the bus.
PublishedOK ==
  \A k \in 1 .. Len(published) : \E i \in 1 .. Len(committed) :
    committed[i].id = published[k]

\* The batch is unpublished in the table, what is sent of it has reached the
\* bus, and with a row it has the order's earlier ones.
BatchOK ==
  /\ \A r \in claimed : r.publishedAt = 0
  /\ \A r \in sent : \E k \in 1 .. Len(published) : published[k] = r.id
  /\ \A r \in claimed, s \in rows :
       s.publishedAt = 0 /\ s.order = r.order /\ s.id < r.id => s \in claimed

IndInv == /\ Types /\ IdsGrow /\ RowsOK /\ PublishedOK /\ BatchOK
          /\ NoRowSkipped /\ OrderEventsInOrder

\* The batch, the table and the bus's history, with their types.
LEMMA TypeFacts ==
  ASSUME Types
  PROVE  /\ outboxSeq \in Nat
         /\ open \in [Orders -> Seq(1 .. outboxSeq)]
         /\ \A r \in rows : r.id \in Nat /\ r.order \in Orders /\ r.publishedAt \in Nat
         /\ claimed \subseteq rows /\ sent \subseteq claimed
         /\ published \in Seq(1 .. outboxSeq)
         /\ Len(published) \in Nat
         /\ committed \in Seq(CommittedRow)
         /\ Len(committed) \in Nat
         /\ marks \in Nat
BY DEF Types, TypeOK, Row

--------------------------------------------------------------------------------
(* Types. *)

\* A sequence of ids stays one when more ids are drawn.
LEMMA SeqWidens ==
  ASSUME NEW m \in Nat, NEW n \in Nat, m <= n, NEW s \in Seq(1 .. m)
  PROVE  s \in Seq(1 .. n)
<1>1. 1 .. m \subseteq 1 .. n
  OBVIOUS
<1>2. Len(s) \in Nat /\ s \in [1 .. Len(s) -> 1 .. n]
  BY <1>1
<1> QED BY <1>2

\* Bus.Publish keeps the channel within its capacity.
LEMMA BusPublishType ==
  ASSUME Types, BusPublish, Len(published') = Len(published) + 1
  PROVE  /\ queue' \in Seq(1 .. Len(published')) /\ Len(queue') <= Buffer
         /\ dropped' \in Nat
<1>1. /\ queue \in Seq(1 .. Len(published)) /\ Len(queue) <= Buffer
      /\ dropped \in Nat /\ Len(published) \in Nat
  BY TypeFacts DEF Types, TypeOK
<1>2. queue \in Seq(1 .. Len(published'))
  BY <1>1, SeqWidens
<1>3. Len(published) + 1 \in 1 .. Len(published')
  BY <1>1
<1>4. CASE Len(queue) < Buffer
  <2>1. queue' = Append(queue, Len(published) + 1) /\ dropped' = dropped
    BY <1>4 DEF BusPublish
  <2> QED BY <1>1, <1>2, <1>3, <1>4, <2>1, RelayAssumption
<1>5. CASE ~(Len(queue) < Buffer)
  BY <1>1, <1>2, <1>5 DEF BusPublish
<1> QED BY <1>4, <1>5

\* The types are preserved.
LEMMA TypesStep ==
  ASSUME Types, IdsGrow, RowsOK, [Next]_vars
  PROVE  Types'
<1>0. /\ outboxSeq \in Nat /\ open \in [Orders -> Seq(1 .. outboxSeq)]
      /\ rows \subseteq Row /\ marks \in Nat
      /\ claimed \subseteq rows /\ sent \subseteq claimed
      /\ queue \in Seq(1 .. Len(published)) /\ Len(queue) <= Buffer
      /\ dropped \in Nat
      /\ published \in Seq(1 .. outboxSeq) /\ Len(published) \in Nat
      /\ committed \in Seq(CommittedRow)
  BY TypeFacts DEF Types, TypeOK
<1>1. ASSUME NEW o \in Orders, InsertOutbox(o) PROVE Types'
  <2>1. /\ outboxSeq' = outboxSeq + 1
        /\ open' = [open EXCEPT ![o] = Append(open[o], outboxSeq + 1)]
        /\ UNCHANGED <<rows, marks, claimed, sent, queue, dropped, published,
                       committed>>
    BY <1>1 DEF InsertOutbox, relayVars, busVars
  <2>2. \A p \in Orders : open[p] \in Seq(1 .. outboxSeq')
    BY <1>0, <2>1, SeqWidens
  <2>3. Append(open[o], outboxSeq + 1) \in Seq(1 .. outboxSeq')
    BY <1>0, <2>1, <2>2
  <2>4. open' \in [Orders -> Seq(1 .. outboxSeq')]
    BY <1>0, <2>1, <2>2, <2>3
  <2>5. published' \in Seq(1 .. outboxSeq')
    BY <1>0, <2>1, SeqWidens
  <2> QED BY <1>0, <2>1, <2>4, <2>5 DEF Types, TypeOK
<1>2. ASSUME NEW o \in Orders, CommitOutbox(o) PROVE Types'
  <2> DEFINE new == {[id |-> n, order |-> o, publishedAt |-> 0] : n \in ToSet(open[o])}
             hist == [k \in 1 .. Len(open[o]) |-> [id |-> open[o][k], order |-> o]]
  <2>1. /\ rows' = rows \cup new /\ committed' = committed \o hist
        /\ open' = [open EXCEPT ![o] = <<>>]
        /\ UNCHANGED <<outboxSeq, marks, claimed, sent, queue, dropped, published>>
    BY <1>2 DEF CommitOutbox, relayVars, busVars
  <2>2. Len(open[o]) \in Nat /\ \A k \in 1 .. Len(open[o]) : open[o][k] \in Nat
    BY <1>0
  <2>3. new \subseteq Row
    BY <2>2 DEF Row, ToSet
  <2>4. hist \in Seq(CommittedRow)
    BY <2>2 DEF CommittedRow
  <2>5. open' \in [Orders -> Seq(1 .. outboxSeq)]
    BY <1>0, <2>1
  <2> HIDE DEF new, hist
  <2> QED BY <1>0, <2>1, <2>3, <2>4, <2>5 DEF Types, TypeOK
<1>3. ASSUME NEW o \in Orders, AbortOutbox(o) PROVE Types'
  <2>1. /\ open' = [open EXCEPT ![o] = <<>>]
        /\ UNCHANGED <<outboxSeq, rows, marks, claimed, sent, queue, dropped,
                       published, committed>>
    BY <1>3 DEF AbortOutbox, relayVars, busVars
  <2>2. open' \in [Orders -> Seq(1 .. outboxSeq)]
    BY <1>0, <2>1
  <2> QED BY <1>0, <2>1, <2>2 DEF Types, TypeOK
<1>4. ASSUME Claim PROVE Types'
  <2>1. /\ claimed' \subseteq rows /\ sent' = sent /\ claimed = {}
        /\ UNCHANGED <<outboxSeq, open, rows, marks, queue, dropped, published,
                       committed>>
    BY <1>4 DEF Claim, Unpublished, writerVars, busVars
  <2> QED BY <1>0, <2>1 DEF Types, TypeOK
<1>5. ASSUME Publish PROVE Types'
  <2>1. PICK r \in claimed \ sent : /\ published' = Append(published, r.id)
                                    /\ sent' = sent \cup {r}
    BY <1>5 DEF Publish
  <2>2. /\ UNCHANGED <<outboxSeq, open, rows, marks, claimed, committed>>
        /\ BusPublish
    BY <1>5 DEF Publish, writerVars
  <2>3. Len(published') = Len(published) + 1
    BY <1>0, <2>1
  <2>4. /\ queue' \in Seq(1 .. Len(published')) /\ Len(queue') <= Buffer
        /\ dropped' \in Nat
    BY <2>2, <2>3, BusPublishType
  <2>5. r.id \in 1 .. outboxSeq
    BY <1>0, <2>1 DEF RowsOK, IdsGrow
  <2> QED BY <1>0, <2>1, <2>2, <2>4, <2>5 DEF Types, TypeOK
<1>6. ASSUME Mark PROVE Types'
  <2>1. /\ rows' = (rows \ claimed) \cup {[r EXCEPT !.publishedAt = marks'] : r \in claimed}
        /\ marks' = marks + 1 /\ claimed' = {} /\ sent' = {}
        /\ UNCHANGED <<outboxSeq, open, queue, dropped, published, committed>>
    BY <1>6 DEF Mark, writerVars, busVars
  <2>2. marks' \in Nat
    BY <1>0, <2>1
  <2>3. \A r \in claimed : [r EXCEPT !.publishedAt = marks'] \in Row
    BY <1>0, <2>2 DEF Row
  <2>4. rows' \subseteq Row
    BY <1>0, <2>1, <2>3
  <2> QED BY <1>0, <2>1, <2>2, <2>4 DEF Types, TypeOK
<1>7. ASSUME Handle PROVE Types'
  <2>1. /\ queue # <<>> /\ queue' = Tail(queue)
        /\ UNCHANGED <<outboxSeq, open, rows, marks, claimed, sent, dropped,
                       published, committed>>
    BY <1>7 DEF Handle, writerVars, relayVars
  <2>2. queue' \in Seq(1 .. Len(published)) /\ Len(queue') <= Buffer
    BY <1>0, <2>1, RelayAssumption
  <2> QED BY <1>0, <2>1, <2>2 DEF Types, TypeOK
<1>8. ASSUME NEW cutoff, Cleanup(cutoff) PROVE Types'
  <2>1. /\ rows' \subseteq rows /\ claimed = {}
        /\ UNCHANGED <<outboxSeq, open, marks, claimed, sent, queue, dropped,
                       published, committed>>
    BY <1>8 DEF Cleanup, writerVars, relayVars, busVars
  <2> QED BY <1>0, <2>1 DEF Types, TypeOK
<1>9. ASSUME Crash PROVE Types'
  <2>1. /\ open' = [o \in Orders |-> <<>>] /\ claimed' = {} /\ sent' = {}
        /\ queue' = <<>> /\ dropped' = 0
        /\ UNCHANGED <<outboxSeq, rows, marks, published, committed>>
    BY <1>9 DEF Crash
  <2>2. open' \in [Orders -> Seq(1 .. outboxSeq)]
    BY <2>1
  <2>3. queue' \in Seq(1 .. Len(published)) /\ Len(queue') <= Buffer
    BY <2>1, RelayAssumption
  <2> QED BY <1>0, <2>1, <2>2, <2>3 DEF Types, TypeOK
<1>10. CASE UNCHANGED vars
  BY <1>10 DEF vars, writerVars, relayVars, busVars, Types, TypeOK
<1> QED
  BY <1>1, <1>2, <1>3, <1>4, <1>5, <1>6, <1>7, <1>8, <1>9, <1>10 DEF Next

--------------------------------------------------------------------------------
(* Who changes what. *)

\* The steps that touch the ids, the table, the batch and the history of the
\* bus; every other step leaves them alone.
LEMMA Frame ==
  ASSUME [Next]_vars
  PROVE  /\ \/ UNCHANGED <<outboxSeq, open, committed>>
            \/ \E o \in Orders : InsertOutbox(o) \/ CommitOutbox(o) \/ AbortOutbox(o)
            \/ Crash
         /\ \/ UNCHANGED <<rows, committed>>
            \/ \E o \in Orders : CommitOutbox(o)
            \/ Mark
            \/ \E cutoff \in 1 .. marks + 1 : Cleanup(cutoff)
         /\ \/ UNCHANGED <<claimed, sent, published>>
            \/ Claim \/ Publish \/ Mark \/ Crash
<1> USE DEF vars, writerVars, relayVars, busVars
<1>1. CASE UNCHANGED vars
  BY <1>1
<1>2. CASE \E o \in Orders : InsertOutbox(o) \/ CommitOutbox(o) \/ AbortOutbox(o)
  BY <1>2 DEF InsertOutbox, CommitOutbox, AbortOutbox
<1>3. CASE Claim \/ Publish \/ Mark \/ Handle \/ Crash
  BY <1>3 DEF Claim, Publish, Mark, Handle, Crash
<1>4. CASE \E cutoff \in 1 .. marks + 1 : Cleanup(cutoff)
  BY <1>4 DEF Cleanup
<1> QED BY <1>1, <1>2, <1>3, <1>4 DEF Next

\* The elements of a concatenation.
LEMMA ConcatFacts ==
  ASSUME NEW S, NEW a \in Seq(S), NEW b \in Seq(S), NEW c, c = a \o b
  PROVE  /\ c \in Seq(S)
         /\ Len(c) = Len(a) + Len(b)
         /\ \A i \in 1 .. Len(a) + Len(b) :
              c[i] = IF i <= Len(a) THEN a[i] ELSE b[i - Len(a)]
BY ConcatProperties

\* What a commit adds: the open transaction's ids, at the end of the history and
\* as unpublished rows.
LEMMA CommitFacts ==
  ASSUME Types, NEW o \in Orders, CommitOutbox(o)
  PROVE  /\ Len(open[o]) \in Nat
         /\ Len(committed') = Len(committed) + Len(open[o])
         /\ \A i \in 1 .. Len(committed) : committed'[i] = committed[i]
         /\ \A i \in 1 .. Len(committed') : i \notin 1 .. Len(committed) =>
              /\ i - Len(committed) \in 1 .. Len(open[o])
              /\ committed'[i].id = open[o][i - Len(committed)]
              /\ committed'[i].order = o
         /\ \A k \in 1 .. Len(open[o]) :
              /\ Len(committed) + k \in 1 .. Len(committed')
              /\ committed'[Len(committed) + k].id = open[o][k]
              /\ committed'[Len(committed) + k].order = o
         /\ rows \subseteq rows'
         /\ \A r \in rows' : r \in rows \/
              \E k \in 1 .. Len(open[o]) :
                r.id = open[o][k] /\ r.order = o /\ r.publishedAt = 0
         /\ \A r, s \in rows' : r \notin rows /\ s \notin rows /\ r.id = s.id => r = s
         /\ \A k \in 1 .. Len(open[o]) : \E r \in rows' :
              r.id = open[o][k] /\ r.publishedAt = 0
         /\ UNCHANGED <<outboxSeq, claimed, sent, published>>
         /\ \A p \in Orders : open'[p] = IF p = o THEN <<>> ELSE open[p]
<1> DEFINE new == {[id |-> n, order |-> o, publishedAt |-> 0] : n \in ToSet(open[o])}
           hist == [k \in 1 .. Len(open[o]) |-> [id |-> open[o][k], order |-> o]]
<1>1. /\ rows' = rows \cup new /\ committed' = committed \o hist
      /\ open' = [open EXCEPT ![o] = <<>>]
      /\ UNCHANGED <<outboxSeq, claimed, sent, published>>
  BY DEF CommitOutbox, relayVars
<1>2. /\ Len(open[o]) \in Nat /\ Len(committed) \in Nat
      /\ open \in [Orders -> Seq(1 .. outboxSeq)] /\ committed \in Seq(CommittedRow)
  BY TypeFacts
<1>3. /\ hist \in Seq(CommittedRow) /\ Len(hist) = Len(open[o])
      /\ \A k \in 1 .. Len(open[o]) : hist[k].id = open[o][k] /\ hist[k].order = o
  <2>1. \A k \in 1 .. Len(open[o]) : open[o][k] \in Nat
    BY TypeFacts
  <2> QED BY <1>2, <2>1 DEF CommittedRow
<1>4. /\ \A r \in new : \E k \in 1 .. Len(open[o]) :
           r.id = open[o][k] /\ r.order = o /\ r.publishedAt = 0
      /\ \A r, s \in new : r.id = s.id => r = s
      /\ \A k \in 1 .. Len(open[o]) : \E r \in new :
           r.id = open[o][k] /\ r.publishedAt = 0
  <2>1. ToSet(open[o]) = {open[o][k] : k \in 1 .. Len(open[o])}
    BY <1>2 DEF ToSet
  <2>2. \A k \in 1 .. Len(open[o]) :
          [id |-> open[o][k], order |-> o, publishedAt |-> 0] \in new
    BY <2>1
  <2>3. \A r \in new : \E k \in 1 .. Len(open[o]) :
          r = [id |-> open[o][k], order |-> o, publishedAt |-> 0]
    BY <2>1
  <2> HIDE DEF new
  <2>4. \A r \in new : \E k \in 1 .. Len(open[o]) :
          r.id = open[o][k] /\ r.order = o /\ r.publishedAt = 0
    BY <2>3
  <2>5. ASSUME NEW r \in new, NEW s \in new, r.id = s.id PROVE r = s
    BY <2>3, <2>5
  <2>6. \A k \in 1 .. Len(open[o]) : \E r \in new :
          r.id = open[o][k] /\ r.publishedAt = 0
    BY <2>2
  <2> QED BY <2>4, <2>5, <2>6
<1> HIDE DEF new, hist
<1>5. /\ Len(committed') = Len(committed) + Len(open[o])
      /\ \A i \in 1 .. Len(committed) : committed'[i] = committed[i]
      /\ \A i \in 1 .. Len(committed') : i \notin 1 .. Len(committed) =>
           /\ i - Len(committed) \in 1 .. Len(open[o])
           /\ committed'[i] = hist[i - Len(committed)]
      /\ \A k \in 1 .. Len(open[o]) :
           /\ Len(committed) + k \in 1 .. Len(committed')
           /\ committed'[Len(committed) + k] = hist[k]
  <2>1. /\ Len(committed') = Len(committed) + Len(hist)
        /\ \A i \in 1 .. Len(committed) + Len(hist) :
             committed'[i] = IF i <= Len(committed) THEN committed[i]
                             ELSE hist[i - Len(committed)]
    <3>1. committed' = committed \o hist /\ committed \in Seq(CommittedRow)
      BY <1>1, <1>2
    <3>2. hist \in Seq(CommittedRow)
      BY <1>3
    <3>3. \A c : c = committed \o hist =>
            /\ Len(c) = Len(committed) + Len(hist)
            /\ \A i \in 1 .. Len(committed) + Len(hist) :
                 c[i] = IF i <= Len(committed) THEN committed[i]
                        ELSE hist[i - Len(committed)]
      BY <3>1, <3>2, ConcatFacts
    <3> QED BY <3>1, <3>3, Zenon
  <2>2. /\ Len(committed) \in Nat /\ Len(open[o]) \in Nat
        /\ Len(hist) = Len(open[o])
    BY <1>2, <1>3
  <2>3. Len(committed') = Len(committed) + Len(open[o])
    BY <2>1, <2>2
  <2>4. ASSUME NEW i \in 1 .. Len(committed) PROVE committed'[i] = committed[i]
    BY <2>1, <2>2
  <2>5. ASSUME NEW i \in 1 .. Len(committed'), i \notin 1 .. Len(committed)
        PROVE  /\ i - Len(committed) \in 1 .. Len(open[o])
               /\ committed'[i] = hist[i - Len(committed)]
    BY <2>1, <2>2, <2>5
  <2>6. ASSUME NEW k \in 1 .. Len(open[o])
        PROVE  /\ Len(committed) + k \in 1 .. Len(committed')
               /\ committed'[Len(committed) + k] = hist[k]
    <3>1. /\ Len(committed) + k \in 1 .. Len(committed) + Len(hist)
          /\ ~(Len(committed) + k <= Len(committed))
          /\ Len(committed) + k - Len(committed) = k
      BY <2>2
    <3> QED BY <2>1, <3>1
  <2> QED BY <2>3, <2>4, <2>5, <2>6
<1>6. \A i \in 1 .. Len(committed') : i \notin 1 .. Len(committed) =>
           /\ i - Len(committed) \in 1 .. Len(open[o])
           /\ committed'[i].id = open[o][i - Len(committed)]
           /\ committed'[i].order = o
  <2> SUFFICES ASSUME NEW i \in 1 .. Len(committed'), i \notin 1 .. Len(committed)
               PROVE  /\ i - Len(committed) \in 1 .. Len(open[o])
                      /\ committed'[i].id = open[o][i - Len(committed)]
                      /\ committed'[i].order = o
    OBVIOUS
  <2> DEFINE k == i - Len(committed)
  <2>1. k \in 1 .. Len(open[o]) /\ committed'[i] = hist[k]
    BY <1>5
  <2> HIDE DEF k
  <2>2. committed'[i].id = open[o][k] /\ committed'[i].order = o
    BY <1>3, <2>1
  <2> QED BY <2>1, <2>2 DEF k
<1>7. \A k \in 1 .. Len(open[o]) :
           /\ Len(committed) + k \in 1 .. Len(committed')
           /\ committed'[Len(committed) + k].id = open[o][k]
           /\ committed'[Len(committed) + k].order = o
  BY <1>3, <1>5
<1>8. \A p \in Orders : open'[p] = IF p = o THEN <<>> ELSE open[p]
  BY <1>1, <1>2
<1>9. /\ rows \subseteq rows'
      /\ \A r \in rows' : r \in rows \/
           \E k \in 1 .. Len(open[o]) :
             r.id = open[o][k] /\ r.order = o /\ r.publishedAt = 0
      /\ \A r, s \in rows' : r \notin rows /\ s \notin rows /\ r.id = s.id => r = s
      /\ \A k \in 1 .. Len(open[o]) : \E r \in rows' :
           r.id = open[o][k] /\ r.publishedAt = 0
  BY <1>1, <1>4
<1> QED BY <1>1, <1>2, <1>5, <1>6, <1>7, <1>8, <1>9

--------------------------------------------------------------------------------
(* Each part of the invariant is preserved. *)

\* An id is drawn above all others, by the order's only open transaction.
LEMMA IdsStep ==
  ASSUME Types, IdsGrow, [Next]_vars
  PROVE  IdsGrow'
<1>0. /\ outboxSeq \in Nat /\ open \in [Orders -> Seq(1 .. outboxSeq)]
      /\ Len(committed) \in Nat
      /\ \A o \in Orders : Len(open[o]) \in Nat
      /\ \A o \in Orders : \A k \in 1 .. Len(open[o]) : open[o][k] \in 1 .. outboxSeq
  BY TypeFacts
<1>1. ASSUME NEW o \in Orders, InsertOutbox(o) PROVE IdsGrow'
  <2>1. /\ outboxSeq' = outboxSeq + 1 /\ committed' = committed
        /\ open' = [open EXCEPT ![o] = Append(open[o], outboxSeq + 1)]
    BY <1>1 DEF InsertOutbox
  <2>2. \A p \in Orders \ {o} : open'[p] = open[p]
    BY <1>0, <2>1
  <2>3. open'[o] = Append(open[o], outboxSeq + 1)
    BY <1>0, <2>1
  <2>4. /\ Len(open'[o]) = Len(open[o]) + 1
        /\ \A k \in 1 .. Len(open[o]) : open'[o][k] = open[o][k]
        /\ open'[o][Len(open[o]) + 1] = outboxSeq + 1
    BY <1>0, <2>3
  <2>5. \A p \in Orders : \A k \in 1 .. Len(open'[p]) :
          \/ k \in 1 .. Len(open[p]) /\ open'[p][k] = open[p][k]
          \/ /\ p = o /\ open'[p][k] = outboxSeq + 1
             /\ k = Len(open[o]) + 1
    <3> SUFFICES ASSUME NEW p \in Orders, NEW k \in 1 .. Len(open'[p])
                 PROVE  \/ k \in 1 .. Len(open[p]) /\ open'[p][k] = open[p][k]
                        \/ /\ p = o /\ open'[p][k] = outboxSeq + 1
                           /\ k = Len(open[o]) + 1
      OBVIOUS
    <3>1. CASE p # o
      BY <2>2, <3>1
    <3>2. CASE p = o
      <4>1. Len(open[o]) \in Nat /\ k \in 1 .. Len(open[o]) + 1
        BY <1>0, <2>4, <3>2
      <4>2. k \in 1 .. Len(open[o]) \/ k = Len(open[o]) + 1
        BY <4>1
      <4> QED BY <2>4, <3>2, <4>2
    <3> QED BY <3>1, <3>2
  <2>6. \A i \in 1 .. Len(committed') : committed'[i].id \in 1 .. outboxSeq
    BY <2>1 DEF IdsGrow
  <2>7. /\ \A i \in 1 .. Len(committed') : committed'[i].id \in 1 .. outboxSeq'
        /\ \A i, j \in 1 .. Len(committed') :
             committed'[i].id = committed'[j].id => i = j
        /\ \A i, j \in 1 .. Len(committed') :
             i < j /\ committed'[i].order = committed'[j].order
               => committed'[i].id < committed'[j].id
    <3>1. committed' = committed /\ 1 .. outboxSeq \subseteq 1 .. outboxSeq'
      BY <1>0, <2>1
    <3>2. /\ \A i, j \in 1 .. Len(committed) :
               committed[i].id = committed[j].id => i = j
          /\ \A i, j \in 1 .. Len(committed) :
               i < j /\ committed[i].order = committed[j].order
                 => committed[i].id < committed[j].id
      BY DEF IdsGrow
    <3> QED BY <2>6, <3>1, <3>2, Zenon
  <2>8. ASSUME NEW p \in Orders, NEW k \in 1 .. Len(open'[p]),
               NEW i \in 1 .. Len(committed')
        PROVE  /\ committed'[i].id # open'[p][k]
               /\ committed'[i].order = p => committed'[i].id < open'[p][k]
    <3>1. CASE k \in 1 .. Len(open[p]) /\ open'[p][k] = open[p][k]
      <4>1. i \in 1 .. Len(committed) /\ committed'[i] = committed[i]
        BY <2>1
      <4>2. /\ committed[i].id # open[p][k]
            /\ committed[i].order = p => committed[i].id < open[p][k]
        BY <3>1, <4>1 DEF IdsGrow
      <4> QED BY <3>1, <4>1, <4>2
    <3>2. CASE open'[p][k] = outboxSeq + 1
      BY <1>0, <2>6, <3>2
    <3> QED BY <2>5, <3>1, <3>2
  <2>9. ASSUME NEW p \in Orders, NEW k \in 1 .. Len(open'[p]),
               NEW l \in 1 .. Len(open'[p]), k < l
        PROVE  open'[p][k] < open'[p][l]
    <3>1. k \in 1 .. Len(open[p]) /\ open'[p][k] = open[p][k]
      BY <1>0, <2>2, <2>4, <2>5, <2>9
    <3>2. open[p][k] \in 1 .. outboxSeq
      BY <1>0, <3>1
    <3>3. CASE l \in 1 .. Len(open[p]) /\ open'[p][l] = open[p][l]
      BY <2>9, <3>1, <3>3 DEF IdsGrow
    <3>4. CASE open'[p][l] = outboxSeq + 1
      BY <1>0, <3>1, <3>2, <3>4
    <3> QED BY <2>5, <3>3, <3>4
  <2>10. ASSUME NEW p \in Orders, NEW q \in Orders,
                NEW k \in 1 .. Len(open'[p]), NEW l \in 1 .. Len(open'[q]),
                open'[p][k] = open'[q][l]
         PROVE  p = q
    <3>1. CASE /\ k \in 1 .. Len(open[p]) /\ open'[p][k] = open[p][k]
               /\ l \in 1 .. Len(open[q]) /\ open'[q][l] = open[q][l]
      BY <2>10, <3>1 DEF IdsGrow
    <3>2. ASSUME NEW x \in Orders, NEW n \in 1 .. Len(open[x])
          PROVE  open[x][n] # outboxSeq + 1
      BY <1>0
    <3> QED BY <2>5, <2>10, <3>1, <3>2
  <2> QED BY <2>7, <2>8, <2>9, <2>10 DEF IdsGrow
<1>2. ASSUME NEW o \in Orders, CommitOutbox(o) PROVE IdsGrow'
  <2>1. /\ Len(committed') = Len(committed) + Len(open[o])
        /\ \A i \in 1 .. Len(committed) : committed'[i] = committed[i]
        /\ \A i \in 1 .. Len(committed') : i \notin 1 .. Len(committed) =>
             /\ i - Len(committed) \in 1 .. Len(open[o])
             /\ committed'[i].id = open[o][i - Len(committed)]
             /\ committed'[i].order = o
        /\ outboxSeq' = outboxSeq
        /\ \A p \in Orders : open'[p] = IF p = o THEN <<>> ELSE open[p]
    BY <1>2, CommitFacts
  <2>2. \A p \in Orders : \A k \in 1 .. Len(open'[p]) :
          p # o /\ k \in 1 .. Len(open[p]) /\ open'[p][k] = open[p][k]
    BY <2>1
  <2>3. \A i \in 1 .. Len(committed') : committed'[i].id \in 1 .. outboxSeq'
    BY <1>0, <2>1 DEF IdsGrow
  <2>4. \A i, j \in 1 .. Len(committed') :
          committed'[i].id = committed'[j].id => i = j
    <3> SUFFICES ASSUME NEW i \in 1 .. Len(committed'), NEW j \in 1 .. Len(committed'),
                        committed'[i].id = committed'[j].id
                 PROVE  i = j
      OBVIOUS
    <3>1. CASE i \in 1 .. Len(committed) /\ j \in 1 .. Len(committed)
      BY <2>1, <3>1 DEF IdsGrow
    <3>2. CASE i \notin 1 .. Len(committed) /\ j \notin 1 .. Len(committed)
      <4> DEFINE a == i - Len(committed)
                 b == j - Len(committed)
      <4>1. /\ a \in 1 .. Len(open[o]) /\ b \in 1 .. Len(open[o])
            /\ open[o][a] = open[o][b]
        BY <2>1, <3>2
      <4>2. a = b
        <5> HIDE DEF a, b
        <5>1. a < b => open[o][a] < open[o][b]
          BY <4>1 DEF IdsGrow
        <5>2. b < a => open[o][b] < open[o][a]
          BY <4>1 DEF IdsGrow
        <5> QED BY <1>0, <4>1, <5>1, <5>2
      <4> QED BY <1>0, <2>1, <4>2
    <3>3. CASE i \in 1 .. Len(committed) /\ j \notin 1 .. Len(committed)
      <4> DEFINE b == j - Len(committed)
      <4>1. /\ b \in 1 .. Len(open[o]) /\ open[o][b] = committed[i].id
        BY <2>1, <3>3
      <4> HIDE DEF b
      <4> QED BY <3>3, <4>1 DEF IdsGrow
    <3>4. CASE i \notin 1 .. Len(committed) /\ j \in 1 .. Len(committed)
      <4> DEFINE a == i - Len(committed)
      <4>1. /\ a \in 1 .. Len(open[o]) /\ open[o][a] = committed[j].id
        BY <2>1, <3>4
      <4> HIDE DEF a
      <4> QED BY <3>4, <4>1 DEF IdsGrow
    <3> QED BY <3>1, <3>2, <3>3, <3>4
  <2>5. \A i, j \in 1 .. Len(committed') :
          i < j /\ committed'[i].order = committed'[j].order
            => committed'[i].id < committed'[j].id
    <3> SUFFICES ASSUME NEW i \in 1 .. Len(committed'), NEW j \in 1 .. Len(committed'),
                        i < j, committed'[i].order = committed'[j].order
                 PROVE  committed'[i].id < committed'[j].id
      OBVIOUS
    <3>1. CASE j \in 1 .. Len(committed)
      <4>1. i \in 1 .. Len(committed)
        BY <1>0, <3>1
      <4>2. committed'[i] = committed[i] /\ committed'[j] = committed[j]
        BY <2>1, <3>1, <4>1
      <4> QED BY <3>1, <4>1, <4>2 DEF IdsGrow
    <3>2. CASE i \notin 1 .. Len(committed) /\ j \notin 1 .. Len(committed)
      <4> DEFINE a == i - Len(committed)
                 b == j - Len(committed)
      <4>1. a \in 1 .. Len(open[o]) /\ b \in 1 .. Len(open[o]) /\ a < b
        BY <1>0, <2>1, <3>2
      <4>2. committed'[i].id = open[o][a] /\ committed'[j].id = open[o][b]
        BY <2>1, <3>2
      <4> HIDE DEF a, b
      <4> QED BY <4>1, <4>2 DEF IdsGrow
    <3>3. CASE i \in 1 .. Len(committed) /\ j \notin 1 .. Len(committed)
      <4> DEFINE b == j - Len(committed)
      <4>1. /\ b \in 1 .. Len(open[o]) /\ committed'[j].id = open[o][b]
            /\ committed'[j].order = o /\ committed'[i] = committed[i]
        BY <2>1, <3>3
      <4> HIDE DEF b
      <4> QED BY <3>3, <4>1 DEF IdsGrow
    <3> QED BY <1>0, <2>1, <3>1, <3>2, <3>3
  <2>6. \A p \in Orders : \A k \in 1 .. Len(open'[p]), i \in 1 .. Len(committed') :
          /\ committed'[i].id # open'[p][k]
          /\ committed'[i].order = p => committed'[i].id < open'[p][k]
    BY <2>1, <2>2 DEF IdsGrow
  <2>7. \A p \in Orders : \A k, l \in 1 .. Len(open'[p]) :
          k < l => open'[p][k] < open'[p][l]
    BY <2>2 DEF IdsGrow
  <2>8. \A p, q \in Orders :
          \A k \in 1 .. Len(open'[p]), l \in 1 .. Len(open'[q]) :
            open'[p][k] = open'[q][l] => p = q
    BY <2>2 DEF IdsGrow
  <2> QED BY <2>3, <2>4, <2>5, <2>6, <2>7, <2>8 DEF IdsGrow
<1>3. ASSUME /\ outboxSeq' = outboxSeq /\ committed' = committed
             /\ \A p \in Orders : open'[p] = <<>> \/ open'[p] = open[p]
      PROVE  IdsGrow'
  <2>1. \A p \in Orders : \A k \in 1 .. Len(open'[p]) :
          k \in 1 .. Len(open[p]) /\ open'[p][k] = open[p][k]
    BY <1>3
  <2>2. outboxSeq' = outboxSeq /\ committed' = committed
    BY <1>3
  <2> QED BY <2>1, <2>2 DEF IdsGrow
<1>4. ASSUME NEW o \in Orders, AbortOutbox(o) PROVE IdsGrow'
  BY <1>0, <1>3, <1>4 DEF AbortOutbox
<1>5. ASSUME Crash PROVE IdsGrow'
  BY <1>3, <1>5 DEF Crash
<1>6. CASE UNCHANGED <<outboxSeq, open, committed>>
  BY <1>3, <1>6
<1> QED BY <1>1, <1>2, <1>4, <1>5, <1>6, Frame

\* What a mark does to the table: the batch's rows get their time of
\* publication, the others stay.
LEMMA MarkFacts ==
  ASSUME Types, Mark
  PROVE  /\ \A r \in rows' : \/ r \in rows /\ r \notin claimed
                             \/ \E s \in claimed : /\ r.id = s.id /\ r.order = s.order
                                                   /\ r.publishedAt = marks + 1
                                                   /\ r = [s EXCEPT !.publishedAt = marks + 1]
         /\ \A r \in rows : r \notin claimed => r \in rows'
         /\ claimed' = {} /\ sent' = {} /\ sent = claimed
         /\ UNCHANGED <<committed, published>>
<1>1. /\ rows' = (rows \ claimed) \cup {[r EXCEPT !.publishedAt = marks'] : r \in claimed}
      /\ marks' = marks + 1 /\ claimed' = {} /\ sent' = {} /\ sent = claimed
      /\ UNCHANGED <<committed, published>>
  BY DEF Mark, writerVars
<1>2. ASSUME NEW s \in claimed
      PROVE  LET r == [s EXCEPT !.publishedAt = marks + 1]
             IN  r.id = s.id /\ r.order = s.order /\ r.publishedAt = marks + 1
  <2>1. s \in Row
    BY DEF Types, TypeOK
  <2> QED BY <2>1 DEF Row
<1> QED BY <1>1, <1>2

\* The table's rows are committed ones, each there once.
LEMMA RowsStep ==
  ASSUME Types, IdsGrow, RowsOK, [Next]_vars
  PROVE  RowsOK'
<1>1. ASSUME NEW o \in Orders, CommitOutbox(o) PROVE RowsOK'
  <2>1. ASSUME NEW r \in rows'
        PROVE  \E i \in 1 .. Len(committed') :
                 committed'[i].id = r.id /\ committed'[i].order = r.order
    <3>1. CASE r \in rows
      <4> PICK i \in 1 .. Len(committed) :
                 committed[i].id = r.id /\ committed[i].order = r.order
        BY <3>1 DEF RowsOK
      <4>1. i \in 1 .. Len(committed') /\ committed'[i] = committed[i]
        BY <1>1, CommitFacts, TypeFacts
      <4> QED BY <4>1
    <3>2. CASE r \notin rows
      <4> PICK k \in 1 .. Len(open[o]) : r.id = open[o][k] /\ r.order = o
        BY <1>1, <3>2, CommitFacts
      <4> QED BY <1>1, CommitFacts
    <3> QED BY <3>1, <3>2
  <2>2. ASSUME NEW r \in rows', NEW s \in rows', r.id = s.id PROVE r = s
    <3>1. ASSUME NEW x \in rows, NEW y \in rows', y \notin rows, x.id = y.id
          PROVE  FALSE
      <4> PICK i \in 1 .. Len(committed) : committed[i].id = x.id
        BY DEF RowsOK
      <4>1. \A z \in rows' : z \in rows \/ \E k \in 1 .. Len(open[o]) :
              z.id = open[o][k] /\ z.order = o /\ z.publishedAt = 0
        BY <1>1, CommitFacts
      <4> PICK k \in 1 .. Len(open[o]) : y.id = open[o][k]
        BY <3>1, <4>1
      <4> QED BY <3>1 DEF IdsGrow
    <3>2. CASE r \in rows /\ s \in rows
      BY <2>2, <3>2 DEF RowsOK
    <3>3. CASE r \notin rows /\ s \notin rows
      BY <1>1, <2>2, <3>3, CommitFacts
    <3> QED BY <2>2, <3>1, <3>2, <3>3
  <2> QED BY <2>1, <2>2 DEF RowsOK
<1>2. ASSUME Mark PROVE RowsOK'
  <2>1. committed' = committed /\ claimed \subseteq rows
    BY <1>2, MarkFacts, TypeFacts
  <2>2. ASSUME NEW r \in rows'
        PROVE  \E s \in rows : /\ r.id = s.id /\ r.order = s.order
                               /\ s \notin claimed => r = s
                               /\ s \in claimed =>
                                    r = [s EXCEPT !.publishedAt = marks + 1]
    BY <1>2, <2>1, MarkFacts
  <2>3. \A r \in rows' : \E i \in 1 .. Len(committed) :
          committed[i].id = r.id /\ committed[i].order = r.order
    BY <2>2 DEF RowsOK
  <2>4. ASSUME NEW r \in rows', NEW s \in rows', r.id = s.id PROVE r = s
    <3>1. PICK x \in rows : /\ r.id = x.id /\ (x \notin claimed => r = x)
                            /\ x \in claimed => r = [x EXCEPT !.publishedAt = marks + 1]
      BY <2>2
    <3>2. PICK y \in rows : /\ s.id = y.id /\ (y \notin claimed => s = y)
                            /\ y \in claimed => s = [y EXCEPT !.publishedAt = marks + 1]
      BY <2>2
    <3>3. \A a, b \in rows : a.id = b.id => a = b
      BY DEF RowsOK
    <3>4. x = y
      BY <2>4, <3>1, <3>2, <3>3
    <3> QED BY <3>1, <3>2, <3>4
  <2> QED BY <2>1, <2>3, <2>4 DEF RowsOK
<1>3. ASSUME NEW cutoff, Cleanup(cutoff) PROVE RowsOK'
  <2>1. rows' \subseteq rows /\ committed' = committed
    BY <1>3 DEF Cleanup, writerVars
  <2> QED BY <2>1 DEF RowsOK
<1>4. CASE UNCHANGED <<rows, committed>>
  BY <1>4 DEF RowsOK
<1> QED BY <1>1, <1>2, <1>3, <1>4, Frame

\* What a publication does: the smallest row of the batch not yet sent.
LEMMA PublishFacts ==
  ASSUME Types, Publish
  PROVE  \E r \in claimed \ sent :
           /\ \A s \in claimed \ sent : r.id <= s.id
           /\ sent' = sent \cup {r} /\ claimed' = claimed
           /\ Len(published') = Len(published) + 1
           /\ \A k \in 1 .. Len(published) : published'[k] = published[k]
           /\ published'[Len(published) + 1] = r.id
           /\ UNCHANGED <<rows, committed>>
<1>1. PICK r \in claimed \ sent : /\ \A s \in claimed \ sent : r.id <= s.id
                                  /\ published' = Append(published, r.id)
                                  /\ sent' = sent \cup {r}
  BY DEF Publish
<1>2. UNCHANGED <<rows, claimed, committed>>
  BY DEF Publish, writerVars
<1>3. published \in Seq(1 .. outboxSeq)
  BY TypeFacts
<1>4. /\ Len(published') = Len(published) + 1
      /\ \A k \in 1 .. Len(published) : published'[k] = published[k]
      /\ published'[Len(published) + 1] = r.id
  BY <1>1, <1>3
<1> QED BY <1>1, <1>2, <1>4

\* The history of the bus and of the commits only grows.
LEMMA HistoryGrows ==
  ASSUME Types, [Next]_vars
  PROVE  /\ \A i \in 1 .. Len(committed) :
              i \in 1 .. Len(committed') /\ committed'[i] = committed[i]
         /\ \A k \in 1 .. Len(published) :
              k \in 1 .. Len(published') /\ published'[k] = published[k]
<1>0. Len(published) \in Nat /\ Len(committed) \in Nat
  BY TypeFacts
<1>1. \A i \in 1 .. Len(committed) :
        i \in 1 .. Len(committed') /\ committed'[i] = committed[i]
  <2>1. ASSUME NEW o \in Orders, CommitOutbox(o)
        PROVE  \A i \in 1 .. Len(committed) :
                 i \in 1 .. Len(committed') /\ committed'[i] = committed[i]
    BY <1>0, <2>1, CommitFacts
  <2>2. Mark \/ (\E c \in 1 .. marks + 1 : Cleanup(c)) => UNCHANGED committed
    BY DEF Mark, Cleanup, writerVars
  <2> QED BY <2>1, <2>2, Frame
<1>2. \A k \in 1 .. Len(published) :
        k \in 1 .. Len(published') /\ published'[k] = published[k]
  <2>1. ASSUME Publish
        PROVE  \A k \in 1 .. Len(published) :
                 k \in 1 .. Len(published') /\ published'[k] = published[k]
    BY <1>0, <2>1, PublishFacts
  <2>2. Claim \/ Mark \/ Crash => UNCHANGED published
    BY DEF Claim, Mark, Crash
  <2> QED BY <2>1, <2>2, Frame
<1> QED BY <1>1, <1>2

\* Only committed rows are handed to the bus.
LEMMA PublishedStep ==
  ASSUME Types, RowsOK, PublishedOK, [Next]_vars
  PROVE  PublishedOK'
<1>1. ASSUME NEW k \in 1 .. Len(published')
      PROVE  \E i \in 1 .. Len(committed) : committed[i].id = published'[k]
  <2>1. CASE Publish
    <3> PICK r \in claimed \ sent :
               /\ Len(published') = Len(published) + 1
               /\ \A n \in 1 .. Len(published) : published'[n] = published[n]
               /\ published'[Len(published) + 1] = r.id
      BY <2>1, PublishFacts
    <3>1. r \in rows /\ Len(published) \in Nat
      BY TypeFacts
    <3>2. CASE k \in 1 .. Len(published)
      BY <3>2 DEF PublishedOK
    <3>3. CASE k = Len(published) + 1
      BY <3>1, <3>3 DEF RowsOK
    <3> QED BY <3>1, <3>2, <3>3
  <2>2. Claim \/ Mark \/ Crash => UNCHANGED published
    BY DEF Claim, Mark, Crash
  <2>3. CASE UNCHANGED published
    BY <1>1, <2>3 DEF PublishedOK
  <2> QED BY <2>1, <2>2, <2>3, Frame
<1> QED BY <1>1, HistoryGrows DEF PublishedOK

\* The batch stays closed downwards within an order: a row committed meanwhile
\* has a larger id than everything its order committed before.
LEMMA BatchStep ==
  ASSUME Types, IdsGrow, RowsOK, BatchOK, [Next]_vars
  PROVE  BatchOK'
<1>0. claimed \subseteq rows /\ sent \subseteq claimed /\ Len(published) \in Nat
  BY TypeFacts
<1>1. ASSUME NEW r \in sent'
      PROVE  \E k \in 1 .. Len(published') : published'[k] = r.id
  <2>1. CASE r \in sent
    BY <2>1, HistoryGrows DEF BatchOK
  <2>2. CASE Publish
    <3> PICK s \in claimed \ sent : /\ sent' = sent \cup {s}
                                    /\ Len(published') = Len(published) + 1
                                    /\ published'[Len(published) + 1] = s.id
      BY <2>2, PublishFacts
    <3> QED BY <1>0, <1>1, <2>1
  <2>3. CASE Claim
    BY <1>1, <2>1, <2>3 DEF Claim
  <2>4. CASE Mark \/ Crash
    BY <1>1, <2>4 DEF Mark, Crash
  <2> QED BY <1>1, <2>1, <2>2, <2>3, <2>4, Frame
<1>2. CASE Claim
  <2>1. PICK batch \in SUBSET Unpublished : FirstUnpublished(batch) /\ claimed' = batch
    BY <1>2 DEF Claim
  <2>2. rows' = rows
    BY <1>2 DEF Claim
  <2>3. \A r \in claimed' : r \in rows /\ r.publishedAt = 0
    BY <2>1 DEF Unpublished
  <2>4. ASSUME NEW r \in claimed', NEW s \in rows, s.publishedAt = 0, s.id < r.id
        PROVE  s \in claimed'
    <3>1. s \in Unpublished /\ r \in batch
      BY <2>1, <2>4 DEF Unpublished
    <3>2. CASE s \notin batch
      <4>1. r.id < s.id
        BY <2>1, <3>1, <3>2 DEF FirstUnpublished
      <4>2. r.id \in Nat /\ s.id \in Nat
        BY <2>3, TypeFacts
      <4> QED BY <2>4, <4>1, <4>2
    <3> QED BY <2>1, <3>2
  <2> QED BY <1>1, <2>2, <2>3, <2>4 DEF BatchOK
<1>3. CASE claimed' = {}
  BY <1>1, <1>3 DEF BatchOK
<1>4. ASSUME claimed' = claimed, rows' = rows PROVE BatchOK'
  BY <1>1, <1>4 DEF BatchOK
<1>5. CASE Publish
  BY <1>4, <1>5 DEF Publish
<1>6. ASSUME NEW o \in Orders, CommitOutbox(o) PROVE BatchOK'
  <2>1. claimed' = claimed
    BY <1>6, CommitFacts
  <2>2. \A s \in rows' : s \in rows \/ \E k \in 1 .. Len(open[o]) :
          s.id = open[o][k] /\ s.order = o /\ s.publishedAt = 0
    BY <1>6, CommitFacts
  <2>3. ASSUME NEW r \in claimed, NEW s \in rows', s.publishedAt = 0,
               s.order = r.order, s.id < r.id
        PROVE  s \in claimed
    <3>1. CASE s \in rows
      BY <2>3, <3>1 DEF BatchOK
    <3>2. CASE s \notin rows
      <4> PICK k \in 1 .. Len(open[o]) : s.id = open[o][k] /\ s.order = o
        BY <2>2, <3>2
      <4> PICK i \in 1 .. Len(committed) :
                 committed[i].id = r.id /\ committed[i].order = r.order
        BY <1>0 DEF RowsOK
      <4>1. r.id < s.id
        BY <2>3 DEF IdsGrow
      <4>2. r.id \in Nat /\ s.id \in Nat
        <5>1. open[o][k] \in 1 .. outboxSeq /\ outboxSeq \in Nat
          BY TypeFacts
        <5> QED BY <1>0, <5>1, TypeFacts
      <4> QED BY <2>3, <4>1, <4>2
    <3> QED BY <3>1, <3>2
  <2> QED BY <1>1, <2>1, <2>3 DEF BatchOK
<1>7. ASSUME NEW cutoff, Cleanup(cutoff) PROVE BatchOK'
  BY <1>3, <1>7 DEF Cleanup, relayVars
<1>8. Mark \/ Crash => claimed' = {}
  BY DEF Mark, Crash
<1> QED BY <1>2, <1>3, <1>4, <1>5, <1>6, <1>7, <1>8, Frame

\* Nothing committed is lost between the table and the bus.
LEMMA SkippedStep ==
  ASSUME Types, Types', IdsGrow, RowsOK, BatchOK, NoRowSkipped, [Next]_vars
  PROVE  NoRowSkipped'
<1>0. Len(published) \in Nat /\ Len(committed) \in Nat /\ claimed \subseteq rows
  BY TypeFacts
<1> DEFINE Bus(id) == \E k \in 1 .. Len(published) : published[k] = id
           Waits(id) == \E r \in rows : r.id = id /\ r.publishedAt = 0
<1>1. ASSUME NEW i \in 1 .. Len(committed)
      PROVE  Bus(committed[i].id) \/ Waits(committed[i].id)
  BY DEF NoRowSkipped, ToSet
<1>2. ASSUME NEW id, Bus(id) PROVE Bus(id)'
  BY <1>2, HistoryGrows
<1>3. ASSUME NEW id, Waits(id) PROVE (Bus(id) \/ Waits(id))'
  <2> PICK r \in rows : r.id = id /\ r.publishedAt = 0
    BY <1>3
  <2>1. CASE r \in rows'
    BY <2>1
  <2>2. CASE Mark
    <3>1. CASE r \in claimed
      <4>1. Bus(id)
        BY <2>2, <3>1, MarkFacts DEF BatchOK
      <4> QED BY <1>2, <4>1
    <3>2. CASE r \notin claimed
      BY <2>1, <2>2, <3>2, MarkFacts
    <3> QED BY <3>1, <3>2
  <2>3. ASSUME NEW o \in Orders, CommitOutbox(o) PROVE r \in rows'
    BY <2>3 DEF CommitOutbox
  <2>4. ASSUME NEW cutoff, Cleanup(cutoff) PROVE r \in rows'
    BY <2>4 DEF Cleanup
  <2> HIDE DEF Bus, Waits
  <2> QED BY <2>1, <2>2, <2>3, <2>4, Frame
<1>4. ASSUME NEW i \in 1 .. Len(committed')
      PROVE  (Bus(committed[i].id) \/ Waits(committed[i].id))'
  <2>1. CASE i \in 1 .. Len(committed)
    <3>1. committed'[i] = committed[i]
      BY <2>1, HistoryGrows
    <3>2. CASE Bus(committed[i].id)
      BY <1>2, <3>1, <3>2
    <3>3. CASE Waits(committed[i].id)
      BY <1>3, <3>1, <3>3
    <3> QED BY <1>1, <2>1, <3>2, <3>3
  <2>2. CASE i \notin 1 .. Len(committed)
    <3>1. committed' # committed
      BY <1>4, <2>2
    <3> PICK o \in Orders : CommitOutbox(o)
      BY <3>1, Frame DEF Mark, Cleanup, writerVars
    <3> DEFINE k == i - Len(committed)
    <3>2. k \in 1 .. Len(open[o]) /\ committed'[i].id = open[o][k]
      BY <2>2, CommitFacts
    <3>3. \A l \in 1 .. Len(open[o]) : \E r \in rows' :
            r.id = open[o][l] /\ r.publishedAt = 0
      BY CommitFacts
    <3> HIDE DEF k
    <3> QED BY <3>2, <3>3
  <2> QED BY <2>1, <2>2
<1>5. \A i \in 1 .. Len(committed') :
        \/ committed'[i].id \in ToSet(published')
        \/ \E r \in rows' : r.id = committed'[i].id /\ r.publishedAt = 0
  <2> SUFFICES ASSUME NEW i \in 1 .. Len(committed'), Bus(committed[i].id)'
               PROVE  committed'[i].id \in ToSet(published')
    BY <1>4
  <2>1. published' \in Seq(1 .. outboxSeq')
    BY DEF Types, TypeOK
  <2> QED BY <2>1 DEF ToSet
<1> QED BY <1>5 DEF NoRowSkipped, Types

\* Publishing the smallest unsent row of the batch keeps the order of every
\* order's events; a commit cannot put one before a published row.
LEMMA InOrderStep ==
  ASSUME IndInv, [Next]_vars
  PROVE  OrderEventsInOrder'
<1>0. /\ Types /\ IdsGrow /\ RowsOK /\ PublishedOK /\ BatchOK /\ NoRowSkipped
      /\ OrderEventsInOrder
  BY DEF IndInv
<1>1. Len(published) \in Nat /\ Len(committed) \in Nat /\ claimed \subseteq rows
  BY <1>0, TypeFacts
<1> SUFFICES ASSUME NEW i \in 1 .. Len(committed'), NEW j \in 1 .. Len(committed'),
                    i < j, committed'[i].order = committed'[j].order,
                    NEW k \in 1 .. Len(published'), published'[k] = committed'[j].id
             PROVE  \E m \in 1 .. k - 1 : published'[m] = committed'[i].id
  BY DEF OrderEventsInOrder
<1>2. CASE k \in 1 .. Len(published)
  <2>1. published'[k] = published[k]
    BY <1>0, <1>2, HistoryGrows
  <2>2. j \in 1 .. Len(committed)
    <3>1. SUFFICES ASSUME j \notin 1 .. Len(committed) PROVE FALSE
      OBVIOUS
    <3>2. committed' # committed
      BY <3>1
    <3> PICK o \in Orders : CommitOutbox(o)
      BY <3>2, Frame DEF Mark, Cleanup, writerVars
    <3> DEFINE l == j - Len(committed)
    <3>3. l \in 1 .. Len(open[o]) /\ committed'[j].id = open[o][l]
      BY <1>0, <3>1, CommitFacts
    <3> HIDE DEF l
    <3> PICK n \in 1 .. Len(committed) : committed[n].id = published[k]
      BY <1>0, <1>2 DEF PublishedOK
    <3>4. committed[n].id = open[o][l]
      BY <2>1, <3>3
    <3>5. committed[n].id # open[o][l]
      BY <1>0, <3>3 DEF IdsGrow
    <3> QED BY <3>4, <3>5
  <2>3. i \in 1 .. Len(committed)
    BY <1>1, <2>2
  <2>4. committed'[i] = committed[i] /\ committed'[j] = committed[j]
    BY <1>0, <2>2, <2>3, HistoryGrows
  <2> PICK m \in 1 .. k - 1 : published[m] = committed[i].id
    BY <1>0, <1>2, <2>1, <2>2, <2>3, <2>4 DEF OrderEventsInOrder
  <2>5. m \in 1 .. Len(published)
    BY <1>1, <1>2
  <2> QED BY <1>0, <2>4, <2>5, HistoryGrows
<1>3. CASE k \notin 1 .. Len(published)
  <2>1. Publish
    <3>1. published' # published
      BY <1>3
    <3> QED BY <3>1, Frame DEF Claim, Mark, Crash
  <2>2. PICK r \in claimed \ sent :
          /\ \A s \in claimed \ sent : r.id <= s.id
          /\ Len(published') = Len(published) + 1
          /\ \A n \in 1 .. Len(published) : published'[n] = published[n]
          /\ published'[Len(published) + 1] = r.id
          /\ UNCHANGED <<rows, committed>>
    BY <1>0, <2>1, PublishFacts
  <2>3. k = Len(published) + 1
    BY <1>1, <1>3, <2>2
  <2>4. /\ committed[i].order = committed[j].order /\ committed[j].id = r.id
        /\ i \in 1 .. Len(committed) /\ j \in 1 .. Len(committed)
    BY <2>2, <2>3
  <2>5. committed[i].id < r.id
    BY <1>0, <2>4 DEF IdsGrow
  <2>6. \E m \in 1 .. Len(published) : published[m] = committed[i].id
    <3>1. CASE committed[i].id \in ToSet(published)
      <4>1. published \in Seq(1 .. outboxSeq)
        BY <1>0, TypeFacts
      <4> QED BY <3>1, <4>1 DEF ToSet
    <3>2. CASE \E s \in rows : s.id = committed[i].id /\ s.publishedAt = 0
      <4> PICK s \in rows : s.id = committed[i].id /\ s.publishedAt = 0
        BY <3>2
      <4>1. s.order = committed[i].order
        <5> PICK n \in 1 .. Len(committed) :
                   committed[n].id = s.id /\ committed[n].order = s.order
          BY <1>0 DEF RowsOK
        <5> QED BY <1>0, <2>4 DEF IdsGrow
      <4>2. r.order = committed[j].order
        <5> PICK n \in 1 .. Len(committed) :
                   committed[n].id = r.id /\ committed[n].order = r.order
          BY <1>0, <1>1 DEF RowsOK
        <5> QED BY <1>0, <2>4 DEF IdsGrow
      <4>3. s \in claimed
        BY <1>0, <2>4, <2>5, <4>1, <4>2 DEF BatchOK
      <4>4. s \in sent
        <5>1. s.id \in Nat /\ r.id \in Nat
          BY <1>0, <1>1, TypeFacts
        <5> QED BY <2>2, <2>5, <4>3, <5>1
      <4> QED BY <1>0, <4>4 DEF BatchOK
    <3> QED BY <1>0, <2>4, <3>1, <3>2 DEF NoRowSkipped
  <2> QED BY <1>1, <2>2, <2>3, <2>6
<1> QED BY <1>2, <1>3

--------------------------------------------------------------------------------
(* The relay's theorems. *)

\* The invariant holds in every reachable state.
THEOREM Invariance == Spec => []IndInv
<1>1. Init => IndInv
  <2> SUFFICES ASSUME Init PROVE IndInv
    OBVIOUS
  <2> USE DEF Init
  <2>1. TypeOK
    BY RelayAssumption DEF TypeOK
  <2>2. Types
    BY <2>1 DEF Types
  <2>3. IdsGrow /\ RowsOK /\ PublishedOK /\ BatchOK
    BY DEF IdsGrow, RowsOK, PublishedOK, BatchOK
  <2>4. NoRowSkipped /\ OrderEventsInOrder
    BY <2>1 DEF NoRowSkipped, OrderEventsInOrder
  <2> QED BY <2>2, <2>3, <2>4 DEF IndInv
<1>2. IndInv /\ [Next]_vars => IndInv'
  <2> SUFFICES ASSUME IndInv, [Next]_vars PROVE IndInv'
    OBVIOUS
  <2>0. Types /\ IdsGrow /\ RowsOK /\ PublishedOK /\ BatchOK /\ NoRowSkipped
    BY DEF IndInv
  <2>1. Types' /\ IdsGrow' /\ RowsOK'
    BY <2>0, TypesStep, IdsStep, RowsStep
  <2>2. PublishedOK' /\ BatchOK'
    BY <2>0, PublishedStep, BatchStep
  <2>3. NoRowSkipped' /\ OrderEventsInOrder'
    BY <2>0, <2>1, SkippedStep, InOrderStep
  <2> QED BY <2>1, <2>2, <2>3 DEF IndInv
<1> QED BY <1>1, <1>2, PTL DEF Spec

\* At least once: a committed row is waiting in the table or has been handed to
\* the bus, whatever crashed and whatever was cleaned up.
THEOREM NothingSkipped == Spec => []NoRowSkipped
<1>1. IndInv => NoRowSkipped
  BY DEF IndInv
<1> QED BY <1>1, Invariance, PTL

\* Every publication of a row comes after one of every row its order committed
\* before it, although ids are drawn before commits and batches are repeated.
THEOREM EventsInOrder == Spec => []OrderEventsInOrder
<1>1. IndInv => OrderEventsInOrder
  BY DEF IndInv
<1> QED BY <1>1, Invariance, PTL

\* Between the two: only what was committed is ever published.
THEOREM OnlyCommittedPublished == Spec => []PublishedOK
<1>1. IndInv => PublishedOK
  BY DEF IndInv
<1> QED BY <1>1, Invariance, PTL

--------------------------------------------------------------------------------
(* The bus. *)

\* The bus's variables, and the publications of this process.
BusTypes ==
  /\ queue \in Seq(Nat) /\ handled \in Seq(Nat) /\ dropped \in Nat
  /\ Len(published) \in Nat /\ started \in Nat /\ started <= Len(published)

BusInv == BusTypes /\ DropsAreCounted

\* DropsAreCounted for any sequence of what the subscriber has got or will get.
Accounted(got, lost, first, last) ==
  /\ Len(got) + lost = last - first
  /\ \A i, j \in 1 .. Len(got) : i < j => got[i] < got[j]
  /\ \A i \in 1 .. Len(got) : got[i] \in first + 1 .. last

\* Appending the newest publication, or counting it as lost, keeps the account.
LEMMA AccountGrows ==
  ASSUME NEW got \in Seq(Nat), NEW lost \in Nat, NEW first \in Nat,
         NEW last \in Nat, Accounted(got, lost, first, last)
  PROVE  /\ Accounted(Append(got, last + 1), lost, first, last + 1)
         /\ Accounted(got, lost + 1, first, last + 1)
<1>1. Len(got) \in Nat
  OBVIOUS
<1> DEFINE new == Append(got, last + 1)
<1>2. /\ Len(new) = Len(got) + 1
      /\ \A i \in 1 .. Len(got) : new[i] = got[i]
      /\ new[Len(got) + 1] = last + 1
  OBVIOUS
<1> HIDE DEF new
<1>3. /\ Len(got) + lost = last - first
      /\ \A i, j \in 1 .. Len(got) : i < j => got[i] < got[j]
      /\ \A i \in 1 .. Len(got) : got[i] \in first + 1 .. last
  BY DEF Accounted
<1>4. /\ Len(new) + lost = last + 1 - first
      /\ Len(got) + lost + 1 = last + 1 - first
  BY <1>1, <1>2, <1>3
<1>5. ASSUME NEW i \in 1 .. Len(new) PROVE new[i] \in first + 1 .. last + 1
  <2>1. CASE i \in 1 .. Len(got)
    BY <1>2, <1>3, <2>1
  <2>2. CASE i = Len(got) + 1
    <3>1. last + 1 \in first + 1 .. last + 1
      BY <1>1, <1>3
    <3> QED BY <1>2, <2>2, <3>1
  <2> QED BY <1>1, <1>2, <2>1, <2>2
<1>6. ASSUME NEW i \in 1 .. Len(new), NEW j \in 1 .. Len(new), i < j
      PROVE  new[i] < new[j]
  <2>1. i \in 1 .. Len(got) /\ (j \in 1 .. Len(got) \/ j = Len(got) + 1)
    BY <1>1, <1>2, <1>6
  <2>2. CASE j \in 1 .. Len(got)
    BY <1>2, <1>3, <1>6, <2>1, <2>2
  <2>3. CASE j = Len(got) + 1
    BY <1>2, <1>3, <2>1, <2>3
  <2> QED BY <2>1, <2>2, <2>3
<1>7. Accounted(new, lost, first, last + 1)
  BY <1>4, <1>5, <1>6 DEF Accounted
<1>8. Accounted(got, lost + 1, first, last + 1)
  BY <1>1, <1>3, <1>4 DEF Accounted
<1> QED BY <1>7, <1>8 DEF new

\* An event queued last is got last; one that moves from the queue to the
\* handler stays where it is in what is got.
LEMMA GotFacts ==
  ASSUME NEW h \in Seq(Nat), NEW q \in Seq(Nat), NEW n \in Nat
  PROVE  /\ h \o q \in Seq(Nat)
         /\ h \o Append(q, n) = Append(h \o q, n)
         /\ q # <<>> => Append(h, Head(q)) \o Tail(q) = h \o q
<1>1. h \o q \in Seq(Nat)
  OBVIOUS
<1>2. h \o Append(q, n) = Append(h \o q, n)
  OBVIOUS
<1>3. ASSUME q # <<>> PROVE Append(h, Head(q)) \o Tail(q) = h \o q
  <2>1. Head(q) \in Nat /\ Tail(q) \in Seq(Nat) /\ <<Head(q)>> \in Seq(Nat)
    BY <1>3
  <2>2. <<Head(q)>> \o Tail(q) = q
    BY <1>3, <2>1
  <2>3. Append(h, Head(q)) = h \o <<Head(q)>>
    BY <2>1, AppendIsConcat
  <2>4. (h \o <<Head(q)>>) \o Tail(q) = h \o (<<Head(q)>> \o Tail(q))
    <3>1. \A a, b, c \in Seq(Nat) : (a \o b) \o c = a \o (b \o c)
      BY ConcatAssociative, SMTT(30)
    <3> QED BY <2>1, <3>1, Zenon
  <2> QED BY <2>2, <2>3, <2>4
<1> QED BY <1>1, <1>2, <1>3

\* What a slow subscriber misses is counted, what it gets is in order and of this
\* process: Publish drops or queues, Handle takes from the front.
THEOREM DropsCounted == Spec => []DropsAreCounted
<1>1. Init => BusInv
  BY DEF Init, BusInv, BusTypes, DropsAreCounted
<1>2. BusInv /\ IndInv /\ [Next]_vars => BusInv'
  <2> SUFFICES ASSUME BusInv, IndInv, [Next]_vars PROVE BusInv'
    OBVIOUS
  <2>0. /\ queue \in Seq(Nat) /\ handled \in Seq(Nat) /\ dropped \in Nat
        /\ Len(published) \in Nat /\ started \in Nat /\ started <= Len(published)
        /\ Accounted(handled \o queue, dropped, started, Len(published))
    BY DEF BusInv, BusTypes, DropsAreCounted, Accounted
  <2>1. CASE UNCHANGED <<queue, handled, dropped, started, published>>
    BY <2>1 DEF BusInv, BusTypes, DropsAreCounted
  <2>2. ASSUME Accounted(handled' \o queue', dropped', started', Len(published')),
               BusTypes'
        PROVE  BusInv'
    BY <2>2 DEF BusInv, DropsAreCounted, Accounted
  <2>3. CASE Publish
    <3>1. PICK id : published' = Append(published, id)
      BY <2>3 DEF Publish
    <3>2. handled' = handled /\ started' = started /\ BusPublish
      BY <2>3 DEF Publish
    <3>3. Len(published') = Len(published) + 1
      BY <3>1, TypeFacts DEF IndInv
    <3>4. \/ queue' = Append(queue, Len(published) + 1) /\ dropped' = dropped
          \/ queue' = queue /\ dropped' = dropped + 1
      BY <3>2 DEF BusPublish
    <3>5. BusTypes'
      <4>1. Len(published) + 1 \in Nat /\ started <= Len(published) + 1
        BY <2>0
      <4>2. queue' \in Seq(Nat) /\ dropped' \in Nat
        <5>1. Append(queue, Len(published) + 1) \in Seq(Nat)
          BY <2>0, <4>1, AppendProperties
        <5>2. queue \in Seq(Nat) /\ dropped \in Nat /\ dropped + 1 \in Nat
          BY <2>0
        <5> QED BY <3>4, <5>1, <5>2, Zenon
      <4> QED BY <2>0, <3>2, <3>3, <4>1, <4>2 DEF BusTypes
    <3> DEFINE got == handled \o queue
    <3>6. /\ got \in Seq(Nat)
          /\ handled \o Append(queue, Len(published) + 1)
               = Append(got, Len(published) + 1)
      <4>1. /\ handled \in Seq(Nat) /\ queue \in Seq(Nat)
            /\ Len(published) + 1 \in Nat
        BY <2>0
      <4> QED BY <4>1, GotFacts, Zenon
    <3> HIDE DEF got
    <3>7. /\ Accounted(Append(got, Len(published) + 1), dropped, started,
                       Len(published) + 1)
          /\ Accounted(got, dropped + 1, started, Len(published) + 1)
      BY <2>0, <3>6, AccountGrows DEF got
    <3>8. Accounted(handled' \o queue', dropped', started', Len(published'))
      BY <3>2, <3>3, <3>4, <3>6, <3>7 DEF got
    <3> QED BY <2>2, <3>5, <3>8
  <2>4. CASE Handle
    <3>1. /\ queue # <<>> /\ queue' = Tail(queue)
          /\ handled' = Append(handled, Head(queue))
          /\ UNCHANGED <<dropped, started, published>>
      BY <2>4 DEF Handle, relayVars
    <3>2. handled' \o queue' = handled \o queue
      BY <2>0, <3>1, GotFacts
    <3>3. BusTypes'
      BY <2>0, <3>1 DEF BusTypes
    <3> QED BY <2>0, <2>2, <3>1, <3>2, <3>3
  <2>5. CASE Crash
    <3>1. /\ queue' = <<>> /\ handled' = <<>> /\ dropped' = 0
          /\ started' = Len(published) /\ published' = published
      BY <2>5 DEF Crash
    <3>2. BusTypes'
      BY <2>0, <3>1 DEF BusTypes
    <3>3. DropsAreCounted'
      BY <2>0, <3>1 DEF DropsAreCounted
    <3> QED BY <3>2, <3>3 DEF BusInv
  <2>6. CASE \E o \in Orders : InsertOutbox(o) \/ CommitOutbox(o) \/ AbortOutbox(o)
    BY <2>1, <2>6 DEF InsertOutbox, CommitOutbox, AbortOutbox, relayVars, busVars
  <2>7. CASE Claim \/ Mark
    BY <2>1, <2>7 DEF Claim, Mark, busVars
  <2>8. CASE \E cutoff \in 1 .. marks + 1 : Cleanup(cutoff)
    BY <2>1, <2>8 DEF Cleanup, relayVars, busVars
  <2>9. CASE UNCHANGED vars
    BY <2>1, <2>9 DEF vars, relayVars, busVars
  <2> QED BY <2>3, <2>4, <2>5, <2>6, <2>7, <2>8, <2>9 DEF Next
<1>3. BusInv => DropsAreCounted
  BY DEF BusInv
<1> QED BY <1>1, <1>2, <1>3, Invariance, PTL DEF Spec
================================================================================
