---------------------------- MODULE SnapshotService ----------------------------
(***************************************************************************)
(* The balance snapshots of internal/service/snapshot: one goroutine per   *)
(* target fetches balances, writes them to the series store (QuestDB) and  *)
(* then records a checkpoint in Postgres.  All targets share one line      *)
(* sender, whose buffer holds the rows of whoever wrote since the last     *)
(* flush.  Each call that can fail or be interrupted is one step.          *)
(***************************************************************************)
EXTENDS Integers, FiniteSets

CONSTANTS
  Targets,         \* the configured (venue, account) pairs
  Currencies,      \* the currencies with a balance: one series row each
  NoTarget,        \* the holder of a free mutex
  MaxSnaps,        \* bound: snapshots of one target
  MaxRestarts      \* bound: restarts of the process

ASSUME SnapshotAssumption ==
  /\ NoTarget \notin Targets
  /\ MaxSnaps \in Nat
  /\ MaxRestarts \in Nat

VARIABLES
  pc,              \* where each target's snapshot() is
  snaps,           \* snapshots each target has begun
  writeMu,         \* the holder of Service.writeMu
  sender,          \* rows in the line sender's buffer
  series,          \* rows the series store has accepted
  checkpoints,     \* the snapshot_checkpoints table
  flushed,         \* history: snapshots this process flushed successfully
  taken,           \* snapshots announced as snapshot.taken
  ctx,             \* the service's context
  failed,          \* Run has returned an error
  restarts

snapshotVars == <<pc, snaps, writeMu, sender, series, checkpoints, flushed, taken,
                  ctx, failed, restarts>>

\* The snapshot a target is working on, its series rows, and its checkpoint.
Snapshot == Targets \X (1 .. MaxSnaps)
Current(t) == <<t, snaps[t]>>
RowsOf(s) == {s} \X Currencies
Checkpoint(s, status) == [snap |-> s, status |-> status]
Anchored(s) == Checkpoint(s, "ok") \in checkpoints

SnapshotInit ==
  /\ pc = [t \in Targets |-> "idle"]
  /\ snaps = [t \in Targets |-> 0]
  /\ writeMu = NoTarget
  /\ sender = {} /\ series = {} /\ checkpoints = {}
  /\ flushed = {} /\ taken = {}
  /\ ctx = "live" /\ failed = FALSE /\ restarts = 0

Goto(t, label) == pc' = [pc EXCEPT ![t] = label]

\* snapshot() up to the early return for a canceled context: the fetch with
\* its retries ends with balances or, for whatever reason, without.  (With a
\* canceled context it returns to the loop and nothing has happened.)
Fetch(t) ==
  /\ pc[t] = "idle" /\ snaps[t] < MaxSnaps /\ ctx = "live"
  /\ snaps' = [snaps EXCEPT ![t] = @ + 1]
  /\ Goto(t, "fetched") \/ Goto(t, "failed")
  /\ UNCHANGED <<writeMu, sender, series, checkpoints, flushed, taken, ctx,
                 failed, restarts>>

\* Mutant of Lock: writeSeries does not hold a lock across write and flush.
SkipLock(t) ==
  /\ pc[t] = "fetched"
  /\ Goto(t, "locked")
  /\ UNCHANGED <<snaps, writeMu, sender, series, checkpoints, flushed, taken,
                 ctx, failed, restarts>>

\* writeSeries takes the mutex.
Lock(t) ==
  /\ pc[t] = "fetched" /\ writeMu = NoTarget
  /\ writeMu' = t
  /\ Goto(t, "locked")
  /\ UNCHANGED <<snaps, sender, series, checkpoints, flushed, taken, ctx,
                 failed, restarts>>

\* WriteBalanceSnapshot: all rows are buffered, or the loop ends at a row that
\* cannot be written; the rows before it stay in the buffer.
Write(t) ==
  /\ pc[t] = "locked"
  /\ \E part \in SUBSET RowsOf(Current(t)) :
       /\ sender' = sender \cup part
       /\ \/ part = RowsOf(Current(t)) /\ Goto(t, "written") /\ writeMu' = writeMu
          \/ part # RowsOf(Current(t)) /\ Goto(t, "failed") /\ writeMu' = NoTarget
  /\ UNCHANGED <<snaps, series, checkpoints, flushed, taken, ctx, failed,
                 restarts>>

\* Mutant of Flush: the error path returns without unlocking.
FlushKeepsLock(t) ==
  /\ pc[t] = "written"
  /\ \/ /\ series' = series \cup sender
        /\ sender' = {}
        /\ flushed' = flushed \cup {Current(t)}
        /\ Goto(t, "flushed")
        /\ writeMu' = NoTarget
     \/ /\ Goto(t, "failed")
        /\ UNCHANGED <<series, sender, flushed, writeMu>>
  /\ UNCHANGED <<snaps, checkpoints, taken, ctx, failed, restarts>>

\* Flush: the store accepts the whole buffer; or the call fails, also because
\* the context was canceled, with the rows accepted or not, and kept in the
\* buffer or discarded (external: the line sender).
Flush(t) ==
  /\ pc[t] = "written"
  /\ writeMu' = NoTarget
  /\ \/ /\ series' = series \cup sender
        /\ sender' = {}
        /\ flushed' = flushed \cup {Current(t)}
        /\ Goto(t, "flushed")
     \/ /\ series' \in {series, series \cup sender}
        /\ sender' \in {{}, sender}
        /\ Goto(t, "failed")
        /\ UNCHANGED flushed
  /\ UNCHANGED <<snaps, checkpoints, taken, ctx, failed, restarts>>

\* An error of the checkpoint store: the insert may have committed all the
\* same.  Run returns the error and the error group cancels the others.
StoreFails(t, checkpoint) ==
  /\ checkpoints' \in {checkpoints, checkpoints \cup {checkpoint}}
  /\ Goto(t, "stopped")
  /\ ctx' = "canceled" /\ failed' = TRUE

\* record on the service's context, for a snapshot that failed: the error of a
\* canceled context is swallowed.
RecordFailed(t) ==
  LET checkpoint == Checkpoint(Current(t), "failed")
  IN  /\ pc[t] = "failed"
      /\ \/ /\ checkpoints' = checkpoints \cup {checkpoint}
            /\ Goto(t, "idle")
            /\ UNCHANGED <<ctx, failed>>
         \/ /\ ctx = "canceled"
            /\ Goto(t, "idle")
            /\ UNCHANGED <<checkpoints, ctx, failed>>
         \/ ctx = "live" /\ StoreFails(t, checkpoint)
      /\ UNCHANGED <<snaps, writeMu, sender, series, flushed, taken, restarts>>

\* Mutant of RecordOk: the checkpoint is written on the service's context, so
\* that shutdown cancels it.
RecordOkOnServiceContext(t) ==
  LET checkpoint == Checkpoint(Current(t), "ok")
  IN  /\ pc[t] = "flushed"
      /\ \/ /\ checkpoints' = checkpoints \cup {checkpoint}
            /\ Goto(t, "recorded")
            /\ UNCHANGED <<ctx, failed>>
         \/ /\ ctx = "canceled"
            /\ Goto(t, "idle")
            /\ UNCHANGED <<checkpoints, ctx, failed>>
         \/ ctx = "live" /\ StoreFails(t, checkpoint)
      /\ UNCHANGED <<snaps, writeMu, sender, series, flushed, taken, restarts>>

\* record on a detached context with a deadline, for a snapshot that is in the
\* series store: shutdown does not interrupt it, and every error is returned.
RecordOk(t) ==
  LET checkpoint == Checkpoint(Current(t), "ok")
  IN  /\ pc[t] = "flushed"
      /\ \/ /\ checkpoints' = checkpoints \cup {checkpoint}
            /\ Goto(t, "recorded")
            /\ UNCHANGED <<ctx, failed>>
         \/ StoreFails(t, checkpoint)
      /\ UNCHANGED <<snaps, writeMu, sender, series, flushed, taken, restarts>>

\* The bus never fails.
Publish(t) ==
  /\ pc[t] = "recorded"
  /\ taken' = taken \cup {Current(t)}
  /\ Goto(t, "idle")
  /\ UNCHANGED <<snaps, writeMu, sender, series, checkpoints, flushed, ctx,
                 failed, restarts>>

\* pollLoop sees the canceled context.
Stop(t) ==
  /\ pc[t] = "idle" /\ ctx = "canceled"
  /\ Goto(t, "stopped")
  /\ UNCHANGED <<snaps, writeMu, sender, series, checkpoints, flushed, taken,
                 ctx, failed, restarts>>

\* Shutdown.
Cancel ==
  /\ ctx = "live"
  /\ ctx' = "canceled"
  /\ UNCHANGED <<pc, snaps, writeMu, sender, series, checkpoints, flushed,
                 taken, failed, restarts>>

\* The process ends at any point and is started again; after an orderly stop
\* closing the sender may still send what is in its buffer.
Restart ==
  /\ restarts < MaxRestarts
  /\ restarts' = restarts + 1
  /\ \/ series' = series
     \/ (\A t \in Targets : pc[t] = "stopped") /\ series' = series \cup sender
  /\ pc' = [t \in Targets |-> "idle"]
  /\ writeMu' = NoTarget /\ sender' = {} /\ flushed' = {}
  /\ ctx' = "live" /\ failed' = FALSE
  /\ UNCHANGED <<snaps, checkpoints, taken>>

Step(t) == \/ Fetch(t) \/ Lock(t) \/ Write(t) \/ Flush(t) \/ RecordFailed(t)
           \/ RecordOk(t) \/ Publish(t) \/ Stop(t)

SnapshotNext == (\E t \in Targets : Step(t)) \/ Cancel \/ Restart

\* Every call has a deadline or is local, so a goroutine that can go on does.
SnapshotFairness == \A t \in Targets : WF_snapshotVars(Step(t))

SnapshotSpec == SnapshotInit /\ [][SnapshotNext]_snapshotVars

SnapshotFairSpec == SnapshotSpec /\ SnapshotFairness

--------------------------------------------------------------------------------
(* What a client is told: LastSnapshot, GetLastSnapshot and ctl's snapshot. *)

\* Mutant of Newest: the rows in ascending order.
Oldest(rows) == {c \in rows : \A d \in rows : c.snap[2] <= d.snap[2]}

\* ORDER BY taken_at DESC LIMIT 1; a target's snapshots are numbered in the
\* order they are taken.
Newest(rows) == {c \in rows : \A d \in rows : d.snap[2] <= c.snap[2]}

\* At most one checkpoint; none is ErrNotFound.
LastSnapshot(t) == Newest({c \in checkpoints : c.snap[1] = t})

CheckpointStatus(status) ==
  CASE status = "ok" -> 1 [] status = "failed" -> 2 [] OTHER -> 0

StatusText(n) == CASE n = 1 -> "ok" [] n = 2 -> "failed" [] OTHER -> "unknown"

GetLastSnapshot(t) == {[snap |-> c.snap, status |-> CheckpointStatus(c.status)] :
                         c \in LastSnapshot(t)}

--------------------------------------------------------------------------------
\* Types; a target at work has begun a snapshot of its own.
SnapshotTypeOK ==
  /\ pc \in [Targets -> {"idle", "fetched", "locked", "written", "flushed",
                         "failed", "recorded", "stopped"}]
  /\ snaps \in [Targets -> 0 .. MaxSnaps]
  /\ \A t \in Targets : pc[t] \notin {"idle", "stopped"} => snaps[t] > 0
  /\ writeMu \in Targets \cup {NoTarget}
  /\ sender \subseteq Snapshot \X Currencies
  /\ series \subseteq Snapshot \X Currencies
  /\ checkpoints \subseteq [snap : Snapshot, status : {"ok", "failed"}]
  /\ flushed \subseteq Snapshot /\ taken \subseteq Snapshot
  /\ ctx \in {"live", "canceled"} /\ failed \in BOOLEAN
  /\ restarts \in 0 .. MaxRestarts

\* A checkpoint that says ok is never a "checkpoint pointing at missing data"
\* (docs/adr/0004-postgres-truth-questdb-analytics.md:49): every row of its
\* snapshot is in the series store, whatever other targets wrote, flushed or
\* failed to flush in between.
OkMeansDurable ==
  \A s \in Snapshot : Anchored(s) => RowsOf(s) \subseteq series

\* Shutdown leaves no silent gap: a snapshot whose flush succeeded has its
\* checkpoint, or is about to get it, unless the service reports an error
\* ("Shutdown must not cancel the checkpoint", snapshot.go:163).
NoSilentGap ==
  \A s \in flushed : \/ Anchored(s)
                     \/ failed
                     \/ \E t \in Targets : pc[t] = "flushed" /\ Current(t) = s

\* snapshot.taken announces only checkpointed data, also when the process dies
\* or the store fails around the announcement (snapshot.go:27).
TakenIsAnchored == \A s \in taken : Anchored(s) /\ RowsOf(s) \subseteq series

\* A canceled service comes to rest: no target keeps the mutex from another or
\* waits for a call without end.
ShutdownEnds ==
  ctx = "canceled" ~> (\A t \in Targets : pc[t] = "stopped") \/ ctx = "live"

\* What GetLastSnapshot tells is one answer and a true one: "ok" only with the
\* data in the series store, and never older than a snapshot already announced
\* on the bus, through failed writes, store errors and restarts.
LastSnapshotCurrent ==
  \A t \in Targets :
    LET told == GetLastSnapshot(t)
    IN  /\ Cardinality(told) <= 1
        /\ \A c \in told : /\ StatusText(c.status) \in {"ok", "failed"}
                           /\ StatusText(c.status) = "ok" => RowsOf(c.snap) \subseteq series
        /\ \A n \in 1 .. MaxSnaps :
             <<t, n>> \in taken => \E c \in told : c.snap[2] >= n
================================================================================
