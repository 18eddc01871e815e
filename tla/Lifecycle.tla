------------------------------- MODULE Lifecycle -------------------------------
(***************************************************************************)
(* The life of the daemon process (internal/app, cmd/daemon): constructors *)
(* open the shared resources, start hooks launch services and servers in   *)
(* order, a failing service or a signal ends the process, stop hooks undo  *)
(* the start hooks in reverse, and a supervisor restarts a process that    *)
(* failed.  The control API's Unix socket (internal/api/listen.go) outlives*)
(* the process.                                                            *)
(*                                                                         *)
(* fx, which runs the hooks, is external: hooks start in order under one   *)
(* deadline; when one fails the started ones are stopped under what is left*)
(* of it; stopping goes on after a hook's error, but not after the         *)
(* deadline; a shutdown asked for during the start is kept until the start *)
(* has ended.                                                              *)
(***************************************************************************)
EXTENDS Naturals, Sequences

CONSTANT MaxRuns        \* bound: processes the supervisor starts

ASSUME RunsAssumption == MaxRuns \in Nat \ {0}

Resources == {"bus", "questdb", "postgres"}
Services  == {"snapshot", "outbox", "reconcile", "order"}
Servers   == {"telemetry", "api"}
Components == Resources \cup Services \cup Servers

\* The constructors that open something, in the order fx.Invoke asks for them.
Constructors == <<"bus", "venues", "questdb", "postgres">>

\* What each component calls while it runs: the stores over the Postgres pool
\* and the event bus (the order service's streams publish reconnects on it), the
\* series writer, the readiness check's ping.
Uses == [h \in Components |->
           CASE h = "snapshot" -> {"bus", "questdb", "postgres"}
             [] h \in {"outbox", "reconcile", "order", "api"} -> {"bus", "postgres"}
             [] h = "telemetry" -> {"postgres"}
             [] OTHER -> {}]

VARIABLES
  config,       \* does some enabled venue trade, is api.addr set, and what was at
                \* its path before the first start?
  phase,        \* "new", "starting", "running", "stopping", "rollback", "exited"
  built,        \* constructors that have run
  started,      \* fx's numStarted
  deadline,     \* has the deadline of the current start or stop passed?
  comp,         \* comp[h]: "off", "up", "ending" or "gone"
  ready,        \* reconcileService.Ready is closed
  signal,       \* exit code of the first shutdown asked for, or "none"
  stopErr,      \* some stop hook returned an error
  exit,         \* exit code of the process
  socket,       \* the API's socket path
  failed,       \* history: some service or server failed
  interrupted,  \* history: the operator stopped the process
  disturbed,    \* history: something failed, or time ran out
  abandoned,    \* history: the socket at the path was left by a process that died
  runs          \* processes started

hookVars == <<started, comp, ready>>
procVars == <<phase, deadline, stopErr, exit>>
pathVars == <<socket, abandoned>>
histVars == <<failed, interrupted, disturbed>>
lifeVars == <<config, built, hookVars, procVars, signal, pathVars, histVars, runs>>

\* The hooks in the order they are appended: those of the constructors, then
\* those of the functions fx.Invoke names.  startReconcileService and
\* startOrderService append nothing without a trading venue, startAPIServer
\* nothing without an address.
Hooks == <<"bus", "questdb", "postgres", "snapshot", "telemetry", "outbox">>
           \o (IF config.trading THEN <<"reconcile", "order">> ELSE <<>>)
           \o (IF config.api THEN <<"api">> ELSE <<>>)

Off == [h \in Components |-> "off"]

\* At the path of the API's Unix socket: "absent", a "file" that is no socket, the
\* live socket of an "other" process, "bound" and "live" (this process's, before
\* and after it is served), or "stale", which nobody serves.
LifeInit == /\ config \in [trading : BOOLEAN, api : BOOLEAN,
                          path : {"absent", "file", "other"}]
            /\ phase = "new" /\ built = 0 /\ started = 0
            /\ deadline = FALSE /\ stopErr = FALSE
            /\ comp = Off /\ ready = FALSE
            /\ signal = "none" /\ exit = "none"
            /\ socket = config.path /\ abandoned = FALSE
            /\ failed = FALSE /\ interrupted = FALSE /\ disturbed = FALSE
            /\ runs = 1

Bound == socket \in {"bound", "live"}

\* The process ends; a socket it still had bound stays behind.
Exit(code) == /\ phase' = "exited"
              /\ exit' = code
              /\ socket' = IF Bound THEN "stale" ELSE socket
              /\ abandoned' = (abandoned \/ (Bound /\ (deadline \/ code = "killed")))
              /\ UNCHANGED <<deadline, stopErr>>

--------------------------------------------------------------------------------
(* Construction. *)

\* newBus, newExchangeProducts, newQuestDB, newPostgres.
Construct ==
  /\ phase = "new" /\ built < Len(Constructors)
  /\ built' = built + 1
  /\ comp' = IF Constructors[built + 1] \in Components
             THEN [comp EXCEPT ![Constructors[built + 1]] = "up"] ELSE comp
  /\ UNCHANGED <<config, started, ready, procVars, signal, pathVars, histVars, runs>>

\* A venue, QuestDB or Postgres (connect, ping or migrate) fails or exceeds
\* startupTimeout: fx.App.Run finds the error and exits.
ConstructFails ==
  /\ phase = "new" /\ built \in 1 .. Len(Constructors) - 1
  /\ Exit("1")
  /\ disturbed' = TRUE
  /\ UNCHANGED <<config, built, hookVars, signal, failed, interrupted, runs>>

Constructed ==
  /\ phase = "new" /\ built = Len(Constructors)
  /\ phase' = "starting"
  /\ UNCHANGED <<config, built, hookVars, deadline, stopErr, exit, signal,
                 pathVars, histVars, runs>>

--------------------------------------------------------------------------------
(* Start hooks. *)

\* The next start hook is h's and its deadline has not passed.
Starting(h) == /\ phase = "starting" /\ ~deadline
               /\ started < Len(Hooks) /\ Hooks[started + 1] = h

HookStarted(h) == /\ started' = started + 1
                  /\ comp' = [comp EXCEPT ![h] = "up"]
                  /\ UNCHANGED <<config, built, ready, procVars, signal, histVars, runs>>

\* The resources' hooks have no OnStart.
StartResource(h) == h \in Resources /\ Starting(h) /\ HookStarted(h)
                      /\ UNCHANGED pathVars

\* startServiceAfter: the order service waits for reconciliation's Ready.
StartServiceAfter(h) == /\ h \in Services /\ Starting(h)
                        /\ h = "order" => ready
                        /\ HookStarted(h)
                        /\ UNCHANGED pathVars

\* serveHTTP with a TCP listener.
StartTelemetryServer == /\ Starting("telemetry")
                        /\ HookStarted("telemetry")
                        /\ UNCHANGED pathVars

\* api.Listen on a Unix address, one step for each thing it does to the path.  (A
\* TCP address is like the telemetry server's.)  It refuses what is not a socket
\* and a socket that answers when dialled; it removes one that does not.
Refused == {"file", "other"}

\* Mutant: whatever is at the path is in use.
ListenRefusesAny == /\ Starting("api") /\ socket \in {"file", "other", "stale"}
                    /\ phase' = "rollback"
                    /\ UNCHANGED <<config, built, hookVars, deadline, stopErr, exit,
                                   signal, pathVars, histVars, runs>>

ListenRefuses == /\ Starting("api") /\ socket \in Refused
                 /\ phase' = "rollback"
                 /\ UNCHANGED <<config, built, hookVars, deadline, stopErr, exit,
                                signal, pathVars, histVars, runs>>

ListenRemovesStale == /\ Starting("api") /\ socket = "stale"
                      /\ socket' = "absent" /\ abandoned' = FALSE
                      /\ UNCHANGED <<config, built, hookVars, procVars, signal,
                                     histVars, runs>>

ListenBinds == /\ Starting("api") /\ socket = "absent"
               /\ socket' = "bound"
               /\ UNCHANGED <<config, built, hookVars, procVars, signal, abandoned,
                              histVars, runs>>

\* The path is restricted to the owner, Listen returns and serveHTTP serves.
StartAPIServer == /\ Starting("api") /\ socket = "bound"
                  /\ socket' = "live"
                  /\ HookStarted("api")
                  /\ UNCHANGED abandoned

\* Mutant: a failed start exits without stopping what it had started.
StartFailsAndExits == /\ Starting("telemetry")
                      /\ Exit("1")
                      /\ disturbed' = TRUE
                      /\ UNCHANGED <<config, built, hookVars, signal, failed,
                                     interrupted, runs>>

\* Mutant: Listen returns chmod's error without closing its listener.
StartFailsBound == /\ Starting("telemetry") \/ (Starting("api") /\ socket \notin Refused)
                   /\ phase' = "rollback" /\ disturbed' = TRUE
                   /\ UNCHANGED <<config, built, hookVars, deadline, stopErr, exit,
                                  signal, pathVars, failed, interrupted, runs>>

\* A start hook fails, for its listener: the port is taken, or a call of Listen
\* (stat, remove, bind, chmod) fails, after the bind with the listener closed,
\* which removes the socket.  fx stops the hooks already started.
StartFails == /\ Starting("telemetry") \/ (Starting("api") /\ socket \notin Refused)
              /\ phase' = "rollback"
              /\ socket' = IF socket = "bound" THEN "absent" ELSE socket
              /\ disturbed' = TRUE
              /\ UNCHANGED <<config, built, hookVars, deadline, stopErr, exit, signal,
                             abandoned, failed, interrupted, runs>>

\* reconcile.Run has subscribed.
ReconcileReady == /\ phase # "exited" /\ comp["reconcile"] = "up" /\ ~ready
                  /\ ready' = TRUE
                  /\ UNCHANGED <<config, built, started, comp, procVars, signal,
                                 pathVars, histVars, runs>>

Started == /\ phase = "starting" /\ ~deadline /\ started = Len(Hooks)
           /\ phase' = "running"
           /\ UNCHANGED <<config, built, hookVars, deadline, stopErr, exit, signal,
                          pathVars, histVars, runs>>

--------------------------------------------------------------------------------
(* While the process lives. *)

\* Mutant: the shutdown is asked for without fx.ExitCode(1).
FailsWithZero(h) ==
  /\ phase \notin {"new", "exited"}
  /\ h \in Services \cup Servers
  /\ comp[h] = "up" \/ (h \in Services /\ comp[h] = "ending")
  /\ h = "reconcile" => ready
  /\ comp' = [comp EXCEPT ![h] = "gone"]
  /\ signal' = IF signal = "none" THEN "0" ELSE signal
  /\ socket' = IF h = "api" THEN "absent" ELSE socket
  /\ failed' = TRUE /\ disturbed' = TRUE
  /\ UNCHANGED <<config, built, started, ready, procVars, abandoned, interrupted, runs>>

\* Run returns an error, also when it was cancelled, or Serve does and closes its
\* listener: startServiceAfter and serveHTTP ask for a shutdown with exit code 1.
\* reconcile.Run cannot fail before it is ready, as the bus's Subscribe returns
\* no error.
Fails(h) ==
  /\ phase \notin {"new", "exited"}
  /\ h \in Services \cup Servers
  /\ comp[h] = "up" \/ (h \in Services /\ comp[h] = "ending")
  /\ h = "reconcile" => ready
  /\ comp' = [comp EXCEPT ![h] = "gone"]
  /\ signal' = IF signal = "none" THEN "1" ELSE signal
  /\ socket' = IF h = "api" THEN "absent" ELSE socket
  /\ failed' = TRUE /\ disturbed' = TRUE
  /\ UNCHANGED <<config, built, started, ready, procVars, abandoned, interrupted, runs>>

\* SIGINT or SIGTERM, once fx waits for it.
Interrupt == /\ phase = "running"
             /\ signal = "none"
             /\ signal' = "0"
             /\ interrupted' = TRUE
             /\ UNCHANGED <<config, built, hookVars, procVars, pathVars, failed,
                            disturbed, runs>>

\* The deadline of the start or of the stop passes.
Deadline == /\ phase \in {"starting", "stopping", "rollback"}
            /\ ~deadline
            /\ deadline' = TRUE
            /\ disturbed' = TRUE
            /\ UNCHANGED <<config, built, hookVars, phase, stopErr, exit, signal,
                           pathVars, failed, interrupted, runs>>

\* The process is killed.
Crash == /\ phase # "exited"
         /\ Exit("killed")
         /\ disturbed' = TRUE
         /\ UNCHANGED <<config, built, hookVars, signal, failed, interrupted, runs>>

\* The supervisor restarts a process that failed or was killed.
Restart == /\ phase = "exited" /\ exit # "0"
           /\ runs < MaxRuns
           /\ runs' = runs + 1
           /\ phase' = "new" /\ built' = 0 /\ started' = 0
           /\ deadline' = FALSE /\ stopErr' = FALSE
           /\ comp' = Off /\ ready' = FALSE
           /\ signal' = "none" /\ exit' = "none"
           /\ failed' = FALSE /\ interrupted' = FALSE /\ disturbed' = FALSE
           /\ UNCHANGED <<config, pathVars>>

--------------------------------------------------------------------------------
(* Stop hooks. *)

StopBegins == /\ phase = "running" /\ signal # "none"
              /\ phase' = "stopping"
              /\ deadline' = FALSE
              /\ UNCHANGED <<config, built, hookVars, stopErr, exit, signal, pathVars,
                             histVars, runs>>

\* The hook to stop next is h's.
Stopping(h) == /\ phase \in {"stopping", "rollback"} /\ ~deadline
               /\ started > 0 /\ Hooks[started] = h

\* Mutant: OnStop waits for done without cancelling.
CancelServiceNot(h) == FALSE

\* startServiceAfter's OnStop cancels the service's context.
CancelService(h) == /\ h \in Services /\ Stopping(h) /\ comp[h] = "up"
                    /\ comp' = [comp EXCEPT ![h] = "ending"]
                    /\ UNCHANGED <<config, built, started, ready, procVars, signal,
                                   pathVars, histVars, runs>>

\* Run returns, nil or the cancellation, and done is closed.
ServiceEnds(h) == /\ h \in Services /\ phase # "exited" /\ comp[h] = "ending"
                  /\ comp' = [comp EXCEPT ![h] = "gone"]
                  /\ UNCHANGED <<config, built, started, ready, procVars, signal,
                                 pathVars, histVars, runs>>

\* serveHTTP's OnStop: srv.Shutdown closes the listener, which removes the
\* socket, and waits for the handlers.
ShutdownServer(h) == /\ h \in Servers /\ Stopping(h) /\ comp[h] = "up"
                     /\ comp' = [comp EXCEPT ![h] = "ending"]
                     /\ socket' = IF h = "api" THEN "absent" ELSE socket
                     /\ UNCHANGED <<config, built, started, ready, procVars, signal,
                                    abandoned, histVars, runs>>

HandlersDone(h) == /\ h \in Servers /\ phase # "exited" /\ comp[h] = "ending"
                   /\ comp' = [comp EXCEPT ![h] = "gone"]
                   /\ UNCHANGED <<config, built, started, ready, procVars, signal,
                                  pathVars, histVars, runs>>

\* Mutant: OnStop cancels and does not wait for done.
OnStopReturnsAtOnce(h) == /\ h \in Services \cup Servers /\ Stopping(h)
                          /\ comp[h] # "up"
                          /\ started' = started - 1
                          /\ UNCHANGED <<config, built, comp, ready, procVars, signal,
                                         pathVars, histVars, runs>>

\* The OnStop of a service or a server returns: done is closed, handlers are.
OnStopReturns(h) == /\ h \in Services \cup Servers /\ Stopping(h)
                    /\ comp[h] = "gone"
                    /\ started' = started - 1
                    /\ UNCHANGED <<config, built, comp, ready, procVars, signal,
                                   pathVars, histVars, runs>>

\* The OnStop of a resource: pool.Close, Writer.Close, InProc.Close.  The writer's
\* may return an error, which does not keep the next hook from stopping.
CloseResource(h) ==
  /\ h \in Resources /\ Stopping(h)
  /\ comp' = [comp EXCEPT ![h] = "gone"]
  /\ started' = started - 1
  /\ stopErr' \in IF h = "questdb" THEN {stopErr, TRUE} ELSE {stopErr}
  /\ UNCHANGED <<config, built, ready, phase, deadline, exit, signal, pathVars,
                 histVars, runs>>

\* Every hook is stopped and the process exits, with 1 if a stop hook failed.
Stopped == /\ phase \in {"stopping", "rollback"} /\ started = 0
           /\ Exit(IF phase = "rollback" \/ stopErr THEN "1" ELSE signal)
           /\ UNCHANGED <<config, built, hookVars, signal, histVars, runs>>

\* fx gives up at the deadline, whether starting or stopping, and Run exits.
GiveUp == /\ deadline
          /\ \/ phase = "starting"
             \/ phase \in {"stopping", "rollback"} /\ started > 0
          /\ Exit("1")
          /\ UNCHANGED <<config, built, hookVars, signal, histVars, runs>>

Run == \/ Construct \/ Constructed
       \/ \E h \in Components :
            \/ StartResource(h) \/ StartServiceAfter(h)
            \/ CancelService(h) \/ ServiceEnds(h) \/ ShutdownServer(h)
            \/ HandlersDone(h) \/ OnStopReturns(h) \/ CloseResource(h)
       \/ StartTelemetryServer \/ ListenRefuses \/ ListenRemovesStale \/ ListenBinds
       \/ StartAPIServer \/ ReconcileReady \/ Started
       \/ StopBegins \/ Stopped \/ GiveUp

Disturb == \/ ConstructFails \/ StartFails \/ Deadline \/ Interrupt \/ Crash
           \/ \E h \in Components : Fails(h)
           \/ Restart

LifeNext == Run \/ Disturb

\* The process makes progress; nothing is asked of the disturbances, the deadline
\* among them.  That handlers are done in the end is asked: where a streaming
\* client that does not read holds one, the code's stop ends with the deadline.
LifeFairness == WF_lifeVars(Run)

LifeSpec == LifeInit /\ [][LifeNext]_lifeVars /\ LifeFairness

--------------------------------------------------------------------------------
(* Properties. *)

Running(h) == comp[h] \in {"up", "ending"}

\* Every variable has its type, and fx's count agrees with what the hooks did: a
\* component beyond it never runs.
LifeTypeOK == /\ config \in [trading : BOOLEAN, api : BOOLEAN,
                             path : {"absent", "file", "other"}]
              /\ phase \in {"new", "starting", "running", "stopping", "rollback", "exited"}
              /\ built \in 0 .. Len(Constructors)
              /\ started \in 0 .. Len(Hooks)
              /\ deadline \in BOOLEAN /\ stopErr \in BOOLEAN
              /\ comp \in [Components -> {"off", "up", "ending", "gone"}]
              /\ ready \in BOOLEAN
              /\ signal \in {"none", "0", "1"}
              /\ exit \in {"none", "0", "1", "killed"}
              /\ socket \in {"absent", "file", "other", "bound", "live", "stale"}
              /\ abandoned \in BOOLEAN
              /\ failed \in BOOLEAN /\ interrupted \in BOOLEAN /\ disturbed \in BOOLEAN
              /\ runs \in 1 .. MaxRuns

\* No service or server runs with a resource it uses closed: not while starting,
\* not in a rollback, not in a stop that runs out of time; and the count of
\* started hooks stays within the hooks there are (LifeTypeOK).
UsesOpenResources ==
  /\ LifeTypeOK
  /\ \A h \in Services \cup Servers : Running(h) => \A r \in Uses[h] : comp[r] = "up"

\* A process that leaves before its deadline has stopped everything it started,
\* and closed every resource, after a failed start too (the rollback is fx's).  A
\* process whose construction failed is left out: there fx stops nothing, and
\* what was opened goes with the process.
LeavesNothing ==
  (phase = "exited" /\ exit \in {"0", "1"} /\ ~deadline /\ built = Len(Constructors))
    => \A h \in Components : ~Running(h)

\* What the daemon leaves at the API's path (internal/api/listen.go), over any
\* crashes and restarts: a file or a served socket that was there before it stays
\* there, and a socket that nobody serves is there only because a process died or
\* ran out of time with its listener open.  Every orderly end, a failed chmod
\* after the bind and a stop in time among them, has taken the socket away.
SocketIsTidy ==
  /\ config.path # "absent" => socket = config.path
  /\ socket = "stale" => abandoned

\* Fail fast: a service or server that fails takes the process down, at whatever
\* moment of its life, and with an exit code that makes the supervisor restart it,
\* unless the operator had stopped the daemon already ("the process exits non-zero
\* so the supervisor (compose, systemd) restarts it", app.go:232).
FailFast == failed ~> (phase = "exited" /\ (exit = "0" => interrupted))

\* A daemon that finds nothing at the API's path, or what a killed one has left
\* there, comes to serve it unless something fails or time runs out: no start
\* hook waits for a later one (the order service for reconciliation's Ready), and
\* the socket of a dead process does not keep the next one from starting.
ServesUnlessDisturbed ==
  (phase = "new" /\ config.api /\ config.path = "absent")
    ~> (socket = "live" \/ disturbed)

\* A stop ends, and so does a start that fails: no hook waits for one that was
\* stopped before it.
StoppingEnds == phase \in {"stopping", "rollback"} ~> phase = "exited"
================================================================================
