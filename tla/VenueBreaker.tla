------------------------------ MODULE VenueBreaker ------------------------------
(***************************************************************************)
(* The resilience stack around one venue (internal/exchange): the circuit  *)
(* breaker outside, the rate limiter inside it, the adapter innermost      *)
(* (Decorate).  Snapshot, reconciliation and order services call through   *)
(* it concurrently; a call is admitted by the breaker, waits for a limiter *)
(* token, runs in the adapter and reports its result to the breaker.       *)
(*                                                                         *)
(* The breaker (gobreaker) and the limiter (x/time/rate) are libraries,    *)
(* modelled from how Decorate configures and the decorators use them.  A   *)
(* breaker's generation is the set of calls admitted since its last change *)
(* of state: the result of any other call is ignored.                      *)
(***************************************************************************)
EXTENDS Naturals

CONSTANTS
  Callers,     \* concurrent callers of one venue
  Threshold,   \* consecutive failures the breaker tolerates (its default is 5)
  Burst        \* limiter tokens (rate.burst of the venue's configuration)

ASSUME BreakerAssumption == Threshold \in Nat /\ Burst \in Nat \ {0}

VARIABLES
  trades,      \* does the adapter implement ports.OrderPlacer?
  call,        \* call[c]: what caller c is doing
  state,       \* the breaker's state, as of the last call that looked at it
  elapsed,     \* has an open circuit's Timeout passed?
  admitted,    \* calls of the breaker's current generation, still running
  probes,      \* requests counted in the half-open state
  failures,    \* ConsecutiveFailures
  tokens,      \* limiter tokens available
  last         \* history: what the last call that returned came back with

breaker == <<state, elapsed, admitted, probes, failures>>
vars == <<trades, call, breaker, tokens, last>>

\* What a call can come back with.  "down" is a venue error or a deadline,
\* "refused" a venue error GCT passes through, "local" a conversion that failed
\* before the venue was asked, "limiter" an errLimiterWait.
ReadResults == {"ok", "auth", "badaccount", "local", "down", "canceled"}
TradeResults == {"ok", "auth", "noid", "notfound", "local", "refused", "down",
                 "canceled"}

\* Mutant: not found counted as a venue failure.
IsBreakerSuccessStrict(r) ==
  r \in {"ok", "auth", "badaccount", "noid", "canceled", "limiter"}

\* isBreakerSuccess.  Its comment wants no configuration error to open the
\* circuit; "unsupported" and "local", in which the venue has no part, do count as
\* failures, as no case of the code excuses them.
IsBreakerSuccess(r) ==
  r \in {"ok", "auth", "badaccount", "notfound", "noid", "canceled", "limiter"}

\* "read" and "trade" wait for the limiter, "reading" and "trading" are in the
\* adapter.
Init == /\ trades \in BOOLEAN
        /\ call = [c \in Callers |-> "idle"]
        /\ state = "closed"
        /\ elapsed = FALSE
        /\ admitted = {}
        /\ probes = 0
        /\ failures = 0
        /\ tokens = Burst
        /\ last = "ok"

--------------------------------------------------------------------------------
(* The breaker (external). *)

\* setState: a new generation with cleared counts.
SetState(s) == /\ state' = s
               /\ elapsed' = FALSE
               /\ admitted' = {}
               /\ probes' = 0
               /\ failures' = 0

TimeoutElapses == /\ state = "open"
                  /\ ~elapsed
                  /\ elapsed' = TRUE
                  /\ UNCHANGED <<trades, call, state, admitted, probes, failures,
                                 tokens, last>>

\* beforeRequest.  An open circuit whose Timeout has passed is half-open, and a
\* half-open one admits a single request.  A call it turns away changes nothing.
Before(c) ==
  \/ /\ state = "closed"
     /\ admitted' = admitted \cup {c}
     /\ UNCHANGED <<state, elapsed, probes, failures>>
  \/ /\ \/ state = "half-open" /\ probes = 0
        \/ state = "open" /\ elapsed
     /\ state' = "half-open"
     /\ elapsed' = FALSE
     /\ admitted' = {c}
     /\ probes' = 1
     /\ failures' = 0

\* afterRequest, for the result of call c.  It looks at the state first, so even
\* an outdated result, which it ignores, turns a circuit whose Timeout has passed
\* half-open.
After(c, success) ==
  \/ /\ c \notin admitted
     /\ IF state = "open" /\ elapsed THEN SetState("half-open") ELSE UNCHANGED breaker
  \/ /\ c \in admitted
     /\ state = "closed"
     /\ IF ~success /\ failures + 1 > Threshold
        THEN SetState("open")
        ELSE /\ failures' = IF success THEN 0 ELSE failures + 1
             /\ admitted' = admitted \ {c}
             /\ UNCHANGED <<state, elapsed, probes>>
  \/ /\ c \in admitted
     /\ state = "half-open"
     /\ SetState(IF success THEN "closed" ELSE "open")

--------------------------------------------------------------------------------
(* The decorators and the adapter. *)

\* The decorated call returns r to its caller.
Return(c, r) ==
  /\ call' = [call EXCEPT ![c] = "idle"]
  /\ After(c, IsBreakerSuccess(r))
  /\ last' = r
  /\ UNCHANGED trades

\* Mutant: the limiter outside the breaker: a call takes its token, then is rejected.
ReadLimitedFirst(c) ==
  \/ /\ call[c] = "idle"
     /\ Before(c)
     /\ call' = [call EXCEPT ![c] = "read"]
     /\ UNCHANGED <<trades, tokens, last>>
  \/ /\ call[c] = "idle"
     /\ state = "open" /\ ~elapsed
     /\ tokens > 0
     /\ tokens' = tokens - 1
     /\ UNCHANGED <<trades, call, breaker, last>>

\* broken.Ticker, Instruments, Balances: the breaker's Execute first.
Read(c) == /\ call[c] = "idle"
           /\ Before(c)
           /\ call' = [call EXCEPT ![c] = "read"]
           /\ UNCHANGED <<trades, tokens, last>>

\* broken.PlaceOrder, CancelOrder, OpenOrders, GetOrder.  What it wraps is a
\* rateLimited, which has these methods whatever the adapter can do.
Trade(c) == /\ call[c] = "idle"
            /\ Before(c)
            /\ call' = [call EXCEPT ![c] = "trade"]
            /\ UNCHANGED <<trades, tokens, last>>

\* rateLimited's trading methods on an adapter that cannot trade.
TradingUnsupported(c) == /\ call[c] = "trade"
                         /\ ~trades
                         /\ Return(c, "unsupported")
                         /\ UNCHANGED tokens

\* rateLimited.Ticker, Instruments, Balances: lim.Wait grants a token.
WaitRead(c) == /\ call[c] = "read"
               /\ tokens > 0
               /\ tokens' = tokens - 1
               /\ call' = [call EXCEPT ![c] = "reading"]
               /\ UNCHANGED <<trades, breaker, last>>

\* rateLimited.PlaceOrder, CancelOrder, OpenOrders, GetOrder: the same, after
\* the check for ports.OrderPlacer.
WaitTrade(c) == /\ call[c] = "trade"
                /\ trades
                /\ tokens > 0
                /\ tokens' = tokens - 1
                /\ call' = [call EXCEPT ![c] = "trading"]
                /\ UNCHANGED <<trades, breaker, last>>

\* lim.Wait fails: the context ended, or its deadline is too near for a token.
WaitFails(c) == /\ \/ call[c] = "read"
                   \/ call[c] = "trade" /\ trades
                /\ Return(c, "limiter")
                /\ UNCHANGED tokens

\* The adapter's read methods return.
AdapterReads(c) == /\ call[c] = "reading"
                   /\ \E r \in ReadResults : Return(c, r)
                   /\ UNCHANGED tokens

\* The adapter's order methods return.
AdapterTrades(c) == /\ call[c] = "trading"
                    /\ \E r \in TradeResults : Return(c, r)
                    /\ UNCHANGED tokens

Refill == /\ tokens < Burst
          /\ tokens' = tokens + 1
          /\ UNCHANGED <<trades, call, breaker, last>>

Next == \/ \E c \in Callers :
             \/ Read(c) \/ Trade(c)
             \/ TradingUnsupported(c) \/ WaitRead(c) \/ WaitTrade(c) \/ WaitFails(c)
             \/ AdapterReads(c) \/ AdapterTrades(c)
        \/ TimeoutElapses
        \/ Refill

\* Services keep calling (their tickers), the limiter refills with time, and
\* every call ends: its context, or the venue client, has a deadline.
Fairness == /\ \A c \in Callers : /\ WF_vars(Read(c) \/ Trade(c))
                                  /\ WF_vars(\/ WaitRead(c) \/ WaitTrade(c)
                                             \/ WaitFails(c) \/ TradingUnsupported(c))
                                  /\ WF_vars(AdapterReads(c) \/ AdapterTrades(c))
            /\ WF_vars(TimeoutElapses)
            /\ WF_vars(Refill)

Spec == Init /\ [][Next]_vars /\ Fairness

--------------------------------------------------------------------------------
(* Properties. *)

\* Every variable has its type; the counts stay within what the breaker's
\* settings allow.
TypeOK == /\ trades \in BOOLEAN
          /\ call \in [Callers -> {"idle", "read", "trade", "reading", "trading"}]
          /\ state \in {"closed", "open", "half-open"}
          /\ elapsed \in BOOLEAN
          /\ admitted \subseteq Callers
          /\ probes \in 0 .. 1
          /\ failures \in 0 .. Threshold
          /\ tokens \in 0 .. Burst
          /\ last \in ReadResults \cup TradeResults \cup {"limiter", "unsupported"}

Running == {c \in Callers : call[c] # "idle"}

\* A half-open circuit that turns calls away (its one request is counted) is
\* waiting for exactly one running probe, whose result will decide it; an open
\* one waits for nobody, whatever calls admitted earlier are still in the limiter
\* or at the venue.  If a probe could end without its result being counted, the
\* venue would be cut off for ever.
ProbeUnderWay ==
  /\ admitted \subseteq Running
  /\ state = "half-open" => IF probes = 0 THEN admitted = {}
                            ELSE \E c \in Running : admitted = {c}
  /\ state = "open" => admitted = {}

\* An open circuit is quiet (Decorate: it rejects "without burning limiter
\* tokens"): no call starts while it is open, so only calls admitted before it
\* opened can still take a token, and late results of those leave it open.
OpenIsQuiet ==
  [][(state = "open" /\ ~elapsed) =>
       /\ \A c \in Callers : call[c] = "idle" => call'[c] = "idle"
       /\ tokens' < tokens => \E c \in Running : call'[c] \in {"reading", "trading"}
       /\ state' = "open"]_vars

\* Once calls stop failing the circuit closes and stays closed: no interleaving
\* of late results, probes and throttled calls, and no answer "not found", keeps
\* the venue cut off.
Recovers ==
  <>[](last \notin {"local", "refused", "down", "unsupported"})
    => <>[](state = "closed")
================================================================================
