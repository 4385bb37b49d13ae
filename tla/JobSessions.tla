---------------------------- MODULE JobSessions ----------------------------
(***************************************************************************)
(* The TWS sessions of the jobs worker (src/workers/jobs.py): every broker *)
(* handler checks its payload, resolves host, port and client id, takes    *)
(* the session of that key from IBSessionPool and calls its service with   *)
(* it; the worker's loop closes what is idle (scripts/work_jobs.py).       *)
(*                                                                         *)
(* TWS is external: it accepts one connection for a client id, refuses a   *)
(* second, and may drop one at any time.  What the services write is the   *)
(* other modules'; here a call succeeds or fails.                          *)
(***************************************************************************)
EXTENDS Integers, FiniteSets, Functions

CONSTANTS
  DueTypes,     \* job types the queue holds, of the handled ones
  Payloads,     \* payloads: the fields present, and what is wrong with them
  IdleLimit,    \* --ib-idle-seconds, in ticks; 0 keeps every session
  MaxClock      \* bound: the clock

ASSUME SessionAssumption == IdleLimit \in Nat /\ MaxClock \in Nat

VARIABLES
  pool,      \* entries of IBSessionPool by client id: when last used
  up,        \* client ids whose pooled connection is up
  tws,       \* client ids TWS has a connection for
  busy,      \* the job whose handler runs, or NoJob
  loop,      \* the worker: in a queue pass, between passes, stopped
  ticks

sessionVars == <<pool, up, tws, busy, loop, ticks>>

NoJob == [client |-> -1, sec |-> "none"]
Handler(client, needs) == [client |-> client, needs |-> needs]

\* The broker handlers: the client id each connects with when the payload names
\* none, and the fields it refuses to run without.
HandleContractsSync == Handler(32, {})
HandleAddInstrument == Handler(34, {"watch_list_id", "symbol", "sec_type", "exchange"})
HandleQuotesRefresh == Handler(141, {"watch_list_id"})
HandleOrderFetchSync == Handler(0, {})
HandleChainSync == Handler(32, {})
HandleFuturesPrices == Handler(35, {})
HandleFuturesOptions == Handler(36, {})
HandleSnapshot == Handler(37, {})
HandleQualifyAndSnapshot ==
  Handler(38, {"symbol", "exchange", "expiration", "strike", "right"})
HandleSyncActivated == Handler(39, {})
HandleIntradaySync == Handler(40, {})
HandleOptionMetrics == Handler(41, {})

\* get_handler, without the FlexQuery handlers, which use no session.
GetHandler(t) ==
  CASE t = "contracts.sync" -> HandleContractsSync
    [] t = "contracts.chain_sync" -> HandleChainSync
    [] t = "watchlist.add_instrument" -> HandleAddInstrument
    [] t = "watchlist.quotes_refresh" -> HandleQuotesRefresh
    [] t = "order.fetch_sync" -> HandleOrderFetchSync
    [] t = "market_data.futures_prices" -> HandleFuturesPrices
    [] t = "market_data.futures_options" -> HandleFuturesOptions
    [] t = "market_data.snapshot" -> HandleSnapshot
    [] t = "contracts.qualify_and_snapshot" -> HandleQualifyAndSnapshot
    [] t = "contracts.sync_activated" -> HandleSyncActivated
    [] t = "intraday.sync.tws" -> HandleIntradaySync
    [] t = "option_metrics.sync.tws" -> HandleOptionMetrics

\* resolve_tws_connection and _resolve_quotes_connection: the payload's client id
\* (99 stands for it) before the handler's own.
ClientOf(t, p) == IF "client_id" \in p THEN 99 ELSE GetHandler(t).client

SessionInit ==
  /\ pool = <<>> /\ up = {} /\ tws = {}
  /\ busy = NoJob /\ loop = "pass" /\ ticks = 0

\* A payload the handler refuses fails the job before any call; contract specs
\* and con_ids may be left out, but each spec needs its exchange and con_ids
\* is a list.
Accepts(t, p) ==
  /\ GetHandler(t).needs \subseteq p
  /\ t = "contracts.sync" => "spec without exchange" \notin p
  /\ t = "market_data.snapshot" => "con_ids no list" \notin p

\* IBSessionPool.get with a connection that is up.
Reuse(t, p) ==
  LET k == ClientOf(t, p)
  IN /\ loop = "pass" /\ busy = NoJob /\ Accepts(t, p)
     /\ k \in DOMAIN pool \cap up
     /\ pool' = [pool EXCEPT ![k] = ticks]
     /\ busy' = [client |-> k, sec |-> t]
     /\ UNCHANGED <<up, tws, loop, ticks>>

\* ... and without: what is left of a broken one is forgotten and a new one is
\* opened, or TWS does not answer and the job fails.
Connect(t, p, answers) ==
  LET k == ClientOf(t, p)
      others == Restrict(pool, DOMAIN pool \ {k})
  IN /\ loop = "pass" /\ busy = NoJob /\ Accepts(t, p)
     /\ k \notin DOMAIN pool \cap up
     /\ answers => k \notin tws
     /\ IF answers
        THEN /\ pool' = [j \in DOMAIN pool \cup {k} |-> IF j = k THEN ticks ELSE pool[j]]
             /\ up' = up \cup {k} /\ tws' = tws \cup {k}
             /\ busy' = [client |-> k, sec |-> t]
        ELSE pool' = others /\ UNCHANGED <<up, tws, busy>>
     /\ UNCHANGED <<loop, ticks>>

\* The handler returns or raises; the session stays in the pool either way.
HandlerEnds ==
  /\ busy # NoJob /\ busy' = NoJob
  /\ UNCHANGED <<pool, up, tws, loop, ticks>>

\* TWS drops a connection.
TwsDrops(k) ==
  /\ k \in tws /\ tws' = tws \ {k} /\ up' = up \ {k}
  /\ UNCHANGED <<pool, busy, loop, ticks>>

\* close_idle: stale or broken entries.
Expired ==
  IF IdleLimit = 0 THEN {}
  ELSE {k \in DOMAIN pool : ticks - pool[k] >= IdleLimit \/ k \notin up}

\* Mutant of Close: the entries are forgotten, the connections left open.
CloseForget(ks) ==
  /\ pool' = Restrict(pool, DOMAIN pool \ ks)
  /\ UNCHANGED <<up, tws>>

\* Disconnect, then forget.
Close(ks) ==
  /\ pool' = Restrict(pool, DOMAIN pool \ ks)
  /\ up' = up \ ks /\ tws' = tws \ ks

\* The queue is empty: the pass ends and the idle sessions are closed.
EndPass ==
  /\ loop = "pass" /\ busy = NoJob
  /\ Close(Expired)
  /\ UNCHANGED <<busy, loop, ticks>>

\* The worker is stopped, also in a handler, and closes every session.
Stop ==
  /\ loop = "pass" /\ loop' = "stopped"
  /\ Close(DOMAIN pool) /\ busy' = NoJob
  /\ UNCHANGED ticks
SessionStart ==
  /\ loop = "stopped" /\ loop' = "pass"
  /\ UNCHANGED <<pool, up, tws, busy, ticks>>
SessionTick ==
  /\ ticks < MaxClock /\ ticks' = ticks + 1
  /\ UNCHANGED <<pool, up, tws, busy, loop>>

SessionNext ==
  \/ \E t \in DueTypes, p \in Payloads :
       \/ Reuse(t, p)
       \/ \E answers \in BOOLEAN : Connect(t, p, answers)
  \/ HandlerEnds \/ EndPass \/ Stop \/ SessionStart \/ SessionTick
  \/ \E k \in tws : TwsDrops(k)

SessionSpec == SessionInit /\ [][SessionNext]_sessionVars
-----------------------------------------------------------------------------
\* TWS has no connection the pool has lost sight of: its client id would be
\* refused to every later job of the type until TWS is restarted.
NoSessionLeaks == tws \subseteq DOMAIN pool /\ (loop = "stopped" => tws = {})
=============================================================================
