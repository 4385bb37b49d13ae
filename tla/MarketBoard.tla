---------------------------- MODULE MarketBoard ----------------------------
(***************************************************************************)
(* The quotes of the futures board, the watch lists and the held options'  *)
(* greeks: src/services/market_data.py (three jobs that append to a        *)
(* ts_* table and upsert a latest_* row), option_metrics_sync_tws.py and   *)
(* api/routers/watch_lists.py, with the board's two reads of               *)
(* api/routers/futures.py.                                                 *)
(*                                                                         *)
(* Several jobs workers run these jobs at once.  A job picks its contracts *)
(* in one transaction, fetches tickers without one, reads the clock and    *)
(* commits; nothing orders the commits of two jobs as their clocks were    *)
(* read.  A quote is its row's market_ts, a greek the time it was fetched  *)
(* at; a contract's type says which of latest_futures and                  *)
(* latest_futures_options holds its row.                                   *)
(***************************************************************************)
EXTENDS Integers, FiniteSets, FiniteSetsExt

CONSTANTS
  Workers,  \* jobs workers
  Futures,  \* futures in the contracts table
  Options,  \* futures options in it
  Fields,   \* greeks of a ticker
  Lists,    \* watch lists
  MaxClock  \* bound on the clock

Contracts == Futures \cup Options

VARIABLES
  clock,   \* time, moved by whoever reads it
  lists,   \* watch lists that exist, with their contracts
  queue,   \* queued snapshot jobs: the contracts and the time of the request
  runs,    \* what each worker is doing
  ts,      \* ts_futures and ts_futures_options
  latest,  \* latest_futures and latest_futures_options, 0 for no row
  greeks,  \* latest_option_metrics: when each stored greek was fetched, or 0
  stamp,   \* its market_ts, or 0
  shown    \* the refreshes that were answered, with their request's time
boardVars == <<clock, lists, queue, runs, ts, latest, greeks, stamp, shown>>

NewRun(kind, phase, cons) ==
  [kind |-> kind, phase |-> phase, asks |-> cons, asked |-> 0, got |-> {}, v |-> 0, at |-> 0]
Free == NewRun("free", "free", {})

BoardInit ==
  /\ clock = 1 /\ lists = [l \in {} |-> {}] /\ queue = {}
  /\ runs = [w \in Workers |-> Free] /\ ts = {} /\ shown = {}
  /\ latest = [c \in Contracts |-> 0]
  /\ greeks = [o \in Options |-> [f \in Fields |-> 0]] /\ stamp = [o \in Options |-> 0]

UnchangedRows == UNCHANGED <<ts, latest, greeks, stamp, shown>>
-----------------------------------------------------------------------------
\* create_watch_list and delete_watch_list (its instruments go with it).
CreateList(l) ==
  /\ l \notin DOMAIN lists
  /\ lists' = [m \in DOMAIN lists \cup {l} |-> IF m = l THEN {} ELSE lists[m]]
  /\ UNCHANGED <<clock, queue, runs>> /\ UnchangedRows

DeleteList(l) ==
  /\ l \in DOMAIN lists
  /\ lists' = [m \in DOMAIN lists \ {l} |-> lists[m]]
  /\ UNCHANGED <<clock, queue, runs>> /\ UnchangedRows

\* add_instrument and remove_instrument: the table's unique constraint makes a
\* second insertion an error and no second row.
ToggleInstrument(l, c) ==
  /\ l \in DOMAIN lists
  /\ lists' = [lists EXCEPT ![l] = IF c \in @ THEN @ \ {c} ELSE @ \cup {c}]
  /\ UNCHANGED <<clock, queue, runs>> /\ UnchangedRows

\* enqueue_watch_list_quotes_refresh; one request at a time waits here.
AskRefresh(l) ==
  /\ l \in DOMAIN lists /\ lists[l] # {} /\ queue = {} /\ clock < MaxClock
  /\ clock' = clock + 1
  /\ queue' = queue \cup {[cons |-> lists[l], asked |-> clock + 1]}
  /\ UNCHANGED <<lists, runs>> /\ UnchangedRows
-----------------------------------------------------------------------------
\* fetch_futures_prices and fetch_futures_options (of one type those that are
\* active and that the filters let by: any), fetch_snapshot (what was asked for).
BeginQuotes(w) ==
  /\ runs[w] = Free
  /\ \/ /\ \E S \in ((SUBSET Futures) \cup (SUBSET Options)) \ {{}} :
             runs' = [runs EXCEPT ![w] = NewRun("board", "fetch", S)]
        /\ UNCHANGED queue
     \/ \E j \in queue :
          /\ runs' = [runs EXCEPT ![w] = [NewRun("snapshot", "fetch", j.cons) EXCEPT !.asked = j.asked]]
          /\ queue' = queue \ {j}
  /\ UNCHANGED <<clock, lists>> /\ UnchangedRows

\* _fetch_tickers brings some of the tickers; then now = _now_utc().
QuotesFetched(w) ==
  /\ runs[w].phase = "fetch" /\ runs[w].kind # "metrics" /\ clock < MaxClock
  /\ clock' = clock + 1
  /\ \E S \in SUBSET runs[w].asks :
       runs' = [runs EXCEPT ![w].phase = "got", ![w].got = S, ![w].at = clock + 1]
  /\ UNCHANGED <<lists, queue>> /\ UnchangedRows

\* Mutants of Upsert: the guard is forgotten; a row there is kept.
UpsertAlways(old, at) == at

\* The upsert into latest_*: ON CONFLICT DO UPDATE WHERE market_ts <= the new one.
Upsert(old, at) == IF old <= at THEN at ELSE old

\* _write_future_row, _write_option_row, and the commit of the job.
CommitQuotes(w) ==
  /\ runs[w].phase = "got" /\ runs[w].kind # "metrics"
  /\ LET r == runs[w]
     IN /\ ts' = ts \cup (r.got \X {r.at})
        /\ latest' = [c \in Contracts |-> IF c \in r.got THEN Upsert(latest[c], r.at) ELSE latest[c]]
        /\ shown' = IF r.kind = "snapshot" THEN shown \cup (r.got \X {r.asked}) ELSE shown
  /\ runs' = [runs EXCEPT ![w] = Free]
  /\ UNCHANGED <<clock, lists, queue, greeks, stamp>>
-----------------------------------------------------------------------------
\* run_option_metrics_sync: the clock is read before the fetch.
BeginMetrics(w) ==
  /\ runs[w] = Free /\ clock < MaxClock
  /\ clock' = clock + 1
  /\ runs' = [runs EXCEPT ![w] = [NewRun("metrics", "fetch", Options) EXCEPT !.at = clock + 1]]
  /\ UNCHANGED <<lists, queue>> /\ UnchangedRows

\* _extract_greeks: of each option the fields that are numbers.
MetricsFetched(w) ==
  /\ runs[w].phase = "fetch" /\ runs[w].kind = "metrics"
  /\ \E S \in SUBSET (Options \X Fields) :
       runs' = [runs EXCEPT ![w].phase = "got", ![w].got = S, ![w].v = clock]
  /\ UNCHANGED <<clock, lists, queue>> /\ UnchangedRows

\* Mutant of Written: the row is replaced by what the run got.
WrittenWhole(old, arrived, v) == [f \in Fields |-> IF f \in arrived THEN v ELSE 0]

\* _write_option_metrics: a field that did not arrive is not in the statement.
Written(old, arrived, v) == [f \in Fields |-> IF f \in arrived THEN v ELSE old[f]]

\* _write_option_metrics and the commit: an option with no greek is skipped.
CommitMetrics(w) ==
  /\ runs[w].phase = "got" /\ runs[w].kind = "metrics"
  /\ LET r == runs[w]
         arrived(o) == {f \in Fields : <<o, f>> \in r.got}
     IN /\ greeks' = [o \in Options |-> IF arrived(o) = {} THEN greeks[o]
                                        ELSE Written(greeks[o], arrived(o), r.v)]
        /\ stamp' = [o \in Options |-> IF arrived(o) = {} THEN stamp[o] ELSE r.at]
  /\ runs' = [runs EXCEPT ![w] = Free]
  /\ UNCHANGED <<clock, lists, queue, ts, latest, shown>>

\* A fetch that raises fails the job; nothing was written.
FetchFails(w) ==
  /\ runs[w].phase = "fetch"
  /\ runs' = [runs EXCEPT ![w] = Free]
  /\ UNCHANGED <<clock, lists, queue>> /\ UnchangedRows

BoardNext ==
  \/ \E l \in Lists : CreateList(l) \/ DeleteList(l) \/ AskRefresh(l)
  \/ \E l \in Lists, c \in Contracts : ToggleInstrument(l, c)
  \/ \E w \in Workers : BeginQuotes(w) \/ QuotesFetched(w) \/ CommitQuotes(w)
  \/ \E w \in Workers : BeginMetrics(w) \/ MetricsFetched(w) \/ CommitMetrics(w) \/ FetchFails(w)

BoardSpec == BoardInit /\ [][BoardNext]_boardVars
-----------------------------------------------------------------------------
\* get_term_structure without as_of: the latest row of each future.
BoardNow == [c \in Futures |-> latest[c]]

\* get_term_structure with as_of: of the history up to then the newest row.
BoardAsOf(t) == [c \in Futures |-> Max({0} \cup {at \in 1 .. t : <<c, at>> \in ts})]

\* The board shown now and the board as of now are the same board, whatever
\* order the jobs of several workers committed in (the guarded upsert into
\* latest_futures against the history in ts_futures, get_term_structure).
BoardsAgree == BoardNow = BoardAsOf(clock)

\* A watch list whose refresh brought a contract's ticker shows a quote stamped
\* after the request from then on; an older job that commits late does not put
\* an older one back (enqueue_watch_list_quotes_refresh, fetch_snapshot).
RefreshLands == \A s \in shown : latest[s[1]] > s[2]

\* Neither page falls behind the other or behind a refresh.
BoardsRight == BoardsAgree /\ RefreshLands

\* A greek once stored is never erased by a run that did not receive it
\* (_write_option_metrics).
GreeksKept ==
  [][\A o \in Options, f \in Fields : greeks[o][f] # 0 => greeks'[o][f] # 0]_boardVars
=============================================================================
