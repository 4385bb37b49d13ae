----------------------------- MODULE OrderQueue -----------------------------
(***************************************************************************)
(* The orders table and its three writers: the API's cancel endpoint, the  *)
(* orders worker (startup reconciliation, then claim and process), and the *)
(* order.fetch_sync job that copies the broker's orders onto the table.    *)
(*                                                                         *)
(*   src/services/order_queue.py      statuses, transition table           *)
(*   src/services/order_mutations.py  creation                             *)
(*   src/services/order_worker.py     reconciliation and processing        *)
(*   scripts/work_order_queue.py      the worker's loop                    *)
(*   src/services/order_sync_tws.py   broker sync                          *)
(*   src/api/routers/orders.py        cancel                               *)
(*                                                                         *)
(* Each writer reads rows in one step and commits in a later one; only the *)
(* worker's claim holds row locks meanwhile.  process_order raises before  *)
(* placeOrder, so a claimed order always fails.  The broker is external:   *)
(* orders are entered in TWS by hand or, for Legacy ones, were placed      *)
(* before submission was disabled.                                         *)
(***************************************************************************)
EXTENDS Naturals, FiniteSets

CONSTANTS
  Orders,     \* orders known to the table or to the broker
  Legacy,     \* placed by an earlier release: their orderRef names the row
  Manual,     \* entered in TWS by hand: no orderRef of ours
  Cancellers, \* API requests that cancel an order
  Workers,    \* processes running work_order_queue.py
  Syncers,    \* jobs-worker processes running order.fetch_sync
  MaxStarts   \* bound: times each worker process is started

ASSUME OrdersAssumption ==
  /\ Legacy \subseteq Orders
  /\ Manual \subseteq Orders \ Legacy
  /\ MaxStarts \in Nat

Terminal == {"filled", "cancelled", "rejected", "failed"}
Statuses == {"queued", "submitting", "submitted", "partially_filled",
             "reconcile_required"} \cup Terminal

\* ALLOWED_ORDER_STATUS_TRANSITIONS
Allowed ==
  [s \in Statuses |->
     CASE s = "queued"     -> {"submitting", "cancelled", "failed"}
       [] s = "submitting" -> {"submitted", "partially_filled", "rejected",
                               "failed", "reconcile_required"}
       [] s = "submitted"  -> {"partially_filled", "filled", "cancelled",
                               "rejected", "failed", "reconcile_required"}
       [] s = "partially_filled" ->
            {"partially_filled", "filled", "cancelled", "reconcile_required",
             "failed"}
       [] s = "reconcile_required" ->
            {"submitting", "submitted", "partially_filled", "filled",
             "cancelled", "rejected", "failed"}
       [] s \in Terminal -> {}]

can_transition(from, to) == to \in Allowed[from]

\* A broker order: its IB status, and whether it counts as partly filled.
\* Working stands for submitted, presubmitted and pendingsubmit, and, as not
\* partly filled, for pendingcancel; unset for an empty status.
IBStatuses == {"unset", "working", "inactive", "filled", "cancelled"}
Trades == [ib : IBStatuses, filled : BOOLEAN]
NoTrade == [ib |-> "none", filled |-> FALSE]
Unfilled(ib) == [ib |-> ib, filled |-> FALSE]
FirstListed == {Unfilled("unset"), Unfilled("working")}
Working == {[ib |-> "working", filled |-> b] : b \in BOOLEAN}
Ends == {Unfilled("filled"), Unfilled("cancelled")}

\* normalize_ib_status: only a working order counts as partially filled, and
\* an inactive one, which may work again, counts as cancelled.  An empty
\* status counts as queued: the row becomes the orders worker's to process.
normalize(t) ==
  CASE t.ib = "filled" -> "filled"
    [] t.ib \in {"cancelled", "inactive"} -> "cancelled"
    [] t.ib = "working" /\ t.filled -> "partially_filled"
    [] t.ib = "unset" -> "queued"
    [] OTHER -> "submitted"

\* What ib.openTrades() lists: every order not yet filled or cancelled.
Open(t) == t.ib \in {"unset", "working", "inactive"}

VARIABLES
  status,     \* orders.status, "absent" before the row exists
  submitted,  \* ids whose submitted_at is set
  completed,  \* ids whose completed_at is set
  event,      \* event_type of the newest order_events row of a status change
  claims,     \* history: times processed since a writer last queued the row
  broker,     \* the order at the broker, NoTrade when it reports none
  cancelling, \* the order each cancel request has read as queued
  wpc,        \* what each worker is doing
  batch,      \* ids the worker selected and has not tried yet
  locked,     \* rows its open transaction has claimed and processed
  view,       \* what its reconciliation read
  spc,        \* what each sync is doing
  fetched,    \* the broker's orders as the sync fetched them
  loaded,     \* the rows as the sync's session loaded them
  starts      \* for the bound: starts of each worker

table == <<status, submitted, completed, event, claims>>
worker == <<wpc, batch, locked, view, starts>>
sync == <<spc, fetched, loaded>>
vars == <<table, broker, cancelling, worker, sync>>

None == [o \in Orders |-> "none"]
NoTrades == [o \in Orders |-> NoTrade]
NoView == [rows |-> None, trades |-> NoTrades]

Init ==
  /\ status = [o \in Orders |-> IF o \in Legacy THEN "submitted" ELSE "absent"]
  /\ submitted = Legacy
  /\ completed = {}
  /\ event = [o \in Orders |-> IF o \in Legacy THEN "order_submitted" ELSE "none"]
  /\ claims = [o \in Orders |-> 0]
  /\ broker \in [Orders -> FirstListed \cup {NoTrade}]
  /\ \A o \in Orders : broker[o] = NoTrade <=> o \notin Legacy
  /\ cancelling = [c \in Cancellers |-> "none"]
  /\ wpc = [w \in Workers |-> "down"]
  /\ batch = [w \in Workers |-> {}]
  /\ locked = [w \in Workers |-> {}]
  /\ view = [w \in Workers |-> NoView]
  /\ spc = [s \in Syncers |-> "idle"]
  /\ fetched = [s \in Syncers |-> NoTrades]
  /\ loaded = [s \in Syncers |-> None]
  /\ starts = [w \in Workers |-> 0]

LockedRows == UNION {locked[w] : w \in Workers}

-----------------------------------------------------------------------------
(* Creating and cancelling. *)

\* create_queued_order: a row in status queued, event order_created.
CreateQueued(o) ==
  /\ o \notin Manual
  /\ status[o] = "absent"
  /\ status' = [status EXCEPT ![o] = "queued"]
  /\ event' = [event EXCEPT ![o] = "order_created"]
  /\ UNCHANGED <<submitted, completed, claims, broker, cancelling, worker, sync>>

\* cancel_order, its SELECT: anything but a queued order is refused or
\* returned as it is.
CancelRead(c, o) ==
  /\ cancelling[c] = "none"
  /\ status[o] = "queued"
  /\ cancelling' = [cancelling EXCEPT ![c] = o]
  /\ UNCHANGED <<table, broker, worker, sync>>

\* ... and transition_order_status with its commit.  The UPDATE names the row
\* by id alone and waits for the row lock.
CancelWrite(c) ==
  LET o == cancelling[c] IN
  /\ o # "none"
  /\ o \notin LockedRows
  /\ status' = [status EXCEPT ![o] = "cancelled"]
  /\ completed' = completed \cup {o}
  /\ event' = [event EXCEPT ![o] = "order_cancelled"]
  /\ cancelling' = [cancelling EXCEPT ![c] = "none"]
  /\ UNCHANGED <<submitted, claims, broker, worker, sync>>

-----------------------------------------------------------------------------
(* The orders worker. *)

\* The process connects to TWS.
Start(w) ==
  /\ wpc[w] = "down"
  /\ starts[w] < MaxStarts
  /\ starts' = [starts EXCEPT ![w] = @ + 1]
  /\ wpc' = [wpc EXCEPT ![w] = "connected"]
  /\ UNCHANGED <<table, broker, cancelling, batch, locked, view, sync>>

\* reconcile_open_orders reads the open trades that carry our orderRef and
\* every row that is not terminal.
ReconcileRead(w) ==
  /\ wpc[w] = "connected"
  /\ view' = [view EXCEPT ![w] =
       [rows |-> [o \in Orders |->
                    IF status[o] \in Statuses \ Terminal THEN status[o]
                                                         ELSE "none"],
        trades |-> [o \in Orders |->
                    IF o \in Legacy /\ Open(broker[o]) THEN broker[o]
                                                       ELSE NoTrade]]]
  /\ wpc' = [wpc EXCEPT ![w] = "reconciling"]
  /\ UNCHANGED <<table, broker, cancelling, batch, locked, starts, sync>>

ReconcileEligible == {"submitting", "submitted", "partially_filled",
                      "reconcile_required"}

\* Mutant of Reconciled: an order the broker does not list stays as it is.
ReconciledListedOnly(seen, trade) ==
  IF trade # NoTrade THEN normalize(trade) ELSE seen

\* The status reconciliation gives an order it read as "seen": the broker's
\* if it has the order open, else reconcile_required where that is eligible.
Reconciled(seen, trade) ==
  IF trade # NoTrade THEN normalize(trade)
  ELSE IF seen \in ReconcileEligible THEN "reconcile_required" ELSE seen

\* transition_order_status(force=True): a move the table does not allow is
\* recorded under its own event type.
MoveEvent(from, to, usual) ==
  IF can_transition(from, to) THEN usual ELSE "forced_status_change"

\* The rows a writer puts (back) in the queue have not been processed since.
Requeued(rows) == [o \in Orders |-> IF o \in rows THEN 0 ELSE claims[o]]

\* It writes the changed rows and commits.
ReconcileWrite(w) ==
  LET seen == view[w].rows
      to == [o \in Orders |-> IF seen[o] = "none" THEN "none"
                              ELSE Reconciled(seen[o], view[w].trades[o])]
      moved == {o \in Orders : to[o] # seen[o]}
  IN
  /\ wpc[w] = "reconciling"
  /\ moved \cap LockedRows = {}
  /\ status' = [o \in Orders |-> IF o \in moved THEN to[o] ELSE status[o]]
  /\ submitted' = submitted \cup {o \in moved : to[o] = "submitted"}
  /\ completed' = completed \cup {o \in moved : to[o] \in Terminal}
  /\ event' = [o \in Orders |->
                 IF o \notin moved THEN event[o]
                 ELSE MoveEvent(seen[o], to[o],
                        IF view[w].trades[o] = NoTrade
                          THEN "order_reconcile_required"
                          ELSE "order_reconciled")]
  /\ claims' = Requeued({o \in moved : to[o] = "queued"})
  /\ view' = [view EXCEPT ![w] = NoView]
  /\ wpc' = [wpc EXCEPT ![w] = "polling"]
  /\ UNCHANGED <<broker, cancelling, batch, locked, starts, sync>>

\* A polling pass opens a transaction and selects the queued ids.
SelectBatch(w) ==
  /\ wpc[w] = "polling"
  /\ \E o \in Orders : status[o] = "queued"
  /\ batch' = [batch EXCEPT ![w] = {o \in Orders : status[o] = "queued"}]
  /\ wpc' = [wpc EXCEPT ![w] = "claiming"]
  /\ UNCHANGED <<table, broker, cancelling, locked, view, starts, sync>>

\* Mutant of ClaimGuard: the UPDATE names the id only.
ClaimByIdOnly(o) == TRUE

\* UPDATE ... WHERE id = o AND status = 'queued': evaluated on the row as
\* committed once nobody else holds its lock.
ClaimGuard(o) == status[o] = "queued"

\* claim_queued_order_for_submission and process_order for one selected id.
\* The row goes to submitting and on to failed inside the open transaction.
ClaimAndProcess(w, o) ==
  /\ wpc[w] = "claiming"
  /\ o \in batch[w]
  /\ \A v \in Workers \ {w} : o \notin locked[v]
  /\ batch' = [batch EXCEPT ![w] = @ \ {o}]
  /\ locked' = [locked EXCEPT ![w] = IF ClaimGuard(o) THEN @ \cup {o} ELSE @]
  /\ UNCHANGED <<table, broker, cancelling, wpc, view, starts, sync>>

\* Mutant of Outcome: the transaction commits the claim before processing.
OutcomeClaimOnly == "submitting"

\* process_order raises before placeOrder and moves the order to failed.
Outcome == "failed"

\* The pass commits everything it claimed.
CommitBatch(w) ==
  /\ wpc[w] = "claiming"
  /\ batch[w] = {}
  /\ status' = [o \in Orders |-> IF o \in locked[w] THEN Outcome ELSE status[o]]
  /\ completed' = completed \cup locked[w]
  /\ event' = [o \in Orders |-> IF o \in locked[w] THEN "order_error" ELSE event[o]]
  /\ claims' = [o \in Orders |-> IF o \in locked[w] THEN claims[o] + 1 ELSE claims[o]]
  /\ locked' = [locked EXCEPT ![w] = {}]
  /\ wpc' = [wpc EXCEPT ![w] = "polling"]
  /\ UNCHANGED <<submitted, broker, cancelling, batch, view, starts, sync>>

\* The process dies or loses its connection: the open transaction is undone.
CrashWorker(w) ==
  /\ wpc[w] # "down"
  /\ starts[w] < MaxStarts
  /\ wpc' = [wpc EXCEPT ![w] = "down"]
  /\ batch' = [batch EXCEPT ![w] = {}]
  /\ locked' = [locked EXCEPT ![w] = {}]
  /\ view' = [view EXCEPT ![w] = NoView]
  /\ UNCHANGED <<table, broker, cancelling, starts, sync>>

-----------------------------------------------------------------------------
(* The order.fetch_sync job. *)

\* _collect_recent_trades: open orders and the day's completed ones.  A sync
\* that is told of none writes nothing.
SyncFetch(s) ==
  /\ spc[s] = "idle"
  /\ \E o \in Orders : broker[o] # NoTrade
  /\ fetched' = [fetched EXCEPT ![s] = broker]
  /\ spc' = [spc EXCEPT ![s] = "fetched"]
  /\ UNCHANGED <<table, broker, cancelling, worker, loaded>>

\* _find_matching_order loads the row of each fetched order, if it has one.
SyncLoad(s) ==
  /\ spc[s] = "fetched"
  /\ loaded' = [loaded EXCEPT ![s] =
       [o \in Orders |-> IF fetched[s][o] = NoTrade THEN "none" ELSE status[o]]]
  /\ spc' = [spc EXCEPT ![s] = "loaded"]
  /\ UNCHANGED <<table, broker, cancelling, worker, fetched>>

\* The writes that stamp completed_at: every move to a terminal status.
SyncCompleted(from, to) == to \in Terminal

\* _create_order_from_trade, _sync_trade_onto_order and the commit.
SyncWrite(s) ==
  LET from == loaded[s]
      listed == {o \in Orders : fetched[s][o] # NoTrade}
      to == [o \in listed |-> normalize(fetched[s][o])]
      moved == {o \in listed : to[o] # from[o]}
      created == {o \in moved : from[o] = "absent"}
  IN
  /\ spc[s] = "loaded"
  /\ moved \cap LockedRows = {}
  /\ status' = [o \in Orders |-> IF o \in moved THEN to[o] ELSE status[o]]
  /\ submitted' = submitted \cup {o \in listed : to[o] # "queued"}
  /\ completed' = completed \cup {o \in moved : SyncCompleted(from[o], to[o])}
  /\ event' = [o \in Orders |->
                 IF o \notin moved THEN event[o]
                 ELSE IF o \in created THEN "broker_order_synced_create"
                 ELSE "broker_order_synced_status"]
  /\ fetched' = [fetched EXCEPT ![s] = NoTrades]
  /\ loaded' = [loaded EXCEPT ![s] = None]
  /\ claims' = Requeued({o \in moved : to[o] = "queued"})
  /\ spc' = [spc EXCEPT ![s] = "idle"]
  /\ UNCHANGED <<broker, cancelling, worker>>

-----------------------------------------------------------------------------
(* The broker. *)

\* What can become of a broker order, external to the code: its status may be
\* empty until it works, and an inactive one may work again.
Lifecycle(t) ==
  CASE t.ib \in {"unset", "inactive"} -> Ends \cup Working
    [] t.ib = "working" -> Ends \cup Working \cup {Unfilled("inactive")}
    [] t.ib \in {"filled", "cancelled"} -> {NoTrade}
    [] OTHER -> FirstListed

\* An order is entered by hand once, works, ends, and is forgotten overnight.
BrokerMoves(o) ==
  /\ \E t \in Lifecycle(broker[o]) \ {broker[o]} :
       /\ broker[o] = NoTrade => o \in Manual /\ status[o] = "absent"
       /\ t = NoTrade => status[o] # "absent"
       /\ broker' = [broker EXCEPT ![o] = t]
  /\ UNCHANGED <<table, cancelling, worker, sync>>

-----------------------------------------------------------------------------
WorkerStep(w) ==
  \/ ReconcileRead(w) \/ ReconcileWrite(w) \/ SelectBatch(w) \/ CommitBatch(w)
  \/ \E o \in Orders : ClaimAndProcess(w, o)

Next ==
  \/ \E o \in Orders : CreateQueued(o) \/ BrokerMoves(o)
  \/ \E c \in Cancellers : CancelWrite(c) \/ \E o \in Orders : CancelRead(c, o)
  \/ \E w \in Workers : Start(w) \/ WorkerStep(w) \/ CrashWorker(w)
  \/ \E s \in Syncers : SyncFetch(s) \/ SyncLoad(s) \/ SyncWrite(s)

Spec == Init /\ [][Next]_vars

\* The worker's loop runs, a supervisor starts it, and a request or a job
\* that has read goes on to write.
Fairness ==
  /\ \A w \in Workers : WF_vars(WorkerStep(w)) /\ WF_vars(Start(w))
  /\ \A c \in Cancellers : WF_vars(CancelWrite(c))
  /\ \A s \in Syncers : WF_vars(SyncLoad(s) \/ SyncWrite(s))

FairSpec == Spec /\ Fairness

-----------------------------------------------------------------------------
Rows == Statuses \cup {"absent"}

WorkerPhases == {"down", "connected", "reconciling", "polling", "claiming"}
SyncPhases == {"idle", "fetched", "loaded"}
RowReads == [Orders -> Rows \cup {"none"}]
TradeReads == [Orders -> Trades \cup {NoTrade}]

TableTyped ==
  /\ status \in [Orders -> Rows]
  /\ submitted \subseteq Orders
  /\ completed \subseteq Orders
  /\ claims \in [Orders -> Nat]

WorkersTyped ==
  /\ wpc \in [Workers -> WorkerPhases]
  /\ batch \in [Workers -> SUBSET Orders]
  /\ locked \in [Workers -> SUBSET Orders]
  /\ view \in [Workers -> [rows : RowReads, trades : TradeReads]]
  /\ starts \in [Workers -> 0 .. MaxStarts]

OthersTyped ==
  /\ broker \in TradeReads
  /\ cancelling \in [Cancellers -> Orders \cup {"none"}]
  /\ spc \in [Syncers -> SyncPhases]
  /\ fetched \in [Syncers -> TradeReads]
  /\ loaded \in [Syncers -> RowReads]

\* Every variable keeps its range.
TypeOK == TableTyped /\ WorkersTyped /\ OthersTyped

\* No order is left in submitting: the claim and its outcome are committed
\* together, so neither a crash nor a reader ever sees one without the other.
NoneStranded == \A o \in Orders : status[o] # "submitting"

\* Two workers never process the same order, however their passes overlap:
\* while one has claimed a row it is queued to everybody else, and an order is
\* processed at most once for each time a writer put it in the queue.  The API
\* does that once; a broker reader does it again for an order listed with an
\* empty status.
ProcessedOnce ==
  /\ \A o \in Orders : claims[o] <= 1
  /\ \A v, w \in Workers : v # w => locked[v] \cap locked[w] = {}
  /\ \A w \in Workers : \A o \in locked[w] : status[o] = "queued"

\* An order whose cancellation was committed is not processed as it stands, and
\* no writer, however old its reads, puts an order of ours that has ended back
\* in the queue: only one the broker knows of can be processed again.
CancelledStaysIdle ==
  [][\A o \in Orders :
       /\ status[o] = "cancelled" => claims'[o] <= claims[o]
       /\ (status[o] \in Terminal /\ status'[o] = "queued")
            => o \in Legacy \cup Manual]_vars

\* Every row in a terminal status carries the time it got there, whichever of
\* the three writers put it there and whatever it had read.
TerminalIsStamped ==
  \A o \in Orders : status[o] \in Terminal => o \in completed

\* An order that startup reconciliation could not find at the broker is
\* flagged: none keeps claiming to be working across a worker start unless
\* the broker lists it, or a sync wrote the row meanwhile.
RestartFlagsLost ==
  [][\A w \in Workers, o \in Orders :
       (/\ wpc[w] = "reconciling" /\ wpc'[w] = "polling"
        /\ status'[o] \in ReconcileEligible \ {"reconcile_required"})
         => \/ view[w].trades[o] # NoTrade
            \/ status[o] # view[w].rows[o]]_vars

\* Startup reconciliation keeps that record: a disallowed move of a row nobody
\* changed since it was read is recorded as forced.
ReconcileRecordsForced ==
  [][\A w \in Workers, o \in Orders :
       (/\ wpc[w] = "reconciling" /\ wpc'[w] = "polling"
        /\ status'[o] # status[o]
        /\ status[o] = view[w].rows[o]
        /\ ~can_transition(status[o], status'[o]))
         => event'[o] = "forced_status_change"]_vars

\* A queued order is cancelled or processed in the end; one the broker knows
\* of at least leaves the queue, for a sync may give it the broker's status.
QueuedEnds ==
  \A o \in Orders :
    (status[o] = "queued") ~>
      IF o \in Legacy \cup Manual THEN status[o] # "queued"
                                 ELSE status[o] \in Terminal
=============================================================================
