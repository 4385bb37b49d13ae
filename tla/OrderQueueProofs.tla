-------------------------- MODULE OrderQueueProofs --------------------------
(***************************************************************************)
(* What TLAPS proves of OrderQueue, for every set of orders, of workers,   *)
(* of syncs and of cancel requests, and every number of worker starts.     *)
(***************************************************************************)
EXTENDS OrderQueue, TLAPS

-----------------------------------------------------------------------------
(* What the two broker readers write. *)

\* The statuses reconciliation and sync can give a row.
BrokerStatuses == {"queued", "submitted", "partially_filled", "filled",
                   "cancelled", "reconcile_required"}

\* A broker status is never submitting or failed.
LEMMA NormalizeRange ==
  ASSUME NEW t
  PROVE  normalize(t) \in BrokerStatuses \ {"reconcile_required"}
BY DEF normalize, BrokerStatuses

\* Reconciliation moves a row it read to one of them, or leaves it alone.
LEMMA ReconciledRange ==
  ASSUME NEW seen, NEW trade
  PROVE  Reconciled(seen, trade) \in BrokerStatuses \cup {seen}
BY NormalizeRange DEF Reconciled, BrokerStatuses

\* The common part of both commits: some unlocked rows get broker statuses,
\* with the stamp where the status is terminal; no other row changes.
Rewrites(moved) ==
  /\ moved \in SUBSET Orders
  /\ moved \cap LockedRows = {}
  /\ status' \in [Orders -> Rows]
  /\ \A o \in Orders \ moved : status'[o] = status[o]
  /\ \A o \in moved : status'[o] \in BrokerStatuses
  /\ \A o \in moved : status'[o] \in Terminal => o \in completed'
  /\ completed \subseteq completed'
  /\ completed' \subseteq Orders
  /\ submitted' \subseteq Orders
  /\ claims' = Requeued({o \in moved : status'[o] = "queued"})
  /\ locked' = locked

\* Startup reconciliation's commit is such a rewrite.
LEMMA ReconcileRewrites ==
  ASSUME TypeOK, NEW w \in Workers, ReconcileWrite(w)
  PROVE  \E moved : Rewrites(moved)
<1> DEFINE seen == view[w].rows
           to == [o \in Orders |-> IF seen[o] = "none" THEN "none"
                                   ELSE Reconciled(seen[o], view[w].trades[o])]
           moved == {o \in Orders : to[o] # seen[o]}
<1>1. \A o \in moved : to[o] \in BrokerStatuses
  <2> TAKE o \in moved
  <2>1. seen[o] # "none" /\ to[o] = Reconciled(seen[o], view[w].trades[o])
    OBVIOUS
  <2>2. to[o] # seen[o]
    OBVIOUS
  <2> QED
    BY <2>1, <2>2, ReconciledRange
<1>2. status' = [o \in Orders |-> IF o \in moved THEN to[o] ELSE status[o]]
  BY DEF ReconcileWrite
<1>3. /\ moved \cap LockedRows = {}
      /\ completed' = completed \cup {o \in moved : to[o] \in Terminal}
      /\ submitted' = submitted \cup {o \in moved : to[o] = "submitted"}
      /\ claims' = Requeued({o \in moved : to[o] = "queued"})
      /\ locked' = locked
  BY DEF ReconcileWrite
<1> HIDE DEF to
<1>4. \A o \in moved : status'[o] = to[o]
  BY <1>2
<1>5. \A o \in Orders \ moved : status'[o] = status[o]
  BY <1>2
<1>6. BrokerStatuses \subseteq Rows
  BY DEF BrokerStatuses, Rows, Statuses, Terminal
<1>7. status' \in [Orders -> Rows]
  BY <1>1, <1>2, <1>6 DEF TypeOK, TableTyped
<1>8. completed' \subseteq Orders /\ submitted' \subseteq Orders
  BY <1>3 DEF TypeOK, TableTyped
<1>9. {o \in moved : to[o] = "queued"} = {o \in moved : status'[o] = "queued"}
  BY <1>4
<1>10. moved \in SUBSET Orders
  OBVIOUS
<1> HIDE DEF moved
<1>11. \A o \in moved : status'[o] \in Terminal => o \in completed'
  BY <1>3, <1>4
<1>12. \A o \in moved : status'[o] \in BrokerStatuses
  BY <1>1, <1>4
<1>13. claims' = Requeued({o \in moved : status'[o] = "queued"})
  BY <1>3, <1>9
<1> QED
  BY <1>3, <1>5, <1>7, <1>8, <1>10, <1>11, <1>12, <1>13 DEF Rewrites

\* ... and so is the broker sync's.
LEMMA SyncRewrites ==
  ASSUME TypeOK, NEW s \in Syncers, SyncWrite(s)
  PROVE  \E moved : Rewrites(moved)
<1> DEFINE listed == {o \in Orders : fetched[s][o] # NoTrade}
           to == [o \in listed |-> normalize(fetched[s][o])]
           moved == {o \in listed : to[o] # loaded[s][o]}
<1>1. \A o \in moved : to[o] \in BrokerStatuses
  BY NormalizeRange
<1>2. status' = [o \in Orders |-> IF o \in moved THEN to[o] ELSE status[o]]
  BY DEF SyncWrite
<1>3. /\ moved \cap LockedRows = {}
      /\ completed' = completed \cup {o \in moved : to[o] \in Terminal}
      /\ submitted' = submitted \cup {o \in listed : to[o] # "queued"}
      /\ claims' = Requeued({o \in moved : to[o] = "queued"})
      /\ locked' = locked
  BY DEF SyncWrite, SyncCompleted, worker
<1> HIDE DEF to
<1>4. \A o \in moved : status'[o] = to[o]
  BY <1>2
<1>5. \A o \in Orders \ moved : status'[o] = status[o]
  BY <1>2
<1>6. BrokerStatuses \subseteq Rows
  BY DEF BrokerStatuses, Rows, Statuses, Terminal
<1>7. status' \in [Orders -> Rows]
  BY <1>1, <1>2, <1>6 DEF TypeOK, TableTyped
<1>8. completed' \subseteq Orders /\ submitted' \subseteq Orders
  BY <1>3 DEF TypeOK, TableTyped
<1>9. {o \in moved : to[o] = "queued"} = {o \in moved : status'[o] = "queued"}
  BY <1>4
<1>10. moved \in SUBSET Orders
  OBVIOUS
<1> HIDE DEF moved
<1>11. \A o \in moved : status'[o] \in Terminal => o \in completed'
  BY <1>3, <1>4
<1>12. \A o \in moved : status'[o] \in BrokerStatuses
  BY <1>1, <1>4
<1>13. claims' = Requeued({o \in moved : status'[o] = "queued"})
  BY <1>3, <1>9
<1> QED
  BY <1>3, <1>5, <1>7, <1>8, <1>10, <1>11, <1>12, <1>13 DEF Rewrites

-----------------------------------------------------------------------------
(* Type correctness. *)

\* The rows of a typed reconciliation or sync write stay typed.
LEMMA RewriteTyped ==
  ASSUME TableTyped, NEW moved, Rewrites(moved)
  PROVE  TableTyped'
BY DEF TableTyped, Rewrites, Requeued

\* The empty reads of processes that hold nothing are typed.
LEMMA EmptyReadsTyped ==
  NoTrades \in TradeReads /\ None \in RowReads
  /\ NoView \in [rows : RowReads, trades : TradeReads]
BY DEF NoTrades, None, NoView, RowReads, TradeReads

\* The initial state is typed.
LEMMA InitTyped == Init => TypeOK
<1> SUFFICES ASSUME Init PROVE TypeOK
  OBVIOUS
<1>1. FirstListed \subseteq Trades
  BY DEF FirstListed, Unfilled, Trades, IBStatuses
<1>2. TableTyped
  BY OrdersAssumption DEF Init, TableTyped, Rows, Statuses
<1>3. WorkersTyped
  BY OrdersAssumption, EmptyReadsTyped DEF Init, WorkersTyped, WorkerPhases
<1>4. OthersTyped
  BY <1>1, EmptyReadsTyped DEF Init, OthersTyped, SyncPhases, TradeReads
<1> QED
  BY <1>2, <1>3, <1>4 DEF TypeOK

\* What becomes of a broker order is a broker order.
LEMMA LifecycleTyped ==
  ASSUME NEW t \in Trades \cup {NoTrade}
  PROVE  Lifecycle(t) \subseteq Trades \cup {NoTrade}
<1>1. FirstListed \cup Working \cup Ends \cup {Unfilled("inactive")} \subseteq Trades
  <2>1. \A i \in IBStatuses, b \in BOOLEAN : [ib |-> i, filled |-> b] \in Trades
    BY DEF Trades
  <2>2. {"unset", "working", "inactive", "filled", "cancelled"} \subseteq IBStatuses
    BY DEF IBStatuses
  <2>3. FirstListed \cup Ends \cup {Unfilled("inactive")} \subseteq Trades
    BY <2>1, <2>2 DEF FirstListed, Ends, Unfilled
  <2>4. Working \subseteq Trades
    BY <2>1, <2>2 DEF Working
  <2> QED
    BY <2>3, <2>4
<1>2. t.ib \in IBStatuses \cup {"none"}
  BY DEF Trades, NoTrade
<1> QED
  BY <1>1, <1>2 DEF Lifecycle, IBStatuses

\* Every step keeps the state typed.
LEMMA StepTyped == TypeOK /\ [Next]_vars => TypeOK'
<1> SUFFICES ASSUME TypeOK, [Next]_vars PROVE TypeOK'
  OBVIOUS
<1>t. TableTyped /\ WorkersTyped /\ OthersTyped
  BY DEF TypeOK
<1>r. {"queued", "cancelled", Outcome} \subseteq Rows
  BY DEF Rows, Statuses, Terminal, Outcome
<1>1. ASSUME NEW o \in Orders, CreateQueued(o) PROVE TypeOK'
  BY <1>1, <1>t, <1>r DEF CreateQueued, TypeOK, TableTyped, WorkersTyped,
     OthersTyped, worker, sync
<1>2. ASSUME NEW o \in Orders, BrokerMoves(o) PROVE TypeOK'
  <2>1. broker[o] \in Trades \cup {NoTrade}
    BY <1>t DEF OthersTyped, TradeReads
  <2>2. PICK t \in Trades \cup {NoTrade} : broker' = [broker EXCEPT ![o] = t]
    BY <1>2, <2>1, LifecycleTyped DEF BrokerMoves
  <2>3. broker' \in TradeReads
    BY <2>2, <1>t DEF OthersTyped, TradeReads
  <2> QED
    BY <1>2, <2>3, <1>t DEF BrokerMoves, TypeOK, TableTyped, WorkersTyped,
       OthersTyped, table, worker, sync
<1>3. ASSUME NEW c \in Cancellers, CancelWrite(c) PROVE TypeOK'
  <2>1. cancelling[c] \in Orders
    BY <1>3, <1>t DEF CancelWrite, OthersTyped
  <2> QED
    BY <1>3, <2>1, <1>t, <1>r DEF CancelWrite, TypeOK, TableTyped, WorkersTyped,
       OthersTyped, worker, sync
<1>4. ASSUME NEW c \in Cancellers, NEW o \in Orders, CancelRead(c, o)
      PROVE TypeOK'
  BY <1>4, <1>t DEF CancelRead, TypeOK, TableTyped, WorkersTyped, OthersTyped,
     table, worker, sync
<1>5. ASSUME NEW w \in Workers, Start(w) PROVE TypeOK'
  <2>1. starts' \in [Workers -> 0 .. MaxStarts]
    <3>1. starts[w] \in 0 .. MaxStarts /\ starts[w] < MaxStarts
      BY <1>5, <1>t DEF Start, WorkersTyped
    <3>2. starts[w] + 1 \in 0 .. MaxStarts
      BY <3>1, OrdersAssumption
    <3> QED
      BY <1>5, <3>2, <1>t DEF Start, WorkersTyped
  <2> QED
    BY <1>5, <2>1, <1>t DEF Start, TypeOK, TableTyped, WorkersTyped, OthersTyped,
       table, sync, WorkerPhases
<1>6. ASSUME NEW w \in Workers, ReconcileRead(w) PROVE TypeOK'
  <2>1. view' \in [Workers -> [rows : RowReads, trades : TradeReads]]
    <3> DEFINE v == [rows |-> [o \in Orders |->
                       IF status[o] \in Statuses \ Terminal THEN status[o]
                                                            ELSE "none"],
                     trades |-> [o \in Orders |->
                       IF o \in Legacy /\ Open(broker[o]) THEN broker[o]
                                                          ELSE NoTrade]]
    <3>1. v \in [rows : RowReads, trades : TradeReads]
      BY <1>t DEF RowReads, TradeReads, TableTyped, OthersTyped
    <3>2. view' = [view EXCEPT ![w] = v]
      BY <1>6 DEF ReconcileRead
    <3> QED
      BY <3>1, <3>2, <1>t DEF WorkersTyped
  <2>2. wpc' \in [Workers -> WorkerPhases]
    BY <1>6, <1>t DEF ReconcileRead, WorkersTyped, WorkerPhases
  <2> QED
    BY <1>6, <2>1, <2>2, <1>t DEF ReconcileRead, TypeOK, TableTyped, WorkersTyped,
       OthersTyped, table, sync
<1>7. ASSUME NEW w \in Workers, ReconcileWrite(w) PROVE TypeOK'
  <2>1. TableTyped'
    BY <1>7, <1>t, ReconcileRewrites, RewriteTyped
  <2>2. WorkersTyped'
    BY <1>7, <1>t, EmptyReadsTyped DEF ReconcileWrite, WorkersTyped, WorkerPhases
  <2> QED
    BY <1>7, <2>1, <2>2, <1>t DEF ReconcileWrite, TypeOK, OthersTyped, sync
<1>8. ASSUME NEW w \in Workers, SelectBatch(w) PROVE TypeOK'
  BY <1>8, <1>t DEF SelectBatch, TypeOK, TableTyped, WorkersTyped, OthersTyped,
     table, sync, WorkerPhases
<1>9. ASSUME NEW w \in Workers, NEW o \in Orders, ClaimAndProcess(w, o)
      PROVE TypeOK'
  <2>1. batch[w] \in SUBSET Orders /\ locked[w] \in SUBSET Orders
    BY <1>t DEF WorkersTyped
  <2>2. /\ batch' \in [Workers -> SUBSET Orders]
        /\ locked' \in [Workers -> SUBSET Orders]
    BY <1>9, <2>1, <1>t DEF ClaimAndProcess, WorkersTyped
  <2> QED
    BY <1>9, <2>2, <1>t DEF ClaimAndProcess, TypeOK, TableTyped, WorkersTyped,
       OthersTyped, table, sync
<1>10. ASSUME NEW w \in Workers, CommitBatch(w) PROVE TypeOK'
  <2>1. TableTyped'
    BY <1>10, <1>t, <1>r DEF CommitBatch, TableTyped, WorkersTyped
  <2> QED
    BY <1>10, <2>1, <1>t DEF CommitBatch, TypeOK, WorkersTyped, OthersTyped, sync,
       WorkerPhases
<1>11. ASSUME NEW w \in Workers, CrashWorker(w) PROVE TypeOK'
  BY <1>11, <1>t, EmptyReadsTyped DEF CrashWorker, TypeOK, TableTyped,
     WorkersTyped, OthersTyped, table, sync, WorkerPhases
<1>12. ASSUME NEW s \in Syncers, SyncFetch(s) PROVE TypeOK'
  BY <1>12, <1>t DEF SyncFetch, TypeOK, TableTyped, WorkersTyped, OthersTyped,
     table, worker, SyncPhases
<1>13. ASSUME NEW s \in Syncers, SyncLoad(s) PROVE TypeOK'
  <2>1. [o \in Orders |-> IF fetched[s][o] = NoTrade THEN "none" ELSE status[o]]
          \in RowReads
    BY <1>t DEF TableTyped, RowReads
  <2> QED
    BY <1>13, <2>1, <1>t DEF SyncLoad, TypeOK, TableTyped, WorkersTyped,
       OthersTyped, table, worker, SyncPhases
<1>14. ASSUME NEW s \in Syncers, SyncWrite(s) PROVE TypeOK'
  <2>1. TableTyped'
    BY <1>14, <1>t, SyncRewrites, RewriteTyped
  <2>2. OthersTyped'
    BY <1>14, <1>t, EmptyReadsTyped DEF SyncWrite, OthersTyped, SyncPhases
  <2> QED
    BY <1>14, <2>1, <2>2, <1>t DEF SyncWrite, TypeOK, WorkersTyped, worker
<1>15. CASE UNCHANGED vars
  BY <1>15, <1>t DEF vars, table, worker, sync, TypeOK, TableTyped, WorkersTyped,
     OthersTyped
<1> QED
  BY <1>1, <1>2, <1>3, <1>4, <1>5, <1>6, <1>7, <1>8, <1>9, <1>10, <1>11, <1>12,
     <1>13, <1>14, <1>15 DEF Next, WorkerStep

\* Every reachable state is typed.
THEOREM TypeCorrect == Spec => []TypeOK
BY InitTyped, StepTyped, PTL DEF Spec

-----------------------------------------------------------------------------
(* Processing happens once.  An order processed by anybody has left queued,  *)
(* and nobody can claim it until a writer queues it again; that is what      *)
(* makes the three invariants inductive together.                            *)

ProcessedLeftQueue ==
  \A o \in Orders : claims[o] # 0 => status[o] \notin {"absent", "queued"}

Owned == ProcessedOnce /\ ProcessedLeftQueue

Safe == NoneStranded /\ TerminalIsStamped /\ Owned

\* The writes of reconciliation and sync keep all of it.
LEMMA RewriteSafe ==
  ASSUME TypeOK, Safe, NEW moved, Rewrites(moved)
  PROVE  Safe'
<1>1. \A o \in Orders : \/ status'[o] = status[o]
                        \/ /\ o \in moved
                           /\ status'[o] \in BrokerStatuses
                           /\ status'[o] \in Terminal => o \in completed'
  BY DEF Rewrites
<1>2. \A o \in Orders : o \in completed => o \in completed'
  BY DEF Rewrites
<1>3. NoneStranded'
  BY <1>1 DEF Safe, NoneStranded, BrokerStatuses
<1>4. TerminalIsStamped'
  BY <1>1, <1>2 DEF Safe, TerminalIsStamped
<1>5. \A o \in Orders : claims'[o] = IF o \in moved /\ status'[o] = "queued"
                                     THEN 0 ELSE claims[o]
  BY DEF Rewrites, Requeued
<1>5a. ProcessedLeftQueue'
  BY <1>1, <1>5 DEF Safe, Owned, ProcessedLeftQueue, BrokerStatuses
<1>5b. \A o \in Orders : claims'[o] <= 1
  BY <1>5 DEF Safe, Owned, ProcessedOnce
<1>6. ASSUME NEW w \in Workers, NEW o \in locked[w]
      PROVE  status'[o] = "queued"
  <2>1. o \in Orders /\ status[o] = "queued"
    BY DEF Safe, Owned, ProcessedOnce, TypeOK, WorkersTyped
  <2>2. o \notin moved
    BY DEF Rewrites, LockedRows
  <2> QED
    BY <2>1, <2>2 DEF Rewrites
<1>7. ProcessedOnce'
  BY <1>5b, <1>6 DEF Safe, Owned, ProcessedOnce, Rewrites
<1> QED
  BY <1>3, <1>4, <1>5a, <1>7 DEF Safe, Owned

\* Nothing is claimed or terminal at the start.
LEMMA InitSafe == Init => Safe
BY OrdersAssumption
   DEF Init, Safe, NoneStranded, TerminalIsStamped, Terminal, Owned, ProcessedOnce,
       ProcessedLeftQueue

\* The commit of a pass: its rows were queued, and were never processed.
LEMMA CommitSafe ==
  ASSUME TypeOK, Safe, NEW w \in Workers, CommitBatch(w)
  PROVE  Safe'
<1>1. /\ \A o \in locked[w] : o \in Orders /\ status[o] = "queued" /\ claims[o] = 0
      /\ \A o \in Orders \ locked[w] :
           status'[o] = status[o] /\ claims'[o] = claims[o]
  BY DEF Safe, Owned, ProcessedOnce, ProcessedLeftQueue, TypeOK, WorkersTyped,
     CommitBatch
<1>2. \A o \in locked[w] :
        status'[o] = "failed" /\ claims'[o] = 1 /\ o \in completed'
  BY <1>1 DEF CommitBatch, Outcome
<1>3. completed \subseteq completed'
  BY DEF CommitBatch
<1>4. NoneStranded' /\ TerminalIsStamped'
  BY <1>1, <1>2, <1>3 DEF Safe, NoneStranded, TerminalIsStamped
<1>5. ProcessedLeftQueue'
  BY <1>1, <1>2 DEF Safe, Owned, ProcessedLeftQueue
<1>6. /\ locked'[w] = {}
      /\ \A v \in Workers \ {w} : locked'[v] = locked[v]
  BY DEF CommitBatch, TypeOK, WorkersTyped
<1>7. \A v \in Workers \ {w} : locked[v] \cap locked[w] = {}
  BY DEF Safe, Owned, ProcessedOnce
<1>8. \A v \in Workers : \A o \in locked'[v] : status'[o] = "queued"
  BY <1>1, <1>6, <1>7 DEF Safe, Owned, ProcessedOnce, TypeOK, WorkersTyped
<1>9. \A v, u \in Workers : v # u => locked'[v] \cap locked'[u] = {}
  BY <1>6 DEF Safe, Owned, ProcessedOnce
<1>10. \A o \in Orders : claims'[o] <= 1
  BY <1>1, <1>2 DEF Safe, Owned, ProcessedOnce
<1> QED
  BY <1>4, <1>5, <1>8, <1>9, <1>10 DEF Safe, Owned, ProcessedOnce

\* A claim takes an unlocked row that is queued, and writes nothing yet.
LEMMA ClaimSafe ==
  ASSUME TypeOK, Safe, NEW w \in Workers, NEW o \in Orders, ClaimAndProcess(w, o)
  PROVE  Safe'
<1>1. /\ status' = status /\ completed' = completed /\ claims' = claims
      /\ \A v \in Workers \ {w} : locked'[v] = locked[v] /\ o \notin locked[v]
  BY DEF ClaimAndProcess, table, TypeOK, WorkersTyped
<1>2. \/ locked'[w] = locked[w]
      \/ status[o] = "queued" /\ locked'[w] = locked[w] \cup {o}
  BY DEF ClaimAndProcess, ClaimGuard, TypeOK, WorkersTyped
<1>3. ProcessedOnce'
  BY <1>1, <1>2 DEF Safe, Owned, ProcessedOnce
<1> QED
  BY <1>1, <1>3 DEF Safe, Owned, NoneStranded, TerminalIsStamped, ProcessedLeftQueue

\* Every step keeps the three invariants.
LEMMA StepSafe == TypeOK /\ Safe /\ [Next]_vars => Safe'
<1> SUFFICES ASSUME TypeOK, Safe, [Next]_vars PROVE Safe'
  OBVIOUS
<1>u. ASSUME UNCHANGED <<table, locked>> PROVE Safe'
  BY <1>u DEF table, Safe, NoneStranded, TerminalIsStamped, Owned, ProcessedOnce,
     ProcessedLeftQueue
<1>1. ASSUME NEW o \in Orders, CreateQueued(o) PROVE Safe'
  <2>1. status' = [status EXCEPT ![o] = "queued"] /\ status[o] = "absent"
    BY <1>1 DEF CreateQueued
  <2>2. completed' = completed /\ claims' = claims /\ locked' = locked
    BY <1>1 DEF CreateQueued, worker
  <2>3. claims[o] = 0
    BY <2>1 DEF Safe, Owned, ProcessedLeftQueue
  <2> QED
    BY <2>1, <2>2, <2>3 DEF Safe, NoneStranded, TerminalIsStamped, Terminal, Owned,
       ProcessedOnce, ProcessedLeftQueue, TypeOK, TableTyped, WorkersTyped
<1>2. ASSUME NEW c \in Cancellers, CancelWrite(c) PROVE Safe'
  <2> DEFINE o == cancelling[c]
  <2>1. /\ o \in Orders /\ o \notin LockedRows
        /\ status' = [status EXCEPT ![o] = "cancelled"]
        /\ completed' = completed \cup {o}
        /\ claims' = claims /\ locked' = locked
    BY <1>2 DEF CancelWrite, TypeOK, OthersTyped, worker
  <2>2. \A w \in Workers : o \notin locked[w]
    BY <2>1 DEF LockedRows
  <2> HIDE DEF o
  <2>3. NoneStranded' /\ TerminalIsStamped' /\ ProcessedLeftQueue'
    BY <2>1 DEF Safe, NoneStranded, TerminalIsStamped, Owned, ProcessedLeftQueue,
       TypeOK, TableTyped
  <2>4. ProcessedOnce'
    BY <2>1, <2>2 DEF Safe, Owned, ProcessedOnce, TypeOK, TableTyped, WorkersTyped
  <2> QED
    BY <2>3, <2>4 DEF Safe, Owned
<1>3. ASSUME NEW w \in Workers, ReconcileWrite(w) PROVE Safe'
  BY <1>3, ReconcileRewrites, RewriteSafe
<1>4. ASSUME NEW s \in Syncers, SyncWrite(s) PROVE Safe'
  BY <1>4, SyncRewrites, RewriteSafe
<1>5. ASSUME NEW w \in Workers, CommitBatch(w) PROVE Safe'
  BY <1>5, CommitSafe
<1>6. ASSUME NEW w \in Workers, NEW o \in Orders, ClaimAndProcess(w, o) PROVE Safe'
  BY <1>6, ClaimSafe
<1>7. ASSUME NEW w \in Workers, CrashWorker(w) PROVE Safe'
  <2>1. /\ status' = status /\ completed' = completed /\ claims' = claims
        /\ \A v \in Workers : locked'[v] \in {{}, locked[v]}
    BY <1>7 DEF CrashWorker, table, TypeOK, WorkersTyped
  <2>2. \A v \in Workers : locked'[v] \subseteq locked[v]
    BY <2>1
  <2>3. ProcessedOnce'
    BY <2>1, <2>2 DEF Safe, Owned, ProcessedOnce
  <2> QED
    BY <2>1, <2>3 DEF Safe, Owned, NoneStranded, TerminalIsStamped,
       ProcessedLeftQueue
<1>8. ASSUME NEW w \in Workers, Start(w) \/ ReconcileRead(w) \/ SelectBatch(w)
      PROVE  Safe'
  BY <1>8, <1>u DEF Start, ReconcileRead, SelectBatch
<1>9. ASSUME NEW s \in Syncers, SyncFetch(s) \/ SyncLoad(s) PROVE Safe'
  BY <1>9, <1>u DEF SyncFetch, SyncLoad, worker
<1>10. ASSUME NEW o \in Orders, BrokerMoves(o) PROVE Safe'
  BY <1>10, <1>u DEF BrokerMoves, worker
<1>11. ASSUME NEW c \in Cancellers, NEW o \in Orders, CancelRead(c, o) PROVE Safe'
  BY <1>11, <1>u DEF CancelRead, worker
<1>12. CASE UNCHANGED vars
  BY <1>12, <1>u DEF vars, worker
<1> QED
  BY <1>1, <1>2, <1>3, <1>4, <1>5, <1>6, <1>7, <1>8, <1>9, <1>10, <1>11, <1>12
     DEF Next, WorkerStep

\* So they hold for good.
LEMMA SafeAlways == Spec => []Safe
BY InitSafe, StepSafe, TypeCorrect, PTL DEF Spec

\* An order is processed at most once for each time it was queued and by one
\* worker at a time, whatever the other writers had read and whenever workers
\* die.
THEOREM Once == Spec => []ProcessedOnce
<1>1. Safe => ProcessedOnce
  BY DEF Safe, Owned
<1> QED
  BY <1>1, SafeAlways, PTL

\* No crash leaves an order in submitting.
THEOREM NeverStranded == Spec => []NoneStranded
<1>1. Safe => NoneStranded
  BY DEF Safe
<1> QED
  BY <1>1, SafeAlways, PTL

\* Every row in a terminal status carries the time it got there.
THEOREM AlwaysStamped == Spec => []TerminalIsStamped
<1>1. Safe => TerminalIsStamped
  BY DEF Safe
<1> QED
  BY <1>1, SafeAlways, PTL

-----------------------------------------------------------------------------
(* Action properties. *)

\* Only the commit of a pass processes, and only what it has locked.
LEMMA ProcessedRowsLocked ==
  ASSUME TypeOK, [Next]_vars, NEW o \in Orders, claims'[o] > claims[o]
  PROVE  \E w \in Workers : o \in locked[w]
<1>t. claims[o] \in Nat
  BY DEF TypeOK, TableTyped
<1>q. ASSUME NEW rows, claims' = Requeued(rows) PROVE FALSE
  BY <1>q, <1>t DEF Requeued
<1>u. ASSUME claims' = claims PROVE FALSE
  BY <1>u, <1>t
<1>1. ASSUME NEW w \in Workers, ReconcileWrite(w) PROVE FALSE
  BY <1>1, <1>q DEF ReconcileWrite
<1>2. ASSUME NEW s \in Syncers, SyncWrite(s) PROVE FALSE
  BY <1>2, <1>q DEF SyncWrite
<1>3. ASSUME NEW w \in Workers,
             Start(w) \/ ReconcileRead(w) \/ SelectBatch(w) \/ CrashWorker(w)
      PROVE  FALSE
  BY <1>3, <1>u DEF Start, ReconcileRead, SelectBatch, CrashWorker, table
<1>4. ASSUME NEW w \in Workers, NEW p \in Orders, ClaimAndProcess(w, p)
      PROVE  FALSE
  BY <1>4, <1>u DEF ClaimAndProcess, table
<1>5. ASSUME NEW s \in Syncers, SyncFetch(s) \/ SyncLoad(s)
      PROVE  FALSE
  BY <1>5, <1>u DEF SyncFetch, SyncLoad, table
<1>6. ASSUME NEW p \in Orders, CreateQueued(p) \/ BrokerMoves(p)
      PROVE  FALSE
  BY <1>6, <1>u DEF CreateQueued, BrokerMoves, table
<1>7. ASSUME NEW c \in Cancellers,
             CancelWrite(c) \/ \E p \in Orders : CancelRead(c, p)
      PROVE  FALSE
  BY <1>7, <1>u DEF CancelWrite, CancelRead, table
<1>8. ~UNCHANGED vars
  BY <1>u DEF vars, table
<1>9. PICK w \in Workers : CommitBatch(w)
  BY <1>1, <1>2, <1>3, <1>4, <1>5, <1>6, <1>7, <1>8 DEF Next, WorkerStep
<1>10. claims' = [p \in Orders |-> IF p \in locked[w] THEN claims[p] + 1
                                                     ELSE claims[p]]
  BY <1>9 DEF CommitBatch
<1> QED
  BY <1>10, <1>t

\* Neither the broker nor what anybody read of it has an order of ours.
OursUnlisted ==
  \A o \in Orders \ (Legacy \cup Manual) :
    /\ broker[o] = NoTrade
    /\ \A s \in Syncers : fetched[s][o] = NoTrade
    /\ \A w \in Workers : view[w].trades[o] = NoTrade

\* That holds at the start ...
LEMMA InitUnlisted == Init => OursUnlisted
BY OrdersAssumption DEF Init, OursUnlisted, NoTrades, NoView

\* ... and every step keeps it.
LEMMA StepUnlisted == TypeOK /\ OursUnlisted /\ [Next]_vars => OursUnlisted'
<1> SUFFICES ASSUME TypeOK, OursUnlisted, [Next]_vars,
                    NEW o \in Orders \ (Legacy \cup Manual)
             PROVE  /\ broker'[o] = NoTrade
                    /\ \A s \in Syncers : fetched'[s][o] = NoTrade
                    /\ \A w \in Workers : view'[w].trades[o] = NoTrade
  BY DEF OursUnlisted
<1>b. broker'[o] = NoTrade
  <2>1. CASE \E p \in Orders : BrokerMoves(p)
    <3>1. PICK p \in Orders : BrokerMoves(p)
      BY <2>1
    <3>2. p # o
      BY <3>1 DEF BrokerMoves, OursUnlisted
    <3>3. PICK t : broker' = [broker EXCEPT ![p] = t]
      BY <3>1 DEF BrokerMoves
    <3> QED
      BY <3>2, <3>3 DEF OursUnlisted, TypeOK, OthersTyped, TradeReads
  <2>2. CASE broker' = broker
    BY <2>2 DEF OursUnlisted
  <2> QED
    BY <2>1, <2>2 DEF Next, WorkerStep, CreateQueued, CancelWrite, CancelRead,
       Start, ReconcileRead, ReconcileWrite, SelectBatch, CommitBatch, CrashWorker,
       ClaimAndProcess, SyncFetch, SyncLoad, SyncWrite, vars
<1>f. ASSUME NEW s \in Syncers PROVE fetched'[s][o] = NoTrade
  <2>1. fetched'[s] \in {fetched[s], broker, NoTrades}
    <3>1. CASE \E r \in Syncers : SyncFetch(r) \/ SyncWrite(r)
      BY <3>1 DEF SyncFetch, SyncWrite, TypeOK, OthersTyped
    <3>2. CASE fetched' = fetched
      BY <3>2
    <3> QED
      BY <3>1, <3>2 DEF Next, WorkerStep, CreateQueued, BrokerMoves, CancelWrite,
         CancelRead, Start, ReconcileRead, ReconcileWrite, SelectBatch, CommitBatch,
         CrashWorker, ClaimAndProcess, SyncLoad, vars, sync
  <2> QED
    BY <2>1 DEF OursUnlisted, NoTrades
<1>v. ASSUME NEW w \in Workers PROVE view'[w].trades[o] = NoTrade
  <2>1. CASE \E v \in Workers : ReconcileRead(v)
    <3>1. PICK v \in Workers : ReconcileRead(v)
      BY <2>1
    <3>2. view'[w] = view[w] \/ view'[w].trades[o] = NoTrade
      BY <3>1 DEF ReconcileRead, TypeOK, WorkersTyped
    <3> QED
      BY <3>2 DEF OursUnlisted
  <2>2. CASE view'[w] \in {view[w], NoView}
    BY <2>2 DEF OursUnlisted, NoView, NoTrades
  <2>3. CASE \E v \in Workers : ReconcileWrite(v) \/ CrashWorker(v)
    BY <2>2, <2>3 DEF ReconcileWrite, CrashWorker, TypeOK, WorkersTyped
  <2>4. CASE view' = view
    BY <2>2, <2>4
  <2> QED
    BY <2>1, <2>3, <2>4 DEF Next, WorkerStep, CreateQueued, BrokerMoves, CancelWrite,
       CancelRead, Start, SelectBatch, CommitBatch, ClaimAndProcess, SyncFetch,
       SyncLoad, SyncWrite, vars, worker
<1> QED
  BY <1>b, <1>f, <1>v

\* The only step that ends a reconciliation into polling is its write.
LEMMA ReconciliationEnds ==
  ASSUME TypeOK, [Next]_vars, NEW w \in Workers,
         wpc[w] = "reconciling", wpc'[w] = "polling"
  PROVE  ReconcileWrite(w)
<1> USE DEF TypeOK, WorkersTyped
<1>1. ASSUME NEW v \in Workers, Start(v) PROVE FALSE
  BY <1>1 DEF Start
<1>2. ASSUME NEW v \in Workers, ReconcileRead(v) PROVE FALSE
  BY <1>2 DEF ReconcileRead
<1>3. ASSUME NEW v \in Workers, SelectBatch(v) PROVE FALSE
  BY <1>3 DEF SelectBatch
<1>4. ASSUME NEW v \in Workers, CommitBatch(v) PROVE FALSE
  BY <1>4 DEF CommitBatch
<1>5. ASSUME NEW v \in Workers, CrashWorker(v) PROVE FALSE
  BY <1>5 DEF CrashWorker
<1>6. ASSUME NEW v \in Workers, NEW o \in Orders, ClaimAndProcess(v, o) PROVE FALSE
  BY <1>6 DEF ClaimAndProcess
<1>7. ASSUME NEW v \in Workers, ReconcileWrite(v) PROVE v = w
  BY <1>7 DEF ReconcileWrite
<1>8. ASSUME wpc' = wpc PROVE FALSE
  BY <1>8
<1>9. ASSUME NEW o \in Orders, CreateQueued(o) \/ BrokerMoves(o) PROVE FALSE
  BY <1>8, <1>9 DEF CreateQueued, BrokerMoves, worker
<1>10. ASSUME NEW c \in Cancellers,
              CancelWrite(c) \/ \E o \in Orders : CancelRead(c, o)
       PROVE  FALSE
  BY <1>8, <1>10 DEF CancelWrite, CancelRead, worker
<1>11. ASSUME NEW s \in Syncers, SyncFetch(s) \/ SyncLoad(s) \/ SyncWrite(s)
       PROVE  FALSE
  BY <1>8, <1>11 DEF SyncFetch, SyncLoad, SyncWrite, worker
<1>12. CASE UNCHANGED vars
  BY <1>8, <1>12 DEF vars, worker
<1> QED
  BY <1>1, <1>2, <1>3, <1>4, <1>5, <1>6, <1>7, <1>9, <1>10, <1>11, <1>12
     DEF Next, WorkerStep

\* What that write does to one row.
LEMMA ReconcileRow ==
  ASSUME TypeOK, NEW w \in Workers, ReconcileWrite(w), NEW o \in Orders
  PROVE  LET seen == view[w].rows[o]
             trade == view[w].trades[o]
             to == IF seen = "none" THEN "none" ELSE Reconciled(seen, trade)
         IN  \/ to = seen /\ status'[o] = status[o]
             \/ /\ seen # "none" /\ to # seen /\ status'[o] = to
                /\ event'[o] = MoveEvent(seen, to,
                                 IF trade = NoTrade
                                   THEN "order_reconcile_required"
                                   ELSE "order_reconciled")
BY DEF ReconcileWrite

\* No step queues a row of ours that has ended.
LEMMA OursStayEnded ==
  ASSUME TypeOK, OursUnlisted, [Next]_vars, NEW o \in Orders \ (Legacy \cup Manual),
         status[o] \in Terminal
  PROVE  status'[o] # "queued"
<1>t. status[o] # "queued" /\ status[o] # "absent"
  BY DEF Terminal
<1>u. ASSUME status'[o] = status[o] PROVE status'[o] # "queued"
  BY <1>u, <1>t
<1>1. ASSUME NEW w \in Workers, ReconcileWrite(w) PROVE status'[o] # "queued"
  <2>1. view[w].trades[o] = NoTrade
    BY DEF OursUnlisted
  <2>2. Reconciled(view[w].rows[o], NoTrade) \in {"reconcile_required", view[w].rows[o]}
    BY DEF Reconciled
  <2> QED
    BY <1>1, <1>t, <2>1, <2>2, ReconcileRow
<1>2. ASSUME NEW s \in Syncers, SyncWrite(s) PROVE status'[o] # "queued"
  <2>1. fetched[s][o] = NoTrade
    BY DEF OursUnlisted
  <2>2. status'[o] = status[o]
    BY <1>2, <2>1 DEF SyncWrite
  <2> QED
    BY <2>2, <1>t
<1>3. ASSUME NEW w \in Workers, CommitBatch(w) PROVE status'[o] # "queued"
  BY <1>3, <1>t DEF CommitBatch, Outcome
<1>4. ASSUME NEW c \in Cancellers, CancelWrite(c) PROVE status'[o] # "queued"
  <2>1. status' = [status EXCEPT ![cancelling[c]] = "cancelled"]
    BY <1>4 DEF CancelWrite
  <2> QED
    BY <2>1, <1>t DEF TypeOK, TableTyped
<1>5. ASSUME NEW p \in Orders, CreateQueued(p) PROVE status'[o] # "queued"
  <2>1. p # o
    BY <1>5, <1>t DEF CreateQueued
  <2> QED
    BY <1>5, <2>1, <1>t DEF CreateQueued, TypeOK, TableTyped
<1>6. CASE status' = status
  BY <1>6, <1>u
<1> QED
  BY <1>1, <1>2, <1>3, <1>4, <1>5, <1>6 DEF Next, WorkerStep, BrokerMoves,
     CancelRead, Start, ReconcileRead, SelectBatch, CrashWorker, ClaimAndProcess,
     SyncFetch, SyncLoad, table, vars

\* An order whose cancellation was committed is not processed as it stands: a
\* locked row is still queued.  And an order of ours that has ended never
\* becomes queued again: it is processed once in its life.
THEOREM CancelHolds == Spec => CancelledStaysIdle
<1>1. TypeOK /\ Safe /\ [Next]_vars =>
        \A o \in Orders : status[o] = "cancelled" => claims'[o] <= claims[o]
  <2> SUFFICES ASSUME TypeOK, Safe, [Next]_vars, NEW o \in Orders,
                      claims'[o] > claims[o] \/ ~(claims'[o] <= claims[o])
               PROVE  status[o] # "cancelled"
    OBVIOUS
  <2>1. claims[o] \in Nat /\ claims'[o] \in Nat
    BY StepTyped DEF TypeOK, TableTyped
  <2>2. PICK w \in Workers : o \in locked[w]
    BY <2>1, ProcessedRowsLocked
  <2> QED
    BY <2>2 DEF Safe, Owned, ProcessedOnce
<1>2. TypeOK /\ OursUnlisted /\ [Next]_vars =>
        \A o \in Orders :
          (status[o] \in Terminal /\ status'[o] = "queued") => o \in Legacy \cup Manual
  BY OursStayEnded
<1>3. TypeOK /\ Safe /\ OursUnlisted /\ [Next]_vars =>
        \A o \in Orders :
          /\ status[o] = "cancelled" => claims'[o] <= claims[o]
          /\ (status[o] \in Terminal /\ status'[o] = "queued")
               => o \in Legacy \cup Manual
  BY <1>1, <1>2
<1>4. Spec => []OursUnlisted
  BY InitUnlisted, StepUnlisted, TypeCorrect, PTL DEF Spec
<1> QED
  BY <1>3, <1>4, TypeCorrect, SafeAlways, PTL DEF Spec, CancelledStaysIdle

\* Across a worker start no row keeps claiming to work at the broker unless
\* the broker lists it or somebody wrote it meanwhile.
THEOREM LostAreFlagged == Spec => RestartFlagsLost
<1>1. TypeOK /\ [Next]_vars =>
        \A w \in Workers, o \in Orders :
          (/\ wpc[w] = "reconciling" /\ wpc'[w] = "polling"
           /\ status'[o] \in ReconcileEligible \ {"reconcile_required"})
            => \/ view[w].trades[o] # NoTrade
               \/ status[o] # view[w].rows[o]
  <2> SUFFICES ASSUME TypeOK, [Next]_vars, NEW w \in Workers, NEW o \in Orders,
                      wpc[w] = "reconciling", wpc'[w] = "polling",
                      status'[o] \in ReconcileEligible \ {"reconcile_required"},
                      view[w].trades[o] = NoTrade
               PROVE  status[o] # view[w].rows[o]
    OBVIOUS
  <2>1. ReconcileWrite(w)
    BY ReconciliationEnds
  <2> QED
    BY <2>1, ReconcileRow DEF Reconciled, ReconcileEligible
<1> QED
  BY <1>1, TypeCorrect, PTL DEF Spec, RestartFlagsLost

\* Reconciliation records every move the transition table forbids as forced.
THEOREM ForcedAreRecorded == Spec => ReconcileRecordsForced
<1>1. TypeOK /\ [Next]_vars =>
        \A w \in Workers, o \in Orders :
          (/\ wpc[w] = "reconciling" /\ wpc'[w] = "polling"
           /\ status'[o] # status[o]
           /\ status[o] = view[w].rows[o]
           /\ ~can_transition(status[o], status'[o]))
            => event'[o] = "forced_status_change"
  <2> SUFFICES ASSUME TypeOK, [Next]_vars, NEW w \in Workers, NEW o \in Orders,
                      wpc[w] = "reconciling", wpc'[w] = "polling",
                      status'[o] # status[o], status[o] = view[w].rows[o],
                      ~can_transition(status[o], status'[o])
               PROVE  event'[o] = "forced_status_change"
    OBVIOUS
  <2>1. ReconcileWrite(w)
    BY ReconciliationEnds
  <2> QED
    BY <2>1, ReconcileRow DEF MoveEvent
<1> QED
  BY <1>1, TypeCorrect, PTL DEF Spec, ReconcileRecordsForced
=============================================================================
