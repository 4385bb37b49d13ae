---------------------------- MODULE OrderImport ----------------------------
(***************************************************************************)
(* Which row of the orders table a broker order is copied onto by          *)
(* sync_orders_with_ib (src/services/order_sync_tws.py): the row its       *)
(* orderRef names, else the row with its permId, else the row with its     *)
(* orderId, else a new one.                                                *)
(*                                                                         *)
(* The broker is external.  An order has a permId of its own for life.  An *)
(* orderId is a number in one client's session: the completed-orders       *)
(* report carries none, and ib_async's Order then reads as 0.              *)
(***************************************************************************)
EXTENDS Integers, Sequences, FiniteSets, SequencesExt

CONSTANTS
  BrokerOrders,  \* orders at the broker, 1 .. n: also their permIds
  OidOf,         \* their orderIds while they are open
  LocalOrders,   \* those whose orderRef names a row of ours
  Unwatched,     \* TRUE when an order may complete between two syncs
  MaxImports     \* bound: syncs

ASSUME ImportAssumption ==
  /\ BrokerOrders \subseteq Nat \ {0} /\ IsFiniteSet(BrokerOrders)
  /\ OidOf \in [BrokerOrders -> Nat]
  /\ LocalOrders \subseteq BrokerOrders
  /\ Unwatched \in BOOLEAN
  /\ MaxImports \in Nat

VARIABLES
  orderPhase,  \* of each broker order
  orderRows,   \* the orders table, by row id
  stamp,       \* what updated_at is stamped with
  importSyncs, \* for the bound: syncs so far
  inReport     \* the broker orders the newest sync reported

importVars == <<orderPhase, orderRows, stamp, importSyncs, inReport>>

\* The elements of a set one after the other, in some order.
Listings(S) == Bijection(1 .. Cardinality(S), S)

\* A local order's row exists before the broker has the order.
LocalRows(order) ==
  [i \in DOMAIN order |-> [ref |-> order[i], perm |-> -1, oid |-> -1,
                           holds |-> order[i], updated |-> 0]]

ImportInit ==
  /\ orderPhase = [b \in BrokerOrders |-> "unplaced"]
  /\ \E order \in Listings(LocalOrders) : orderRows = LocalRows(order)
  /\ stamp = 1
  /\ importSyncs = 0
  /\ inReport = {}

\* An order as the broker reports it; -1 stands for None.
TradeOf(b, oid) ==
  [order |-> b, ref |-> IF b \in LocalOrders THEN b ELSE -1, perm |-> b, oid |-> oid]

InPhase(p) == {b \in BrokerOrders : orderPhase[b] = p}

\* _collect_recent_trades: open orders first, then the completed ones.
Collected(open, completed) ==
  [i \in 1 .. Len(open) + Len(completed) |->
     IF i <= Len(open) THEN TradeOf(open[i], OidOf[open[i]])
     ELSE TradeOf(completed[i - Len(open)], 0)]

\* Of the rows that satisfy a filter the last updated, 0 when there is none.
NewestOf(table, ids) ==
  IF ids = {} THEN 0
  ELSE CHOOSE i \in ids : \A j \in ids : table[i].updated >= table[j].updated

\* Mutant of FindMatch: the permId is not looked at.
FindMatchNoPerm(table, t) ==
  LET byRef == {i \in DOMAIN table : t.ref # -1 /\ table[i].ref = t.ref}
      byOid == {i \in DOMAIN table : table[i].oid = t.oid}
  IN IF byRef # {} THEN NewestOf(table, byRef) ELSE NewestOf(table, byOid)

\* _find_matching_order.
FindMatch(table, t) ==
  LET byRef == {i \in DOMAIN table : t.ref # -1 /\ table[i].ref = t.ref}
      byPerm == {i \in DOMAIN table : table[i].perm = t.perm}
      byOid == {i \in DOMAIN table : table[i].oid = t.oid}
  IN IF byRef # {} THEN NewestOf(table, byRef)
     ELSE IF byPerm # {} THEN NewestOf(table, byPerm)
     ELSE NewestOf(table, byOid)

\* "parse_int(new) or old": a zero does not overwrite.
NewUnlessZero(new, old) == IF new # 0 THEN new ELSE old

\* _apply_trade_fields.
ApplyTradeFields(row, t, now) ==
  [row EXCEPT !.perm = NewUnlessZero(t.perm, @), !.oid = NewUnlessZero(t.oid, @),
              !.holds = t.order, !.updated = now]

\* _create_order_from_trade, or _sync_trade_onto_order on the matched row.
Copied(table, t, now) ==
  LET i == FindMatch(table, t) IN
  IF i = 0
    THEN Append(table, [ref |-> -1, perm |-> t.perm, oid |-> t.oid,
                        holds |-> t.order, updated |-> now])
    ELSE [table EXCEPT ![i] = ApplyTradeFields(@, t, now)]

\* The table after the first n trades.
ImportedUpTo(trades) ==
  LET after[n \in 0 .. Len(trades)] ==
        IF n = 0 THEN orderRows ELSE Copied(after[n - 1], trades[n], stamp + n)
  IN after

\* sync_orders_with_ib: every collected trade in turn, one commit.  An order that
\* completes between the two answers of the broker is in both, and is seen
\* twice unless its key, with the orderId, is the same in both.
ImportOrders ==
  /\ importSyncs < MaxImports
  /\ \E late \in SUBSET InPhase("open") :
       \E open \in Listings(InPhase("open")),
          completed \in Listings(InPhase("completed") \cup {b \in late : OidOf[b] # 0}) :
         \E trades \in {Collected(open, completed)} :
           /\ orderPhase' = [b \in BrokerOrders |->
                               IF b \in late THEN "completed" ELSE orderPhase[b]]
           /\ orderRows' = ImportedUpTo(trades)[Len(trades)]
           /\ stamp' = stamp + Len(trades)
  /\ inReport' = InPhase("open") \cup InPhase("completed")
  /\ importSyncs' = importSyncs + 1

\* The broker moves an order on.  A watched order does not complete before a
\* sync has seen it open.
BrokerMoves(b) ==
  /\ \/ orderPhase[b] = "unplaced" /\ orderPhase' = [orderPhase EXCEPT ![b] = "open"]
     \/ /\ orderPhase[b] = "open"
        /\ Unwatched \/ \E i \in DOMAIN orderRows : orderRows[i].perm = b
        /\ orderPhase' = [orderPhase EXCEPT ![b] = "completed"]
     \/ orderPhase[b] = "completed" /\ orderPhase' = [orderPhase EXCEPT ![b] = "forgotten"]
  /\ UNCHANGED <<orderRows, stamp, importSyncs, inReport>>

ImportNext == ImportOrders \/ \E b \in BrokerOrders : BrokerMoves(b)

ImportSpec == ImportInit /\ [][ImportNext]_importVars

-----------------------------------------------------------------------------
\* A row that holds a broker order keeps holding it: no later sync hands the
\* row, with its events and its id in the UI, to another order.
RowsKeepTheirOrder ==
  [][\A i \in DOMAIN orderRows : orderRows'[i].holds = orderRows[i].holds]_importVars

\* The orderIds the code relies on: one for each order, and never the 0 that
\* stands for none.
OidsApart ==
  \A b, c \in BrokerOrders : OidOf[b] # 0 /\ (OidOf[b] = OidOf[c] => b = c)

\* Every order the newest sync reported has a row that holds it, and no two
\* rows hold the same order.
OneRowPerOrder ==
  /\ \A b \in inReport : \E i \in DOMAIN orderRows : orderRows[i].holds = b
  /\ \A i, j \in DOMAIN orderRows : orderRows[i].holds = orderRows[j].holds => i = j

\* "Idempotent matching by local orderRef and broker IDs" (order_sync_tws.py,
\* lines 3-4), over any number of syncs: each leaves one row per order, and the
\* rows it found still hold the orders they held.
MatchingIsIdempotent ==
  [][/\ OneRowPerOrder'
     /\ \A i \in DOMAIN orderRows : orderRows'[i].holds = orderRows[i].holds]_importVars
=============================================================================
