----------------------------- MODULE FillIngest -----------------------------
(***************************************************************************)
(* How settled fills reach the trades and trade_executions tables.  IBKR   *)
(* builds a FlexQuery report over a window of closed days; a report is     *)
(* collected later, perhaps after a younger one, and its rows are upserted *)
(* in one transaction: parents, executions, the summary row of each combo, *)
(* canonical flags and the parents' aggregates.                            *)
(*                                                                         *)
(*   src/services/trade_sync_flexquery.py   rows to fills                  *)
(*   src/services/fill_ingest.py            the ingest                     *)
(*   src/services/sync_common.py            canonical flags, aggregates    *)
(*                                                                         *)
(* One account, whose id is left out of every key.  An execution id is the *)
(* sequence of its dot-separated segments; FLEX-TX-n has one segment.      *)
(* A price is kept as cash, quantity times price.                          *)
(***************************************************************************)
EXTENDS Integers, FiniteSets, FiniteSetsExt, SequencesExt, Sums

CONSTANTS
  Rows,       \* the EXECUTION rows IBKR will ever report, see RowType
  LastDay,    \* bound: trading days
  MaxReports  \* bound: reports requested and not yet collected

None == 0     \* an absent key, order reference or contract

RowType ==
  [id : Seq(Nat) \ {<< >>},  \* ibExecID, or FLEX-TX- and the transactionID
   order : Nat,              \* ibOrderID
   key : Nat,                \* brokerageOrderID, None when blank
   ref : Nat,                \* an orderReference of ours, None otherwise
   what : Nat,               \* the fill itself: names it for the properties
   con : Nat,                \* conid, which stands for the symbol too
   side : {"BUY", "SELL"},
   qty : Int, cash : Int,    \* signed as in the report
   at : Nat,                 \* dateTime
   day : 1 .. LastDay,       \* trading day
   published : 1 .. LastDay, \* first day a report carries the row
   book : BOOLEAN]           \* expiration, assignment or exercise

ASSUME IngestAssumption ==
  /\ {LastDay, MaxReports} \subseteq Nat \ {0}
  /\ Rows \subseteq RowType /\ IsFiniteSet(Rows)
  /\ \A r \in Rows : r.day < r.published /\ r.qty # 0   \* FlexQuery is T-1
  /\ \A r, s \in Rows : r.id = s.id => r = s

VARIABLES
  today,    \* the trading day
  reports,  \* reports built and not yet collected
  execs,    \* trade_executions by ib_exec_id
  trades    \* trades: quantity and notional by natural key

ingestVars == <<today, reports, execs, trades>>

IngestInit ==
  /\ today = 1
  /\ reports = {}
  /\ execs = << >>
  /\ trades = << >>

AbsOf(n) == IF n < 0 THEN -n ELSE n

-----------------------------------------------------------------------------
(* Reading a batch of rows. *)

\* _combo_groups: orders with executions in two contracts or more.
Combos(batch) ==
  {k \in {r.key : r \in batch} \ {None} :
     Cardinality({r.con : r \in {s \in batch : s.key = k}}) >= 2}

Legs(batch, k) == {r \in batch : r.key = k}

\* resolve_parent_trade and _resolve_combo_parent.  FlexQuery has no permId,
\* so that tier never applies; a trade is named by the key that finds it.
Parent(batch, r) ==
  IF r.key \in Combos(batch) THEN <<"combo", r.key>>
  ELSE IF r.ref # None THEN <<"ref", r.ref>>
  ELSE <<"order", r.order, r.con, r.side>>

\* _parse_exec_id.
Base(id) == IF Len(id) = 1 THEN id ELSE Front(id)
Revision(id) == IF Len(id) = 1 \/ Last(id) = 0 THEN 1 ELSE Last(id)

\* The combo's reserved leg slot 01 when its legs share a prefix, else an id
\* of its own; 0 stands for the segment "combo".
SummaryId(legs, k) ==
  LET prefixes == {SubSeq(r.id, 1, 2) : r \in {s \in legs : Len(s.id) >= 4}}
  IN  IF Cardinality(prefixes) = 1 THEN ChooseUnique(prefixes, LAMBDA p : TRUE) \o <<1, 1>>
                                   ELSE <<k, 0>>

Gcd(ns) == Max({d \in 1 .. Max(ns) : \A n \in ns : n % d = 0})

\* Mutant of Cash: the rows' cash is summed without its sign.
CashUnsigned(rs) == SumOver([r \in rs |-> AbsOf(r.cash)], rs)

Cash(rs) == SumOver([r \in rs |-> r.cash], rs)

\* The row _synthesize_combo_summary upserts.
Summary(legs, k) ==
  [trade |-> <<"combo", k>>, role |-> "combo_summary", canonical |-> TRUE,
   con |-> None, side |-> IF Cash(legs) > 0 THEN "BUY" ELSE "SELL",
   qty |-> Gcd({AbsOf(r.qty) : r \in legs}), cash |-> Cash(legs),
   at |-> Min({r.at : r \in legs}), day |-> Min({r.day : r \in legs}), book |-> FALSE]

\* The row _upsert_execution inserts.
Execution(batch, r) ==
  [trade |-> Parent(batch, r),
   role |-> IF r.key \in Combos(batch) THEN "leg" ELSE "standalone",
   canonical |-> TRUE, con |-> r.con, side |-> r.side, qty |-> r.qty,
   cash |-> r.cash, at |-> r.at, day |-> r.day, book |-> r.book]

-----------------------------------------------------------------------------
(* The ingest. *)

\* ON CONFLICT (ib_exec_id) DO UPDATE leaves the canonical flag alone, and
\* for a fill its time and side.
Kept(new) ==
  {"canonical"} \cup IF new.role = "combo_summary" THEN {} ELSE {"side", "at", "day"}

Merged(old, new) ==
  [column \in DOMAIN new |-> IF column \in Kept(new) THEN old[column] ELSE new[column]]

\* The rows a batch writes, by id.
Written(batch) ==
  LET fills == [id \in {r.id : r \in batch} |->
                  Execution(batch, ChooseUnique(batch, LAMBDA r : r.id = id))]
      summaries == [id \in {SummaryId(Legs(batch, k), k) : k \in Combos(batch)} |->
                      LET k == CHOOSE c \in Combos(batch) : SummaryId(Legs(batch, c), c) = id
                      IN  Summary(Legs(batch, k), k)]
  IN  [id \in DOMAIN fills \cup DOMAIN summaries |->
         IF id \in DOMAIN summaries THEN summaries[id] ELSE fills[id]]

Upserted(rows) ==
  [id \in DOMAIN execs \cup DOMAIN rows |->
     IF id \notin DOMAIN rows THEN execs[id]
     ELSE IF id \in DOMAIN execs THEN Merged(execs[id], rows[id])
     ELSE rows[id]]

\* Mutant of Flagged: a row is compared with the rows of its batch only.
FlaggedInBatch(table, rows) ==
  [id \in DOMAIN table |->
     IF \E j \in DOMAIN rows : Base(j) = Base(id)
       THEN [table[id] EXCEPT !.canonical =
               \A j \in DOMAIN rows : Base(j) = Base(id) => Revision(j) <= Revision(id)]
       ELSE table[id]]

\* _enforce_canonical_flags for every base the batch touched.
Flagged(table, rows) ==
  [id \in DOMAIN table |->
     IF \E j \in DOMAIN rows : Base(j) = Base(id)
       THEN [table[id] EXCEPT !.canonical =
               \A j \in DOMAIN table : Base(j) = Base(id) => Revision(j) <= Revision(id)]
       ELSE table[id]]

\* _recompute_trade_aggregates over a trade's canonical executions: the
\* summaries alone where there are any.
Counted(table, t) == {id \in DOMAIN table : table[id].trade = t /\ table[id].canonical}

Totals(rows) ==
  LET combos == {id \in DOMAIN rows : rows[id].role = "combo_summary"}
      counted == IF combos # {} THEN combos ELSE DOMAIN rows
      cash(id) == IF combos # {} THEN rows[id].cash ELSE AbsOf(rows[id].cash)
  IN  [qty |-> SumOver([id \in counted |-> AbsOf(rows[id].qty)], counted),
       cash |-> SumOver([id \in counted |-> cash(id)], counted)]

Aggregate(table, t) == Totals(Restrict(table, Counted(table, t)))

\* Mutant of Recomputed: the aggregates of a known trade are left alone.
RecomputedNew(table, touched) ==
  [t \in DOMAIN trades \cup touched |->
     IF t \in DOMAIN trades THEN trades[t] ELSE Aggregate(table, t)]

\* Only the parents of the batch's own rows are recomputed.
Recomputed(table, touched) ==
  [t \in DOMAIN trades \cup touched |->
     IF t \in touched THEN Aggregate(table, t) ELSE trades[t]]

\* trade_executions after ingest_fills.
Ingested(batch) == LET rows == Written(batch) IN Flagged(Upserted(rows), rows)

\* ingest_fills, in the caller's transaction.
IngestFills(batch) ==
  LET rows == Written(batch)
  IN  /\ execs' = Ingested(batch)
      /\ trades' = Recomputed(execs', {rows[id].trade : id \in DOMAIN rows})

-----------------------------------------------------------------------------
(* Reports. *)

\* What a report of days from .. to, built on day asOf, holds.
Content(rep) ==
  {r \in Rows : r.day \in rep.from .. rep.to /\ r.published <= rep.asOf}

\* _flexquery_window and the request: closed days only.
RequestReport(from, to) ==
  /\ from <= to /\ to < today
  /\ Cardinality(reports) < MaxReports
  /\ reports' = reports \cup {[from |-> from, to |-> to, asOf |-> today]}
  /\ UNCHANGED <<today, execs, trades>>

\* sync_flex_trades, its settlement side aside.
CollectReport(rep) ==
  /\ IngestFills(Content(rep))
  /\ reports' = reports \ {rep}
  /\ UNCHANGED today

NextDay ==
  /\ today < LastDay
  /\ today' = today + 1
  /\ UNCHANGED <<reports, execs, trades>>

IngestNext ==
  \/ NextDay
  \/ \E from, to \in 1 .. LastDay : RequestReport(from, to)
  \/ \E rep \in reports : CollectReport(rep)

IngestSpec == IngestInit /\ [][IngestNext]_ingestVars

-----------------------------------------------------------------------------
(* Properties. *)

\* A correction counts from the moment it is ingested and for good: of the
\* revisions of an execution the highest one stored is canonical and no other
\* is, although an older report may be collected after a younger one.
LatestRevisionCounts ==
  \A i \in DOMAIN execs :
    execs[i].canonical <=>
      \A j \in DOMAIN execs : Base(j) = Base(i) => Revision(j) <= Revision(i)

\* A trade's quantity and notional are those of the canonical executions it
\* holds now, whichever overlapping windows brought them.
AggregatesCurrent ==
  \A t \in DOMAIN trades : trades[t] = Aggregate(execs, t)

\* The reports that may be requested, and the case AggregatesCurrent rests on:
\* whichever of them brings an execution or a revision of it, the rows that come
\* with it give it the same parent.  A combo split over two reports breaks it:
\* one leg alone is a trade of its own.
Windows == [from : 1 .. LastDay, to : 1 .. LastDay, asOf : 1 .. LastDay]

ParentsStable ==
  \A v, w \in Windows :
    LET old == Written(Content(v))
        new == Written(Content(w))
    IN  \A i \in DOMAIN old, j \in DOMAIN new :
          Base(i) = Base(j) => old[i].trade = new[j].trade

\* The summaries a combo is aggregated from carry the cash of its legs,
\* neither less nor twice.
CashConserved ==
  \A t \in DOMAIN trades :
    LET of(role) == {id \in DOMAIN execs : /\ execs[id].trade = t
                                           /\ execs[id].role = role
                                           /\ execs[id].canonical}
    IN  of("leg") # {} =>
          trades[t].cash = SumOver([id \in of("leg") |-> execs[id].cash], of("leg"))

\* What it rests on: no window splits a combo, no leg is corrected (the summary
\* is built of both revisions), and a summary's id is like no other.
CombosWhole ==
  \A w \in Windows : \A k \in Combos(Content(w)) :
    LET legs == Legs(Rows, k) IN
    /\ Legs(Content(w), k) = legs
    /\ \A r \in legs, s \in Rows : Base(r.id) = Base(s.id) => r = s
    /\ \A r \in Rows : Base(r.id) # Base(SummaryId(legs, k))
    /\ \A j \in Combos(Rows) :
         Base(SummaryId(Legs(Rows, j), j)) = Base(SummaryId(legs, k)) => j = k

\* "Legs sharing a key share one BAG parent, and one summary row is
\* synthesized over them" (fill_ingest.py, NormalizedFill).
OneSummaryPerCombo ==
  \A i, j \in DOMAIN execs :
    execs[i].role = "combo_summary" /\ execs[j].role = "combo_summary"
      /\ execs[i].trade = execs[j].trade => i = j
=============================================================================
