-------------------------- MODULE SettlementProofs --------------------------
(***************************************************************************)
(* What TLAPS proves of the ingest of settled fills, alone and beside the  *)
(* live fills, the syncs and the requests of Settlement: which revision of *)
(* a fill counts, what its trade adds up to, where group tags go, what the *)
(* trades page shows of it all, and what a combo is worth.                 *)
(***************************************************************************)
EXTENDS TradesPage, SumTheorems, FiniteSetTheorems, SequenceTheorems, TLAPS

Columns ==
  {"trade", "role", "canonical", "con", "side", "qty", "cash", "at", "day", "book"}

\* A row of trade_executions, as a function of its columns.
IsRow(r) == r = [column \in DOMAIN r |-> r[column]] /\ DOMAIN r = Columns

AreRows(table) ==
  /\ table = [id \in DOMAIN table |-> table[id]]
  /\ \A id \in DOMAIN table : IsRow(table[id])

\* A revision of the row is among the rows.
Touched(rows, id) == \E j \in DOMAIN rows : Base(j) = Base(id)

\* Setting the flag of a row leaves a row, with its trade.
LEMMA FlagSet ==
  ASSUME NEW r, IsRow(r), NEW f
  PROVE  /\ IsRow([r EXCEPT !.canonical = f])
         /\ [r EXCEPT !.canonical = f].canonical = f
         /\ [r EXCEPT !.canonical = f].trade = r.trade
BY DEF IsRow, Columns

\* An upsert leaves a row, with the trade of the new one.
LEMMA MergedRow ==
  ASSUME NEW old, NEW new, IsRow(new)
  PROVE  IsRow(Merged(old, new)) /\ Merged(old, new).trade = new.trade
BY DEF IsRow, Columns, Merged, Kept

\* What a batch writes is rows.
LEMMA WrittenRows == ASSUME NEW batch PROVE AreRows(Written(batch))
<1> DEFINE fills == [id \in {r.id : r \in batch} |->
                  Execution(batch, ChooseUnique(batch, LAMBDA r : r.id = id))]
           summaries == [id \in {SummaryId(Legs(batch, k), k) : k \in Combos(batch)} |->
                      LET k == CHOOSE c \in Combos(batch) : SummaryId(Legs(batch, c), c) = id
                      IN  Summary(Legs(batch, k), k)]
<1>1. \A r : IsRow(Execution(batch, r))
  BY DEF IsRow, Columns, Execution
<1>2. \A legs, k : IsRow(Summary(legs, k))
  BY DEF IsRow, Columns, Summary
<1>3. \A id \in DOMAIN fills : IsRow(fills[id])
  BY <1>1
<1>4. \A id \in DOMAIN summaries : IsRow(summaries[id])
  BY <1>2
<1>5. Written(batch) = [id \in DOMAIN fills \cup DOMAIN summaries |->
         IF id \in DOMAIN summaries THEN summaries[id] ELSE fills[id]]
  BY DEF Written
<1> HIDE DEF fills, summaries
<1> QED BY <1>3, <1>4, <1>5 DEF AreRows

\* An upserted table has every old id and every id of the batch; the batch
\* gives its ids their trade.
LEMMA UpsertedRows ==
  ASSUME AreRows(execs), NEW rows, AreRows(rows)
  PROVE  /\ AreRows(Upserted(rows))
         /\ DOMAIN Upserted(rows) = DOMAIN execs \cup DOMAIN rows
         /\ \A id \in DOMAIN rows : Upserted(rows)[id].trade = rows[id].trade
         /\ \A id \in DOMAIN execs \ DOMAIN rows : Upserted(rows)[id] = execs[id]
<1>1. /\ DOMAIN Upserted(rows) = DOMAIN execs \cup DOMAIN rows
      /\ Upserted(rows) = [id \in DOMAIN Upserted(rows) |-> Upserted(rows)[id]]
      /\ \A id \in DOMAIN execs \ DOMAIN rows : Upserted(rows)[id] = execs[id]
  BY DEF Upserted
<1>2. ASSUME NEW id \in DOMAIN rows
      PROVE  IsRow(Upserted(rows)[id]) /\ Upserted(rows)[id].trade = rows[id].trade
  <2>1. Upserted(rows)[id] \in {Merged(execs[id], rows[id]), rows[id]}
    BY DEF Upserted
  <2> QED BY <2>1, MergedRow DEF AreRows
<1> QED BY <1>1, <1>2 DEF AreRows

\* Flagging touches the revisions of the batch's fills only, and leaves the
\* latest of each the one that counts.
LEMMA FlaggedRows ==
  ASSUME NEW table, AreRows(table), NEW rows
  PROVE  /\ AreRows(Flagged(table, rows))
         /\ DOMAIN Flagged(table, rows) = DOMAIN table
         /\ \A id \in DOMAIN table :
              /\ Flagged(table, rows)[id].trade = table[id].trade
              /\ Touched(rows, id) =>
                   (Flagged(table, rows)[id].canonical <=>
                      \A j \in DOMAIN table : Base(j) = Base(id) => Revision(j) <= Revision(id))
              /\ ~Touched(rows, id) => Flagged(table, rows)[id] = table[id]
<1> DEFINE highest(id) == \A j \in DOMAIN table : Base(j) = Base(id) => Revision(j) <= Revision(id)
<1>1. Flagged(table, rows) = [id \in DOMAIN table |->
         IF Touched(rows, id) THEN [table[id] EXCEPT !.canonical = highest(id)] ELSE table[id]]
  BY DEF Flagged, Touched
<1> HIDE DEF highest
<1>2. ASSUME NEW id \in DOMAIN table
      PROVE  /\ IsRow([table[id] EXCEPT !.canonical = highest(id)])
             /\ [table[id] EXCEPT !.canonical = highest(id)].canonical = highest(id)
             /\ [table[id] EXCEPT !.canonical = highest(id)].trade = table[id].trade
  BY FlagSet DEF AreRows
<1>3. /\ DOMAIN Flagged(table, rows) = DOMAIN table
      /\ Flagged(table, rows) = [id \in DOMAIN table |-> Flagged(table, rows)[id]]
  BY <1>1
<1>4. ASSUME NEW id \in DOMAIN table
      PROVE  /\ IsRow(Flagged(table, rows)[id])
             /\ Flagged(table, rows)[id].trade = table[id].trade
             /\ Touched(rows, id) => Flagged(table, rows)[id].canonical = highest(id)
             /\ ~Touched(rows, id) => Flagged(table, rows)[id] = table[id]
  <2>1. CASE Touched(rows, id)
    <3>1. Flagged(table, rows)[id] = [table[id] EXCEPT !.canonical = highest(id)]
      BY <1>1, <2>1
    <3> QED BY <1>2, <2>1, <3>1
  <2>2. CASE ~Touched(rows, id)
    <3>1. Flagged(table, rows)[id] = table[id]
      BY <1>1, <2>2
    <3> QED BY <2>2, <3>1 DEF AreRows
  <2> QED BY <2>1, <2>2
<1> QED BY <1>3, <1>4 DEF highest, AreRows

\* What a batch does to trade_executions.
LEMMA IngestEffect ==
  ASSUME AreRows(execs), NEW batch
  PROVE  /\ AreRows(Ingested(batch))
         /\ DOMAIN Ingested(batch) = DOMAIN execs \cup DOMAIN Written(batch)
         /\ \A id \in DOMAIN Written(batch) : Ingested(batch)[id].trade = Written(batch)[id].trade
         /\ \A id \in DOMAIN execs \ DOMAIN Written(batch) : Ingested(batch)[id].trade = execs[id].trade
         /\ \A id \in DOMAIN Ingested(batch) : Touched(Written(batch), id) =>
              (Ingested(batch)[id].canonical <=>
                 \A j \in DOMAIN Ingested(batch) : Base(j) = Base(id) => Revision(j) <= Revision(id))
         /\ \A id \in DOMAIN Ingested(batch) : ~Touched(Written(batch), id) =>
              id \in DOMAIN execs /\ id \notin DOMAIN Written(batch) /\ Ingested(batch)[id] = execs[id]
<1> DEFINE rows == Written(batch)
           new == Ingested(batch)
<1>0. AreRows(rows)
  BY WrittenRows
<1>1. new = Flagged(Upserted(rows), rows)
  BY DEF Ingested
<1>2. /\ AreRows(Upserted(rows))
      /\ DOMAIN Upserted(rows) = DOMAIN execs \cup DOMAIN rows
      /\ \A id \in DOMAIN rows : Upserted(rows)[id].trade = rows[id].trade
      /\ \A id \in DOMAIN execs \ DOMAIN rows : Upserted(rows)[id] = execs[id]
  BY <1>0, UpsertedRows
<1>3. /\ AreRows(new) /\ DOMAIN new = DOMAIN Upserted(rows)
      /\ \A id \in DOMAIN new :
              /\ new[id].trade = Upserted(rows)[id].trade
              /\ Touched(rows, id) =>
                   (new[id].canonical <=>
                      \A j \in DOMAIN new : Base(j) = Base(id) => Revision(j) <= Revision(id))
              /\ ~Touched(rows, id) => new[id] = Upserted(rows)[id]
  BY <1>1, <1>2, FlaggedRows
<1>4. \A id \in DOMAIN rows : Touched(rows, id)
  BY DEF Touched
<1> QED BY <1>2, <1>3, <1>4

\* An ingest keeps the latest revision canonical, fill by fill, whatever order
\* the reports come in.
LEMMA IngestFlags ==
  ASSUME AreRows(execs), LatestRevisionCounts, NEW batch, IngestFills(batch)
  PROVE  AreRows(execs') /\ LatestRevisionCounts'
<1> DEFINE rows == Written(batch)
<1>1. execs' = Ingested(batch)
  BY DEF IngestFills
<1>2. /\ AreRows(execs')
      /\ DOMAIN execs' = DOMAIN execs \cup DOMAIN rows
      /\ \A id \in DOMAIN execs' : Touched(rows, id) =>
              (execs'[id].canonical <=>
                 \A j \in DOMAIN execs' : Base(j) = Base(id) => Revision(j) <= Revision(id))
      /\ \A id \in DOMAIN execs' : ~Touched(rows, id) =>
              id \in DOMAIN execs /\ id \notin DOMAIN rows /\ execs'[id] = execs[id]
  BY <1>1, IngestEffect
<1>3. ASSUME NEW i \in DOMAIN execs', ~Touched(rows, i)
      PROVE  execs'[i].canonical <=>
               \A j \in DOMAIN execs' : Base(j) = Base(i) => Revision(j) <= Revision(i)
  <2>1. \A j \in DOMAIN execs' : Base(j) = Base(i) => ~Touched(rows, j)
    BY <1>3 DEF Touched
  <2>2. \A j \in DOMAIN execs' : Base(j) = Base(i) => j \in DOMAIN execs
    BY <1>2, <2>1
  <2>3. DOMAIN execs \subseteq DOMAIN execs'
    BY <1>2
  <2>4. i \in DOMAIN execs /\ execs'[i] = execs[i]
    BY <1>2, <1>3
  <2> QED BY <2>2, <2>3, <2>4 DEF LatestRevisionCounts
<1> QED BY <1>2, <1>3 DEF LatestRevisionCounts

\* Every stored execution has the parent some report gave it.
Parented ==
  \A id \in DOMAIN execs : \E w \in Windows :
    /\ id \in DOMAIN Written(Content(w))
    /\ execs[id].trade = Written(Content(w))[id].trade

\* A trade the batch does not name keeps its canonical executions.
LEMMA IngestTotals ==
  ASSUME ParentsStable, AreRows(execs), Parented, AggregatesCurrent,
         NEW w \in Windows, IngestFills(Content(w))
  PROVE  Parented' /\ AggregatesCurrent'
<1> DEFINE rows == Written(Content(w))
           touched == {rows[id].trade : id \in DOMAIN rows}
<1>1. execs' = Ingested(Content(w)) /\ trades' = Recomputed(execs', touched)
  BY DEF IngestFills
<1>2. /\ DOMAIN execs' = DOMAIN execs \cup DOMAIN rows
      /\ \A id \in DOMAIN rows : execs'[id].trade = rows[id].trade
      /\ \A id \in DOMAIN execs \ DOMAIN rows : execs'[id].trade = execs[id].trade
      /\ \A id \in DOMAIN execs' : ~Touched(rows, id) =>
              id \in DOMAIN execs /\ id \notin DOMAIN rows /\ execs'[id] = execs[id]
  <2> DEFINE batch == Content(w)
  <2>1. execs' = Ingested(batch)
    BY <1>1
  <2> HIDE DEF batch
  <2>2. /\ AreRows(execs')
        /\ DOMAIN execs' = DOMAIN execs \cup DOMAIN Written(batch)
        /\ \A id \in DOMAIN Written(batch) : execs'[id].trade = Written(batch)[id].trade
        /\ \A id \in DOMAIN execs \ DOMAIN Written(batch) : execs'[id].trade = execs[id].trade
        /\ \A id \in DOMAIN execs' : ~Touched(Written(batch), id) =>
              id \in DOMAIN execs /\ id \notin DOMAIN Written(batch) /\ execs'[id] = execs[id]
    BY <2>1, IngestEffect
  <2> QED BY <2>2 DEF batch
<1>3. Parented'
  <2>1. ASSUME NEW id \in DOMAIN execs'
        PROVE  \E v \in Windows : /\ id \in DOMAIN Written(Content(v))
                                  /\ execs'[id].trade = Written(Content(v))[id].trade
    <3>1. CASE id \in DOMAIN rows
      BY <1>2, <3>1
    <3>2. CASE id \notin DOMAIN rows
      <4>1. id \in DOMAIN execs /\ execs'[id].trade = execs[id].trade
        BY <1>2, <3>2
      <4> QED BY <4>1 DEF Parented
    <3> QED BY <3>1, <3>2
  <2> QED BY <2>1 DEF Parented
<1>4. ASSUME NEW id \in DOMAIN execs, Touched(rows, id)
      PROVE  execs[id].trade \in touched
  <2>1. PICK j \in DOMAIN rows : Base(j) = Base(id)
    BY <1>4 DEF Touched
  <2>2. PICK v \in Windows : /\ id \in DOMAIN Written(Content(v))
                             /\ execs[id].trade = Written(Content(v))[id].trade
    BY DEF Parented
  <2>3. Written(Content(v))[id].trade = rows[j].trade
    BY <2>1, <2>2 DEF ParentsStable
  <2> QED BY <2>2, <2>3
<1>5. ASSUME NEW t, t \notin touched
      PROVE  Aggregate(execs', t) = Aggregate(execs, t)
  <2>1. \A id \in DOMAIN execs' : execs'[id].trade = t => ~Touched(rows, id)
    <3>1. ASSUME NEW id \in DOMAIN execs', execs'[id].trade = t, Touched(rows, id)
          PROVE  FALSE
      <4>1. CASE id \in DOMAIN rows
        BY <1>2, <1>5, <3>1, <4>1
      <4>2. CASE id \notin DOMAIN rows
        BY <1>2, <1>4, <1>5, <3>1, <4>2
      <4> QED BY <4>1, <4>2
    <3> QED BY <3>1
  <2>2. \A id \in DOMAIN execs : execs[id].trade = t => ~Touched(rows, id)
    BY <1>4, <1>5
  <2>3. DOMAIN execs \subseteq DOMAIN execs'
    BY <1>2
  <2>4. Counted(execs', t) = Counted(execs, t)
    BY <1>2, <2>1, <2>2, <2>3 DEF Counted
  <2>5. \A id \in Counted(execs, t) : execs'[id] = execs[id]
    BY <1>2, <2>2, <2>3 DEF Counted
  <2>6. Restrict(execs', Counted(execs', t)) = Restrict(execs, Counted(execs, t))
    BY <2>4, <2>5 DEF Restrict
  <2> QED BY <2>6 DEF Aggregate
<1>6. ASSUME NEW t \in DOMAIN trades'
      PROVE  trades'[t] = Aggregate(execs', t)
  <2>1. CASE t \in touched
    BY <1>1, <2>1 DEF Recomputed
  <2>2. CASE t \notin touched
    <3>1. t \in DOMAIN trades /\ trades'[t] = trades[t]
      BY <1>1, <1>6, <2>2 DEF Recomputed
    <3> QED BY <1>5, <2>2, <3>1 DEF AggregatesCurrent
  <2> QED BY <2>1, <2>2
<1> QED BY <1>3, <1>6 DEF AggregatesCurrent, Aggregate, Counted

-----------------------------------------------------------------------------
(* FillIngest alone. *)

ReportsInBounds == today \in 1 .. LastDay /\ reports \subseteq Windows

FlagsInv == AreRows(execs) /\ LatestRevisionCounts

TotalsInv == ReportsInBounds /\ AreRows(execs) /\ Parented /\ AggregatesCurrent

\* The tables start empty.
LEMMA IngestStarts == IngestInit => FlagsInv /\ TotalsInv
<1> SUFFICES ASSUME IngestInit PROVE FlagsInv /\ TotalsInv
  OBVIOUS
<1>1. execs = << >> /\ trades = << >> /\ DOMAIN execs = {} /\ DOMAIN trades = {}
  BY DEF IngestInit
<1>2. execs = [id \in DOMAIN execs |-> execs[id]]
  BY <1>1
<1>3. LastDay \in Nat \ {0}
  BY IngestAssumption
<1> QED BY <1>1, <1>2, <1>3 DEF IngestInit, FlagsInv, TotalsInv, ReportsInBounds, AreRows, Parented,
           AggregatesCurrent, LatestRevisionCounts

\* Every step of the ingest keeps the flags.
LEMMA IngestFlagsStep == FlagsInv /\ [IngestNext]_ingestVars => FlagsInv'
<1> SUFFICES ASSUME FlagsInv, [IngestNext]_ingestVars PROVE FlagsInv'
  OBVIOUS
<1>1. CASE execs' = execs
  BY <1>1 DEF FlagsInv, AreRows, LatestRevisionCounts
<1>2. CASE \E rep \in reports : CollectReport(rep)
  BY <1>2, IngestFlags DEF FlagsInv, CollectReport
<1> QED BY <1>1, <1>2 DEF IngestNext, NextDay, RequestReport, ingestVars

\* A report asked for is for days of the calendar.
LEMMA ReportsStay ==
  ASSUME ReportsInBounds, today' = today,
         reports' \subseteq reports \/ \E from, to \in 1 .. LastDay : RequestReport(from, to)
  PROVE  ReportsInBounds'
BY DEF ReportsInBounds, RequestReport, Windows

\* Every step of the ingest keeps each trade at the sum of what counts.
LEMMA IngestTotalsStep ==
  ASSUME ParentsStable, TotalsInv, [IngestNext]_ingestVars PROVE TotalsInv'
<1>1. CASE NextDay \/ UNCHANGED ingestVars
  <2>1. /\ execs' = execs /\ trades' = trades /\ reports' = reports /\ today' \in 1 .. LastDay
    BY <1>1, IngestAssumption DEF NextDay, ingestVars, TotalsInv, ReportsInBounds
  <2> QED BY <2>1 DEF TotalsInv, ReportsInBounds, AreRows, Parented, AggregatesCurrent
<1>2. CASE \E from, to \in 1 .. LastDay : RequestReport(from, to)
  <2>1. execs' = execs /\ trades' = trades /\ today' = today
    BY <1>2 DEF RequestReport
  <2>2. ReportsInBounds'
    BY <1>2, <2>1, ReportsStay DEF TotalsInv
  <2> QED BY <2>1, <2>2 DEF TotalsInv, AreRows, Parented, AggregatesCurrent
<1>3. CASE \E rep \in reports : CollectReport(rep)
  <2>1. PICK rep \in reports : CollectReport(rep)
    BY <1>3
  <2>2. rep \in Windows /\ IngestFills(Content(rep)) /\ today' = today /\ reports' \subseteq reports
    BY <2>1 DEF TotalsInv, ReportsInBounds, CollectReport
  <2>3. ReportsInBounds'
    BY <2>2, ReportsStay DEF TotalsInv
  <2>4. Parented' /\ AggregatesCurrent'
    BY <2>2, IngestTotals DEF TotalsInv
  <2>5. AreRows(execs')
    BY <2>2, IngestEffect DEF TotalsInv, IngestFills
  <2> QED BY <2>3, <2>4, <2>5 DEF TotalsInv
<1> QED BY <1>1, <1>2, <1>3 DEF IngestNext

\* Of the revisions of a fill exactly the latest counts, in whatever order
\* FlexQuery reports are collected (_enforce_canonical_flags).
THEOREM IngestKeepsLatestRevision == IngestSpec => []LatestRevisionCounts
<1>1. IngestInit => FlagsInv BY IngestStarts
<1>2. FlagsInv => LatestRevisionCounts BY DEF FlagsInv
<1> QED BY <1>1, <1>2, IngestFlagsStep, PTL DEF IngestSpec

\* The trades' quantities and cash are those of their canonical executions,
\* though an ingest recomputes only the trades its batch touches
\* (_IngestRun.finish, _recompute_trade_aggregates).  It rests on no report's
\* giving an execution another parent (ParentsStable): the parent an execution
\* leaves is not recomputed.
THEOREM IngestKeepsAggregates == ParentsStable => (IngestSpec => []AggregatesCurrent)
<1> SUFFICES ASSUME ParentsStable PROVE IngestSpec => []AggregatesCurrent
  OBVIOUS
<1>1. IngestInit => TotalsInv BY IngestStarts
<1>2. TotalsInv => AggregatesCurrent BY DEF TotalsInv
<1>3. TotalsInv /\ [IngestNext]_ingestVars => TotalsInv' BY IngestTotalsStep
<1> QED BY <1>1, <1>2, <1>3, PTL DEF IngestSpec

-----------------------------------------------------------------------------
(* With the live fills, the syncs and the requests of Settlement. *)

\* The report an open FlexQuery sync applies is one that could be requested.
SyncInBounds ==
  sync # Idle =>
    /\ {"kind", "reports"} \subseteq DOMAIN sync
    /\ sync.kind = "flex" => sync.reports \subseteq Windows

\* What a request notes in an open sync is not which reports it read.
LEMMA NotedInBounds ==
  ASSUME SyncInBounds, NEW ls, NoteInserted(ls) \/ sync' = sync \/ sync' = Idle
  PROVE  SyncInBounds'
<1>1. CASE sync = Idle \/ sync' = sync \/ sync' = Idle
  BY <1>1 DEF SyncInBounds, NoteInserted
<1>2. CASE sync # Idle /\ NoteInserted(ls)
  <2>1. PICK fresh : sync' = [sync EXCEPT !.fresh = fresh]
    BY <1>2 DEF NoteInserted
  <2>2. /\ DOMAIN sync' = DOMAIN sync
        /\ {"kind", "reports"} \subseteq DOMAIN sync =>
             sync'.kind = sync.kind /\ sync'.reports = sync.reports
    BY <2>1
  <2> QED BY <1>2, <2>2 DEF SyncInBounds
<1> QED BY <1>1, <1>2

\* What a step of the settled side and the live side can do to each other.
LEMMA WhoWrites ==
  ASSUME [Next]_vars
  PROVE  \/ /\ UNCHANGED ingestVars
            /\ \/ \E ls : NoteInserted(ls) \/ sync' = sync \/ sync' = Idle
               \/ ReadIntraday
               \/ \E rep \in reports : ReadFlex(rep)
         \/ (EndDay \/ Request) /\ sync' = sync
         \/ CommitFlex
BY DEF Next, vars, Fill, EndDay, Request, ReadIntraday, ReadFlex, EndSync, CommitIntraday, Abort, User, Act,
       AssignLiveExecution, UnassignLiveExecution, AssignExecution, UnassignExecution,
       AssignPosition, UnassignPosition, TagLive, UntagLive, liveVars

\* The same of the ingest inside the syncs of Settlement, which also abort and
\* run beside the user's requests.
THEOREM SettlementKeepsLatestRevision == Spec => []LatestRevisionCounts
<1>1. Init => FlagsInv
  BY IngestStarts DEF Init
<1>2. ASSUME FlagsInv, [Next]_vars PROVE FlagsInv'
  <2>1. CASE UNCHANGED ingestVars \/ EndDay \/ Request
    <3>1. execs' = execs
      BY <2>1 DEF ingestVars, EndDay, Request, NextDay, RequestReport
    <3> QED BY <1>2, <3>1 DEF FlagsInv, AreRows, LatestRevisionCounts
  <2>2. CASE CommitFlex
    <3>1. \E batch : IngestFills(batch)
      BY <2>2 DEF CommitFlex, CollectReport
    <3> QED BY <1>2, <3>1, IngestFlags DEF FlagsInv
  <2> QED BY <1>2, <2>1, <2>2, WhoWrites
<1>3. FlagsInv => LatestRevisionCounts BY DEF FlagsInv
<1> QED BY <1>1, <1>2, <1>3, PTL DEF Spec

\* The same of the aggregates, under the same hypothesis.
THEOREM SettlementKeepsAggregates == ParentsStable => (Spec => []AggregatesCurrent)
<1> SUFFICES ASSUME ParentsStable PROVE Spec => []AggregatesCurrent
  OBVIOUS
<1>1. Init => TotalsInv /\ SyncInBounds
  BY IngestStarts DEF Init, SyncInBounds
<1>2. ASSUME TotalsInv, SyncInBounds, [Next]_vars PROVE TotalsInv' /\ SyncInBounds'
  <2>1. CASE UNCHANGED ingestVars /\ \E ls : NoteInserted(ls) \/ sync' = sync \/ sync' = Idle
    BY <1>2, <2>1, NotedInBounds, IngestTotalsStep
  <2>2. CASE UNCHANGED ingestVars /\ ReadIntraday
    <3>1. sync'.kind = "intraday" /\ {"kind", "reports"} \subseteq DOMAIN sync'
      BY <2>2 DEF ReadIntraday, Reading
    <3> QED BY <1>2, <2>2, <3>1, IngestTotalsStep DEF SyncInBounds
  <2>3. CASE \E rep \in reports : ReadFlex(rep) /\ UNCHANGED ingestVars
    <3>1. PICK rep \in reports : ReadFlex(rep)
      BY <2>3
    <3>2. /\ {"kind", "reports"} \subseteq DOMAIN sync' /\ sync'.reports = {rep}
      BY <3>1 DEF ReadFlex, Reading
    <3>3. rep \in Windows
      BY <1>2 DEF TotalsInv, ReportsInBounds
    <3> QED BY <1>2, <2>3, <3>2, <3>3, IngestTotalsStep DEF SyncInBounds
  <2>4. CASE (EndDay \/ Request) /\ sync' = sync
    <3>1. [IngestNext]_ingestVars
      BY <2>4 DEF EndDay, Request, IngestNext
    <3> QED BY <1>2, <2>4, <3>1, IngestTotalsStep DEF SyncInBounds
  <2>5. CASE CommitFlex
    <3>1. PICK rep \in sync.reports : CollectReport(rep)
      BY <2>5 DEF CommitFlex
    <3>2. rep \in Windows
      BY <2>5, <3>1, <1>2 DEF SyncInBounds, CommitFlex, Idle
    <3>3. IngestFills(Content(rep)) /\ today' = today /\ reports' \subseteq reports /\ sync' = Idle
      BY <2>5, <3>1 DEF CollectReport, CommitFlex
    <3>4. Parented' /\ AggregatesCurrent'
      BY <1>2, <3>2, <3>3, IngestTotals DEF TotalsInv
    <3>5. AreRows(execs') /\ ReportsInBounds'
      BY <1>2, <3>3, IngestEffect, ReportsStay DEF TotalsInv, IngestFills
    <3> QED BY <3>3, <3>4, <3>5 DEF TotalsInv, SyncInBounds
  <2> QED BY <1>2, <2>1, <2>2, <2>3, <2>4, <2>5, WhoWrites
<1>3. TotalsInv => AggregatesCurrent BY DEF TotalsInv
<1> QED BY <1>1, <1>2, <1>3, PTL DEF Spec

-----------------------------------------------------------------------------
(* The handoff of tags. *)

\* Live fills are ones TWS reported; an open sync has read every table.
SyncRead ==
  /\ DOMAIN live \subseteq LiveIds /\ done \subseteq LiveIds
  /\ sync # Idle =>
       /\ {"kind", "reports", "fills"} \subseteq DOMAIN sync
       /\ sync.fills \subseteq LiveIds

\* Each move is of a live fill, to rows it may be taken for.
AreMatches(moves, table) ==
  \A m \in moves : /\ m.from \in LiveIds /\ m.to # {}
                   /\ m.to \subseteq DOMAIN table \cap MatchesOf(table, m.from)

\* The executions a live fill is matched with are in the table.
LEMMA TwinsInTable ==
  ASSUME NEW table, NEW l
  PROVE  /\ Twins(table, l) \subseteq DOMAIN table
         /\ SummaryAt(table, l) \subseteq DOMAIN table
         /\ SettledLegsAt(table, l) \subseteq DOMAIN table
<1> DEFINE all == IF StripMatches(table, l) # {} THEN StripMatches(table, l) ELSE BookMatches(table, l)
           at == {e \in DOMAIN table : table[e].role = "combo_summary" /\ table[e].at = LiveFill[l].at}
<1>1. all \subseteq DOMAIN table
  BY DEF StripMatches, BookMatches
<1>2. all # {} => (CHOOSE e \in all : TRUE) \in all
  <2> HIDE DEF all
  <2> QED OBVIOUS
<1>3. Twins(table, l) = IF all = {} THEN {} ELSE {CHOOSE e \in all : TRUE}
  BY DEF Twins
<1>4. at # {} => (CHOOSE e \in at : TRUE) \in at
  <2> HIDE DEF at
  <2> QED OBVIOUS
<1>5. SummaryAt(table, l) = IF at = {} THEN {} ELSE {CHOOSE e \in at : TRUE}
  BY DEF SummaryAt
<1>6. at \subseteq DOMAIN table
  OBVIOUS
<1> HIDE DEF all, at
<1>7. SettledLegsAt(table, l) \subseteq DOMAIN table
  BY DEF SettledLegsAt
<1> QED BY <1>1, <1>2, <1>3, <1>4, <1>5, <1>6, <1>7

\* Every match a sync makes is one of MatchesOf, be it by id, by the
\* combo's summary, or by the reconcile.
LEMMA MovesMatch ==
  ASSUME NEW table, NEW rows \in SUBSET LiveIds
  PROVE  /\ AreMatches(Exact(table, rows), table)
         /\ AreMatches(SummaryMatches(table, rows), table)
         /\ AreMatches(Reconciled(table, rows), table)
<1>1. ASSUME NEW m \in Exact(table, rows)
      PROVE  /\ m.from \in LiveIds /\ m.to # {}
             /\ m.to \subseteq DOMAIN table \cap MatchesOf(table, m.from)
  <2>1. PICK l \in rows \cap DOMAIN table : m = [from |-> l, to |-> {l}, rank |-> 1]
    BY DEF Exact
  <2> QED BY <2>1 DEF MatchesOf
<1>2. ASSUME NEW m \in SummaryMatches(table, rows)
      PROVE  /\ m.from \in LiveIds /\ m.to # {}
             /\ m.to \subseteq DOMAIN table \cap MatchesOf(table, m.from)
  <2>1. PICK l \in rows : /\ m = [from |-> l, to |-> SummaryAt(table, l), rank |-> 2]
                          /\ LiveFill[l].bag /\ SummaryAt(table, l) # {}
    BY DEF SummaryMatches
  <2> QED BY <2>1, TwinsInTable DEF MatchesOf
<1>3. ASSUME NEW m \in Reconciled(table, rows)
      PROVE  /\ m.from \in LiveIds /\ m.to # {}
             /\ m.to \subseteq DOMAIN table \cap MatchesOf(table, m.from)
  <2>1. \E l \in rows :
          \/ m = [from |-> l, to |-> Twins(table, l), rank |-> 3] /\ Twins(table, l) # {}
          \/ /\ m = [from |-> l, to |-> SettledLegsAt(table, l), rank |-> 4]
             /\ LiveFill[l].bag /\ SettledLegsAt(table, l) # {}
    BY DEF Reconciled
  <2> QED BY <2>1, TwinsInTable DEF MatchesOf
<1> QED BY <1>1, <1>2, <1>3 DEF AreMatches

\* One handover: no tag is dropped without an heir, none is given away from
\* its home and none is overwritten.
LEMMA HandOverSafe ==
  ASSUME NEW table, NEW moves, AreMatches(moves, table), HandOver(moves), ~Conflict(moves)
  PROVE  /\ \A l \in LiveIds : liveLink[l] # NoGroup /\ liveLink'[l] = NoGroup =>
              \E e \in MatchesOf(table, l) \cap DOMAIN table :
                (e \in ExecIds => execLink'[e] # NoGroup) \/ sync.held[e] # NoGroup
         /\ \A e \in ExecIds : execLink'[e] # execLink[e] =>
              /\ execLink[e] = NoGroup
              /\ \E l \in LiveIds : e \in MatchesOf(table, l) /\ sync.links[l] = execLink'[e]
<1>1. PICK giver \in [Targets(moves) -> From(Carried(moves))] :
        /\ \A e \in Targets(moves) : giver[e] \in Givers(moves, e)
        /\ execLink' = [e \in ExecIds |->
              IF e \in Targets(moves) THEN sync.links[giver[e]] ELSE execLink[e]]
  BY DEF HandOver
<1>2. liveLink' = [l \in LiveIds |-> IF l \in Dropped(moves) THEN NoGroup ELSE liveLink[l]]
  BY DEF HandOver
<1>3. \A e \in Targets(moves) : \E m \in moves :
         /\ e \in m.to /\ giver[e] = m.from /\ sync.links[m.from] # NoGroup
  BY <1>1 DEF Givers, Carried
<1>4. ASSUME NEW l \in LiveIds, liveLink[l] # NoGroup, liveLink'[l] = NoGroup
      PROVE  \E e \in MatchesOf(table, l) \cap DOMAIN table :
                (e \in ExecIds => execLink'[e] # NoGroup) \/ sync.held[e] # NoGroup
  <2>1. l \in Dropped(moves)
    BY <1>2, <1>4
  <2>2. PICK m \in Carried(moves) : m.from = l
    BY <2>1 DEF Dropped, From
  <2>3. PICK e \in m.to : e \in MatchesOf(table, l) \cap DOMAIN table
    BY <2>2 DEF AreMatches, Carried
  <2>4. sync.held[e] = NoGroup => e \in Targets(moves)
    BY <2>2, <2>3 DEF Targets
  <2>5. sync.held[e] = NoGroup /\ e \in ExecIds => execLink'[e] # NoGroup
    BY <1>1, <1>3, <2>4
  <2> QED BY <2>3, <2>5
<1>5. ASSUME NEW e \in ExecIds, execLink'[e] # execLink[e]
      PROVE  /\ execLink[e] = NoGroup
             /\ \E l \in LiveIds : e \in MatchesOf(table, l) /\ sync.links[l] = execLink'[e]
  <2>1. e \in Targets(moves) /\ execLink'[e] = sync.links[giver[e]]
    BY <1>1, <1>5
  <2>2. execLink[e] = NoGroup
    BY <2>1 DEF Conflict
  <2>3. PICK m \in moves : e \in m.to /\ giver[e] = m.from
    BY <1>3, <2>1
  <2> QED BY <2>1, <2>2, <2>3 DEF AreMatches
<1> QED BY <1>4, <1>5

\* The ids a batch writes are ones trade_executions can hold.
LEMMA WrittenIds ==
  ASSUME NEW batch \in SUBSET Rows
  PROVE  DOMAIN Written(batch) \subseteq ExecIds
<1>1. DOMAIN Written(batch) = {r.id : r \in batch} \cup {SummaryId(Legs(batch, k), k) : k \in Combos(batch)}
  BY DEF Written
<1>2. ASSUME NEW k \in Combos(batch)
      PROVE  SummaryId(Legs(batch, k), k) \in ExecIds
  <2> DEFINE long == {s \in Legs(batch, k) : Len(s.id) >= 4}
             prefixes == {SubSeq(r.id, 1, 2) : r \in long}
  <2>1. IsFiniteSet(prefixes)
    <3>1. IsFiniteSet(long)
      BY IngestAssumption, FS_Subset DEF Legs
    <3> DEFINE f == [r \in long |-> SubSeq(r.id, 1, 2)]
    <3>2. f \in Surjection(long, prefixes)
      BY DEF Surjection
    <3> HIDE DEF long, prefixes, f
    <3> QED BY <3>1, <3>2, FS_Surjection
  <2>2. CASE Cardinality(prefixes) = 1
    <3>1. PICK p : prefixes = {p}
      <4> HIDE DEF prefixes
      <4> QED BY <2>1, <2>2, FS_Singleton
    <3>2. ChooseUnique(prefixes, LAMBDA x : TRUE) = p
      <4> HIDE DEF prefixes
      <4> QED BY <3>1 DEF ChooseUnique
    <3>3. SummaryId(Legs(batch, k), k) = p \o <<1, 1>>
      BY <2>2, <3>2 DEF SummaryId
    <3>4. PICK r \in long : p = SubSeq(r.id, 1, 2)
      BY <3>1
    <3>5. r \in Rows /\ r.id \in {i \in {s.id : s \in Rows} : Len(i) >= 4}
      BY DEF Legs
    <3> HIDE DEF long, prefixes
    <3> QED BY <3>3, <3>4, <3>5 DEF ExecIds
  <2>3. CASE Cardinality(prefixes) # 1
    <3>1. SummaryId(Legs(batch, k), k) = <<k, 0>>
      BY <2>3 DEF SummaryId
    <3>2. PICK r \in batch : k = r.key
      BY DEF Combos
    <3> QED BY <3>1, <3>2 DEF ExecIds
  <2> QED BY <2>2, <2>3
<1>3. {r.id : r \in batch} \subseteq ExecIds
  BY DEF ExecIds
<1> QED BY <1>1, <1>2, <1>3

HandoffInv == SyncRead /\ AreRows(execs) /\ DOMAIN execs \subseteq ExecIds

\* What a request notes in an open sync is not what the sync has read.
LEMMA SyncStaysRead ==
  ASSUME SyncRead, live' = live, done' = done,
         NEW ls, NoteInserted(ls) \/ sync' = sync \/ sync' = Idle
  PROVE  SyncRead'
<1>1. CASE sync = Idle \/ sync' = sync \/ sync' = Idle
  BY <1>1 DEF SyncRead, NoteInserted
<1>2. CASE sync # Idle /\ NoteInserted(ls)
  <2>1. PICK fresh : sync' = [sync EXCEPT !.fresh = fresh]
    BY <1>2 DEF NoteInserted
  <2>2. /\ DOMAIN sync' = DOMAIN sync
        /\ "fills" \in DOMAIN sync => sync'.fills = sync.fills
    BY <2>1
  <2> QED BY <1>2, <2>2 DEF SyncRead
<1> QED BY <1>1, <1>2

\* The actions that touch neither the settled table nor a sync's commit.
LEMMA QuietSteps ==
  ASSUME [Next]_vars
  PROVE  \/ CommitIntraday \/ CommitFlex \/ ReadIntraday
         \/ (\E rep \in reports : ReadFlex(rep))
         \/ (\E l \in LiveIds : Fill(l))
         \/ /\ UNCHANGED <<execs, live, done, liveLink, execLink>>
            /\ sync' = sync \/ sync' = Idle
         \/ /\ UNCHANGED <<execs, live, done>>
            /\ \E ls : NoteInserted(ls) \/ sync' = sync
<1>1. CASE User
  BY <1>1 DEF User, Act, ingestVars, AssignLiveExecution, UnassignLiveExecution, AssignExecution,
       UnassignExecution, AssignPosition, UnassignPosition, TagLive, UntagLive
<1>2. CASE EndDay \/ Request \/ Abort \/ UNCHANGED vars
  BY <1>2 DEF EndDay, Request, Abort, NextDay, RequestReport, vars, ingestVars, liveVars
<1> QED BY <1>1, <1>2 DEF Next, EndSync

\* The live rows a sync writes are fills TWS reported.
LEMMA LiveWrittenIds ==
  ASSUME SyncRead, sync # Idle
  PROVE  DOMAIN LiveWritten(sync.fills) \subseteq LiveIds
BY DEF SyncRead, LiveWritten

\* Every step keeps the sync's reading and the executions those of fills.
LEMMA HandoffStep == HandoffInv /\ [Next]_vars => HandoffInv'
<1> SUFFICES ASSUME HandoffInv, [Next]_vars PROVE HandoffInv'
  OBVIOUS
<1>1. CASE UNCHANGED <<execs, live, done>> /\ \E ls : NoteInserted(ls) \/ sync' = sync \/ sync' = Idle
  BY <1>1, SyncStaysRead DEF HandoffInv, AreRows
<1>2. CASE ReadIntraday \/ \E rep \in reports : ReadFlex(rep)
  <2>1. /\ execs' = execs /\ live' = live /\ done' = done
        /\ {"kind", "reports", "fills"} \subseteq DOMAIN sync' /\ sync'.fills \subseteq done
    BY <1>2 DEF ReadIntraday, ReadFlex, Reading, ingestVars
  <2> QED BY <2>1 DEF HandoffInv, SyncRead, AreRows
<1>3. CASE \E l \in LiveIds : Fill(l)
  BY <1>3 DEF HandoffInv, SyncRead, AreRows, Fill, ingestVars
<1>4. CASE CommitIntraday
  <2>1. PICK moves : live' = Restrict(LiveWritten(sync.fills), DOMAIN LiveWritten(sync.fills) \ From(moves))
    BY <1>4 DEF CommitIntraday
  <2>2. sync # Idle /\ execs' = execs /\ sync' = Idle /\ done' = done
    BY <1>4 DEF CommitIntraday, Idle, ingestVars
  <2>3. DOMAIN live' \subseteq LiveIds
    BY <2>1, <2>2, LiveWrittenIds DEF HandoffInv, Restrict
  <2> QED BY <2>2, <2>3 DEF HandoffInv, SyncRead, AreRows
<1>5. CASE CommitFlex
  <2>1. PICK rep \in sync.reports : CollectReport(rep)
    BY <1>5 DEF CommitFlex
  <2>2. IngestFills(Content(rep)) /\ Content(rep) \in SUBSET Rows
    BY <2>1 DEF CollectReport, Content
  <2>3. AreRows(execs') /\ DOMAIN execs' \subseteq ExecIds
    BY <2>2, IngestEffect, WrittenIds DEF IngestFills, HandoffInv
  <2>4. \E S : live' = Restrict(live, DOMAIN live \ S)
    BY <1>5 DEF CommitFlex
  <2>5. sync' = Idle /\ done' = done /\ DOMAIN live' \subseteq DOMAIN live
    BY <1>5, <2>4 DEF CommitFlex, Restrict
  <2> QED BY <2>3, <2>5 DEF HandoffInv, SyncRead
<1> QED BY <1>1, <1>2, <1>3, <1>4, <1>5, QuietSteps

\* Moves as a commit gathers them are matches in the settled table it leaves.
LEMMA CommitMoves ==
  ASSUME HandoffInv, CommitIntraday \/ CommitFlex
  PROVE  \E moves : AreMatches(moves, execs') /\ HandOver(moves) /\ ~Conflict(moves)
<1>1. ASSUME CommitIntraday
      PROVE  \E moves : AreMatches(moves, execs') /\ HandOver(moves) /\ ~Conflict(moves)
  <2> DEFINE rows == DOMAIN LiveWritten(sync.fills)
             purged == Purged(execs, rows)
             moves == IntradayMoves(rows)
  <2>1. ~Conflict(moves) /\ HandOver(moves)
    BY <1>1 DEF CommitIntraday
  <2>2. rows \in SUBSET LiveIds
    BY <1>1, LiveWrittenIds DEF CommitIntraday, Idle, HandoffInv
  <2> HIDE DEF rows
  <2>3. AreMatches(Reconciled(execs, rows \ From(purged)), execs)
    BY <2>2, MovesMatch
  <2>4. AreMatches(purged, execs)
    BY <2>2, MovesMatch DEF Purged, AreMatches
  <2>5. AreMatches(moves, execs)
    BY <2>3, <2>4 DEF IntradayMoves, AreMatches
  <2>6. execs' = execs
    BY <1>1 DEF CommitIntraday, ingestVars
  <2> HIDE DEF moves
  <2> QED BY <2>1, <2>5, <2>6
<1>2. ASSUME CommitFlex
      PROVE  \E moves : AreMatches(moves, execs') /\ HandOver(moves) /\ ~Conflict(moves)
  <2> DEFINE moves == FlexCarried(execs') \cup Reconciled(execs', DOMAIN live)
  <2>1. ~Conflict(moves) /\ HandOver(moves)
    BY <1>2 DEF CommitFlex
  <2>2. AreMatches(Reconciled(execs', DOMAIN live), execs')
    BY MovesMatch DEF HandoffInv, SyncRead
  <2>3. AreMatches(FlexCarried(execs'), execs')
    BY MovesMatch DEF FlexCarried
  <2>4. AreMatches(moves, execs')
    BY <2>2, <2>3 DEF AreMatches
  <2> HIDE DEF moves
  <2> QED BY <2>1, <2>4
<1> QED BY <1>1, <1>2

\* Of the steps that end with a commit, only the two syncs write links.
LEMMA OnlyCommits ==
  ASSUME HandoffInv, [Next]_vars, Committed
  PROVE  CommitIntraday \/ CommitFlex \/ UNCHANGED <<liveLink, execLink>>
<1>1. ASSUME NEW ls, NoteInserted(ls) PROVE FALSE
  <2>1. PICK fresh : sync' = [sync EXCEPT !.fresh = fresh]
    BY <1>1 DEF NoteInserted, Committed
  <2>2. "reports" \in DOMAIN sync /\ DOMAIN sync' = DOMAIN sync
    BY <2>1 DEF Committed, HandoffInv, SyncRead
  <2>3. DOMAIN Idle = {"kind"}
    BY DEF Idle
  <2> QED BY <2>2, <2>3 DEF Committed
<1>2. sync # Idle /\ sync' = Idle
  BY DEF Committed
<1> QED BY <1>1, <1>2, QuietSteps DEF ReadIntraday, ReadFlex, Fill

\* A committed sync drops the tag of a live fill only where an execution of the
\* same fill has one, and tags an execution only with the tag of its live fill.
LEMMA CommittedSafe ==
  ASSUME HandoffInv, [Next]_vars, Committed, MatchesAreHome'
  PROVE  /\ \A l \in LiveIds : liveLink[l] # NoGroup /\ liveLink'[l] = NoGroup =>
              \E e \in Home[l] \cap DOMAIN execs' :
                execLink'[e] # NoGroup \/ sync.held[e] # NoGroup
         /\ \A e \in ExecIds : execLink'[e] # execLink[e] =>
              /\ execLink[e] = NoGroup
              /\ \E l \in LiveIds : e \in Home[l] /\ sync.links[l] = execLink'[e]
<1>1. CASE UNCHANGED <<liveLink, execLink>>
  BY <1>1
<1>2. CASE CommitIntraday \/ CommitFlex
  <2>1. PICK moves : AreMatches(moves, execs') /\ HandOver(moves) /\ ~Conflict(moves)
    BY <1>2, CommitMoves
  <2>2. DOMAIN execs' \subseteq ExecIds
    BY HandoffStep DEF HandoffInv
  <2>3. \A l \in LiveIds : MatchesOf(execs', l) \subseteq Home[l]
    BY DEF MatchesAreHome, MatchesOf, Twins, StripMatches, BookMatches, SameContractFill, SettledLegsAt, SummaryAt
  <2> QED BY <2>1, <2>2, <2>3, HandOverSafe
<1> QED BY <1>1, <1>2, OnlyCommits

-----------------------------------------------------------------------------
(* Matches of fills that the matchers' keys tell apart. *)

\* Rows that differ in the flag only.
SameRow(r, s) ==
  DOMAIN r = DOMAIN s /\ \A column \in DOMAIN r \ {"canonical"} : r[column] = s[column]

AsWritten ==
  \A e \in DOMAIN execs : \E w \in Windows :
    /\ e \in DOMAIN Written(Content(w))
    /\ DOMAIN Written(Content(w)) \subseteq DOMAIN execs
    /\ SameRow(execs[e], Written(Content(w))[e])

\* An upsert of a row over one that differs in the flag leaves one that does.
LEMMA MergedSame ==
  ASSUME NEW old, NEW new, SameRow(old, new) PROVE SameRow(Merged(old, new), new)
BY DEF SameRow, Merged, Kept

\* ... and so does flagging it.
LEMMA FlaggedSame ==
  ASSUME NEW table, AreRows(table), NEW rows, NEW e \in DOMAIN table
  PROVE  SameRow(Flagged(table, rows)[e], table[e])
<1>1. IsRow(table[e])
  BY DEF AreRows
<1>2. Flagged(table, rows)[e] = table[e]
        \/ \E f : Flagged(table, rows)[e] = [table[e] EXCEPT !.canonical = f]
  BY DEF Flagged
<1>3. \A f : SameRow([table[e] EXCEPT !.canonical = f], table[e])
  BY <1>1 DEF IsRow, SameRow
<1> QED BY <1>2, <1>3 DEF SameRow

\* So an ingest leaves the rows of its batch as the batch has them and the
\* others as they were.
LEMMA IngestedSame ==
  ASSUME AreRows(execs), NEW batch,
         \A e \in DOMAIN execs \cap DOMAIN Written(batch) : SameRow(execs[e], Written(batch)[e])
  PROVE  /\ DOMAIN Ingested(batch) = DOMAIN execs \cup DOMAIN Written(batch)
         /\ \A e \in DOMAIN Ingested(batch) :
              IF e \in DOMAIN Written(batch) THEN SameRow(Ingested(batch)[e], Written(batch)[e])
              ELSE SameRow(Ingested(batch)[e], execs[e])
<1> DEFINE rows == Written(batch)
           table == Upserted(rows)
<1>1. AreRows(rows)
  BY WrittenRows
<1>2. AreRows(table) /\ DOMAIN table = DOMAIN execs \cup DOMAIN rows
  BY <1>1, UpsertedRows
<1>3. ASSUME NEW e \in DOMAIN rows PROVE SameRow(table[e], rows[e])
  <2>1. table[e] = IF e \in DOMAIN execs THEN Merged(execs[e], rows[e]) ELSE rows[e]
    BY DEF Upserted
  <2>2. SameRow(rows[e], rows[e])
    BY DEF SameRow
  <2> QED BY <2>1, <2>2, MergedSame
<1>4. \A e \in DOMAIN execs \ DOMAIN rows : table[e] = execs[e]
  BY DEF Upserted
<1>5. Ingested(batch) = Flagged(table, rows)
  BY DEF Ingested
<1> HIDE DEF rows, table
<1>6. \A e \in DOMAIN table : SameRow(Flagged(table, rows)[e], table[e])
  BY <1>2, FlaggedSame
<1>7. DOMAIN Flagged(table, rows) = DOMAIN table
  BY <1>2, FlaggedRows
<1>8. \A a, b, c : SameRow(a, b) /\ SameRow(b, c) => SameRow(a, c)
  BY DEF SameRow
<1> QED BY <1>2, <1>3, <1>4, <1>5, <1>6, <1>7, <1>8 DEF rows

\* Every ingest of a report leaves rows some report had.
LEMMA IngestAsWritten ==
  ASSUME RowsStable, AreRows(execs), AsWritten, NEW w \in Windows, IngestFills(Content(w))
  PROVE  AsWritten'
<1> DEFINE batch == Content(w)
<1>1. execs' = Ingested(batch)
  BY DEF IngestFills
<1>2. \A e \in DOMAIN execs \cap DOMAIN Written(batch) : SameRow(execs[e], Written(batch)[e])
  BY DEF AsWritten, RowsStable
<1> HIDE DEF batch
<1>3. /\ DOMAIN execs' = DOMAIN execs \cup DOMAIN Written(batch)
      /\ \A e \in DOMAIN execs' :
           IF e \in DOMAIN Written(batch) THEN SameRow(execs'[e], Written(batch)[e])
           ELSE SameRow(execs'[e], execs[e])
  BY <1>1, <1>2, IngestedSame
<1>4. \A a, b, c : SameRow(a, b) /\ SameRow(b, c) => SameRow(a, c)
  BY DEF SameRow
<1>5. ASSUME NEW e \in DOMAIN execs'
      PROVE  \E v \in Windows : /\ e \in DOMAIN Written(Content(v))
                                /\ DOMAIN Written(Content(v)) \subseteq DOMAIN execs'
                                /\ SameRow(execs'[e], Written(Content(v))[e])
  <2>1. CASE e \in DOMAIN Written(batch)
    BY <1>3, <2>1 DEF batch
  <2>2. CASE e \notin DOMAIN Written(batch)
    <3>1. e \in DOMAIN execs /\ SameRow(execs'[e], execs[e])
      BY <1>3, <2>2
    <3>2. PICK v \in Windows : /\ e \in DOMAIN Written(Content(v))
                               /\ DOMAIN Written(Content(v)) \subseteq DOMAIN execs
                               /\ SameRow(execs[e], Written(Content(v))[e])
      BY <3>1 DEF AsWritten
    <3> QED BY <1>3, <1>4, <3>1, <3>2
  <2> QED BY <2>1, <2>2
<1> QED BY <1>5 DEF AsWritten

\* What the matchers may take a row of the table for is decided by columns that
\* are as a report had them.
LEMMA AsWrittenHome ==
  ASSUME FillsToldApart, AreRows(execs), AsWritten
  PROVE  MatchesAreHome
<1> SUFFICES ASSUME NEW l \in LiveIds, NEW e \in MatchesOf(execs, l) PROVE e \in Home[l]
  BY DEF MatchesAreHome
<1>1. Twins(execs, l) \subseteq StripMatches(execs, l) \cup BookMatches(execs, l)
  <2> DEFINE all == IF StripMatches(execs, l) # {} THEN StripMatches(execs, l)
                    ELSE BookMatches(execs, l)
  <2>1. Twins(execs, l) = IF all = {} THEN {} ELSE {CHOOSE x \in all : TRUE}
    BY DEF Twins
  <2>2. all # {} => (CHOOSE x \in all : TRUE) \in all
    <3> HIDE DEF all
    <3> QED OBVIOUS
  <2> QED BY <2>1, <2>2
<1>2. SummaryAt(execs, l) \subseteq
        {x \in DOMAIN execs : execs[x].role = "combo_summary" /\ execs[x].at = LiveFill[l].at}
  <2> DEFINE at == {x \in DOMAIN execs : execs[x].role = "combo_summary"
                                           /\ execs[x].at = LiveFill[l].at}
  <2>1. SummaryAt(execs, l) = IF at = {} THEN {} ELSE {CHOOSE x \in at : TRUE}
    BY DEF SummaryAt
  <2> HIDE DEF at
  <2>2. SummaryAt(execs, l) \subseteq at
    BY <2>1
  <2> QED BY <2>2 DEF at
<1>3. e \in DOMAIN execs
  BY TwinsInTable DEF MatchesOf
<1>4. PICK w \in Windows : /\ e \in DOMAIN Written(Content(w))
                           /\ SameRow(execs[e], Written(Content(w))[e])
  BY <1>3 DEF AsWritten
<1> DEFINE table == Written(Content(w))
<1>5. /\ execs[e].con = table[e].con /\ execs[e].side = table[e].side
      /\ execs[e].qty = table[e].qty /\ execs[e].cash = table[e].cash
      /\ execs[e].day = table[e].day /\ execs[e].book = table[e].book
      /\ execs[e].role = table[e].role /\ execs[e].at = table[e].at
  BY <1>3, <1>4 DEF AreRows, IsRow, Columns, SameRow
<1>6. /\ StripMatches(table, l) \cup BookMatches(table, l) \subseteq Home[l]
      /\ l \in DOMAIN table => l \in Home[l]
      /\ LiveFill[l].bag =>
           \A x \in DOMAIN table : table[x].role \in {"leg", "combo_summary"}
                                     /\ table[x].at = LiveFill[l].at => x \in Home[l]
  BY DEF FillsToldApart
<1>7. e \in DOMAIN table
  BY <1>4
<1> HIDE DEF table
<1>8. CASE e = l
  BY <1>6, <1>7, <1>8
<1>9. CASE e \in StripMatches(execs, l)
  BY <1>5, <1>6, <1>7, <1>9 DEF StripMatches, SameContractFill
<1>10. CASE e \in BookMatches(execs, l)
  BY <1>5, <1>6, <1>7, <1>10 DEF BookMatches, SameContractFill
<1>11. CASE LiveFill[l].bag /\ e \in SettledLegsAt(execs, l) \cup SummaryAt(execs, l)
  BY <1>2, <1>5, <1>6, <1>7, <1>11 DEF SettledLegsAt
<1> QED BY <1>1, <1>8, <1>9, <1>10, <1>11 DEF MatchesOf

\* The reports an open sync read are ones that can be asked for, and no step
\* leaves a row no report had.
HomeInv == ReportsInBounds /\ SyncInBounds /\ AreRows(execs) /\ AsWritten

LEMMA HomeStep ==
  ASSUME RowsStable, HomeInv, [Next]_vars PROVE HomeInv'
<1>1. CASE UNCHANGED ingestVars
  <2>1. ReportsInBounds' /\ AreRows(execs') /\ AsWritten'
    BY <1>1 DEF HomeInv, ingestVars, ReportsInBounds, AreRows, AsWritten
  <2>2. CASE \E ls : NoteInserted(ls) \/ sync' = sync \/ sync' = Idle
    BY <2>1, <2>2, NotedInBounds DEF HomeInv
  <2>3. CASE ReadIntraday
    BY <2>1, <2>3 DEF HomeInv, SyncInBounds, ReadIntraday, Reading
  <2>4. CASE \E rep \in reports : ReadFlex(rep)
    <3>1. PICK rep \in reports : ReadFlex(rep)
      BY <2>4
    <3>2. {"kind", "reports"} \subseteq DOMAIN sync' /\ sync'.reports = {rep} /\ rep \in Windows
      BY <3>1 DEF ReadFlex, Reading, HomeInv, ReportsInBounds
    <3> QED BY <2>1, <3>2 DEF HomeInv, SyncInBounds
  <2>5. CASE (EndDay \/ Request) /\ sync' = sync
    BY <2>1, <2>5 DEF HomeInv, SyncInBounds
  <2>6. CASE CommitFlex
    BY <2>1, <2>6 DEF HomeInv, SyncInBounds, CommitFlex
  <2> QED BY <2>2, <2>3, <2>4, <2>5, <2>6, WhoWrites
<1>2. CASE (EndDay \/ Request) /\ sync' = sync
  <2>1. execs' = execs
    BY <1>2 DEF EndDay, Request, NextDay, RequestReport
  <2>2. CASE EndDay
    <3>1. reports' = reports /\ today' \in 1 .. LastDay
      BY <2>2, IngestAssumption DEF EndDay, NextDay, HomeInv, ReportsInBounds
    <3> QED BY <1>2, <2>1, <3>1 DEF HomeInv, ReportsInBounds, SyncInBounds, AreRows, AsWritten
  <2>3. CASE Request
    <3>1. ReportsInBounds'
      BY <2>3, ReportsStay DEF Request, RequestReport, HomeInv
    <3> QED BY <1>2, <2>1, <3>1 DEF HomeInv, SyncInBounds, AreRows, AsWritten
  <2> QED BY <1>2, <2>2, <2>3
<1>3. CASE CommitFlex
  <2>1. PICK rep \in sync.reports : CollectReport(rep)
    BY <1>3 DEF CommitFlex
  <2>2. rep \in Windows
    BY <1>3, <2>1 DEF HomeInv, SyncInBounds, CommitFlex, Idle
  <2>3. IngestFills(Content(rep)) /\ today' = today /\ reports' \subseteq reports /\ sync' = Idle
    BY <1>3, <2>1 DEF CollectReport, CommitFlex
  <2>4. AreRows(execs') /\ ReportsInBounds'
    BY <2>3, IngestEffect, ReportsStay DEF HomeInv, IngestFills
  <2>5. AsWritten'
    BY <2>2, <2>3, IngestAsWritten DEF HomeInv
  <2> QED BY <2>3, <2>4, <2>5 DEF HomeInv, SyncInBounds
<1> QED BY <1>1, <1>2, <1>3, WhoWrites

\* No live fill is taken for another's settled execution by the matchers of
\* live_reconcile and of the carry-over (_match_leg_strip, _match_book_event,
\* _settled_legs_at, _settled_combo_summaries), whatever reports are collected in
\* whatever order.  It rests on reports that agree on the rows of an id
\* (RowsStable), and on fills that differ in what the matchers compare
\* (FillsToldApart): two combos filled in one second are told apart by nothing.
THEOREM MatchesStayHome == RowsStable /\ FillsToldApart => (Spec => []MatchesAreHome)
<1> SUFFICES ASSUME RowsStable, FillsToldApart PROVE Spec => []MatchesAreHome
  OBVIOUS
<1>1. Init => HomeInv
  <2>1. Init => ReportsInBounds /\ AreRows(execs) /\ DOMAIN execs = {}
    BY IngestStarts DEF Init, IngestInit, FlagsInv, TotalsInv
  <2> QED BY <2>1 DEF Init, HomeInv, SyncInBounds, AsWritten
<1>2. HomeInv /\ [Next]_vars => HomeInv'
  BY HomeStep
<1>3. HomeInv => MatchesAreHome
  BY AsWrittenHome DEF HomeInv
<1> QED BY <1>1, <1>2, <1>3, PTL DEF Spec

\* A group tag survives the handoff of a live fill to its settled executions,
\* and no tag lands on another fill (carry_over_settled_group_links,
\* reconcile_orphaned_live_executions), whatever the user tags or unties while a
\* sync is open.  It rests on the same hypotheses, through MatchesStayHome.
THEOREM HandoffIsSafe ==
  RowsStable /\ FillsToldApart => (Spec => HandoffKeepsGroup /\ NoStrayTag)
<1> SUFFICES ASSUME RowsStable, FillsToldApart PROVE Spec => HandoffKeepsGroup /\ NoStrayTag
  OBVIOUS
<1>1. Init => HandoffInv
  <2>1. Init => AreRows(execs) /\ DOMAIN execs = {}
    BY IngestStarts DEF Init, IngestInit, FlagsInv
  <2> QED BY <2>1 DEF Init, HandoffInv, SyncRead
<1>2. HandoffInv /\ [Next]_vars /\ MatchesAreHome' =>
        [Committed =>
           \A l \in LiveIds : liveLink[l] # NoGroup /\ liveLink'[l] = NoGroup =>
             \E e \in Home[l] \cap DOMAIN execs' :
               execLink'[e] # NoGroup \/ sync.held[e] # NoGroup]_vars
  BY CommittedSafe
<1>3. HandoffInv /\ [Next]_vars /\ MatchesAreHome' =>
        [Committed =>
           \A e \in ExecIds : execLink'[e] # execLink[e] =>
             /\ execLink[e] = NoGroup
             /\ \E l \in LiveIds : e \in Home[l] /\ sync.links[l] = execLink'[e]]_vars
  BY CommittedSafe
<1>4. Spec => []MatchesAreHome
  BY MatchesStayHome
<1> QED BY <1>1, <1>2, <1>3, <1>4, HandoffStep, PTL DEF Spec, HandoffKeepsGroup, NoStrayTag

-----------------------------------------------------------------------------
(* What the trades page shows. *)

\* A row of the table is the live fill's, by id or by the reconcile's tests.
Found(table, l) == l \in DOMAIN table \/ StripMatches(table, l) \cup BookMatches(table, l) # {}

\* The rows are as reports had them, and the reports were ingested whole.
IsSettled(table) ==
  /\ AreRows(table)
  /\ \A e \in DOMAIN table : \E w \in Windows :
       /\ e \in DOMAIN Written(Content(w))
       /\ DOMAIN Written(Content(w)) \subseteq DOMAIN table
       /\ SameRow(table[e], Written(Content(w))[e])

\* A row differing in the flag only is one the matchers take for the same.
LEMMA MatchedAlike ==
  ASSUME NEW old, NEW new, AreRows(old), AreRows(new), NEW e \in DOMAIN old \cap DOMAIN new,
         SameRow(old[e], new[e]), NEW l
  PROVE  /\ e \in StripMatches(old, l) <=> e \in StripMatches(new, l)
         /\ e \in BookMatches(old, l) <=> e \in BookMatches(new, l)
         /\ old[e].role = new[e].role /\ old[e].at = new[e].at
<1>1. /\ old[e].con = new[e].con /\ old[e].side = new[e].side
      /\ old[e].qty = new[e].qty /\ old[e].cash = new[e].cash
      /\ old[e].day = new[e].day /\ old[e].book = new[e].book
      /\ old[e].role = new[e].role /\ old[e].at = new[e].at
  BY DEF AreRows, IsRow, Columns, SameRow
<1> QED BY <1>1 DEF StripMatches, BookMatches, SameContractFill

LEMMA TwinsFound ==
  ASSUME NEW table, NEW l
  PROVE  Twins(table, l) # {} <=> StripMatches(table, l) \cup BookMatches(table, l) # {}
<1> DEFINE all == IF StripMatches(table, l) # {} THEN StripMatches(table, l) ELSE BookMatches(table, l)
<1>1. Twins(table, l) = IF all = {} THEN {} ELSE {CHOOSE e \in all : TRUE}
  BY DEF Twins
<1>2. all # {} <=> StripMatches(table, l) \cup BookMatches(table, l) # {}
  OBVIOUS
<1> HIDE DEF all
<1> QED BY <1>1, <1>2

\* What the reports let the matchers find, the table of their rows does.
LEMMA TableFinds ==
  ASSUME FillsFound, RowsStable, NEW table, IsSettled(table), NEW l \in LiveIds
  PROVE  IF ~LiveFill[l].bag THEN Settles[l] \cap DOMAIN table # {} => Found(table, l)
         ELSE /\ ~Found(table, l)
              /\ SummaryAt(table, l) # {} =>
                   \A m \in LiveIds : ~LiveFill[m].bag /\ SameOrder(l, m) => Found(table, m)
<1>1. ASSUME NEW e \in DOMAIN table
      PROVE  \E w \in Windows :
               /\ e \in DOMAIN Written(Content(w)) /\ AreRows(Written(Content(w)))
               /\ DOMAIN Written(Content(w)) \subseteq DOMAIN table
               /\ \A d \in DOMAIN Written(Content(w)) : SameRow(table[d], Written(Content(w))[d])
  <2>1. PICK w \in Windows : /\ e \in DOMAIN Written(Content(w))
                             /\ DOMAIN Written(Content(w)) \subseteq DOMAIN table
    BY DEF IsSettled
  <2>2. \A d \in DOMAIN Written(Content(w)) : SameRow(table[d], Written(Content(w))[d])
    BY <2>1 DEF IsSettled, RowsStable
  <2> QED BY <2>1, <2>2, WrittenRows
<1>2. AreRows(table)
  BY DEF IsSettled
<1>3. ASSUME NEW new, AreRows(new), DOMAIN new \subseteq DOMAIN table,
             \A d \in DOMAIN new : SameRow(table[d], new[d]), NEW m, Found(new, m)
      PROVE  Found(table, m)
  BY <1>2, <1>3, MatchedAlike DEF Found, StripMatches, BookMatches
<1>4. ASSUME ~LiveFill[l].bag, NEW e \in Settles[l] \cap DOMAIN table PROVE Found(table, l)
  <2>1. PICK w \in Windows :
               /\ e \in DOMAIN Written(Content(w)) /\ AreRows(Written(Content(w)))
               /\ DOMAIN Written(Content(w)) \subseteq DOMAIN table
               /\ \A d \in DOMAIN Written(Content(w)) : SameRow(table[d], Written(Content(w))[d])
    BY <1>1
  <2>2. Found(Written(Content(w)), l)
    BY <1>4, <2>1 DEF FillsFound, Found
  <2> QED BY <1>3, <2>1, <2>2
<1>5. ASSUME LiveFill[l].bag, Found(table, l) PROVE FALSE
  <2>1. PICK e \in DOMAIN table : e = l \/ e \in StripMatches(table, l) \cup BookMatches(table, l)
    BY <1>5 DEF Found, StripMatches, BookMatches
  <2>2. PICK w \in Windows :
               /\ e \in DOMAIN Written(Content(w)) /\ AreRows(Written(Content(w)))
               /\ DOMAIN Written(Content(w)) \subseteq DOMAIN table
               /\ \A d \in DOMAIN Written(Content(w)) : SameRow(table[d], Written(Content(w))[d])
    BY <1>1
  <2> DEFINE new == Written(Content(w))
  <2>3. ~Found(new, l)
    BY <1>5 DEF FillsFound, Found
  <2> HIDE DEF new
  <2>4. e \in DOMAIN table \cap DOMAIN new /\ AreRows(new) /\ SameRow(table[e], new[e])
    BY <2>2 DEF new
  <2>5. e \in StripMatches(table, l) <=> e \in StripMatches(new, l)
    BY <1>2, <2>4, MatchedAlike
  <2>6. e \in BookMatches(table, l) <=> e \in BookMatches(new, l)
    BY <1>2, <2>4, MatchedAlike
  <2> QED BY <2>1, <2>3, <2>4, <2>5, <2>6 DEF Found
<1>6. ASSUME LiveFill[l].bag, SummaryAt(table, l) # {},
             NEW m \in LiveIds, ~LiveFill[m].bag, SameOrder(l, m)
      PROVE  Found(table, m)
  <2>1. PICK e \in DOMAIN table : table[e].role = "combo_summary" /\ table[e].at = LiveFill[l].at
    BY <1>6 DEF SummaryAt
  <2>2. PICK w \in Windows :
               /\ e \in DOMAIN Written(Content(w)) /\ AreRows(Written(Content(w)))
               /\ DOMAIN Written(Content(w)) \subseteq DOMAIN table
               /\ \A d \in DOMAIN Written(Content(w)) : SameRow(table[d], Written(Content(w))[d])
    BY <1>1
  <2> DEFINE new == Written(Content(w))
  <2>3. (\E d \in DOMAIN new : new[d].role = "combo_summary" /\ new[d].at = LiveFill[l].at) => Found(new, m)
    BY <1>6 DEF FillsFound, Found
  <2> HIDE DEF new
  <2>4. e \in DOMAIN table \cap DOMAIN new /\ AreRows(new) /\ SameRow(table[e], new[e])
    BY <2>2 DEF new
  <2>5. table[e].role = new[e].role /\ table[e].at = new[e].at
    BY <1>2, <2>4, MatchedAlike
  <2>6. Found(new, m)
    BY <2>1, <2>3, <2>4, <2>5
  <2> QED BY <1>3, <2>2, <2>6 DEF new
<1> QED BY <1>4, <1>5, <1>6

\* A live fill with a match is among those the reconcile drops.
LEMMA ReconcileDrops ==
  ASSUME NEW table, NEW rows, NEW l \in rows, l \notin DOMAIN table, Found(table, l)
  PROVE  l \in From(Reconciled(table, rows))
<1>1. Twins(table, l) # {}
  BY TwinsFound DEF Found
<1>2. [from |-> l, to |-> Twins(table, l), rank |-> 3] \in Reconciled(table, rows)
  BY <1>1 DEF Reconciled
<1> QED BY <1>2 DEF From

\* The others it drops are BAG summaries whose legs it all drops.
LEMMA ReconcileSpares ==
  ASSUME NEW table, NEW rows, NEW l \in From(Reconciled(table, rows)), ~Found(table, l)
  PROVE  \A m \in rows : ~LiveFill[m].bag /\ SameOrder(l, m) => Twins(table, m) # {}
<1> DEFINE matched == {n \in rows \ DOMAIN table : Twins(table, n) # {}}
<1>1. Twins(table, l) = {}
  BY TwinsFound DEF Found
<1>2. LiveFill[l].bag /\ ~HasLiveSiblings(rows \ matched, l)
  <2>1. PICK r \in Reconciled(table, rows) : r.from = l
    BY DEF From
  <2>2. \/ \E n \in matched : r = [from |-> n, to |-> Twins(table, n), rank |-> 3]
        \/ \E n \in rows : /\ r = [from |-> n, to |-> SettledLegsAt(table, n), rank |-> 4]
                           /\ LiveFill[n].bag /\ ~HasLiveSiblings(rows \ matched, n)
    BY DEF Reconciled
  <2>3. \/ l \in matched
        \/ LiveFill[l].bag /\ ~HasLiveSiblings(rows \ matched, l)
    <3> HIDE DEF matched
    <3> QED BY <2>1, <2>2
  <2> QED BY <1>1, <2>3
<1> QED BY <1>2 DEF HasLiveSiblings

\* No live fill that shows has settled, and each leg that shows has its BAG
\* summary among the rows.
NoTwin(rows, table) ==
  \A l \in DOMAIN rows \ DOMAIN table : ~LiveFill[l].bag => Settles[l] \cap DOMAIN table = {}

LegsHaveBag(rows, table) ==
  \A l \in DOMAIN rows \ DOMAIN table : rows[l] = "leg" =>
    /\ ~LiveFill[l].bag
    /\ \E b \in DOMAIN rows : LiveFill[b].bag /\ rows[b] = "combo_summary" /\ SameOrder(l, b)

\* An intraday sync has read, with a fill of an order, all live fills of it.
SyncWhole ==
  /\ DOMAIN live \subseteq done
  /\ sync # Idle /\ sync.kind = "intraday" =>
       \A l \in DOMAIN live, b \in sync.fills : SameOrder(l, b) => l \in sync.fills
  /\ sync # Idle => sync.fills \subseteq done

\* What the reconcile leaves shows no fill twice and no leg without its summary.
LEMMA ReconcileLeaves ==
  ASSUME FillsFound, RowsStable, NEW table, IsSettled(table),
         NEW rows, DOMAIN rows \subseteq LiveIds, NEW gone, NEW left,
         LegsHaveBag(rows, table),
         gone \subseteq Exact(table, DOMAIN rows) \cup SummaryMatches(table, DOMAIN rows),
         left = Restrict(rows, DOMAIN rows \ (From(gone)
                                  \cup From(Reconciled(table, DOMAIN rows \ From(gone)))))
  PROVE  NoTwin(left, table) /\ LegsHaveBag(left, table)
<1> DEFINE kept == DOMAIN rows \ From(gone)
<1>1. /\ DOMAIN left = kept \ From(Reconciled(table, kept))
      /\ \A l \in DOMAIN left : left[l] = rows[l]
  BY DEF Restrict
<1> HIDE DEF kept
<1>2. kept \subseteq LiveIds /\ kept \subseteq DOMAIN rows
  BY DEF kept
<1>3. ASSUME NEW l \in DOMAIN left \ DOMAIN table PROVE ~Found(table, l)
  BY <1>1, <1>3, ReconcileDrops
<1>4. NoTwin(left, table)
  BY <1>1, <1>2, <1>3, TableFinds DEF NoTwin
<1>5. ASSUME NEW l \in DOMAIN left \ DOMAIN table, left[l] = "leg"
      PROVE  /\ ~LiveFill[l].bag
             /\ \E b \in DOMAIN left : LiveFill[b].bag /\ left[b] = "combo_summary" /\ SameOrder(l, b)
  <2>1. l \in DOMAIN rows \ DOMAIN table /\ rows[l] = "leg" /\ l \in LiveIds
    BY <1>1, <1>2, <1>5
  <2>2. ~LiveFill[l].bag
    BY <2>1 DEF LegsHaveBag
  <2>3. PICK b \in DOMAIN rows : LiveFill[b].bag /\ rows[b] = "combo_summary" /\ SameOrder(l, b)
    BY <2>1 DEF LegsHaveBag
  <2>4. SameOrder(b, l)
    BY <2>3 DEF SameOrder
  <2>5. ~Found(table, b) /\ SummaryAt(table, b) = {}
    BY <1>3, <2>1, <2>2, <2>3, <2>4, TableFinds
  <2>6. b \notin From(gone)
    <3>1. \A m \in Exact(table, DOMAIN rows) : m.from \in DOMAIN table
      BY DEF Exact
    <3>2. \A m \in SummaryMatches(table, DOMAIN rows) : SummaryAt(table, m.from) # {}
      BY DEF SummaryMatches
    <3> QED BY <2>5, <3>1, <3>2 DEF From, Found
  <2>7. b \in kept
    BY <2>6 DEF kept
  <2>8. b \notin From(Reconciled(table, kept))
    <3>1. Twins(table, l) = {}
      BY <1>3, TwinsFound DEF Found
    <3>2. l \in kept
      BY <1>1
    <3> QED BY <2>2, <2>4, <2>5, <3>1, <3>2, ReconcileSpares
  <2> QED BY <1>1, <2>2, <2>3, <2>7, <2>8
<1> QED BY <1>4, <1>5 DEF LegsHaveBag

\* The roles of a batch that is whole: a leg has its summary.
LEMMA WrittenWhole ==
  ASSUME SyncWhole, sync # Idle, sync.kind = "intraday", NEW table, LegsHaveBag(live, table)
  PROVE  LegsHaveBag(LiveWritten(sync.fills), table)
<1> DEFINE batch == sync.fills
           rows == LiveWritten(batch)
<1>1. /\ DOMAIN rows = DOMAIN live \cup batch
      /\ \A l \in batch : rows[l] = RoleIn(batch, l)
      /\ \A l \in DOMAIN live \ batch : rows[l] = live[l]
  BY DEF LiveWritten
<1>2. \A l \in DOMAIN live, b \in batch : SameOrder(l, b) => l \in batch
  BY DEF SyncWhole
<1> HIDE DEF rows, batch
<1> SUFFICES ASSUME NEW l \in DOMAIN rows \ DOMAIN table, rows[l] = "leg"
             PROVE  /\ ~LiveFill[l].bag
                    /\ \E b \in DOMAIN rows : LiveFill[b].bag /\ rows[b] = "combo_summary" /\ SameOrder(l, b)
  BY DEF LegsHaveBag, rows, batch
<1>3. CASE l \in batch
  <2> DEFINE combo(x) == /\ \E m \in {n \in batch : SameOrder(x, n)} : LiveFill[m].bag
                         /\ Cardinality({LiveFill[m].con : m \in
                              {p \in {n \in batch : SameOrder(x, n)} : ~LiveFill[p].bag}}) >= 2
  <2>1. \A x : RoleIn(batch, x) =
          IF ~combo(x) THEN "standalone" ELSE IF LiveFill[x].bag THEN "combo_summary" ELSE "leg"
    BY DEF RoleIn
  <2>2. combo(l) /\ ~LiveFill[l].bag
    <3> HIDE DEF combo
    <3> QED BY <1>1, <1>3, <2>1
  <2>3. PICK b \in batch : SameOrder(l, b) /\ LiveFill[b].bag
    BY <2>2
  <2>4. {n \in batch : SameOrder(b, n)} = {n \in batch : SameOrder(l, n)}
    BY <2>3 DEF SameOrder
  <2>5. combo(b)
    BY <2>2, <2>4
  <2>6. rows[b] = "combo_summary"
    <3> HIDE DEF combo
    <3> QED BY <1>1, <2>1, <2>3, <2>5
  <2> QED BY <1>1, <2>2, <2>3, <2>6
<1>4. CASE l \notin batch
  <2>1. l \in DOMAIN live \ DOMAIN table /\ live[l] = "leg"
    BY <1>1, <1>4
  <2>2. PICK b \in DOMAIN live : LiveFill[b].bag /\ live[b] = "combo_summary" /\ SameOrder(l, b)
    BY <2>1 DEF LegsHaveBag
  <2>3. b \notin batch
    BY <1>2, <1>4, <2>1, <2>2
  <2> QED BY <1>1, <2>1, <2>2, <2>3 DEF LegsHaveBag
<1> QED BY <1>3, <1>4

PageInv ==
  HandoffInv /\ HomeInv /\ SyncWhole /\ NoTwin(live, execs) /\ LegsHaveBag(live, execs)

\* Every step keeps what the page rests on.
LEMMA PageStep ==
  ASSUME RowsStable, FillsFound, CombosOfADay, PageInv, [Next]_vars
  PROVE  PageInv'
<1>1. HandoffInv' /\ HomeInv'
  BY HandoffStep, HomeStep DEF PageInv
<1>2. CASE UNCHANGED <<execs, live, done>> /\ (sync' = sync \/ sync' = Idle)
  BY <1>1, <1>2 DEF PageInv, SyncWhole, NoTwin, LegsHaveBag
<1>3. CASE UNCHANGED <<execs, live, done>> /\ \E ls : NoteInserted(ls)
  <2>1. sync = Idle => sync' = sync
    BY <1>3 DEF NoteInserted
  <2>2. sync # Idle => sync' # Idle /\ sync'.kind = sync.kind /\ sync'.fills = sync.fills
    <3>1. ASSUME sync # Idle PROVE \E fresh : sync' = [sync EXCEPT !.fresh = fresh]
      BY <1>3, <3>1 DEF NoteInserted
    <3>2. sync # Idle => {"kind", "reports", "fills"} \subseteq DOMAIN sync
      BY DEF PageInv, HandoffInv, SyncRead
    <3>3. DOMAIN Idle = {"kind"}
      BY DEF Idle
    <3> QED BY <3>1, <3>2, <3>3
  <2> QED BY <1>1, <1>3, <2>1, <2>2 DEF PageInv, SyncWhole, NoTwin, LegsHaveBag
<1>4. CASE ReadIntraday
  <2>1. /\ sync'.fills = {l \in done : LiveFill[l].day >= today - Lookback}
        /\ UNCHANGED <<execs, live, done>>
    BY <1>4 DEF ReadIntraday, Reading, ingestVars
  <2>2. \A l \in DOMAIN live, b \in sync'.fills : SameOrder(l, b) => l \in sync'.fills
    BY <2>1 DEF CombosOfADay, PageInv, SyncWhole, HandoffInv, SyncRead
  <2> QED BY <1>1, <2>1, <2>2 DEF PageInv, SyncWhole, NoTwin, LegsHaveBag
<1>5. CASE \E rep \in reports : ReadFlex(rep)
  <2>1. sync'.fills = {} /\ sync'.kind = "flex" /\ UNCHANGED <<execs, live, done>>
    BY <1>5 DEF ReadFlex, Reading, ingestVars
  <2> QED BY <1>1, <2>1 DEF PageInv, SyncWhole, NoTwin, LegsHaveBag
<1>6. CASE \E l \in LiveIds : Fill(l)
  <2>1. done \subseteq done' /\ UNCHANGED <<execs, live, sync>>
    BY <1>6 DEF Fill, ingestVars
  <2> QED BY <1>1, <2>1 DEF PageInv, SyncWhole, NoTwin, LegsHaveBag
<1>7. CASE CommitIntraday
  <2> DEFINE rows == LiveWritten(sync.fills)
             gone == Purged(execs, DOMAIN rows)
  <2>0. sync # Idle /\ sync.kind = "intraday" /\ UNCHANGED <<execs, done>> /\ sync' = Idle
    BY <1>7 DEF CommitIntraday, ingestVars, Idle
  <2>1. live' = Restrict(rows, DOMAIN rows \ From(gone \cup Reconciled(execs, DOMAIN rows \ From(gone))))
    BY <1>7 DEF CommitIntraday, IntradayMoves
  <2>2. gone \subseteq Exact(execs, DOMAIN rows) \cup SummaryMatches(execs, DOMAIN rows)
    BY DEF Purged
  <2>3. LegsHaveBag(rows, execs)
    BY <2>0, WrittenWhole DEF PageInv
  <2>4. DOMAIN rows \subseteq LiveIds /\ DOMAIN rows = DOMAIN live \cup sync.fills
    BY <2>0, LiveWrittenIds DEF PageInv, HandoffInv, LiveWritten
  <2> HIDE DEF rows, gone
  <2>5. \A S, T : From(S \cup T) = From(S) \cup From(T)
    BY DEF From
  <2>6. IsSettled(execs)
    BY DEF PageInv, HomeInv, IsSettled, AsWritten
  <2>7. live' = Restrict(rows, DOMAIN rows \ (From(gone) \cup From(Reconciled(execs, DOMAIN rows \ From(gone)))))
    BY <2>1, <2>5
  <2>8. NoTwin(live', execs) /\ LegsHaveBag(live', execs)
    BY <2>2, <2>3, <2>4, <2>6, <2>7, ReconcileLeaves
  <2>9. DOMAIN live' \subseteq done'
    <3>1. DOMAIN rows \subseteq done
      BY <2>0, <2>4 DEF PageInv, SyncWhole
    <3> QED BY <2>0, <2>7, <3>1 DEF Restrict
  <2> QED BY <1>1, <2>0, <2>8, <2>9 DEF PageInv, SyncWhole, NoTwin, LegsHaveBag
<1>8. CASE CommitFlex
  <2> DEFINE gone == {}
  <2>1. live' = Restrict(live, DOMAIN live \ From(Reconciled(execs', DOMAIN live)))
    BY <1>8 DEF CommitFlex
  <2>2. done' = done /\ sync' = Idle
    BY <1>8 DEF CommitFlex
  <2>3. From(gone) = {}
    BY DEF From
  <2>4. live' = Restrict(live, DOMAIN live \ (From(gone) \cup From(Reconciled(execs', DOMAIN live \ From(gone)))))
    BY <2>1, <2>3
  <2>5. IsSettled(execs')
    BY <1>1 DEF HomeInv, IsSettled, AsWritten
  <2>6. DOMAIN execs \subseteq DOMAIN execs'
    <3>1. PICK batch : IngestFills(batch)
      BY <1>8 DEF CommitFlex, CollectReport
    <3> QED BY <3>1, IngestEffect DEF IngestFills, PageInv, HandoffInv
  <2>7. LegsHaveBag(live, execs')
    BY <2>6 DEF PageInv, LegsHaveBag
  <2>8. DOMAIN live \subseteq LiveIds
    BY DEF PageInv, HandoffInv, SyncRead
  <2>9. NoTwin(live', execs') /\ LegsHaveBag(live', execs')
    <3>1. gone \subseteq Exact(execs', DOMAIN live) \cup SummaryMatches(execs', DOMAIN live)
      OBVIOUS
    <3> HIDE DEF gone
    <3> QED BY <2>4, <2>5, <2>7, <2>8, <3>1, ReconcileLeaves
  <2>10. DOMAIN live' \subseteq done'
    BY <2>1, <2>2 DEF Restrict, PageInv, SyncWhole
  <2> QED BY <1>1, <2>2, <2>9, <2>10 DEF PageInv, SyncWhole, NoTwin, LegsHaveBag
<1> QED BY <1>2, <1>3, <1>4, <1>5, <1>6, <1>7, <1>8, QuietSteps

\* The revision in the id of a row is a number.
LEMMA RevisionIs == ASSUME NEW r \in Rows PROVE Revision(r.id) \in Nat
<1>1. r.id \in Seq(Nat) /\ r.id # << >>
  BY IngestAssumption DEF RowType
<1> QED BY <1>1 DEF Revision, Last

\* Rows of one fill are those of one base, and differ in the revision.
LEMMA RowsTell ==
  ASSUME IdsNameFills, NEW r \in Rows, NEW s \in Rows
  PROVE  /\ r.what = s.what <=> Base(r.id) = Base(s.id)
         /\ r.what = s.what /\ Revision(r.id) = Revision(s.id) => r = s
BY DEF IdsNameFills

\* The latest revision that settled of a fill is a row the page shows.
LEMMA LatestShown ==
  ASSUME IdsNameFills, AsWritten, LatestRevisionCounts,
         NEW r \in Rows, r.id \in DOMAIN execs
  PROVE  \E s \in Rows : s.what = r.what /\ s.id \in SettledShown
<1> DEFINE ours == {s \in Rows : s.id \in DOMAIN execs /\ Base(s.id) = Base(r.id)}
           T == {Revision(s.id) : s \in ours}
<1>1. IsFiniteSet(T)
  <2>1. IsFiniteSet(ours)
    BY IngestAssumption, FS_Subset
  <2> DEFINE f == [s \in ours |-> Revision(s.id)]
  <2>2. f \in Surjection(ours, T)
    BY DEF Surjection
  <2> HIDE DEF ours, T, f
  <2> QED BY <2>1, <2>2, FS_Surjection
<1>2. T \subseteq Nat /\ T # {}
  BY RevisionIs
<1>3. PICK n \in T : \A m \in T : m <= n
  <2> HIDE DEF T
  <2> QED BY <1>1, <1>2, HighestOf
<1>4. PICK s \in ours : Revision(s.id) = n
  BY <1>3
<1>5. ASSUME NEW j \in DOMAIN execs, Base(j) = Base(s.id) PROVE Revision(j) <= Revision(s.id)
  <2>1. PICK q \in Rows : q.id = j
    BY <1>5 DEF AsWritten, IdsNameFills
  <2>2. q \in ours
    BY <1>5, <2>1
  <2> QED BY <1>3, <1>4, <2>1, <2>2
<1>6. execs[s.id].canonical
  BY <1>5 DEF LatestRevisionCounts
<1>7. s.what = r.what
  BY RowsTell
<1> QED BY <1>6, <1>7 DEF SettledShown

\* One row, be it settled or live, of every fill that is known.
LEMMA OneRow ==
  ASSUME IdsNameFills, FillsToldApart, PageInv, LatestRevisionCounts
  PROVE  ShownOnce
<1> SUFFICES ASSUME SettledShown # {}, NEW l \in LiveIds, ~LiveFill[l].bag, Known(LiveFill[l].what)
             PROVE  Cardinality(RowsOf(LiveFill[l].what)) = 1
  BY DEF ShownOnce
<1> DEFINE what == LiveFill[l].what
           settled == {e \in SettledShown : \E r \in Rows : r.id = e /\ r.what = what}
           alive == {x \in LiveShown : LiveFill[x].what = what}
<1>1. RowsOf(what) = {<<"settled", e>> : e \in settled} \cup {<<"live", x>> : x \in alive}
  BY DEF RowsOf
<1>2. LiveShown = DOMAIN live \ DOMAIN execs /\ DOMAIN live \subseteq LiveIds
  BY DEF LiveShown, PageInv, HandoffInv, SyncRead
<1>3. alive \subseteq {l}
  BY <1>2 DEF IdsNameFills
<1>4. settled # {} => alive = {}
  <2> SUFFICES ASSUME NEW e \in settled, l \in alive PROVE FALSE
    BY <1>3
  <2>1. PICK r \in Rows : r.id = e /\ r.what = what
    OBVIOUS
  <2>2. e \in Settles[l] \cap DOMAIN execs
    BY <2>1 DEF Settles, SettledShown
  <2> QED BY <1>2, <2>2 DEF PageInv, NoTwin
<1>5. ASSUME NEW e \in settled, NEW d \in settled PROVE e = d
  <2>1. PICK r \in Rows, s \in Rows : r.id = e /\ r.what = what /\ s.id = d /\ s.what = what
    OBVIOUS
  <2>2. /\ e \in DOMAIN execs /\ d \in DOMAIN execs /\ Base(e) = Base(d)
        /\ execs[e].canonical /\ execs[d].canonical
    BY <2>1, RowsTell DEF SettledShown
  <2>3. Revision(e) <= Revision(d) /\ Revision(d) <= Revision(e)
    BY <2>2 DEF LatestRevisionCounts
  <2>4. Revision(e) \in Nat /\ Revision(d) \in Nat
    BY <2>1, RevisionIs
  <2>5. Revision(e) = Revision(d)
    BY <2>3, <2>4
  <2> QED BY <2>1, <2>5, RowsTell
<1>6. ASSUME NEW r \in Rows, r.id \in DOMAIN execs, r.what = what PROVE settled # {}
  BY <1>6, LatestShown DEF PageInv, HomeInv
<1>7. settled # {} \/ alive # {}
  <2>1. CASE \E x \in DOMAIN live : LiveFill[x].what = what
    <3>1. l \in DOMAIN live
      BY <1>2, <2>1 DEF IdsNameFills
    <3>2. CASE l \notin DOMAIN execs
      BY <1>2, <3>1, <3>2
    <3>3. CASE l \in DOMAIN execs
      <4>1. l \in Home[l]
        BY <3>3 DEF FillsToldApart, PageInv, HomeInv, AsWritten
      <4>2. l \in Settles[l]
        BY <4>1 DEF Home
      <4>3. PICK r \in Rows : r.id = l /\ r.what = what
        BY <4>2 DEF Settles
      <4> QED BY <1>6, <3>3, <4>3
    <3> QED BY <3>2, <3>3
  <2>2. CASE \E r \in Rows : r.id \in DOMAIN execs /\ r.what = what
    BY <1>6, <2>2
  <2> QED BY <2>1, <2>2 DEF Known
<1> HIDE DEF settled, alive, what
<1>8. \E row : RowsOf(what) = {row}
  <2>1. CASE settled # {}
    <3>1. PICK e \in settled : settled = {e}
      BY <1>5, <2>1
    <3>2. RowsOf(what) = {<<"settled", e>>}
      BY <1>1, <1>4, <3>1
    <3> QED BY <3>2
  <2>2. CASE settled = {}
    <3>1. alive = {l}
      BY <1>3, <1>7, <2>2
    <3>2. RowsOf(what) = {<<"live", l>>}
      BY <1>1, <2>2, <3>1
    <3> QED BY <3>2
  <2> QED BY <2>1, <2>2
<1>9. Cardinality(RowsOf(what)) = 1
  BY <1>8, FS_Singleton
<1> QED BY <1>9 DEF what

\* A leg shows under its summary, and a tag shows on the whole combo.
LEMMA WholeCombo ==
  ASSUME FillsFound, RowsStable, PageInv
  PROVE  ComboIsWhole
<1>1. DOMAIN live \subseteq LiveIds /\ IsSettled(execs)
  BY DEF PageInv, HandoffInv, SyncRead, HomeInv, IsSettled, AsWritten
<1>2. ASSUME NEW l \in LiveShown, live[l] = "leg" PROVE ParentsOf(l) # {}
  <2>1. SettledShown # {} /\ LiveShown = DOMAIN live \ DOMAIN execs
    BY <1>2 DEF LiveShown
  <2>2. PICK b \in DOMAIN live : LiveFill[b].bag /\ live[b] = "combo_summary" /\ SameOrder(l, b)
    BY <1>2, <2>1 DEF PageInv, LegsHaveBag
  <2>3. b \notin DOMAIN execs
    BY <1>1, <2>2, TableFinds DEF Found
  <2> QED BY <1>2, <2>1, <2>2, <2>3 DEF ParentsOf
<1>3. ASSUME NEW l \in LiveShown, live[l] # "standalone", liveLink[l] # NoGroup,
             NEW m \in LiveShown, live[m] # "standalone", SameOrder(l, m)
      PROVE  GroupsShown(m) # {}
  <2>1. SameOrder(m, l)
    BY <1>3 DEF SameOrder
  <2>2. liveLink[m] = NoGroup => liveLink[l] \in GroupsShown(m)
    BY <1>3, <2>1 DEF GroupsShown
  <2>3. liveLink[m] # NoGroup => liveLink[m] \in GroupsShown(m)
    BY DEF GroupsShown
  <2> QED BY <2>2, <2>3
<1> QED BY <1>2, <1>3 DEF ComboIsWhole

\* The trades page has one row of every fill it knows, settled or live, and each
\* leg under the summary of its combo, tagged with it (list_all_trade_executions,
\* _unsettled_live_executions, _live_combo_index), while fills are corrected,
\* settle under other ids, and the syncs drop and re-insert them.  It rests on
\* reports the matchers can read (RowsStable, FillsToldApart, FillsFound), on ids
\* that name their fill, and on combos that fill within a day.
THEOREM PageStaysRight ==
  RowsStable /\ FillsToldApart /\ IdsNameFills /\ CombosOfADay /\ FillsFound
    => (Spec => []PageIsRight)
<1> SUFFICES ASSUME RowsStable, FillsToldApart, IdsNameFills, CombosOfADay, FillsFound
             PROVE  Spec => []PageIsRight
  OBVIOUS
<1>1. Init => PageInv
  <2>1. Init => AreRows(execs) /\ DOMAIN execs = {} /\ DOMAIN live = {} /\ ReportsInBounds
    BY IngestStarts DEF Init, IngestInit, FlagsInv, TotalsInv
  <2> QED BY <2>1 DEF Init, PageInv, HandoffInv, SyncRead, HomeInv, SyncInBounds, AsWritten,
                      SyncWhole, NoTwin, LegsHaveBag
<1>2. PageInv /\ [Next]_vars => PageInv'
  BY PageStep
<1>3. PageInv /\ LatestRevisionCounts => PageIsRight
  BY OneRow, WholeCombo DEF PageIsRight
<1>4. Spec => []LatestRevisionCounts
  BY SettlementKeepsLatestRevision
<1> QED BY <1>1, <1>2, <1>3, <1>4, PTL DEF Spec

-----------------------------------------------------------------------------
(* What a combo is worth. *)

\* A row a batch writes is a summary of one of its combos, or an execution.
LEMMA WrittenRow ==
  ASSUME NEW batch \in SUBSET Rows, NEW id \in DOMAIN Written(batch)
  PROVE  \/ \E k \in Combos(batch) : /\ id = SummaryId(Legs(batch, k), k)
                                     /\ Written(batch)[id] = Summary(Legs(batch, k), k)
         \/ \E r \in batch : /\ r.id = id /\ Written(batch)[id] = Execution(batch, r)
                             /\ \A k \in Combos(batch) : id # SummaryId(Legs(batch, k), k)
<1> DEFINE fills == [i \in {r.id : r \in batch} |->
                  Execution(batch, ChooseUnique(batch, LAMBDA r : r.id = i))]
           of(i) == CHOOSE c \in Combos(batch) : SummaryId(Legs(batch, c), c) = i
           summaries == [i \in {SummaryId(Legs(batch, k), k) : k \in Combos(batch)} |->
                      Summary(Legs(batch, of(i)), of(i))]
<1>1. Written(batch) = [i \in DOMAIN fills \cup DOMAIN summaries |->
         IF i \in DOMAIN summaries THEN summaries[i] ELSE fills[i]]
  BY DEF Written
<1>2. DOMAIN summaries = {SummaryId(Legs(batch, k), k) : k \in Combos(batch)}
  OBVIOUS
<1>3. ASSUME NEW i \in DOMAIN summaries
      PROVE  \E k \in Combos(batch) : i = SummaryId(Legs(batch, k), k)
                                        /\ summaries[i] = Summary(Legs(batch, k), k)
  <2>1. of(i) \in Combos(batch) /\ SummaryId(Legs(batch, of(i)), of(i)) = i
    BY <1>2
  <2>2. summaries[i] = Summary(Legs(batch, of(i)), of(i))
    BY <1>2
  <2> HIDE DEF of, summaries
  <2> QED BY <2>1, <2>2
<1>4. ASSUME NEW i \in DOMAIN fills
      PROVE  \E r \in batch : r.id = i /\ fills[i] = Execution(batch, r)
  <2>1. PICK r \in batch : r.id = i
    OBVIOUS
  <2>2. \A s \in batch : s.id = i => s = r
    BY <2>1, IngestAssumption
  <2>3. ChooseUnique(batch, LAMBDA s : s.id = i) = r
    BY <2>1, <2>2 DEF ChooseUnique
  <2> QED BY <2>1, <2>3
<1> HIDE DEF fills, summaries
<1> QED BY <1>1, <1>2, <1>3, <1>4

\* The combo of a window, as a table of settled rows has it: its summary, and
\* its legs under their own ids.
LEMMA ComboRows ==
  ASSUME CombosWhole, NEW w \in Windows, NEW k \in Combos(Content(w)), NEW id \in DOMAIN Written(Content(w))
  PROVE  LET row == Written(Content(w))[id]  legs == Legs(Rows, k)  sum == SummaryId(legs, k) IN
         /\ id = sum => row = Summary(legs, k)
         /\ row.role = "combo_summary" /\ row.trade = <<"combo", k>> => id = sum
         /\ row.role = "leg" /\ row.trade = <<"combo", k>> => \E r \in legs : r.id = id
         /\ \A r \in legs : r.id = id => /\ row.role = "leg" /\ row.trade = <<"combo", k>>
                                         /\ row.cash = r.cash
<1> DEFINE batch == Content(w)
           row == Written(batch)[id]
           legs == Legs(Rows, k)
           sum == SummaryId(legs, k)
<1>0. batch \in SUBSET Rows /\ \A j \in Combos(batch) : Legs(batch, j) = Legs(Rows, j)
  BY DEF Content, CombosWhole
<1>1. k \in Combos(batch) /\ \A j \in Combos(batch) : j \in Combos(Rows)
  <2>1. ASSUME NEW j \in Combos(batch) PROVE j \in Combos(Rows)
    <3>1. Legs(batch, j) = Legs(Rows, j)
      BY <1>0
    <3>2. j \in {r.key : r \in Rows} \ {None}
      BY <1>0 DEF Combos
    <3>3. Cardinality({r.con : r \in Legs(batch, j)}) >= 2
      BY DEF Combos, Legs
    <3> QED BY <3>1, <3>2, <3>3 DEF Combos, Legs
  <2> QED BY <2>1
<1>2. \A j \in Combos(batch) : SummaryId(Legs(Rows, j), j) = sum => j = k
  BY <1>1 DEF CombosWhole
<1>3. \A r \in Rows : r.id # sum
  BY DEF CombosWhole
<1>4. \A r \in Rows : \A j \in Combos(batch) : r.id # SummaryId(Legs(Rows, j), j)
  BY DEF CombosWhole
<1>5. \/ \E j \in Combos(batch) : id = SummaryId(Legs(Rows, j), j) /\ row = Summary(Legs(Rows, j), j)
      \/ \E r \in batch : r.id = id /\ row = Execution(batch, r)
  <2> HIDE DEF batch
  <2> QED BY <1>0, WrittenRow DEF batch
<1> HIDE DEF batch, row, legs, sum
<1>6. CASE \E j \in Combos(batch) : id = SummaryId(Legs(Rows, j), j) /\ row = Summary(Legs(Rows, j), j)
  <2>1. PICK j \in Combos(batch) : id = SummaryId(Legs(Rows, j), j) /\ row = Summary(Legs(Rows, j), j)
    BY <1>6
  <2>2. row.role = "combo_summary" /\ row.trade = <<"combo", j>>
    BY <2>1 DEF Summary
  <2>3. legs \subseteq Rows
    BY DEF legs, Legs
  <2> QED BY <1>2, <1>4, <2>1, <2>2, <2>3 DEF batch, row, legs, sum
<1>7. CASE \E r \in batch : r.id = id /\ row = Execution(batch, r)
  <2>1. PICK r \in batch : r.id = id /\ row = Execution(batch, r)
    BY <1>7
  <2>2. /\ row.role = IF r.key \in Combos(batch) THEN "leg" ELSE "standalone"
        /\ row.trade = Parent(batch, r) /\ row.cash = r.cash
    BY <2>1 DEF Execution
  <2>3. r.key \in Combos(batch) => row.trade = <<"combo", r.key>>
    BY <2>2 DEF Parent
  <2>4. r \in Rows /\ (r \in legs <=> r.key = k)
    BY <1>0, <2>1 DEF legs, Legs
  <2>5. \A s \in legs : s.id = id => s = r
    BY <1>0, <2>1, IngestAssumption DEF legs, Legs
  <2>6. id # sum
    BY <1>3, <2>1, <2>4
  <2> QED BY <1>1, <2>1, <2>2, <2>3, <2>4, <2>5, <2>6 DEF batch, row, legs, sum
<1> QED BY <1>5, <1>6, <1>7

\* The revision of a summary's id is a number too: the slot's is 1.
LEMMA SlotRevision ==
  ASSUME NEW id \in ExecIds, \A r \in Rows : id # r.id
  PROVE  Revision(id) \in Nat
<1>1. CASE \E r \in Rows : id = <<r.key, 0>>
  <2>1. PICK n : id = <<n, 0>>
    BY <1>1
  <2>2. Len(id) = 2 /\ id[Len(id)] = 0
    BY <2>1
  <2> QED BY <2>2 DEF Revision, Last
<1>2. CASE \E r \in Rows : Len(r.id) >= 4 /\ id = SubSeq(r.id, 1, 2) \o <<1, 1>>
  <2>1. PICK r \in Rows : Len(r.id) >= 4 /\ id = SubSeq(r.id, 1, 2) \o <<1, 1>>
    BY <1>2
  <2>2. r.id \in Seq(Nat)
    BY IngestAssumption DEF RowType
  <2> DEFINE p == SubSeq(r.id, 1, 2)
  <2>3. p \in Seq(Nat) /\ Len(p) = 2
    BY <2>1, <2>2
  <2> HIDE DEF p
  <2>4. Len(p \o <<1, 1>>) = 4 /\ (p \o <<1, 1>>)[4] = 1
    <3> DEFINE q == <<1, 1>>
    <3>1. q \in Seq(Nat) /\ Len(q) = 2 /\ q[2] = 1
      OBVIOUS
    <3> HIDE DEF q
    <3>2. Len(p \o q) = 4 /\ (p \o q)[4] = q[2]
      <4>1. /\ Len(p \o q) = Len(p) + Len(q)
            /\ \A i \in 1 .. Len(p) + Len(q) : (p \o q)[i] = IF i <= Len(p) THEN p[i] ELSE q[i - Len(p)]
        BY <2>3, <3>1, ConcatProperties, Zenon
      <4>2. Len(p) = 2 /\ Len(q) = 2 /\ 4 \in 1 .. Len(p) + Len(q)
        BY <2>3, <3>1
      <4>3. (p \o q)[4] = IF 4 <= Len(p) THEN p[4] ELSE q[4 - Len(p)]
        BY <4>1, <4>2, Zenon
      <4> QED BY <4>1, <4>2, <4>3
    <3> QED BY <3>1, <3>2 DEF q
  <2>5. Len(id) = 4 /\ id[4] = 1
    BY <2>1, <2>4 DEF p
  <2> QED BY <2>5 DEF Revision, Last
<1> QED BY <1>1, <1>2 DEF ExecIds

\* The summary and the legs of a combo, as the table stands: all of them there,
\* canonical, and nothing else.
LEMMA ComboStands ==
  ASSUME RowsStable, CombosWhole, IsSettled(execs), LatestRevisionCounts,
         NEW t, NEW l \in DOMAIN execs, execs[l].role = "leg", execs[l].trade = t
  PROVE  \E k \in Combos(Rows) :
           LET legs == Legs(Rows, k)  sum == SummaryId(legs, k) IN
           /\ {id \in DOMAIN execs : /\ execs[id].trade = t /\ execs[id].role = "leg"
                                     /\ execs[id].canonical} = {r.id : r \in legs}
           /\ \A r \in legs : execs[r.id].cash = r.cash
           /\ {id \in DOMAIN execs : /\ execs[id].trade = t /\ execs[id].role = "combo_summary"
                                     /\ execs[id].canonical} = {sum}
           /\ execs[sum].cash = Cash(legs)
<1> DEFINE table(w) == Written(Content(w))
           same(e, w) == /\ execs[e].role = table(w)[e].role /\ execs[e].trade = table(w)[e].trade
                         /\ execs[e].cash = table(w)[e].cash
           holds(w) == /\ DOMAIN table(w) \subseteq DOMAIN execs
                       /\ \A e \in DOMAIN table(w) : same(e, w)
<1>1. ASSUME NEW e \in DOMAIN execs
      PROVE  \E w \in Windows : e \in DOMAIN table(w) /\ holds(w)
  <2>1. PICK w \in Windows : e \in DOMAIN table(w) /\ DOMAIN table(w) \subseteq DOMAIN execs
    BY DEF IsSettled
  <2>2. \A d \in DOMAIN table(w) : SameRow(execs[d], table(w)[d])
    BY <2>1 DEF IsSettled, RowsStable
  <2>3. \A d \in DOMAIN table(w) : same(d, w)
    BY <2>1, <2>2 DEF IsSettled, AreRows, IsRow, Columns, SameRow
  <2> QED BY <2>1, <2>3
<1>2. ASSUME NEW w \in Windows, NEW e \in DOMAIN table(w)
      PROVE  \/ \E k \in Combos(Content(w)) : /\ e = SummaryId(Legs(Rows, k), k)
                                              /\ table(w)[e] = Summary(Legs(Rows, k), k)
             \/ \E r \in Content(w) : r.id = e /\ table(w)[e] = Execution(Content(w), r)
  <2> DEFINE batch == Content(w)
  <2>1. batch \in SUBSET Rows /\ \A j \in Combos(batch) : Legs(batch, j) = Legs(Rows, j)
    BY DEF Content, CombosWhole
  <2>2. e \in DOMAIN Written(batch)
    OBVIOUS
  <2> HIDE DEF batch
  <2>3. \/ \E j \in Combos(batch) : e = SummaryId(Legs(Rows, j), j) /\ Written(batch)[e] = Summary(Legs(Rows, j), j)
        \/ \E r \in batch : r.id = e /\ Written(batch)[e] = Execution(batch, r)
    BY <2>1, <2>2, WrittenRow
  <2> QED BY <2>3 DEF batch
<1>3. \A w \in Windows : Content(w) \subseteq Rows
  BY DEF Content
<1>4. \A w \in Windows : \A j \in Combos(Content(w)) : j \in Combos(Rows)
  <2> SUFFICES ASSUME NEW w \in Windows, NEW j \in Combos(Content(w)) PROVE j \in Combos(Rows)
    OBVIOUS
  <2>1. Legs(Content(w), j) = Legs(Rows, j)
    BY DEF CombosWhole
  <2>2. j \in {r.key : r \in Rows} \ {None}
    BY <1>3 DEF Combos
  <2>3. Cardinality({r.con : r \in Legs(Content(w), j)}) >= 2
    BY DEF Combos, Legs
  <2> QED BY <2>1, <2>2, <2>3 DEF Combos, Legs
<1> HIDE DEF table
<1>5. PICK w \in Windows : l \in DOMAIN table(w) /\ holds(w)
  BY <1>1
<1>6. table(w)[l].role = "leg" /\ table(w)[l].trade = t
  BY <1>5
<1>7. PICK q \in Content(w) : q.id = l /\ table(w)[l] = Execution(Content(w), q)
  <2>1. \A j : table(w)[l] # Summary(Legs(Rows, j), j)
    <3>1. \A j : Summary(Legs(Rows, j), j).role = "combo_summary"
      BY DEF Summary
    <3> QED BY <1>6, <3>1
  <2> QED BY <1>2, <1>5, <2>1
<1> DEFINE k == q.key
           legs == Legs(Rows, k)
           sum == SummaryId(legs, k)
<1>8. k \in Combos(Content(w)) /\ t = <<"combo", k>>
  BY <1>6, <1>7 DEF Execution, Parent
<1>9. /\ Legs(Content(w), k) = legs
      /\ \A r \in legs, s \in Rows : Base(r.id) = Base(s.id) => r = s
      /\ \A r \in Rows : Base(r.id) # Base(sum)
      /\ \A j \in Combos(Rows) : Base(SummaryId(Legs(Rows, j), j)) = Base(sum) => j = k
  BY <1>8 DEF CombosWhole
<1>10. DOMAIN table(w) = {r.id : r \in Content(w)}
                           \cup {SummaryId(Legs(Content(w), j), j) : j \in Combos(Content(w))}
  BY DEF Written, table
<1>11. sum \in DOMAIN table(w) /\ \A r \in legs : r.id \in DOMAIN table(w)
  <2>1. \A r \in legs : r \in Content(w)
    BY <1>9 DEF Legs
  <2>2. SummaryId(Legs(Content(w), k), k) = sum
    BY <1>9
  <2> HIDE DEF legs, sum, k
  <2> QED BY <1>8, <1>10, <2>1, <2>2
<1>12. ASSUME NEW v \in Windows, NEW e \in DOMAIN table(v), table(v)[e].trade = t
       PROVE  /\ table(v)[e].role = "leg" => \E r \in legs : r.id = e
              /\ table(v)[e].role = "combo_summary" => e = sum
  <2>1. CASE \E j \in Combos(Content(v)) : e = SummaryId(Legs(Rows, j), j) /\ table(v)[e] = Summary(Legs(Rows, j), j)
    <3>1. PICK j \in Combos(Content(v)) : e = SummaryId(Legs(Rows, j), j) /\ table(v)[e] = Summary(Legs(Rows, j), j)
      BY <2>1
    <3>2. table(v)[e].role = "combo_summary" /\ table(v)[e].trade = <<"combo", j>>
      BY <3>1 DEF Summary
    <3>3. j = k
      BY <1>8, <1>12, <3>2
    <3> QED BY <3>1, <3>2, <3>3
  <2>2. CASE \E r \in Content(v) : r.id = e /\ table(v)[e] = Execution(Content(v), r)
    <3>1. PICK r \in Content(v) : r.id = e /\ table(v)[e] = Execution(Content(v), r)
      BY <2>2
    <3>2. table(v)[e].role = (IF r.key \in Combos(Content(v)) THEN "leg" ELSE "standalone")
            /\ table(v)[e].trade = Parent(Content(v), r)
      BY <3>1 DEF Execution
    <3>3. r.key \in Combos(Content(v)) => r.key = k
      BY <1>8, <1>12, <3>2 DEF Parent
    <3>4. r.key = k => r \in legs
      BY <1>3 DEF Legs
    <3> QED BY <3>1, <3>2, <3>3, <3>4
  <2> QED BY <1>2, <2>1, <2>2
<1>13. \A e \in DOMAIN execs : execs[e].trade = t =>
         /\ execs[e].role = "leg" => \E r \in legs : r.id = e
         /\ execs[e].role = "combo_summary" => e = sum
  <2> HIDE DEF legs, sum, k
  <2> QED BY <1>1, <1>12
<1>14. /\ table(w)[sum] = Summary(legs, k)
       /\ \A r \in legs : /\ table(w)[r.id].role = "leg" /\ table(w)[r.id].trade = t
                          /\ table(w)[r.id].cash = r.cash
  <2>1. sum \in DOMAIN Written(Content(w)) /\ \A r \in legs : r.id \in DOMAIN Written(Content(w))
    BY <1>11 DEF table
  <2>2. Written(Content(w))[sum] = Summary(legs, k)
    BY <1>8, <2>1, ComboRows
  <2>3. ASSUME NEW r \in legs
        PROVE  /\ Written(Content(w))[r.id].role = "leg" /\ Written(Content(w))[r.id].trade = t
               /\ Written(Content(w))[r.id].cash = r.cash
    <3>1. r.id \in DOMAIN Written(Content(w))
      BY <2>1
    <3> QED BY <1>8, <3>1, ComboRows
  <2> QED BY <2>2, <2>3 DEF table
<1>15. /\ execs[sum].trade = t /\ execs[sum].role = "combo_summary" /\ execs[sum].cash = Cash(legs)
       /\ sum \in DOMAIN execs
  <2>1. Summary(legs, k).role = "combo_summary" /\ Summary(legs, k).trade = t /\ Summary(legs, k).cash = Cash(legs)
    BY <1>8 DEF Summary
  <2> HIDE DEF legs, sum, k
  <2> QED BY <1>5, <1>11, <1>14, <2>1
<1>16. \A r \in legs : /\ r.id \in DOMAIN execs /\ execs[r.id].trade = t /\ execs[r.id].role = "leg"
                       /\ execs[r.id].cash = r.cash
  <2> HIDE DEF legs, sum, k
  <2> QED BY <1>5, <1>11, <1>14
<1>17. \A e \in DOMAIN execs : 
         \/ \E r \in Rows : r.id = e
         \/ \E v \in Windows : \E j \in Combos(Content(v)) : e = SummaryId(Legs(Rows, j), j)
  <2> SUFFICES ASSUME NEW e \in DOMAIN execs
               PROVE  \/ \E r \in Rows : r.id = e
                      \/ \E v \in Windows : \E j \in Combos(Content(v)) : e = SummaryId(Legs(Rows, j), j)
    OBVIOUS
  <2>1. PICK v \in Windows : e \in DOMAIN table(v)
    BY <1>1
  <2> QED BY <1>2, <1>3, <1>4, <2>1
<1>18. execs[sum].canonical
  <2>1. ASSUME NEW j \in DOMAIN execs, Base(j) = Base(sum) PROVE j = sum
    BY <1>4, <1>9, <1>17, <2>1
  <2>2. Revision(sum) <= Revision(sum)
    <3>1. sum \in ExecIds
      BY <1>3, <1>11, WrittenIds DEF table
    <3>2. \A r \in Rows : sum # r.id
      BY <1>9
    <3> HIDE DEF sum
    <3> QED BY <3>1, <3>2, SlotRevision
  <2> QED BY <1>15, <2>1, <2>2 DEF LatestRevisionCounts
<1>19. \A r \in legs : execs[r.id].canonical
  <2> SUFFICES ASSUME NEW r \in legs PROVE execs[r.id].canonical
    OBVIOUS
  <2>1. r \in Rows
    BY DEF Legs
  <2>2. ASSUME NEW j \in DOMAIN execs, Base(j) = Base(r.id) PROVE j = r.id
    <3>1. CASE \E s \in Rows : s.id = j
      BY <1>9, <2>2, <3>1
    <3>2. CASE \E v \in Windows : \E c \in Combos(Content(v)) : j = SummaryId(Legs(Rows, c), c)
      BY <2>1, <2>2, <3>2 DEF CombosWhole
    <3> QED BY <1>17, <3>1, <3>2
  <2>3. Revision(r.id) <= Revision(r.id)
    BY <2>1, RevisionIs
  <2> QED BY <1>16, <2>2, <2>3 DEF LatestRevisionCounts
<1> QED
  <2>1. k \in Combos(Rows)
    BY <1>4, <1>8
  <2> HIDE DEF legs, sum, k
  <2>2. {id \in DOMAIN execs : /\ execs[id].trade = t /\ execs[id].role = "leg"
                               /\ execs[id].canonical} = {r.id : r \in legs}
    BY <1>13, <1>16, <1>19
  <2>3. {id \in DOMAIN execs : /\ execs[id].trade = t /\ execs[id].role = "combo_summary"
                                     /\ execs[id].canonical} = {sum}
    BY <1>13, <1>15, <1>18
  <2> QED BY <1>15, <1>16, <2>1, <2>2, <2>3 DEF legs, sum

\* A trade whose legs count is worth what they are, once: its summary.
LEMMA CashAddsUp ==
  ASSUME RowsStable, CombosWhole, IsSettled(execs), LatestRevisionCounts, AggregatesCurrent
  PROVE  CashConserved
<1> DEFINE of(t, role) == {id \in DOMAIN execs : /\ execs[id].trade = t
                                                 /\ execs[id].role = role
                                                 /\ execs[id].canonical}
<1> SUFFICES ASSUME NEW t \in DOMAIN trades, NEW l \in of(t, "leg")
             PROVE  trades[t].cash = SumOver([id \in of(t, "leg") |-> execs[id].cash], of(t, "leg"))
  BY DEF CashConserved
<1>1. PICK k \in Combos(Rows) :
        /\ of(t, "leg") = {r.id : r \in Legs(Rows, k)}
        /\ \A r \in Legs(Rows, k) : execs[r.id].cash = r.cash
        /\ of(t, "combo_summary") = {SummaryId(Legs(Rows, k), k)}
        /\ execs[SummaryId(Legs(Rows, k), k)].cash = Cash(Legs(Rows, k))
  BY ComboStands
<1> DEFINE legs == Legs(Rows, k)
           sum == SummaryId(legs, k)
           ids == of(t, "leg")
           rows == Restrict(execs, Counted(execs, t))
<1>2. IsFiniteSet(legs) /\ \A r \in legs : r.cash \in Int
  BY IngestAssumption, FS_Subset DEF Legs, RowType
<1>3. Cash(legs) \in Int
  <2> DEFINE f == [r \in legs |-> r.cash]
  <2>1. \A r \in legs : f[r] \in Int
    BY <1>2
  <2>2. SumOver(f, legs) \in Int
    <3> HIDE DEF f, legs
    <3> QED BY <1>2, <2>1, SumStep
  <2> QED BY <2>2 DEF Cash
<1>4. Cash(legs) = SumOver([id \in ids |-> execs[id].cash], ids)
  <2> DEFINE f == [r \in legs |-> r.cash]
             e == [id \in ids |-> execs[id].cash]
             b == [r \in legs |-> r.id]
  <2>1. \A r, s \in legs : b[r] = b[s] => r = s
    BY IngestAssumption DEF Legs
  <2>2. IsFiniteSet(legs) /\ \A r \in legs : f[r] \in Int /\ e[b[r]] = f[r]
    BY <1>1, <1>2
  <2>3. ids = {b[r] : r \in legs}
    BY <1>1
  <2>4. Cash(legs) = SumOver(f, legs)
    BY DEF Cash
  <2> HIDE DEF f, e, b, legs, ids
  <2>5. SumOver(f, legs) = SumOver(e, {b[r] : r \in legs})
    BY <2>1, <2>2, SumRenamed
  <2>6. SumOver(e, {b[r] : r \in legs}) = SumOver(e, ids)
    BY <2>3
  <2> QED BY <2>4, <2>5, <2>6 DEF e
<1>5. {id \in DOMAIN rows : rows[id].role = "combo_summary"} = {sum}
  <2>1. DOMAIN rows = Counted(execs, t) /\ \A id \in DOMAIN rows : rows[id] = execs[id]
    BY DEF Restrict
  <2> HIDE DEF rows
  <2>2. {id \in DOMAIN rows : rows[id].role = "combo_summary"} = of(t, "combo_summary")
    BY <2>1 DEF Counted
  <2> QED BY <1>1, <2>2
<1>6. rows[sum].cash = Cash(legs)
  <2>1. sum \in Counted(execs, t)
    BY <1>1 DEF Counted
  <2>2. rows[sum] = execs[sum]
    BY <2>1 DEF Restrict
  <2> QED BY <1>1, <2>2
<1>7. Totals(rows).cash = SumOver([id \in {sum} |-> rows[id].cash], {sum})
  <2> HIDE DEF rows, sum
  <2>1. {sum} # {}
    OBVIOUS
  <2> QED BY <1>5, <2>1 DEF Totals
<1>8. Totals(rows).cash = Cash(legs)
  <2> DEFINE f == [id \in {sum} |-> rows[id].cash]
  <2>1. f[sum] = Cash(legs)
    BY <1>6
  <2> HIDE DEF f, sum, legs, rows
  <2>2. SumOver(f, {sum}) = f[sum] + SumOver(f, {sum} \ {sum})
    <3>1. IsFiniteSet({sum}) /\ \A x \in {sum} : f[x] \in Int
      BY <1>3, <2>1, FS_Singleton
    <3> QED BY <3>1, SumStep
  <2>3. SumOver(f, {sum} \ {sum}) = 0
    <3>1. {sum} \ {sum} = {}
      OBVIOUS
    <3> QED BY <3>1, SumEmpty
  <2>4. SumOver(f, {sum}) = Cash(legs)
    BY <1>3, <2>1, <2>2, <2>3
  <2> QED BY <1>7, <2>4 DEF f
<1>9. trades[t] = Totals(rows)
  BY DEF AggregatesCurrent, Aggregate
<1> QED BY <1>4, <1>8, <1>9

\* A combo is worth the cash of its legs, neither less nor twice, through every
\* ingest of overlapping windows (_synthesize_combo_summary,
\* _recompute_trade_aggregates): the summary and its legs are all canonical, and
\* the aggregate is the summary's alone.  It rests on windows that do not split a
\* combo and on legs that are not corrected (CombosWhole).
THEOREM CashIsConserved ==
  ParentsStable /\ RowsStable /\ CombosWhole => (Spec => []CashConserved)
<1> SUFFICES ASSUME ParentsStable, RowsStable, CombosWhole PROVE Spec => []CashConserved
  OBVIOUS
<1>1. Init => HomeInv
  <2>1. Init => ReportsInBounds /\ AreRows(execs) /\ DOMAIN execs = {}
    BY IngestStarts DEF Init, IngestInit, FlagsInv, TotalsInv
  <2> QED BY <2>1 DEF Init, HomeInv, SyncInBounds, AsWritten
<1>2. HomeInv /\ [Next]_vars => HomeInv'
  BY HomeStep
<1>3. HomeInv => IsSettled(execs)
  BY DEF HomeInv, IsSettled, AsWritten
<1>4. HomeInv /\ LatestRevisionCounts /\ AggregatesCurrent => CashConserved
  BY <1>3, CashAddsUp
<1> QED BY <1>1, <1>2, <1>4, SettlementKeepsLatestRevision, SettlementKeepsAggregates, PTL DEF Spec
=============================================================================
