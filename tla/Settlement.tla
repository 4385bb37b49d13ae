----------------------------- MODULE Settlement -----------------------------
(***************************************************************************)
(* The handoff of a fill, and of the trade group it was tagged with, from  *)
(* the live TWS feed to the settled tables.  The intraday sync upserts the *)
(* fills TWS reports and drops those that have settled; the FlexQuery sync *)
(* (FillIngest) settles them, folds their tags over and drops the live     *)
(* fills that settled under another id.  Both are jobs of the one jobs     *)
(* worker, so they never overlap; the API's requests do: a sync reads the  *)
(* link tables before it commits, and requests commit in between.          *)
(*                                                                         *)
(*   src/services/intraday_sync_tws.py     run_intraday_sync               *)
(*   src/services/trade_sync_flexquery.py  sync_flex_trades                *)
(*   src/services/live_reconcile.py        id-divergent twins              *)
(*   src/services/group_link_carryover.py  the handoff of a tag            *)
(*   src/api/routers/trade_groups.py       the user's requests             *)
(***************************************************************************)
EXTENDS FillIngest, Functions

CONSTANTS
  LiveFills,  \* the fills TWS reports, see LiveType
  Groups,     \* rows of trade_groups
  NoGroup,
  Lookback,   \* days of fills TWS serves and fills_window_start admits
  MaxActs     \* bound: requests of the user

LiveType ==
  [id : Seq(Nat) \ {<< >>},  \* execId
   what : Nat,               \* the fill itself: shared with its settled row
   order : Nat,              \* permId, orderId without one, None for neither
   bag : BOOLEAN,            \* the BAG summary fill of a combo
   con : Nat, side : {"BUY", "SELL"}, qty : Int, cash : Int,
   at : Nat, day : 1 .. LastDay]

LiveIds == {f.id : f \in LiveFills}
LiveFill == [l \in LiveIds |-> CHOOSE f \in LiveFills : f.id = l]

\* Every id trade_executions can hold.
ExecIds ==
  LET ids == {r.id : r \in Rows}
  IN  ids \cup {<<r.key, 0>> : r \in Rows}
          \cup {SubSeq(id, 1, 2) \o <<1, 1>> : id \in {i \in ids : Len(i) >= 4}}

Contracts == {f.con : f \in LiveFills} \cup {r.con : r \in Rows}

ASSUME SettlementAssumption ==
  /\ {Lookback, MaxActs} \subseteq Nat
  /\ LiveFills \subseteq LiveType
  /\ NoGroup \notin Groups
  /\ \A f, g \in LiveFills : f.id = g.id => f = g

VARIABLES
  done,      \* ids of the fills executed so far
  live,      \* live_executions: exec_role by ib_exec_id
  liveLink,  \* trade_group_live_executions
  execLink,  \* trade_group_executions
  sync,      \* the sync transaction open, if any, and what it read
  acts       \* for the bound

liveVars == <<done, live, liveLink, execLink, sync, acts>>
vars == <<ingestVars, liveVars>>

Idle == [kind |-> "idle"]

Init ==
  /\ IngestInit
  /\ done = {}
  /\ live = << >>
  /\ liveLink = [l \in LiveIds |-> NoGroup]
  /\ execLink = [e \in ExecIds |-> NoGroup]
  /\ sync = Idle
  /\ acts = 0

-----------------------------------------------------------------------------
(* The world. *)

Fill(l) ==
  /\ LiveFill[l].day = today
  /\ l \notin done
  /\ done' = done \cup {l}
  /\ UNCHANGED <<ingestVars, live, liveLink, execLink, sync, acts>>

EndDay ==
  /\ \A l \in LiveIds : LiveFill[l].day = today => l \in done
  /\ NextDay
  /\ UNCHANGED liveVars

Request ==
  /\ \E from, to \in 1 .. LastDay : RequestReport(from, to)
  /\ UNCHANGED liveVars

-----------------------------------------------------------------------------
(* Matching live fills with settled ones. *)

\* order_group_key_from_live, for two fills.
SameOrder(l, m) == LiveFill[l].order # None /\ LiveFill[l].order = LiveFill[m].order

\* _exec_roles_by_exec_id over one batch: a combo order has a BAG fill and
\* legs in two contracts or more.
RoleIn(batch, l) ==
  LET peers == {m \in batch : SameOrder(l, m)}
      combo == /\ \E m \in peers : LiveFill[m].bag
               /\ Cardinality({LiveFill[m].con : m \in {p \in peers : ~LiveFill[p].bag}}) >= 2
  IN  IF ~combo THEN "standalone" ELSE IF LiveFill[l].bag THEN "combo_summary" ELSE "leg"

\* _same_contract_fill, and the quantity, side and contract tests of
\* _match_book_event.
SameContractFill(table, l, e) ==
  /\ LiveFill[l].con = table[e].con
  /\ LiveFill[l].side = table[e].side
  /\ AbsOf(LiveFill[l].qty) = AbsOf(table[e].qty)

\* _match_leg_strip.
StripMatches(table, l) ==
  {e \in DOMAIN table : Len(l) > 1 /\ e = Front(l) /\ SameContractFill(table, l, e)}

\* _match_book_event.
BookMatches(table, l) ==
  {e \in DOMAIN table :
     /\ table[e].book
     /\ SameContractFill(table, l, e)
     /\ AbsOf(LiveFill[l].cash) = AbsOf(table[e].cash)
     /\ LiveFill[l].day = table[e].day}

\* Mutant of Twins: a book event stands for any fill of its day and quantity.
TwinsAnyBook(table, l) ==
  IF StripMatches(table, l) # {} THEN StripMatches(table, l)
  ELSE {e \in DOMAIN table : /\ table[e].book
                             /\ AbsOf(LiveFill[l].qty) = AbsOf(table[e].qty)
                             /\ LiveFill[l].day = table[e].day}

\* The settled twin, leg strip first; the first of several.
Twins(table, l) ==
  LET all == IF StripMatches(table, l) # {} THEN StripMatches(table, l)
             ELSE BookMatches(table, l)
  IN  IF all = {} THEN {} ELSE {CHOOSE e \in all : TRUE}

\* _settled_legs_at.
SettledLegsAt(table, l) ==
  {e \in DOMAIN table : table[e].role = "leg" /\ table[e].at = LiveFill[l].at}

\* _has_live_siblings.
HasLiveSiblings(rows, l) ==
  \/ LiveFill[l].order = None
  \/ \E m \in rows \ {l} : SameOrder(l, m) /\ ~LiveFill[m].bag

\* reconcile_orphaned_live_executions: each live fill it drops, and the
\* settled rows its tag goes to.  BAG summaries come after the rest.
Reconciled(table, rows) ==
  LET orphans == rows \ DOMAIN table
      matched == {l \in orphans : Twins(table, l) # {}}
      bags == {l \in orphans \ matched :
                 /\ LiveFill[l].bag
                 /\ ~HasLiveSiblings(rows \ matched, l)
                 /\ SettledLegsAt(table, l) # {}}
  IN  {[from |-> l, to |-> Twins(table, l), rank |-> 3] : l \in matched}
        \cup {[from |-> l, to |-> SettledLegsAt(table, l), rank |-> 4] : l \in bags}

\* Settled rows under the live fill's own id.
Exact(table, ids) == {[from |-> l, to |-> {l}, rank |-> 1] : l \in ids \cap DOMAIN table}

\* _settled_combo_summaries: the summary at the fill's time, the first of several.
SummaryAt(table, l) ==
  LET all == {e \in DOMAIN table : table[e].role = "combo_summary"
                                   /\ table[e].at = LiveFill[l].at}
  IN  IF all = {} THEN {} ELSE {CHOOSE e \in all : TRUE}

SummaryMatches(table, rows) ==
  {[from |-> l, to |-> SummaryAt(table, l), rank |-> 2] :
     l \in {m \in rows : LiveFill[m].bag /\ SummaryAt(table, m) # {}}}

From(moves) == {m.from : m \in moves}

-----------------------------------------------------------------------------
(* The handoff of tags: carry_over_settled_group_links and friends. *)

\* The links a sync folds over, in the order it meets them.
Carried(moves) == {m \in moves : sync.links[m.from] # NoGroup}

\* _insert_group_execution: settled rows without a group get the tag of the
\* first move that reaches them.
Targets(moves) ==
  {e \in UNION {m.to : m \in Carried(moves)} : sync.held[e] = NoGroup}

Givers(moves, e) ==
  LET to == {m \in Carried(moves) : e \in m.to}
  IN  {m.from : m \in {n \in to : \A o \in to : n.rank <= o.rank}}

\* Mutant of Dropped: every live link of a dropped fill goes, also one
\* written since the sync read them.
DroppedUnread(moves) == From(moves)

\* The links the sync deletes: those it read, unless deleted since.
Dropped(moves) == From(Carried(moves)) \ sync.fresh

\* The two link tables after the sync's commit.
HandOver(moves) ==
  LET targets == Targets(moves)
      dropped == Dropped(moves)
  IN  /\ \E giver \in [targets -> From(Carried(moves))] :
           /\ \A e \in targets : giver[e] \in Givers(moves, e)
           /\ execLink' = [e \in ExecIds |->
                             IF e \in targets THEN sync.links[giver[e]] ELSE execLink[e]]
      /\ liveLink' = [l \in LiveIds |-> IF l \in dropped THEN NoGroup ELSE liveLink[l]]

\* Mutant of Conflict: the insert is an upsert.
ConflictIgnored(moves) == FALSE

\* A request that tagged a target since the sync read its links makes the
\* insert break the unique constraint.
Conflict(moves) == \E e \in Targets(moves) : execLink[e] # NoGroup

-----------------------------------------------------------------------------
(* The syncs. *)

Reading(kind, fills, reps) ==
  [kind |-> kind, fills |-> fills, reports |-> reps,
   links |-> liveLink, held |-> execLink, fresh |-> {}]

\* run_intraday_sync: the fills TWS reports, then the transaction's reads.
ReadIntraday ==
  /\ sync = Idle
  /\ sync' = Reading("intraday", {l \in done : LiveFill[l].day >= today - Lookback}, {})
  /\ UNCHANGED <<ingestVars, done, live, liveLink, execLink, acts>>

\* sync_flex_trades.
ReadFlex(rep) ==
  /\ sync = Idle
  /\ sync' = Reading("flex", {}, {rep})
  /\ UNCHANGED <<ingestVars, done, live, liveLink, execLink, acts>>

\* _write_fills.
LiveWritten(batch) ==
  [l \in DOMAIN live \cup batch |-> IF l \in batch THEN RoleIn(batch, l) ELSE live[l]]

\* Mutant of Purged: only fills TWS still reports are looked at.
PurgedReported(table, rows) ==
  Exact(table, rows \cap sync.fills) \cup SummaryMatches(table, rows)

\* What _purge_settled drops.
Purged(table, rows) == Exact(table, rows) \cup SummaryMatches(table, rows)

\* _purge_settled, then reconcile_orphaned_live_executions.
IntradayMoves(rows) ==
  LET purged == Purged(execs, rows)
  IN  purged \cup Reconciled(execs, rows \ From(purged))

CommitIntraday ==
  /\ sync.kind = "intraday"
  /\ \E rows \in {LiveWritten(sync.fills)} : \E moves \in {IntradayMoves(DOMAIN rows)} :
       /\ ~Conflict(moves)
       /\ HandOver(moves)
       /\ live' = Restrict(rows, DOMAIN rows \ From(moves))
  /\ sync' = Idle
  /\ UNCHANGED <<ingestVars, done, acts>>

\* carry_over_settled_group_links over every link.
FlexCarried(table) == Exact(table, LiveIds)

\* Then the reconcile, which alone drops live fills here.
CommitFlex ==
  /\ sync.kind = "flex"
  /\ \E rep \in sync.reports : CollectReport(rep)
  /\ \E reconciled \in {Reconciled(execs', DOMAIN live)} :
       /\ ~Conflict(FlexCarried(execs') \cup reconciled)
       /\ HandOver(FlexCarried(execs') \cup reconciled)
       /\ live' = Restrict(live, DOMAIN live \ From(reconciled))
  /\ sync' = Idle
  /\ UNCHANGED <<done, acts>>

\* The unique violation rolls the transaction back; the job is retried.
Abort ==
  /\ sync # Idle
  /\ execLink # sync.held
  /\ \/ /\ sync.kind = "intraday"
        /\ Conflict(IntradayMoves(DOMAIN LiveWritten(sync.fills)))
     \/ /\ sync.kind = "flex"
        /\ \E rep \in sync.reports : \E table \in {Ingested(Content(rep))} :
             Conflict(FlexCarried(table) \cup Reconciled(table, DOMAIN live))
  /\ sync' = Idle
  /\ UNCHANGED <<ingestVars, done, live, liveLink, execLink, acts>>

-----------------------------------------------------------------------------
(* The user's requests. *)

\* A link inserted while a sync is open is not one the sync has read.
NoteInserted(ls) ==
  sync' = IF sync = Idle THEN sync
          ELSE [sync EXCEPT !.fresh = @ \cup {l \in ls : liveLink[l] = NoGroup}]

Act ==
  /\ acts < MaxActs
  /\ acts' = acts + 1
  /\ UNCHANGED <<ingestVars, done, live>>

\* A live fill and the rest of its combo.
WithSiblings(l) ==
  {l} \cup IF l \in DOMAIN live /\ live[l] # "standalone"
             THEN {m \in DOMAIN live : SameOrder(l, m)} ELSE {}

TagLive(ls, g) ==
  /\ liveLink' = [l \in LiveIds |-> IF l \in ls THEN g ELSE liveLink[l]]
  /\ NoteInserted(ls)

UntagLive(ls, g) ==
  /\ liveLink' = [l \in LiveIds |->
                    IF l \in ls /\ liveLink[l] = g THEN NoGroup ELSE liveLink[l]]
  /\ UNCHANGED sync

AssignLiveExecution(l, g) ==
  /\ Act
  /\ l \in DOMAIN live
  /\ TagLive(WithSiblings(l), g)
  /\ UNCHANGED execLink

UnassignLiveExecution(l, g) ==
  /\ Act
  /\ UntagLive(WithSiblings(l), g)
  /\ UNCHANGED execLink

\* With force_reassign; without it an execution of another group is refused.
AssignExecution(e, g) ==
  /\ Act
  /\ e \in DOMAIN execs
  /\ execLink' = [execLink EXCEPT ![e] = g]
  /\ UNCHANGED <<liveLink, sync>>

UnassignExecution(e, g) ==
  /\ Act
  /\ execLink[e] = g
  /\ execLink' = [execLink EXCEPT ![e] = NoGroup]
  /\ UNCHANGED <<liveLink, sync>>

AssignPosition(c, g) ==
  /\ Act
  /\ execLink' = [e \in ExecIds |->
                    IF e \in DOMAIN execs /\ execs[e].con = c THEN g ELSE execLink[e]]
  /\ TagLive({l \in DOMAIN live : LiveFill[l].con = c}, g)

UnassignPosition(c, g) ==
  /\ Act
  /\ execLink' = [e \in ExecIds |->
                    IF e \in DOMAIN execs /\ execs[e].con = c /\ execLink[e] = g
                      THEN NoGroup ELSE execLink[e]]
  /\ UntagLive({l \in LiveIds : LiveFill[l].con = c}, g)

\* A request that changes nothing is a stuttering step, not counted.
User ==
  /\ \E g \in Groups :
       \/ \E l \in LiveIds : AssignLiveExecution(l, g) \/ UnassignLiveExecution(l, g)
       \/ \E e \in ExecIds : AssignExecution(e, g) \/ UnassignExecution(e, g)
       \/ \E c \in Contracts : AssignPosition(c, g) \/ UnassignPosition(c, g)
  /\ <<liveLink, execLink>>' # <<liveLink, execLink>>

EndSync == CommitIntraday \/ CommitFlex \/ Abort

Next ==
  \/ \E l \in LiveIds : Fill(l)
  \/ EndDay
  \/ Request
  \/ ReadIntraday
  \/ \E rep \in reports : ReadFlex(rep)
  \/ EndSync
  \/ User

Spec == Init /\ [][Next]_vars

\* The worker's loop ends every sync it begins (EndSync is enabled as long as
\* one is open), and the intraday sync is enqueued again and again in a queue
\* served in order.
FairSpec == Spec /\ SF_vars(ReadIntraday) /\ []<>(sync = Idle)

-----------------------------------------------------------------------------
(* Properties. *)

\* The settled rows of a live fill.
Settles == [l \in LiveIds |-> {r.id : r \in {s \in Rows : s.what = LiveFill[l].what}}]

\* Where the tag of a live fill belongs: its settled rows, and for a BAG
\* summary the legs and the summary of its combo.
Home ==
  [l \in LiveIds |->
     IF ~LiveFill[l].bag THEN Settles[l]
     ELSE LET legs == UNION {Settles[m] : m \in {n \in LiveIds : SameOrder(l, n)}}
          IN  legs \cup {SubSeq(e, 1, 2) \o <<1, 1>> : e \in legs}
                   \cup {<<r.key, 0>> : r \in {s \in Rows : s.id \in legs}}]

\* The settled rows a sync may take for a live fill's own.
MatchesOf(table, l) ==
  ({l} \cap DOMAIN table) \cup Twins(table, l)
    \cup IF LiveFill[l].bag THEN SettledLegsAt(table, l) \cup SummaryAt(table, l) ELSE {}

\* Ids with a segment less, book events told by contract, quantity and day,
\* combos told by their time: no live fill is taken for another's settled rows.
MatchesAreHome == \A l \in LiveIds : MatchesOf(execs, l) \subseteq Home[l]

\* The case it rests on: reports agree on the row of an id (a correction comes
\* under an id of its own), and what the matchers compare tells a live fill from
\* every row that is not its own.  Two combos filled in one second are not.
RowsStable ==
  \A v, w \in Windows :
    LET old == Written(Content(v))
        new == Written(Content(w))
    IN  \A e \in DOMAIN old \cap DOMAIN new : old[e] = new[e]

FillsToldApart ==
  \A w \in Windows, l \in LiveIds :
    LET table == Written(Content(w)) IN
    /\ StripMatches(table, l) \cup BookMatches(table, l) \subseteq Home[l]
    /\ l \in DOMAIN table => l \in Home[l]
    /\ LiveFill[l].bag =>
         {e \in DOMAIN table : /\ table[e].role \in {"leg", "combo_summary"}
                              /\ table[e].at = LiveFill[l].at} \subseteq Home[l]

Committed == sync # Idle /\ sync' = Idle

\* A sync takes a tag off a live fill only when a settled row of that fill
\* has a group in its stead, or had one when the sync looked.
HandoffKeepsGroup ==
  [][Committed =>
       \A l \in LiveIds : liveLink[l] # NoGroup /\ liveLink'[l] = NoGroup =>
         \E e \in Home[l] \cap DOMAIN execs' :
           execLink'[e] # NoGroup \/ sync.held[e] # NoGroup]_vars

\* A settled row gets no group from a sync but that of a live fill it is the
\* home of, and a group a user gave it is not overwritten.
NoStrayTag ==
  [][Committed =>
       \A e \in ExecIds : execLink'[e] # execLink[e] =>
         /\ execLink[e] = NoGroup
         /\ \E l \in LiveIds : e \in Home[l] /\ sync.links[l] = execLink'[e]]_vars

\* Once every fill has settled no live fill lingers: neither one whose id
\* differs nor the BAG summaries, which settle under no id.
SettledLeaves ==
  (\A l \in LiveIds : LiveFill[l].bag \/ Settles[l] \cap DOMAIN execs # {})
    ~> DOMAIN live = {}
=============================================================================
