----------------------------- MODULE ItemLinks -----------------------------
(***************************************************************************)
(* Tags and tasks on items (src/services/item_links.py, item_refs.py,      *)
(* tags.py and the tags and tasks routers): a link is attached to a live   *)
(* fill, a settled trade or a row of another table, and follows a fill     *)
(* onto the trade it settles into.  Tags on positions are PositionBook's.  *)
(*                                                                         *)
(* A request reads the items it names, expanding a live fill to its whole  *)
(* order, and commits later; the syncs commit in between.  TWS and         *)
(* FlexQuery are external: a fill of Renamed settles under another id.     *)
(***************************************************************************)
EXTENDS Integers, FiniteSets

CONSTANTS
  Fills, Orders,
  OrderOf,     \* the order a fill belongs to, at the broker
  PermId,      \* of each fill, 0 when TWS gave none
  OrderId,     \* of each fill, 0 for an order entered by hand
  Renamed,     \* fills whose settled id differs from the live one
  Tags, Tasks,
  Groups,      \* rows of other tables that can be linked: groups, strategies
  MaxAsks      \* bound: what the user asks for

ASSUME LinksAssumption ==
  /\ OrderOf \in [Fills -> Orders]
  /\ PermId \in [Fills -> Nat] /\ OrderId \in [Fills -> Nat]
  /\ Renamed \subseteq Fills /\ MaxAsks \in Nat

VARIABLES
  filled,    \* fills TWS reports
  live,      \* rows of live_executions
  settled,   \* fills in trade_executions
  links,     \* open rows of tag_links and task_links: <<owner, item>>
  owners,    \* rows of tags and tasks
  status,    \* of each task
  groups,    \* rows of Groups that exist
  request,   \* the tag or task request under way
  merge,     \* the merge under way: source, target and the links it read
  asks,      \* for the bound: requests so far
  wanted,    \* history: <<owner, subject>> pairs the user asked for
  late       \* history: links a request committed on a fill already purged

linkVars ==
  <<filled, live, settled, links, owners, status, groups, request, merge, asks,
    wanted, late>>

Owners == Tags \cup Tasks
Live(f) == [kind |-> "live", id |-> f]
TradeItem(o) == [kind |-> "trade", id |-> o]
Row(g) == [kind |-> "row", id |-> g]
Idle == [kind |-> "none"]

\* What an item stands for: an order, or the row itself.
Subject(i) == IF i.kind = "live" THEN OrderOf[i.id] ELSE i.id
Linked(table) == {<<l[1], Subject(l[2])>> : l \in table}

LinksInit ==
  /\ filled = {} /\ live = {} /\ settled = {}
  /\ links = {}
  /\ owners = Tags
  /\ status = [k \in Tasks |-> "none"]
  /\ groups = Groups
  /\ request = Idle /\ merge = Idle /\ asks = 0
  /\ wanted = {} /\ late = {}

\* live_order_key: permId when there is one, else orderId, else the fill alone.
SameKey(f, g) ==
  \/ f = g
  \/ PermId[f] # 0 /\ PermId[g] = PermId[f]
  \/ PermId[f] = 0 /\ PermId[g] = 0 /\ OrderId[f] # 0 /\ OrderId[g] = OrderId[f]

\* Mutant of SameOrder: a permId of 0 is a permId.
SameOrderZero(f, g) == PermId[g] = PermId[f]

\* live_order_fills: the rows with the id that f's key is made of.  By orderId
\* that includes rows that have a permId, from which f is not reached in turn.
SameOrder(f, g) ==
  \/ f = g
  \/ PermId[f] # 0 /\ PermId[g] = PermId[f]
  \/ PermId[f] = 0 /\ OrderId[f] # 0 /\ OrderId[g] = OrderId[f]

\* resolve_item and expand_items: the items a reference stands for, none when
\* it is not found.
Expanded(i) ==
  CASE i.kind = "live" -> IF i.id \in live
                          THEN {Live(g) : g \in {g \in live : SameOrder(i.id, g)}}
                          ELSE {}
    [] i.kind = "trade" -> IF \E f \in settled : OrderOf[f] = i.id THEN {i} ELSE {}
    [] OTHER -> IF i.id \in groups THEN {i} ELSE {}

Ask == asks < MaxAsks /\ asks' = asks + 1

\* An ended fill's owners move to its trade; all its live links are dropped.
CarriedOwners(table, f) == {l[1] : l \in {l \in table : l[2] = Live(f)}}

\* carry_over_item_links for the fills fs.
Carried(table, fs) ==
  {l \in table : \A f \in fs : l[2] # Live(f)} \cup
    UNION {{<<w, TradeItem(OrderOf[f])>> : w \in CarriedOwners(table, f)} : f \in fs}

\* inherit_order_links: every live fill gets the links of its key's others.
Inherited(table, fs) ==
  table \cup UNION {
    {<<w, Live(f)>> : w \in UNION {CarriedOwners(table, g) :
                                     g \in {g \in fs : SameKey(f, g)}}} : f \in fs}

\* run_intraday_sync, as far as links go: the reported fills are written, the
\* settled ones purged and reconciled, late fills inherit.
SyncIntraday ==
  LET written == live \cup filled
      gone == written \cap settled
  IN /\ live' = written \ gone
     /\ links' = Inherited(Carried(links, gone), written \ gone)
     /\ late' = late \cap links'
     /\ UNCHANGED <<filled, settled, owners, status, groups, request, merge, wanted, asks>>

\* Links on fills that are not live, of those a request writes.
OnPurged(new) == {l \in new : l[2].kind = "live" /\ l[2].id \notin live}

\* Mutant of SyncFlex: only the links of fills still live are carried.
SyncFlexLive(fs) ==
  LET after == settled \cup fs
      orphans == live \cap Renamed \cap after
  IN /\ fs \subseteq filled
     /\ settled' = after
     /\ links' = Carried(links, ((after \cap live) \ Renamed) \cup orphans)
     /\ late' = late \cap links'
     /\ live' = live \ orphans
     /\ UNCHANGED <<filled, owners, status, groups, request, merge, wanted, asks>>

\* sync_flex_trades on a report with the fills fs: every live link whose id has
\* settled is carried, the orphaned live fills with their links after it.
SyncFlex(fs) ==
  LET after == settled \cup fs
      orphans == live \cap Renamed \cap after
  IN /\ fs \subseteq filled
     /\ settled' = after
     /\ links' = Carried(links, (after \ Renamed) \cup orphans)
     /\ late' = late \cap links'
     /\ live' = live \ orphans
     /\ UNCHANGED <<filled, owners, status, groups, request, merge, wanted, asks>>

Fill(f) ==
  /\ f \notin filled
  /\ filled' = filled \cup {f}
  /\ UNCHANGED <<live, settled, links, owners, status, groups, request, merge, wanted, late, asks>>

\* attach_tags, link_task, detach_tags and unlink_task read what they need: the
\* items, which must exist to be linked (_unlink_items takes a gone one as it
\* is), and the owner, which a tag request by name creates.
BeginRequest(verb, w, i) ==
  /\ Ask
  /\ request = Idle
  /\ w \in owners \/ (w \in Tags /\ verb = "attach")
  /\ LET items == IF verb = "detach" /\ w \in Tasks /\ Expanded(i) = {} THEN {i}
                  ELSE Expanded(i)
     IN /\ items # {}
        /\ request' = [kind |-> verb, owner |-> w, item |-> i, items |-> items,
                       fresh |-> w \notin owners]
  /\ UNCHANGED <<filled, live, settled, links, owners, status, groups, merge, wanted, late>>

\* attach_tag and attach_task: a link unless there is one.  A reference whose
\* row has gone meanwhile is a foreign-key error: nothing is written.
FinishAttach ==
  LET w == request.owner
      new == {<<w, i>> : i \in request.items}
      ok == /\ IF request.fresh THEN w \notin owners ELSE w \in owners
            /\ \A i \in request.items : i.kind = "row" => i.id \in groups
  IN /\ request.kind = "attach"
     /\ IF ok THEN /\ links' = links \cup new
                   /\ owners' = owners \cup {w}
                   /\ wanted' = wanted \cup {<<w, Subject(request.item)>>}
                   /\ late' = late \cup OnPurged(new)
              ELSE UNCHANGED <<links, owners, wanted, late>>
     /\ request' = Idle
     /\ UNCHANGED <<filled, live, settled, status, groups, merge, asks>>

\* detach_tag and detach_task.
FinishDetach ==
  LET w == request.owner
      left == links \ {<<w, i>> : i \in request.items}
  IN /\ request.kind = "detach"
     /\ links' = left
     /\ wanted' = wanted \ (Linked(links) \ Linked(left))
     /\ late' = late \cap left
     /\ request' = Idle
     /\ UNCHANGED <<filled, live, settled, owners, status, groups, merge, asks>>

\* merge_tag reads the source's links ...
BeginMerge(s, t) ==
  /\ Ask
  /\ merge = Idle /\ s # t /\ {s, t} \subseteq owners \cap Tags
  /\ merge' = [kind |-> "merge", source |-> s, target |-> t,
               items |-> {l[2] : l \in {l \in links : l[1] = s}}]
  /\ UNCHANGED <<filled, live, settled, links, owners, status, groups, request, wanted, late>>

\* move_tag_links, and the source's other links go with it by the cascade.
Moved(table, s, t, items) ==
  {l \in table : l[1] # s} \cup {<<t, i>> : i \in items}

\* ... and commits.  A link attached to the source since the read goes with the
\* source: the history forgets it here, and NoTagLost is silent about it.
FinishMerge ==
  LET s == merge.source  t == merge.target
      ok == \A i \in merge.items : i.kind = "row" => i.id \in groups
  IN /\ merge.kind = "merge"
     /\ IF ok THEN /\ links' = Moved(links, s, t, merge.items)
                   /\ wanted' = {x \in wanted : x[1] # s} \cup
                                  {<<t, Subject(i)>> : i \in merge.items}
                   /\ owners' = owners \ {s}
                   /\ late' = (late \cap links') \cup OnPurged(links' \ links)
              ELSE UNCHANGED <<links, wanted, owners, late>>
     /\ merge' = Idle
     /\ UNCHANGED <<filled, live, settled, status, groups, request, asks>>

\* create_task (its links are link_task's), patch_task, delete_task: the links
\* of a deleted task and group go by the cascade.
SetTask(k, s) ==
  /\ Ask
  /\ status[k] # s /\ s # "none"
  /\ status' = [status EXCEPT ![k] = s]
  /\ owners' = owners \cup {k}
  /\ UNCHANGED <<filled, live, settled, links, groups, request, merge, wanted, late>>
DeleteTask(k) ==
  /\ Ask
  /\ status[k] # "none"
  /\ status' = [status EXCEPT ![k] = "none"]
  /\ owners' = owners \ {k}
  /\ links' = {l \in links : l[1] # k}
  /\ wanted' = {x \in wanted : x[1] # k}
  /\ late' = late \cap links'
  /\ UNCHANGED <<filled, live, settled, groups, request, merge>>
DeleteGroup(g) ==
  /\ Ask
  /\ g \in groups
  /\ groups' = groups \ {g}
  /\ links' = {l \in links : l[2] # Row(g)}
  /\ wanted' = {x \in wanted : x[2] # g}
  /\ late' = late \cap links'
  /\ UNCHANGED <<filled, live, settled, owners, status, request, merge>>

LinksNext ==
  \/ SyncIntraday
  \/ \E fs \in SUBSET Fills : SyncFlex(fs)
  \/ \E f \in Fills : Fill(f)
  \/ \E verb \in {"attach", "detach"}, w \in Owners :
       \/ \E f \in Fills : BeginRequest(verb, w, Live(f))
       \/ \E o \in Orders : BeginRequest(verb, w, TradeItem(o))
       \/ \E g \in Groups : BeginRequest(verb, w, Row(g))
  \/ FinishAttach \/ FinishDetach \/ FinishMerge
  \/ \E s, t \in Tags : BeginMerge(s, t)
  \/ \E k \in Tasks : DeleteTask(k) \/ \E s \in {"todo", "done"} : SetTask(k, s)
  \/ \E g \in Groups : DeleteGroup(g)

\* The scheduler keeps enqueueing the FlexQuery sync, which the worker runs.
LinksFairness == WF_linkVars(SyncFlex({}))
LinksSpec == LinksInit /\ [][LinksNext]_linkVars /\ LinksFairness
-----------------------------------------------------------------------------
\* No link dangles: its tag or task exists, and so does the group, trade or live
\* fill it is on.  Only a link that a request committed after the fill had
\* settled and left live_executions names a fill that is not there.
NothingDangles ==
  /\ live \subseteq Fills /\ settled \subseteq filled
  /\ \A l \in links :
       /\ l[1] \in owners
       /\ l[2].kind = "row" => l[2].id \in groups
       /\ l[2].kind = "trade" => \E f \in settled : OrderOf[f] = l[2].id
       /\ l[2].kind = "live" => \/ l[2].id \in live
                                \/ l \in late /\ l[2].id \in settled

\* A tag or task the user put on an order is on one of its fills or on its trade
\* until the user takes it off the last of them: no purge, rename, late fill or
\* merge loses it (item_links.py:86).  NothingDangles says when the fill is gone.
NoTagLost == wanted \subseteq Linked(links)

\* ... and it is on no order the user did not put it on, whatever ids TWS left
\* at zero (live_order_key, live_order_fills).
NoTagStrays == Linked(links) \subseteq wanted

\* The links are the user's, through partial fills, settlement, merges and
\* requests that overlap a sync.
LinksExact == NothingDangles /\ NoTagLost /\ NoTagStrays

\* A link on a fill that has settled under its own id lands on the trade, also
\* when the request that made it committed after the purge: again and again
\* none is left behind (group_link_carryover.py:28-32).
LinkLands ==
  []<>(\A f \in settled \ Renamed : \A l \in links : l[2] # Live(f))
=============================================================================
