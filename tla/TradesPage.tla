----------------------------- MODULE TradesPage -----------------------------
(***************************************************************************)
(* What the trades page shows while fills settle: the canonical settled    *)
(* executions, then the live fills that have not settled under their id,   *)
(* each leg under the summary of its combo and each combo under one tag.   *)
(* The page is asked for without a filter and is shorter than its limit.   *)
(*                                                                         *)
(*   src/api/routers/trades.py   list_all_trade_executions                 *)
(***************************************************************************)
EXTENDS Settlement

\* list_all_trade_executions, its settled part.
SettledShown == {e \in DOMAIN execs : execs[e].canonical}

\* Mutant of LiveShown: a live fill is shown until the sync drops it.
LiveShownTillDropped == IF SettledShown = {} THEN {} ELSE DOMAIN live

\* _unsettled_live_executions; a page with no settled row returns before it.
LiveShown == IF SettledShown = {} THEN {} ELSE DOMAIN live \ DOMAIN execs

\* _live_combo_index: the summary a leg is listed under.
ParentsOf(l) ==
  IF live[l] # "leg" THEN {}
  ELSE {b \in LiveShown : live[b] = "combo_summary" /\ SameOrder(l, b)}

\* The tag shown: the fill's own, else one of its order's.
GroupsShown(l) ==
  IF liveLink[l] # NoGroup THEN {liveLink[l]}
  ELSE {liveLink[m] : m \in {n \in LiveShown : live[n] # "standalone" /\ SameOrder(l, n)}} \ {NoGroup}

-----------------------------------------------------------------------------
(* Properties. *)

\* The rows of one fill.
RowsOf(what) ==
  {<<"settled", e>> : e \in {x \in SettledShown : \E r \in Rows : r.id = x /\ r.what = what}}
    \cup {<<"live", l>> : l \in {x \in LiveShown : LiveFill[x].what = what}}

Known(what) ==
  \/ \E l \in DOMAIN live : LiveFill[l].what = what
  \/ \E r \in Rows : r.id \in DOMAIN execs /\ r.what = what

\* Once the page has a settled row at all it has one row of every fill that is
\* known, though fills are corrected, settle under other ids, and are reported
\* live for days after.  (A BAG summary settles under no id: SettledLeaves.)
ShownOnce ==
  SettledShown # {} =>
    \A l \in LiveIds : ~LiveFill[l].bag /\ Known(LiveFill[l].what) =>
      Cardinality(RowsOf(LiveFill[l].what)) = 1

\* "One combo rather than N loose rows", and "a leg never reads as untagged
\* next to a tagged summary" (_live_combo_index): each leg on the page has its
\* summary there, and when a row of a combo is tagged all show a tag.
ComboIsWhole ==
  \A l \in LiveShown :
    /\ live[l] = "leg" => ParentsOf(l) # {}
    /\ live[l] # "standalone" /\ liveLink[l] # NoGroup =>
         \A m \in LiveShown : live[m] # "standalone" /\ SameOrder(l, m) => GroupsShown(m) # {}

PageIsRight == ShownOnce /\ ComboIsWhole

\* What the page rests on besides RowsStable and FillsToldApart.  The ids of one
\* fill, and of it alone, differ in the revision only, and TWS names a fill once.
IdsNameFills ==
  /\ \A r, s \in Rows : /\ r.what = s.what <=> Base(r.id) = Base(s.id)
                        /\ r.what = s.what /\ Revision(r.id) = Revision(s.id) => r = s
  /\ \A w \in Windows : \A i \in DOMAIN Written(Content(w)), r \in Rows :
       Base(i) = Base(r.id) => \E s \in Rows : s.id = i
  /\ \A l, m \in LiveIds : LiveFill[l].what = LiveFill[m].what => l = m

\* A combo's fills are of one day.
CombosOfADay ==
  \A l, m \in LiveIds : SameOrder(l, m) => LiveFill[l].day = LiveFill[m].day

\* A report that settles a fill has a row the matchers know it by, a report with
\* a combo's summary settles its legs, and no row is taken for a BAG summary.
FillsFound ==
  \A w \in Windows :
    LET table == Written(Content(w))
        found(l) == l \in DOMAIN table \/ StripMatches(table, l) \cup BookMatches(table, l) # {}
    IN  \A l \in LiveIds :
          IF ~LiveFill[l].bag THEN Settles[l] \cap DOMAIN table # {} => found(l)
          ELSE /\ ~found(l)
               /\ (\E e \in DOMAIN table : /\ table[e].role = "combo_summary"
                                          /\ table[e].at = LiveFill[l].at)
                    => \A m \in LiveIds : ~LiveFill[m].bag /\ SameOrder(l, m) => found(m)
=============================================================================
