---------------------------- MODULE GroupFigures ----------------------------
(***************************************************************************)
(* The money a trade group is shown with (src/services/trade_group_pnl.py, *)
(* intraday_overlay.py, execution_pnl.py) and the groups a position row is *)
(* attributed to (_open_lot_trade_groups in the positions router).  Fills  *)
(* are booked live, tagged, and settle; the figures are functions of the   *)
(* tables, read at any moment.                                             *)
(*                                                                         *)
(* The brokerage is external: it marks a settled fill Open or Close by     *)
(* what the account held.  A contract gains 1 a unit at the settled mark   *)
(* and 2 at the live one, a close realizes 1 a unit, so that every share   *)
(* of a position is a whole amount.  When rows are current is              *)
(* PositionBook's, how combos are found FillIngest's.                      *)
(***************************************************************************)
EXTENDS Integers, Sequences, FiniteSets, SequencesExt, FiniteSetsExt, Sums

\* Absolute value: quantities compare without their side.
Abs(n) == IF n < 0 THEN -n ELSE n

CONSTANTS
  Books,       \* accounts
  Items,       \* contracts
  Campaigns,   \* trade groups
  Sizes,       \* signed sizes of a fill
  MaxFills     \* bound: fills

ASSUME FiguresAssumption ==
  /\ Sizes \subseteq Int \ {0} /\ MaxFills \in Nat
  /\ IsFiniteSet(Books) /\ IsFiniteSet(Items) /\ Items # {}

VARIABLES
  fills,     \* every fill, in order of execution
  snapshot,  \* the settled rows: quantity of each account and contract
  capture    \* of each account, its live rows, or NoRows

figureVars == <<fills, snapshot, capture>>

Untagged == "untagged"
NoRows == <<>>
Pairs == Books \X Items

\* _signed_quantity: FlexQuery stores it signed, TWS unsigned with a side.
SignedQuantity(f) ==
  IF f.settled THEN f.qty
  ELSE IF f.side = "SLD" THEN -Abs(f.qty) ELSE Abs(f.qty)

Amount(S) == SumOver([i \in DOMAIN fills |-> SignedQuantity(fills[i])], S)
\* The fills of a position: a combo summary names the bag, not a leg.
FillsOf(p) == {i \in DOMAIN fills : fills[i].pair = p /\ fills[i].role # "summary"}
Net(p) == Amount(FillsOf(p))
Pnl(S) == SumOver([i \in DOMAIN fills |-> fills[i].pnl], S)

FiguresInit ==
  /\ fills = <<>>
  /\ snapshot = [p \in Pairs |-> 0]
  /\ capture = [a \in Books |-> NoRows]

Booked(p, q, role) ==
  LET closes == Net(p) * q < 0
  IN [pair |-> p, qty |-> Abs(q), side |-> IF q < 0 THEN "SLD" ELSE "BOT",
      role |-> role, group |-> Untagged, settled |-> FALSE, inLive |-> FALSE,
      cycle |-> IF closes THEN "Close" ELSE "Open", pnl |-> IF closes THEN Abs(q) ELSE 0]

\* A fill at the broker.  One that would turn the position over is two.
BookFill(p, q) ==
  /\ Len(fills) < MaxFills
  /\ Net(p) * q < 0 => Abs(q) <= Abs(Net(p))
  /\ fills' = Append(fills, Booked(p, q, "plain"))
  /\ UNCHANGED <<snapshot, capture>>

\* A combo: its legs and the summary that carries what they realized.
BookCombo(a, q) ==
  LET legs == [c \in Items |-> Booked(<<a, c>>, q, "leg")]
      order == SetToSeq(Items)
      summary == [legs[order[1]] EXCEPT !.role = "summary", !.cycle = "none",
                    !.pnl = SumOver([c \in Items |-> legs[c].pnl], Items)]
  IN /\ Len(fills) + Len(order) < MaxFills
     /\ \A c \in Items : Net(<<a, c>>) * q < 0 => Abs(q) <= Abs(Net(<<a, c>>))
     /\ fills' = fills \o [i \in DOMAIN order |-> legs[order[i]]] \o <<summary>>
     /\ UNCHANGED <<snapshot, capture>>

\* A fill the tables have is assigned, alone or with the others of its order.
Regroup(S, g) ==
  /\ \A i \in S : (fills[i].settled \/ fills[i].inLive) /\ fills[i].group # g
  /\ fills' = [i \in DOMAIN fills |-> IF i \in S THEN [fills[i] EXCEPT !.group = g]
                                      ELSE fills[i]]
  /\ UNCHANGED <<snapshot, capture>>

\* The day's reports: every fill settles, under its own id, the snapshot is the
\* account's book and the overlay it overtakes is purged.  The live fills stay
\* until the next intraday sync.
SettleDay ==
  /\ fills' = [i \in DOMAIN fills |->
                 [fills[i] EXCEPT !.settled = TRUE, !.qty = SignedQuantity(fills[i])]]
  /\ snapshot' = [p \in Pairs |-> Net(p)]
  /\ capture' = [a \in Books |-> NoRows]

\* run_intraday_sync: the accounts that hold something are captured, the fills
\* of the day are written and the settled ones purged.
CaptureNow ==
  /\ capture' = [a \in Books |->
       LET held == {c \in Items : Net(<<a, c>>) # 0}
       IN IF held = {} THEN capture[a] ELSE [c \in held |-> Net(<<a, c>>)]]
  /\ fills' = [i \in DOMAIN fills |-> [fills[i] EXCEPT !.inLive = ~fills[i].settled]]
  /\ UNCHANGED snapshot

FiguresNext ==
  \/ \E p \in Pairs, q \in Sizes : BookFill(p, q)
  \/ \E a \in Books, q \in Sizes : BookCombo(a, q)
  \/ \E g \in Campaigns :
       \/ \E i \in DOMAIN fills : Regroup({i}, g)
       \/ Regroup({i \in DOMAIN fills : fills[i].role # "plain"}, g)
  \/ SettleDay \/ CaptureNow

FiguresSpec == FiguresInit /\ [][FiguresNext]_figureVars
-----------------------------------------------------------------------------
\* The fills linked to a group, and the tagged ones still live only.
Executions(g) == {i \in DOMAIN fills : fills[i].group = g /\ fills[i].settled}
LiveTagged(g) == {i \in DOMAIN fills : fills[i].group = g /\ ~fills[i].settled}
LedgerPairs(g) == {fills[i].pair : i \in Executions(g) \cup LiveTagged(g)}

\* _net_held: a close counts only against what the group opened itself, and
\* never past zero.  A live fill carries no indicator.
NetHeld(S) ==
  LET closes == {i \in S : fills[i].settled /\ fills[i].cycle = "Close"}
      opened == Amount(S \ closes)
      own == {i \in closes : SignedQuantity(fills[i]) * opened < 0}
      held == opened + Amount(own)
  IN IF held * opened > 0 THEN held ELSE 0

\* group_holdings: what sizes the snapshot, and what sizes the live position.
SettledHeld(g, p) == NetHeld(FillsOf(p) \cap Executions(g))
TotalHeld(g, p) == NetHeld(FillsOf(p) \cap (Executions(g) \cup LiveTagged(g)))

\* Mutant of HeldPart: a group may hold more than there is.
HeldPartUncapped(held, position) == IF held * position <= 0 THEN 0 ELSE held

\* held_fraction of a position, as the quantity it comes to.
HeldPart(held, position) ==
  IF held * position <= 0 THEN 0
  ELSE IF Abs(held) < Abs(position) THEN held ELSE position

\* Mutant of RealizedTotal: the legs are added to their summary.
RealizedTotalLegs(S) == Pnl(S)

\* realized_pnl_total: summaries speak for the legs, of any combo.
RealizedTotal(S) ==
  LET summaries == {i \in S : fills[i].role = "summary"}
  IN IF summaries # {} THEN Pnl({i \in S : fills[i].role # "leg"}) ELSE Pnl(S)

\* merge_positions over a group's pairs, as the quantity each view shows: live
\* rows, and settled rows of accounts with no live row in the slice.
ViewsOf(g) ==
  LET live == {p \in LedgerPairs(g) : p[2] \in DOMAIN capture[p[1]]}
      settled == {p \in LedgerPairs(g) \ live :
                    snapshot[p] # 0 /\ \A q \in live : q[1] # p[1]}
  IN [p \in live \cup settled |->
        IF p \in live THEN [source |-> "live", position |-> capture[p[1]][p[2]]]
        ELSE [source |-> "settled", position |-> snapshot[p]]]

SettledPart(g, p) == HeldPart(SettledHeld(g, p), snapshot[p])

\* apportion_to_group: a view is cut to the group's part and dropped at zero.
Apportioned(g) ==
  LET views == ViewsOf(g)
      part(p) == IF views[p].source = "live" THEN HeldPart(TotalHeld(g, p), views[p].position)
                 ELSE SettledPart(g, p)
      kept == {p \in DOMAIN views : part(p) # 0}
  IN [p \in kept |-> [source |-> views[p].source, position |-> part(p),
                      settled |-> SettledPart(g, p)]]

\* overlay_totals: the settled unrealized of every settled row of the group.
SettledUnrealized(g) == SumOver([p \in LedgerPairs(g) |-> SettledPart(g, p)], LedgerPairs(g))

\* intraday_unrealized_total: live where there is a live number.
IntradayUnrealized(g) ==
  LET views == Apportioned(g)
      shown(v) == IF v.source = "live" THEN 2 * v.position ELSE v.settled
  IN SumOver([p \in DOMAIN views |-> shown(views[p])], DOMAIN views)

\* dedupe_live_realized: the live fills of the group's contracts, whoever they
\* are tagged to, but for those in the group's settled fills.
LiveRealized(g, books) ==
  Pnl({i \in DOMAIN fills \ Executions(g) :
         fills[i].inLive /\ fills[i].pair \in LedgerPairs(g) /\ fills[i].pair[1] \in books})

IntradayRealized(g) == RealizedTotal(Executions(g)) + LiveRealized(g, Books)
IntradayTotal(g) == IntradayUnrealized(g) + IntradayRealized(g)

\* _account_breakdown: the settled part of one account's views.
AccountUnrealized(g, a) ==
  LET views == Apportioned(g)
  IN SumOver([p \in DOMAIN views |-> views[p].settled], {p \in DOMAIN views : p[1] = a})

\* trade_group_batch_pnls without the overlay: settled fills and snapshot only.
BatchUnrealized(g) ==
  LET pairs == {fills[i].pair : i \in Executions(g)}
  IN SumOver([p \in pairs |-> HeldPart(SettledHeld(g, p), snapshot[p])], pairs)

\* _apply_fill_fifo: the oldest opposite lots close first, the rest opens one.
FifoMatched(lots, f) ==
  LET covered(n) == SumOver([i \in DOMAIN lots |-> Abs(lots[i].qty)], 1 .. n)
      opposite == lots # <<>> /\ lots[1].qty * f.qty < 0
      gone == IF opposite THEN Max({n \in 0 .. Len(lots) : covered(n) <= Abs(f.qty)}) ELSE 0
      over == Abs(f.qty) - (IF opposite THEN covered(gone) ELSE 0)
      rest == SubSeq(lots, gone + 1, Len(lots))
  IN IF over = 0 THEN rest
     ELSE IF opposite /\ rest # <<>>
          THEN <<[rest[1] EXCEPT !.qty = IF @ > 0 THEN @ - over ELSE @ + over]>> \o Tail(rest)
          ELSE Append(rest, [qty |-> IF f.qty > 0 THEN over ELSE -over, group |-> f.group])

\* _open_lot_trade_groups: what the settled fills of a position leave open,
\* oldest first, after each fill.
LotsAfter(p) ==
  LET counts(f) == f.settled /\ f.pair = p /\ f.role # "summary"
      after[n \in 0 .. Len(fills)] ==
        IF n = 0 THEN <<>>
        ELSE IF counts(fills[n]) THEN FifoMatched(after[n - 1], fills[n])
        ELSE after[n - 1]
  IN after

OpenLots(p) == LotsAfter(p)[Len(fills)]

-----------------------------------------------------------------------------
\* The groups and the positions there is anything to show of.
Tagged == {fills[i].group : i \in DOMAIN fills} \ {Untagged}
Traded == {fills[i].pair : i \in DOMAIN fills}

\* Whether a group closed only what it had opened itself.
OwnCloses(p) ==
  /\ \A i \in FillsOf(p) : fills[i].group # Untagged
  /\ \A g \in Tagged : TotalHeld(g, p) = Amount({i \in FillsOf(p) : fills[i].group = g})

\* Two groups hold one side of the position and a third the other.
Opposed(p) ==
  \E g, h, k \in Tagged : /\ g # h /\ TotalHeld(g, p) * Net(p) > 0
                          /\ TotalHeld(h, p) * Net(p) > 0
                          /\ TotalHeld(k, p) * Net(p) < 0

\* A position groups share is counted once (trade_group_pnl.py:574-576): when
\* every fill is tagged and no group closed another's lots, the groups' parts of
\* the live position come to no more than the position.  Each part is capped by
\* the whole position, so two groups on one side may come to more once a third,
\* on the other side, has made the position smaller than the two.
SharesWithinBook ==
  \A p \in Traded :
    OwnCloses(p) /\ ~Opposed(p) =>
      SumOver([g \in Tagged |-> Abs(HeldPart(TotalHeld(g, p), Net(p)))], Tagged) <= Abs(Net(p))

\* A combo's profit is counted once in a group it is linked to as a whole,
\* beside single fills (realized_pnl_total).
ComboCountedOnce ==
  \A g \in Tagged :
    LET S == Executions(g)
        combo == {i \in DOMAIN fills : fills[i].role # "plain"}
        whole == combo \cap S \in {{}, combo}
    IN whole => RealizedTotal(S) = Pnl({i \in S : fills[i].role # "summary"})

\* The lots left open by the fills come to the settled quantity, all on one
\* side: no attribution is lost or invented by a partial close.
OpenLotsAreNet ==
  \A p \in Traded :
    LET lots == OpenLots(p)
    IN /\ SumOver([i \in DOMAIN lots |-> lots[i].qty], DOMAIN lots) =
            Amount({i \in FillsOf(p) : fills[i].settled})
       /\ \A i, j \in DOMAIN lots : lots[i].qty * lots[j].qty > 0

\* The settled total has one value on every page: the batched list without the
\* overlay and the detail page agree ("can never drift apart",
\* trade_group_pnl.py:637-638), also with unsettled tags on the contract.
PathsAgree == \A g \in Tagged : BatchUnrealized(g) = SettledUnrealized(g)

\* Before the first capture of a day the intraday total is the settled one, and
\* the accounts' figures come to the group's ("that reconciles to them",
\* trade_group_pnl.py:441).  With live rows they need not.
OvernightAgrees ==
  (\A a \in Books : capture[a] = NoRows) /\ (\A i \in DOMAIN fills : ~fills[i].inLive) =>
    \A g \in Tagged :
      /\ IntradayTotal(g) = SettledUnrealized(g) + RealizedTotal(Executions(g))
      /\ SumOver([a \in Books |-> AccountUnrealized(g, a)], Books) = SettledUnrealized(g)

\* The pages that compute the same figure by different paths show one value.
FiguresAgree == ComboCountedOnce /\ OpenLotsAreNet /\ PathsAgree /\ OvernightAgrees
=============================================================================
