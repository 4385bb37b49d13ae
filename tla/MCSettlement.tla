---------------------------- MODULE MCSettlement ----------------------------
(* Small instances of Settlement for TLC. *)
EXTENDS TradesPage

CONSTANTS g1, g2, none

Row(id, what, order, key, con, side, qty, cash, at, published, book) ==
  [id |-> id, what |-> what, order |-> order, key |-> key, ref |-> None, con |-> con,
   side |-> side, qty |-> qty, cash |-> cash, at |-> at, day |-> 1,
   published |-> published, book |-> book]

FillOf(id, what, order, bag, con, side, qty, cash, at) ==
  [id |-> id, what |-> what, order |-> order, bag |-> bag, con |-> con,
   side |-> side, qty |-> qty, cash |-> cash, at |-> at, day |-> 1]

(* A plain order, unseen by TWS, whose fill is corrected two days later. *)
PlainRows == {Row(<<1, 1, 1, 1>>, 1, 1, 11, 1, "BUY", 2, 8, 1, 2, FALSE),
              Row(<<1, 1, 1, 2>>, 1, 1, 11, 1, "BUY", 3, 12, 1, 3, FALSE)}

(* A combo of two legs: the live id of one has a segment more. *)
ComboRows == {Row(<<2, 1, 2, 1>>, 2, 2, 12, 2, "BUY", 1, 5, 2, 2, FALSE),
              Row(<<2, 1, 3, 1>>, 3, 2, 12, 3, "SELL", -1, -3, 2, 2, FALSE)}
ComboFills == {FillOf(<<2, 1, 2, 1, 1>>, 2, 2, FALSE, 2, "BUY", 1, 5, 2),
               FillOf(<<2, 1, 3, 1>>, 3, 2, FALSE, 3, "SELL", 1, 3, 2),
               FillOf(<<3, 1, 1, 1>>, 4, 2, TRUE, 9, "BUY", 1, 2, 2)}

(* An option that expires. *)
BookRows == {Row(<<90>>, 5, 0, None, 4, "SELL", -1, 0, 3, 2, TRUE)}
BookFills == {FillOf(<<4, 1, 1, 1>>, 5, None, FALSE, 4, "SELL", 1, 0, 3)}

AllRows == PlainRows \cup ComboRows \cup BookRows
AllFills == ComboFills \cup BookFills

(* No report of this instance splits the combo, and its fills differ in what
   the matchers compare, which finds each of them. *)
ASSUME InstanceParents == ParentsStable /\ CombosWhole
ASSUME InstanceFills == RowsStable /\ FillsToldApart
ASSUME InstancePage == IdsNameFills /\ CombosOfADay /\ FillsFound
=============================================================================
