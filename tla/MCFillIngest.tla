---------------------------- MODULE MCFillIngest ----------------------------
(* A combo order whose two lots fill on two days. *)
EXTENDS FillIngest

Row(id, con, side, qty, cash, day) ==
  [id |-> id, what |-> 10 * con + day, order |-> 1, key |-> 11, ref |-> None,
   con |-> con, side |-> side, qty |-> qty, cash |-> cash, at |-> day, day |-> day,
   published |-> day + 1, book |-> FALSE]

TwoLots == {Row(<<1, 1, 2, 1>>, 1, "BUY", 1, 5, 1),
            Row(<<1, 1, 3, 1>>, 2, "SELL", -1, -3, 1),
            Row(<<2, 1, 2, 1>>, 1, "BUY", 1, 6, 2),
            Row(<<2, 1, 3, 1>>, 2, "SELL", -1, -4, 2)}
=============================================================================
