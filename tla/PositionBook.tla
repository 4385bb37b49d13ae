---------------------------- MODULE PositionBook ----------------------------
(***************************************************************************)
(* The position tables: the settled snapshot FlexQuery reports once a day  *)
(* (src/services/position_sync_flexquery.py), the overlay captured from    *)
(* TWS during the day (src/services/intraday_sync_tws.py), the two views   *)
(* that combine them (list_positions, merge_positions) and the position    *)
(* tags the syncs end (src/services/item_links.py).                        *)
(*                                                                         *)
(* The brokerage is external: holdings open and close, by a fill or not (a *)
(* transfer, an expiration), and a report of date d shows the book at the  *)
(* end of trade date d.  Time runs in slots, two to a Chicago day: the day  *)
(* session, and the evening, which futures already trade for the next      *)
(* date.  Holding is 0 or 1 of a contract: quantities are Figures'.        *)
(***************************************************************************)
EXTENDS Integers, Sequences, FiniteSets, SequencesExt, FiniteSetsExt

CONSTANTS
  Accounts, Contracts,
  Connected,   \* the accounts the TWS login serves
  LastSlot,    \* bound: the clock
  MaxMoves     \* bound: holdings opened or closed

ASSUME BookAssumption ==
  /\ Connected \subseteq Accounts
  /\ LastSlot \in Nat /\ MaxMoves \in Nat

VARIABLES
  slot,        \* the clock
  moves,       \* what happened at the brokerage, in order
  filed,       \* the newest trade date whose fills are in trade_executions
  positions,   \* the settled rows of each account, all of one report
  overlay,     \* the live rows of each account, all of one capture
  capturing,   \* the stamp of the intraday sync under way, or NoCapture
  tagged,      \* position tags
  reported     \* history: the date of each account's last collected report

bookVars == <<slot, moves, filed, positions, overlay, capturing, tagged, reported>>

NoDate == -1
NoCapture == [slot |-> -1, seen |-> 0]
Keys == Accounts \X Contracts

\* ct_date, and the date a fill trades for.
CtDate(s) == s \div 2
TradeDate(s) == (s + 1) \div 2

MovesOf(a, c) == {i \in DOMAIN moves : moves[i].acct = a /\ moves[i].con = c}
Held(a, c) == Cardinality(MovesOf(a, c)) % 2 = 1
HeldAtEnd(a, c, d) ==
  Cardinality({i \in MovesOf(a, c) : TradeDate(moves[i].slot) <= d}) % 2 = 1
Book(a, d) == {c \in Contracts : HeldAtEnd(a, c, d)}

BookInit ==
  /\ slot = 0
  /\ moves = <<>>
  /\ filed = NoDate
  /\ positions = [a \in Accounts |->
       [rows |-> {}, asOf |-> NoDate]]
  /\ overlay = [a \in Accounts |-> [rows |-> {}, stamp |-> NoCapture]]
  /\ capturing = NoCapture
  /\ tagged = [k \in Keys |-> [state |-> "none", slot |-> 0]]
  /\ reported = [a \in Accounts |-> NoDate]

Tick ==
  /\ slot < LastSlot /\ slot' = slot + 1
  /\ UNCHANGED <<moves, filed, positions, overlay, capturing, tagged, reported>>

\* A holding opens or closes, with a fill or without one.
Move(a, c, byFill) ==
  /\ Len(moves) < MaxMoves
  /\ moves' = Append(moves, [acct |-> a, con |-> c, slot |-> slot, fill |-> byFill])
  /\ UNCHANGED <<slot, filed, positions, overlay, capturing, tagged, reported>>

\* Mutant of Superseded: a day's grace too many.
SupersededLate(stamp, asOf) == asOf # NoDate /\ asOf > CtDate(stamp.slot) + 1

\* is_overlay_superseded, and superseded_cutoff as a filter.
Superseded(stamp, asOf) == asOf # NoDate /\ asOf > CtDate(stamp.slot)

\* The settled fills net to zero and the last postdates the capture.
ClosedSince(a, c, stamp) ==
  LET fills == {i \in MovesOf(a, c) :
                  moves[i].fill /\ TradeDate(moves[i].slot) <= filed}
      buys == {i \in fills : Cardinality({j \in MovesOf(a, c) : j < i}) % 2 = 0}
  IN /\ fills # {} /\ 2 * Cardinality(buys) = Cardinality(fills)
     /\ Max(fills) > stamp.seen

\* _purge_superseded_live_positions: what is left of an account's live rows.
Purged(a, asOf) ==
  LET o == overlay[a]
      left == {c \in o.rows : /\ ~Superseded(o.stamp, asOf)
                              /\ ~ClosedSince(a, c, o.stamp)}
  IN [rows |-> left, stamp |-> IF left = {} THEN NoCapture ELSE o.stamp]

\* open_position_keys.
OpenKeys(pos, live) ==
  {k \in Keys : k[2] \in pos[k[1]].rows \cup live[k[1]].rows}

\* Mutant of Ended: the snapshot's date is not looked at.
EndedUndated(pos, live, extra) ==
  [k \in Keys |-> IF tagged[k].state = "open" /\ k \notin OpenKeys(pos, live)
                  THEN [tagged[k] EXCEPT !.state = "ended"] ELSE tagged[k]]

\* end_flat_position_tags: an account without rows is dated by the caller,
\* else by the newest snapshot of any account.
Ended(pos, live, extra) ==
  LET dated(a) == IF pos[a].rows # {} THEN pos[a].asOf ELSE NoDate
      latest == Max({NoDate} \cup {dated(a) : a \in Accounts})
      date(a) == IF a \in DOMAIN extra THEN extra[a]
                 ELSE IF dated(a) # NoDate THEN dated(a) ELSE latest
      ends(k) == /\ tagged[k].state = "open"
                 /\ k \notin OpenKeys(pos, live)
                 /\ date(k[1]) # NoDate /\ date(k[1]) >= CtDate(tagged[k].slot)
  IN [k \in Keys |-> IF ends(k) THEN [tagged[k] EXCEPT !.state = "ended"]
                     ELSE tagged[k]]

\* run_intraday_sync stamps the capture before it asks TWS for anything.
StartCapture ==
  /\ capturing = NoCapture /\ Connected # {}
  /\ capturing' = [slot |-> slot, seen |-> Len(moves)]
  /\ UNCHANGED <<slot, moves, filed, positions, overlay, tagged, reported>>

\* _write_live_positions and the end of the sync: the accounts that hold
\* something are replaced, an account that holds nothing is not in ib.positions()
\* and keeps its rows.
CommitCapture ==
  LET now(a) == {c \in Contracts : Held(a, c)}
      scope == {a \in Connected : now(a) # {}}
      live == [a \in Accounts |->
                IF a \in scope THEN [rows |-> now(a), stamp |-> capturing]
                ELSE overlay[a]]
  IN /\ capturing # NoCapture
     /\ overlay' = live
     /\ tagged' = Ended(positions, live, <<>>)
     /\ capturing' = NoCapture
     /\ UNCHANGED <<slot, moves, filed, positions, reported>>

\* sync_flex_positions on a report of date d, which may be collected after a
\* younger one.  The one worker has no capture open meanwhile.
SyncFlexPositions(a, d) ==
  /\ capturing = NoCapture /\ d < CtDate(slot)
  /\ LET rows == Book(a, d)
         pos == [positions EXCEPT ![a] =
                   [rows |-> rows, asOf |-> IF rows = {} THEN NoDate ELSE d]]
         live == [overlay EXCEPT ![a] = Purged(a, d)]
     IN /\ positions' = pos
        /\ overlay' = live
        /\ tagged' = Ended(pos, live, IF rows = {} THEN [x \in {a} |-> d] ELSE <<>>)
  /\ reported' = [reported EXCEPT ![a] = d]
  /\ UNCHANGED <<slot, moves, filed, capturing>>

\* The trades of a report are ingested: their fills can show a close.
FileTrades(d) ==
  /\ capturing = NoCapture /\ d < CtDate(slot) /\ d > filed
  /\ filed' = d
  /\ UNCHANGED <<slot, moves, positions, overlay, capturing, tagged, reported>>

\* list_positions: every settled row, and the live rows without one.
Listed(a) ==
  positions[a].rows \cup
    {c \in overlay[a].rows : ~Superseded(overlay[a].stamp, positions[a].asOf)}

\* merge_positions: live rows, and the settled ones of an account with no
\* current capture.
Merged(a) ==
  LET o == overlay[a]
      current == o.rows # {} /\ ~Superseded(o.stamp, positions[a].asOf)
  IN o.rows \cup IF current THEN {} ELSE positions[a].rows

\* A tag is put on a position the page lists.
TagPosition(a, c) ==
  /\ c \in Listed(a) /\ tagged[<<a, c>>].state = "none"
  /\ tagged' = [tagged EXCEPT ![<<a, c>>] = [state |-> "open", slot |-> slot]]
  /\ UNCHANGED <<slot, moves, filed, positions, overlay, capturing, reported>>

BookNext ==
  \/ Tick \/ StartCapture \/ CommitCapture
  \/ \E a \in Accounts, c \in Contracts :
       TagPosition(a, c) \/ \E byFill \in BOOLEAN : Move(a, c, byFill)
  \/ \E d \in 0 .. CtDate(LastSlot) :
       FileTrades(d) \/ \E a \in Accounts : SyncFlexPositions(a, d)

BookSpec == BookInit /\ [][BookNext]_bookVars
-----------------------------------------------------------------------------
\* The contract was flat at some moment of that day or later: it is now, or it
\* moved since.
FlatSince(k, day) ==
  \/ ~Held(k[1], k[2])
  \/ \E i \in MovesOf(k[1], k[2]) : CtDate(moves[i].slot) >= day

\* A position tag ends only when its contract was flat at some moment since
\* the day the tag was applied, whatever order the reports and the captures
\* arrive in (src/services/item_links.py:186).  The one exception is an account
\* with no settled row to date its snapshot by: the date of another account's
\* snapshot stands in (item_links.py:202, "or latest_any") and may end it.
TagEndsOnOwnSnapshot ==
  [][\A k \in Keys :
       tagged[k].state = "open" /\ tagged'[k].state = "ended" =>
         \/ FlatSince(k, CtDate(tagged[k].slot))
         \/ /\ positions[k[1]].rows = {}
            /\ \E b \in Accounts \ {k[1]} : positions'[b].rows # {}]_bookVars

\* No position is shown on the strength of data the account's last collected
\* report has overtaken: a contract on a page was held at the end of the report's
\* date, or at a moment on that Chicago date or later
\* (_purge_superseded_live_positions and list_positions, whose two checks cover
\* for each other where an account has no row left to date its snapshot by).
ListedWasHeld ==
  \A a \in Accounts : \A c \in Listed(a) \cup Merged(a) :
    LET d == reported[a] IN
    \/ Held(a, c) \/ HeldAtEnd(a, c, d)
    \/ \E i \in MovesOf(a, c) : CtDate(moves[i].slot) >= d

\* The purge and the page agree: after any sync no live row is left that the
\* account's snapshot supersedes, so list_positions and merge_positions take
\* the same captures as current (src/services/position_sync_flexquery.py:110).
NothingSuperseded ==
  \A a \in Accounts :
    overlay[a].rows # {} => ~Superseded(overlay[a].stamp, positions[a].asOf)

\* What list_positions shows is what the brokerage held, as far as the newest
\* reports and captures can tell.
BookIsHeld == ListedWasHeld /\ NothingSuperseded
=============================================================================
