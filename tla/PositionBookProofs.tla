------------------------- MODULE PositionBookProofs -------------------------
(***************************************************************************)
(* What the positions page lists is what the brokerage holds, and position *)
(* tags end on the account's own snapshot, for any accounts, contracts,    *)
(* moves and order of the reports.                                         *)
(***************************************************************************)
EXTENDS PositionBook, FiniteSetTheorems, TLAPS

MoveRecords == [acct : Accounts, con : Contracts, slot : Nat, fill : BOOLEAN]
Stamps == [slot : Int, seen : Int]

BookTyped ==
  /\ slot \in Nat /\ filed \in Int
  /\ moves \in Seq(MoveRecords)
  /\ \A i \in DOMAIN moves : moves[i].slot <= slot
  /\ positions \in [Accounts -> [rows : SUBSET Contracts, asOf : Int]]
  /\ overlay \in [Accounts -> [rows : SUBSET Contracts, stamp : Stamps]]
  /\ capturing \in Stamps
  /\ tagged \in [Keys -> [state : {"none", "open", "ended"}, slot : Nat]]
  /\ reported \in [Accounts -> Int]

\* A report is older than the day it is collected on, and than a capture that
\* is under way, and no live row is older than it.
ReportsArePast ==
  \A a \in Accounts :
    /\ reported[a] < CtDate(slot)
    /\ capturing # NoCapture => reported[a] < CtDate(capturing.slot)
    /\ overlay[a].rows # {} => reported[a] <= CtDate(overlay[a].stamp.slot)

\* The settled rows are the book at the end of the day they are dated.
RowsAreTheBook ==
  \A a \in Accounts :
    IF positions[a].rows = {} THEN positions[a].asOf = NoDate
    ELSE /\ positions[a].asOf = reported[a] /\ reported[a] # NoDate
         /\ positions[a].rows = Book(a, reported[a])

\* A live row is of a contract held now, or moved since the capture began.
LiveRowsWereHeld ==
  /\ capturing # NoCapture => capturing.slot <= slot
  /\ \A a \in Accounts : overlay[a].rows # {} => overlay[a].stamp.slot <= slot
  /\ \A a \in Accounts : \A c \in overlay[a].rows :
       \/ Held(a, c)
       \/ \E i \in MovesOf(a, c) : moves[i].slot >= overlay[a].stamp.slot

BookInv == BookTyped /\ ReportsArePast /\ RowsAreTheBook /\ LiveRowsWereHeld

\* The columns of the tables and of the clock, one by one.
LEMMA Fields ==
  ASSUME BookTyped
  PROVE  /\ \A i \in DOMAIN moves : moves[i].slot \in Nat
         /\ DOMAIN moves = 1 .. Len(moves) /\ Len(moves) \in Nat
         /\ \A a \in Accounts :
              /\ overlay[a].rows \in SUBSET Contracts
              /\ overlay[a].stamp.slot \in Int /\ overlay[a].stamp \in Stamps
              /\ positions[a].rows \in SUBSET Contracts /\ positions[a].asOf \in Int
              /\ reported[a] \in Int
         /\ capturing.slot \in Int
<1>1. \A i \in DOMAIN moves : moves[i] \in MoveRecords
  BY DEF BookTyped
<1>2. \A i \in DOMAIN moves : moves[i].slot \in Nat
  BY <1>1 DEF MoveRecords
<1>3. \A a \in Accounts : /\ overlay[a] \in [rows : SUBSET Contracts, stamp : Stamps]
                         /\ positions[a] \in [rows : SUBSET Contracts, asOf : Int]
  BY DEF BookTyped
<1>4. \A st \in Stamps : st.slot \in Int
  BY DEF Stamps
<1> QED BY <1>2, <1>3, <1>4 DEF BookTyped

\* What the invariant says of the two tables is what the page must list.
LEMMA BookHolds == BookInv => BookIsHeld
<1> SUFFICES ASSUME BookInv PROVE BookIsHeld
  OBVIOUS
<1>1. ASSUME NEW a \in Accounts, overlay[a].rows # {}
      PROVE  ~Superseded(overlay[a].stamp, positions[a].asOf)
  <2>1. reported[a] <= CtDate(overlay[a].stamp.slot)
    BY <1>1 DEF BookInv, ReportsArePast
  <2>2. positions[a].asOf \in {NoDate, reported[a]}
    BY DEF BookInv, RowsAreTheBook
  <2> QED BY <2>1, <2>2, Fields DEF BookInv, Superseded, CtDate
<1>2. ASSUME NEW a \in Accounts, NEW c \in positions[a].rows
      PROVE  HeldAtEnd(a, c, reported[a])
  BY <1>2 DEF BookInv, RowsAreTheBook, Book
<1>3. ASSUME NEW a \in Accounts, NEW c \in overlay[a].rows
      PROVE  Held(a, c) \/ \E i \in MovesOf(a, c) : CtDate(moves[i].slot) >= reported[a]
  <2>1. CASE Held(a, c)
    BY <2>1
  <2>2. CASE ~Held(a, c)
    <3>1. PICK i \in MovesOf(a, c) : moves[i].slot >= overlay[a].stamp.slot
      BY <2>2 DEF BookInv, LiveRowsWereHeld
    <3>2. moves[i].slot \in Nat /\ overlay[a].stamp.slot \in Int /\ reported[a] \in Int
      BY <3>1, Fields DEF BookInv, MovesOf
    <3>3. reported[a] <= CtDate(overlay[a].stamp.slot)
      BY DEF BookInv, ReportsArePast
    <3> QED BY <3>1, <3>2, <3>3 DEF CtDate
  <2> QED BY <2>1, <2>2
<1>4. \A a \in Accounts : Listed(a) \cup Merged(a) \subseteq positions[a].rows \cup overlay[a].rows
  BY DEF Listed, Merged
<1>5. ListedWasHeld
  BY <1>2, <1>3, <1>4 DEF ListedWasHeld
<1> QED BY <1>1, <1>5 DEF BookIsHeld, NothingSuperseded

\* The tables start empty.
LEMMA BookStarts == BookInit => BookInv
<1> SUFFICES ASSUME BookInit PROVE BookInv
  OBVIOUS
<1>1. moves \in Seq(MoveRecords)
  BY DEF BookInit
<1> QED BY <1>1 DEF BookInit, BookInv, BookTyped, ReportsArePast, RowsAreTheBook, LiveRowsWereHeld,
            NoDate, NoCapture, Stamps, Keys, CtDate

\* A slot passes: nothing is held or dated otherwise.
LEMMA TickKeeps == BookInv /\ Tick => BookInv'
<1> SUFFICES ASSUME BookInv, Tick PROVE BookInv'
  OBVIOUS
<1>0. slot' = slot + 1 /\ slot \in Nat
  BY DEF Tick, BookInv, BookTyped
<1>1. /\ moves' = moves /\ filed' = filed /\ positions' = positions /\ overlay' = overlay
      /\ capturing' = capturing /\ tagged' = tagged /\ reported' = reported
  BY DEF Tick
<1>2. BookTyped'
  <2>1. \A i \in DOMAIN moves : moves[i].slot <= slot + 1
    BY <1>0, Fields DEF BookInv, BookTyped
  <2> QED BY <1>0, <1>1, <2>1 DEF BookInv, BookTyped
<1>3. ReportsArePast'
  <2>1. CtDate(slot) <= CtDate(slot + 1) /\ CtDate(slot) \in Int /\ CtDate(slot+1) \in Int
    BY <1>0 DEF CtDate
  <2> QED BY <1>0, <1>1, <2>1 DEF BookInv, BookTyped, ReportsArePast, CtDate
<1>4. RowsAreTheBook'
  BY <1>1 DEF BookInv, RowsAreTheBook, Book, HeldAtEnd, MovesOf
<1>5. LiveRowsWereHeld'
  <2>1. \A z \in Int : z <= slot => z <= slot + 1
    BY <1>0
  <2>2. capturing' # NoCapture => capturing'.slot <= slot'
    BY <1>0, <1>1, <2>1, Fields DEF BookInv, LiveRowsWereHeld
  <2>3. \A a \in Accounts : overlay'[a].rows # {} => overlay'[a].stamp.slot <= slot'
    BY <1>0, <1>1, <2>1, Fields DEF BookInv, LiveRowsWereHeld
  <2>4. \A a \in Accounts : \A c \in overlay'[a].rows :
         \/ Held(a, c)'
         \/ \E i \in MovesOf(a, c)' : moves'[i].slot >= overlay'[a].stamp.slot
    BY <1>1 DEF BookInv, LiveRowsWereHeld, Held, MovesOf
  <2> QED BY <2>2, <2>3, <2>4 DEF LiveRowsWereHeld
<1> QED BY <1>2, <1>3, <1>4, <1>5 DEF BookInv

\* A move is of one holding, and of a trade date no report has reached.
LEMMA MoveAddsOne ==
  ASSUME BookInv, NEW a \in Accounts, NEW c \in Contracts, NEW byFill \in BOOLEAN, Move(a, c, byFill)
  PROVE  /\ moves' \in Seq(MoveRecords) /\ Len(moves') = Len(moves) + 1
         /\ \A i \in DOMAIN moves : moves'[i] = moves[i]
         /\ moves'[Len(moves) + 1] = [acct |-> a, con |-> c, slot |-> slot, fill |-> byFill]
         /\ DOMAIN moves' = DOMAIN moves \cup {Len(moves) + 1}
         /\ \A x, y : (x # a \/ y # c) => MovesOf(x, y)' = MovesOf(x, y)
         /\ MovesOf(a, c)' = MovesOf(a, c) \cup {Len(moves) + 1}
<1>0. moves \in Seq(MoveRecords) /\ slot \in Nat
  BY DEF BookInv, BookTyped
<1>1. /\ moves' = Append(moves, [acct |-> a, con |-> c, slot |-> slot, fill |-> byFill])
      /\ [acct |-> a, con |-> c, slot |-> slot, fill |-> byFill] \in MoveRecords
  BY <1>0 DEF Move, MoveRecords
<1>2. /\ moves' \in Seq(MoveRecords) /\ Len(moves') = Len(moves) + 1
      /\ \A i \in DOMAIN moves : moves'[i] = moves[i]
      /\ moves'[Len(moves) + 1] = [acct |-> a, con |-> c, slot |-> slot, fill |-> byFill]
      /\ DOMAIN moves' = DOMAIN moves \cup {Len(moves) + 1}
  BY <1>0, <1>1
<1>3. \A x, y : (x # a \/ y # c) => MovesOf(x, y)' = MovesOf(x, y)
  BY <1>2 DEF MovesOf
<1>4. MovesOf(a, c)' = MovesOf(a, c) \cup {Len(moves) + 1}
  BY <1>2 DEF MovesOf
<1> QED BY <1>2, <1>3, <1>4

\* A holding that moves now moves after every report and every capture.
LEMMA MoveKeeps ==
  ASSUME BookInv, NEW a \in Accounts, NEW c \in Contracts, NEW byFill \in BOOLEAN, Move(a, c, byFill)
  PROVE  BookInv'
<1>0. slot \in Nat /\ moves \in Seq(MoveRecords) /\ reported \in [Accounts -> Int]
  BY DEF BookInv, BookTyped
<1>1. /\ slot' = slot /\ filed' = filed /\ positions' = positions /\ overlay' = overlay
      /\ capturing' = capturing /\ tagged' = tagged /\ reported' = reported
  BY DEF Move
<1>m. /\ moves' \in Seq(MoveRecords) /\ Len(moves') = Len(moves) + 1
      /\ \A i \in DOMAIN moves : moves'[i] = moves[i]
      /\ moves'[Len(moves) + 1] = [acct |-> a, con |-> c, slot |-> slot, fill |-> byFill]
      /\ DOMAIN moves' = DOMAIN moves \cup {Len(moves) + 1}
      /\ \A x, y : (x # a \/ y # c) => MovesOf(x, y)' = MovesOf(x, y)
      /\ MovesOf(a, c)' = MovesOf(a, c) \cup {Len(moves) + 1}
  BY MoveAddsOne
<1>2. BookTyped'
  <2>1. \A i \in DOMAIN moves' : moves'[i].slot <= slot
    BY <1>0, <1>m DEF BookInv, BookTyped
  <2>2. moves' \in Seq(MoveRecords)
    BY <1>m
  <2> QED BY <1>0, <1>1, <2>1, <2>2 DEF BookInv, BookTyped
<1>3. ReportsArePast'
  BY <1>1 DEF BookInv, ReportsArePast
<1>4. RowsAreTheBook'
  <2>1. ASSUME NEW x \in Accounts, NEW y \in Contracts
        PROVE  HeldAtEnd(x, y, reported[x])' <=> HeldAtEnd(x, y, reported[x])
    <3>1. reported[x] < TradeDate(slot)
      BY <1>0 DEF BookInv, ReportsArePast, TradeDate, CtDate
    <3>2. MovesOf(x, y) \subseteq DOMAIN moves
      BY DEF MovesOf
    <3>3. {i \in MovesOf(x, y) : TradeDate(moves[i].slot) <= reported[x]}'
            = {i \in MovesOf(x, y) : TradeDate(moves[i].slot) <= reported[x]}
      <4>1. CASE x = a /\ y = c
        <5>1. ~(TradeDate(moves'[Len(moves) + 1].slot) <= reported[x])
          <6>1. moves'[Len(moves) + 1].slot = slot
            BY <1>m
          <6>2. TradeDate(slot) \in Int /\ reported[x] \in Int
            BY <1>0 DEF TradeDate
          <6> QED BY <3>1, <6>1, <6>2
        <5>2. \A i \in MovesOf(x, y) : moves'[i] = moves[i]
          BY <3>2, <1>m
        <5>3. MovesOf(x, y)' = MovesOf(x, y) \cup {Len(moves) + 1}
          BY <4>1, <1>m
        <5> QED BY <5>1, <5>2, <5>3, <1>1
      <4>2. CASE x # a \/ y # c
        <5>2. \A i \in MovesOf(x, y) : moves'[i] = moves[i]
          BY <3>2, <1>m
        <5>3. MovesOf(x, y)' = MovesOf(x, y)
          BY <4>2, <1>m
        <5> QED BY <5>2, <5>3, <1>1
      <4> QED BY <4>1, <4>2
    <3> QED BY <3>3 DEF HeldAtEnd
  <2>2. ASSUME NEW x \in Accounts PROVE Book(x, reported[x])' = Book(x, reported[x])
    BY <2>1 DEF Book
  <2> QED BY <1>1, <2>2 DEF BookInv, RowsAreTheBook
<1>5. LiveRowsWereHeld'
  <2>1. ASSUME NEW x \in Accounts, NEW y \in overlay[x].rows
        PROVE  (Held(x, y) \/ \E i \in MovesOf(x, y) : moves[i].slot >= overlay[x].stamp.slot)'
    <3>1. CASE x = a /\ y = c
      <4>1. overlay[x].stamp.slot <= slot
        BY DEF BookInv, LiveRowsWereHeld
      <4>2. Len(moves) + 1 \in MovesOf(x, y)' /\ moves'[Len(moves) + 1].slot = slot
        BY <3>1, <1>m
      <4> QED BY <1>0, <1>1, <4>1, <4>2
    <3>2. CASE x # a \/ y # c
      <4>1. MovesOf(x, y)' = MovesOf(x, y)
        BY <3>2, <1>m
      <4>2. \A i \in MovesOf(x, y) : moves'[i] = moves[i]
        BY <1>m DEF MovesOf
      <4>3. Held(x, y)' <=> Held(x, y)
        BY <4>1 DEF Held
      <4> QED BY <1>1, <4>1, <4>2, <4>3 DEF BookInv, LiveRowsWereHeld
    <3> QED BY <3>1, <3>2
  <2> QED BY <1>1, <2>1 DEF BookInv, LiveRowsWereHeld
<1> QED BY <1>2, <1>3, <1>4, <1>5 DEF BookInv

\* Live rows that stay were held when they were captured.
LEMMA LiveRowsStay ==
  ASSUME LiveRowsWereHeld, slot' = slot, moves' = moves, overlay' = overlay,
         capturing' # NoCapture => capturing'.slot <= slot
  PROVE  LiveRowsWereHeld'
<1>1. \A a, c : (Held(a, c)' <=> Held(a, c)) /\ MovesOf(a, c)' = MovesOf(a, c)
  BY DEF Held, MovesOf
<1> QED BY <1>1 DEF LiveRowsWereHeld

\* A capture reads what is held now.
LEMMA StartKeeps == BookInv /\ StartCapture => BookInv'
<1> SUFFICES ASSUME BookInv, StartCapture PROVE BookInv'
  OBVIOUS
<1>1. /\ slot' = slot /\ moves' = moves /\ filed' = filed /\ positions' = positions
      /\ overlay' = overlay /\ tagged' = tagged /\ reported' = reported
      /\ capturing' = [slot |-> slot, seen |-> Len(moves)]
  BY DEF StartCapture
<1>2. BookTyped'
  BY <1>1, Fields DEF BookInv, BookTyped, Stamps
<1>3. ReportsArePast'
  BY <1>1 DEF BookInv, ReportsArePast
<1>4. RowsAreTheBook'
  BY <1>1 DEF BookInv, RowsAreTheBook, Book, HeldAtEnd, MovesOf
<1>5. LiveRowsWereHeld'
  <2>1. capturing'.slot <= slot'
    BY <1>1 DEF BookInv, BookTyped
  <2> QED BY <1>1, <2>1, LiveRowsStay DEF BookInv
<1> QED BY <1>2, <1>3, <1>4, <1>5 DEF BookInv

\* Ending tags leaves each what it was or ended.
LEMMA EndedTyped ==
  ASSUME BookTyped, NEW pos, NEW live, NEW extra
  PROVE  /\ Ended(pos, live, extra) \in [Keys -> [state : {"none", "open", "ended"}, slot : Nat]]
         /\ \A k \in Keys : tagged[k].state = "open" /\ Ended(pos, live, extra)[k].state = "ended"
                             => k \notin OpenKeys(pos, live)
  BY DEF Ended, BookTyped

\* A capture commits what it read, though holdings have moved since.
LEMMA CommitKeeps == BookInv /\ CommitCapture => BookInv'
<1> SUFFICES ASSUME BookInv, CommitCapture PROVE BookInv'
  OBVIOUS
<1>1. /\ slot' = slot /\ moves' = moves /\ filed' = filed /\ positions' = positions
      /\ reported' = reported /\ capturing' = NoCapture /\ capturing # NoCapture
  BY DEF CommitCapture
<1>2. \E S \in SUBSET Accounts : overlay' =
        [a \in Accounts |-> IF a \in S
           THEN [rows |-> {c \in Contracts : Held(a, c)}, stamp |-> capturing]
           ELSE overlay[a]]
  <2>1. overlay' = [a \in Accounts |->
          IF a \in {x \in Connected : {c \in Contracts : Held(x, c)} # {}}
          THEN [rows |-> {c \in Contracts : Held(a, c)}, stamp |-> capturing]
          ELSE overlay[a]]
    BY DEF CommitCapture
  <2>2. {x \in Connected : {c \in Contracts : Held(x, c)} # {}} \subseteq Accounts
    BY BookAssumption
  <2> QED BY <2>1, <2>2
<1>3. /\ overlay' \in [Accounts -> [rows : SUBSET Contracts, stamp : Stamps]]
      /\ \A a \in Accounts :
           \/ overlay'[a] = overlay[a]
           \/ /\ overlay'[a].rows = {c \in Contracts : Held(a, c)}
              /\ overlay'[a].stamp = capturing
  <2>1. PICK S \in SUBSET Accounts : overlay' =
        [a \in Accounts |-> IF a \in S
           THEN [rows |-> {c \in Contracts : Held(a, c)}, stamp |-> capturing]
           ELSE overlay[a]]
    BY <1>2
  <2>2. \A a \in Accounts :
          /\ [rows |-> {c \in Contracts : Held(a, c)}, stamp |-> capturing]
                \in [rows : SUBSET Contracts, stamp : Stamps]
          /\ overlay[a] \in [rows : SUBSET Contracts, stamp : Stamps]
    BY DEF BookInv, BookTyped
  <2>3. overlay' \in [Accounts -> [rows : SUBSET Contracts, stamp : Stamps]]
    BY <2>1, <2>2
  <2> QED BY <2>1, <2>3
<1>4. tagged' \in [Keys -> [state : {"none", "open", "ended"}, slot : Nat]]
  BY EndedTyped DEF BookInv, CommitCapture
<1>5. BookTyped'
  <2>1. NoCapture \in Stamps
    BY DEF NoCapture, Stamps
  <2> QED BY <1>1, <1>3, <1>4, <2>1 DEF BookInv, BookTyped
<1>6. ReportsArePast'
  <2>1. ASSUME NEW a \in Accounts, overlay'[a].rows # {}
        PROVE  reported[a] <= CtDate(overlay'[a].stamp.slot)
    <3>1. CASE overlay'[a] = overlay[a]
      BY <2>1, <3>1 DEF BookInv, ReportsArePast
    <3>2. CASE overlay'[a].stamp = capturing
      <4>1. reported[a] < CtDate(capturing.slot)
        BY <1>1 DEF BookInv, ReportsArePast
      <4> QED BY <3>2, <4>1, Fields DEF BookInv, CtDate
    <3> QED BY <1>3, <3>1, <3>2
  <2> QED BY <1>1, <2>1 DEF BookInv, ReportsArePast
<1>7. RowsAreTheBook'
  BY <1>1 DEF BookInv, RowsAreTheBook, Book, HeldAtEnd, MovesOf
<1>8. LiveRowsWereHeld'
  <2>1. ASSUME NEW a \in Accounts, overlay'[a].rows # {}
        PROVE  overlay'[a].stamp.slot <= slot
    BY <1>1, <1>3, <2>1 DEF BookInv, LiveRowsWereHeld
  <2>2. ASSUME NEW a \in Accounts, NEW c \in overlay'[a].rows
        PROVE  \/ Held(a, c)
               \/ \E i \in MovesOf(a, c) : moves[i].slot >= overlay'[a].stamp.slot
    BY <1>3 DEF BookInv, LiveRowsWereHeld
  <2>3. \A a, c : (Held(a, c)' <=> Held(a, c)) /\ MovesOf(a, c)' = MovesOf(a, c)
    BY <1>1 DEF Held, MovesOf
  <2> QED BY <1>1, <2>1, <2>2, <2>3 DEF LiveRowsWereHeld
<1> QED BY <1>5, <1>6, <1>7, <1>8 DEF BookInv

\* A report replaces the settled rows by its own and purges the live rows it
\* supersedes, be it older than the last.
LEMMA SyncKeeps ==
  ASSUME BookInv, NEW a \in Accounts, NEW d \in Nat, SyncFlexPositions(a, d)
  PROVE  BookInv'
<1>1. /\ slot' = slot /\ moves' = moves /\ filed' = filed
      /\ reported' = [reported EXCEPT ![a] = d] /\ capturing' = capturing
      /\ capturing = NoCapture /\ d < CtDate(slot)
  BY DEF SyncFlexPositions
<1>2. /\ positions' = [positions EXCEPT ![a] =
             [rows |-> Book(a, d), asOf |-> IF Book(a, d) = {} THEN NoDate ELSE d]]
      /\ overlay' = [overlay EXCEPT ![a] = Purged(a, d)]
  BY DEF SyncFlexPositions
<1>3. /\ Purged(a, d).rows \subseteq overlay[a].rows
      /\ Purged(a, d).rows # {} =>
           /\ Purged(a, d).stamp = overlay[a].stamp
           /\ ~Superseded(overlay[a].stamp, d)
      /\ Purged(a, d) \in [rows : SUBSET Contracts, stamp : Stamps]
  <2>1. NoCapture \in Stamps
    BY DEF NoCapture, Stamps
  <2> QED BY <2>1, Fields DEF BookInv, Purged
<1>4. positions' \in [Accounts -> [rows : SUBSET Contracts, asOf : Int]]
  <2>1. Book(a, d) \in SUBSET Contracts /\ (IF Book(a, d) = {} THEN NoDate ELSE d) \in Int
    BY DEF Book, NoDate
  <2> QED BY <1>2, <2>1 DEF BookInv, BookTyped
<1>5. overlay' \in [Accounts -> [rows : SUBSET Contracts, stamp : Stamps]]
  BY <1>2, <1>3 DEF BookInv, BookTyped
<1>6. tagged' \in [Keys -> [state : {"none", "open", "ended"}, slot : Nat]]
  BY EndedTyped DEF BookInv, SyncFlexPositions
<1>7. BookTyped'
  <2>1. reported' \in [Accounts -> Int]
    BY <1>1 DEF BookInv, BookTyped
  <2>2. /\ slot' = slot /\ moves' = moves /\ filed' = filed /\ capturing' = capturing
    BY <1>1
  <2> QED BY <2>1, <2>2, <1>4, <1>5, <1>6 DEF BookInv, BookTyped
<1>8. ReportsArePast'
  <2>1. ASSUME NEW x \in Accounts PROVE reported'[x] < CtDate(slot)
    BY <1>1 DEF BookInv, BookTyped, ReportsArePast
  <2>2. ASSUME NEW x \in Accounts, overlay'[x].rows # {}
        PROVE  reported'[x] <= CtDate(overlay'[x].stamp.slot)
    <3>1. CASE x = a
      <4>1. Purged(a, d).rows # {} /\ overlay'[x].stamp = overlay[a].stamp
        BY <1>2, <1>3, <2>2, <3>1 DEF BookInv, BookTyped
      <4>2. ~Superseded(overlay[a].stamp, d)
        BY <1>3, <4>1
      <4>3. overlay[a].stamp.slot \in Int
        BY Fields DEF BookInv
      <4>4. reported'[x] = d
        BY <1>1, <3>1 DEF BookInv, BookTyped
      <4> QED BY <4>1, <4>2, <4>3, <4>4 DEF Superseded, CtDate, NoDate
    <3>2. CASE x # a
      BY <1>1, <1>2, <2>2, <3>2 DEF BookInv, BookTyped, ReportsArePast
    <3> QED BY <3>1, <3>2
  <2> QED BY <1>1, <2>1, <2>2 DEF ReportsArePast
<1>9. RowsAreTheBook'
  <2>0. \A x, e : Book(x, e)' = {c \in Contracts : HeldAtEnd(x, c, e)}
    BY <1>1 DEF Book, HeldAtEnd, MovesOf
  <2>1. \A x, e : Book(x, e') = Book(x, e') /\ Book(x, reported[x])' = Book(x, reported'[x])
    BY <1>1 DEF Book, HeldAtEnd, MovesOf
  <2>2. ASSUME NEW x \in Accounts
        PROVE  IF positions'[x].rows = {} THEN positions'[x].asOf = NoDate
               ELSE /\ positions'[x].asOf = reported'[x] /\ reported'[x] # NoDate
                    /\ positions'[x].rows = Book(x, reported'[x])
    <3>1. CASE x = a
      <4>1. reported'[x] = d
        BY <1>1, <3>1 DEF BookInv, BookTyped
      <4>2. positions'[x].rows = Book(a, d)
            /\ positions'[x].asOf = IF Book(a, d) = {} THEN NoDate ELSE d
        BY <1>2, <3>1 DEF BookInv, BookTyped
      <4> QED BY <4>1, <4>2, <3>1 DEF NoDate
    <3>2. CASE x # a
      BY <1>1, <1>2, <3>2 DEF BookInv, BookTyped, RowsAreTheBook
    <3> QED BY <3>1, <3>2
  <2> QED BY <2>1, <2>2 DEF RowsAreTheBook
<1>10. LiveRowsWereHeld'
  <2>1. ASSUME NEW x \in Accounts
        PROVE  /\ overlay'[x].rows \subseteq overlay[x].rows
               /\ overlay'[x].rows # {} => overlay'[x].stamp = overlay[x].stamp
    BY <1>2, <1>3 DEF BookInv, BookTyped
  <2>2. \A x, y : (Held(x, y)' <=> Held(x, y)) /\ MovesOf(x, y)' = MovesOf(x, y)
    BY <1>1 DEF Held, MovesOf
  <2>3. ASSUME NEW x \in Accounts, overlay'[x].rows # {}
        PROVE  overlay'[x].stamp.slot <= slot
    BY <2>1, <2>3 DEF BookInv, LiveRowsWereHeld
  <2>4. ASSUME NEW x \in Accounts, NEW y \in overlay'[x].rows
        PROVE  \/ Held(x, y)
               \/ \E i \in MovesOf(x, y) : moves[i].slot >= overlay'[x].stamp.slot
    <3>1. y \in overlay[x].rows /\ overlay'[x].stamp = overlay[x].stamp
      BY <2>1, <2>4
    <3> QED BY <3>1 DEF BookInv, LiveRowsWereHeld
  <2> QED BY <1>1, <2>2, <2>3, <2>4 DEF LiveRowsWereHeld
<1> QED BY <1>7, <1>8, <1>9, <1>10 DEF BookInv

\* Filed trades purge only live rows of contracts closed since.
LEMMA FileKeeps == ASSUME BookInv, NEW d \in Nat, FileTrades(d) PROVE BookInv'
<1>1. /\ slot' = slot /\ moves' = moves /\ filed' = d /\ positions' = positions
      /\ overlay' = overlay /\ tagged' = tagged /\ reported' = reported
      /\ capturing' = capturing
  BY DEF FileTrades
<1>2. BookTyped'
  BY <1>1 DEF BookInv, BookTyped
<1>3. ReportsArePast'
  BY <1>1 DEF BookInv, ReportsArePast
<1>4. RowsAreTheBook'
  BY <1>1 DEF BookInv, RowsAreTheBook, Book, HeldAtEnd, MovesOf
<1>5. LiveRowsWereHeld'
  <2>1. capturing' # NoCapture => capturing'.slot <= slot
    BY <1>1 DEF BookInv, LiveRowsWereHeld
  <2> QED BY <1>1, <2>1, LiveRowsStay DEF BookInv
<1> QED BY <1>2, <1>3, <1>4, <1>5 DEF BookInv

\* A tag touches the tags only.
LEMMA TagKeeps ==
  ASSUME BookInv, NEW a \in Accounts, NEW c \in Contracts, TagPosition(a, c)
  PROVE  BookInv'
<1>1. /\ slot' = slot /\ moves' = moves /\ filed' = filed /\ positions' = positions
      /\ overlay' = overlay /\ reported' = reported /\ capturing' = capturing
      /\ tagged' = [tagged EXCEPT ![<<a, c>>] = [state |-> "open", slot |-> slot]]
  BY DEF TagPosition
<1>2. BookTyped'
  BY <1>1 DEF BookInv, BookTyped
<1>3. ReportsArePast'
  BY <1>1 DEF BookInv, ReportsArePast
<1>4. RowsAreTheBook'
  BY <1>1 DEF BookInv, RowsAreTheBook, Book, HeldAtEnd, MovesOf
<1>5. LiveRowsWereHeld'
  <2>1. capturing' # NoCapture => capturing'.slot <= slot
    BY <1>1 DEF BookInv, LiveRowsWereHeld
  <2> QED BY <1>1, <2>1, LiveRowsStay DEF BookInv
<1> QED BY <1>2, <1>3, <1>4, <1>5 DEF BookInv

\* Nothing happens.
LEMMA StutterKeeps == BookInv /\ UNCHANGED bookVars => BookInv'
<1> SUFFICES ASSUME BookInv, UNCHANGED bookVars PROVE BookInv'
  OBVIOUS
<1>1. /\ slot' = slot /\ moves' = moves /\ filed' = filed /\ positions' = positions
      /\ overlay' = overlay /\ tagged' = tagged /\ reported' = reported
      /\ capturing' = capturing
  BY DEF bookVars
<1>2. BookTyped'
  BY <1>1 DEF BookInv, BookTyped
<1>3. ReportsArePast'
  BY <1>1 DEF BookInv, ReportsArePast
<1>4. RowsAreTheBook'
  BY <1>1 DEF BookInv, RowsAreTheBook, Book, HeldAtEnd, MovesOf
<1>5. LiveRowsWereHeld'
  <2>1. capturing' # NoCapture => capturing'.slot <= slot
    BY <1>1 DEF BookInv, LiveRowsWereHeld
  <2> QED BY <1>1, <2>1, LiveRowsStay DEF BookInv
<1> QED BY <1>2, <1>3, <1>4, <1>5 DEF BookInv

\* Every step keeps the invariant.
LEMMA BookStep == BookInv /\ [BookNext]_bookVars => BookInv'
<1> SUFFICES ASSUME BookInv, [BookNext]_bookVars PROVE BookInv'
  OBVIOUS
<1>1. CASE Tick BY <1>1, TickKeeps
<1>2. CASE StartCapture BY <1>2, StartKeeps
<1>3. CASE CommitCapture BY <1>3, CommitKeeps
<1>4. CASE \E a \in Accounts, c \in Contracts : TagPosition(a, c)
  BY <1>4, TagKeeps
<1>5. CASE \E a \in Accounts, c \in Contracts, byFill \in BOOLEAN : Move(a, c, byFill)
  BY <1>5, MoveKeeps
<1>0. 0 .. CtDate(LastSlot) \subseteq Nat
  BY BookAssumption DEF CtDate
<1>6. CASE \E d \in 0 .. CtDate(LastSlot) : FileTrades(d)
  BY <1>0, <1>6, FileKeeps
<1>7. CASE \E d \in 0 .. CtDate(LastSlot), a \in Accounts : SyncFlexPositions(a, d)
  BY <1>0, <1>7, SyncKeeps
<1>8. CASE UNCHANGED bookVars BY <1>8, StutterKeeps
<1> QED BY <1>1, <1>2, <1>3, <1>4, <1>5, <1>6, <1>7, <1>8 DEF BookNext

\* Each contract the pages list was held at the end of the date of the account's
\* last collected report, or at a moment on or after that date, though reports
\* come late or out of order and a capture commits after holdings have moved
\* (list_positions, merge_positions, _purge_superseded_live_positions).
THEOREM BookStaysHeld == BookSpec => []BookIsHeld
<1>1. BookInit => BookInv BY BookStarts
<1>2. BookInv /\ [BookNext]_bookVars => BookInv' BY BookStep
<1>3. BookInv => BookIsHeld BY BookHolds
<1> QED BY <1>1, <1>2, <1>3, PTL DEF BookSpec

\* A contract missing from a snapshot dated d was flat at the end of d: if it
\* is held now it was opened by a move of a later trade date, which is on the
\* day d or after it.
LEMMA AbsentIsFlat ==
  ASSUME BookTyped, NEW k \in Keys, NEW d \in Int, NEW day \in Int, day <= d,
         k[2] \notin Book(k[1], d)
  PROVE  FlatSince(k, day)
<1> SUFFICES ASSUME Held(k[1], k[2]) PROVE \E i \in MovesOf(k[1], k[2]) : CtDate(moves[i].slot) >= day
  BY DEF FlatSince
<1>1. ~HeldAtEnd(k[1], k[2], d)
  BY DEF Book, Keys
<1>2. {i \in MovesOf(k[1], k[2]) : TradeDate(moves[i].slot) <= d} # MovesOf(k[1], k[2])
  BY <1>1 DEF Held, HeldAtEnd
<1>3. PICK i \in MovesOf(k[1], k[2]) : ~(TradeDate(moves[i].slot) <= d)
  BY <1>2
<1>4. moves[i].slot \in Nat
  BY <1>3, Fields DEF MovesOf
<1>5. CtDate(moves[i].slot) >= day
  BY <1>3, <1>4 DEF TradeDate, CtDate
<1> QED BY <1>3, <1>5

\* A tag that ends is on no listed position, and the date it is judged by is on
\* or after the tag's: the report's, the account's own, or a stand-in.
LEMMA EndedByDate ==
  ASSUME BookTyped, NEW pos, NEW live, NEW extra, NEW k \in Keys,
         tagged[k].state = "open", Ended(pos, live, extra)[k].state = "ended"
  PROVE  /\ k \notin OpenKeys(pos, live)
         /\ k[1] \in DOMAIN extra => extra[k[1]] >= CtDate(tagged[k].slot)
         /\ k[1] \notin DOMAIN extra /\ pos[k[1]].rows # {} /\ pos[k[1]].asOf # NoDate
              => pos[k[1]].asOf >= CtDate(tagged[k].slot)
         /\ k[1] \notin DOMAIN extra /\ pos[k[1]].rows = {}
              => \E b \in Accounts \ {k[1]} : pos[b].rows # {}
<1> DEFINE dated(a) == IF pos[a].rows # {} THEN pos[a].asOf ELSE NoDate
           latest == Max({NoDate} \cup {dated(a) : a \in Accounts})
           date(a) == IF a \in DOMAIN extra THEN extra[a]
                      ELSE IF dated(a) # NoDate THEN dated(a) ELSE latest
<1>1. /\ k \notin OpenKeys(pos, live)
      /\ date(k[1]) # NoDate /\ date(k[1]) >= CtDate(tagged[k].slot)
  <2>1. Ended(pos, live, extra)[k] =
          IF /\ tagged[k].state = "open"
             /\ k \notin OpenKeys(pos, live)
             /\ date(k[1]) # NoDate /\ date(k[1]) >= CtDate(tagged[k].slot)
          THEN [tagged[k] EXCEPT !.state = "ended"] ELSE tagged[k]
    BY DEF Ended
  <2> HIDE DEF date
  <2> QED BY <2>1
<1>2. ASSUME k[1] \notin DOMAIN extra, pos[k[1]].rows = {},
             \A b \in Accounts \ {k[1]} : pos[b].rows = {}
      PROVE  FALSE
  <2>1. \A a \in Accounts : dated(a) = NoDate
    BY <1>2
  <2>2. {NoDate} \cup {dated(a) : a \in Accounts} = {NoDate}
    BY <2>1
  <2>3. latest = NoDate
    <3>1. Max({NoDate}) = NoDate
      BY DEF Max, NoDate
    <3> QED BY <2>2, <3>1
  <2>4. date(k[1]) = latest
    BY <1>2
  <2> QED BY <1>1, <2>3, <2>4
<1>3. k[1] \in DOMAIN extra => date(k[1]) = extra[k[1]]
  OBVIOUS
<1>4. k[1] \notin DOMAIN extra /\ pos[k[1]].rows # {} /\ pos[k[1]].asOf # NoDate
        => date(k[1]) = pos[k[1]].asOf
  OBVIOUS
<1> HIDE DEF date
<1> QED BY <1>1, <1>2, <1>3, <1>4

\* The step that ends a tag is a report's or a capture's.
LEMMA TagEndsWell ==
  ASSUME BookInv, [BookNext]_bookVars, NEW k \in Keys,
         tagged[k].state = "open", tagged'[k].state = "ended"
  PROVE  \/ FlatSince(k, CtDate(tagged[k].slot))
         \/ /\ positions[k[1]].rows = {}
            /\ \E b \in Accounts \ {k[1]} : positions'[b].rows # {}
<1> DEFINE day == CtDate(tagged[k].slot)
<1>0. /\ k[1] \in Accounts /\ k[2] \in Contracts /\ BookTyped
      /\ day \in Int
  <2>1. tagged[k].slot \in Nat
    BY DEF BookInv, BookTyped
  <2> QED BY <2>1 DEF BookInv, Keys, CtDate
<1>1. \A a \in Accounts : positions[a].rows # {} =>
        /\ positions[a].asOf \in Int /\ positions[a].asOf # NoDate
        /\ positions[a].rows = Book(a, positions[a].asOf)
  BY <1>0, Fields DEF BookInv, RowsAreTheBook, NoDate
<1>2. ASSUME CommitCapture
      PROVE  \/ FlatSince(k, day)
             \/ /\ positions[k[1]].rows = {}
                /\ \E b \in Accounts \ {k[1]} : positions[b].rows # {}
  <2>1. PICK live : tagged' = Ended(positions, live, <<>>)
    BY <1>2 DEF CommitCapture
  <2>2. k[1] \notin DOMAIN <<>>
    OBVIOUS
  <2>3. /\ k \notin OpenKeys(positions, live)
        /\ positions[k[1]].rows # {} /\ positions[k[1]].asOf # NoDate
              => positions[k[1]].asOf >= day
        /\ positions[k[1]].rows = {}
              => \E b \in Accounts \ {k[1]} : positions[b].rows # {}
    BY <1>0, <2>1, <2>2, EndedByDate
  <2>4. k[2] \notin positions[k[1]].rows
    BY <2>3 DEF OpenKeys
  <2>5. CASE positions[k[1]].rows # {}
    <3>1. k[2] \notin Book(k[1], positions[k[1]].asOf) /\ day <= positions[k[1]].asOf
          /\ positions[k[1]].asOf \in Int
      BY <1>0, <1>1, <2>3, <2>4, <2>5
    <3> HIDE DEF day
    <3> QED BY <1>0, <3>1, AbsentIsFlat
  <2> QED BY <2>3, <2>5
<1>3. ASSUME NEW a \in Accounts, NEW d \in Nat, SyncFlexPositions(a, d)
      PROVE  \/ FlatSince(k, day)
             \/ /\ positions[k[1]].rows = {}
                /\ \E b \in Accounts \ {k[1]} : positions'[b].rows # {}
  <2> DEFINE extra == IF Book(a, d) = {} THEN [x \in {a} |-> d] ELSE <<>>
  <2>1. PICK live : tagged' = Ended(positions', live, extra)
    BY <1>3 DEF SyncFlexPositions
  <2>2. positions' = [positions EXCEPT ![a] =
             [rows |-> Book(a, d), asOf |-> IF Book(a, d) = {} THEN NoDate ELSE d]]
    BY <1>3 DEF SyncFlexPositions
  <2>3. /\ DOMAIN extra = IF Book(a, d) = {} THEN {a} ELSE {}
        /\ Book(a, d) = {} => extra[a] = d
    OBVIOUS
  <2> HIDE DEF extra
  <2>4. /\ k \notin OpenKeys(positions', live)
        /\ k[1] \in DOMAIN extra => extra[k[1]] >= day
        /\ k[1] \notin DOMAIN extra /\ positions'[k[1]].rows # {} /\ positions'[k[1]].asOf # NoDate
              => positions'[k[1]].asOf >= day
        /\ k[1] \notin DOMAIN extra /\ positions'[k[1]].rows = {}
              => \E b \in Accounts \ {k[1]} : positions'[b].rows # {}
    BY <1>0, <2>1, EndedByDate
  <2>5. k[2] \notin positions'[k[1]].rows
    BY <2>4 DEF OpenKeys
  <2>6. CASE k[1] = a
    <3>1. /\ positions'[a].rows = Book(a, d)
          /\ Book(a, d) # {} => positions'[a].asOf = d
      BY <2>2 DEF BookInv, BookTyped
    <3>2. day <= d
      BY <2>3, <2>4, <2>6, <3>1 DEF NoDate
    <3>3. k[2] \notin Book(k[1], d)
      BY <2>5, <2>6, <3>1
    <3> HIDE DEF day
    <3> QED BY <1>0, <3>2, <3>3, AbsentIsFlat
  <2>7. CASE k[1] # a
    <3>1. positions'[k[1]] = positions[k[1]] /\ k[1] \notin DOMAIN extra
      BY <1>0, <2>2, <2>3, <2>7 DEF BookInv, BookTyped
    <3>2. CASE positions[k[1]].rows # {}
      <4>1. k[2] \notin Book(k[1], positions[k[1]].asOf) /\ day <= positions[k[1]].asOf
            /\ positions[k[1]].asOf \in Int
        BY <1>0, <1>1, <2>4, <2>5, <3>1, <3>2
      <4> HIDE DEF day
      <4> QED BY <1>0, <4>1, AbsentIsFlat
    <3> QED BY <2>4, <3>1, <3>2
  <2> QED BY <2>6, <2>7
<1>4. CASE \E a \in Accounts, c \in Contracts : TagPosition(a, c)
  <2>1. PICK a \in Accounts, c \in Contracts : TagPosition(a, c)
    BY <1>4
  <2>2. tagged' = [tagged EXCEPT ![<<a, c>>] = [state |-> "open", slot |-> slot]]
    BY <2>1 DEF TagPosition
  <2> QED BY <2>2 DEF BookInv, BookTyped
<1>5. CASE tagged' = tagged
  BY <1>5
<1>6. 0 .. CtDate(LastSlot) \subseteq Nat
  BY BookAssumption DEF CtDate
<1>7. \/ CommitCapture \/ (\E a \in Accounts, d \in Nat : SyncFlexPositions(a, d))
      \/ (\E a \in Accounts, c \in Contracts : TagPosition(a, c)) \/ tagged' = tagged
  BY <1>6 DEF BookNext, bookVars, Tick, Move, StartCapture, FileTrades
<1> HIDE DEF day
<1>8. FlatSince(k, day) <=> FlatSince(k, CtDate(tagged[k].slot))
  BY DEF day
<1>9. CommitCapture => positions' = positions
  BY DEF CommitCapture
<1> QED BY <1>2, <1>3, <1>4, <1>5, <1>7, <1>8, <1>9

\* A tag on a position ends only when the position has been flat since the tag,
\* unless the account has no settled row and another account's date stands in for
\* its own (end_flat_position_tags).
THEOREM TagsEndOnOwnSnapshot == BookSpec => TagEndsOnOwnSnapshot
<1>1. BookInit => BookInv BY BookStarts
<1>2. BookInv /\ [BookNext]_bookVars => BookInv' BY BookStep
<1>3. BookInv /\ [BookNext]_bookVars =>
        [\A k \in Keys :
           tagged[k].state = "open" /\ tagged'[k].state = "ended" =>
             \/ FlatSince(k, CtDate(tagged[k].slot))
             \/ /\ positions[k[1]].rows = {}
                /\ \E b \in Accounts \ {k[1]} : positions'[b].rows # {}]_bookVars
  BY TagEndsWell
<1> QED BY <1>1, <1>2, <1>3, PTL DEF BookSpec, TagEndsOnOwnSnapshot
=============================================================================
