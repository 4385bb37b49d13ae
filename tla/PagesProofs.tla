---------------------------- MODULE PagesProofs -----------------------------
(***************************************************************************)
(* What TLAPS proves of what the pages show: the quote boards filled by    *)
(* several workers, the lists fed by the event stream, the figures of a    *)
(* trade group, and the contract that a wording picks.  The components     *)
(* share no state.                                                         *)
(***************************************************************************)
EXTENDS MarketBoard, UiEvents, GroupFigures, ContractPicks, SumTheorems, SequenceTheorems, TLAPS

-----------------------------------------------------------------------------
(* The boards agree, a refresh lands and greeks are kept (MarketBoard). *)

Times == Nat \ {0}

\* What a run can be at time now: a quote job holds contracts of its type and
\* has read the clock after the request it answers; a metrics job has stamped
\* what it fetched with a real time.
QuoteRun(now) ==
  [kind : {"board", "snapshot"}, phase : {"fetch", "got"}, asks : SUBSET Contracts,
   asked : 0 .. now, got : SUBSET Contracts, v : Nat, at : 0 .. now]
MetricsRun ==
  [kind : {"metrics"}, phase : {"fetch", "got"}, asks : SUBSET Contracts, asked : Nat,
   got : SUBSET (Options \X Fields), v : Nat, at : Nat]
RunOK(r, now) ==
  \/ r = Free
  \/ /\ r \in QuoteRun(now)
     /\ r.kind = "snapshot" => r.asked > 0
     /\ r.phase = "got" => r.at > r.asked
  \/ /\ r \in MetricsRun
     /\ r.phase = "got" => r.v \in Times

BoardTyped ==
  /\ clock \in Times
  /\ \A l \in DOMAIN lists : lists[l] \subseteq Contracts
  /\ queue \subseteq [cons : SUBSET Contracts, asked : 1 .. clock]
  /\ ts \subseteq Contracts \X (1 .. clock)
  /\ latest \in [Contracts -> Nat]
  /\ greeks \in [Options -> [Fields -> Nat]]
  /\ shown \subseteq Contracts \X (1 .. clock)

RunsSound == DOMAIN runs = Workers /\ \A w \in Workers : RunOK(runs[w], clock)

\* The latest row of a contract is the newest of its history.
LatestIsNewest ==
  \A c \in Contracts :
    /\ latest[c] = 0 \/ <<c, latest[c]>> \in ts
    /\ \A at \in Nat : <<c, at>> \in ts => at <= latest[c]

Board == BoardTyped /\ RunsSound /\ LatestIsNewest /\ RefreshLands

LEMMA BoardHolds == BoardInit => Board
<1> SUFFICES ASSUME BoardInit PROVE Board
  OBVIOUS
<1>1. BoardTyped
  BY DEF BoardInit, BoardTyped, Times
<1>2. RunsSound
  BY DEF BoardInit, RunsSound, RunOK
<1>3. LatestIsNewest /\ RefreshLands
  BY DEF BoardInit, LatestIsNewest, RefreshLands
<1> QED  BY <1>1, <1>2, <1>3 DEF Board

\* Time does not invalidate what a run holds.
LEMMA RunsAge ==
  ASSUME clock \in Times, NEW r, RunOK(r, clock), clock' \in {clock, clock + 1}
  PROVE  RunOK(r, clock')
BY DEF RunOK, QuoteRun, MetricsRun, Times

\* A step of one worker that leaves the rows alone.
LEMMA WorkerSteps ==
  ASSUME Board, NEW w \in Workers, NEW r, runs' = [runs EXCEPT ![w] = r],
         clock' \in {clock, clock + 1}, RunOK(r, clock')
  PROVE  RunsSound'
BY RunsAge DEF Board, BoardTyped, RunsSound

\* A step that leaves the rows alone.
LEMMA RowsStay ==
  ASSUME Board, clock' \in {clock, clock + 1}, UnchangedRows
  PROVE  /\ clock' \in Times /\ clock <= clock'
         /\ ts' \subseteq Contracts \X (1 .. clock')
         /\ latest' \in [Contracts -> Nat] /\ greeks' \in [Options -> [Fields -> Nat]]
         /\ shown' \subseteq Contracts \X (1 .. clock')
         /\ queue \subseteq [cons : SUBSET Contracts, asked : 1 .. clock']
         /\ LatestIsNewest' /\ RefreshLands'
BY DEF Board, BoardTyped, Times, UnchangedRows, LatestIsNewest, RefreshLands

\* A request for the lists, or a change of them.
LEMMA ListSteps ==
  ASSUME Board,
         \/ \E l \in Lists : CreateList(l) \/ DeleteList(l) \/ AskRefresh(l)
         \/ \E l \in Lists, c \in Contracts : ToggleInstrument(l, c)
  PROVE  Board'
<1>1. clock' \in {clock, clock + 1} /\ UnchangedRows /\ runs' = runs
  BY DEF CreateList, DeleteList, AskRefresh, ToggleInstrument
<1>2. RunsSound'
  BY <1>1, RunsAge DEF Board, BoardTyped, RunsSound
<1>3. \A l \in DOMAIN lists' : lists'[l] \subseteq Contracts
  <2>1. \A l \in DOMAIN lists : lists[l] \subseteq Contracts
    BY DEF Board, BoardTyped
  <2>2. ASSUME NEW l \in Lists, CreateList(l) \/ DeleteList(l) \/ AskRefresh(l)
        PROVE  \A m \in DOMAIN lists' : lists'[m] \subseteq Contracts
    BY <2>1, <2>2 DEF CreateList, DeleteList, AskRefresh
  <2>3. ASSUME NEW l \in Lists, NEW c \in Contracts, ToggleInstrument(l, c)
        PROVE  \A m \in DOMAIN lists' : lists'[m] \subseteq Contracts
    <3>1. \A m \in DOMAIN lists' : lists'[m] \in {lists[m], lists[m] \ {c}, lists[m] \cup {c}}
      BY <2>3 DEF ToggleInstrument
    <3> QED  BY <2>1, <2>3, <3>1 DEF ToggleInstrument
  <2> QED  BY <2>2, <2>3
<1>4. queue' \subseteq [cons : SUBSET Contracts, asked : 1 .. clock']
  <2>1. CASE \E l \in Lists : AskRefresh(l)
    BY <2>1, <1>1, RowsStay DEF Board, BoardTyped, AskRefresh, Times
  <2>2. CASE queue' = queue
    BY <2>2, <1>1, RowsStay
  <2> QED  BY <2>1, <2>2 DEF CreateList, DeleteList, ToggleInstrument
<1> QED  BY <1>1, <1>2, <1>3, <1>4, RowsStay DEF Board, BoardTyped

\* Everything a job does before its commit.
LEMMA JobSteps ==
  ASSUME Board, NEW w \in Workers,
         BeginQuotes(w) \/ QuotesFetched(w) \/ BeginMetrics(w) \/ MetricsFetched(w) \/ FetchFails(w)
  PROVE  Board'
<1>1. clock' \in {clock, clock + 1} /\ UnchangedRows /\ lists' = lists /\ queue' \subseteq queue
  BY DEF BeginQuotes, QuotesFetched, BeginMetrics, MetricsFetched, FetchFails
<1>2. clock \in Times /\ clock' \in Times /\ RunOK(runs[w], clock) /\ DOMAIN runs = Workers
  BY <1>1, RowsStay DEF Board, BoardTyped, RunsSound
<1>3. CASE BeginQuotes(w)
  <2>1. ASSUME NEW S \in ((SUBSET Futures) \cup (SUBSET Options)) \ {{}},
               runs' = [runs EXCEPT ![w] = NewRun("board", "fetch", S)]
        PROVE  RunsSound'
    <3>1. S \in SUBSET Contracts
      BY DEF Contracts
    <3>2. NewRun("board", "fetch", S) \in QuoteRun(clock')
      BY <1>2, <3>1 DEF NewRun, QuoteRun, Times
    <3>3. /\ NewRun("board", "fetch", S).phase = "fetch"
          /\ NewRun("board", "fetch", S).kind = "board"
      BY DEF NewRun
    <3> QED  BY <1>1, <2>1, <3>2, <3>3, WorkerSteps DEF RunOK
  <2>2. ASSUME NEW j \in queue,
               runs' = [runs EXCEPT ![w] = [NewRun("snapshot", "fetch", j.cons) EXCEPT !.asked = j.asked]]
        PROVE  RunsSound'
    <3> DEFINE r == [NewRun("snapshot", "fetch", j.cons) EXCEPT !.asked = j.asked]
    <3>1. j \in [cons : SUBSET Contracts, asked : 1 .. clock']
      BY <1>1, RowsStay
    <3>2. r = [kind |-> "snapshot", phase |-> "fetch", asks |-> j.cons, asked |-> j.asked,
               got |-> {}, v |-> 0, at |-> 0]
      BY DEF NewRun
    <3>3. r \in QuoteRun(clock') /\ r.phase = "fetch" /\ r.asked > 0
      BY <1>2, <3>1, <3>2 DEF QuoteRun, Times
    <3> QED  BY <1>1, <2>2, <3>3, WorkerSteps DEF RunOK
  <2>3. RunsSound'
    BY <1>3, <2>1, <2>2 DEF BeginQuotes
  <2> QED  BY <1>1, <2>3, RowsStay DEF Board, BoardTyped
<1>4. CASE QuotesFetched(w)
  <2>1. PICK S \in SUBSET runs[w].asks :
          runs' = [runs EXCEPT ![w].phase = "got", ![w].got = S, ![w].at = clock + 1]
    BY <1>4 DEF QuotesFetched
  <2> DEFINE r == [runs[w] EXCEPT !.phase = "got", !.got = S, !.at = clock + 1]
  <2>2. runs' = [runs EXCEPT ![w] = r]
    BY <1>2, <2>1
  <2>3. runs[w].phase = "fetch" /\ runs[w].kind # "metrics" /\ clock' = clock + 1
    BY <1>4 DEF QuotesFetched
  <2>4. runs[w] # Free /\ runs[w] \notin MetricsRun
    BY <2>3 DEF Free, NewRun, MetricsRun
  <2>5. runs[w] \in QuoteRun(clock) /\ (runs[w].kind = "snapshot" => runs[w].asked > 0)
    BY <1>2, <2>4 DEF RunOK
  <2>6. r \in QuoteRun(clock') /\ r.at > r.asked /\ (r.kind = "snapshot" => r.asked > 0)
    <3>1. runs[w] \in QuoteRun(clock') /\ runs[w].asked \in 0 .. clock /\ S \in SUBSET Contracts
      BY <1>2, <2>3, <2>5 DEF QuoteRun, Times
    <3>2. clock + 1 \in 0 .. clock' /\ clock \in Nat
      BY <1>2, <2>3 DEF Times
    <3>3. r \in QuoteRun(clock')
      BY <3>1, <3>2 DEF QuoteRun
    <3>4. r.at = clock + 1 /\ r.asked = runs[w].asked /\ r.kind = runs[w].kind
      BY <3>1 DEF QuoteRun
    <3> QED  BY <2>5, <3>1, <3>2, <3>3, <3>4
  <2>7. RunsSound'
    BY <1>1, <2>2, <2>6, WorkerSteps DEF RunOK
  <2> QED  BY <1>1, <2>7, RowsStay DEF Board, BoardTyped
<1>5. CASE BeginMetrics(w)
  <2> DEFINE r == [NewRun("metrics", "fetch", Options) EXCEPT !.at = clock + 1]
  <2>1. r = [kind |-> "metrics", phase |-> "fetch", asks |-> Options, asked |-> 0,
             got |-> {}, v |-> 0, at |-> clock + 1]
    BY DEF NewRun
  <2>2. r \in MetricsRun /\ r.phase = "fetch"
    BY <1>2, <2>1 DEF MetricsRun, Times, Contracts
  <2>3. RunsSound'
    BY <1>1, <1>5, <2>2, WorkerSteps DEF BeginMetrics, RunOK
  <2> QED  BY <1>1, <2>3, RowsStay DEF Board, BoardTyped
<1>6. CASE MetricsFetched(w)
  <2>1. PICK S \in SUBSET (Options \X Fields) :
          runs' = [runs EXCEPT ![w].phase = "got", ![w].got = S, ![w].v = clock]
    BY <1>6 DEF MetricsFetched
  <2> DEFINE r == [runs[w] EXCEPT !.phase = "got", !.got = S, !.v = clock]
  <2>2. runs' = [runs EXCEPT ![w] = r]
    BY <1>2, <2>1
  <2>3. runs[w] \in MetricsRun
    <3>1. runs[w].phase = "fetch" /\ runs[w].kind = "metrics"
      BY <1>6 DEF MetricsFetched
    <3>2. runs[w] # Free /\ runs[w] \notin QuoteRun(clock)
      BY <3>1 DEF Free, NewRun, QuoteRun
    <3> QED  BY <1>2, <3>2 DEF RunOK
  <2>4. r \in MetricsRun /\ r.v \in Times
    BY <1>2, <2>3 DEF MetricsRun, Times
  <2>5. RunsSound'
    BY <1>1, <2>2, <2>4, WorkerSteps DEF RunOK
  <2> QED  BY <1>1, <2>5, RowsStay DEF Board, BoardTyped
<1>7. CASE FetchFails(w)
  <2>1. RunsSound'
    BY <1>1, <1>7, WorkerSteps DEF FetchFails, RunOK
  <2> QED  BY <1>1, <2>1, RowsStay DEF Board, BoardTyped
<1> QED  BY <1>3, <1>4, <1>5, <1>6, <1>7

\* The guarded upsert keeps the newer of the two rows.
LEMMA UpsertKeepsNewer ==
  ASSUME NEW old \in Nat, NEW at \in Nat
  PROVE  /\ Upsert(old, at) \in {old, at}
         /\ Upsert(old, at) >= old /\ Upsert(old, at) >= at
BY DEF Upsert

LEMMA CommitQuotesKeeps ==
  ASSUME Board, NEW w \in Workers, CommitQuotes(w)
  PROVE  Board'
<1> DEFINE r == runs[w]
<1>1. /\ clock \in Nat /\ r.got \subseteq Contracts /\ r.at \in 1 .. clock /\ r.asked \in Nat /\ r.at > r.asked
      /\ r.kind = "snapshot" => r.asked \in 1 .. clock
  BY DEF Board, BoardTyped, RunsSound, RunOK, QuoteRun, MetricsRun, CommitQuotes, Free, NewRun, Times
<1>2. /\ ts' = ts \cup (r.got \X {r.at})
      /\ latest' = [c \in Contracts |-> IF c \in r.got THEN Upsert(latest[c], r.at) ELSE latest[c]]
      /\ shown' = IF r.kind = "snapshot" THEN shown \cup (r.got \X {r.asked}) ELSE shown
      /\ runs' = [runs EXCEPT ![w] = Free]
      /\ UNCHANGED <<clock, lists, queue, greeks>>
  BY DEF CommitQuotes
<1>3. RunsSound'
  BY <1>2, WorkerSteps DEF RunOK
<1>4. \A c \in Contracts : latest[c] \in Nat /\ latest'[c] \in Nat /\ latest'[c] >= latest[c]
                           /\ latest'[c] \in {latest[c], r.at}
                           /\ (c \in r.got => latest'[c] >= r.at)
                           /\ (c \notin r.got => latest'[c] = latest[c])
  BY <1>1, <1>2, UpsertKeepsNewer DEF Board, BoardTyped
<1>5. BoardTyped'
  <2>1. ts' \subseteq Contracts \X (1 .. clock')
    BY <1>1, <1>2 DEF Board, BoardTyped
  <2>2. shown' \subseteq Contracts \X (1 .. clock')
    BY <1>1, <1>2 DEF Board, BoardTyped
  <2>3. latest' \in [Contracts -> Nat]
    BY <1>2, <1>4
  <2> QED  BY <1>2, <2>1, <2>2, <2>3 DEF Board, BoardTyped
<1>6. LatestIsNewest'
  <2> SUFFICES ASSUME NEW c \in Contracts
      PROVE  /\ latest'[c] = 0 \/ <<c, latest'[c]>> \in ts'
             /\ \A at \in Nat : <<c, at>> \in ts' => at <= latest'[c]
    BY DEF LatestIsNewest
  <2>1. /\ latest[c] = 0 \/ <<c, latest[c]>> \in ts
        /\ \A at \in Nat : <<c, at>> \in ts => at <= latest[c]
    BY DEF Board, LatestIsNewest
  <2>2. \A at : <<c, at>> \in ts' <=> <<c, at>> \in ts \/ (c \in r.got /\ at = r.at)
    BY <1>2
  <2> HIDE DEF r
  <2>3. CASE c \in r.got
    BY <1>1, <1>4, <2>1, <2>2, <2>3
  <2>4. CASE c \notin r.got
    BY <1>4, <2>1, <2>2, <2>4
  <2> QED  BY <2>3, <2>4
<1>7. RefreshLands'
  BY <1>1, <1>2, <1>4 DEF Board, BoardTyped, RefreshLands
<1> QED  BY <1>3, <1>5, <1>6, <1>7 DEF Board

LEMMA CommitMetricsKeeps ==
  ASSUME Board, NEW w \in Workers, CommitMetrics(w)
  PROVE  /\ Board'
         /\ \A o \in Options, f \in Fields : greeks[o][f] # 0 => greeks'[o][f] # 0
<1> DEFINE r == runs[w]
           arrived(o) == {f \in Fields : <<o, f>> \in r.got}
<1>1. r.v \in Times
  BY DEF Board, RunsSound, RunOK, QuoteRun, CommitMetrics, Free, NewRun
<1>2. /\ greeks' = [o \in Options |-> IF arrived(o) = {} THEN greeks[o]
                                      ELSE Written(greeks[o], arrived(o), r.v)]
      /\ runs' = [runs EXCEPT ![w] = Free]
      /\ UNCHANGED <<clock, lists, queue, ts, latest, shown>>
  BY DEF CommitMetrics
<1>3. \A o \in Options : greeks[o] \in [Fields -> Nat]
  BY DEF Board, BoardTyped
<1>4. ASSUME NEW o \in Options
      PROVE  /\ greeks'[o] \in [Fields -> Nat]
             /\ \A f \in Fields : greeks'[o][f] \in {greeks[o][f], r.v}
  BY <1>1, <1>2, <1>3 DEF Written, Times
<1>5. greeks' \in [Options -> [Fields -> Nat]]
  BY <1>2, <1>4
<1>6. RunsSound'
  BY <1>2, WorkerSteps DEF RunOK
<1>7. BoardTyped' /\ LatestIsNewest' /\ RefreshLands'
  BY <1>2, <1>5 DEF Board, BoardTyped, LatestIsNewest, RefreshLands
<1>8. \A o \in Options, f \in Fields : greeks[o][f] # 0 => greeks'[o][f] # 0
  BY <1>1, <1>4 DEF Times
<1> QED  BY <1>6, <1>7, <1>8 DEF Board

LEMMA BoardKept == Board /\ [BoardNext]_boardVars => Board'
<1> SUFFICES ASSUME Board, [BoardNext]_boardVars PROVE Board'
  OBVIOUS
<1>1. CASE UNCHANGED boardVars
  BY <1>1 DEF boardVars, Board, BoardTyped, RunsSound, LatestIsNewest, RefreshLands
<1> QED  BY <1>1, ListSteps, JobSteps, CommitQuotesKeeps, CommitMetricsKeeps DEF BoardNext

LEMMA BoardAlways == BoardSpec => []Board
BY BoardHolds, BoardKept, PTL DEF BoardSpec

\* The newest row of the history up to now is the latest row.
LEMMA NewestByHistory ==
  ASSUME Board
  PROVE  BoardsAgree
<1> SUFFICES ASSUME NEW c \in Futures PROVE latest[c] = BoardAsOf(clock)[c]
  BY DEF BoardsAgree, BoardNow, BoardAsOf
<1> DEFINE S == {0} \cup {at \in 1 .. clock : <<c, at>> \in ts}
<1>1. c \in Contracts /\ latest[c] \in Nat /\ clock \in Nat
  BY DEF Contracts, Board, BoardTyped, Times
<1>2. latest[c] \in S
  BY <1>1 DEF Board, BoardTyped, LatestIsNewest
<1>3. \A at \in S : at <= latest[c]
  <2>1. \A at \in Nat : <<c, at>> \in ts => at <= latest[c]
    BY <1>1 DEF Board, LatestIsNewest
  <2> QED  BY <1>1, <2>1
<1>4. \A x \in S : x \in Nat
  BY <1>1
<1>5. ASSUME NEW x \in S, \A y \in S : x >= y
      PROVE  x = latest[c]
  BY <1>1, <1>2, <1>3, <1>4, <1>5
<1>6. \E x \in S : \A y \in S : x >= y
  BY <1>1, <1>2, <1>3, <1>4
<1>7. Max(S) = latest[c]
  BY <1>5, <1>6 DEF Max
<1> QED  BY <1>7 DEF BoardAsOf

\* The board now is the board as of now and no refresh that was answered is
\* undone, in whatever order the jobs of any number of workers commit
\* (_write_future_row, _write_option_row, get_term_structure).
THEOREM BoardsStayRight == BoardSpec => []BoardsRight
<1>1. Board => BoardsRight
  BY NewestByHistory DEF Board, BoardsRight
<1> QED  BY BoardAlways, <1>1, PTL

\* No run erases a greek it did not receive (_write_option_metrics).
THEOREM GreeksStay == BoardSpec => GreeksKept
<1>1. ASSUME Board, [BoardNext]_boardVars
      PROVE  [\A o \in Options, f \in Fields : greeks[o][f] # 0 => greeks'[o][f] # 0]_boardVars
  <2>1. CASE \E w \in Workers : CommitMetrics(w)
    BY <1>1, <2>1, CommitMetricsKeeps
  <2>2. CASE greeks' = greeks
    BY <2>2
  <2> QED
    BY <1>1, <2>1, <2>2 DEF BoardNext, CreateList, DeleteList, AskRefresh, ToggleInstrument,
      BeginQuotes, QuotesFetched, CommitQuotes, BeginMetrics, MetricsFetched, FetchFails,
      UnchangedRows, boardVars
<1> QED  BY BoardAlways, <1>1, PTL DEF BoardSpec, GreeksKept

-----------------------------------------------------------------------------
(* The lists stay current (UiEvents). *)

Answers == [snap : [UiRows -> Int], passed : BOOLEAN]
Events == [row : UiRows, val : Int]
Tabs == [stream : {"off", "opening", "on", "broken"}, subscribed : BOOLEAN,
         queue : Seq(Events), list : [UiRows -> Int],
         asked : Nat, answers : Seq(Answers)]
Notices == [id : Nat, row : UiRows, read : Int]

UiTyped ==
  /\ value \in [UiRows -> Nat] /\ \A r \in UiRows : value[r] <= issued
  /\ posts \in SUBSET Notices
  /\ notified \in [Beats -> Int] /\ \A b \in Beats : notified[b] <= issued
  /\ tab \in [Browsers -> Tabs]
  /\ issued \in Nat

\* The last event of the row in the queue carries the value; no event of it.
LastIs(q, r, v) ==
  \E i \in DOMAIN q : /\ q[i].row = r /\ q[i].val = v
                      /\ \A k \in DOMAIN q : k > i => q[k].row # r
NoneOf(q, r) == \A i \in DOMAIN q : q[i].row # r

\* The answer read last, and whether nothing is to land after it: then it, or
\* the list when there is none, is what the tab will show.
Newest(t) == t.answers[Len(t.answers)]
LastLoad(t) == t.asked = 0 /\ t.answers # <<>>
Doomed(t) == LastLoad(t) /\ Newest(t).passed

\* What is under way will leave v in the list.
Sees(t, r, v) ==
  \/ LastIs(t.queue, r, v)
  \/ /\ NoneOf(t.queue, r)
     /\ t.asked = 0 /\ t.answers = <<>> => t.list[r] = v
     /\ LastLoad(t) => Newest(t).snap[r] = v

Pending(ps, r) == \E p \in ps : p.row = r

\* One post of a row at a time, and it carries what was committed.
Clean(ps, val) ==
  /\ \A p, q \in ps : p.row = q.row => p = q
  /\ \A p \in ps : p.read \in {Unread, val[p.row]}

\* A tab that follows its stream will see every row nobody has a post of,
\* unless the list has gone past the last answer.
Follows(t, ps, val) ==
  /\ t.stream = "on" => t.subscribed
  /\ t.stream = "opening" => ~t.subscribed /\ t.queue = <<>>
  /\ t.stream \in {"on", "opening"} /\ ~Doomed(t) =>
       \A r \in UiRows : ~Pending(ps, r) => Sees(t, r, val[r])

UiInv ==
  /\ UiTyped
  /\ \A b \in Browsers \ suspect : Clean(posts, value) /\ Follows(tab[b], posts, value)

\* The fields of a tab.
LEMMA TabFields ==
  ASSUME NEW t \in Tabs
  PROVE  /\ t.queue \in Seq(Events) /\ t.list \in [UiRows -> Int]
         /\ t.asked \in Nat /\ t.answers \in Seq(Answers)
         /\ t.subscribed \in BOOLEAN /\ t.stream \in {"off", "opening", "on", "broken"}
BY DEF Tabs

LEMMA ClosedIsTab == Closed \in Tabs /\ Closed.queue = <<>> /\ Closed.subscribed = FALSE
BY DEF Closed, Tabs

\* An event put at the end of a queue, and one taken from its head.
LEMMA AppendSees ==
  ASSUME NEW q \in Seq(Events), NEW e \in Events
  PROVE  /\ LastIs(Append(q, e), e.row, e.val)
         /\ \A r, v : r # e.row /\ LastIs(q, r, v) => LastIs(Append(q, e), r, v)
         /\ \A r : r # e.row /\ NoneOf(q, r) => NoneOf(Append(q, e), r)
<1> DEFINE n == Append(q, e)
<1>1. /\ DOMAIN n = 1 .. Len(q) + 1 /\ DOMAIN q = 1 .. Len(q) /\ Len(q) \in Nat
      /\ n[Len(q) + 1] = e /\ \A i \in DOMAIN q : n[i] = q[i]
  OBVIOUS
<1> HIDE DEF n
<1>2. LastIs(n, e.row, e.val)
  <2>1. \A k \in DOMAIN n : ~(k > Len(q) + 1)
    BY <1>1
  <2>2. Len(q) + 1 \in DOMAIN n
    BY <1>1
  <2> QED BY <1>1, <2>1, <2>2 DEF LastIs
<1>3. ASSUME NEW r, NEW v, r # e.row, LastIs(q, r, v) PROVE LastIs(n, r, v)
  <2>1. PICK i \in DOMAIN q : /\ q[i].row = r /\ q[i].val = v
                             /\ \A k \in DOMAIN q : k > i => q[k].row # r
    BY <1>3 DEF LastIs
  <2>2. i \in DOMAIN n /\ n[i].row = r /\ n[i].val = v
    BY <1>1, <2>1
  <2>3. ASSUME NEW k \in DOMAIN n, k > i PROVE n[k].row # r
    BY <1>1, <1>3, <2>1, <2>3
  <2> QED BY <2>2, <2>3 DEF LastIs
<1>4. ASSUME NEW r, r # e.row, NoneOf(q, r) PROVE NoneOf(n, r)
  BY <1>1, <1>4 DEF NoneOf
<1> QED BY <1>2, <1>3, <1>4 DEF n

\* Taking the head of a queue: what its tail still has of a row.
LEMMA TailSees ==
  ASSUME NEW q \in Seq(Events), q # <<>>
  PROVE  /\ \A r, v : LastIs(q, r, v) =>
              \/ LastIs(Tail(q), r, v)
              \/ Head(q).row = r /\ Head(q).val = v /\ NoneOf(Tail(q), r)
         /\ \A r : NoneOf(q, r) => NoneOf(Tail(q), r) /\ Head(q).row # r
<1> DEFINE n == Tail(q)
<1>1. /\ Len(q) \in Nat /\ Len(q) >= 1 /\ DOMAIN q = 1 .. Len(q) /\ DOMAIN n = 1 .. Len(q) - 1
      /\ Head(q) = q[1] /\ \A i \in DOMAIN n : n[i] = q[i + 1]
  OBVIOUS
<1> HIDE DEF n
<1>2. ASSUME NEW r, NEW v, LastIs(q, r, v)
      PROVE  LastIs(n, r, v) \/ (Head(q).row = r /\ Head(q).val = v /\ NoneOf(n, r))
  <2>1. PICK i \in DOMAIN q : /\ q[i].row = r /\ q[i].val = v
                             /\ \A k \in DOMAIN q : k > i => q[k].row # r
    BY <1>2 DEF LastIs
  <2>2. CASE i = 1
    <3>1. \A k \in DOMAIN n : n[k].row # r
      BY <1>1, <2>1, <2>2
    <3> QED BY <1>1, <2>1, <2>2, <3>1 DEF NoneOf
  <2>3. CASE i # 1
    <3>1. i - 1 \in DOMAIN n /\ n[i - 1] = q[i]
      BY <1>1, <2>3
    <3>2. ASSUME NEW k \in DOMAIN n, k > i - 1 PROVE n[k].row # r
      BY <1>1, <2>1, <3>2
    <3> QED BY <2>1, <3>1, <3>2 DEF LastIs
  <2> QED BY <2>2, <2>3
<1>3. ASSUME NEW r, NoneOf(q, r) PROVE NoneOf(n, r) /\ Head(q).row # r
  BY <1>1, <1>3 DEF NoneOf
<1> QED BY <1>2, <1>3 DEF n

\* The invariant says that an idle stream's list is current.
LEMMA UiHolds == UiInv => ListIsCurrent
<1> SUFFICES ASSUME UiInv, NEW b \in Browsers, posts = {}, b \notin suspect,
                    tab[b].stream = "on", tab[b].queue = <<>>,
                    tab[b].asked = 0, tab[b].answers = <<>>
             PROVE  tab[b].list = value
  BY DEF ListIsCurrent
<1>1. tab[b].list \in [UiRows -> Int] /\ value \in [UiRows -> Nat]
  BY TabFields DEF UiInv, UiTyped
<1>2. \A r \in UiRows : Sees(tab[b], r, value[r])
  BY DEF UiInv, Follows, Pending, Doomed, LastLoad
<1>3. \A r, v : ~LastIs(tab[b].queue, r, v)
  BY DEF LastIs
<1>4. \A r \in UiRows : tab[b].list[r] = value[r]
  BY <1>2, <1>3 DEF Sees
<1> QED BY <1>1, <1>4

\* No tab is open.
LEMMA UiStarts == UiInit => UiInv
<1> SUFFICES ASSUME UiInit PROVE UiInv
  OBVIOUS
<1>1. UiTyped
  BY ClosedIsTab DEF UiInit, UiTyped, Unread
<1>2. \A b \in Browsers : tab[b].stream = "off"
  BY DEF UiInit, Closed
<1>3. posts = {}
  BY DEF UiInit
<1> QED BY <1>1, <1>2, <1>3 DEF UiInv, Clean, Follows

\* A commit and the request to tell of it.
LEMMA PostFollows ==
  ASSUME NEW t, NEW ps, NEW val, NEW r \in UiRows, NEW val2, NEW p,
         Clean(ps, val), ~Pending(ps, r),
         \A x \in UiRows : x # r => val2[x] = val[x],
         \A q \in ps : q.row \in UiRows,
         p.row = r, p.read = Unread
  PROVE  /\ Clean(ps \cup {p}, val2)
         /\ Follows(t, ps, val) => Follows(t, ps \cup {p}, val2)
<1>1. Clean(ps \cup {p}, val2)
  BY DEF Clean, Pending
<1>2. ASSUME NEW x \in UiRows, ~Pending(ps \cup {p}, x)
      PROVE  ~Pending(ps, x) /\ val2[x] = val[x]
  BY <1>2 DEF Pending
<1>3. Follows(t, ps, val) => Follows(t, ps \cup {p}, val2)
  BY <1>2 DEF Follows
<1> QED BY <1>1, <1>3

\* A post is a notice.
LEMMA PostTyped ==
  ASSUME UiTyped, NEW r \in UiRows, Post(r), issued' = issued + 1
  PROVE  posts' \in SUBSET Notices
<1>1. [id |-> issued + 1, row |-> r, read |-> Unread] \in Notices
  BY DEF UiTyped, Notices, Unread
<1> QED BY <1>1 DEF Post, UiTyped

\* A commit that posts its row leaves every tab a way to see it.
LEMMA CommitKeeps ==
  ASSUME UiInv, NEW r \in UiRows, NEW v \in Nat, v <= issued + 1, Post(r),
         value' = [value EXCEPT ![r] = v], issued' = issued + 1, tab' = tab,
         notified' \in [Beats -> Int], \A b \in Beats : notified'[b] <= issued + 1
  PROVE  UiInv'
<1>0. issued \in Nat /\ value \in [UiRows -> Nat] /\ \A x \in UiRows : value[x] <= issued
  BY DEF UiInv, UiTyped
<1>1. UiTyped'
  <2>1. \A x \in UiRows : value'[x] <= issued'
    BY <1>0
  <2>2. value' \in [UiRows -> Nat]
    BY <1>0
  <2> QED BY <1>0, <2>1, <2>2, PostTyped DEF UiInv, UiTyped
<1>2. ASSUME NEW b \in Browsers \ suspect'
      PROVE  Clean(posts', value') /\ Follows(tab'[b], posts', value')
  <2> DEFINE p == [id |-> issued + 1, row |-> r, read |-> Unread]
  <2>1. posts' = posts \cup {p} /\ ~Pending(posts, r) /\ b \notin suspect
    BY <1>2 DEF Post, Pending
  <2>2. p.row = r /\ p.read = Unread
    OBVIOUS
  <2> HIDE DEF p
  <2>3. \A q \in posts : q.row \in UiRows
    BY DEF UiInv, UiTyped, Notices
  <2>4. \A x \in UiRows : x # r => value'[x] = value[x]
    BY <1>0
  <2>5. Clean(posts, value) /\ Follows(tab[b], posts, value)
    BY <2>1 DEF UiInv
  <2> QED BY <2>1, <2>2, <2>3, <2>4, <2>5, PostFollows
<1> QED BY <1>1, <1>2 DEF UiInv

\* A worker's commit is one.
LEMMA WorkerCommitKeeps ==
  ASSUME UiInv, NEW j \in JobRows, WorkerCommit(j) \/ RequestCommit(j) PROVE UiInv'
<1>1. /\ Post(j) /\ value' = [value EXCEPT ![j] = issued + 1] /\ issued' = issued + 1
      /\ tab' = tab /\ notified' = notified
  BY DEF WorkerCommit, RequestCommit
<1>2. j \in UiRows /\ issued + 1 \in Nat /\ issued + 1 <= issued + 1
  BY DEF UiRows, UiInv, UiTyped
<1>3. notified \in [Beats -> Int] /\ \A b \in Beats : notified[b] <= issued + 1
  BY DEF UiInv, UiTyped
<1> QED BY <1>1, <1>2, <1>3, CommitKeeps

\* A commit without a post makes every tab suspect, which promises nothing.
LEMMA SilentKeeps == ASSUME UiInv, NEW o \in OrderRows, SilentCommit(o) PROVE UiInv'
<1>1. /\ value' = [value EXCEPT ![o] = issued + 1] /\ issued' = issued + 1 /\ suspect' = Browsers
      /\ posts' = posts /\ tab' = tab /\ notified' = notified
  BY DEF SilentCommit
<1>2. UiTyped'
  <2>1. /\ value' \in [UiRows -> Nat] /\ \A x \in UiRows : value'[x] <= issued'
        /\ \A b \in Beats : notified'[b] <= issued' /\ issued' \in Nat
    <3>1. /\ issued \in Nat /\ issued + 1 \in Nat /\ value \in [UiRows -> Nat]
          /\ \A x \in UiRows : value[x] <= issued
          /\ notified \in [Beats -> Int] /\ \A b \in Beats : notified[b] <= issued
      BY DEF UiInv, UiTyped
    <3>2. o \in UiRows
      BY DEF UiRows
    <3> QED BY <1>1, <3>1, <3>2
  <2> QED BY <1>1, <2>1 DEF UiInv, UiTyped
<1> QED BY <1>1, <1>2 DEF UiInv

\* A heartbeat posts when the status changed, and may keep quiet otherwise.
LEMMA HeartbeatKeeps ==
  ASSUME UiInv, NEW b \in Beats, NEW changed \in BOOLEAN, NEW due \in BOOLEAN,
         Heartbeat(b, changed, due)
  PROVE  UiInv'
<1> DEFINE v == IF changed THEN issued + 1 ELSE value[b]
<1>0. /\ b \in UiRows /\ issued \in Nat /\ v \in Nat /\ v <= issued + 1
      /\ value \in [UiRows -> Nat] /\ notified \in [Beats -> Int]
      /\ \A x \in Beats : notified[x] <= issued
      /\ \A x \in UiRows : value[x] <= issued
  BY DEF UiRows, UiInv, UiTyped
<1>1. /\ issued' = issued + 1 /\ value' = [value EXCEPT ![b] = v] /\ tab' = tab
  BY DEF Heartbeat
<1>2. CASE NeedsNotice(b, v, due)
  <2>1. Post(b) /\ notified' = [notified EXCEPT ![b] = v]
    BY <1>2 DEF Heartbeat
  <2> HIDE DEF v
  <2>2. notified' \in [Beats -> Int] /\ \A x \in Beats : notified'[x] <= issued + 1
    BY <1>0, <2>1
  <2> QED BY <1>0, <1>1, <2>1, <2>2, CommitKeeps
<1>3. CASE ~NeedsNotice(b, v, due)
  <2>1. posts' = posts /\ suspect' = suspect /\ notified' = notified
    BY <1>3 DEF Heartbeat
  <2>2. value' = value
    <3>1. notified[b] = v
      BY <1>3 DEF NeedsNotice
    <3>2. v = value[b]
      BY <1>0, <3>1
    <3> HIDE DEF v
    <3> QED BY <1>0, <1>1, <3>2
  <2>3. UiTyped'
    <3>1. /\ \A x \in UiRows : value[x] <= issued + 1
          /\ \A x \in Beats : notified[x] <= issued + 1 /\ issued + 1 \in Nat
      BY <1>0
    <3> QED BY <1>1, <2>1, <2>2, <3>1 DEF UiInv, UiTyped
  <2> QED BY <1>1, <2>1, <2>2, <2>3 DEF UiInv
<1> QED BY <1>2, <1>3

\* A step that changes only what was notified changes nothing a tab will see.
LEMMA QuietKeeps ==
  ASSUME UiInv, value' = value, posts' = posts, tab' = tab, suspect' = suspect, issued' = issued,
         notified' \in [Beats -> Int], \A b \in Beats : notified'[b] <= issued
  PROVE  UiInv'
BY DEF UiInv, UiTyped

\* A post given up on and a worker's restart change nothing a tab will see.
LEMMA WorkerKeeps ==
  ASSUME UiInv, PostTimesOut \/ (\E b \in Beats : WorkerRestarts(b)) \/ UNCHANGED uiVars
  PROVE  UiInv'
<1>1. value' = value /\ posts' = posts /\ tab' = tab /\ suspect' = suspect /\ issued' = issued
  BY DEF PostTimesOut, WorkerRestarts, uiVars
<1>2. notified' \in [Beats -> Int] /\ \A b \in Beats : notified'[b] <= issued
  BY DEF PostTimesOut, WorkerRestarts, uiVars, UiInv, UiTyped, Unread
<1> QED BY <1>1, <1>2, QuietKeeps

\* A notice that has read the row carries its value.
LEMMA ReadRowKeeps == ASSUME UiInv, NEW p \in posts, ReadRow(p) PROVE UiInv'
<1>1. /\ p.read = Unread /\ value' = value /\ tab' = tab /\ suspect' = suspect /\ issued' = issued
      /\ notified' = notified /\ p \in Notices /\ posts \subseteq Notices
  BY DEF ReadRow, UiInv, UiTyped
<1>2. PICK q : q = [p EXCEPT !.read = value[p.row]]
  OBVIOUS
<1>3. q \in Notices /\ q.row = p.row /\ q.read = value[p.row] /\ p.row \in UiRows
  BY <1>1, <1>2 DEF Notices, UiInv, UiTyped
<1>4. posts' = (posts \ {p}) \cup {q}
  BY <1>2 DEF ReadRow
<1>5. UiTyped'
  BY <1>1, <1>3, <1>4 DEF UiInv, UiTyped
<1>6. \A r : Pending(posts', r) <=> Pending(posts, r)
  BY <1>3, <1>4 DEF Pending
<1>7. Clean(posts, value) => Clean(posts', value)
  BY <1>3, <1>4 DEF Clean
<1>8. \A t : Follows(t, posts, value) => Follows(t, posts', value)
  BY <1>6 DEF Follows
<1> QED BY <1>1, <1>5, <1>7, <1>8 DEF UiInv

\* A stream that is subscribed gets the event, or is dropped.
LEMMA OfferedFields ==
  ASSUME NEW t \in Tabs, NEW e \in Events
  PROVE  /\ Offered(t, e) \in Tabs
         /\ Offered(t, e).stream = t.stream
         /\ Offered(t, e).asked = t.asked /\ Offered(t, e).answers = t.answers
         /\ Offered(t, e).list = t.list
         /\ ~t.subscribed => Offered(t, e) = t
         /\ t.subscribed /\ Offered(t, e).subscribed => Offered(t, e).queue = Append(t.queue, e)
<1>1. CASE ~t.subscribed
  BY <1>1 DEF Offered
<1>2. CASE t.subscribed /\ Len(t.queue) < QueueSize
  <2>1. Offered(t, e) = [t EXCEPT !.queue = Append(@, e)]
    BY <1>2 DEF Offered
  <2>2. Append(t.queue, e) \in Seq(Events)
    BY TabFields
  <2> QED BY <1>2, <2>1, <2>2 DEF Tabs
<1>3. CASE t.subscribed /\ ~(Len(t.queue) < QueueSize)
  <2>1. Offered(t, e) = [t EXCEPT !.subscribed = FALSE]
    BY <1>3 DEF Offered
  <2> QED BY <1>3, <2>1 DEF Tabs
<1> QED BY <1>1, <1>2, <1>3

\* An event offered to a tab is last in its queue, or the tab is dropped.
LEMMA OfferedFollows ==
  ASSUME NEW t \in Tabs, NEW ps, NEW ps2, NEW val, NEW p \in ps, NEW e \in Events,
         e.row = p.row, e.val = val[p.row],
         \A r : r # p.row /\ ~Pending(ps2, r) => ~Pending(ps, r),
         Follows(t, ps, val),
         t.stream = "opening" => t.asked # 0,
         t.subscribed => Offered(t, e).subscribed
  PROVE  Follows(Offered(t, e), ps2, val)
<1> DEFINE n == Offered(t, e)
<1>0. /\ n \in Tabs /\ n.stream = t.stream /\ n.list = t.list
      /\ n.asked = t.asked /\ n.answers = t.answers
      /\ ~t.subscribed => n = t
      /\ t.subscribed => n.queue = Append(t.queue, e) /\ n.subscribed
      /\ t.queue \in Seq(Events)
  BY OfferedFields, TabFields
<1> HIDE DEF n
<1>e. (Doomed(n) <=> Doomed(t)) /\ (LastLoad(n) <=> LastLoad(t)) /\ Newest(n) = Newest(t)
  BY <1>0 DEF Doomed, LastLoad, Newest
<1>1. ASSUME n.stream \in {"on", "opening"}, ~Doomed(n),
             NEW r \in UiRows, ~Pending(ps2, r)
      PROVE  Sees(n, r, val[r])
  <2>1. CASE t.stream = "opening"
    <3>1. n.queue = <<>> /\ n.asked # 0
      BY <1>0, <2>1 DEF Follows
    <3>2. NoneOf(n.queue, r)
      BY <3>1 DEF NoneOf
    <3> QED BY <3>1, <3>2 DEF Sees, LastLoad
  <2>2. CASE t.stream = "on"
    <3>1. t.subscribed /\ n.queue = Append(t.queue, e)
      BY <1>0, <2>2 DEF Follows
    <3>2. CASE r = p.row
      <4>1. LastIs(n.queue, r, val[r])
        BY <1>0, <3>1, <3>2, AppendSees
      <4> QED BY <4>1 DEF Sees
    <3>3. CASE r # p.row
      <4>1. Sees(t, r, val[r])
        BY <1>0, <1>e, <1>1, <2>2, <3>3 DEF Follows
      <4>2. LastIs(t.queue, r, val[r]) => LastIs(n.queue, r, val[r])
        BY <1>0, <3>1, <3>3, AppendSees
      <4>3. NoneOf(t.queue, r) => NoneOf(n.queue, r)
        BY <1>0, <3>1, <3>3, AppendSees
      <4> QED BY <1>0, <1>e, <4>1, <4>2, <4>3 DEF Sees
    <3> QED BY <3>2, <3>3
  <2> QED BY <1>0, <1>1, <2>1, <2>2
<1>2. n.stream = "on" => n.subscribed
  BY <1>0 DEF Follows
<1>3. n.stream = "opening" => ~n.subscribed /\ n.queue = <<>>
  BY <1>0 DEF Follows
<1> QED BY <1>1, <1>2, <1>3 DEF Follows, n

\* Publishing moves a notice from the posts to every queue.
LEMMA PublishKeeps ==
  ASSUME UiInv, NEW p \in posts, NEW reach \in SUBSET Browsers, Publish(p, reach)
  PROVE  UiInv'
<1> DEFINE e == [row |-> p.row, val |-> p.read]
<1>1. /\ p.read # Unread /\ posts' = posts \ {p} /\ value' = value /\ issued' = issued
      /\ notified' = notified
      /\ tab' = [b \in Browsers |-> IF b \in reach THEN Offered(tab[b], e) ELSE tab[b]]
      /\ \A b \in Browsers : b \notin suspect' =>
           /\ b \notin suspect /\ b \in reach
           /\ tab[b].stream = "opening" => tab[b].asked # 0
           /\ tab[b].subscribed => Offered(tab[b], e).subscribed
  BY DEF Publish, Done
<1>2. e \in Events /\ e.row = p.row /\ e.val = p.read
  BY DEF UiInv, UiTyped, Notices, Events
<1> HIDE DEF e
<1>3. UiTyped'
  <2>1. \A b \in Browsers : tab[b] \in Tabs /\ Offered(tab[b], e) \in Tabs
    BY <1>2, OfferedFields DEF UiInv, UiTyped
  <2>2. tab' \in [Browsers -> Tabs]
    BY <1>1, <2>1
  <2> QED BY <1>1, <2>2 DEF UiInv, UiTyped
<1>4. ASSUME NEW b \in Browsers \ suspect'
      PROVE  Clean(posts', value') /\ Follows(tab'[b], posts', value')
  <2>1. /\ Clean(posts, value) /\ Follows(tab[b], posts, value)
        /\ tab'[b] = Offered(tab[b], e) /\ tab[b] \in Tabs
        /\ tab[b].stream = "opening" => tab[b].asked # 0
        /\ tab[b].subscribed => Offered(tab[b], e).subscribed
    BY <1>1 DEF UiInv, UiTyped
  <2>2. Clean(posts', value')
    BY <1>1, <2>1 DEF Clean
  <2>3. e.val = value[p.row]
    BY <1>1, <1>2, <2>1 DEF Clean
  <2>4. \A r : r # p.row /\ ~Pending(posts', r) => ~Pending(posts, r)
    BY <1>1 DEF Pending
  <2>5. Follows(Offered(tab[b], e), posts', value)
    BY <1>2, <2>1, <2>3, <2>4, OfferedFollows
  <2> QED BY <1>1, <2>1, <2>2, <2>5
<1> QED BY <1>3, <1>4 DEF UiInv

\* One tab changes, and it is no suspect that was: the others are as before.
LEMMA OneTabKeeps ==
  ASSUME UiInv, NEW b \in Browsers, NEW t \in Tabs, tab' = [tab EXCEPT ![b] = t],
         value' = value, posts' = posts, notified' = notified, issued' = issued,
         suspect \ {b} \subseteq suspect',
         b \notin suspect' => Clean(posts, value) /\ Follows(t, posts, value)
  PROVE  UiInv'
<1>1. UiTyped'
  BY DEF UiInv, UiTyped
<1>2. \A x \in Browsers \ suspect' : Clean(posts, value) /\ Follows(tab'[x], posts, value)
  BY DEF UiInv, UiTyped
<1> QED BY <1>1, <1>2 DEF UiInv

\* No posts, no stale one.
LEMMA NothingPosted == ASSUME posts = {} PROVE Clean(posts, value)
BY DEF Clean

\* A tab whose queue is empty and that has a load to be read will see all.
LEMMA SentFollows ==
  ASSUME NEW t, NEW ps, NEW val, t.queue = <<>>, t.asked # 0,
         t.stream = "on" => t.subscribed, t.stream = "opening" => ~t.subscribed
  PROVE  Follows(t, ps, val)
<1>1. \A r : NoneOf(t.queue, r)
  BY DEF NoneOf
<1> QED BY <1>1 DEF Follows, Sees, LastLoad

\* A stream that opens with an empty queue.
StreamOn(t, l) == [t EXCEPT !.stream = "on", !.subscribed = TRUE, !.queue = <<>>, !.asked = l]

\* A stream that opens has an empty queue ...
LEMMA StreamOnFields ==
  ASSUME NEW t \in Tabs, NEW l \in Nat
  PROVE  /\ StreamOn(t, l) \in Tabs /\ StreamOn(t, l).stream = "on"
         /\ StreamOn(t, l).subscribed = TRUE /\ StreamOn(t, l).queue = <<>>
         /\ StreamOn(t, l).list = t.list /\ StreamOn(t, l).asked = l
         /\ StreamOn(t, l).answers = t.answers
<1>1. PICK q : q = <<>>
  OBVIOUS
<1>2. q \in Seq(Events)
  BY <1>1
<1>3. PICK n : n = [t EXCEPT !.stream = "on", !.subscribed = TRUE, !.queue = q, !.asked = l]
  OBVIOUS
<1>4. n \in Tabs /\ n.stream = "on" /\ n.subscribed = TRUE /\ n.queue = q /\ n.list = t.list
      /\ n.asked = l /\ n.answers = t.answers
  BY <1>2, <1>3 DEF Tabs
<1>5. n = StreamOn(t, l)
  BY <1>1, <1>3 DEF StreamOn
<1> QED BY <1>1, <1>4, <1>5

\* ... and one that closes loses it.
LEMMA LostFields ==
  ASSUME NEW t \in Tabs, NEW st \in {"opening", "broken"}
  PROVE  /\ Lost(t, st) \in Tabs /\ Lost(t, st).stream = st
         /\ Lost(t, st).subscribed = FALSE /\ Lost(t, st).queue = <<>>
         /\ Lost(t, st).list = t.list
         /\ Lost(t, st).asked = t.asked /\ Lost(t, st).answers = t.answers
<1>1. PICK q : q = <<>>
  OBVIOUS
<1>2. q \in Seq(Events)
  BY <1>1
<1>3. PICK n : n = [t EXCEPT !.stream = st, !.subscribed = FALSE, !.queue = q]
  OBVIOUS
<1>4. n \in Tabs /\ n.stream = st /\ n.subscribed = FALSE /\ n.queue = q /\ n.list = t.list
      /\ n.asked = t.asked /\ n.answers = t.answers
  BY <1>2, <1>3 DEF Tabs
<1>5. n = Lost(t, st)
  BY <1>1, <1>3 DEF Lost
<1> QED BY <1>1, <1>4, <1>5

\* A page that mounts sends for a snapshot.
LEMMA MountKeeps == ASSUME UiInv, NEW b \in Browsers, Mount(b) PROVE UiInv'
<1>1. PICK t : t = [Closed EXCEPT !.stream = "opening", !.asked = 1]
  OBVIOUS
<1>2. t \in Tabs /\ t.queue = <<>> /\ t.asked # 0 /\ t.stream = "opening" /\ ~t.subscribed
  <2>1. PICK c : c = Closed
    OBVIOUS
  <2>2. /\ t \in Tabs /\ t.asked = 1 /\ t.stream = "opening"
        /\ t.queue = c.queue /\ t.subscribed = c.subscribed
    BY <1>1, <2>1, ClosedIsTab DEF Tabs
  <2> QED BY <2>1, <2>2, ClosedIsTab
<1>3. Follows(t, posts, value)
  BY <1>2, SentFollows
<1>4. /\ tab' = [tab EXCEPT ![b] = t] /\ value' = value /\ posts' = posts /\ notified' = notified
      /\ issued' = issued /\ suspect \ {b} \subseteq suspect'
      /\ b \notin suspect' => posts = {} \/ b \notin suspect
  BY <1>1 DEF Mount
<1>5. b \notin suspect' => Clean(posts, value)
  BY <1>4, NothingPosted DEF UiInv
<1> QED BY <1>2, <1>3, <1>4, <1>5, OneTabKeeps

\* A stream that opens has missed only what made its tab suspect, and one that
\* comes back after an error is loaded again.
LEMMA ConnectKeeps == ASSUME UiInv, NEW b \in Browsers, Connect(b) PROVE UiInv'
<1>0. tab[b] \in Tabs /\ tab[b].stream \in {"opening", "broken"}
  BY DEF UiInv, UiTyped, Connect
<1>1. PICK t : t = Reloaded(tab[b])
  OBVIOUS
<1>2. /\ tab' = [tab EXCEPT ![b] = t] /\ value' = value /\ posts' = posts /\ notified' = notified
      /\ issued' = issued /\ suspect \ {b} \subseteq suspect'
      /\ b \notin suspect' => posts = {} \/ b \notin suspect
      /\ b \notin suspect' /\ tab[b].stream = "opening" => b \notin suspect
  BY <1>1 DEF Connect
<1>3. /\ t \in Tabs /\ t.stream = "on" /\ t.subscribed /\ t.queue = <<>> /\ t.list = tab[b].list
      /\ t.asked = (IF tab[b].stream = "broken" THEN tab[b].asked + 1 ELSE tab[b].asked)
      /\ t.answers = tab[b].answers
  <2> DEFINE l == IF tab[b].stream = "broken" THEN tab[b].asked + 1 ELSE tab[b].asked
  <2>1. l \in Nat
    BY <1>0, TabFields
  <2>2. t = StreamOn(tab[b], l)
    BY <1>0, <1>1 DEF Reloaded, Tabs, StreamOn
  <2> HIDE DEF l
  <2>3. /\ t \in Tabs /\ t.stream = "on" /\ t.subscribed = TRUE /\ t.queue = <<>>
        /\ t.list = tab[b].list /\ t.asked = l /\ t.answers = tab[b].answers
    BY <1>0, <2>1, <2>2, StreamOnFields
  <2> QED BY <2>3 DEF l
<1>4. b \notin suspect' => Clean(posts, value)
  BY <1>2, NothingPosted DEF UiInv
<1>5. ASSUME b \notin suspect' PROVE Follows(t, posts, value)
  <2>1. CASE tab[b].stream = "broken"
    <3>1. t.asked # 0
      BY <1>0, <1>3, <2>1, TabFields
    <3> QED BY <1>3, <3>1, SentFollows
  <2>2. CASE tab[b].stream = "opening"
    <3>1. Follows(tab[b], posts, value) /\ t.queue = tab[b].queue
          /\ t.asked = tab[b].asked
      BY <1>2, <1>3, <1>5, <2>2 DEF UiInv, Follows
    <3> QED BY <1>3, <2>2, <3>1 DEF Follows, Sees, Doomed, LastLoad, Newest
  <2> QED BY <1>0, <2>1, <2>2
<1> QED BY <1>2, <1>3, <1>4, <1>5, OneTabKeeps

\* A stream that is reopened loses its queue, and what it missed while it was
\* down: the tab is suspect unless there was nothing or a load is to come.
LEMMA ReopenKeeps == ASSUME UiInv, NEW b \in Browsers, Reopen(b) PROVE UiInv'
<1>0. /\ tab[b] \in Tabs /\ tab \in [Browsers -> Tabs] /\ tab[b].stream \in {"on", "broken"}
      /\ tab[b].asked \in Nat
  BY TabFields DEF UiInv, UiTyped, Reopen
<1>1. PICK t : t = [tab[b] EXCEPT !.stream = "opening", !.subscribed = FALSE, !.queue = <<>>]
  OBVIOUS
<1>2. /\ t \in Tabs /\ t.stream = "opening" /\ t.subscribed = FALSE /\ t.queue = <<>>
      /\ t.list = tab[b].list /\ t.asked = tab[b].asked /\ t.answers = tab[b].answers
  <2>1. t = Lost(tab[b], "opening")
    BY <1>1 DEF Lost
  <2> QED BY <1>0, <2>1, LostFields
<1>3. /\ tab' = [tab EXCEPT ![b] = t] /\ value' = value /\ posts' = posts /\ notified' = notified
      /\ issued' = issued /\ suspect \subseteq suspect'
      /\ b \notin suspect' => b \notin suspect
      /\ b \notin suspect' => \/ tab[b].asked # 0
                              \/ tab[b].queue = <<>> /\ tab[b].stream = "on"
  <2>1. tab' = [tab EXCEPT ![b] = t]
    BY <1>1 DEF Reopen, Lost
  <2>2. /\ value' = value /\ posts' = posts /\ notified' = notified /\ issued' = issued
        /\ suspect' = IF Missed(tab[b]) /\ tab[b].asked = 0 THEN suspect \cup {b} ELSE suspect
    BY DEF Reopen
  <2>3. Missed(tab[b]) \/ (tab[b].queue = <<>> /\ tab[b].stream = "on")
    BY <1>0 DEF Missed
  <2>4. suspect \subseteq suspect' /\ (Missed(tab[b]) /\ tab[b].asked = 0 => b \in suspect')
    BY <2>2
  <2> QED BY <2>1, <2>2, <2>3, <2>4
<1>4. ASSUME b \notin suspect' PROVE Clean(posts, value) /\ Follows(t, posts, value)
  <2>1. Clean(posts, value) /\ Follows(tab[b], posts, value)
    BY <1>3, <1>4 DEF UiInv
  <2>2. CASE tab[b].asked # 0
    BY <1>2, <2>1, <2>2, SentFollows
  <2>3. CASE tab[b].queue = <<>> /\ tab[b].stream = "on"
    BY <1>2, <2>1, <2>3 DEF Follows, Sees, Doomed, LastLoad, Newest
  <2> QED BY <1>3, <1>4, <2>1, <2>2, <2>3
<1> QED BY <1>2, <1>3, <1>4, OneTabKeeps

\* A broken stream promises nothing.
LEMMA BreakKeeps == ASSUME UiInv, NEW b \in Browsers, Break(b) PROVE UiInv'
<1>0. tab[b] \in Tabs /\ tab \in [Browsers -> Tabs]
  BY DEF UiInv, UiTyped
<1>1. PICK t : t = [tab[b] EXCEPT !.stream = "broken", !.subscribed = FALSE, !.queue = <<>>]
  OBVIOUS
<1>f. /\ t \in Tabs /\ t.stream = "broken" /\ t.subscribed = FALSE /\ t.queue = <<>>
      /\ t.list = tab[b].list
  <2>1. t = Lost(tab[b], "broken")
    BY <1>1 DEF Lost
  <2> QED BY <1>0, <2>1, LostFields
<1>2. t \in Tabs /\ t.stream = "broken"
  BY <1>f
<1>3. /\ tab' = [tab EXCEPT ![b] = t] /\ value' = value /\ posts' = posts /\ notified' = notified
      /\ issued' = issued /\ suspect' = suspect
  BY <1>0, <1>1 DEF Break, Lost
<1>4. Follows(t, posts, value)
  BY <1>2 DEF Follows
<1>5. b \notin suspect' => Clean(posts, value)
  BY <1>3 DEF UiInv
<1> QED BY <1>2, <1>3, <1>4, <1>5, OneTabKeeps

\* Putting an element at the end, cutting one out, joining two sequences.
LEMMA AppendIs ==
  ASSUME NEW S, NEW q \in Seq(S), NEW e \in S
  PROVE  /\ Append(q, e) \in Seq(S) /\ Append(q, e) # <<>>
         /\ Append(q, e)[Len(Append(q, e))] = e
<1>1. /\ Append(q, e) \in Seq(S) /\ Len(Append(q, e)) = Len(q) + 1 /\ Len(q) \in Nat
      /\ Append(q, e)[Len(q) + 1] = e
  OBVIOUS
<1> QED BY <1>1

LEMMA PartsAre ==
  ASSUME NEW S, NEW q \in Seq(S), NEW i \in 1 .. Len(q)
  PROVE  /\ SubSeq(q, 1, i - 1) \in Seq(S) /\ Len(SubSeq(q, 1, i - 1)) = i - 1
         /\ SubSeq(q, i + 1, Len(q)) \in Seq(S) /\ Len(SubSeq(q, i + 1, Len(q))) = Len(q) - i
         /\ \A k \in 1 .. Len(q) - i : SubSeq(q, i + 1, Len(q))[k] = q[i + k]
OBVIOUS

LEMMA JoinedAre ==
  ASSUME NEW S, NEW p \in Seq(S), NEW q \in Seq(S)
  PROVE  /\ p \o q \in Seq(S) /\ Len(p \o q) = Len(p) + Len(q)
         /\ \A k \in 1 .. Len(p) : (p \o q)[k] = p[k]
         /\ \A k \in 1 .. Len(q) : (p \o q)[Len(p) + k] = q[k]
OBVIOUS

\* Marking answers keeps everything else of them.
LEMMA OvertakenIs ==
  ASSUME NEW a \in Seq(Answers)
  PROVE  /\ Overtaken(a) \in Seq(Answers) /\ Len(Overtaken(a)) = Len(a)
         /\ \A k \in 1 .. Len(a) : /\ Overtaken(a)[k].snap = a[k].snap
                                   /\ Overtaken(a)[k].passed = TRUE
<1> DEFINE n == Overtaken(a)
<1>0. Len(a) \in Nat /\ DOMAIN a = 1 .. Len(a) /\ \A k \in 1 .. Len(a) : a[k] \in Answers
  OBVIOUS
<1>1. n = [k \in 1 .. Len(a) |-> [a[k] EXCEPT !.passed = TRUE]]
  BY <1>0 DEF Overtaken
<1>2. ASSUME NEW k \in 1 .. Len(a)
      PROVE  n[k] \in Answers /\ n[k].snap = a[k].snap /\ n[k].passed = TRUE
  <2>1. n[k] = [a[k] EXCEPT !.passed = TRUE] /\ a[k] \in Answers
    BY <1>0, <1>1
  <2> HIDE DEF n
  <2> QED BY <2>1 DEF Answers
<1>3. n \in [1 .. Len(a) -> Answers]
  <2>1. DOMAIN n = 1 .. Len(a) /\ n = [k \in 1 .. Len(a) |-> n[k]]
    BY <1>1
  <2> HIDE DEF n
  <2> QED BY <1>2, <2>1
<1> HIDE DEF n
<1>4. n \in Seq(Answers) /\ Len(n) = Len(a)
  BY <1>0, <1>3
<1> QED BY <1>2, <1>4 DEF n

\* What a delivery leaves: the tail, and the event's value in the list.
LEMMA DeliveredFields ==
  ASSUME NEW t \in Tabs, t.queue # <<>>
  PROVE  /\ Delivered(t) \in Tabs /\ Head(t.queue) \in Events
         /\ Delivered(t).queue = Tail(t.queue) /\ Delivered(t).stream = t.stream
         /\ Delivered(t).subscribed = t.subscribed
         /\ Delivered(t).list = [t.list EXCEPT ![Head(t.queue).row] = Head(t.queue).val]
         /\ Delivered(t).asked = t.asked /\ Delivered(t).answers = Overtaken(t.answers)
<1>1. t.queue \in Seq(Events) /\ t.list \in [UiRows -> Int] /\ t.answers \in Seq(Answers)
  BY TabFields
<1>2. Tail(t.queue) \in Seq(Events) /\ Head(t.queue) \in Events
  BY <1>1
<1>3. PICK list : list = [t.list EXCEPT ![Head(t.queue).row] = Head(t.queue).val]
  OBVIOUS
<1>4. list \in [UiRows -> Int]
  BY <1>1, <1>2, <1>3 DEF Events
<1>5. PICK answers : answers = Overtaken(t.answers)
  OBVIOUS
<1>6. answers \in Seq(Answers)
  BY <1>1, <1>5, OvertakenIs
<1>7. Delivered(t) = [t EXCEPT !.queue = Tail(t.queue), !.list = list, !.answers = answers]
  BY <1>3, <1>5 DEF Delivered, Tabs
<1>8. /\ Delivered(t) \in Tabs /\ Delivered(t).queue = Tail(t.queue) /\ Delivered(t).stream = t.stream
      /\ Delivered(t).subscribed = t.subscribed /\ Delivered(t).list = list
      /\ Delivered(t).asked = t.asked /\ Delivered(t).answers = answers
  BY <1>2, <1>4, <1>6, <1>7 DEF Tabs
<1> QED BY <1>2, <1>3, <1>5, <1>8

\* An event delivered leaves the list or the rest of the queue current.
LEMMA DeliverKeeps == ASSUME UiInv, NEW b \in Browsers, Deliver(b) PROVE UiInv'
<1> DEFINE t == tab[b]
           n == Delivered(t)
           e == Head(t.queue)
<1>0. /\ t \in Tabs /\ t.queue # <<>> /\ t.stream = "on" /\ t.queue \in Seq(Events)
      /\ t.answers \in Seq(Answers)
  BY TabFields DEF UiInv, UiTyped, Deliver
<1>1. /\ n \in Tabs /\ e \in Events /\ n.queue = Tail(t.queue) /\ n.stream = t.stream
      /\ n.subscribed = t.subscribed /\ n.list = [t.list EXCEPT ![e.row] = e.val]
      /\ n.asked = t.asked /\ n.answers = Overtaken(t.answers)
  BY <1>0, DeliveredFields
<1>2. /\ tab' = [tab EXCEPT ![b] = n] /\ value' = value /\ posts' = posts /\ notified' = notified
      /\ issued' = issued /\ suspect' = suspect
  BY DEF Deliver
<1>3. t.list \in [UiRows -> Int]
  BY <1>0, TabFields
<1>a. LastLoad(n) => Doomed(n)
  <2> HIDE DEF n, t
  <2>1. Len(n.answers) = Len(t.answers) /\ n.answers \in Seq(Answers)
    BY <1>0, <1>1, OvertakenIs
  <2>2. n.answers # <<>> => Len(t.answers) \in 1 .. Len(t.answers)
    BY <1>0, <2>1
  <2> QED BY <1>0, <1>1, <2>1, <2>2, OvertakenIs DEF LastLoad, Doomed, Newest
<1>b. n.answers = <<>> => t.answers = <<>>
  <2> HIDE DEF n, t
  <2>1. Len(n.answers) = Len(t.answers) /\ n.answers \in Seq(Answers)
    BY <1>0, <1>1, OvertakenIs
  <2> QED BY <1>0, <2>1
<1>4. ASSUME b \notin suspect PROVE Clean(posts, value) /\ Follows(n, posts, value)
  <2>1. Clean(posts, value) /\ Follows(t, posts, value)
    BY <1>4 DEF UiInv
  <2> HIDE DEF n, t, e
  <2>2. ASSUME NEW r \in UiRows, ~Pending(posts, r), ~Doomed(n)
        PROVE  Sees(n, r, value[r])
    <3>1. ~LastLoad(n) /\ ~Doomed(t)
      <4>1. ~LastLoad(n)
        BY <1>a, <2>2
      <4>2. t.answers # <<>> => n.answers # <<>>
        <5>1. Len(n.answers) = Len(t.answers) /\ n.answers \in Seq(Answers)
          BY <1>0, <1>1, OvertakenIs
        <5> QED BY <1>0, <5>1
      <4> QED BY <1>1, <4>1, <4>2 DEF LastLoad, Doomed
    <3>2. Sees(t, r, value[r])
      BY <1>0, <2>1, <2>2, <3>1 DEF Follows
    <3>3. CASE NoneOf(t.queue, r)
      <4>1. NoneOf(n.queue, r) /\ e.row # r
        BY <1>0, <1>1, <3>3, TailSees DEF e
      <4>2. n.list[r] = t.list[r]
        BY <1>1, <1>3, <4>1
      <4>3. t.asked = 0 /\ t.answers = <<>> => t.list[r] = value[r]
        BY <3>2, <3>3 DEF Sees, LastIs, NoneOf
      <4> QED BY <1>1, <1>b, <3>1, <4>1, <4>2, <4>3 DEF Sees
    <3>4. CASE LastIs(t.queue, r, value[r])
      <4>1. \/ LastIs(n.queue, r, value[r])
            \/ e.row = r /\ e.val = value[r] /\ NoneOf(n.queue, r)
        BY <1>0, <1>1, <3>4, TailSees DEF e
      <4>2. e.row = r => n.list[r] = e.val
        BY <1>1, <1>3
      <4> QED BY <1>1, <3>1, <4>1, <4>2 DEF Sees
    <3> QED BY <3>2, <3>3, <3>4 DEF Sees
  <2> QED BY <1>0, <1>1, <2>1, <2>2 DEF Follows
<1> HIDE DEF n, t, e
<1> QED BY <1>1, <1>2, <1>4, OneTabKeeps

\* A snapshot that is read has every row as it is.
LEMMA ReadSnapshotKeeps == ASSUME UiInv, NEW b \in Browsers, ReadSnapshot(b) PROVE UiInv'
<1> DEFINE t == tab[b]
<1>0. /\ t \in Tabs /\ t.asked > 0 /\ t.asked \in Nat /\ t.answers \in Seq(Answers)
      /\ value \in [UiRows -> Nat]
  BY TabFields DEF UiInv, UiTyped, ReadSnapshot
<1>1. PICK l : l = [snap |-> value, passed |-> FALSE]
  OBVIOUS
<1>2. l \in Answers /\ l.snap = value /\ l.passed = FALSE
  BY <1>0, <1>1 DEF Answers
<1>3. PICK more : more = Append(t.answers, l)
  OBVIOUS
<1>4. /\ more \in Seq(Answers) /\ more # <<>> /\ more[Len(more)] = l
  BY <1>0, <1>2, <1>3, AppendIs
<1>m. PICK m : m = t.asked - 1
  OBVIOUS
<1>5. PICK n : n = [t EXCEPT !.asked = m, !.answers = more]
  OBVIOUS
<1>6. /\ n \in Tabs /\ n.answers = more /\ n.stream = t.stream /\ n.subscribed = t.subscribed
      /\ n.queue = t.queue /\ n.list = t.list /\ n.asked = t.asked - 1
  <2>1. m \in Nat
    BY <1>0, <1>m
  <2>2. /\ n \in Tabs /\ n.answers = more /\ n.stream = t.stream
        /\ n.subscribed = t.subscribed /\ n.queue = t.queue /\ n.list = t.list /\ n.asked = m
    BY <1>0, <1>4, <1>5, <2>1 DEF Tabs
  <2> QED BY <1>m, <2>2
<1>7. n = Answered(t)
  BY <1>0, <1>1, <1>3, <1>5, <1>m DEF Answered, Tabs
<1>8. /\ tab' = [tab EXCEPT ![b] = n] /\ value' = value /\ posts' = posts /\ notified' = notified
      /\ issued' = issued /\ suspect' = suspect
  BY <1>7 DEF ReadSnapshot, UiInv, UiTyped
<1>9. ASSUME b \notin suspect PROVE Clean(posts, value) /\ Follows(n, posts, value)
  <2>1. Clean(posts, value) /\ Follows(t, posts, value)
    BY <1>9 DEF UiInv
  <2> HIDE DEF t
  <2>2. ~Doomed(t) /\ Newest(n) = l
    BY <1>0, <1>4, <1>6 DEF Doomed, LastLoad, Newest
  <2>3. \A r \in UiRows : Sees(t, r, value[r]) => Sees(n, r, value[r])
    BY <1>0, <1>2, <1>4, <1>6, <2>2 DEF Sees
  <2> QED BY <1>6, <2>1, <2>2, <2>3 DEF Follows
<1> HIDE DEF t
<1> QED BY <1>6, <1>8, <1>9, OneTabKeeps

\* What is left of the answers when one has landed: the ones read later, and
\* the ones read before it, which the list has gone past.
LEMMA LandedFields ==
  ASSUME NEW t \in Tabs, NEW i \in DOMAIN t.answers
  PROVE  /\ Landed(t, i) \in Tabs
         /\ Landed(t, i).stream = t.stream /\ Landed(t, i).subscribed = t.subscribed
         /\ Landed(t, i).queue = t.queue /\ Landed(t, i).asked = t.asked
         /\ Landed(t, i).list = t.answers[i].snap
         /\ LET n == Len(t.answers)  left == Landed(t, i).answers IN
            /\ Len(left) = n - 1
            /\ i < n => left[n - 1] = t.answers[n]
            /\ i = n /\ n > 1 => left[n - 1].passed
<1> DEFINE a == t.answers
           n == Len(a)
           older == SubSeq(a, 1, i - 1)
           newer == SubSeq(a, i + 1, n)
           first == Overtaken(older)
           left == first \o newer
<1>1. a \in Seq(Answers) /\ n \in Nat /\ i \in 1 .. n /\ a[i].snap \in [UiRows -> Int]
  <2>1. a \in Seq(Answers) /\ n \in Nat /\ i \in 1 .. n
    BY TabFields
  <2>2. a[i] \in Answers
    BY <2>1
  <2> QED BY <2>1, <2>2 DEF Answers
<1> HIDE DEF a
<1>2. /\ older \in Seq(Answers) /\ Len(older) = i - 1
      /\ newer \in Seq(Answers) /\ Len(newer) = n - i
      /\ \A k \in 1 .. n - i : newer[k] = a[i + k]
  BY <1>1, PartsAre
<1> HIDE DEF older, newer, n
<1>3. /\ first \in Seq(Answers) /\ Len(first) = i - 1
      /\ \A k \in 1 .. i - 1 : first[k].passed = TRUE
  BY <1>2, OvertakenIs
<1> HIDE DEF first
<1>4. /\ left \in Seq(Answers) /\ Len(left) = n - 1
      /\ \A k \in 1 .. i - 1 : left[k] = first[k]
      /\ \A k \in 1 .. n - i : left[i - 1 + k] = newer[k]
  <2>1. /\ left \in Seq(Answers) /\ Len(left) = Len(first) + Len(newer)
        /\ \A k \in 1 .. Len(first) : left[k] = first[k]
        /\ \A k \in 1 .. Len(newer) : left[Len(first) + k] = newer[k]
    <3>1. first \in Seq(Answers) /\ newer \in Seq(Answers)
      BY <1>2, <1>3
    <3> QED BY <3>1, JoinedAre
  <2> HIDE DEF left
  <2>2. Len(first) + Len(newer) = n - 1
    <3>1. i \in Int /\ n \in Int
      BY <1>1
    <3> QED BY <1>2, <1>3, <3>1
  <2> QED BY <1>2, <1>3, <2>1, <2>2
<1> HIDE DEF left
<1>5. i < n => left[n - 1] = a[n]
  <2>1. ASSUME i < n
        PROVE  n - i \in 1 .. n - i /\ i - 1 + (n - i) = n - 1 /\ i + (n - i) = n
    <3>1. n \in Int /\ i \in Int
      BY <1>1
    <3> QED BY <2>1, <3>1
  <2>2. ASSUME i < n PROVE left[i - 1 + (n - i)] = a[i + (n - i)]
    BY <1>2, <1>4, <2>1, <2>2
  <2> QED BY <2>1, <2>2
<1>6. i = n /\ n > 1 => left[n - 1].passed
  BY <1>1, <1>3, <1>4
<1>7. PICK snap : snap = a[i].snap
  OBVIOUS
<1>8. Landed(t, i) = [t EXCEPT !.list = snap, !.answers = left]
  BY <1>7 DEF Landed, Tabs, a, n, older, newer, first, left
<1>9. /\ Landed(t, i) \in Tabs
      /\ Landed(t, i).stream = t.stream /\ Landed(t, i).subscribed = t.subscribed
      /\ Landed(t, i).queue = t.queue /\ Landed(t, i).asked = t.asked
      /\ Landed(t, i).list = snap /\ Landed(t, i).answers = left
  BY <1>1, <1>4, <1>7, <1>8 DEF Tabs
<1> QED BY <1>4, <1>5, <1>6, <1>7, <1>9 DEF a, n

\* A snapshot lands: the last to land shows what the queue does not, or the tab
\* is suspect.
LEMMA LandSnapshotKeeps ==
  ASSUME UiInv, NEW b \in Browsers, NEW i \in DOMAIN tab[b].answers, LandSnapshot(b, i)
  PROVE  UiInv'
<1> DEFINE t == tab[b]
           n == Landed(t, i)
           len == Len(t.answers)
<1>0. t \in Tabs /\ t.answers \in Seq(Answers) /\ t.asked \in Nat
  BY TabFields DEF UiInv, UiTyped
<1>1. /\ n \in Tabs /\ n.stream = t.stream /\ n.subscribed = t.subscribed
      /\ n.queue = t.queue /\ n.asked = t.asked /\ n.list = t.answers[i].snap
      /\ Len(n.answers) = len - 1
      /\ i < len => n.answers[len - 1] = t.answers[len]
      /\ i = len /\ len > 1 => n.answers[len - 1].passed
  BY <1>0, LandedFields
<1>2. /\ tab' = [tab EXCEPT ![b] = n] /\ value' = value /\ posts' = posts /\ notified' = notified
      /\ issued' = issued /\ suspect \subseteq suspect'
      /\ b \notin suspect' => b \notin suspect /\ ~(t.answers[i].passed /\ i = len /\ t.asked = 0)
  BY DEF LandSnapshot, UiInv, UiTyped
<1>3. i \in 1 .. len /\ len \in Nat /\ t.answers # <<>>
  BY <1>0
<1>4. n.answers \in Seq(Answers)
  BY <1>1, TabFields
<1> HIDE DEF t, n, len
<1>5. ASSUME b \notin suspect' PROVE Clean(posts, value) /\ Follows(n, posts, value)
  <2>1. Clean(posts, value) /\ Follows(t, posts, value)
    BY <1>2, <1>5 DEF UiInv, t
  <2>2. CASE t.asked # 0
    <3>1. ~Doomed(t)
      BY <2>2 DEF Doomed, LastLoad
    <3>2. \A r \in UiRows : Sees(t, r, value[r]) => Sees(n, r, value[r])
      BY <1>1, <2>2 DEF Sees, LastLoad
    <3> QED BY <1>1, <2>1, <3>1, <3>2 DEF Follows
  <2>3. CASE t.asked = 0 /\ i < len
    <3>1. n.answers # <<>> /\ Newest(n) = Newest(t)
      BY <1>1, <1>3, <1>4, <2>3 DEF Newest, len
    <3>2. LastLoad(n) /\ LastLoad(t)
      BY <1>1, <1>3, <2>3, <3>1 DEF LastLoad
    <3>3. \A r \in UiRows : Sees(t, r, value[r]) => Sees(n, r, value[r])
      BY <1>1, <3>1, <3>2 DEF Sees
    <3> QED BY <1>1, <2>1, <3>1, <3>2, <3>3 DEF Follows, Doomed
  <2>4. CASE t.asked = 0 /\ i = len /\ len > 1
    <3>1. n.answers # <<>> /\ Newest(n).passed
      BY <1>1, <1>3, <1>4, <2>4 DEF Newest
    <3>2. Doomed(n)
      BY <1>1, <2>4, <3>1 DEF Doomed, LastLoad
    <3> QED BY <1>1, <2>1, <3>2 DEF Follows
  <2>5. CASE t.asked = 0 /\ i = len /\ len = 1
    <3>1. n.answers = <<>> /\ ~LastLoad(n)
      BY <1>1, <1>4, <2>5 DEF LastLoad
    <3>2. LastLoad(t) /\ ~Doomed(t) /\ n.list = Newest(t).snap
      BY <1>1, <1>2, <1>3, <1>5, <2>5 DEF LastLoad, Doomed, Newest, len
    <3>3. \A r \in UiRows : Sees(t, r, value[r]) => Sees(n, r, value[r])
      BY <1>1, <3>1, <3>2 DEF Sees
    <3> QED BY <1>1, <2>1, <3>2, <3>3 DEF Follows
  <2> QED BY <1>3, <2>2, <2>3, <2>4, <2>5
<1> QED BY <1>1, <1>2, <1>5, OneTabKeeps DEF t

\* A load that fails makes its tab suspect unless another is to be read.
LEMMA FailLoadKeeps == ASSUME UiInv, NEW b \in Browsers, FailLoad(b) PROVE UiInv'
<1> DEFINE t == tab[b]
<1>0. t \in Tabs /\ t.asked > 0 /\ t.asked \in Nat /\ t.list \in [UiRows -> Int]
  BY TabFields DEF UiInv, UiTyped, FailLoad
<1>1. PICK list : list = [r \in UiRows |-> IF r \in Beats THEN Unread ELSE t.list[r]]
  OBVIOUS
<1>2. list \in [UiRows -> Int]
  BY <1>0, <1>1 DEF Unread
<1>m. PICK m : m = t.asked - 1
  OBVIOUS
<1>3. PICK n : n = [t EXCEPT !.asked = m, !.list = list]
  OBVIOUS
<1>4. /\ n \in Tabs /\ n.answers = t.answers /\ n.stream = t.stream /\ n.subscribed = t.subscribed
      /\ n.queue = t.queue /\ n.asked = t.asked - 1
  <2>1. m \in Nat
    BY <1>0, <1>m
  <2>2. /\ n \in Tabs /\ n.answers = t.answers /\ n.stream = t.stream
        /\ n.subscribed = t.subscribed /\ n.queue = t.queue /\ n.asked = m
    BY <1>0, <1>2, <1>3, <2>1 DEF Tabs
  <2> QED BY <1>m, <2>2
<1>5. n = Failed(t)
  BY <1>0, <1>1, <1>3, <1>m DEF Failed, Tabs
<1>6. /\ tab' = [tab EXCEPT ![b] = n] /\ value' = value /\ posts' = posts /\ notified' = notified
      /\ issued' = issued /\ suspect \subseteq suspect'
      /\ b \notin suspect' => b \notin suspect /\ t.asked # 1
  BY <1>5 DEF FailLoad, UiInv, UiTyped
<1>7. ASSUME b \notin suspect' PROVE Clean(posts, value) /\ Follows(n, posts, value)
  <2>1. Clean(posts, value) /\ Follows(t, posts, value) /\ n.asked # 0
    BY <1>0, <1>4, <1>6, <1>7 DEF UiInv
  <2> HIDE DEF t
  <2>2. ~Doomed(t) /\ ~LastLoad(n)
    BY <1>0, <2>1 DEF Doomed, LastLoad
  <2>3. \A r \in UiRows : Sees(t, r, value[r]) => Sees(n, r, value[r])
    BY <1>4, <2>1, <2>2 DEF Sees
  <2> QED BY <1>4, <2>1, <2>2, <2>3 DEF Follows
<1> HIDE DEF t
<1> QED BY <1>4, <1>6, <1>7, OneTabKeeps

\* Every step keeps the invariant.
LEMMA UiStep == UiInv /\ [UiNext]_uiVars => UiInv'
<1> SUFFICES ASSUME UiInv, [UiNext]_uiVars PROVE UiInv'
  OBVIOUS
<1>1. CASE \E j \in JobRows : WorkerCommit(j) \/ RequestCommit(j)
  BY <1>1, WorkerCommitKeeps
<1>2. CASE \E o \in OrderRows : SilentCommit(o)
  BY <1>2, SilentKeeps
<1>3. CASE \E b \in Beats, changed, due \in BOOLEAN : Heartbeat(b, changed, due)
  BY <1>3, HeartbeatKeeps
<1>4. CASE PostTimesOut \/ (\E b \in Beats : WorkerRestarts(b)) \/ UNCHANGED uiVars
  BY <1>4, WorkerKeeps
<1>5. CASE \E p \in posts : ReadRow(p)
  BY <1>5, ReadRowKeeps
<1>6. CASE \E p \in posts, reach \in SUBSET Browsers : Publish(p, reach)
  BY <1>6, PublishKeeps
<1>7. CASE \E b \in Browsers : \/ Mount(b) \/ Connect(b) \/ Reopen(b) \/ Break(b)
                              \/ Deliver(b) \/ ReadSnapshot(b) \/ FailLoad(b)
                              \/ \E i \in DOMAIN tab[b].answers : LandSnapshot(b, i)
  BY <1>7, MountKeeps, ConnectKeeps, ReopenKeeps, BreakKeeps, DeliverKeeps, ReadSnapshotKeeps,
     FailLoadKeeps, LandSnapshotKeeps
<1> QED BY <1>1, <1>2, <1>3, <1>4, <1>5, <1>6, <1>7 DEF UiNext

\* Once posts are published, queues empty and loads landed, the list of a page
\* whose stream is open shows every row as it is, unless one of the losses that
\* ListIsCurrent names has happened to it: through overlapping loads that land in
\* any order, failures, and streams that break or are reopened at any moment
\* (Broadcaster.publish, events.ts, useSseList.ts).
THEOREM ListStaysCurrent == UiSpec => []ListIsCurrent
<1>1. UiInit => UiInv BY UiStarts
<1>2. UiInv => ListIsCurrent BY UiHolds
<1> QED BY <1>1, <1>2, UiStep, PTL DEF UiSpec

-----------------------------------------------------------------------------
(* A group is shown its own part, by every path (GroupFigures). *)

Groupings == Campaigns \cup {Untagged}

FillRows ==
  [pair : Pairs, qty : Int, side : {"SLD", "BOT"}, role : {"plain", "leg", "summary"},
   group : Groupings, settled : BOOLEAN, inLive : BOOLEAN,
   cycle : {"Open", "Close", "none"}, pnl : Int]

FiguresTyped ==
  /\ fills \in Seq(FillRows)
  /\ snapshot \in [Pairs -> Int]
  /\ DOMAIN capture = Books

\* What the summaries of the combos say is what their legs realized.
SummariesSpeak ==
  Pnl({i \in DOMAIN fills : fills[i].role = "summary"})
    = Pnl({i \in DOMAIN fills : fills[i].role = "leg"})

FiguresInv == FiguresTyped /\ SummariesSpeak

LEMMA SignedType ==
  ASSUME FiguresTyped
  PROVE  /\ IsFiniteSet(DOMAIN fills)
         /\ \A i \in DOMAIN fills : /\ fills[i] \in FillRows /\ fills[i].pnl \in Int
                                    /\ SignedQuantity(fills[i]) \in Int
<1>1. DOMAIN fills = 1 .. Len(fills) /\ Len(fills) \in Nat
  BY DEF FiguresTyped
<1>2. IsFiniteSet(DOMAIN fills)
  BY <1>1, FS_Interval
<1>3. \A i \in DOMAIN fills : fills[i] \in FillRows
  BY <1>1 DEF FiguresTyped
<1>4. \A r \in FillRows : r.pnl \in Int /\ SignedQuantity(r) \in Int
  BY DEF FillRows, SignedQuantity, Abs
<1> QED BY <1>2, <1>3, <1>4

LEMMA SumsType ==
  ASSUME FiguresTyped, NEW S \in SUBSET DOMAIN fills
  PROVE  IsFiniteSet(S) /\ Amount(S) \in Int /\ Pnl(S) \in Int
<1>1. IsFiniteSet(S)
  BY SignedType, FS_Subset
<1>2. /\ \A i \in S : [j \in DOMAIN fills |-> SignedQuantity(fills[j])][i] \in Int
      /\ \A i \in S : [j \in DOMAIN fills |-> fills[j].pnl][i] \in Int
  BY SignedType
<1> QED BY <1>1, <1>2, SumStep DEF Amount, Pnl

LEMMA SumsSplit ==
  ASSUME FiguresTyped, NEW S \in SUBSET DOMAIN fills, NEW T \in SUBSET DOMAIN fills, S \cap T = {}
  PROVE  Amount(S \cup T) = Amount(S) + Amount(T) /\ Pnl(S \cup T) = Pnl(S) + Pnl(T)
<1> DEFINE f == [j \in DOMAIN fills |-> SignedQuantity(fills[j])]
           e == [j \in DOMAIN fills |-> fills[j].pnl]
<1>1. IsFiniteSet(S) /\ IsFiniteSet(T)
  BY SumsType
<1>2. \A i \in S \cup T : f[i] \in Int /\ e[i] \in Int
  BY SignedType
<1> HIDE DEF f, e
<1>3. /\ SumOver(f, S \cup T) = SumOver(f, S) + SumOver(f, T)
      /\ SumOver(e, S \cup T) = SumOver(e, S) + SumOver(e, T)
  BY <1>1, <1>2, SumSplit
<1> QED BY <1>3 DEF Amount, Pnl, f, e

LEMMA SumsEmpty == Amount({}) = 0 /\ Pnl({}) = 0
BY SumEmpty DEF Amount, Pnl

-----------------------------------------------------------------------------
\* A group is credited with no more than the position, on its side.
LEMMA PartBounded ==
  ASSUME NEW held \in Int, NEW position \in Int
  PROVE  /\ HeldPart(held, position) \in Int
         /\ Abs(HeldPart(held, position)) \in Int
         /\ Abs(HeldPart(held, position)) <= Abs(position)
         /\ Abs(HeldPart(held, position)) <= Abs(held)
<1>1. HeldPart(held, position) \in {0, held, position}
  BY DEF HeldPart
<1>2. HeldPart(held, position) = 0 \/ (HeldPart(held, position) = held /\ Abs(held) < Abs(position))
        \/ (HeldPart(held, position) = position /\ ~(Abs(held) < Abs(position)))
  BY DEF HeldPart
<1> QED BY <1>1, <1>2 DEF Abs

LEMMA PartOfNothing ==
  ASSUME NEW n \in Int
  PROVE  HeldPart(0, n) = 0 /\ HeldPart(n, 0) = 0
BY DEF HeldPart

LEMMA NetHeldType ==
  ASSUME FiguresTyped, NEW S \in SUBSET DOMAIN fills
  PROVE  NetHeld(S) \in Int /\ NetHeld({}) = 0
<1>1. NetHeld(S) \in Int
  <2> DEFINE closes == {i \in S : fills[i].settled /\ fills[i].cycle = "Close"}
             opened == Amount(S \ closes)
             own == {i \in closes : SignedQuantity(fills[i]) * opened < 0}
             held == opened + Amount(own)
  <2>1. opened \in Int /\ Amount(own) \in Int
    BY SumsType
  <2>2. NetHeld(S) = IF held * opened > 0 THEN held ELSE 0
    BY DEF NetHeld
  <2> HIDE DEF opened, own
  <2> QED BY <2>1, <2>2
<1>2. NetHeld({}) = 0
  <2>1. {} \ {} = {}
    OBVIOUS
  <2> QED BY SumsEmpty, <2>1 DEF NetHeld
<1> QED BY <1>1, <1>2

LEMMA HeldType ==
  ASSUME FiguresTyped, NEW g, NEW p
  PROVE  SettledHeld(g, p) \in Int /\ TotalHeld(g, p) \in Int /\ Net(p) \in Int
<1>1. FillsOf(p) \subseteq DOMAIN fills
  BY DEF FillsOf
<1> QED BY <1>1, NetHeldType, SumsType DEF SettledHeld, TotalHeld, Net

LEMMA Pages1 ==
  ASSUME FiguresTyped
  PROVE  /\ Traded \subseteq Pairs /\ IsFiniteSet(Tagged)
         /\ \A g : LedgerPairs(g) \subseteq Pairs /\ IsFiniteSet(LedgerPairs(g))
<1>1. Traded \subseteq Pairs /\ \A g : LedgerPairs(g) \subseteq Pairs
  BY SignedType DEF Traded, LedgerPairs, Executions, LiveTagged, FillRows
<1>2. IsFiniteSet(Pairs)
  BY FiguresAssumption, FS_Product DEF Pairs
<1>3. \A g : IsFiniteSet(LedgerPairs(g))
  BY <1>1, <1>2, FS_Subset
<1>4. IsFiniteSet(Tagged)
  <2> DEFINE f == [i \in DOMAIN fills |-> fills[i].group]
             T == {fills[i].group : i \in DOMAIN fills}
  <2>1. f \in Surjection(DOMAIN fills, T)
    BY DEF Surjection
  <2>2. IsFiniteSet(T)
    <3> HIDE DEF f, T
    <3> QED BY <2>1, SignedType, FS_Surjection
  <2>3. Tagged \subseteq T
    BY DEF Tagged
  <2> QED BY <2>2, <2>3, FS_Subset
<1> QED BY <1>1, <1>3, <1>4

\* What a position's fills come to, group by group.
LEMMA NetByGroup ==
  ASSUME FiguresTyped, NEW p, OwnCloses(p)
  PROVE  Net(p) = SumOver([g \in Tagged |-> TotalHeld(g, p)], Tagged)
<1> DEFINE f == [j \in DOMAIN fills |-> SignedQuantity(fills[j])]
           S == FillsOf(p)
           q == [i \in DOMAIN fills |-> fills[i].group]
           h == [g \in Tagged |-> SumOver(f, {i \in S : q[i] = g})]
           e == [g \in Tagged |-> TotalHeld(g, p)]
<1>1. IsFiniteSet(S) /\ S \subseteq DOMAIN fills
  BY SumsType DEF FillsOf
<1>2. \A i \in S : q[i] \in Tagged
  BY <1>1 DEF OwnCloses, Tagged
<1>3. \A i \in S : f[i] \in Int
  BY <1>1, SignedType
<1>4. Net(p) = SumOver(f, S)
  BY DEF Net, Amount
<1>5. \A g \in Tagged : e[g] = h[g]
  <2>1. ASSUME NEW g \in Tagged PROVE TotalHeld(g, p) = SumOver(f, {i \in S : q[i] = g})
    <3>1. {i \in S : q[i] = g} = {i \in S : fills[i].group = g}
      BY <1>1
    <3>2. TotalHeld(g, p) = Amount({i \in S : fills[i].group = g})
      BY DEF OwnCloses
    <3> QED BY <3>1, <3>2 DEF Amount
  <2> QED BY <2>1
<1> HIDE DEF f, S, q, e
<1>6. SumOver(f, S) = SumOver(h, Tagged)
  BY <1>1, <1>2, <1>3, Pages1, SumByClass
<1> HIDE DEF h
<1>7. SumOver(e, Tagged) = SumOver(h, Tagged)
  BY <1>5, Pages1, SumSame
<1> QED BY <1>4, <1>6, <1>7 DEF e

\* Where all are of one sign, absolute values add up.
LEMMA SumAbs ==
  ASSUME NEW S, IsFiniteSet(S), NEW f, \A x \in S : f[x] \in Int,
         (\A x \in S : f[x] >= 0) \/ (\A x \in S : f[x] <= 0)
  PROVE  /\ SumOver([x \in S |-> Abs(f[x])], S) = Abs(SumOver(f, S))
         /\ (\A x \in S : f[x] >= 0) => SumOver(f, S) >= 0
         /\ (\A x \in S : f[x] <= 0) => SumOver(f, S) <= 0
<1> DEFINE a == [x \in S |-> Abs(f[x])]
           G == {s \in SUBSET S : /\ SumOver(a, s) = Abs(SumOver(f, s))
                                  /\ (\A x \in S : f[x] >= 0) => SumOver(f, s) >= 0
                                  /\ (\A x \in S : f[x] <= 0) => SumOver(f, s) <= 0}
<1>1. {} \in G
  BY SumEmpty DEF Abs
<1>2. ASSUME NEW s \in SUBSET S, NEW x \in S, s \in G, x \notin s PROVE s \cup {x} \in G
  <2>1. IsFiniteSet(s) /\ a[x] = Abs(f[x]) /\ \A y \in S : a[y] \in Int
    BY FS_Subset DEF Abs
  <2> HIDE DEF a
  <2>2. SumOver(f, s \cup {x}) = f[x] + SumOver(f, s) /\ SumOver(f, s) \in Int /\ f[x] \in Int
    BY <1>2, <2>1, SumMore, SumStep
  <2>3. SumOver(a, s \cup {x}) = a[x] + SumOver(a, s)
    BY <1>2, <2>1, SumMore
  <2>4. /\ SumOver(a, s) = Abs(SumOver(f, s))
        /\ (\A y \in S : f[y] >= 0) => SumOver(f, s) >= 0 /\ f[x] >= 0
        /\ (\A y \in S : f[y] <= 0) => SumOver(f, s) <= 0 /\ f[x] <= 0
    BY <1>2
  <2>5. /\ SumOver(a, s \cup {x}) = Abs(SumOver(f, s \cup {x}))
        /\ (\A y \in S : f[y] >= 0) => SumOver(f, s \cup {x}) >= 0
        /\ (\A y \in S : f[y] <= 0) => SumOver(f, s \cup {x}) <= 0
    BY <2>1, <2>2, <2>3, <2>4 DEF Abs
  <2> QED BY <2>5
<1> HIDE DEF G
<1>3. S \in G
  BY <1>1, <1>2, SetInduction
<1> QED BY <1>3 DEF G

LEMMA SharesStay == ASSUME FiguresTyped PROVE SharesWithinBook
<1> SUFFICES ASSUME NEW p \in Traded, OwnCloses(p), ~Opposed(p)
             PROVE  SumOver([g \in Tagged |-> Abs(HeldPart(TotalHeld(g, p), Net(p)))], Tagged)
                      <= Abs(Net(p))
  BY DEF SharesWithinBook
<1> DEFINE held == [g \in Tagged |-> TotalHeld(g, p)]
           n == Net(p)
           part == [g \in Tagged |-> Abs(HeldPart(held[g], n))]
           size == [g \in Tagged |-> Abs(held[g])]
<1>1. IsFiniteSet(Tagged) /\ n \in Int /\ \A g \in Tagged : held[g] \in Int
  BY Pages1, HeldType
<1>2. \A g \in Tagged : /\ part[g] \in Int /\ size[g] \in Int
                        /\ part[g] <= Abs(n) /\ part[g] <= size[g]
                        /\ held[g] * n <= 0 => part[g] = 0
  <2>1. ASSUME NEW g \in Tagged
        PROVE  /\ part[g] = Abs(HeldPart(held[g], n)) /\ size[g] = Abs(held[g])
               /\ held[g] \in Int
    BY <1>1
  <2> HIDE DEF held, n, part, size
  <2>2. \A g \in Tagged : size[g] \in Int
    BY <2>1 DEF Abs
  <2>3. ASSUME NEW g \in Tagged
        PROVE  /\ part[g] \in Int /\ part[g] <= Abs(n) /\ part[g] <= size[g]
               /\ held[g] * n <= 0 => part[g] = 0
    <3>1. held[g] \in Int /\ n \in Int
      BY <1>1, <2>1
    <3>2. held[g] * n <= 0 => HeldPart(held[g], n) = 0
      BY DEF HeldPart
    <3>3. Abs(0) = 0
      BY DEF Abs
    <3>4. /\ Abs(HeldPart(held[g], n)) \in Int
          /\ Abs(HeldPart(held[g], n)) <= Abs(n)
          /\ Abs(HeldPart(held[g], n)) <= Abs(held[g])
      BY <3>1, PartBounded
    <3> QED BY <2>1, <3>2, <3>3, <3>4
  <2> QED BY <2>2, <2>3
<1>3. n = SumOver(held, Tagged)
  BY NetByGroup
<1>4. [g \in Tagged |-> Abs(HeldPart(TotalHeld(g, p), Net(p)))] = part
  OBVIOUS
<1>5. \A g, h, k \in Tagged : g # h /\ held[g] * n > 0 /\ held[h] * n > 0 => ~(held[k] * n < 0)
  BY DEF Opposed
<1>6. Abs(n) \in Int /\ Abs(n) >= 0
  BY <1>1 DEF Abs
<1>7. SumOver(part, Tagged) <= Abs(n)
  <2> HIDE DEF held, n, part
  <2>1. CASE \A k \in Tagged : held[k] * n >= 0
    <3>1. (\A g \in Tagged : held[g] >= 0) \/ (\A g \in Tagged : held[g] <= 0) \/ n = 0
      <4>1. \A x \in Int, y \in Int : x * y >= 0 => x = 0 \/ y = 0 \/ (x > 0 /\ y > 0) \/ (x < 0 /\ y < 0)
        OBVIOUS
      <4> QED BY <1>1, <2>1, <4>1
    <3>2. CASE n = 0
      <4>1. \A g \in Tagged : part[g] = 0
        BY <1>1, <1>2, <3>2
      <4>2. SumOver(part, Tagged) = SumOver(part, {})
        BY <1>1, <4>1, SumNull
      <4> QED BY <1>6, <4>2, SumEmpty
    <3>3. CASE (\A g \in Tagged : held[g] >= 0) \/ (\A g \in Tagged : held[g] <= 0)
      <4>1. SumOver(size, Tagged) = Abs(SumOver(held, Tagged))
        BY <1>1, <3>3, SumAbs
      <4> HIDE DEF size
      <4>2. SumOver(part, Tagged) <= SumOver(size, Tagged)
        BY <1>1, <1>2, SumAtMost
      <4> QED BY <1>3, <4>1, <4>2
    <3> QED BY <3>1, <3>2, <3>3
  <2>2. CASE \E k \in Tagged : held[k] * n < 0
    <3>1. \A g, h \in Tagged : held[g] * n > 0 /\ held[h] * n > 0 => g = h
      BY <1>5, <2>2
    <3>2. CASE \E g \in Tagged : held[g] * n > 0
      <4>1. PICK g \in Tagged : held[g] * n > 0
        BY <3>2
      <4>2. \A h \in Tagged \ {g} : part[h] = 0
        <5>1. ASSUME NEW h \in Tagged, h # g PROVE held[h] * n <= 0
          <6>1. held[h] * n \in Int
            BY <1>1
          <6> QED BY <3>1, <4>1, <5>1, <6>1
        <5> QED BY <1>2, <5>1
      <4>3. SumOver(part, Tagged) = SumOver(part, {g})
        BY <1>1, <1>2, <4>2, SumNull
      <4>4. SumOver(part, {g}) = part[g] + SumOver(part, {} )
        <5>1. {g} \ {g} = {} /\ IsFiniteSet({g})
          BY FS_Singleton
        <5>2. SumOver(part, {g}) = part[g] + SumOver(part, {g} \ {g})
          BY <1>2, <5>1, SumStep
        <5> QED BY <5>1, <5>2
      <4>5. SumOver(part, Tagged) = part[g]
        BY <1>2, <4>3, <4>4, SumEmpty
      <4> QED BY <1>2, <4>5
    <3>3. CASE ~\E g \in Tagged : held[g] * n > 0
      <4>1. \A g \in Tagged : held[g] * n \in Int
        BY <1>1
      <4>2. \A g \in Tagged : part[g] = 0
        BY <1>2, <3>3, <4>1
      <4>3. SumOver(part, Tagged) = SumOver(part, {})
        BY <1>1, <1>2, <4>2, SumNull
      <4> QED BY <1>6, <4>3, SumEmpty
    <3> QED BY <3>2, <3>3
  <2>3. \A k \in Tagged : held[k] * n \in Int
    BY <1>1
  <2> QED BY <2>1, <2>2, <2>3
<1> QED BY <1>4, <1>7
-----------------------------------------------------------------------------
LEMMA SettledPartType ==
  ASSUME FiguresTyped, NEW g, NEW p \in Pairs
  PROVE  /\ SettledPart(g, p) \in Int
         /\ snapshot[p] = 0 => SettledPart(g, p) = 0
<1>1. snapshot[p] \in Int /\ SettledHeld(g, p) \in Int
  BY HeldType DEF FiguresTyped
<1> QED BY <1>1, PartBounded, PartOfNothing DEF SettledPart

LEMMA PathsStay == ASSUME FiguresTyped PROVE PathsAgree
<1> SUFFICES ASSUME NEW g \in Tagged PROVE BatchUnrealized(g) = SettledUnrealized(g)
  BY DEF PathsAgree
<1> DEFINE E == {fills[i].pair : i \in Executions(g)}
           L == LedgerPairs(g)
           f == [p \in L |-> SettledPart(g, p)]
           b == [p \in E |-> HeldPart(SettledHeld(g, p), snapshot[p])]
<1>1. E \subseteq L /\ IsFiniteSet(L) /\ L \subseteq Pairs
  BY Pages1 DEF LedgerPairs
<1>2. ASSUME NEW p \in L \ E PROVE f[p] = 0
  <2>1. FillsOf(p) \cap Executions(g) = {}
    BY <1>2 DEF FillsOf, Executions
  <2>2. SettledHeld(g, p) = 0
    BY <2>1, NetHeldType DEF SettledHeld
  <2>3. snapshot[p] \in Int
    BY <1>1 DEF FiguresTyped
  <2>4. HeldPart(0, snapshot[p]) = 0
    BY <2>3, PartOfNothing
  <2> QED BY <2>2, <2>4 DEF SettledPart
<1>3. \A p \in L : f[p] \in Int
  BY <1>1, SettledPartType
<1>4. \A p \in E : b[p] = f[p]
  BY <1>1 DEF SettledPart
<1>5. SettledUnrealized(g) = SumOver(f, L) /\ BatchUnrealized(g) = SumOver(b, E)
  BY DEF SettledUnrealized, BatchUnrealized
<1> HIDE DEF f, b, E, L
<1>6. SumOver(f, L) = SumOver(f, E)
  BY <1>1, <1>2, <1>3, SumNull
<1>7. SumOver(f, E) = SumOver(b, E)
  BY <1>1, <1>4, FS_Subset, SumSame
<1> QED BY <1>5, <1>6, <1>7

LEMMA RealizedType ==
  ASSUME FiguresTyped, NEW g PROVE RealizedTotal(Executions(g)) \in Int
<1>1. Executions(g) \subseteq DOMAIN fills
  BY DEF Executions
<1> QED BY <1>1, SumsType DEF RealizedTotal

LEMMA OvernightStays == ASSUME FiguresTyped PROVE OvernightAgrees
<1> SUFFICES ASSUME \A a \in Books : capture[a] = NoRows, \A i \in DOMAIN fills : ~fills[i].inLive,
                    NEW g \in Tagged
             PROVE  /\ IntradayTotal(g) = SettledUnrealized(g) + RealizedTotal(Executions(g))
                    /\ SumOver([a \in Books |-> AccountUnrealized(g, a)], Books) = SettledUnrealized(g)
  BY DEF OvernightAgrees
<1> DEFINE L == LedgerPairs(g)
           K == {p \in L : snapshot[p] # 0 /\ SettledPart(g, p) # 0}
           f == [p \in L |-> SettledPart(g, p)]
           views == Apportioned(g)
           e == [p \in K |-> SettledPart(g, p)]
<1>1. IsFiniteSet(L) /\ L \subseteq Pairs /\ K \subseteq L /\ IsFiniteSet(K)
  BY Pages1, FS_Subset
<1>2. ViewsOf(g) = [p \in {q \in L : snapshot[q] # 0} |-> [source |-> "settled", position |-> snapshot[p]]]
  <2>1. {p \in L : p[2] \in DOMAIN capture[p[1]]} = {}
    <3>1. \A p \in L : capture[p[1]] = NoRows
      BY <1>1 DEF Pairs
    <3> QED BY <3>1 DEF NoRows
  <2> HIDE DEF L
  <2>2. {p \in L \ {} : snapshot[p] # 0 /\ \A q \in {} : q[1] # p[1]} = {q \in L : snapshot[q] # 0}
    OBVIOUS
  <2> QED BY <2>1, <2>2 DEF ViewsOf, L
<1>3. /\ DOMAIN views = K
      /\ \A p \in K : views[p] = [source |-> "settled", position |-> SettledPart(g, p),
                                  settled |-> SettledPart(g, p)]
  <2> HIDE DEF L
  <2> QED BY <1>2 DEF Apportioned
<1>4. \A p \in L : f[p] \in Int /\ (p \notin K => f[p] = 0)
  BY <1>1, SettledPartType
<1>5. SettledUnrealized(g) = SumOver(f, L)
  BY DEF SettledUnrealized
<1>6. \A p \in K : e[p] = f[p] /\ e[p] \in Int
  BY <1>1, <1>4
<1>7. IntradayUnrealized(g) = SumOver(e, K)
  <2> HIDE DEF K, views
  <2>1. [p \in K |-> IF views[p].source = "live" THEN 2 * views[p].position ELSE views[p].settled] = e
    BY <1>3
  <2> QED BY <1>3, <2>1 DEF IntradayUnrealized, views
<1>8. \A a : AccountUnrealized(g, a) = SumOver(e, {p \in K : p[1] = a})
  <2> HIDE DEF K, views
  <2>1. [p \in K |-> views[p].settled] = e
    BY <1>3
  <2> QED BY <1>3, <2>1 DEF AccountUnrealized, views
<1> HIDE DEF f, e, K, L, views
<1>9. SumOver(f, L) = SumOver(e, K)
  <2>1. SumOver(f, L) = SumOver(f, K)
    BY <1>1, <1>4, SumNull
  <2>2. SumOver(f, K) = SumOver(e, K)
    BY <1>1, <1>6, SumSame
  <2> QED BY <2>1, <2>2
<1>10. SumOver([a \in Books |-> AccountUnrealized(g, a)], Books) = SumOver(e, K)
  <2> DEFINE b == [p \in K |-> p[1]]
             h == [a \in Books |-> SumOver(e, {p \in K : b[p] = a})]
  <2>1. \A p \in K : b[p] \in Books
    BY <1>1 DEF Pairs
  <2>2. IsFiniteSet(Books)
    BY FiguresAssumption
  <2>3. \A a : {p \in K : b[p] = a} = {p \in K : p[1] = a}
    OBVIOUS
  <2>4. [a \in Books |-> AccountUnrealized(g, a)] = h
    <3>1. \A a \in Books : AccountUnrealized(g, a) = SumOver(e, {p \in K : b[p] = a})
      <4> HIDE DEF b
      <4> QED BY <1>8, <2>3
    <3> HIDE DEF b
    <3> QED BY <3>1
  <2> HIDE DEF b
  <2>5. SumOver(e, K) = SumOver(h, Books)
    BY <1>1, <1>6, <2>1, <2>2, SumByClass
  <2> QED BY <2>4, <2>5
<1>11. LiveRealized(g, Books) = 0
  <2>1. {i \in DOMAIN fills \ Executions(g) :
           fills[i].inLive /\ fills[i].pair \in LedgerPairs(g) /\ fills[i].pair[1] \in Books} = {}
    OBVIOUS
  <2> QED BY <2>1, SumsEmpty DEF LiveRealized
<1>12. RealizedTotal(Executions(g)) \in Int
  BY RealizedType
<1>13. SumOver(e, K) \in Int
  BY <1>1, <1>6, SumStep
<1> QED BY <1>5, <1>7, <1>9, <1>10, <1>11, <1>12, <1>13 DEF IntradayTotal, IntradayRealized

LEMMA CombosStay == ASSUME FiguresInv PROVE ComboCountedOnce
<1> SUFFICES ASSUME NEW g \in Tagged,
                    {i \in DOMAIN fills : fills[i].role # "plain"} \cap Executions(g)
                      \in {{}, {i \in DOMAIN fills : fills[i].role # "plain"}}
             PROVE  RealizedTotal(Executions(g)) = Pnl({i \in Executions(g) : fills[i].role # "summary"})
  BY DEF ComboCountedOnce
<1> DEFINE S == Executions(g)
           plain == {i \in S : fills[i].role = "plain"}
           legs == {i \in DOMAIN fills : fills[i].role = "leg"}
           sums == {i \in DOMAIN fills : fills[i].role = "summary"}
<1>0. /\ S \subseteq DOMAIN fills /\ FiguresTyped
      /\ \A i \in DOMAIN fills : fills[i].role \in {"plain", "leg", "summary"}
  BY SignedType DEF Executions, FillRows, FiguresInv
<1>1. CASE S \cap {i \in DOMAIN fills : fills[i].role # "plain"} = {}
  <2>1. {i \in S : fills[i].role = "summary"} = {} /\ {i \in S : fills[i].role # "summary"} = S
    BY <1>0, <1>1
  <2> QED BY <2>1 DEF RealizedTotal
<1>2. CASE {i \in DOMAIN fills : fills[i].role # "plain"} \subseteq S
  <2>1. /\ {i \in S : fills[i].role = "summary"} = sums
        /\ {i \in S : fills[i].role # "leg"} = plain \cup sums
        /\ {i \in S : fills[i].role # "summary"} = plain \cup legs
        /\ plain \cap sums = {} /\ plain \cap legs = {}
        /\ plain \subseteq DOMAIN fills
    BY <1>0, <1>2
  <2>2. Pnl(sums) = Pnl(legs)
    BY DEF FiguresInv, SummariesSpeak
  <2>3. sums \in SUBSET DOMAIN fills /\ legs \in SUBSET DOMAIN fills /\ plain \in SUBSET DOMAIN fills
    BY <2>1
  <2> HIDE DEF sums, legs, plain
  <2>4. Pnl(plain \cup sums) = Pnl(plain) + Pnl(sums) /\ Pnl(plain \cup legs) = Pnl(plain) + Pnl(legs)
    BY <1>0, <2>1, <2>3, SumsSplit
  <2>5. CASE sums # {}
    <3>1. RealizedTotal(S) = Pnl(plain \cup sums)
      BY <2>1, <2>5 DEF RealizedTotal
    <3> QED BY <2>1, <2>2, <2>4, <3>1
  <2>6. CASE sums = {}
    <3>1. RealizedTotal(S) = Pnl(S)
      BY <2>1, <2>6 DEF RealizedTotal
    <3>2. S = plain \cup legs
      BY <1>0, <2>1, <2>6
    <3> QED BY <2>1, <3>1, <3>2
  <2> QED BY <2>5, <2>6
<1> QED BY <1>1, <1>2

-----------------------------------------------------------------------------
LotRows == [qty : Int, group : Groupings]
LotTotal(lots) == SumOver([i \in DOMAIN lots |-> lots[i].qty], DOMAIN lots)
OneSided(lots) == \/ \A i \in DOMAIN lots : lots[i].qty > 0
                  \/ \A i \in DOMAIN lots : lots[i].qty < 0

LEMMA LotTotals ==
  ASSUME NEW lots \in Seq(LotRows)
  PROVE  /\ DOMAIN lots = 1 .. Len(lots) /\ Len(lots) \in Nat /\ IsFiniteSet(DOMAIN lots)
         /\ \A i \in DOMAIN lots : lots[i] \in LotRows /\ lots[i].qty \in Int
         /\ LotTotal(lots) \in Int
<1>1. DOMAIN lots = 1 .. Len(lots) /\ Len(lots) \in Nat /\ \A i \in DOMAIN lots : lots[i] \in LotRows
  OBVIOUS
<1>2. IsFiniteSet(DOMAIN lots) /\ \A i \in DOMAIN lots : lots[i].qty \in Int
  <2>1. IsFiniteSet(1 .. Len(lots))
    BY <1>1, FS_Interval
  <2> QED BY <1>1, <2>1 DEF LotRows
<1> DEFINE f == [i \in DOMAIN lots |-> lots[i].qty]
<1>3. \A i \in DOMAIN lots : f[i] \in Int
  BY <1>2
<1> HIDE DEF f
<1>4. SumOver(f, DOMAIN lots) \in Int
  BY <1>2, <1>3, SumStep
<1> QED BY <1>1, <1>2, <1>4 DEF LotTotal, f

LEMMA LotAppended ==
  ASSUME NEW lots \in Seq(LotRows), NEW e \in LotRows
  PROVE  /\ Append(lots, e) \in Seq(LotRows)
         /\ LotTotal(Append(lots, e)) = LotTotal(lots) + e.qty
<1> DEFINE n == Len(lots)
           f == [i \in DOMAIN lots |-> lots[i].qty]
           more == Append(lots, e)
           g == [i \in DOMAIN more |-> more[i].qty]
<1>1. /\ n \in Nat /\ DOMAIN lots = 1 .. n /\ IsFiniteSet(DOMAIN lots)
      /\ \A i \in DOMAIN lots : f[i] \in Int
      /\ LotTotal(lots) \in Int
  BY LotTotals
<1>2. /\ more \in Seq(LotRows) /\ Len(more) = n + 1
      /\ \A i \in 1 .. n : more[i] = lots[i]
      /\ more[n + 1] = e
  BY AppendProperties
<1> HIDE DEF more
<1>3. /\ DOMAIN more = DOMAIN lots \cup {n + 1} /\ n + 1 \notin DOMAIN lots
      /\ \A i \in DOMAIN lots \cup {n + 1} : g[i] \in Int
      /\ \A i \in DOMAIN lots : g[i] = f[i]
      /\ g[n + 1] = e.qty
  <2>1. DOMAIN more = 1 .. n + 1 /\ e.qty \in Int
    BY <1>2 DEF LotRows
  <2>2. 1 .. n + 1 = 1 .. n \cup {n + 1} /\ n + 1 \notin 1 .. n
    BY <1>1
  <2> HIDE DEF n
  <2> QED BY <1>1, <1>2, <2>1, <2>2
<1>4. LotTotal(more) = SumOver(g, DOMAIN lots \cup {n + 1}) /\ LotTotal(lots) = SumOver(f, DOMAIN lots)
  BY <1>3 DEF LotTotal
<1> HIDE DEF f, g, n
<1>5. SumOver(g, DOMAIN lots \cup {n + 1}) = g[n + 1] + SumOver(g, DOMAIN lots)
  BY <1>1, <1>3, SumMore
<1>6. SumOver(g, DOMAIN lots) = SumOver(f, DOMAIN lots)
  BY <1>1, <1>3, SumSame
<1>7. e.qty \in Int
  BY DEF LotRows
<1> QED BY <1>1, <1>2, <1>3, <1>4, <1>5, <1>6, <1>7 DEF more

\* Only the first differs.
LEMMA LotReplaced ==
  ASSUME NEW s \in Seq(LotRows), NEW t \in Seq(LotRows), Len(s) = Len(t), s # <<>>,
         \A i \in 2 .. Len(s) : s[i] = t[i]
  PROVE  LotTotal(t) = LotTotal(s) - s[1].qty + t[1].qty
<1> DEFINE n == Len(s)
           f == [i \in DOMAIN s |-> s[i].qty]
           g == [i \in DOMAIN t |-> t[i].qty]
<1>1. /\ n \in Nat \ {0} /\ DOMAIN s = 1 .. n /\ DOMAIN t = 1 .. n /\ IsFiniteSet(1 .. n)
      /\ \A i \in 1 .. n : f[i] \in Int /\ g[i] \in Int
  BY LotTotals
<1>2. 1 \in 1 .. n /\ \A i \in (1 .. n) \ {1} : f[i] = g[i]
  BY <1>1
<1>3. /\ LotTotal(s) = SumOver(f, 1 .. n) /\ LotTotal(t) = SumOver(g, 1 .. n)
      /\ f[1] = s[1].qty /\ g[1] = t[1].qty
  BY <1>1 DEF LotTotal
<1> DEFINE I == 1 .. n
           J == I \ {1}
<1> HIDE DEF f, g, n, I, J
<1>4. IsFiniteSet(I) /\ IsFiniteSet(J) /\ J \subseteq I
  BY <1>1, FS_Subset DEF I, J
<1>5. SumOver(f, I) = f[1] + SumOver(f, J) /\ SumOver(g, I) = g[1] + SumOver(g, J)
  <2>1. SumOver(f, I) = f[1] + SumOver(f, I \ {1}) /\ SumOver(g, I) = g[1] + SumOver(g, I \ {1})
    <3>1. \A i \in I : f[i] \in Int /\ g[i] \in Int
      BY <1>1 DEF I
    <3>2. 1 \in I
      BY <1>2 DEF I
    <3> QED BY <1>4, <3>1, <3>2, SumStep
  <2> QED BY <2>1 DEF J
<1>6. SumOver(f, J) = SumOver(g, J)
  BY <1>2, <1>4, SumSame DEF I, J
<1>7. SumOver(f, J) \in Int /\ SumOver(f, I) = LotTotal(s) /\ SumOver(g, I) = LotTotal(t)
  <2>1. \A i \in J : f[i] \in Int
    BY <1>1, <1>4 DEF I
  <2>2. SumOver(f, J) \in Int
    BY <1>4, <2>1, SumStep
  <2> QED BY <1>3, <2>2 DEF I
<1> QED BY <1>1, <1>2, <1>3, <1>5, <1>6, <1>7

LEMMA LotSuffix ==
  ASSUME NEW lots \in Seq(LotRows), NEW k \in 0 .. Len(lots)
  PROVE  LET rest == SubSeq(lots, k + 1, Len(lots))
             f == [i \in DOMAIN lots |-> lots[i].qty]
         IN /\ rest \in Seq(LotRows) /\ Len(rest) = Len(lots) - k
            /\ \A i \in 1 .. Len(lots) - k : rest[i] = lots[k + i]
            /\ LotTotal(lots) = SumOver(f, 1 .. k) + LotTotal(rest)
            /\ SumOver(f, 1 .. k) \in Int
<1> DEFINE n == Len(lots)
           rest == SubSeq(lots, k + 1, n)
           f == [i \in DOMAIN lots |-> lots[i].qty]
           g == [i \in DOMAIN rest |-> rest[i].qty]
           b == [i \in 1 .. n - k |-> k + i]
           I == 1 .. n - k
           R == k + 1 .. n
<1>1. /\ n \in Nat /\ k \in Nat /\ k <= n /\ DOMAIN lots = 1 .. n /\ IsFiniteSet(1 .. n)
      /\ \A i \in 1 .. n : lots[i] \in LotRows /\ f[i] \in Int
  BY LotTotals
<1>2. /\ rest \in Seq(LotRows) /\ Len(rest) = n - k
      /\ \A i \in 1 .. n - k : rest[i] = lots[k + i]
  <2>1. \A i \in k + 1 .. n : lots[i] \in LotRows
    BY <1>1
  <2>2. /\ SubSeq(lots, k + 1, n) \in Seq(LotRows)
        /\ Len(SubSeq(lots, k + 1, n)) = IF k + 1 <= n THEN n - (k + 1) + 1 ELSE 0
        /\ \A i \in 1 .. n - (k + 1) + 1 : SubSeq(lots, k + 1, n)[i] = lots[k + 1 + i - 1]
    <3>1. k + 1 \in Int /\ n \in Int
      BY <1>1
    <3> HIDE DEF n
    <3> QED BY <2>1, <3>1, SubSeqProperties
  <2>3. n - (k + 1) + 1 = n - k /\ (k + 1 <= n \/ n - k = 0)
    <3>1. n \in Int /\ k \in Int /\ k <= n
      BY <1>1
    <3> HIDE DEF n
    <3> QED BY <3>1
  <2>4. ASSUME NEW i \in 1 .. n - k PROVE rest[i] = lots[k + i]
    <3>1. k + 1 + i - 1 = k + i /\ i \in 1 .. n - (k + 1) + 1
      BY <1>1
    <3>2. rest[i] = lots[k + 1 + i - 1]
      BY <2>2, <3>1
    <3> QED BY <3>1, <3>2
  <2> QED BY <2>2, <2>3, <2>4
<1> HIDE DEF rest
<1>3. /\ IsFiniteSet(I) /\ \A i \in I : g[i] \in Int /\ f[b[i]] = g[i]
      /\ \A i, j \in I : b[i] = b[j] => i = j
      /\ {b[i] : i \in I} = R /\ DOMAIN rest = I
  <2>1. DOMAIN rest = I /\ IsFiniteSet(I)
    <3>1. n - k \in Int
      BY <1>1
    <3>2. IsFiniteSet(I)
      BY <3>1, FS_Interval
    <3>3. DOMAIN rest = 1 .. Len(rest)
      BY <1>2
    <3> QED BY <1>2, <3>2, <3>3
  <2>2. \A i \in I : k + i \in 1 .. n /\ g[i] = rest[i].qty /\ b[i] = k + i /\ k + i \in R
    BY <1>1, <2>1
  <2>3. \A j \in R : j - k \in I /\ k + (j - k) = j
    BY <1>1
  <2>4. \A i, j \in I : k + i = k + j => i = j
    BY <1>1
  <2> HIDE DEF n, R
  <2>5. \A i \in I : g[i] \in Int /\ f[b[i]] = g[i]
    BY <1>1, <1>2, <2>2
  <2> HIDE DEF b, I
  <2> QED BY <2>1, <2>2, <2>3, <2>4, <2>5
<1>4. /\ 1 .. n = (1 .. k) \cup R /\ (1 .. k) \cap R = {} /\ IsFiniteSet(1 .. k) /\ IsFiniteSet(R)
  <2>1. IsFiniteSet(1 .. k) /\ IsFiniteSet(R)
    BY <1>1, FS_Interval
  <2>2. 1 .. n = (1 .. k) \cup R /\ (1 .. k) \cap R = {}
    BY <1>1
  <2> QED BY <2>1, <2>2
<1>5. LotTotal(lots) = SumOver(f, 1 .. n) /\ LotTotal(rest) = SumOver(g, I)
  BY <1>1, <1>3 DEF LotTotal
<1> HIDE DEF f, g, b, I, R, n
<1>6. SumOver(g, I) = SumOver(f, {b[i] : i \in I})
  BY <1>3, SumRenamed
<1>7. SumOver(f, {b[i] : i \in I}) = SumOver(f, R)
  BY <1>3, Zenon
<1>8. SumOver(f, (1 .. k) \cup R) = SumOver(f, 1 .. k) + SumOver(f, R)
  BY <1>1, <1>4, SumSplit
<1>9. SumOver(f, 1 .. n) = SumOver(f, (1 .. k) \cup R)
  BY <1>4, Zenon
<1>10. SumOver(f, 1 .. k) \in Int
  BY <1>1, <1>4, SumStep
<1>11. LotTotal(lots) = SumOver(f, 1 .. k) + LotTotal(rest)
  BY <1>5, <1>6, <1>7, <1>8, <1>9
<1> QED BY <1>2, <1>10, <1>11 DEF n, rest, f

LEMMA FifoKeeps ==
  ASSUME NEW lots \in Seq(LotRows), OneSided(lots), NEW f, f.qty \in Int, f.group \in Groupings
  PROVE  /\ FifoMatched(lots, f) \in Seq(LotRows) /\ OneSided(FifoMatched(lots, f))
         /\ LotTotal(FifoMatched(lots, f)) = LotTotal(lots) + f.qty
<1> DEFINE n == Len(lots)
           h == [i \in DOMAIN lots |-> lots[i].qty]
           u == [i \in DOMAIN lots |-> Abs(lots[i].qty)]
           covered(k) == SumOver(u, 1 .. k)
           opposite == lots # <<>> /\ lots[1].qty * f.qty < 0
           Few == {k \in 0 .. n : covered(k) <= Abs(f.qty)}
           gone == IF opposite THEN Max(Few) ELSE 0
           over == Abs(f.qty) - (IF opposite THEN covered(gone) ELSE 0)
           rest == SubSeq(lots, gone + 1, n)
           opened == [qty |-> IF f.qty > 0 THEN over ELSE -over, group |-> f.group]
           cut == <<[rest[1] EXCEPT !.qty = IF @ > 0 THEN @ - over ELSE @ + over]>> \o Tail(rest)
<1>1. /\ n \in Nat /\ DOMAIN lots = 1 .. n /\ IsFiniteSet(1 .. n)
      /\ \A i \in 1 .. n : lots[i].qty \in Int /\ h[i] = lots[i].qty /\ u[i] = Abs(h[i]) /\ u[i] \in Int
      /\ LotTotal(lots) \in Int /\ Abs(f.qty) \in Nat
  <2>1. /\ n \in Nat /\ DOMAIN lots = 1 .. n /\ IsFiniteSet(1 .. n)
        /\ \A i \in 1 .. n : lots[i].qty \in Int
        /\ LotTotal(lots) \in Int
    BY LotTotals
  <2>2. \A x \in Int : Abs(x) \in Nat
    BY DEF Abs
  <2>3. \A i \in DOMAIN lots : h[i] = lots[i].qty /\ u[i] = Abs(h[i])
    OBVIOUS
  <2> HIDE DEF n, h, u
  <2>4. ASSUME NEW i \in 1 .. n
        PROVE  lots[i].qty \in Int /\ h[i] = lots[i].qty /\ u[i] = Abs(h[i]) /\ u[i] \in Int
    <3>1. u[i] \in Nat
      BY <2>1, <2>2, <2>3
    <3>2. lots[i].qty \in Int
      BY <2>1
    <3>3. h[i] = lots[i].qty /\ u[i] = Abs(h[i])
      BY <2>1, <2>3
    <3> QED BY <3>1, <3>2, <3>3
  <2> QED BY <2>1, <2>2, <2>4
<1>2. FifoMatched(lots, f) = IF over = 0 THEN rest ELSE IF opposite /\ rest # <<>> THEN cut ELSE Append(rest, opened)
  BY DEF FifoMatched
<1>3. ASSUME NEW k \in 0 .. n
      PROVE  /\ covered(k) = Abs(SumOver(h, 1 .. k)) /\ SumOver(h, 1 .. k) \in Int
             /\ (\A i \in 1 .. n : h[i] > 0) => SumOver(h, 1 .. k) >= 0
             /\ (\A i \in 1 .. n : h[i] < 0) => SumOver(h, 1 .. k) <= 0
             /\ covered(k) \in Nat
  <2> DEFINE K == 1 .. k
             v == [i \in K |-> Abs(h[i])]
  <2>0. IsFiniteSet(K)
    BY FS_Interval
  <2>1. K \subseteq 1 .. n /\ IsFiniteSet(K)
    BY <1>1, <2>0
  <2>2. \A i \in K : v[i] = u[i] /\ h[i] \in Int
    BY <1>1, <2>1
  <2>3. (\A i \in 1 .. n : h[i] > 0) \/ (\A i \in 1 .. n : h[i] < 0)
    BY <1>1 DEF OneSided
  <2> HIDE DEF K, h
  <2>4. (\A i \in K : h[i] >= 0) \/ (\A i \in K : h[i] <= 0)
    <3> HIDE DEF n
    <3>1. ASSUME \A i \in 1 .. n : h[i] > 0, NEW i \in K PROVE h[i] >= 0
      <4>1. i \in 1 .. n
        BY <2>1
      <4>2. h[i] > 0
        BY <3>1, <4>1
      <4>3. h[i] \in Int
        BY <2>2
      <4> QED BY <4>2, <4>3
    <3>2. ASSUME \A i \in 1 .. n : h[i] < 0, NEW i \in K PROVE h[i] <= 0
      <4>1. i \in 1 .. n
        BY <2>1
      <4>2. h[i] < 0
        BY <3>2, <4>1
      <4>3. h[i] \in Int
        BY <2>2
      <4> QED BY <4>2, <4>3
    <3> QED BY <2>3, <3>1, <3>2
  <2>5. /\ SumOver(v, K) = Abs(SumOver(h, K))
        /\ (\A i \in K : h[i] >= 0) => SumOver(h, K) >= 0
        /\ (\A i \in K : h[i] <= 0) => SumOver(h, K) <= 0
    BY <2>1, <2>2, <2>4, SumAbs
  <2> HIDE DEF v, u
  <2>6. SumOver(v, K) = SumOver(u, K)
    BY <2>1, <2>2, SumSame
  <2>7. SumOver(h, K) \in Int
    BY <2>1, <2>2, SumStep
  <2>8. covered(k) = Abs(SumOver(h, K))
    BY <2>5, <2>6 DEF K
  <2>9. Abs(SumOver(h, K)) \in Nat
    BY <2>7 DEF Abs
  <2>10. /\ (\A i \in 1 .. n : h[i] > 0) => \A i \in K : h[i] >= 0
         /\ (\A i \in 1 .. n : h[i] < 0) => \A i \in K : h[i] <= 0
    <3> HIDE DEF n
    <3>1. \A i \in K : i \in 1 .. n /\ h[i] \in Int
      BY <2>1, <2>2
    <3> QED BY <3>1
  <2> QED BY <2>5, <2>7, <2>8, <2>9, <2>10 DEF K
<1> HIDE DEF u, h
<1>4. covered(0) = 0
  <2>1. 1 .. 0 = {}
    OBVIOUS
  <2> QED BY <2>1, SumEmpty
<1>5. ASSUME opposite PROVE gone \in Few /\ \A k \in Few : k <= gone
  <2>1. Few \subseteq 0 .. n /\ 0 \in Few
    BY <1>1, <1>4
  <2>2. IsFiniteSet(0 .. n) /\ 0 .. n \subseteq Nat
    BY <1>1, FS_Interval
  <2>3. gone = Max(Few)
    BY <1>5
  <2>4. Few \in SUBSET Nat /\ Few # {} /\ IsFiniteSet(Few)
    <3> HIDE DEF Few
    <3> QED BY <2>1, <2>2, FS_Subset
  <2> HIDE DEF Few, gone
  <2>5. \E k \in Few : \A m \in Few : k >= m
    BY <2>4, HighestOf
  <2>6. Max(Few) \in Few /\ \A k \in Few : Max(Few) >= k
    BY <2>5 DEF Max
  <2> QED BY <2>3, <2>6
<1> HIDE DEF covered
<1>6. gone \in 0 .. n /\ over \in Nat /\ Abs(f.qty) = over + covered(gone)
  <2>1. CASE opposite
    <3>1. gone \in 0 .. n /\ covered(gone) <= Abs(f.qty)
      BY <1>5, <2>1
    <3>2. over = Abs(f.qty) - covered(gone)
      BY <2>1
    <3> HIDE DEF gone, over
    <3> QED BY <1>1, <1>3, <3>1, <3>2
  <2>2. CASE ~opposite
    BY <1>1, <1>4, <2>2
  <2> QED BY <2>1, <2>2
<1>7. /\ rest \in Seq(LotRows) /\ Len(rest) = n - gone
      /\ \A i \in 1 .. n - gone : rest[i] = lots[gone + i]
      /\ LotTotal(lots) = SumOver(h, 1 .. gone) + LotTotal(rest)
      /\ SumOver(h, 1 .. gone) \in Int
  <2> HIDE DEF gone
  <2> QED BY <1>6, LotSuffix DEF h
<1>8. /\ DOMAIN rest = 1 .. n - gone /\ LotTotal(rest) \in Int
      /\ \A i \in 1 .. n - gone : gone + i \in 1 .. n /\ rest[i].qty = h[gone + i] /\ rest[i] \in LotRows
  <2> HIDE DEF gone, rest
  <2> QED BY <1>1, <1>6, <1>7, LotTotals
<1>9. (\A i \in 1 .. n : h[i] > 0) \/ (\A i \in 1 .. n : h[i] < 0)
  BY <1>1 DEF OneSided
<1>10. OneSided(rest)
  <2> HIDE DEF gone, rest
  <2> QED BY <1>8, <1>9 DEF OneSided
<1>11. CASE ~opposite
  <2>1. gone = 0 /\ over = Abs(f.qty)
    BY <1>1, <1>11
  <2>2. LotTotal(rest) = LotTotal(lots)
    <3>1. SumOver(h, 1 .. 0) = 0
      <4>1. 1 .. 0 = {}
        OBVIOUS
      <4> QED BY <4>1, SumEmpty
    <3> HIDE DEF rest, gone
    <3> QED BY <1>7, <1>8, <2>1, <3>1
  <2>3. CASE over = 0
    <3>2. f.qty = 0
      <4>1. Abs(f.qty) = 0
        BY <2>1, <2>3
      <4> QED BY <4>1 DEF Abs
    <3>1. f.qty = 0 /\ FifoMatched(lots, f) = rest
      BY <1>2, <2>3, <3>2
    <3> QED BY <1>1, <1>7, <1>10, <2>2, <3>1
  <2>4. CASE over # 0
    <3>1. FifoMatched(lots, f) = Append(rest, opened)
      BY <1>2, <1>11, <2>4
    <3>2. opened \in LotRows /\ opened.qty = f.qty /\ f.qty # 0
      BY <2>1, <2>4 DEF Abs, LotRows
    <3>3. \A i \in 1 .. n : h[i] * f.qty > 0
      <4>1. ASSUME NEW i \in 1 .. n PROVE ~(h[1] * f.qty < 0) /\ 1 \in 1 .. n
        <5>1. lots # <<>> /\ 1 \in 1 .. n
          BY <1>1
        <5> QED BY <1>1, <1>11, <5>1
      <4>2. \A x \in Int, y \in Int : ~(x * y < 0) => x = 0 \/ y = 0 \/ (x > 0 /\ y > 0) \/ (x < 0 /\ y < 0)
        OBVIOUS
      <4>3. \A x \in Int, y \in Int : (x > 0 /\ y > 0) \/ (x < 0 /\ y < 0) => x * y > 0
        OBVIOUS
      <4>4. ASSUME NEW i \in 1 .. n PROVE h[i] * f.qty > 0
        <5> HIDE DEF n, over, gone, opened, rest
        <5>1. h[1] \in Int /\ h[i] \in Int /\ 1 \in 1 .. n /\ h[1] # 0
          BY <1>1, <1>9, <4>1
        <5>2. (h[1] > 0 /\ f.qty > 0) \/ (h[1] < 0 /\ f.qty < 0)
          BY <3>2, <4>1, <4>2, <5>1
        <5>3. (h[i] > 0 /\ f.qty > 0) \/ (h[i] < 0 /\ f.qty < 0)
          BY <1>9, <5>1, <5>2
        <5> QED BY <4>3, <5>1, <5>3
      <4> QED BY <4>4
    <3>4. \A i \in DOMAIN rest : rest[i].qty * f.qty > 0
      <4> HIDE DEF rest, gone
      <4> QED BY <1>8, <3>3
    <3> HIDE DEF rest, opened, over, gone, opposite
    <3>5. /\ Append(rest, opened) \in Seq(LotRows)
          /\ LotTotal(Append(rest, opened)) = LotTotal(rest) + f.qty
      BY <1>7, <3>2, LotAppended
    <3>6. OneSided(Append(rest, opened))
      <4>1. \A x \in Int, y \in Int : x * y > 0 => (x > 0 /\ y > 0) \/ (x < 0 /\ y < 0)
        OBVIOUS
      <4>2. \A i \in DOMAIN rest : rest[i].qty \in Int
        BY <1>7, LotTotals
      <4>3. \A i \in DOMAIN Append(rest, opened) :
              Append(rest, opened)[i] = opened \/ (i \in DOMAIN rest /\ Append(rest, opened)[i] = rest[i])
        BY <1>7, <3>2, AppendProperties, LenProperties
      <4>4. (f.qty > 0 /\ \A i \in DOMAIN rest : rest[i].qty > 0) \/ (f.qty < 0 /\ \A i \in DOMAIN rest : rest[i].qty < 0)
        BY <3>2, <3>4, <4>1, <4>2
      <4> QED BY <3>2, <4>3, <4>4 DEF OneSided
    <3> QED BY <2>2, <3>1, <3>5, <3>6
  <2> QED BY <2>3, <2>4
<1>12. CASE opposite
  <2>1. covered(gone) = Abs(SumOver(h, 1 .. gone))
    <3> HIDE DEF gone
    <3> QED BY <1>3, <1>6
  <2>2. /\ lots # <<>> /\ 1 \in 1 .. n /\ f.qty # 0
        /\ (\A i \in 1 .. n : h[i] > 0) => f.qty < 0 /\ SumOver(h, 1 .. gone) >= 0
        /\ (\A i \in 1 .. n : h[i] < 0) => f.qty > 0 /\ SumOver(h, 1 .. gone) <= 0
    <3>1. lots # <<>> /\ 1 \in 1 .. n /\ h[1] * f.qty < 0 /\ h[1] \in Int
      BY <1>1, <1>12
    <3>2. \A x \in Int, y \in Int : x * y < 0 => (x > 0 /\ y < 0) \/ (x < 0 /\ y > 0)
      OBVIOUS
    <3>3. (h[1] > 0 /\ f.qty < 0) \/ (h[1] < 0 /\ f.qty > 0)
      BY <3>1, <3>2
    <3>4. /\ (\A i \in 1 .. n : h[i] > 0) => SumOver(h, 1 .. gone) >= 0
          /\ (\A i \in 1 .. n : h[i] < 0) => SumOver(h, 1 .. gone) <= 0
      <4> HIDE DEF gone
      <4> QED BY <1>3, <1>6
    <3> HIDE DEF gone, opposite
    <3> QED BY <3>1, <3>3, <3>4
  <2>3. gone < n => covered(gone + 1) > Abs(f.qty) /\ covered(gone + 1) = covered(gone) + Abs(h[gone + 1])
    <3> SUFFICES ASSUME gone < n
                 PROVE  covered(gone + 1) > Abs(f.qty) /\ covered(gone + 1) = covered(gone) + Abs(h[gone + 1])
      OBVIOUS
    <3>1. gone + 1 \in 0 .. n /\ gone \in Nat /\ gone + 1 \in 1 .. n
      <4> HIDE DEF gone
      <4> QED BY <1>1, <1>6
    <3>2. gone + 1 \notin Few
      <4>1. \A k \in Few : k <= gone
        BY <1>5, <1>12
      <4> HIDE DEF gone, Few
      <4> QED BY <3>1, <4>1
    <3>3. ~(covered(gone + 1) <= Abs(f.qty)) /\ covered(gone + 1) \in Nat
      <4> HIDE DEF gone
      <4> QED BY <1>3, <3>1, <3>2
    <3>4. covered(gone + 1) = covered(gone) + Abs(h[gone + 1])
      <4> HIDE DEF gone
      <4> DEFINE K == 1 .. gone
      <4>1. 1 .. gone + 1 = K \cup {gone + 1} /\ gone + 1 \notin K
        BY <3>1
      <4>2. IsFiniteSet(K) /\ \A i \in K \cup {gone + 1} : u[i] \in Int
        <5>1. \A i \in 1 .. gone + 1 : i \in 1 .. n
          BY <1>1, <3>1
        <5>2. IsFiniteSet(K)
          BY <3>1, FS_Interval
        <5> QED BY <1>1, <4>1, <5>1, <5>2
      <4>3. u[gone + 1] = Abs(h[gone + 1])
        BY <1>1, <3>1
      <4> HIDE DEF K
      <4>4. SumOver(u, K \cup {gone + 1}) = u[gone + 1] + SumOver(u, K)
        BY <4>1, <4>2, SumMore
      <4>5. SumOver(u, K) \in Int /\ u[gone + 1] \in Int
        BY <4>2, SumStep
      <4>6. SumOver(u, 1 .. gone + 1) = SumOver(u, K \cup {gone + 1})
        BY <4>1, Zenon
      <4> QED BY <4>3, <4>4, <4>5, <4>6 DEF covered, K
    <3> QED BY <1>1, <3>3, <3>4
  <2>4. /\ f.qty > 0 => SumOver(h, 1 .. gone) = -covered(gone) /\ f.qty = over + covered(gone)
        /\ f.qty < 0 => SumOver(h, 1 .. gone) = covered(gone) /\ -f.qty = over + covered(gone)
        /\ covered(gone) \in Int
    <3>1. /\ SumOver(h, 1 .. gone) \in Int /\ Abs(f.qty) = over + covered(gone)
          /\ (f.qty > 0 /\ SumOver(h, 1 .. gone) <= 0) \/ (f.qty < 0 /\ SumOver(h, 1 .. gone) >= 0)
      BY <1>6, <1>7, <1>9, <2>2
    <3> HIDE DEF gone, over
    <3>2. Abs(SumOver(h, 1 .. gone)) \in Int
      BY <3>1 DEF Abs
    <3> QED BY <2>1, <3>1, <3>2 DEF Abs
  <2>5. LotTotal(rest) = LotTotal(lots) - SumOver(h, 1 .. gone)
    <3> HIDE DEF rest, gone
    <3> QED BY <1>7, <1>8
  <2>6. CASE over = 0
    <3>1. FifoMatched(lots, f) = rest
      BY <1>2, <2>6
    <3>2. SumOver(h, 1 .. gone) = -f.qty
      <4> HIDE DEF gone, over
      <4> QED BY <2>2, <2>4, <2>6
    <3>3. LotTotal(rest) = LotTotal(lots) + f.qty
      <4> HIDE DEF gone, rest
      <4> QED BY <1>1, <2>5, <3>2
    <3> HIDE DEF rest
    <3> QED BY <1>7, <1>10, <3>1, <3>3
  <2>7. CASE over # 0 /\ rest = <<>>
    <3>1. FifoMatched(lots, f) = Append(rest, opened)
      BY <1>2, <2>7
    <3> HIDE DEF rest
    <3>2. gone = n
      BY <1>1, <1>6, <1>7, <2>7
    <3>3. opened \in LotRows /\ opened.qty = (IF f.qty > 0 THEN over ELSE -over)
      BY <1>6 DEF LotRows
    <3>4. opened.qty # 0 /\ opened.qty \in Int /\ opened.qty = f.qty + SumOver(h, 1 .. gone)
      <4>1. over \in Nat /\ over # 0 /\ SumOver(h, 1 .. gone) \in Int /\ f.qty \in Int /\ f.qty # 0
        BY <1>6, <1>7, <2>2, <2>7
      <4> HIDE DEF gone, over, opened
      <4>2. CASE f.qty > 0
        BY <2>4, <3>3, <4>1, <4>2
      <4>3. CASE f.qty < 0
        BY <2>4, <3>3, <4>1, <4>3
      <4> QED BY <4>1, <4>2, <4>3
    <3> HIDE DEF opened, over, gone, opposite
    <3>5. /\ Append(rest, opened) \in Seq(LotRows)
          /\ LotTotal(Append(rest, opened)) = LotTotal(rest) + opened.qty
      BY <1>7, <3>3, LotAppended
    <3>6. LotTotal(Append(rest, opened)) = LotTotal(lots) + f.qty
      BY <1>1, <1>7, <1>8, <2>5, <3>4, <3>5
    <3>7. OneSided(Append(rest, opened))
      <4>1. Append(rest, opened) = <<opened>>
        BY <2>7
      <4> QED BY <3>4, <4>1 DEF OneSided
    <3> QED BY <3>1, <3>5, <3>6, <3>7
  <2>8. CASE over # 0 /\ rest # <<>>
    <3>1. FifoMatched(lots, f) = cut
      BY <1>2, <1>12, <2>8
    <3> DEFINE m == n - gone
               q1 == IF rest[1].qty > 0 THEN rest[1].qty - over ELSE rest[1].qty + over
               first == [rest[1] EXCEPT !.qty = q1]
    <3>2. gone < n /\ m \in Nat \ {0} /\ 1 \in 1 .. m
      <4> HIDE DEF gone, rest
      <4>1. Len(rest) \in Nat \ {0}
        BY <1>7, <2>8, EmptySeq
      <4>2. n \in Nat /\ gone \in 0 .. n /\ Len(rest) = n - gone
        BY <1>1, <1>6, <1>7
      <4> HIDE DEF n
      <4> QED BY <4>1, <4>2
    <3>3. /\ rest[1] \in LotRows /\ rest[1].qty \in Int /\ rest[1].qty = h[gone + 1]
          /\ Abs(rest[1].qty) > over
      <4> HIDE DEF gone, rest, over
      <4>1. rest[1] \in LotRows /\ rest[1].qty = h[gone + 1] /\ gone + 1 \in 1 .. n
        BY <1>8, <3>2
      <4>2. rest[1].qty \in Int /\ Abs(rest[1].qty) \in Int
        BY <4>1 DEF LotRows, Abs
      <4>3. covered(gone + 1) > Abs(f.qty) /\ covered(gone + 1) = covered(gone) + Abs(rest[1].qty)
        BY <2>3, <3>2, <4>1
      <4> QED BY <1>6, <2>4, <4>1, <4>2, <4>3
    <3>4. /\ q1 \in Int /\ first \in LotRows /\ first.qty = q1
          /\ rest[1].qty > 0 => q1 > 0 /\ q1 = rest[1].qty - over
          /\ rest[1].qty < 0 => q1 < 0 /\ q1 = rest[1].qty + over
          /\ rest[1].qty > 0 \/ rest[1].qty < 0
      <4> HIDE DEF gone, rest, over
      <4>1. /\ q1 \in Int
            /\ rest[1].qty > 0 => q1 > 0 /\ q1 = rest[1].qty - over
            /\ rest[1].qty < 0 => q1 < 0 /\ q1 = rest[1].qty + over
            /\ rest[1].qty > 0 \/ rest[1].qty < 0
        BY <1>6, <3>3, <2>8 DEF Abs
      <4> HIDE DEF q1
      <4>2. first \in LotRows /\ first.qty = q1
        BY <3>3, <4>1 DEF LotRows
      <4> QED BY <4>1, <4>2
    <3>5. cut = <<first>> \o Tail(rest)
      OBVIOUS
    <3> HIDE DEF cut, first, q1, rest
    <3>6. /\ cut \in Seq(LotRows) /\ Len(cut) = Len(rest) /\ cut[1] = first
          /\ \A i \in 2 .. Len(rest) : cut[i] = rest[i]
      <4>1. /\ Tail(rest) \in Seq(LotRows) /\ Len(Tail(rest)) = Len(rest) - 1
            /\ \A i \in 1 .. Len(Tail(rest)) : Tail(rest)[i] = rest[i + 1]
        BY <1>7, <2>8, HeadTailProperties
      <4>2. <<first>> \in Seq(LotRows) /\ Len(<<first>>) = 1 /\ <<first>>[1] = first
        BY <3>4
      <4>3. /\ cut \in Seq(LotRows) /\ Len(cut) = 1 + Len(Tail(rest))
            /\ \A i \in 1 .. 1 + Len(Tail(rest)) :
                 cut[i] = IF i <= 1 THEN <<first>>[i] ELSE Tail(rest)[i - 1]
        BY <3>5, <4>1, <4>2, ConcatProperties
      <4>4. Len(rest) \in Nat \ {0}
        <5> HIDE DEF gone
        <5> QED BY <1>7, <3>2
      <4>5. ASSUME NEW i \in 2 .. Len(rest) PROVE cut[i] = rest[i]
        <5>1. i \in 1 .. 1 + Len(Tail(rest)) /\ ~(i <= 1) /\ i - 1 \in 1 .. Len(Tail(rest)) /\ i - 1 + 1 = i
          BY <4>1, <4>4
        <5>2. cut[i] = Tail(rest)[i - 1]
          BY <4>3, <5>1
        <5>3. Tail(rest)[i - 1] = rest[i - 1 + 1]
          BY <4>1, <5>1
        <5> QED BY <5>1, <5>2, <5>3
      <4>6. cut[1] = first
        BY <4>1, <4>2, <4>3, <4>4
      <4> QED BY <4>1, <4>3, <4>4, <4>5, <4>6
    <3>7. LotTotal(cut) = LotTotal(rest) - rest[1].qty + q1
      <4>1. LotTotal(cut) = LotTotal(rest) - rest[1].qty + cut[1].qty
        BY <1>7, <2>8, <3>6, LotReplaced
      <4> QED BY <3>4, <3>6, <4>1
    <3>8. /\ (\A i \in 1 .. n : h[i] > 0) => rest[1].qty > 0
          /\ (\A i \in 1 .. n : h[i] < 0) => rest[1].qty < 0
      <4>1. gone + 1 \in 1 .. n
        <5> HIDE DEF gone
        <5> QED BY <1>8, <3>2
      <4> QED BY <3>3, <4>1
    <3>9. LotTotal(cut) = LotTotal(lots) + f.qty
      <4> HIDE DEF gone, over, opposite
      <4>1. /\ LotTotal(lots) \in Int /\ LotTotal(rest) \in Int /\ over \in Nat
            /\ SumOver(h, 1 .. gone) \in Int /\ rest[1].qty \in Int
        BY <1>1, <1>6, <1>7, <1>8, <3>3
      <4>2. CASE f.qty < 0 /\ rest[1].qty > 0
        <5>1. LotTotal(cut) = LotTotal(rest) - over
          <6>1. q1 = rest[1].qty - over /\ q1 \in Int
            BY <3>4, <4>2
          <6> QED BY <3>7, <4>1, <6>1
        <5>2. LotTotal(rest) = LotTotal(lots) - covered(gone) /\ covered(gone) \in Int
          BY <2>4, <2>5, <4>1, <4>2
        <5>3. f.qty = 0 - (over + covered(gone))
          BY <2>2, <2>4, <4>1, <4>2, <5>2
        <5> HIDE DEF covered, cut, rest
        <5> QED BY <2>2, <4>1, <5>1, <5>2, <5>3
      <4>3. CASE f.qty > 0 /\ rest[1].qty < 0
        <5>1. LotTotal(cut) = LotTotal(rest) + over
          <6>1. q1 = rest[1].qty + over /\ q1 \in Int
            BY <3>4, <4>3
          <6> QED BY <3>7, <4>1, <6>1
        <5>2. LotTotal(rest) = LotTotal(lots) + covered(gone) /\ covered(gone) \in Int
          BY <2>4, <2>5, <4>1, <4>3
        <5>3. f.qty = over + covered(gone)
          BY <2>2, <2>4, <4>1, <4>3, <5>2
        <5> HIDE DEF covered, cut, rest
        <5> QED BY <2>2, <4>1, <5>1, <5>2, <5>3
      <4> QED BY <1>9, <2>2, <3>8, <4>2, <4>3
    <3>10. OneSided(cut)
      <4>1. DOMAIN cut = DOMAIN rest /\ \A i \in DOMAIN rest : i = 1 \/ cut[i] = rest[i]
        <5>1. DOMAIN cut = 1 .. Len(rest) /\ DOMAIN rest = 1 .. Len(rest) /\ Len(rest) \in Nat
          BY <1>7, <3>6, LenProperties
        <5> QED BY <3>6, <5>1
      <4>2. 1 \in DOMAIN rest
        <5> HIDE DEF gone
        <5> QED BY <1>8, <3>2
      <4>3. cut[1].qty = q1
        BY <3>4, <3>6
      <4>4. CASE \A i \in DOMAIN rest : rest[i].qty > 0
        <5>1. \A i \in DOMAIN rest : cut[i].qty > 0
          BY <3>4, <4>1, <4>2, <4>3, <4>4
        <5> QED BY <4>1, <5>1 DEF OneSided
      <4>5. CASE \A i \in DOMAIN rest : rest[i].qty < 0
        <5>1. \A i \in DOMAIN rest : cut[i].qty < 0
          BY <3>4, <4>1, <4>2, <4>3, <4>5
        <5> QED BY <4>1, <5>1 DEF OneSided
      <4> QED BY <1>10, <4>4, <4>5 DEF OneSided
    <3> QED BY <3>1, <3>6, <3>9, <3>10
  <2> QED BY <2>6, <2>7, <2>8
<1> QED BY <1>11, <1>12

Counts(p, f) == f.settled /\ f.pair = p /\ f.role # "summary"

\* What the settled fills of a position leave open, for the first m fills.
LotSteps(p, m, h) ==
  h = [n \in 0 .. m |-> IF n = 0 THEN <<>>
                        ELSE IF Counts(p, fills[n]) THEN FifoMatched(h[n - 1], fills[n])
                        ELSE h[n - 1]]

LEMMA LotStepsExist == ASSUME NEW p, NEW m \in Nat PROVE \E h : LotSteps(p, m, h)
<1> DEFINE T == {k \in Nat : \E h : LotSteps(p, k, h)}
<1>1. 0 \in T
  <2> DEFINE h == [n \in 0 .. 0 |-> <<>>]
  <2>1. LotSteps(p, 0, h)
    BY DEF LotSteps
  <2> QED BY <2>1
<1>2. ASSUME NEW k \in Nat, k \in T PROVE k + 1 \in T
  <2>1. PICK h : LotSteps(p, k, h)
    BY <1>2
  <2> DEFINE last == IF Counts(p, fills[k + 1]) THEN FifoMatched(h[k], fills[k + 1]) ELSE h[k]
             g == [n \in 0 .. k + 1 |-> IF n = k + 1 THEN last ELSE h[n]]
  <2>2. \A n \in 0 .. k : g[n] = h[n] /\ h[n] = IF n = 0 THEN <<>>
                               ELSE IF Counts(p, fills[n]) THEN FifoMatched(h[n - 1], fills[n])
                               ELSE h[n - 1]
    BY <2>1 DEF LotSteps
  <2>3. \A n \in 1 .. k + 1 : n - 1 \in 0 .. k /\ g[n - 1] = h[n - 1]
    BY <2>2
  <2>4. \A n \in 0 .. k + 1 : g[n] = IF n = 0 THEN <<>>
                               ELSE IF Counts(p, fills[n]) THEN FifoMatched(g[n - 1], fills[n])
                               ELSE g[n - 1]
    <3>1. CASE TRUE
      <4> SUFFICES ASSUME NEW n \in 0 .. k + 1
                   PROVE  g[n] = IF n = 0 THEN <<>>
                               ELSE IF Counts(p, fills[n]) THEN FifoMatched(g[n - 1], fills[n])
                               ELSE g[n - 1]
        OBVIOUS
      <4>1. CASE n = k + 1
        <5>1. n # 0 /\ n - 1 = k /\ g[n - 1] = h[k] /\ g[n] = last
          BY <2>2, <4>1
        <5> HIDE DEF g
        <5> QED BY <4>1, <5>1
      <4>2. CASE n # k + 1
        <5>1. n \in 0 .. k /\ (n # 0 => n \in 1 .. k + 1)
          BY <4>2
        <5> HIDE DEF g
        <5> QED BY <2>2, <2>3, <5>1
      <4> QED BY <4>1, <4>2
    <3> QED BY <3>1
  <2>5. DOMAIN g = 0 .. k + 1 /\ g = [n \in 0 .. k + 1 |-> g[n]]
    OBVIOUS
  <2> HIDE DEF g
  <2>6. LotSteps(p, k + 1, g)
    BY <2>4, <2>5 DEF LotSteps
  <2> QED BY <2>6
<1> HIDE DEF T
<1>3. m \in T
  BY <1>1, <1>2, AllOf
<1> QED BY <1>3 DEF T

LEMMA LotsAfterIs ==
  ASSUME NEW p, Len(fills) \in Nat PROVE LotSteps(p, Len(fills), LotsAfter(p))
<1>1. \E h : LotSteps(p, Len(fills), h)
  BY LotStepsExist
<1>2. LotSteps(p, Len(fills), CHOOSE h : LotSteps(p, Len(fills), h))
  BY <1>1
<1>3. LotsAfter(p) = CHOOSE h : LotSteps(p, Len(fills), h)
  BY DEF LotsAfter, LotSteps, Counts
<1> QED BY <1>2, <1>3

LEMMA LotsStay == ASSUME FiguresTyped PROVE OpenLotsAreNet
<1> SUFFICES ASSUME NEW p \in Traded
             PROVE  /\ SumOver([i \in DOMAIN OpenLots(p) |-> OpenLots(p)[i].qty], DOMAIN OpenLots(p)) =
                         Amount({i \in FillsOf(p) : fills[i].settled})
                    /\ \A i, j \in DOMAIN OpenLots(p) : OpenLots(p)[i].qty * OpenLots(p)[j].qty > 0
  BY DEF OpenLotsAreNet
<1> DEFINE L == Len(fills)
           h == LotsAfter(p)
           f == [i \in DOMAIN fills |-> SignedQuantity(fills[i])]
           S(n) == {i \in FillsOf(p) : fills[i].settled /\ i <= n}
           T == {n \in Nat : n <= L => /\ h[n] \in Seq(LotRows) /\ OneSided(h[n])
                                       /\ LotTotal(h[n]) = SumOver(f, S(n))}
<1>1. L \in Nat /\ DOMAIN fills = 1 .. L /\ IsFiniteSet(DOMAIN fills)
  BY SignedType DEF FiguresTyped
<1>2. \A i \in DOMAIN fills : fills[i] \in FillRows /\ f[i] \in Int /\ f[i] = SignedQuantity(fills[i])
  BY SignedType
<1>3. \A n \in 0 .. L : h[n] = IF n = 0 THEN <<>>
                               ELSE IF Counts(p, fills[n]) THEN FifoMatched(h[n - 1], fills[n])
                               ELSE h[n - 1]
  BY <1>1, LotsAfterIs DEF LotSteps
<1> HIDE DEF h, f
<1>4. \A n : S(n) \subseteq DOMAIN fills /\ IsFiniteSet(S(n))
  BY <1>1, FS_Subset DEF FillsOf
<1>5. 0 \in T
  <2>1. h[0] = <<>>
    BY <1>1, <1>3
  <2>2. S(0) = {}
    BY <1>1 DEF FillsOf
  <2>3. <<>> \in Seq(LotRows) /\ OneSided(<<>>) /\ LotTotal(<<>>) = 0
    <3>1. DOMAIN <<>> = {}
      OBVIOUS
    <3> QED BY <3>1, SumEmpty DEF OneSided, LotTotal
  <2>4. SumOver(f, S(0)) = 0
    BY <2>2, SumEmpty
  <2> HIDE DEF S
  <2> QED BY <2>1, <2>3, <2>4
<1>6. ASSUME NEW n \in Nat, n \in T PROVE n + 1 \in T
  <2> SUFFICES ASSUME n + 1 <= L
               PROVE  /\ h[n + 1] \in Seq(LotRows) /\ OneSided(h[n + 1])
                      /\ LotTotal(h[n + 1]) = SumOver(f, S(n + 1))
    OBVIOUS
  <2>1. h[n] \in Seq(LotRows) /\ OneSided(h[n]) /\ LotTotal(h[n]) = SumOver(f, S(n))
    BY <1>1, <1>6
  <2>2. n + 1 \in DOMAIN fills /\ n + 1 \in 0 .. L /\ n + 1 # 0 /\ n + 1 - 1 = n
    BY <1>1
  <2>3. h[n + 1] = IF Counts(p, fills[n + 1]) THEN FifoMatched(h[n], fills[n + 1]) ELSE h[n]
    BY <1>3, <2>2
  <2>4. CASE Counts(p, fills[n + 1])
    <3> DEFINE e == fills[n + 1]
    <3>1. e.qty \in Int /\ e.group \in Groupings /\ f[n + 1] = e.qty
      BY <1>2, <2>2, <2>4 DEF FillRows, Counts, SignedQuantity
    <3>2. S(n + 1) = S(n) \cup {n + 1} /\ n + 1 \notin S(n)
      BY <1>1, <2>2, <2>4 DEF FillsOf, Counts
    <3>3. \A i \in S(n) \cup {n + 1} : f[i] \in Int
      BY <1>2, <1>4, <2>2
    <3> HIDE DEF e, S
    <3>4. SumOver(f, S(n) \cup {n + 1}) = f[n + 1] + SumOver(f, S(n))
      BY <1>4, <3>2, <3>3, SumMore
    <3>5. /\ FifoMatched(h[n], e) \in Seq(LotRows) /\ OneSided(FifoMatched(h[n], e))
          /\ LotTotal(FifoMatched(h[n], e)) = LotTotal(h[n]) + e.qty
      BY <2>1, <3>1, FifoKeeps
    <3>6. h[n + 1] = FifoMatched(h[n], e)
      BY <2>3, <2>4 DEF e
    <3>7. SumOver(f, S(n)) \in Int
      BY <1>4, <3>3, SumStep
    <3>8. SumOver(f, S(n + 1)) = SumOver(f, S(n) \cup {n + 1})
      BY <3>2, Zenon
    <3> QED BY <2>1, <3>1, <3>4, <3>5, <3>6, <3>7, <3>8
  <2>5. CASE ~Counts(p, fills[n + 1])
    <3>1. S(n + 1) = S(n)
      BY <1>1, <2>2, <2>5 DEF FillsOf, Counts
    <3>2. h[n + 1] = h[n]
      BY <2>3, <2>5
    <3> HIDE DEF S
    <3>3. SumOver(f, S(n + 1)) = SumOver(f, S(n))
      BY <3>1, Zenon
    <3> QED BY <2>1, <3>2, <3>3
  <2> QED BY <2>4, <2>5
<1> HIDE DEF T
<1>7. L \in T
  BY <1>1, <1>5, <1>6, AllOf
<1>8. h[L] \in Seq(LotRows) /\ OneSided(h[L]) /\ LotTotal(h[L]) = SumOver(f, S(L))
  BY <1>1, <1>7 DEF T
<1>9. S(L) = {i \in FillsOf(p) : fills[i].settled}
  BY <1>1 DEF FillsOf
<1> HIDE DEF S
<1>10. OpenLots(p) = h[L]
  BY DEF OpenLots, h
<1>11. LotTotal(OpenLots(p)) = Amount({i \in FillsOf(p) : fills[i].settled})
  BY <1>8, <1>9, <1>10 DEF Amount, f
<1>12. \A i, j \in DOMAIN OpenLots(p) : OpenLots(p)[i].qty * OpenLots(p)[j].qty > 0
  <2>1. \A i \in DOMAIN OpenLots(p) : OpenLots(p)[i].qty \in Int
    BY <1>8, <1>10, LotTotals
  <2>2. \A x \in Int, y \in Int : (x > 0 /\ y > 0) \/ (x < 0 /\ y < 0) => x * y > 0
    OBVIOUS
  <2> QED BY <1>8, <1>10, <2>1, <2>2 DEF OneSided
<1> QED BY <1>11, <1>12 DEF LotTotal

-----------------------------------------------------------------------------
RoleTotal(r) == Pnl({i \in DOMAIN fills : fills[i].role = r})
\* What a step adds to a role's total.
Gained(r) == SumOver([i \in DOMAIN fills' |-> fills'[i].pnl],
                     {i \in DOMAIN fills' \ DOMAIN fills : fills'[i].role = r})

LEMMA RoleTotalMoves ==
  ASSUME FiguresTyped, FiguresTyped', DOMAIN fills \subseteq DOMAIN fills',
         \A i \in DOMAIN fills : fills'[i].pnl = fills[i].pnl /\ fills'[i].role = fills[i].role,
         NEW r
  PROVE  RoleTotal(r) \in Int /\ Gained(r) \in Int /\ RoleTotal(r)' = RoleTotal(r) + Gained(r)
<1> DEFINE e == [i \in DOMAIN fills' |-> fills'[i].pnl]
           f == [i \in DOMAIN fills |-> fills[i].pnl]
           S == {i \in DOMAIN fills : fills[i].role = r}
           T == {i \in DOMAIN fills' \ DOMAIN fills : fills'[i].role = r}
           U == {i \in DOMAIN fills' : fills'[i].role = r}
<1>1. S \cap T = {} /\ U = S \cup T
  OBVIOUS
<1>2. /\ IsFiniteSet(DOMAIN fills) /\ \A i \in DOMAIN fills : f[i] \in Int
      /\ IsFiniteSet(DOMAIN fills') /\ \A i \in DOMAIN fills' : e[i] \in Int
  <2>1. IsFiniteSet(DOMAIN fills) /\ \A i \in DOMAIN fills : fills[i].pnl \in Int
    BY SignedType
  <2>2. IsFiniteSet(DOMAIN fills') /\ \A i \in DOMAIN fills' : fills'[i].pnl \in Int
    <3>1. fills' \in Seq(FillRows)
      BY DEF FiguresTyped
    <3>2. DOMAIN fills' = 1 .. Len(fills') /\ Len(fills') \in Nat
      BY <3>1
    <3>3. \A i \in DOMAIN fills' : fills'[i] \in FillRows
      BY <3>1, <3>2
    <3> QED BY <3>2, <3>3, FS_Interval DEF FillRows
  <2> QED BY <2>1, <2>2
<1>3. /\ IsFiniteSet(S) /\ \A i \in S : f[i] \in Int /\ f[i] = e[i] /\ e[i] \in Int
      /\ IsFiniteSet(T) /\ \A i \in T : e[i] \in Int
  BY <1>2, FS_Subset
<1>4. /\ RoleTotal(r) = SumOver(f, S) /\ RoleTotal(r)' = SumOver(e, U)
      /\ Gained(r) = SumOver(e, T)
  BY DEF RoleTotal, Pnl, Gained
<1> HIDE DEF e, f, S, T, U
<1>5. SumOver(f, S) = SumOver(e, S)
  BY <1>3, SumSame
<1>6. SumOver(e, S \cup T) = SumOver(e, S) + SumOver(e, T)
  BY <1>1, <1>3, SumSplit
<1>7. SumOver(f, S) \in Int /\ SumOver(e, T) \in Int
  BY <1>3, SumStep
<1>8. SumOver(e, U) = SumOver(e, S \cup T)
  BY <1>1, Zenon
<1> QED BY <1>4, <1>5, <1>6, <1>7, <1>8

LEMMA SpeakFromRoles == SummariesSpeak <=> RoleTotal("summary") = RoleTotal("leg")
BY DEF SummariesSpeak, RoleTotal

\* A step that writes no summary and no leg, and changes no profit.
LEMMA SameProfits ==
  ASSUME FiguresInv, FiguresTyped', DOMAIN fills \subseteq DOMAIN fills',
         \A i \in DOMAIN fills : fills'[i].pnl = fills[i].pnl /\ fills'[i].role = fills[i].role,
         \A i \in DOMAIN fills' \ DOMAIN fills : fills'[i].role = "plain"
  PROVE  FiguresInv'
<1>1. \A r \in {"leg", "summary"} : {i \in DOMAIN fills' \ DOMAIN fills : fills'[i].role = r} = {}
  OBVIOUS
<1>2. Gained("leg") = 0 /\ Gained("summary") = 0
  BY <1>1, SumEmpty DEF Gained
<1>3. /\ RoleTotal("leg") \in Int /\ RoleTotal("leg")' = RoleTotal("leg") + Gained("leg")
      /\ RoleTotal("summary") \in Int
      /\ RoleTotal("summary")' = RoleTotal("summary") + Gained("summary")
  BY RoleTotalMoves DEF FiguresInv
<1>4. RoleTotal("leg") = RoleTotal("summary")
  BY SpeakFromRoles DEF FiguresInv
<1>5. RoleTotal("leg")' = RoleTotal("summary")'
  BY <1>2, <1>3, <1>4
<1>6. SummariesSpeak'
  BY <1>5 DEF SummariesSpeak, RoleTotal
<1> QED BY <1>6 DEF FiguresInv

LEMMA BookedType ==
  ASSUME NEW p \in Pairs, NEW q \in Int, NEW role \in {"plain", "leg"}
  PROVE  Booked(p, q, role) \in FillRows /\ Booked(p, q, role).role = role
BY DEF Booked, FillRows, Groupings, Abs

LEMMA BookFillKeeps ==
  ASSUME FiguresInv, NEW p \in Pairs, NEW q \in Sizes, BookFill(p, q) PROVE FiguresInv'
<1> DEFINE row == Booked(p, q, "plain")
<1>1. fills \in Seq(FillRows) /\ row \in FillRows /\ row.role = "plain"
  BY BookedType, FiguresAssumption DEF FiguresInv, FiguresTyped
<1>2. fills' = Append(fills, row)
  BY DEF BookFill
<1> HIDE DEF row
<1>3. /\ fills' \in Seq(FillRows)
      /\ DOMAIN fills' = 1 .. Len(fills) + 1
      /\ \A i \in 1 .. Len(fills) : fills'[i] = fills[i]
      /\ fills'[Len(fills) + 1] = row
  BY <1>1, <1>2, AppendProperties, LenProperties
<1>4. FiguresTyped'
  BY <1>3 DEF BookFill, FiguresInv, FiguresTyped
<1>5. /\ DOMAIN fills = 1 .. Len(fills) /\ Len(fills) \in Nat
      /\ DOMAIN fills' \ DOMAIN fills = {Len(fills) + 1}
  BY <1>1, <1>3
<1> QED BY <1>1, <1>3, <1>4, <1>5, SameProfits

LEMMA RowsKept ==
  ASSUME FiguresInv, DOMAIN fills' = DOMAIN fills, fills' \in Seq(FillRows),
         \A i \in DOMAIN fills : fills'[i].pnl = fills[i].pnl /\ fills'[i].role = fills[i].role,
         snapshot' \in [Pairs -> Int], DOMAIN capture' = Books
  PROVE  FiguresInv'
<1>1. FiguresTyped'
  BY DEF FiguresTyped
<1> QED BY <1>1, SameProfits

LEMMA FillsRewritten ==
  ASSUME FiguresTyped, NEW g, fills' = [i \in DOMAIN fills |-> g[i]],
         \A i \in DOMAIN fills : g[i] \in FillRows
  PROVE  fills' \in Seq(FillRows) /\ DOMAIN fills' = DOMAIN fills
<1>1. DOMAIN fills = 1 .. Len(fills) /\ Len(fills) \in Nat
  BY DEF FiguresTyped
<1> QED BY <1>1, SeqDef

LEMMA RegroupKeeps ==
  ASSUME FiguresInv, NEW S \in SUBSET DOMAIN fills, NEW g \in Campaigns, Regroup(S, g)
  PROVE  FiguresInv'
<1> DEFINE new == [i \in DOMAIN fills |-> IF i \in S THEN [fills[i] EXCEPT !.group = g] ELSE fills[i]]
<1>1. FiguresTyped /\ \A i \in DOMAIN fills : fills[i] \in FillRows
  BY SignedType DEF FiguresInv
<1>2. \A i \in DOMAIN fills : /\ new[i] \in FillRows /\ new[i].pnl = fills[i].pnl
                              /\ new[i].role = fills[i].role
  BY <1>1 DEF FillRows, Groupings
<1>3. fills' = [i \in DOMAIN fills |-> new[i]] /\ UNCHANGED <<snapshot, capture>>
  BY DEF Regroup
<1> HIDE DEF new
<1>4. fills' \in Seq(FillRows) /\ DOMAIN fills' = DOMAIN fills
  BY <1>1, <1>2, <1>3, FillsRewritten
<1>5. snapshot' \in [Pairs -> Int] /\ DOMAIN capture' = Books
  BY <1>1, <1>3 DEF FiguresTyped
<1> QED BY <1>2, <1>3, <1>4, <1>5, RowsKept

LEMMA SettleDayKeeps == ASSUME FiguresInv, SettleDay PROVE FiguresInv'
<1> DEFINE new == [i \in DOMAIN fills |-> [fills[i] EXCEPT !.settled = TRUE, !.qty = SignedQuantity(fills[i])]]
<1>1. /\ FiguresTyped
      /\ \A i \in DOMAIN fills : fills[i] \in FillRows /\ SignedQuantity(fills[i]) \in Int
  BY SignedType DEF FiguresInv
<1>2. \A i \in DOMAIN fills : /\ new[i] \in FillRows /\ new[i].pnl = fills[i].pnl
                              /\ new[i].role = fills[i].role
  <2> SUFFICES ASSUME NEW i \in DOMAIN fills
               PROVE  /\ new[i] \in FillRows /\ new[i].pnl = fills[i].pnl
                      /\ new[i].role = fills[i].role
    OBVIOUS
  <2>1. fills[i] \in FillRows /\ SignedQuantity(fills[i]) \in Int
    BY <1>1
  <2>2. new[i] = [fills[i] EXCEPT !.settled = TRUE, !.qty = SignedQuantity(fills[i])]
    OBVIOUS
  <2> HIDE DEF new
  <2> QED BY <2>1, <2>2 DEF FillRows
<1>3. fills' = [i \in DOMAIN fills |-> new[i]]
  BY DEF SettleDay
<1> HIDE DEF new
<1>4. fills' \in Seq(FillRows) /\ DOMAIN fills' = DOMAIN fills
  BY <1>1, <1>2, <1>3, FillsRewritten
<1>5. snapshot' \in [Pairs -> Int] /\ DOMAIN capture' = Books
  BY <1>1, HeldType DEF SettleDay
<1> QED BY <1>2, <1>3, <1>4, <1>5, RowsKept

LEMMA CaptureNowKeeps == ASSUME FiguresInv, CaptureNow PROVE FiguresInv'
<1> DEFINE new == [i \in DOMAIN fills |-> [fills[i] EXCEPT !.inLive = ~fills[i].settled]]
<1>1. FiguresTyped /\ \A i \in DOMAIN fills : fills[i] \in FillRows
  BY SignedType DEF FiguresInv
<1>2. \A i \in DOMAIN fills : /\ new[i] \in FillRows /\ new[i].pnl = fills[i].pnl
                              /\ new[i].role = fills[i].role
  <2> SUFFICES ASSUME NEW i \in DOMAIN fills
               PROVE  /\ new[i] \in FillRows /\ new[i].pnl = fills[i].pnl
                      /\ new[i].role = fills[i].role
    OBVIOUS
  <2>1. fills[i] \in FillRows
    BY <1>1
  <2>2. new[i] = [fills[i] EXCEPT !.inLive = ~fills[i].settled]
    OBVIOUS
  <2> HIDE DEF new
  <2> QED BY <2>1, <2>2 DEF FillRows
<1>3. fills' = [i \in DOMAIN fills |-> new[i]]
  BY DEF CaptureNow
<1> HIDE DEF new
<1>4. fills' \in Seq(FillRows) /\ DOMAIN fills' = DOMAIN fills
  BY <1>1, <1>2, <1>3, FillsRewritten
<1>5. snapshot' \in [Pairs -> Int] /\ DOMAIN capture' = Books
  BY <1>1 DEF CaptureNow, FiguresTyped
<1> QED BY <1>2, <1>3, <1>4, <1>5, RowsKept

LEMMA OrderOfItems ==
  LET order == SetToSeq(Items)
      n == Cardinality(Items)
  IN /\ n \in Nat \ {0} /\ order \in [1 .. n -> Items] /\ DOMAIN order = 1 .. n
     /\ order \in Seq(Items) /\ Len(order) = n
     /\ \A i, j \in 1 .. n : order[i] = order[j] => i = j
     /\ {order[i] : i \in 1 .. n} = Items
<1> DEFINE n == Cardinality(Items)
           order == SetToSeq(Items)
<1>1. n \in Nat /\ ExistsBijection(1 .. n, Items) /\ n # 0
  BY FiguresAssumption, FS_CardinalityType, FS_EmptySet
<1>2. \E f \in [1 .. n -> Items] : IsInjective(f)
  BY <1>1 DEF ExistsBijection, Bijection, Injection
<1>3. order \in [1 .. n -> Items] /\ IsInjective(order)
  BY <1>2 DEF SetToSeq
<1> HIDE DEF order
<1>4. order \in Injection(1 .. n, Items) /\ IsFiniteSet(1 .. n) /\ Cardinality(1 .. n) = n
  BY <1>1, <1>3, FS_Interval DEF Injection
<1> HIDE DEF n
<1>5. order \in Surjection(1 .. n, Items)
  <2>1. Cardinality(1 .. n) = Cardinality(Items)
    BY <1>4 DEF n
  <2> QED BY <1>4, <2>1, FiguresAssumption, FS_Injection
<1>6. {order[i] : i \in 1 .. n} = Items
  BY <1>3, <1>5 DEF Surjection
<1>7. order \in Seq(Items) /\ Len(order) = n
  BY <1>1, <1>3
<1> QED BY <1>1, <1>3, <1>6, <1>7 DEF n, order, IsInjective

LEMMA BookComboKeeps ==
  ASSUME FiguresInv, NEW a \in Books, NEW q \in Sizes, BookCombo(a, q) PROVE FiguresInv'
<1> DEFINE legs == [c \in Items |-> Booked(<<a, c>>, q, "leg")]
           order == SetToSeq(Items)
           k == Cardinality(Items)
           n == Len(fills)
           h == [c \in Items |-> legs[c].pnl]
           total == SumOver(h, Items)
           summary == [legs[order[1]] EXCEPT !.role = "summary", !.cycle = "none", !.pnl = total]
           mid == [i \in DOMAIN order |-> legs[order[i]]]
           e == [i \in DOMAIN fills' |-> fills'[i].pnl]
           T == n + 1 .. n + k
<1>1. FiguresTyped /\ n \in Nat /\ DOMAIN fills = 1 .. n /\ fills \in Seq(FillRows)
  BY DEF FiguresInv, FiguresTyped
<1>2. \A c \in Items : legs[c] \in FillRows /\ legs[c].role = "leg"
  <2>1. \A c \in Items : <<a, c>> \in Pairs /\ q \in Int
    BY FiguresAssumption DEF Pairs
  <2> QED BY <2>1, BookedType
<1>3. \A c \in Items : h[c] \in Int
  BY <1>2 DEF FillRows
<1>4. fills' = fills \o mid \o <<summary>> /\ UNCHANGED <<snapshot, capture>>
  BY DEF BookCombo
<1> HIDE DEF legs
<1>5. /\ k \in Nat \ {0} /\ order \in [1 .. k -> Items] /\ DOMAIN order = 1 .. k
      /\ \A i, j \in 1 .. k : order[i] = order[j] => i = j
      /\ {order[i] : i \in 1 .. k} = Items
  BY OrderOfItems
<1> HIDE DEF k, order
<1>6. IsFiniteSet(Items) /\ IsFiniteSet(1 .. k)
  <2>1. 1 \in Int /\ k \in Int
    BY <1>5
  <2>2. IsFiniteSet(1 .. k)
    BY <2>1, FS_Interval
  <2> QED BY <2>2, FiguresAssumption
<1>7. total \in Int
  <2> HIDE DEF h
  <2> QED BY <1>3, <1>6, SumStep
<1> HIDE DEF total
<1>8. summary \in FillRows /\ summary.role = "summary" /\ summary.pnl = total
  <2>1. order[1] \in Items
    BY <1>5
  <2>2. legs[order[1]] \in FillRows
    BY <1>2, <2>1
  <2> QED BY <1>7, <2>2 DEF FillRows
<1> HIDE DEF summary
<1>9. mid \in Seq(FillRows) /\ Len(mid) = k /\ \A i \in 1 .. k : mid[i] = legs[order[i]]
  <2>1. mid \in [1 .. k -> FillRows]
    BY <1>2, <1>5
  <2> QED BY <1>5, <2>1, SeqDef
<1> HIDE DEF mid
<1>10. /\ fills' \in Seq(FillRows) /\ DOMAIN fills' = 1 .. n + k + 1
       /\ \A i \in 1 .. n : fills'[i] = fills[i]
       /\ \A i \in 1 .. k : fills'[n + i] = legs[order[i]]
       /\ fills'[n + k + 1] = summary
  <2>1. /\ fills \o mid \in Seq(FillRows) /\ Len(fills \o mid) = n + k
        /\ \A i \in 1 .. n + k : (fills \o mid)[i] = IF i <= n THEN fills[i] ELSE mid[i - n]
    BY <1>1, <1>9, ConcatProperties
  <2>2. <<summary>> \in Seq(FillRows) /\ Len(<<summary>>) = 1 /\ <<summary>>[1] = summary
    BY <1>8
  <2>3. /\ fills' \in Seq(FillRows) /\ Len(fills') = n + k + 1
        /\ \A i \in 1 .. n + k + 1 :
             fills'[i] = IF i <= n + k THEN (fills \o mid)[i] ELSE <<summary>>[i - (n + k)]
    BY <1>4, <2>1, <2>2, ConcatProperties
  <2>4. DOMAIN fills' = 1 .. n + k + 1
    BY <2>3
  <2>5. \A i \in 1 .. n : fills'[i] = fills[i]
    BY <1>1, <1>5, <2>1, <2>3
  <2>6. ASSUME NEW i \in 1 .. k PROVE fills'[n + i] = legs[order[i]]
    <3>1. n + i \in 1 .. n + k /\ ~(n + i <= n) /\ n + i - n = i
      BY <1>1, <1>5
    <3>2. n + i \in 1 .. n + k + 1 /\ n + i <= n + k
      BY <1>1, <1>5
    <3>3. fills'[n + i] = (fills \o mid)[n + i]
      BY <2>3, <3>2
    <3>4. (fills \o mid)[n + i] = mid[n + i - n]
      BY <2>1, <3>1
    <3> QED BY <1>9, <3>1, <3>3, <3>4
  <2>7. fills'[n + k + 1] = summary
    <3>1. n + k + 1 \in 1 .. n + k + 1 /\ ~(n + k + 1 <= n + k) /\ n + k + 1 - (n + k) = 1
      BY <1>1, <1>5
    <3>2. ASSUME NEW i \in 1 .. n + k + 1, i = n + k + 1 PROVE fills'[i] = summary
      <4>1. fills'[i] = <<summary>>[i - (n + k)] /\ i - (n + k) = 1
        BY <1>1, <1>5, <2>3, <3>2
      <4> QED BY <2>2, <4>1
    <3> QED BY <3>1, <3>2
  <2> QED BY <2>3, <2>4, <2>5, <2>6, <2>7
<1>11. FiguresTyped'
  BY <1>4, <1>10 DEF FiguresInv, FiguresTyped
<1>12. /\ RoleTotal("leg") \in Int /\ RoleTotal("leg")' = RoleTotal("leg") + Gained("leg")
       /\ RoleTotal("summary") \in Int
       /\ RoleTotal("summary")' = RoleTotal("summary") + Gained("summary")
  <2>1. DOMAIN fills \subseteq DOMAIN fills' /\ \A i \in DOMAIN fills : fills'[i] = fills[i]
    BY <1>1, <1>5, <1>10
  <2> QED BY <1>1, <1>11, <2>1, RoleTotalMoves
<1>13. DOMAIN fills' \ DOMAIN fills = T \cup {n + k + 1} /\ n + k + 1 \notin T
  BY <1>1, <1>5, <1>10
<1>14. \A j \in T : fills'[j] = legs[order[j - n]] /\ j - n \in 1 .. k /\ j \in DOMAIN fills'
  <2>1. ASSUME NEW j \in T PROVE j - n \in 1 .. k /\ n + (j - n) = j /\ j \in 1 .. n + k + 1
    BY <1>1, <1>5
  <2> HIDE DEF T
  <2> QED BY <1>10, <2>1
<1>15. /\ {i \in DOMAIN fills' \ DOMAIN fills : fills'[i].role = "leg"} = T
       /\ {i \in DOMAIN fills' \ DOMAIN fills : fills'[i].role = "summary"} = {n + k + 1}
  <2>1. \A j \in T : fills'[j].role = "leg"
    BY <1>2, <1>5, <1>14
  <2>2. fills'[n + k + 1].role = "summary"
    BY <1>8, <1>10
  <2> HIDE DEF T
  <2> QED BY <1>13, <2>1, <2>2
<1>16. Gained("summary") = total
  <2>1. n + k + 1 \in DOMAIN fills' /\ e[n + k + 1] = total
    BY <1>1, <1>5, <1>8, <1>10
  <2>2. Gained("summary") = SumOver(e, {n + k + 1})
    BY <1>15 DEF Gained
  <2> HIDE DEF e
  <2>3. SumOver(e, {n + k + 1}) = e[n + k + 1] + SumOver(e, {n + k + 1} \ {n + k + 1})
    BY <1>7, <2>1, FS_Singleton, SumStep
  <2>4. {n + k + 1} \ {n + k + 1} = {}
    OBVIOUS
  <2>5. SumOver(e, {n + k + 1} \ {n + k + 1}) = 0
    BY <2>4, SumEmpty
  <2> QED BY <1>7, <2>1, <2>2, <2>3, <2>5
<1>17. Gained("leg") = total
  <2> DEFINE s == [i \in 1 .. k |-> n + i]
             m == [i \in 1 .. k |-> legs[order[i]].pnl]
           I == 1 .. k
  <2>1. \A i \in 1 .. k : m[i] \in Int /\ h[order[i]] = m[i] /\ e[s[i]] = m[i]
    <3>1. \A i \in 1 .. k : n + i \in DOMAIN fills' /\ order[i] \in Items
      BY <1>1, <1>5, <1>10
    <3> QED BY <1>3, <1>10, <3>1
  <2>2. \A i, j \in 1 .. k : s[i] = s[j] => i = j
    BY <1>1, <1>5
  <2>3. {s[i] : i \in 1 .. k} = T
    <3>1. \A j \in T : j - n \in 1 .. k /\ s[j - n] = j
      BY <1>1, <1>5
    <3>2. \A i \in 1 .. k : s[i] \in T
      BY <1>1, <1>5
    <3> HIDE DEF s, T
    <3> QED BY <3>1, <3>2
  <2>4. Gained("leg") = SumOver(e, T)
    BY <1>15 DEF Gained
  <2>9. /\ IsFiniteSet(I) /\ \A i \in I : m[i] \in Int /\ h[order[i]] = m[i] /\ e[s[i]] = m[i]
        /\ \A i, j \in I : (order[i] = order[j] => i = j) /\ (s[i] = s[j] => i = j)
        /\ {order[i] : i \in I} = Items /\ {s[i] : i \in I} = T
    BY <1>5, <1>6, <2>1, <2>2, <2>3
  <2> HIDE DEF s, m, e, h, T, I
  <2>5. SumOver(m, I) = SumOver(h, {order[i] : i \in I})
    BY <2>9, SumRenamed
  <2>6. SumOver(m, I) = SumOver(e, {s[i] : i \in I})
    BY <2>9, SumRenamed
  <2>7. SumOver(h, {order[i] : i \in I}) = SumOver(h, Items)
    BY <2>9, Zenon
  <2>8. SumOver(e, {s[i] : i \in I}) = SumOver(e, T)
    BY <2>9, Zenon
  <2> QED BY <2>4, <2>5, <2>6, <2>7, <2>8 DEF total
<1>18. RoleTotal("leg") = RoleTotal("summary")
  BY SpeakFromRoles DEF FiguresInv
<1>19. RoleTotal("leg")' = RoleTotal("summary")'
  BY <1>7, <1>12, <1>16, <1>17, <1>18
<1>20. SummariesSpeak'
  BY <1>19 DEF SummariesSpeak, RoleTotal
<1> QED BY <1>11, <1>20 DEF FiguresInv

\* No step of the brokerage, the user or the syncs breaks the invariant.
THEOREM FiguresInvariant == FiguresSpec => []FiguresInv
<1>1. FiguresInit => FiguresInv
  <2> SUFFICES ASSUME FiguresInit PROVE FiguresInv
    OBVIOUS
  <2>1. FiguresTyped
    BY DEF FiguresInit, FiguresTyped
  <2>2. DOMAIN fills = {}
    BY DEF FiguresInit
  <2>3. \A r : {i \in {} : fills[i].role = r} = {}
    OBVIOUS
  <2> QED BY <2>1, <2>2, <2>3 DEF FiguresInv, SummariesSpeak
<1>2. FiguresInv /\ [FiguresNext]_figureVars => FiguresInv'
  <2> SUFFICES ASSUME FiguresInv, [FiguresNext]_figureVars PROVE FiguresInv'
    OBVIOUS
  <2>1. ASSUME NEW p \in Pairs, NEW q \in Sizes, BookFill(p, q) PROVE FiguresInv'
    BY <2>1, BookFillKeeps
  <2>2. ASSUME NEW a \in Books, NEW q \in Sizes, BookCombo(a, q) PROVE FiguresInv'
    BY <2>2, BookComboKeeps
  <2>3. ASSUME NEW g \in Campaigns, NEW i \in DOMAIN fills, Regroup({i}, g) PROVE FiguresInv'
    BY <2>3, RegroupKeeps
  <2>4. ASSUME NEW g \in Campaigns, Regroup({i \in DOMAIN fills : fills[i].role # "plain"}, g)
        PROVE  FiguresInv'
    BY <2>4, RegroupKeeps
  <2>5. CASE SettleDay
    BY <2>5, SettleDayKeeps
  <2>6. CASE CaptureNow
    BY <2>6, CaptureNowKeeps
  <2>7. CASE UNCHANGED figureVars
    <3>1. FiguresTyped'
      BY <2>7 DEF FiguresInv, FiguresTyped, figureVars
    <3>2. SummariesSpeak'
      BY <2>7 DEF FiguresInv, SummariesSpeak, Pnl, figureVars
    <3> QED BY <3>1, <3>2 DEF FiguresInv
  <2> QED BY <2>1, <2>2, <2>3, <2>4, <2>5, <2>6, <2>7 DEF FiguresNext
<1> QED BY <1>1, <1>2, PTL DEF FiguresSpec

\* However fills of two or more groups on one position are booked, tagged, settled
\* and captured, the parts the groups are shown come to no more than the position.
THEOREM SharesStayWithin == FiguresSpec => []SharesWithinBook
<1>1. FiguresInv => SharesWithinBook
  BY SharesStay DEF FiguresInv
<1> QED BY <1>1, FiguresInvariant, PTL

\* For any accounts, contracts, groups and fills: a combo's profit counts once, the
\* open lots come to the settled quantity, and the pages that sum the same rows by
\* different paths agree.
THEOREM FiguresStayAgreed == FiguresSpec => []FiguresAgree
<1>1. FiguresInv => FiguresAgree
  BY CombosStay, LotsStay, PathsStay, OvernightStays DEF FiguresInv, FiguresAgree
<1> QED BY <1>1, FiguresInvariant, PTL

-----------------------------------------------------------------------------
(* The choice of a contract (ContractPicks). *)

PicksInv == question \in Questions /\ (answered => answer = AnswerTo(question))

\* A nonempty set of rows has one that expires first, provided no row of it
\* expires before a given day.
LEMMA EarliestIs ==
  ASSUME NEW rows, rows # {}, NEW low \in Int, \A r \in rows : r.days \in Int /\ r.days >= low
  PROVE  Earliest(rows) \in rows /\ \A s \in rows : s.days >= Earliest(rows).days
<1> DEFINE T == {r.days - low : r \in rows}
<1>1. T # {} /\ T \in SUBSET Nat
  OBVIOUS
<1>2. PICK n \in T : \A m \in T : n <= m
  BY <1>1, LeastOf
<1>3. PICK r \in rows : n = r.days - low
  BY <1>2
<1>4. ASSUME NEW s \in rows PROVE s.days >= r.days
  <2>1. n <= s.days - low
    BY <1>2
  <2> QED BY <1>3, <2>1
<1>5. \E x \in rows : \A s \in rows : s.days >= x.days
  BY <1>4
<1> QED BY <1>5 DEF Earliest

\* A digit leads back to the year of delivery from an expiry up to four years off.
LEMMA DigitNearest ==
  ASSUME NEW year \in 2000 .. 2099, NEW code, code = year % 10,
         NEW expiry \in year - 4 .. year + 4
  PROVE  NearestYear(code, expiry) = year
<1> DEFINE decade == (expiry \div 10) * 10
           near == <<decade - 10 + code, decade + code, decade + 10 + code>>
           gap(y) == IF y < expiry THEN expiry - y ELSE y - expiry
           Best(i) == \A j \in 1 .. 3 : gap(near[i]) < gap(near[j]) \/
                                        (gap(near[i]) = gap(near[j]) /\ i <= j)
<1>1. /\ expiry \in Int /\ decade \in Int /\ code \in 0 .. 9
      /\ decade <= expiry /\ expiry < decade + 10
  OBVIOUS
<1>2. year - code = 10 * (year \div 10)
  OBVIOUS
<1>3. \E k \in Int : decade = 10 * k
  OBVIOUS
<1>4. year = decade - 10 + code \/ year = decade + code \/ year = decade + 10 + code
  BY <1>1, <1>2, <1>3
<1>5. expiry - year \in -4 .. 4
  OBVIOUS
<1> HIDE DEF decade
<1>7. PICK i \in 1 .. 3 : near[i] = year
  BY <1>4
<1>8. Best(i) /\ \A j \in 1 .. 3 : Best(j) => j = i
  <2>1. near[1] = decade - 10 + code /\ near[2] = decade + code /\ near[3] = decade + 10 + code
    OBVIOUS
  <2>2. gap(near[i]) <= 4 /\ gap(near[i]) >= 0
    BY <1>5, <1>7
  <2>3. \A j \in 1 .. 3 : j # i => gap(near[j]) >= 6
    BY <1>1, <1>5, <1>7, <2>1
  <2>4. \A j \in 1 .. 3 : gap(near[j]) \in Int
    BY <1>1, <2>1
  <2> HIDE DEF near, gap
  <2> QED BY <2>2, <2>3, <2>4
<1>9. (CHOOSE j \in 1 .. 3 : Best(j)) = i
  BY <1>8
<1>10. NearestYear(code, expiry) = near[CHOOSE j \in 1 .. 3 : Best(j)]
  BY DEF NearestYear, decade
<1> HIDE DEF near, Best
<1>11. near[CHOOSE j \in 1 .. 3 : Best(j)] = year
  BY <1>7, <1>9, Zenon
<1> QED BY <1>10, <1>11, Zenon

LEMMA DigitAhead ==
  ASSUME NEW year \in 2000 .. 2099, NEW code, code = year % 10,
         NEW today \in year - 9 .. year
  PROVE  NextYear(code, today) = year
<1> DEFINE decade == (today \div 10) * 10
<1>1. /\ today \in Int /\ decade \in Int /\ code \in 0 .. 9
      /\ decade <= today /\ today < decade + 10
  OBVIOUS
<1>2. year - code = 10 * (year \div 10)
  OBVIOUS
<1>3. \E k \in Int : decade = 10 * k
  OBVIOUS
<1>4. year = decade + code \/ year = decade + code + 10
  BY <1>1, <1>2, <1>3
<1>5. NextYear(code, today) = IF decade + code < today THEN decade + code + 10 ELSE decade + code
  BY DEF NextYear
<1> HIDE DEF decade
<1> QED BY <1>1, <1>4, <1>5

LEMMA TwoDigits ==
  ASSUME NEW year \in 2000 .. 2099, NEW code, code = year % 100
  PROVE  2000 + code = year
<1>1. year \div 100 = 20 /\ year \in Int /\ code \in Int
  OBVIOUS
<1>2. year - code = 100 * (year \div 100)
  OBVIOUS
<1> QED BY <1>1, <1>2

LEMMA YearIs ==
  ASSUME NEW q, q.year \in 2000 .. 2099, q.off \in -4 .. (IF q.dated THEN 4 ELSE 9)
  PROVE  YearRead(q) = q.year
<1> DEFINE year == q.year
           digit == year % 10
           expiry == year + q.off
           today == year - (IF q.off < 0 THEN 0 ELSE q.off)
<1>1. CASE ~q.short
  BY <1>1, TwoDigits DEF YearRead, InferYear
<1>2. CASE q.short /\ q.dated
  <2>1. q.off \in -4 .. 4
    BY <1>2
  <2>2. expiry \in year - 4 .. year + 4 /\ expiry # Open
    BY <2>1 DEF Open
  <2>3. year \in 2000 .. 2099 /\ digit = year % 10
    OBVIOUS
  <2>4. YearRead(q) = IF expiry # Open THEN NearestYear(digit, expiry) ELSE NextYear(digit, today)
    BY <1>2 DEF YearRead, InferYear
  <2> HIDE DEF year, digit, expiry, today
  <2>5. NearestYear(digit, expiry) = year
    BY <2>2, <2>3, DigitNearest
  <2> QED BY <2>2, <2>4, <2>5 DEF year
<1>3. CASE q.short /\ ~q.dated
  <2>1. q.off \in -4 .. 9
    BY <1>3
  <2>2. today \in year - 9 .. year
    BY <2>1
  <2>3. year \in 2000 .. 2099 /\ digit = year % 10
    OBVIOUS
  <2>4. YearRead(q) = NextYear(digit, today)
    BY <1>3 DEF YearRead, InferYear
  <2> HIDE DEF year, digit, expiry, today
  <2>5. NextYear(digit, today) = year
    BY <2>2, <2>3, DigitAhead
  <2> QED BY <2>4, <2>5 DEF year
<1> QED BY <1>1, <1>2, <1>3

RowsOf(rows, m) == {r \in rows : r.month = m}

LEMMA FirstOfMonthIs ==
  ASSUME NEW C, NEW low \in Int, \A r \in C : r.days \in Int /\ r.days >= low
  PROVE  LET firsts == FirstOfMonth(C)
             fits == {r \in C : r.month # Open} IN
         /\ firsts \subseteq fits
         /\ \A r \in fits : \E f \in firsts : f.month = r.month /\ r.days >= f.days
         /\ \A e, f \in firsts : e.month = f.month => e = f
<1> DEFINE months == {r.month : r \in C} \ {Open}
           E(m) == Earliest(RowsOf(C, m))
           firsts == FirstOfMonth(C)
<1>1. firsts = {E(m) : m \in months}
  BY DEF FirstOfMonth, RowsOf
<1>2. ASSUME NEW m \in months
      PROVE  /\ m # Open /\ E(m) \in C /\ E(m).month = m
             /\ \A s \in C : s.month = m => s.days >= E(m).days
  <2>1. m # Open /\ RowsOf(C, m) # {} /\ \A r \in RowsOf(C, m) : r.days \in Int /\ r.days >= low
    BY DEF RowsOf
  <2>2. E(m) \in RowsOf(C, m) /\ \A s \in RowsOf(C, m) : s.days >= E(m).days
    BY <2>1, EarliestIs
  <2> QED BY <2>1, <2>2 DEF RowsOf
<1> HIDE DEF E, firsts
<1>3. ASSUME NEW r \in C, r.month # Open
      PROVE  \E f \in firsts : f.month = r.month /\ r.days >= f.days
  <2>1. r.month \in months
    BY <1>3
  <2> QED BY <1>1, <1>2, <2>1
<1>4. \A f \in firsts : \E m \in months : f = E(m)
  BY <1>1
<1>5. \A e, f \in firsts : e.month = f.month => e = f
  BY <1>2, <1>4
<1>6. \A f \in firsts : f \in C /\ f.month # Open
  BY <1>2, <1>4
<1> QED BY <1>3, <1>5, <1>6 DEF firsts

\* The table's pick is a first to expire of what was asked for.
LEMMA FirstIs ==
  ASSUME NEW q, q.min \in Int, \A r \in q.table : r.days \in Int
  PROVE  LET fits == {r \in LoadCandidates(q) : r.month # Open}
             asked == {r \in fits : r.month = q.month}
             pool == IF q.month # Open /\ (asked # {} \/ ~q.fallback) THEN asked ELSE fits
         IN IF pool = {} THEN SelectContract(q) = {}
            ELSE \E r \in pool : SelectContract(q) = {r} /\ \A s \in pool : s.days >= r.days
<1> DEFINE C == LoadCandidates(q)
           firsts == FirstOfMonth(C)
           fits == {r \in C : r.month # Open}
           asked == {r \in fits : r.month = q.month}
<1>2. \A r \in C : r.days \in Int /\ r.days >= q.min
  BY DEF LoadCandidates
<1> HIDE DEF C, firsts
<1>5. firsts \subseteq fits
  BY <1>2, FirstOfMonthIs DEF firsts
<1>6. \A r \in fits : \E f \in firsts : f.month = r.month /\ r.days >= f.days
  BY <1>2, FirstOfMonthIs DEF firsts
<1>7. \A e, f \in firsts : e.month = f.month => e = f
  BY <1>2, FirstOfMonthIs DEF firsts
<1>8. SelectContract(q) = LET hit == {r \in firsts : r.month = q.month} IN
                          IF firsts = {} THEN {} ELSE IF hit # {} THEN hit
                          ELSE IF q.month # Open /\ ~q.fallback THEN {} ELSE {Earliest(firsts)}
  BY DEF SelectContract, PickMonth, C, firsts
<1> DEFINE hit == {r \in firsts : r.month = q.month}
<1>10. CASE firsts = {}
  <2>1. fits = {}
    BY <1>6, <1>10
  <2> QED BY <1>8, <1>10, <2>1 DEF C
<1>11. CASE hit # {}
  <2>1. PICK f \in hit : TRUE
    BY <1>11
  <2>2. hit = {f} /\ f \in asked /\ q.month # Open
    BY <1>5, <1>7, <2>1
  <2>3. \A s \in asked : s.days >= f.days
    BY <1>6, <1>7, <2>1
  <2>4. SelectContract(q) = {f}
    BY <1>8, <2>1, <2>2
  <2> QED BY <2>2, <2>3, <2>4 DEF C
<1>12. CASE firsts # {} /\ hit = {}
  <2>1. asked = {}
    BY <1>6, <1>12
  <2>2. CASE q.month # Open /\ ~q.fallback
    BY <1>8, <1>12, <2>1, <2>2 DEF C
  <2>3. CASE ~(q.month # Open /\ ~q.fallback)
    <3> DEFINE f == Earliest(firsts)
    <3>1. f \in firsts /\ \A s \in firsts : s.days >= f.days
      <4>1. \A s \in firsts : s.days \in Int /\ s.days >= q.min
        BY <1>2, <1>5
      <4> QED BY <1>2, <1>12, <4>1, EarliestIs
    <3>2. SelectContract(q) = {f}
      BY <1>8, <1>12, <2>3
    <3> HIDE DEF f
    <3>3. f \in fits /\ \A s \in fits : s.days >= f.days
      <4>1. f \in fits /\ f.days \in Int
        BY <1>2, <1>5, <3>1
      <4>2. ASSUME NEW s \in fits PROVE s.days >= f.days
        <5>1. PICK e \in firsts : s.days >= e.days
          BY <1>6
        <5>2. e.days >= f.days /\ e.days \in Int /\ s.days \in Int
          BY <1>2, <1>5, <3>1, <5>1
        <5> QED BY <4>1, <5>1, <5>2
      <4> QED BY <4>1, <4>2
    <3> QED BY <2>1, <2>3, <3>2, <3>3 DEF C
  <2> QED BY <2>2, <2>3
<1> QED BY <1>10, <1>11, <1>12

\* Of some chains one comes first.
LEMMA FirstChain ==
  ASSUME NEW S, S # {}, IsFiniteSet(S), \A c \in S : IsFiniteSet(c.strikes)
  PROVE  \E c \in S : \A d \in S : ~ChainBefore(d, c)
<1> DEFINE n(c) == Cardinality(c.strikes)
           monthly == {c \in S : ~c.weekly}
           best == IF monthly # {} THEN monthly ELSE S
           T == {n(c) : c \in best}
<1>1. best # {} /\ best \subseteq S /\ IsFiniteSet(best)
  BY FS_Subset
<1>2. \A c \in best : n(c) \in Nat
  BY <1>1, FS_CardinalityType
<1> HIDE DEF best, n
<1>3. IsFiniteSet(T) /\ T # {} /\ T \in SUBSET Nat
  <2> DEFINE f == [c \in best |-> n(c)]
  <2>1. f \in Surjection(best, T)
    BY DEF Surjection
  <2>2. IsFiniteSet(T)
    BY <1>1, <2>1, FS_Surjection
  <2> QED BY <1>1, <1>2, <2>2
<1>4. PICK k \in T : \A m \in T : m <= k
  BY <1>3, HighestOf
<1>5. PICK c \in best : k = n(c)
  BY <1>4
<1>6. \A d \in best : n(d) \in Nat /\ n(d) <= n(c)
  BY <1>2, <1>4, <1>5
<1>7. \A d \in best : ~(n(d) > n(c))
  BY <1>2, <1>5, <1>6
<1>8. ASSUME NEW d \in S, ChainBefore(d, c) PROVE FALSE
  <2>1. \/ ~d.weekly /\ c.weekly
        \/ d.weekly = c.weekly /\ n(d) > n(c)
    BY <1>8 DEF ChainBefore, n
  <2>2. CASE monthly # {}
    <3>1. ~c.weekly
      BY <1>5, <2>2 DEF best
    <3>2. ~d.weekly => d \in best
      BY <2>2 DEF best
    <3> QED BY <1>7, <2>1, <3>1, <3>2
  <2>3. CASE monthly = {}
    <3>1. d \in best /\ d.weekly
      BY <2>3 DEF best
    <3> QED BY <1>7, <2>1, <3>1
  <2> QED BY <2>2, <2>3
<1> QED BY <1>1, <1>5, <1>8

\* The chain picked lists the month and the strike asked for.
LEMMA ChainIs ==
  ASSUME NEW q, q.listed # {}, IsFiniteSet(q.listed), \A c \in q.listed : IsFiniteSet(c.strikes),
         NEW c \in SelectChain(q)
  PROVE  (q.month = Open \/ q.month \in c.months) /\ (q.strike = Open \/ q.strike \in c.strikes)
<1> DEFINE venue == IF {d \in q.listed : d.venue = "asked"} = {} THEN q.listed
                    ELSE {d \in q.listed : d.venue = "asked"}
           ofMonth == {d \in venue : q.month = Open \/ q.month \in d.months}
           month == IF ofMonth = {} THEN venue ELSE ofMonth
           ofStrike == {d \in month : q.strike = Open \/ q.strike \in d.strikes}
           cands == IF ofStrike = {} THEN month ELSE ofStrike
           Covered == /\ q.month = Open \/ \E d \in cands : q.month \in d.months
                      /\ q.strike = Open \/ \E d \in cands : q.strike \in d.strikes
<1>1. ChainCandidates(q) = cands
  BY DEF ChainCandidates
<1>2. cands # {} /\ cands \subseteq month /\ month \subseteq venue /\ venue \subseteq q.listed
  OBVIOUS
<1>3. SelectChain(q) = IF ~Covered THEN {}
                       ELSE {CHOOSE d \in cands : \A e \in cands : ~ChainBefore(e, d)}
  BY <1>1 DEF SelectChain
<1>4. \E d \in cands : \A e \in cands : ~ChainBefore(e, d)
  <2>1. IsFiniteSet(cands) /\ \A d \in cands : IsFiniteSet(d.strikes)
    BY <1>2, FS_Subset
  <2> HIDE DEF cands
  <2> QED BY <1>2, <2>1, FirstChain
<1>5. Covered => \A d \in cands : /\ q.month = Open \/ q.month \in d.months
                                  /\ q.strike = Open \/ q.strike \in d.strikes
  <2> SUFFICES ASSUME Covered, NEW d \in cands
               PROVE  /\ q.month = Open \/ q.month \in d.months
                      /\ q.strike = Open \/ q.strike \in d.strikes
    OBVIOUS
  <2>1. q.month = Open \/ ofMonth # {}
    BY <1>2
  <2>2. q.month = Open \/ q.month \in d.months
    BY <1>2, <2>1
  <2>3. q.strike = Open \/ ofStrike # {}
    BY <1>2
  <2>4. q.strike = Open \/ q.strike \in d.strikes
    BY <1>2, <2>3
  <2> QED BY <2>2, <2>4
<1>6. Covered /\ c \in cands
  <2> HIDE DEF cands, Covered
  <2> QED BY <1>3, <1>4
<1> HIDE DEF cands, Covered
<1> QED BY <1>5, <1>6

\* What a question of each kind is made of.
LEMMA QuestionParts ==
  ASSUME NEW q \in Questions
  PROVE  /\ q.kind = "year" => q.year \in Years
         /\ q.kind = "row" => q.min \in MinDays /\ q.table \in SUBSET TableRows
         /\ q.kind = "chain" => q.listed \in ChainLists
BY DEF Questions

LEMMA YearAnswer ==
  ASSUME \A y \in Years : y \in 2000 .. 2099, NEW q \in Questions, q.kind = "year",
         q.off \in -4 .. (IF q.dated THEN 4 ELSE 9)
  PROVE  AnswerTo(q) = {q.year}
<1>1. q.year \in Years
  BY QuestionParts
<1>2. q.year \in 2000 .. 2099
  BY <1>1
<1>3. YearRead(q) = q.year
  BY <1>2, YearIs
<1> QED BY <1>3 DEF AnswerTo

LEMMA RowAnswer ==
  ASSUME MinDays \subseteq Int, \A r \in TableRows : r.days \in Int,
         NEW q \in Questions, q.kind = "row"
  PROVE  LET fits == {r \in q.table : /\ r.active /\ r.days >= q.min
                                      /\ q.strike \in {Open, r.strike} /\ r.month # Open}
             asked == {r \in fits : r.month = q.month}
             pool == IF q.month # Open /\ (asked # {} \/ ~q.fallback) THEN asked ELSE fits
         IN IF pool = {} THEN AnswerTo(q) = {}
            ELSE \E r \in pool : AnswerTo(q) = {r} /\ \A s \in pool : s.days >= r.days
<1>1. q.min \in MinDays /\ q.table \in SUBSET TableRows
  BY QuestionParts
<1>2. q.min \in Int /\ \A r \in q.table : r.days \in Int
  BY <1>1, Zenon
<1>3. {r \in LoadCandidates(q) : r.month # Open} =
        {r \in q.table : /\ r.active /\ r.days >= q.min
                         /\ q.strike \in {Open, r.strike} /\ r.month # Open}
  BY DEF LoadCandidates
<1>4. AnswerTo(q) = SelectContract(q)
  BY DEF AnswerTo
<1> QED BY <1>2, <1>3, <1>4, FirstIs, Zenon

LEMMA ChainAnswer ==
  ASSUME \A list \in ChainLists : /\ list # {} /\ IsFiniteSet(list)
                                  /\ \A c \in list : IsFiniteSet(c.strikes),
         NEW q \in Questions, q.kind = "chain", NEW c \in AnswerTo(q)
  PROVE  (q.month = Open \/ q.month \in c.months) /\ (q.strike = Open \/ q.strike \in c.strikes)
<1>1. q.listed \in ChainLists
  BY QuestionParts
<1>2. q.listed # {} /\ IsFiniteSet(q.listed) /\ \A d \in q.listed : IsFiniteSet(d.strikes)
  BY <1>1, Zenon
<1>3. AnswerTo(q) = SelectChain(q)
  BY DEF AnswerTo
<1>4. c \in SelectChain(q)
  BY <1>3
<1> QED BY <1>2, <1>4, ChainIs

LEMMA AnswersRight ==
  ASSUME PicksInv PROVE PicksRight
<1>1. (\A y \in Years : y \in 2000 .. 2099) /\ MinDays \subseteq Int
  BY PicksAssumption DEF PicksTyped
<1>2. \A r \in TableRows : r.days \in Int
  BY PicksAssumption DEF PicksTyped
<1>3. \A list \in ChainLists : /\ list # {} /\ IsFiniteSet(list)
                               /\ \A c \in list : IsFiniteSet(c.strikes)
  BY PicksAssumption DEF PicksTyped
<1>4. question \in Questions /\ (answered => answer = AnswerTo(question))
  BY DEF PicksInv
<1>5. YearRecovered
  BY <1>1, <1>4, YearAnswer DEF YearRecovered
<1>6. PickIsFirst
  <2> DEFINE q == question
             fits == {r \in q.table : /\ r.active /\ r.days >= q.min
                                      /\ q.strike \in {Open, r.strike} /\ r.month # Open}
             asked == {r \in fits : r.month = q.month}
             pool == IF q.month # Open /\ (asked # {} \/ ~q.fallback) THEN asked ELSE fits
             Right(a) == IF pool = {} THEN a = {}
                         ELSE \E r \in pool : a = {r} /\ \A s \in pool : s.days >= r.days
  <2>1. ASSUME answered, q.kind = "row" PROVE Right(answer)
    <3>1. Right(AnswerTo(q))
      BY <1>1, <1>2, <1>4, <2>1, RowAnswer
    <3> HIDE DEF Right
    <3> QED BY <1>4, <2>1, <3>1
  <2>2. PickIsFirst <=> (answered /\ q.kind = "row" => Right(answer))
    BY DEF PickIsFirst
  <2> HIDE DEF Right
  <2> QED BY <2>1, <2>2
<1>7. ChainOffersBoth
  <2> SUFFICES ASSUME answered, question.kind = "chain", NEW c \in answer
               PROVE  /\ question.month \in c.months \cup {Open}
                      /\ question.strike \in c.strikes \cup {Open}
    BY DEF ChainOffersBoth
  <2>1. c \in AnswerTo(question)
    BY <1>4
  <2>2. /\ question.month = Open \/ question.month \in c.months
        /\ question.strike = Open \/ question.strike \in c.strikes
    BY <1>3, <1>4, <2>1, ChainAnswer
  <2> QED BY <2>2
<1> QED BY <1>5, <1>6, <1>7 DEF PicksRight

\* For any years, contracts, windows and lists of chains: a year code read off a
\* symbol is the year of delivery, the table's pick is a first to expire of what
\* was asked for, and no futures option is specified on a chain without its month
\* or strike (cl_contracts.py, contract_lookup.py, ibkr_select_contracts.py).
THEOREM PicksStayRight == PicksSpec => []PicksRight
<1>1. PicksInit => PicksInv
  BY DEF PicksInit, PicksInv
<1>2. PicksInv /\ [PicksNext]_pickVars => PicksInv'
  BY DEF PicksInv, PicksNext, Answer, pickVars
<1>3. PicksInv => PicksRight
  BY AnswersRight
<1> QED BY <1>1, <1>2, <1>3, PTL DEF PicksSpec
=============================================================================
