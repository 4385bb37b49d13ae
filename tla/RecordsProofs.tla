--------------------------- MODULE RecordsProofs ----------------------------
(***************************************************************************)
(* What TLAPS proves of what is kept beside the trades: the pool of broker *)
(* sessions, the contract catalogue, the history of group membership, the  *)
(* tags and tasks on orders, and the rows broker orders are copied onto.   *)
(* The components share no state.                                          *)
(***************************************************************************)
EXTENDS JobSessions, Catalogue, GroupBook, ItemLinks, OrderImport, SumTheorems,
        FiniteSetTheorems, TLAPS

-----------------------------------------------------------------------------
(* No TWS connection escapes the session pool (JobSessions). *)

\* NoSessionLeaks is not inductive: IBSessionPool.get forgets an entry whose
\* connection is broken, which is safe only because a connection the pool takes
\* for broken is one TWS no longer has.
PoolKnows ==
  /\ up = tws
  /\ tws \subseteq DOMAIN pool
  /\ loop = "stopped" => tws = {}

LEMMA PoolKnowsInit == SessionInit => PoolKnows
BY DEF SessionInit, PoolKnows

\* What get does with the entry of a key that has no connection.
LEMMA ConnectKeepsTrack ==
  ASSUME PoolKnows, NEW t, NEW p, NEW answers \in BOOLEAN, Connect(t, p, answers)
  PROVE  PoolKnows'
<1> DEFINE k == ClientOf(t, p)
<1>1. k \notin tws
  BY DEF PoolKnows, Connect
<1>2. CASE answers
  BY <1>2 DEF PoolKnows, Connect
<1>3. CASE ~answers
  <2>1. DOMAIN pool' = DOMAIN pool \ {k}
    BY <1>3 DEF Connect, Restrict
  <2>2. up' = up /\ tws' = tws /\ loop' = loop
    BY <1>3 DEF Connect
  <2> QED  BY <1>1, <2>1, <2>2 DEF PoolKnows
<1> QED  BY <1>2, <1>3

\* Closing disconnects whatever it forgets.
LEMMA CloseKeepsTrack ==
  ASSUME PoolKnows, NEW ks, Close(ks)
  PROVE  up' = tws' /\ tws' \subseteq DOMAIN pool' /\ tws' = tws \ ks
<1>1. DOMAIN pool' = DOMAIN pool \ ks
  BY DEF Close, Restrict
<1> QED  BY <1>1 DEF PoolKnows, Close

LEMMA PoolKnowsNext == PoolKnows /\ [SessionNext]_sessionVars => PoolKnows'
<1> SUFFICES ASSUME PoolKnows, [SessionNext]_sessionVars PROVE PoolKnows'
  OBVIOUS
<1>1. ASSUME NEW t \in DueTypes, NEW p \in Payloads, Reuse(t, p)
      PROVE  PoolKnows'
  BY <1>1 DEF PoolKnows, Reuse
<1>2. ASSUME NEW t \in DueTypes, NEW p \in Payloads, NEW answers \in BOOLEAN,
             Connect(t, p, answers)
      PROVE  PoolKnows'
  BY <1>2, ConnectKeepsTrack
<1>3. CASE HandlerEnds
  BY <1>3 DEF PoolKnows, HandlerEnds
<1>4. CASE EndPass
  BY <1>4, CloseKeepsTrack DEF PoolKnows, EndPass
<1>5. CASE Stop
  <2>1. tws' = {}
    BY <1>5, CloseKeepsTrack DEF PoolKnows, Stop
  <2> QED  BY <1>5, <2>1, CloseKeepsTrack DEF PoolKnows, Stop
<1>6. CASE SessionStart
  BY <1>6 DEF PoolKnows, SessionStart
<1>7. CASE SessionTick
  BY <1>7 DEF PoolKnows, SessionTick
<1>8. ASSUME NEW k \in tws, TwsDrops(k)
      PROVE  PoolKnows'
  BY <1>8 DEF PoolKnows, TwsDrops
<1>9. CASE UNCHANGED sessionVars
  BY <1>9 DEF PoolKnows, sessionVars
<1> QED  BY <1>1, <1>2, <1>3, <1>4, <1>5, <1>6, <1>7, <1>8, <1>9 DEF SessionNext

\* TWS never has a connection the pool has lost sight of, and none once the
\* worker has stopped (IBSessionPool.get, close_idle, close_all).
THEOREM NothingLeaks == SessionSpec => []NoSessionLeaks
<1>1. PoolKnows => NoSessionLeaks
  BY DEF PoolKnows, NoSessionLeaks
<1> QED  BY PoolKnowsInit, PoolKnowsNext, <1>1, PTL DEF SessionSpec

-----------------------------------------------------------------------------
(* The contract catalogue stays sound (Catalogue). *)

\* CatalogueSound is not inductive: a chain sync carries the futures it wrote
\* from one transaction to the next, and a product sync the exchange it loaded.
WorkVouched ==
  /\ contracts \in [Con -> {"absent", "active", "inactive"}]
  /\ meta \in [Options -> Futures \cup {NoFuture}]
  /\ work.kind = "specs" => work = [kind |-> "specs", todo |-> work.todo]
  /\ work.kind = "meta" => \A f \in work.front \cap Futures : contracts[f] # "absent"
  /\ work.kind = "product" => work.loaded \in vouched \cup {NoVenue}

CatInv == WorkVouched /\ CatalogueSound

\* The tables start empty and no job is under way.
LEMMA CatInitSound == CatInit => CatInv
BY DEF CatInit, CatInv, WorkVouched, CatalogueSound, MetaHasFuture, VenueNotGuessed,
       NoWork, NoFuture, NoVenue

\* No row leaves the contracts table, and the rows found are in it.
LEMMA WrittenKeepsRows ==
  ASSUME contracts \in [Con -> {"absent", "active", "inactive"}],
         NEW class, NEW found, contracts' = Written(class, found)
  PROVE  /\ contracts' \in [Con -> {"absent", "active", "inactive"}]
         /\ \A c \in Con : contracts[c] # "absent" => contracts'[c] # "absent"
         /\ \A c \in Con \cap found : contracts'[c] # "absent"
BY DEF Written

\* What a write keeps, whatever the job: futures the catalogue names stay.
LEMMA FuturesStay ==
  ASSUME CatInv, NEW class, NEW found, contracts' = Written(class, found), meta' = meta
  PROVE  MetaHasFuture'
<1>1. \A c \in Con : contracts[c] # "absent" => contracts'[c] # "absent"
  BY WrittenKeepsRows DEF CatInv, WorkVouched
<1>2. \A o \in Options : meta[o] # NoFuture => meta[o] \in Con
  BY DEF CatInv, WorkVouched, Con
<1> QED  BY <1>1, <1>2 DEF CatInv, CatalogueSound, MetaHasFuture

\* A job begins with nothing written and with the exchange it has just read.
LEMMA BeginKeeps ==
  ASSUME CatInv, NEW job, Begin(job),
         UNCHANGED <<contracts, meta, product, vouched>>,
         job.kind \in {"specs", "chain", "product"},
         job.kind = "specs" => job = [kind |-> "specs", todo |-> job.todo],
         job.kind = "product" => job.loaded = product.exchange
  PROVE  CatInv'
BY DEF CatInv, WorkVouched, CatalogueSound, MetaHasFuture, VenueNotGuessed, Begin

\* With one exchange listed, the discovered one is TWS's.
LEMMA DiscoveredIsListed ==
  ASSUME Discovered # NoVenue
  PROVE  Cardinality(Venues) = 1 /\ Discovered \in Venues
<1>1. Cardinality(Venues) = 1
  BY DEF Discovered
<1>2. Venues # {}
  BY <1>1, FS_EmptySet
<1> QED  BY <1>1, <1>2 DEF Discovered

\* Syncing a spec keeps every future the chains name.
LEMMA SyncSpecKeeps == CatInv /\ SyncSpec => CatInv'
<1> SUFFICES ASSUME CatInv, SyncSpec PROVE CatInv'
  OBVIOUS
<1> DEFINE s == Head(work.todo)
<1>1. contracts' = Written(UNION {Class(c) : c \in s}, s \cap listed)
  BY DEF SyncSpec
<1>2. contracts' \in [Con -> {"absent", "active", "inactive"}]
  BY <1>1, WrittenKeepsRows DEF CatInv, WorkVouched
<1>3. MetaHasFuture'
  BY <1>1, FuturesStay DEF SyncSpec
<1>4. work' = NoWork \/ work' = [kind |-> "specs", todo |-> Tail(work.todo)]
  BY DEF SyncSpec, CatInv, WorkVouched
<1>5. work'.kind \in {"none", "specs"}
      /\ (work'.kind = "specs" => work' = [kind |-> "specs", todo |-> work'.todo])
  BY <1>4 DEF NoWork
<1> QED  BY <1>2, <1>3, <1>5
         DEF SyncSpec, CatInv, WorkVouched, CatalogueSound, VenueNotGuessed

\* The front futures of a chain sync are rows before its chains name them.
LEMMA SyncFrontKeeps == CatInv /\ SyncFront => CatInv'
<1> SUFFICES ASSUME CatInv, SyncFront PROVE CatInv'
  OBVIOUS
<1> DEFINE front == FrontFutures({Under[o] : o \in work.options} \cap listed)
<1>1. contracts' = Written(Futures, front)
      /\ work' = [kind |-> "meta", front |-> front, options |-> work.options]
  BY DEF SyncFront
<1> HIDE DEF front
<1>2. contracts' \in [Con -> {"absent", "active", "inactive"}]
      /\ \A f \in front \cap Futures : contracts'[f] # "absent"
  BY <1>1, WrittenKeepsRows DEF CatInv, WorkVouched, Con
<1>3. MetaHasFuture'
  BY <1>1, FuturesStay DEF SyncFront
<1>4. UNCHANGED <<meta, product, vouched>>
  BY DEF SyncFront
<1>5. work'.kind = "meta" /\ work'.front = front
  BY <1>1
<1> QED  BY <1>2, <1>3, <1>4, <1>5
         DEF CatInv, WorkVouched, CatalogueSound, VenueNotGuessed

\* A chain is stored for a front future that is a row by then.
LEMMA StoreMetaKeeps == CatInv /\ StoreMeta => CatInv'
<1> SUFFICES ASSUME CatInv, StoreMeta PROVE CatInv'
  OBVIOUS
<1>1. \A o \in ChainRows \cap Options :
        Under[o] \in Futures /\ contracts[Under[o]] # "absent"
  BY CatalogueAssumption DEF ChainRows, StoreMeta, CatInv, WorkVouched
<1>2. meta' \in [Options -> Futures \cup {NoFuture}] /\ MetaHasFuture'
  BY <1>1 DEF StoreMeta, CatInv, WorkVouched, CatalogueSound, MetaHasFuture
<1> QED  BY <1>2 DEF StoreMeta, CatInv, WorkVouched, CatalogueSound, VenueNotGuessed, NoWork

\* A product gets an exchange the operator named or the only one there was.
LEMMA SyncProductKeeps == CatInv /\ SyncProduct => CatInv'
<1> SUFFICES ASSUME CatInv, SyncProduct PROVE CatInv'
  OBVIOUS
<1> DEFINE exchange == IF work.loaded # NoVenue THEN work.loaded ELSE Discovered
<1>1. meta' = meta /\ work' = NoWork /\ work.loaded \in vouched \cup {NoVenue}
      /\ vouched' = vouched \cup (IF Cardinality(Venues) = 1 THEN Venues ELSE {})
  BY DEF SyncProduct, CatInv, WorkVouched
<1>2. exchange \in vouched' \cup {NoVenue}
  BY <1>1, DiscoveredIsListed
<1>3. VenueNotGuessed'
  <2>1. product.exchange \in vouched \cup {NoVenue}
    BY DEF CatInv, CatalogueSound, VenueNotGuessed
  <2>2. product'.exchange \in {product.exchange, exchange}
    <3>1. CASE exchange = NoVenue
      <4>1. product' = [product EXCEPT !.status = IF Venues = {} THEN "unknown_symbol"
                                                      ELSE "needs_disambiguation"]
        BY <3>1 DEF SyncProduct
      <4> QED  BY <4>1
    <3>2. CASE exchange # NoVenue
      BY <3>2 DEF SyncProduct
    <3> QED  BY <3>1, <3>2
  <2> QED  BY <1>1, <1>2, <2>1, <2>2 DEF VenueNotGuessed
<1>4. contracts' \in [Con -> {"absent", "active", "inactive"}] /\ MetaHasFuture'
  <2>1. CASE contracts' = contracts
    BY <1>1, <2>1 DEF CatInv, WorkVouched, CatalogueSound, MetaHasFuture
  <2>2. ASSUME NEW window, contracts' = Written(Futures, window)
        PROVE  contracts' \in [Con -> {"absent", "active", "inactive"}] /\ MetaHasFuture'
    BY <1>1, <2>2, FuturesStay, WrittenKeepsRows DEF CatInv, WorkVouched
  <2> QED  BY <2>1, <2>2 DEF SyncProduct
<1> QED  BY <1>1, <1>3, <1>4 DEF CatInv, WorkVouched, CatalogueSound, NoWork

\* Every step keeps the invariant.
LEMMA CatNextSound == CatInv /\ [CatNext]_catVars => CatInv'
<1> SUFFICES ASSUME CatInv, [CatNext]_catVars PROVE CatInv'
  OBVIOUS
<1> USE DEF CatInv, WorkVouched, CatalogueSound, MetaHasFuture, VenueNotGuessed
<1>1. ASSUME NEW c \in Con, List(c) PROVE CatInv'
  BY <1>1 DEF List
<1>2. CASE Calendar
  BY <1>2 DEF Calendar
<1>3. CASE JobFails
  BY <1>3 DEF JobFails, NoWork
<1>4. ASSUME NEW specs, StartSpecs(specs) PROVE CatInv'
  BY <1>4, BeginKeeps DEF StartSpecs
<1>5. ASSUME NEW o \in Options, LookUp(Options, {o}) PROVE CatInv'
  BY <1>4, <1>5 DEF LookUp
<1>6. ASSUME NEW v, SetExchange(v) PROVE CatInv'
  <2>1. product'.exchange \in {v, product.exchange}
    BY <1>6 DEF SetExchange
  <2> QED  BY <1>6, <2>1 DEF SetExchange
<1>7. CASE SyncSpec
  BY <1>7, SyncSpecKeeps
<1>8. CASE StartChain
  BY <1>8, BeginKeeps DEF StartChain
<1>9. CASE SyncFront
  BY <1>9, SyncFrontKeeps
<1>10. CASE StoreMeta
  BY <1>10, StoreMetaKeeps
<1>11. CASE StartProduct
  BY <1>11, BeginKeeps DEF StartProduct
<1>12. CASE SyncProduct
  BY <1>12, SyncProductKeeps
<1>13. CASE UNCHANGED catVars
  BY <1>13 DEF catVars
<1> QED  BY <1>1, <1>2, <1>3, <1>4, <1>5, <1>6, <1>7, <1>8, <1>9, <1>10, <1>11, <1>12, <1>13
         DEF CatNext

\* However jobs fail between their transactions and whatever TWS lists, each
\* chain hangs on a future of the table and no exchange is a guess
\* (sync_contracts, sync_futures_chain, _sync_one_product).
THEOREM CatalogueStaysSound == CatSpec => []CatalogueSound
<1>1. CatInv => CatalogueSound
  BY DEF CatInv
<1> QED  BY CatInitSound, CatNextSound, <1>1, PTL DEF CatSpec

-----------------------------------------------------------------------------
(* The history tells the group (GroupBook). *)

Ids == GroupIds \cup {NoId}
Events == [type : {"assigned", "reassigned", "handed", "unassigned"}, from : Ids, to : Ids]

\* What a request in flight carries: fills that have settled and, where it
\* assigns, the groups it read them in.
RequestRead(req) ==
  \/ req = AtRest
  \/ /\ req.kind \in {"assign", "unassign", "delete"}
     /\ req.group \in GroupIds
     /\ req.fills \subseteq settledFills
     /\ req.kind = "assign" => req.from \in [GroupFills -> Ids]

\* HistoryTellsGroup speaks of settled fills only: a fill must settle with an
\* empty history, and no request may write of one that has not settled.
GroupTyped ==
  /\ settledFills \subseteq GroupFills /\ there \subseteq GroupIds
  /\ member \in [GroupFills -> Ids]
  /\ history \in [GroupFills -> Seq(Events)]
  /\ \A f \in GroupFills \ settledFills : history[f] = << >> /\ member[f] = NoId
  /\ \A c \in Callers : RequestRead(inFlight[c])
  /\ DOMAIN inFlight = Callers

GroupInv == GroupTyped /\ HistoryTellsGroup

\* The history starts empty.
LEMMA GroupInitTells == GroupInit => GroupInv
BY DEF GroupInit, GroupInv, GroupTyped, HistoryTellsGroup, Ids, RequestRead

\* What HistoryTellsGroup says of one fill, of its events and of where it is.
Tells(events, now) ==
  /\ now # NoId => LeftIn(events, Len(events), now)
  /\ \A i \in 1 .. Len(events) :
       events[i].type = "reassigned" /\ events[i].from # NoId =>
         LeftIn(events, i - 1, events[i].from)

\* The property, fill by fill.
LEMMA TellsEach ==
  HistoryTellsGroup <=> \A f \in settledFills : Tells(history[f], member[f])
BY DEF HistoryTellsGroup, Tells

\* One more event, a move that starts where the fill is or no move.
LEMMA MoveTells ==
  ASSUME NEW events \in Seq(Events), NEW now, Tells(events, now),
         NEW e \in Events, NEW new,
         e.type = "reassigned" => e.from = now,
         \/ e.type # "unassigned" /\ new = e.to
         \/ e.type = "unassigned" /\ new \in {now, NoId}
  PROVE  Tells(Append(events, e), new)
<1> DEFINE n == Len(events)
           more == Append(events, e)
<1>1. /\ n \in Nat /\ Len(more) = n + 1 /\ more[n + 1] = e
      /\ \A i \in 1 .. n : more[i] = events[i]
  OBVIOUS
<1> HIDE DEF more, n
<1>2. \A i \in 0 .. n : \A g : LeftIn(events, i, g) => LeftIn(more, i, g)
  <2> SUFFICES ASSUME NEW i \in 0 .. n, NEW g, LeftIn(events, i, g)
               PROVE  LeftIn(more, i, g)
    OBVIOUS
  <2>1. \A j \in 1 .. i : more[j] = events[j]
    BY <1>1
  <2> QED  BY <2>1 DEF LeftIn
<1>3. now # NoId => LeftIn(events, n, now)
  BY DEF Tells, n
<1>4. new # NoId => LeftIn(more, n + 1, new)
  <2>1. CASE e.type # "unassigned"
    BY <1>1, <2>1 DEF LeftIn
  <2>2. ASSUME e.type = "unassigned", new # NoId
        PROVE  LeftIn(more, n + 1, new)
    <3>1. new = now
      BY <2>2
    <3>2. PICK i \in 1 .. n : /\ events[i].type # "unassigned" /\ events[i].to = new
                             /\ \A j \in i + 1 .. n : events[j].type = "unassigned"
      BY <1>3, <2>2, <3>1 DEF LeftIn
    <3>3. /\ i \in 1 .. n + 1 /\ more[i].type # "unassigned" /\ more[i].to = new
          /\ \A j \in i + 1 .. n + 1 : more[j].type = "unassigned"
      BY <1>1, <2>2, <3>2
    <3> QED  BY <3>3 DEF LeftIn
  <2> QED  BY <2>1, <2>2
<1>5. ASSUME NEW i \in 1 .. n + 1, more[i].type = "reassigned", more[i].from # NoId
      PROVE  LeftIn(more, i - 1, more[i].from)
  <2>1. CASE i = n + 1
    BY <1>1, <1>2, <1>3, <1>5, <2>1
  <2>2. CASE i \in 1 .. n
    BY <1>1, <1>2, <1>5, <2>2 DEF Tells, n
  <2> QED  BY <1>1, <2>1, <2>2
<1> QED  BY <1>1, <1>4, <1>5 DEF Tells, more

\* A deletion takes the group's name out of the history, and the fill with it.
LEMMA NulledTells ==
  ASSUME NEW events \in Seq(Events), NEW now, Tells(events, now),
         NEW g \in GroupIds
  PROVE  /\ Nulled(events, g) \in Seq(Events)
         /\ Tells(Nulled(events, g), IF now = g THEN NoId ELSE now)
<1> DEFINE n == Len(events)
           left == Nulled(events, g)
           kept(id) == IF id = g THEN NoId ELSE id
<1>1. n \in Nat /\ DOMAIN events = 1 .. n /\ \A i \in 1 .. n : events[i] \in Events
  OBVIOUS
<1> HIDE DEF kept
<1>2. ASSUME NEW i \in 1 .. n
      PROVE  /\ left[i].type = events[i].type /\ left[i].from = kept(events[i].from)
             /\ left[i].to = kept(events[i].to) /\ left[i] \in Events
  <2>1. events[i] \in Events
    BY <1>1
  <2>2. left[i] = [type |-> events[i].type, from |-> kept(events[i].from),
                   to |-> kept(events[i].to)]
    BY <1>1, <2>1 DEF Nulled, Events, kept
  <2>3. kept(events[i].from) \in Ids /\ kept(events[i].to) \in Ids
    BY <2>1 DEF Events, Ids, kept
  <2> QED  BY <2>1, <2>2, <2>3 DEF Events
<1>3. \A i \in 1 .. n : left[i] \in Events
  BY <1>2
<1>4. left \in Seq(Events) /\ Len(left) = n
  <2>1. left \in [1 .. n -> Events]
    BY <1>1, <1>3 DEF Nulled
  <2> QED  BY <1>1, <2>1
<1> HIDE DEF left, n
<1>5. \A i \in 0 .. n : \A h :
        h # g /\ h # NoId /\ LeftIn(events, i, h) => LeftIn(left, i, h)
  BY <1>1, <1>2 DEF LeftIn, kept
<1>6. \A i \in 1 .. n : left[i].type = events[i].type /\ left[i].from = kept(events[i].from)
  BY <1>2
<1>7. Tells(left, kept(now))
  <2>1. kept(now) # NoId => LeftIn(left, Len(left), kept(now))
    <3>1. kept(now) # NoId => now # NoId /\ now # g /\ kept(now) = now
      BY DEF kept
    <3>2. now # NoId => LeftIn(events, n, now)
      BY DEF Tells, n
    <3> QED  BY <1>1, <1>4, <1>5, <3>1, <3>2
  <2>2. ASSUME NEW i \in 1 .. Len(left), left[i].type = "reassigned", left[i].from # NoId
        PROVE  LeftIn(left, i - 1, left[i].from)
    <3>1. i \in 1 .. n /\ i - 1 \in 0 .. n
      BY <1>1, <1>4
    <3>2. /\ events[i].type = "reassigned" /\ events[i].from # NoId /\ events[i].from # g
          /\ left[i].from = events[i].from
      BY <1>6, <2>2, <3>1 DEF kept
    <3>3. LeftIn(events, i - 1, events[i].from)
      BY <3>1, <3>2 DEF Tells, n
    <3> QED  BY <1>5, <3>1, <3>2, <3>3
  <2> QED  BY <2>1, <2>2 DEF Tells
<1> QED  BY <1>4, <1>7 DEF left, kept

\* A deleted group changes nothing in an empty history.
LEMMA NothingNulled == \A g : Nulled(<< >>, g) = << >>
<1> TAKE g
<1> DEFINE left == Nulled(<< >>, g)
<1>1. left \in [1 .. 0 -> Events]
  BY DEF Nulled
<1>2. left \in Seq(Events) /\ Len(left) = 0
  BY <1>1
<1> QED  BY <1>2

-----------------------------------------------------------------------------

\* A new group is in no history.
LEMMA CreateKeeps == GroupInv /\ (\E g \in GroupIds : CreateGroup(g)) => GroupInv'
<1> SUFFICES ASSUME GroupInv, NEW g \in GroupIds, CreateGroup(g) PROVE GroupInv'
  OBVIOUS
<1>1. UNCHANGED <<settledFills, member, history, inFlight>>
      /\ there' = there \cup {g}
  BY DEF CreateGroup
<1>2. GroupTyped'
  BY <1>1 DEF GroupInv, GroupTyped, RequestRead
<1> QED  BY <1>1, <1>2 DEF GroupInv, HistoryTellsGroup

\* A handoff adds its entry, a move of a fill that was in no group.
LEMMA HandedTells ==
  ASSUME GroupInv, NEW f \in GroupFills, NEW g \in GroupIds, HandedOver(f, g),
         Tells(history[f], member[f])
  PROVE  /\ member' = [member EXCEPT ![f] = g]
         /\ \A x \in GroupFills \ {f} : history'[x] = history[x]
         /\ history'[f] \in Seq(Events) /\ DOMAIN history' = GroupFills
         /\ Tells(history'[f], member'[f])
<1> DEFINE e == [type |-> "handed", from |-> NoId, to |-> g]
<1>1. history[f] \in Seq(Events) /\ DOMAIN history = GroupFills
      /\ f \in DOMAIN member
  BY DEF GroupInv, GroupTyped
<1>2. e \in Events /\ e.type = "handed" /\ e.to = g
  BY DEF Events, Ids
<1>3. member' = [member EXCEPT ![f] = g] /\ history' = [history EXCEPT ![f] = Append(@, e)]
  BY DEF HandedOver
<1> HIDE DEF e
<1>4. history'[f] = Append(history[f], e) /\ member'[f] = g
  BY <1>1, <1>3
<1>5. Tells(Append(history[f], e), g)
  BY <1>1, <1>2, MoveTells
<1>6. Append(history[f], e) \in Seq(Events)
  BY <1>1, <1>2
<1>7. /\ \A x \in GroupFills \ {f} : history'[x] = history[x]
      /\ DOMAIN history' = GroupFills
  BY <1>1, <1>3
<1> QED  BY <1>3, <1>4, <1>5, <1>6, <1>7

\* A fill settles with an empty history, or with its handoff alone.
LEMMA SettleKeeps ==
  ASSUME GroupInv, NEW f \in GroupFills, Settle(f)
  PROVE  GroupInv'
<1>1. /\ settledFills' = settledFills \cup {f} /\ f \notin settledFills
      /\ UNCHANGED <<there, inFlight>>
      /\ UNCHANGED <<member, history>> \/ \E g \in GroupIds : HandedOver(f, g)
  BY DEF Settle
<1>2. history[f] = << >>
  BY <1>1 DEF GroupInv, GroupTyped
<1>3. \A x \in settledFills : x \in GroupFills /\ x # f /\ Tells(history[x], member[x])
  BY <1>1, TellsEach DEF GroupInv, GroupTyped
<1>4. CASE UNCHANGED <<member, history>>
  <2>1. member[f] # NoId => FALSE
    BY <1>1 DEF GroupInv, GroupTyped
  <2>2. Tells(history'[f], member'[f])
    BY <1>2, <1>4, <2>1 DEF Tells
  <2>3. \A x \in settledFills' : Tells(history'[x], member'[x])
    BY <1>1, <1>3, <1>4, <2>2
  <2>4. GroupTyped'
    BY <1>1, <1>4 DEF GroupInv, GroupTyped, RequestRead
  <2> QED  BY <2>3, <2>4 DEF GroupInv, HistoryTellsGroup, Tells
<1>5. ASSUME NEW g \in GroupIds, HandedOver(f, g) PROVE GroupInv'
  <2>1. Tells(history[f], member[f])
    BY <1>2, <1>5 DEF HandedOver, Tells
  <2>2. /\ member' = [member EXCEPT ![f] = g]
        /\ \A x \in GroupFills \ {f} : history'[x] = history[x]
        /\ history'[f] \in Seq(Events) /\ DOMAIN history' = GroupFills
        /\ Tells(history'[f], member'[f])
    BY <1>5, <2>1, HandedTells
  <2>3. \A x \in settledFills' : Tells(history'[x], member'[x])
    BY <1>1, <1>3, <2>2 DEF GroupInv, GroupTyped
  <2>4. member' \in [GroupFills -> Ids] /\ history' \in [GroupFills -> Seq(Events)]
    <3>1. \A x \in GroupFills : history'[x] \in Seq(Events)
      BY <2>2 DEF GroupInv, GroupTyped
    <3>2. history' = [x \in GroupFills |-> history'[x]]
      BY <1>5 DEF HandedOver, GroupInv, GroupTyped
    <3> QED  BY <2>2, <3>1, <3>2 DEF GroupInv, GroupTyped, Ids
  <2>5. GroupTyped'
    <3>1. \A x \in GroupFills \ settledFills' : history'[x] = << >> /\ member'[x] = NoId
      BY <1>1, <2>2 DEF GroupInv, GroupTyped
    <3>2. \A c \in Callers : RequestRead(inFlight[c])'
      BY <1>1 DEF GroupInv, GroupTyped, RequestRead
    <3> QED  BY <1>1, <2>4, <3>1, <3>2 DEF GroupInv, GroupTyped
  <2> QED  BY <2>3, <2>5 DEF GroupInv, HistoryTellsGroup, Tells
<1> QED  BY <1>1, <1>4, <1>5

\* A later handoff adds the same entry to what there is.
LEMMA HandOverKeeps ==
  ASSUME GroupInv, NEW f \in GroupFills, NEW g \in GroupIds, HandOver(f, g)
  PROVE  GroupInv'
<1>1. /\ f \in settledFills /\ HandedOver(f, g)
      /\ UNCHANGED <<there, settledFills, inFlight>>
  BY DEF HandOver
<1>2. \A x \in settledFills : x \in GroupFills /\ Tells(history[x], member[x])
  BY TellsEach DEF GroupInv, GroupTyped
<1>3. /\ member' = [member EXCEPT ![f] = g]
      /\ \A x \in GroupFills \ {f} : history'[x] = history[x]
      /\ history'[f] \in Seq(Events) /\ DOMAIN history' = GroupFills
      /\ Tells(history'[f], member'[f])
  BY <1>1, <1>2, HandedTells
<1>4. \A x \in settledFills' : Tells(history'[x], member'[x])
  BY <1>1, <1>2, <1>3 DEF GroupInv, GroupTyped
<1>5. member' \in [GroupFills -> Ids] /\ history' \in [GroupFills -> Seq(Events)]
  <2>1. \A x \in GroupFills : history'[x] \in Seq(Events)
    BY <1>3 DEF GroupInv, GroupTyped
  <2>2. history' = [x \in GroupFills |-> history'[x]]
    BY <1>1 DEF HandedOver, GroupInv, GroupTyped
  <2> QED  BY <1>3, <2>1, <2>2 DEF GroupInv, GroupTyped, Ids
<1>6. GroupTyped'
  <2>1. \A x \in GroupFills \ settledFills' : history'[x] = << >> /\ member'[x] = NoId
    BY <1>1, <1>3 DEF GroupInv, GroupTyped
  <2>2. \A c \in Callers : RequestRead(inFlight[c])'
    BY <1>1 DEF GroupInv, GroupTyped, RequestRead
  <2> QED  BY <1>1, <1>5, <2>1, <2>2 DEF GroupInv, GroupTyped
<1> QED  BY <1>4, <1>6 DEF GroupInv, HistoryTellsGroup, Tells

\* A request that has read what it needs changes nothing yet.
LEMMA OpenKeeps ==
  ASSUME GroupInv, NEW c \in Callers, NEW req, Open(c, req), RequestRead(req)
  PROVE  GroupInv'
<1>1. /\ inFlight' = [inFlight EXCEPT ![c] = req]
      /\ UNCHANGED <<there, settledFills, member, history>>
  BY DEF Open
<1>2. \A d \in Callers : RequestRead(inFlight'[d])
  BY <1>1 DEF GroupInv, GroupTyped
<1> HIDE DEF RequestRead
<1>3. GroupTyped'
  BY <1>1, <1>2 DEF GroupInv, GroupTyped, RequestRead
<1> QED  BY <1>1, <1>3 DEF GroupInv, HistoryTellsGroup

\* A request that begins reads and writes nothing.
LEMMA BeginKeepsGroups ==
  ASSUME GroupInv, NEW c \in Callers, NEW g \in GroupIds
  PROVE  /\ BeginDelete(c, g) => GroupInv'
         /\ \A fs, force : BeginAssign(c, g, fs, force) \/ BeginUnassign(c, g, fs) => GroupInv'
<1>1. ASSUME BeginDelete(c, g) PROVE GroupInv'
  <2>1. RequestRead([kind |-> "delete", group |-> g, fills |-> InGroup(g)])
    BY DEF RequestRead, InGroup
  <2> QED  BY <1>1, <2>1, OpenKeeps DEF BeginDelete
<1>2. ASSUME NEW fs, BeginUnassign(c, g, fs) PROVE GroupInv'
  <2>1. RequestRead([kind |-> "unassign", group |-> g, fills |-> fs])
    BY <1>2 DEF RequestRead, BeginUnassign, InGroup
  <2> QED  BY <1>2, <2>1, OpenKeeps DEF BeginUnassign
<1>3. ASSUME NEW fs, NEW force, BeginAssign(c, g, fs, force) PROVE GroupInv'
  <2> DEFINE req == [kind |-> "assign", group |-> g, fills |-> fs \ InGroup(g), asked |-> fs,
                     from |-> member, owned |-> account[g] # NoId]
  <2>1. fs \subseteq settledFills /\ member \in [GroupFills -> Ids]
    BY <1>3 DEF BeginAssign, GroupInv, GroupTyped
  <2>2. RequestRead(req)
    BY <2>1 DEF RequestRead
  <2> QED  BY <1>3, <2>2, OpenKeeps DEF BeginAssign
<1> QED  BY <1>1, <1>2, <1>3

\* Every end of a request: its caller is at rest, and what is left to show is
\* about the fills.
LEMMA FinishKeeps ==
  ASSUME GroupInv, NEW c \in Callers, Finish(c), there' \subseteq GroupIds,
         member' \in [GroupFills -> Ids],
         history' \in [GroupFills -> Seq(Events)],
         \A f \in GroupFills \ settledFills :
           history'[f] = history[f] /\ member'[f] = NoId,
         \A f \in settledFills : Tells(history'[f], member'[f])
  PROVE  GroupInv'
<1>1. /\ inFlight' = [inFlight EXCEPT ![c] = AtRest]
      /\ settledFills' = settledFills
  BY DEF Finish
<1>2. \A d \in Callers : RequestRead(inFlight'[d])
  BY <1>1 DEF GroupInv, GroupTyped, RequestRead
<1>3. GroupTyped'
  BY <1>1, <1>2 DEF GroupInv, GroupTyped, RequestRead
<1> QED  BY <1>1, <1>3 DEF GroupInv, HistoryTellsGroup, Tells

\* The rows of an assignment are still where it read them, so that each move
\* it writes starts from the group the fill is in.
LEMMA AssignKeeps == ASSUME GroupInv, NEW c \in Callers, CommitAssign(c) PROVE GroupInv'
<1> DEFINE req == inFlight[c]
<1>1. /\ req.group \in GroupIds /\ req.fills \subseteq settledFills
      /\ req.from \in [GroupFills -> Ids]
  BY DEF CommitAssign, GroupInv, GroupTyped, RequestRead, AtRest
<1>2. /\ \A f \in req.fills : member[f] = req.from[f]
      /\ member' = [f \in GroupFills |-> IF f \in req.fills THEN req.group ELSE member[f]]
      /\ history' = [f \in GroupFills |->
                       IF f \in req.fills THEN Append(history[f], MovedTo(req, f)) ELSE history[f]]
      /\ there' = there /\ Finish(c)
  BY DEF CommitAssign, StillThere
<1> HIDE DEF req
<1>3. ASSUME NEW f \in req.fills
      PROVE  /\ MovedTo(req, f) \in Events /\ MovedTo(req, f).type # "unassigned"
             /\ MovedTo(req, f).to = req.group
             /\ MovedTo(req, f).type = "reassigned" => MovedTo(req, f).from = member[f]
  <2>1. f \in GroupFills /\ req.from[f] \in Ids
    BY <1>1 DEF GroupInv, GroupTyped
  <2>2. CASE req.from[f] = NoId
    <3>1. MovedTo(req, f) = [type |-> "assigned", from |-> NoId, to |-> req.group]
      BY <2>2 DEF MovedTo
    <3> QED  BY <1>1, <3>1 DEF Events, Ids
  <2>3. CASE req.from[f] # NoId
    <3>1. MovedTo(req, f) = [type |-> "reassigned", from |-> req.from[f], to |-> req.group]
      BY <2>3 DEF MovedTo
    <3> QED  BY <1>1, <1>2, <2>1, <3>1 DEF Events, Ids
  <2> QED  BY <2>2, <2>3
<1>4. ASSUME NEW f \in settledFills
      PROVE  Tells(history'[f], member'[f])
  <2>1. f \in GroupFills /\ history[f] \in Seq(Events) /\ Tells(history[f], member[f])
    BY TellsEach DEF GroupInv, GroupTyped
  <2>2. CASE f \in req.fills
    <3>1. history'[f] = Append(history[f], MovedTo(req, f)) /\ member'[f] = req.group
      BY <1>2, <2>1, <2>2
    <3> QED  BY <1>3, <2>1, <2>2, <3>1, MoveTells
  <2>3. CASE f \notin req.fills
    BY <1>2, <2>1, <2>3
  <2> QED  BY <2>2, <2>3
<1>5. member' \in [GroupFills -> Ids] /\ history' \in [GroupFills -> Seq(Events)]
  <2>1. ASSUME NEW f \in req.fills PROVE Append(history[f], MovedTo(req, f)) \in Seq(Events)
    <3>1. f \in GroupFills /\ history[f] \in Seq(Events)
      BY <1>1 DEF GroupInv, GroupTyped
    <3>2. MovedTo(req, f) \in Events
      BY <1>3
    <3> QED  BY <3>1, <3>2
  <2> QED  BY <1>1, <1>2, <2>1 DEF GroupInv, GroupTyped, Ids
<1>6. \A f \in GroupFills \ settledFills :
        history'[f] = history[f] /\ member'[f] = NoId
  BY <1>1, <1>2 DEF GroupInv, GroupTyped
<1> QED  BY <1>2, <1>4, <1>5, <1>6, FinishKeeps DEF GroupInv, GroupTyped

\* What unassigning and deleting write: an event that is no move, for fills
\* that are in the group or have left it.
LEMMA TakenOutTells ==
  ASSUME GroupInv, NEW req, RequestRead(req), req # AtRest,
         NEW f \in settledFills, NEW now, now \in {member[f], NoId}
  PROVE  LET events == IF f \in req.fills THEN Append(history[f], TakenOut(req)) ELSE history[f]
         IN  events \in Seq(Events) /\ Tells(events, now)
<1>1. f \in GroupFills /\ history[f] \in Seq(Events) /\ Tells(history[f], member[f])
  BY TellsEach DEF GroupInv, GroupTyped
<1>2. TakenOut(req) \in Events /\ TakenOut(req).type = "unassigned"
  BY DEF TakenOut, Events, Ids, RequestRead
<1>3. CASE f \in req.fills
  <2>1. Append(history[f], TakenOut(req)) \in Seq(Events)
    BY <1>1, <1>2
  <2>2. Tells(Append(history[f], TakenOut(req)), now)
    BY <1>1, <1>2, MoveTells
  <2> QED  BY <1>3, <2>1, <2>2
<1>4. CASE f \notin req.fills
  BY <1>1, <1>4 DEF Tells
<1> QED  BY <1>3, <1>4

\* An unassignment takes out its group's fills and logs so.
LEMMA UnassignKeeps == ASSUME GroupInv, NEW c \in Callers, CommitUnassign(c) PROVE GroupInv'
<1> DEFINE req == inFlight[c]
<1>1. RequestRead(req) /\ req.kind = "unassign" /\ req # AtRest
  BY DEF CommitUnassign, GroupInv, GroupTyped, AtRest
<1>2. /\ member' = [f \in GroupFills |->
                      IF f \in req.fills /\ member[f] = req.group THEN NoId ELSE member[f]]
      /\ history' = [f \in GroupFills |->
                       IF f \in req.fills THEN Append(history[f], TakenOut(req)) ELSE history[f]]
      /\ there' = there /\ Finish(c)
  BY DEF CommitUnassign
<1> HIDE DEF req
<1>3. ASSUME NEW f \in settledFills
      PROVE  history'[f] \in Seq(Events) /\ Tells(history'[f], member'[f])
  <2>1. f \in GroupFills /\ member'[f] \in {member[f], NoId}
    BY <1>2 DEF GroupInv, GroupTyped
  <2> QED  BY <1>1, <1>2, <2>1, TakenOutTells
<1>4. \A f \in GroupFills \ settledFills :
        history'[f] = history[f] /\ member'[f] = NoId
  BY <1>1, <1>2 DEF RequestRead, GroupInv, GroupTyped
<1>5. member' \in [GroupFills -> Ids] /\ history' \in [GroupFills -> Seq(Events)]
  BY <1>2, <1>3, <1>4 DEF GroupInv, GroupTyped, Ids
<1> QED  BY <1>2, <1>3, <1>4, <1>5, FinishKeeps DEF GroupInv, GroupTyped

\* A group goes with its rows, and its name from the history.
LEMMA DeleteKeeps == ASSUME GroupInv, NEW c \in Callers, CommitDelete(c) PROVE GroupInv'
<1> DEFINE req == inFlight[c]
           written == [f \in GroupFills |->
                    IF f \in req.fills THEN Append(history[f], TakenOut(req)) ELSE history[f]]
<1>1. RequestRead(req) /\ req.kind = "delete" /\ req # AtRest /\ req.group \in GroupIds
  BY DEF CommitDelete, GroupInv, GroupTyped, RequestRead, AtRest
<1>2. /\ there' = there \ {req.group}
      /\ member' = [f \in GroupFills |-> IF member[f] = req.group THEN NoId ELSE member[f]]
      /\ history' = [f \in GroupFills |-> Nulled(written[f], req.group)]
      /\ Finish(c)
  BY DEF CommitDelete
<1> HIDE DEF req
<1>3. ASSUME NEW f \in settledFills
      PROVE  history'[f] \in Seq(Events) /\ Tells(history'[f], member'[f])
  <2>1. f \in GroupFills /\ history'[f] = Nulled(written[f], req.group)
        /\ member'[f] = IF member[f] = req.group THEN NoId ELSE member[f]
    BY <1>2 DEF GroupInv, GroupTyped
  <2>2. written[f] \in Seq(Events) /\ Tells(written[f], member[f])
    BY <1>1, <2>1, TakenOutTells
  <2> HIDE DEF written
  <2> QED  BY <1>1, <2>1, <2>2, NulledTells
<1>4. ASSUME NEW f \in GroupFills \ settledFills
      PROVE  history'[f] = history[f] /\ member'[f] = NoId
  <2>1. history[f] = << >> /\ written[f] = << >>
    BY <1>1 DEF RequestRead, GroupInv, GroupTyped
  <2>2. history'[f] = Nulled(<< >>, req.group)
    BY <1>2, <2>1
  <2>3. member'[f] = NoId
    BY <1>2 DEF GroupInv, GroupTyped
  <2> HIDE DEF written
  <2> QED  BY <2>1, <2>2, <2>3, NothingNulled
<1>5. member' \in [GroupFills -> Ids] /\ history' \in [GroupFills -> Seq(Events)]
  BY <1>2, <1>3, <1>4 DEF GroupInv, GroupTyped, Ids
<1>6. there' \subseteq GroupIds
  BY <1>2 DEF GroupInv, GroupTyped
<1> QED  BY <1>2, <1>3, <1>4, <1>5, <1>6, FinishKeeps

\* A refused request writes nothing.
LEMMA RefusedKeeps == ASSUME GroupInv, NEW c \in Callers, Refused(c) PROVE GroupInv'
<1>1. UNCHANGED <<there, member, history>> /\ Finish(c)
  BY DEF Refused
<1> QED  BY <1>1, FinishKeeps, TellsEach DEF GroupInv, GroupTyped

\* Every step keeps the invariant.
LEMMA GroupNextTells == GroupInv /\ [GroupNext]_groupVars => GroupInv'
<1> SUFFICES ASSUME GroupInv, [GroupNext]_groupVars PROVE GroupInv'
  OBVIOUS
<1>1. CASE \E g \in GroupIds : CreateGroup(g)
  BY <1>1, CreateKeeps
<1>2. CASE \E f \in GroupFills : Settle(f) \/ \E g \in GroupIds : HandOver(f, g)
  BY <1>2, SettleKeeps, HandOverKeeps
<1>3. ASSUME NEW c \in Callers, NEW g \in GroupIds,
             \/ BeginDelete(c, g)
             \/ \E fs \in SUBSET GroupFills \ {{}} :
                  \/ \E force \in BOOLEAN : BeginAssign(c, g, fs, force)
                  \/ BeginUnassign(c, g, fs)
      PROVE  GroupInv'
  BY <1>3, BeginKeepsGroups
<1>4. ASSUME NEW c \in Callers,
             CommitAssign(c) \/ CommitUnassign(c) \/ CommitDelete(c) \/ Refused(c)
      PROVE  GroupInv'
  BY <1>4, AssignKeeps, UnassignKeeps, DeleteKeeps, RefusedKeeps
<1>5. CASE UNCHANGED groupVars
  BY <1>5 DEF groupVars, GroupInv, GroupTyped, RequestRead, HistoryTellsGroup
<1> QED  BY <1>1, <1>2, <1>3, <1>4, <1>5 DEF GroupNext

\* However requests and handoffs overlap, the last move or handoff of a fill says
\* where it is, and each reassignment on record starts where the one before led
\* (trade_groups.py:576-683 and group_link_carryover.py:111-130, deletions
\* included).
THEOREM HistoryStaysTrue == GroupSpec => []HistoryTellsGroup
<1>1. GroupInv => HistoryTellsGroup
  BY DEF GroupInv
<1> QED  BY GroupInitTells, GroupNextTells, <1>1, PTL DEF GroupSpec

-----------------------------------------------------------------------------
(* Links are where the user put them (ItemLinks). *)

\* A permId, and an orderId next to a permId TWS left at zero, name one order: a
\* fill reaches no other order's fills by either.
IdsNameOrders ==
  \A f, g \in Fills : SameOrder(f, g) \/ SameKey(f, g) => OrderOf[f] = OrderOf[g]

\* Rows of different tables are different rows.
TablesApart == Tags \cap Tasks = {} /\ Orders \cap Groups = {}

Items == {Live(f) : f \in Fills} \cup {TradeItem(o) : o \in Orders} \cup {Row(g) : g \in Groups}

\* A request under way would tag one subject only, the one it names; a merge
\* has two tags that stay until it ends, for nothing else ends a tag.
Requests ==
  {Idle} \cup [kind : {"attach", "detach"}, owner : Owners, item : Items,
               items : SUBSET Items, fresh : BOOLEAN]
Merges ==
  {Idle} \cup [kind : {"merge"}, source : Tags, target : Tags, items : SUBSET Items]

LinksTyped ==
  /\ filled \subseteq Fills /\ live \subseteq Fills /\ settled \subseteq filled
  /\ links \subseteq Owners \X Items
  /\ owners \subseteq Owners /\ groups \subseteq Groups
  /\ request \in Requests /\ merge \in Merges

\* What a request read is there, or has settled since.
Backed(i) ==
  /\ i.kind = "live" => i.id \in live \cup settled
  /\ i.kind = "trade" => \E f \in settled : OrderOf[f] = i.id
RequestAims ==
  request.kind = "attach" =>
    /\ request.items # {}
    /\ \A i \in request.items : Subject(i) = Subject(request.item) /\ Backed(i)
MergeAims ==
  merge.kind = "merge" =>
    /\ merge.source # merge.target /\ merge.source \in owners /\ merge.target \in owners
    /\ \A i \in merge.items : Backed(i)

LinksInv == LinksTyped /\ RequestAims /\ MergeAims /\ NothingDangles /\ wanted = Linked(links)
-----------------------------------------------------------------------------
LEMMA ItemFacts ==
  /\ \A f : Live(f).kind = "live" /\ Live(f).id = f /\ Subject(Live(f)) = OrderOf[f]
  /\ \A o : TradeItem(o).kind = "trade" /\ TradeItem(o).id = o /\ Subject(TradeItem(o)) = o
  /\ \A g : Row(g).kind = "row" /\ Row(g).id = g /\ Subject(Row(g)) = g
BY DEF Live, TradeItem, Row, Subject

LEMMA ItemsAre ==
  ASSUME NEW i \in Items
  PROVE  \/ i.kind = "live" /\ i.id \in Fills /\ i = Live(i.id)
         \/ i.kind = "trade" /\ i.id \in Orders /\ i = TradeItem(i.id)
         \/ i.kind = "row" /\ i.id \in Groups /\ i = Row(i.id)
BY ItemFacts DEF Items

LEMMA LinkedIs ==
  ASSUME NEW table
  PROVE  \A w, x : <<w, x>> \in Linked(table) <=> \E l \in table : l[1] = w /\ Subject(l[2]) = x
BY DEF Linked

LEMMA LinkedPairs ==
  ASSUME NEW A, NEW B,
         \A l \in A : \E k \in B : k[1] = l[1] /\ Subject(k[2]) = Subject(l[2]),
         \A l \in B : \E k \in A : k[1] = l[1] /\ Subject(k[2]) = Subject(l[2])
  PROVE  Linked(A) = Linked(B)
BY DEF Linked

LEMMA OneOwnerSays ==
  ASSUME NEW w, NEW items
  PROVE  {<<l[1], Subject(l[2])>> : l \in {<<w, i>> : i \in items}} = {<<w, Subject(i)>> : i \in items}
<1> DEFINE new == {<<w, i>> : i \in items}
<1>1. ASSUME NEW i \in items
      PROVE  <<w, Subject(i)>> \in {<<l[1], Subject(l[2])>> : l \in new}
  <2>1. <<w, i>> \in new /\ <<w, i>>[1] = w /\ <<w, i>>[2] = i
    OBVIOUS
  <2> QED  BY <2>1
<1>2. ASSUME NEW l \in new
      PROVE  <<l[1], Subject(l[2])>> \in {<<w, Subject(i)>> : i \in items}
  <2>1. PICK i \in items : l = <<w, i>>
    OBVIOUS
  <2>2. l[1] = w /\ l[2] = i
    BY <2>1
  <2> QED  BY <2>2
<1> QED  BY <1>1, <1>2

\* Carrying a link from a fill to its trade leaves what it says.
LEMMA CarriedSays ==
  ASSUME LinksAssumption, NEW table \in SUBSET (Owners \X Items), NEW fs \in SUBSET Fills
  PROVE  /\ Carried(table, fs) \in SUBSET (Owners \X Items)
         /\ Linked(Carried(table, fs)) = Linked(table)
         /\ \A l \in Carried(table, fs) :
              /\ \E k \in table : k[1] = l[1]
              /\ \/ l \in table /\ \A f \in fs : l[2] # Live(f)
                 \/ \E f \in fs : l[2] = TradeItem(OrderOf[f])
<1> DEFINE rest == {l \in table : \A f \in fs : l[2] # Live(f)}
           moved == UNION {{<<w, TradeItem(OrderOf[f])>> : w \in CarriedOwners(table, f)} : f \in fs}
<1>1. Carried(table, fs) = rest \cup moved
  BY DEF Carried
<1>2. ASSUME NEW l \in moved
      PROVE  \E f \in fs, k \in table : /\ k[2] = Live(f) /\ k[1] \in Owners
                                        /\ l = <<k[1], TradeItem(OrderOf[f])>>
  BY <1>2 DEF CarriedOwners
<1>3. ASSUME NEW k \in table, NEW f \in fs, k[2] = Live(f)
      PROVE  <<k[1], TradeItem(OrderOf[f])>> \in moved
  BY <1>3 DEF CarriedOwners
<1> HIDE DEF moved
<1>4. \A f \in fs : OrderOf[f] \in Orders /\ TradeItem(OrderOf[f]) \in Items
  BY DEF LinksAssumption, Items
<1>5. ASSUME NEW l \in moved
      PROVE  /\ l \in Owners \X Items /\ \E f \in fs : l[2] = TradeItem(OrderOf[f])
             /\ \E k \in table : k[1] = l[1] /\ Subject(k[2]) = Subject(l[2])
  BY <1>2, <1>4, ItemFacts
<1>6. ASSUME NEW k \in table
      PROVE  \E l \in rest \cup moved : l[1] = k[1] /\ Subject(l[2]) = Subject(k[2])
  <2>1. CASE \A f \in fs : k[2] # Live(f)
    BY <2>1
  <2>2. ASSUME NEW f \in fs, k[2] = Live(f)
        PROVE  \E l \in rest \cup moved : l[1] = k[1] /\ Subject(l[2]) = Subject(k[2])
    <3> DEFINE l == <<k[1], TradeItem(OrderOf[f])>>
    <3>1. l \in moved
      BY <2>2, <1>3
    <3>2. l[1] = k[1] /\ Subject(l[2]) = Subject(k[2])
      BY <2>2, ItemFacts
    <3> QED  BY <3>1, <3>2
  <2> QED  BY <2>1, <2>2
<1>7. Linked(rest \cup moved) = Linked(table)
  BY <1>5, <1>6, LinkedPairs
<1> QED  BY <1>1, <1>5, <1>7

\* So does giving a live fill the links of its order's others.
LEMMA InheritedSays ==
  ASSUME LinksAssumption, IdsNameOrders,
         NEW table \in SUBSET (Owners \X Items), NEW fs \in SUBSET Fills
  PROVE  /\ Inherited(table, fs) \in SUBSET (Owners \X Items)
         /\ Linked(Inherited(table, fs)) = Linked(table)
         /\ \A l \in Inherited(table, fs) :
              /\ \E k \in table : k[1] = l[1]
              /\ l \in table \/ \E f \in fs : l[2] = Live(f)
<1> DEFINE new == UNION {{<<w, Live(f)>> : w \in UNION {CarriedOwners(table, g) :
                            g \in {g \in fs : SameKey(f, g)}}} : f \in fs}
<1>1. Inherited(table, fs) = table \cup new
  BY DEF Inherited
<1>2. ASSUME NEW l \in new
      PROVE  \E f \in fs, g \in fs, k \in table :
               /\ SameKey(f, g) /\ k[2] = Live(g) /\ l = <<k[1], Live(f)>>
  BY <1>2 DEF CarriedOwners
<1> HIDE DEF new
<1>3. \A f \in fs : Live(f) \in Items
  BY DEF Items
<1>4. ASSUME NEW l \in new
      PROVE  /\ l \in Owners \X Items /\ \E f \in fs : l[2] = Live(f)
             /\ \E k \in table : k[1] = l[1] /\ Subject(k[2]) = Subject(l[2])
  <2>1. PICK f \in fs, g \in fs, k \in table :
          SameKey(f, g) /\ k[2] = Live(g) /\ l = <<k[1], Live(f)>>
    BY <1>2
  <2>2. OrderOf[f] = OrderOf[g]
    BY <2>1 DEF IdsNameOrders
  <2> QED  BY <2>1, <2>2, <1>3, ItemFacts
<1>5. Linked(table \cup new) = Linked(table)
  BY <1>4, LinkedPairs
<1> QED  BY <1>1, <1>4, <1>5

\* Moving a tag's links renames the tag in what they say.
LEMMA MovedSays ==
  ASSUME NEW table \in SUBSET (Owners \X Items), NEW s \in Tags, NEW t \in Tags, s # t,
         NEW items \in SUBSET Items
  PROVE  /\ Moved(table, s, t, items) \in SUBSET (Owners \X Items)
         /\ Linked(Moved(table, s, t, items)) =
              {x \in Linked(table) : x[1] # s} \cup {<<t, Subject(i)>> : i \in items}
<1>1. Moved(table, s, t, items) \in SUBSET (Owners \X Items)
  BY DEF Moved, Owners
<1>2. Linked(Moved(table, s, t, items)) =
        {<<l[1], Subject(l[2])>> : l \in {l \in table : l[1] # s}} \cup
        {<<t, Subject(i)>> : i \in items}
  <2> DEFINE rest == {l \in table : l[1] # s}
             new == {<<t, i>> : i \in items}
  <2>1. {<<l[1], Subject(l[2])>> : l \in rest \cup new} =
          {<<l[1], Subject(l[2])>> : l \in rest} \cup {<<l[1], Subject(l[2])>> : l \in new}
    OBVIOUS
  <2>2. {<<l[1], Subject(l[2])>> : l \in new} = {<<t, Subject(i)>> : i \in items}
    BY OneOwnerSays
  <2> QED  BY <2>1, <2>2 DEF Moved, Linked
<1>3. {<<l[1], Subject(l[2])>> : l \in {l \in table : l[1] # s}} = {x \in Linked(table) : x[1] # s}
  BY DEF Linked
<1> QED  BY <1>1, <1>2, <1>3
-----------------------------------------------------------------------------
\* The items of a reference stand for what the reference stands for.
LEMMA ExpandedSays ==
  ASSUME IdsNameOrders, live \subseteq Fills, NEW i \in Items
  PROVE  /\ Expanded(i) \subseteq Items
         /\ \A j \in Expanded(i) : Subject(j) = Subject(i) /\ Backed(j)
<1>1. CASE i.kind = "live"
  <2>1. i.id \in Fills /\ i = Live(i.id)
    BY <1>1, ItemsAre
  <2>2. ASSUME NEW j \in Expanded(i)
        PROVE  \E g \in live : j = Live(g) /\ SameOrder(i.id, g)
    BY <1>1, <2>2 DEF Expanded
  <2>3. ASSUME NEW j \in Expanded(i)
        PROVE  j \in Items /\ Subject(j) = Subject(i) /\ Backed(j)
    <3>1. PICK g \in live : j = Live(g) /\ SameOrder(i.id, g)
      BY <2>2
    <3>2. OrderOf[i.id] = OrderOf[g]
      BY <2>1, <3>1 DEF IdsNameOrders
    <3> QED  BY <2>1, <3>1, <3>2, ItemFacts DEF Items, Backed
  <2> QED  BY <2>3
<1>2. CASE i.kind # "live"
  <2>1. Expanded(i) \in {{i}, {}}
    BY <1>2 DEF Expanded
  <2>2. Expanded(i) = {i} /\ i.kind = "trade" => \E f \in settled : OrderOf[f] = i.id
    BY DEF Expanded
  <2>3. Expanded(i) = {i} => Backed(i)
    BY <1>2, <2>2 DEF Backed
  <2> QED  BY <2>1, <2>3
<1> QED  BY <1>1, <1>2

LEMMA LinksStart == LinksInit => LinksInv
<1> SUFFICES ASSUME LinksInit PROVE LinksInv
  OBVIOUS
<1>1. LinksTyped
  BY DEF LinksInit, LinksTyped, Owners, Requests, Merges
<1>2. RequestAims /\ MergeAims
  BY DEF LinksInit, RequestAims, MergeAims, Idle
<1>3. NothingDangles /\ wanted = Linked(links)
  BY DEF LinksInit, NothingDangles, Linked
<1> QED  BY <1>1, <1>2, <1>3 DEF LinksInv

\* The syncs move links and take none away.
LEMMA SyncsKeep ==
  ASSUME LinksAssumption, IdsNameOrders, LinksInv,
         SyncIntraday \/ (\E fs \in SUBSET Fills : SyncFlex(fs))
  PROVE  LinksInv'
<1>0. /\ live \subseteq Fills /\ settled \subseteq Fills /\ filled \subseteq Fills
      /\ links \in SUBSET (Owners \X Items)
  BY DEF LinksInv, LinksTyped
<1>1. ASSUME links' \in SUBSET (Owners \X Items), Linked(links') = Linked(links),
             \A l \in links' : \E k \in links : k[1] = l[1],
             \A l \in links' : \/ l \in links /\ (l[2].kind = "live" /\ l[2].id \in live =>
                                                  l[2].id \in live')
                               \/ l[2].kind = "live" /\ l[2].id \in live'
                               \/ \E f \in settled' : l[2] = TradeItem(OrderOf[f]),
             late' = late \cap links',
             live' \subseteq Fills, settled' \subseteq filled,
             settled \subseteq settled', live \subseteq live' \cup settled',
             UNCHANGED <<filled, owners, groups, request, merge, wanted>>
      PROVE  LinksInv'
  <2>1. \A i : Backed(i) => Backed(i)'
    BY <1>1 DEF Backed
  <2>2. LinksTyped'
    BY <1>1 DEF LinksInv, LinksTyped
  <2>3. RequestAims' /\ MergeAims'
    BY <1>1, <2>1 DEF LinksInv, RequestAims, MergeAims
  <2>4. ASSUME NEW l \in links'
        PROVE  /\ l[1] \in owners'
               /\ l[2].kind = "row" => l[2].id \in groups'
               /\ l[2].kind = "trade" => \E f \in settled' : OrderOf[f] = l[2].id
               /\ l[2].kind = "live" => \/ l[2].id \in live'
                                        \/ l \in late' /\ l[2].id \in settled'
    <3>1. l[1] \in owners'
      BY <1>1 DEF LinksInv, NothingDangles
    <3>2. CASE l \in links /\ (l[2].kind = "live" /\ l[2].id \in live => l[2].id \in live')
      BY <1>1, <3>1, <3>2 DEF LinksInv, NothingDangles
    <3>3. CASE l[2].kind = "live" /\ l[2].id \in live'
      BY <3>1, <3>3
    <3>4. CASE \E f \in settled' : l[2] = TradeItem(OrderOf[f])
      BY <3>1, <3>4, ItemFacts
    <3> QED  BY <1>1, <3>2, <3>3, <3>4
  <2>5. NothingDangles'
    BY <1>1, <2>4 DEF NothingDangles
  <2>6. wanted' = Linked(links)'
    BY <1>1 DEF LinksInv, Linked
  <2> QED  BY <2>2, <2>3, <2>5, <2>6 DEF LinksInv
<1>2. CASE SyncIntraday
  <2> DEFINE gone == (live \cup filled) \cap settled
             kept == (live \cup filled) \ gone
             over == Carried(links, gone)
             table == Inherited(over, kept)
  <2>1. /\ over \in SUBSET (Owners \X Items) /\ Linked(over) = Linked(links)
        /\ \A l \in over : /\ \E k \in links : k[1] = l[1]
                           /\ \/ l \in links /\ \A f \in gone : l[2] # Live(f)
                              \/ \E f \in gone : l[2] = TradeItem(OrderOf[f])
    BY <1>0, CarriedSays
  <2>0. kept \in SUBSET Fills
    BY <1>0
  <2> HIDE DEF over, kept
  <2>2. /\ table \in SUBSET (Owners \X Items) /\ Linked(table) = Linked(over)
        /\ \A l \in table : /\ \E k \in over : k[1] = l[1]
                            /\ l \in over \/ \E f \in kept : l[2] = Live(f)
    BY <2>0, <2>1, InheritedSays
  <2>3. /\ links' = table /\ live' = kept /\ settled' = settled /\ late' = late \cap links'
        /\ UNCHANGED <<filled, owners, groups, request, merge, wanted>>
    BY <1>2 DEF SyncIntraday, over, kept
  <2>4. settled \subseteq filled
    BY DEF LinksInv, LinksTyped
  <2> HIDE DEF table
  <2>5. kept \subseteq Fills /\ gone \subseteq settled /\ live \subseteq kept \cup settled
    BY <1>0 DEF kept
  <2>6. ASSUME NEW l \in links
        PROVE  l[2].kind = "live" => l[2] = Live(l[2].id)
    BY <1>0, ItemsAre
  <2>7. ASSUME NEW l \in table
        PROVE  /\ \E k \in links : k[1] = l[1]
               /\ \/ l \in links /\ (l[2].kind = "live" /\ l[2].id \in live =>
                                     l[2].id \in kept)
                  \/ l[2].kind = "live" /\ l[2].id \in kept
                  \/ \E f \in settled : l[2] = TradeItem(OrderOf[f])
    <3>1. \E k \in links : k[1] = l[1]
      BY <2>1, <2>2
    <3>2. CASE \E f \in kept : l[2] = Live(f)
      BY <3>1, <3>2, ItemFacts
    <3>3. CASE l \in links /\ \A f \in gone : l[2] # Live(f)
      BY <2>6, <3>1, <3>3 DEF kept
    <3>4. CASE \E f \in gone : l[2] = TradeItem(OrderOf[f])
      BY <2>5, <3>1, <3>4
    <3> QED  BY <2>1, <2>2, <3>2, <3>3, <3>4
  <2> HIDE DEF gone
  <2> QED  BY <1>1, <2>1, <2>2, <2>3, <2>4, <2>5, <2>7
<1>3. ASSUME NEW fs \in SUBSET Fills, SyncFlex(fs)
      PROVE  LinksInv'
  <2> DEFINE after == settled \cup fs
             orphans == live \cap Renamed \cap after
             ended == (after \ Renamed) \cup orphans
             table == Carried(links, ended)
  <2>1. /\ table \in SUBSET (Owners \X Items) /\ Linked(table) = Linked(links)
        /\ \A l \in table : /\ \E k \in links : k[1] = l[1]
                            /\ \/ l \in links /\ \A f \in ended : l[2] # Live(f)
                               \/ \E f \in ended : l[2] = TradeItem(OrderOf[f])
    BY <1>0, CarriedSays
  <2>2. /\ links' = table /\ live' = live \ orphans /\ settled' = after
        /\ late' = late \cap links'
        /\ fs \subseteq filled /\ UNCHANGED <<filled, owners, groups, request, merge, wanted>>
    BY <1>3 DEF SyncFlex
  <2> HIDE DEF table
  <2>3. /\ live \ orphans \subseteq Fills /\ after \subseteq filled /\ settled \subseteq after
        /\ live \subseteq (live \ orphans) \cup after /\ ended \subseteq after
    BY <1>0, <2>2 DEF LinksInv, LinksTyped
  <2>4. ASSUME NEW l \in table
        PROVE  \/ l \in links /\ (l[2].kind = "live" /\ l[2].id \in live =>
                                  l[2].id \in live \ orphans)
               \/ \E f \in after : l[2] = TradeItem(OrderOf[f])
    <3>1. CASE l \in links /\ \A f \in ended : l[2] # Live(f)
      <4>1. l[2].kind = "live" => l[2] = Live(l[2].id)
        BY <1>0, <3>1, ItemsAre
      <4> QED  BY <3>1, <4>1
    <3>2. CASE \E f \in ended : l[2] = TradeItem(OrderOf[f])
      BY <2>3, <3>2
    <3> QED  BY <2>1, <3>1, <3>2
  <2> HIDE DEF after, orphans, ended
  <2> QED  BY <1>1, <2>1, <2>2, <2>3, <2>4
<1> QED  BY <1>2, <1>3

\* What a request reads.
LEMMA RequestsBegin ==
  ASSUME LinksAssumption, IdsNameOrders, LinksInv, NEW verb \in {"attach", "detach"},
         NEW w \in Owners, NEW i \in Items, BeginRequest(verb, w, i)
  PROVE  LinksInv'
<1>1. PICK items : /\ items = IF verb = "detach" /\ w \in Tasks /\ Expanded(i) = {} THEN {i}
                              ELSE Expanded(i)
                   /\ items # {}
                   /\ request' = [kind |-> verb, owner |-> w, item |-> i, items |-> items,
                                  fresh |-> w \notin owners]
  BY DEF BeginRequest
<1>2. /\ items \subseteq Items
      /\ verb = "attach" => \A j \in items : Subject(j) = Subject(i) /\ Backed(j)
  BY <1>1, ExpandedSays DEF LinksInv, LinksTyped
<1>3. request' \in Requests
  BY <1>1, <1>2 DEF Requests
<1>5. UNCHANGED <<filled, live, settled, links, owners, groups, merge, wanted, late>>
  BY DEF BeginRequest
<1>4. RequestAims'
  BY <1>1, <1>2, <1>5 DEF RequestAims, Backed
<1> QED
  BY <1>3, <1>4, <1>5 DEF LinksInv, LinksTyped, MergeAims, NothingDangles, Linked, Backed

\* What it writes.
LEMMA AttachKeeps ==
  ASSUME LinksInv, FinishAttach
  PROVE  LinksInv'
<1> DEFINE w == request.owner
           new == {<<w, i>> : i \in request.items}
           ok == /\ IF request.fresh THEN w \notin owners ELSE w \in owners
                 /\ \A i \in request.items : i.kind = "row" => i.id \in groups
<1>1. /\ request.kind = "attach" /\ request' = Idle
      /\ UNCHANGED <<filled, live, settled, groups, merge>>
      /\ IF ok THEN /\ links' = links \cup new
                    /\ owners' = owners \cup {w}
                    /\ wanted' = wanted \cup {<<w, Subject(request.item)>>}
                    /\ late' = late \cup OnPurged(new)
               ELSE UNCHANGED <<links, owners, wanted, late>>
  BY DEF FinishAttach
<1>2. w \in Owners /\ request.items \subseteq Items
  BY <1>1 DEF LinksInv, LinksTyped, Requests, Idle
<1>3. request' \in Requests /\ RequestAims'
  BY <1>1 DEF Requests, RequestAims, Idle
<1>4. CASE ~ok
  BY <1>1, <1>3, <1>4 DEF LinksInv, LinksTyped, MergeAims, NothingDangles, Linked, Backed
<1>5. CASE ok
  <2>1. /\ links' = links \cup new /\ owners' = owners \cup {w}
        /\ wanted' = wanted \cup {<<w, Subject(request.item)>>}
        /\ late' = late \cup OnPurged(new)
    BY <1>1, <1>5
  <2>2. LinksTyped'
    BY <1>1, <1>2, <1>3, <2>1 DEF LinksInv, LinksTyped
  <2>3. MergeAims'
    BY <1>1, <2>1 DEF LinksInv, MergeAims, Backed
  <2>4. NothingDangles'
    <3>1. ASSUME NEW l \in new
          PROVE  /\ l[1] \in owners' /\ l[2] \in request.items
                 /\ l[2].kind = "live" /\ l[2].id \notin live => l \in late'
      BY <2>1 DEF OnPurged
    <3> HIDE DEF new
    <3>2. ASSUME NEW l \in new
          PROVE  /\ l[2].kind = "row" => l[2].id \in groups
                 /\ l[2].kind = "trade" => \E f \in settled : OrderOf[f] = l[2].id
                 /\ l[2].kind = "live" => l[2].id \in live \cup settled
      BY <1>1, <1>5, <3>1 DEF LinksInv, RequestAims, Backed
    <3>3. \A l \in links : /\ l[1] \in owners'
                           /\ l[2].kind = "live" =>
                                \/ l[2].id \in live
                                \/ l \in late' /\ l[2].id \in settled
      BY <2>1 DEF LinksInv, NothingDangles
    <3> QED  BY <1>1, <2>1, <3>1, <3>2, <3>3 DEF LinksInv, NothingDangles
  <2>5. Linked(links \cup new) = Linked(links) \cup {<<w, Subject(request.item)>>}
    <3>1. Linked(links \cup new) = Linked(links) \cup {<<l[1], Subject(l[2])>> : l \in new}
      BY DEF Linked
    <3>2. {<<l[1], Subject(l[2])>> : l \in new} = {<<w, Subject(i)>> : i \in request.items}
      BY OneOwnerSays
    <3>3. {<<w, Subject(i)>> : i \in request.items} = {<<w, Subject(request.item)>>}
      BY <1>1 DEF LinksInv, RequestAims
    <3> QED  BY <3>1, <3>2, <3>3
  <2>6. wanted' = Linked(links')
    BY <2>1, <2>5 DEF LinksInv
  <2> QED  BY <1>3, <2>2, <2>3, <2>4, <2>6 DEF LinksInv, Linked
<1> QED  BY <1>4, <1>5

LEMMA DetachKeeps ==
  ASSUME LinksInv, FinishDetach
  PROVE  LinksInv'
<1> DEFINE left == links \ {<<request.owner, i>> : i \in request.items}
<1>1. /\ links' = left /\ wanted' = wanted \ (Linked(links) \ Linked(left)) /\ request' = Idle
      /\ late' = late \cap left
      /\ UNCHANGED <<filled, live, settled, owners, groups, merge>>
  BY DEF FinishDetach
<1>2. left \subseteq links
  OBVIOUS
<1> HIDE DEF left
<1>3. Linked(left) \subseteq Linked(links)
  BY <1>2 DEF Linked
<1>4. wanted' = Linked(links')
  BY <1>1, <1>3 DEF LinksInv
<1>5. request' \in Requests /\ RequestAims'
  BY <1>1 DEF Requests, RequestAims, Idle
<1>6. LinksTyped' /\ MergeAims' /\ NothingDangles'
  BY <1>1, <1>2, <1>5 DEF LinksInv, LinksTyped, MergeAims, NothingDangles, Backed
<1> QED  BY <1>4, <1>5, <1>6 DEF LinksInv, Linked

LEMMA MergesKeep ==
  ASSUME TablesApart, LinksInv, (\E s, t \in Tags : BeginMerge(s, t)) \/ FinishMerge
  PROVE  LinksInv'
<1>0. links \in SUBSET (Owners \X Items)
  BY DEF LinksInv, LinksTyped
<1>1. ASSUME NEW s \in Tags, NEW t \in Tags, BeginMerge(s, t)
      PROVE  LinksInv'
  <2> DEFINE read == {l[2] : l \in {l \in links : l[1] = s}}
  <2>1. /\ merge' = [kind |-> "merge", source |-> s, target |-> t, items |-> read]
        /\ s # t /\ {s, t} \subseteq owners
        /\ UNCHANGED <<filled, live, settled, links, owners, groups, request, wanted, late>>
    BY <1>1 DEF BeginMerge
  <2>2. read \subseteq Items /\ \A i \in read : Backed(i)
    BY <1>0 DEF LinksInv, NothingDangles, Backed
  <2> HIDE DEF read
  <2>3. merge' \in Merges
    BY <2>1, <2>2 DEF Merges
  <2>4. MergeAims'
    BY <2>1, <2>2 DEF MergeAims, Backed
  <2> QED  BY <2>1, <2>3, <2>4 DEF LinksInv, LinksTyped, RequestAims, NothingDangles, Linked, Backed
<1>2. CASE FinishMerge
  <2> DEFINE s == merge.source
             t == merge.target
             ok == \A i \in merge.items : i.kind = "row" => i.id \in groups
  <2>1. /\ merge.kind = "merge" /\ merge' = Idle
        /\ UNCHANGED <<filled, live, settled, groups, request>>
        /\ IF ok THEN /\ links' = Moved(links, s, t, merge.items)
                      /\ wanted' = {x \in wanted : x[1] # s} \cup
                                     {<<t, Subject(i)>> : i \in merge.items}
                      /\ owners' = owners \ {s}
                      /\ late' = (late \cap links') \cup OnPurged(links' \ links)
                 ELSE UNCHANGED <<links, wanted, owners, late>>
    BY <1>2 DEF FinishMerge
  <2>2. s \in Tags /\ t \in Tags /\ merge.items \in SUBSET Items
    BY <2>1 DEF LinksInv, LinksTyped, Merges, Idle
  <2>3. s # t /\ t \in owners
    BY <2>1 DEF LinksInv, MergeAims
  <2>4. merge' \in Merges /\ MergeAims'
    BY <2>1 DEF Merges, MergeAims, Idle
  <2>5. CASE ~ok
    BY <2>1, <2>4, <2>5 DEF LinksInv, LinksTyped, RequestAims, NothingDangles, Linked, Backed
  <2>6. CASE ok
    <3>1. /\ links' = Moved(links, s, t, merge.items) /\ owners' = owners \ {s}
          /\ wanted' = {x \in wanted : x[1] # s} \cup {<<t, Subject(i)>> : i \in merge.items}
          /\ late' = (late \cap links') \cup OnPurged(links' \ links)
      BY <2>1, <2>6
    <3>2. links' \in SUBSET (Owners \X Items) /\ wanted' = Linked(links')
      BY <1>0, <2>2, <2>3, <3>1, MovedSays DEF LinksInv
    <3>3. LinksTyped'
      BY <2>1, <2>4, <3>1, <3>2 DEF LinksInv, LinksTyped
    <3>4. NothingDangles'
      <4>1. \A l \in links' : (l \in links /\ l[1] # s) \/ (\E i \in merge.items : l = <<t, i>>)
        BY <3>1 DEF Moved
      <4> HIDE DEF s, t
      <4>2. \A l \in links' \ links : l[2].kind = "live" /\ l[2].id \notin live => l \in late'
        BY <3>1 DEF OnPurged
      <4>3. ASSUME NEW l \in links', l \in links, l[1] # s
            PROVE  /\ l[1] \in owners'
                   /\ l[2].kind = "row" => l[2].id \in groups
                   /\ l[2].kind = "trade" => \E f \in settled : OrderOf[f] = l[2].id
                   /\ l[2].kind = "live" => \/ l[2].id \in live
                                            \/ l \in late' /\ l[2].id \in settled
        BY <3>1, <4>3 DEF LinksInv, NothingDangles
      <4>4. ASSUME NEW l \in links', NEW i \in merge.items, l = <<t, i>>, l \notin links
            PROVE  /\ l[1] \in owners'
                   /\ l[2].kind = "row" => l[2].id \in groups
                   /\ l[2].kind = "trade" => \E f \in settled : OrderOf[f] = l[2].id
                   /\ l[2].kind = "live" => \/ l[2].id \in live
                                            \/ l \in late' /\ l[2].id \in settled
        <5>1. Backed(i) /\ (i.kind = "row" => i.id \in groups)
          BY <2>1, <2>6 DEF LinksInv, MergeAims
        <5>2. l[1] = t /\ l[2] = i /\ t \in owners'
          BY <2>3, <3>1, <4>4
        <5> QED  BY <4>2, <4>4, <5>1, <5>2 DEF Backed
      <4>5. t # s
        BY <2>3
      <4>6. \A l \in links' : \/ l \in links /\ l[1] # s
                              \/ l \notin links /\ \E i \in merge.items : l = <<t, i>>
        <5>1. ASSUME NEW l \in links', NEW i \in merge.items, l = <<t, i>>
              PROVE  l[1] # s
          BY <4>5, <5>1
        <5>2. ASSUME NEW l \in links'
              PROVE  \/ l \in links /\ l[1] # s
                     \/ l \notin links /\ \E i \in merge.items : l = <<t, i>>
          <6>1. CASE l \in links
            BY <4>1, <5>1, <6>1
          <6>2. CASE l \notin links
            BY <4>1, <6>2
          <6> QED  BY <6>1, <6>2
        <5> QED  BY <5>2
      <4>7. ASSUME NEW l \in links'
            PROVE  /\ l[1] \in owners'
                   /\ l[2].kind = "row" => l[2].id \in groups
                   /\ l[2].kind = "trade" => \E f \in settled : OrderOf[f] = l[2].id
                   /\ l[2].kind = "live" => \/ l[2].id \in live
                                            \/ l \in late' /\ l[2].id \in settled
        BY <4>3, <4>4, <4>6
      <4>8. live \subseteq Fills /\ settled \subseteq filled
        BY DEF LinksInv, NothingDangles
      <4> QED  BY <2>1, <4>7, <4>8 DEF NothingDangles
    <3> QED  BY <2>1, <2>4, <3>2, <3>3, <3>4 DEF LinksInv, RequestAims, Linked, Backed
  <2> QED  BY <2>5, <2>6
<1> QED  BY <1>1, <1>2

\* A deletion takes its row's links and nothing else: no task is a tag and no
\* order another table's row.
LEMMA DeletionsKeep ==
  ASSUME LinksAssumption, TablesApart, LinksInv, (\E k \in Tasks : DeleteTask(k)) \/ (\E g \in Groups : DeleteGroup(g))
  PROVE  LinksInv'
<1>0. links \in SUBSET (Owners \X Items)
  BY DEF LinksInv, LinksTyped
<1>1. ASSUME NEW k \in Tasks, DeleteTask(k)
      PROVE  LinksInv'
  <2>1. /\ owners' = owners \ {k} /\ links' = {l \in links : l[1] # k}
        /\ wanted' = {x \in wanted : x[1] # k} /\ late' = late \cap links'
        /\ UNCHANGED <<filled, live, settled, groups, request, merge>>
    BY <1>1 DEF DeleteTask
  <2>2. Linked({l \in links : l[1] # k}) = {x \in Linked(links) : x[1] # k}
    BY DEF Linked
  <2>3. LinksTyped' /\ RequestAims'
    BY <2>1 DEF LinksInv, LinksTyped, RequestAims, Backed
  <2>4. MergeAims'
    BY <2>1 DEF LinksInv, LinksTyped, MergeAims, Merges, Idle, TablesApart, Backed
  <2>5. NothingDangles'
    BY <2>1 DEF LinksInv, NothingDangles
  <2> QED  BY <2>1, <2>2, <2>3, <2>4, <2>5 DEF LinksInv, Linked
<1>2. ASSUME NEW g \in Groups, DeleteGroup(g)
      PROVE  LinksInv'
  <2> DEFINE left == {l \in links : l[2] # Row(g)}
  <2>1. /\ groups' = groups \ {g} /\ links' = left /\ wanted' = {x \in wanted : x[2] # g}
        /\ late' = late \cap links'
        /\ UNCHANGED <<filled, live, settled, owners, request, merge>>
    BY <1>2 DEF DeleteGroup
  <2>2. ASSUME NEW l \in links
        PROVE  Subject(l[2]) # g <=> l[2] # Row(g)
    <3>1. l[2] \in Items
      BY <1>0
    <3>2. CASE l[2].kind = "row"
      BY <3>1, <3>2, ItemsAre, ItemFacts
    <3>3. CASE l[2].kind = "live"
      <4>1. Subject(l[2]) \in Orders
        BY <3>1, <3>3, ItemsAre, ItemFacts DEF LinksAssumption
      <4> QED  BY <3>3, <4>1, ItemFacts DEF TablesApart
    <3>4. CASE l[2].kind = "trade"
      <4>1. Subject(l[2]) \in Orders
        BY <3>1, <3>4, ItemsAre, ItemFacts
      <4> QED  BY <3>4, <4>1, ItemFacts DEF TablesApart
    <3> QED  BY <3>1, <3>2, <3>3, <3>4, ItemsAre
  <2>3. Linked(left) = {x \in Linked(links) : x[2] # g}
    BY <2>2 DEF Linked
  <2>4. LinksTyped' /\ RequestAims' /\ MergeAims'
    BY <2>1 DEF LinksInv, LinksTyped, RequestAims, MergeAims, Backed
  <2>5. NothingDangles'
    BY <1>0, <2>1, ItemsAre DEF LinksInv, NothingDangles
  <2> QED  BY <2>1, <2>3, <2>4, <2>5 DEF LinksInv, Linked
<1> QED  BY <1>1, <1>2

LEMMA LinksKept ==
  ASSUME LinksAssumption, IdsNameOrders, TablesApart
  PROVE  LinksInv /\ [LinksNext]_linkVars => LinksInv'
<1> SUFFICES ASSUME LinksInv, [LinksNext]_linkVars PROVE LinksInv'
  OBVIOUS
<1>1. ASSUME NEW verb \in {"attach", "detach"}, NEW w \in Owners, NEW i, BeginRequest(verb, w, i),
             \/ \E f \in Fills : i = Live(f)
             \/ \E o \in Orders : i = TradeItem(o)
             \/ \E g \in Groups : i = Row(g)
      PROVE  LinksInv'
  <2>1. i \in Items
    BY <1>1 DEF Items
  <2> QED  BY <1>1, <2>1, RequestsBegin
<1>2. ASSUME NEW f \in Fills, Fill(f)
      PROVE  LinksInv'
  BY <1>2 DEF Fill, LinksInv, LinksTyped, RequestAims, MergeAims, NothingDangles, Linked, Backed
<1>3. ASSUME NEW k \in Tasks, NEW s, SetTask(k, s)
      PROVE  LinksInv'
  BY <1>3 DEF SetTask, LinksInv, LinksTyped, RequestAims, MergeAims, NothingDangles, Linked, Owners, Backed
<1>4. CASE UNCHANGED linkVars
  BY <1>4 DEF linkVars, LinksInv, LinksTyped, RequestAims, MergeAims, NothingDangles, Linked, Backed
<1> QED
  BY <1>1, <1>2, <1>3, <1>4, SyncsKeep, AttachKeeps, DetachKeeps, MergesKeep, DeletionsKeep
  DEF LinksNext

\* A tag or a task is on an order exactly when the user put it there, and on
\* nothing that is gone, through partial fills, settlement under another id,
\* merges, deletions and requests that commit late (item_links.py, item_refs.py).
THEOREM LinksStayExact ==
  ASSUME LinksAssumption, IdsNameOrders, TablesApart
  PROVE  LinksSpec => []LinksExact
<1>1. LinksInv => LinksExact
  BY DEF LinksInv, LinksExact, NoTagLost, NoTagStrays
<1> QED  BY LinksStart, LinksKept, <1>1, PTL DEF LinksSpec

-----------------------------------------------------------------------------
(* One row for each broker order (OrderImport). *)

OrderRow ==
  [ref : LocalOrders \cup {-1}, perm : BrokerOrders \cup {-1}, oid : Int,
   holds : BrokerOrders, updated : Int]

\* The ids on a row are those of the order it holds, each order has one row at
\* most, and each local order has one from the start.
TableTrue(table) ==
  /\ table \in Seq(OrderRow)
  /\ \A i \in DOMAIN table :
       /\ table[i].ref \in {-1, table[i].holds}
       /\ table[i].perm \in {-1, table[i].holds}
       /\ table[i].ref # -1 \/ table[i].perm # -1
       /\ table[i].oid # -1 =>
            table[i].oid = OidOf[table[i].holds] /\ table[i].perm = table[i].holds
  /\ \A i, j \in DOMAIN table : table[i].holds = table[j].holds => i = j
  /\ \A b \in LocalOrders : \E i \in DOMAIN table : table[i].ref = b

\* The broker orders whose permId a row knows, and those a row holds.
Known(table) == {b \in BrokerOrders : \E i \in DOMAIN table : table[i].perm = b}
Held(table) == {b \in BrokerOrders : \E i \in DOMAIN table : table[i].holds = b}

\* An order as a sync meets it: with its orderId, or without it when a row
\* knows its permId already.
MetIn(table, b, oid) ==
  oid = OidOf[b] \/ (oid = 0 /\ b \in Known(table))

LEMMA NewestOfOne ==
  ASSUME NEW table, NEW i, table[i].updated \in Int
  PROVE  NewestOf(table, {i}) = i \/ i = 0
BY DEF NewestOf

\* The row a trade is copied onto is the one that holds its order; there is
\* none only when no row holds it.
LEMMA MatchFinds ==
  ASSUME ImportAssumption, OidsApart, NEW table, TableTrue(table), NEW b \in BrokerOrders, NEW oid,
         MetIn(table, b, oid)
  PROVE  LET i == FindMatch(table, TradeOf(b, oid)) IN
         \/ i \in DOMAIN table /\ table[i].holds = b
         \/ i = 0 /\ b \notin Held(table)
<1> DEFINE t == TradeOf(b, oid)
           byRef == {i \in DOMAIN table : t.ref # -1 /\ table[i].ref = t.ref}
           byPerm == {i \in DOMAIN table : table[i].perm = t.perm}
           byOid == {i \in DOMAIN table : table[i].oid = t.oid}
           mine == {i \in DOMAIN table : table[i].holds = b}
<1>1. /\ t.ref = IF b \in LocalOrders THEN b ELSE -1
      /\ t.perm = b /\ t.oid = oid
  BY DEF TradeOf
<1>2. /\ b # -1 /\ OidOf[b] # 0 /\ OidOf[b] # -1 /\ oid # -1
      /\ DOMAIN table \subseteq Nat \ {0}
      /\ \A i \in DOMAIN table : table[i] \in OrderRow
  <2>1. b # -1
    BY DEF ImportAssumption
  <2>2. OidOf[b] # 0 /\ OidOf[b] # -1
    <3>1. OidOf[b] \in Nat
      BY DEF ImportAssumption
    <3>2. OidOf[b] # 0
      BY DEF OidsApart
    <3> QED BY <3>1, <3>2
  <2>3. oid # -1
    BY <2>2 DEF MetIn
  <2>4. /\ DOMAIN table \subseteq Nat \ {0}
        /\ \A i \in DOMAIN table : table[i] \in OrderRow
    BY DEF TableTrue
  <2> QED BY <2>1, <2>2, <2>3, <2>4
<1>3. byRef \subseteq mine /\ (b \in LocalOrders => byRef # {})
  BY <1>1, <1>2 DEF TableTrue
<1>4. byPerm \subseteq mine
  BY <1>1, <1>2 DEF TableTrue
<1>5. byPerm = {} => oid = OidOf[b]
  BY <1>1 DEF MetIn, Known
<1>6. oid = OidOf[b] => byOid \subseteq byPerm
  <2> SUFFICES ASSUME oid = OidOf[b], NEW i \in byOid PROVE i \in byPerm
    OBVIOUS
  <2>1. table[i].oid = OidOf[b] /\ table[i].oid # -1
    BY <1>1, <1>2
  <2>2. OidOf[table[i].holds] = OidOf[b] /\ table[i].perm = table[i].holds
    BY <2>1 DEF TableTrue
  <2>3. table[i].holds = b
    BY <1>2, <2>2 DEF OidsApart, OrderRow
  <2> QED BY <1>1, <2>2, <2>3
<1>7. ASSUME byRef = {}, byPerm = {} PROVE b \notin Held(table)
  <2> SUFFICES ASSUME NEW i \in DOMAIN table, table[i].holds = b PROVE FALSE
    BY DEF Held
  <2>1. table[i].ref = b \/ table[i].perm = b
    BY DEF TableTrue
  <2>2. table[i].ref = b => b \in LocalOrders
    BY <1>2 DEF OrderRow
  <2> QED BY <1>1, <1>2, <1>7, <2>1, <2>2
<1>8. ASSUME NEW S \in SUBSET mine, S # {}
      PROVE  NewestOf(table, S) \in mine
  <2>1. PICK i \in S : TRUE
    BY <1>8
  <2>2. S = {i}
    BY <2>1 DEF TableTrue
  <2>3. table[i].updated \in Int /\ i # 0
    BY <1>2, <2>1 DEF OrderRow
  <2> QED BY <2>2, <2>3, NewestOfOne
<1>9. FindMatch(table, t) = IF byRef # {} THEN NewestOf(table, byRef)
                            ELSE IF byPerm # {} THEN NewestOf(table, byPerm)
                            ELSE NewestOf(table, byOid)
  BY DEF FindMatch
<1> QED
  <2>1. CASE byRef # {}
    BY <1>3, <1>8, <1>9, <2>1
  <2>2. CASE byRef = {} /\ byPerm # {}
    BY <1>4, <1>8, <1>9, <2>2
  <2>3. CASE byRef = {} /\ byPerm = {}
    <3>1. byOid = {}
      BY <1>5, <1>6, <2>3
    <3>2. FindMatch(table, t) = 0
      BY <1>9, <2>3, <3>1 DEF NewestOf
    <3> QED BY <1>7, <2>3, <3>2
  <2> QED BY <2>1, <2>2, <2>3

\* What copying one trade does: the table stays true, its rows keep their
\* orders, and now one holds the trade's order and knows its permId.
LEMMA CopyKeeps ==
  ASSUME ImportAssumption, OidsApart, NEW table, TableTrue(table), NEW b \in BrokerOrders, NEW oid,
         MetIn(table, b, oid), NEW now \in Int
  PROVE  LET new == Copied(table, TradeOf(b, oid), now) IN
         /\ TableTrue(new)
         /\ DOMAIN table \subseteq DOMAIN new
         /\ \A i \in DOMAIN table : new[i].holds = table[i].holds
         /\ Known(table) \cup {b} \subseteq Known(new)
<1> DEFINE t == TradeOf(b, oid)
           i == FindMatch(table, t)
           new == Copied(table, t, now)
<1>1. /\ t.order = b /\ t.perm = b /\ t.oid = oid
  BY DEF TradeOf
<1>2. /\ b # 0 /\ b # -1 /\ b \in Int /\ OidOf[b] # 0 /\ OidOf[b] \in Int
      /\ DOMAIN table \subseteq Nat \ {0}
      /\ \A j \in DOMAIN table : table[j] \in OrderRow
      /\ oid \in Int
  BY DEF ImportAssumption, OidsApart, MetIn, TableTrue
<1>3. \/ i \in DOMAIN table /\ table[i].holds = b
      \/ i = 0 /\ b \notin Held(table)
  BY MatchFinds
<1>4. CASE i = 0
  <2> DEFINE row == [ref |-> -1, perm |-> b, oid |-> oid, holds |-> b, updated |-> now]
             n == Len(table)
  <2>1. new = Append(table, row)
    BY <1>1, <1>4 DEF Copied
  <2>2. b \notin Held(table)
    BY <1>2, <1>3, <1>4
  <2>3. Known(table) \subseteq Held(table)
    BY DEF Known, Held, TableTrue, ImportAssumption
  <2>4. oid = OidOf[b]
    BY <2>2, <2>3 DEF MetIn
  <2>5. row \in OrderRow
    BY <1>2 DEF OrderRow
  <2>6. /\ new \in Seq(OrderRow) /\ n \in Nat /\ DOMAIN table = 1 .. n
        /\ DOMAIN new = 1 .. n + 1 /\ new[n + 1] = row
        /\ \A j \in DOMAIN table : new[j] = table[j]
    BY <2>1, <2>5 DEF TableTrue
  <2>7. \A j \in DOMAIN table : table[j].holds # b
    BY <2>2 DEF Held
  <2> HIDE DEF new, row
  <2>8. row.ref = -1 /\ row.perm = b /\ row.oid = oid /\ row.holds = b
    BY DEF row
  <2>9. TableTrue(new)
    <3>1. ASSUME NEW j \in DOMAIN new
          PROVE  /\ new[j].ref \in {-1, new[j].holds} /\ new[j].perm \in {-1, new[j].holds}
                 /\ new[j].ref # -1 \/ new[j].perm # -1
                 /\ new[j].oid # -1 =>
                      new[j].oid = OidOf[new[j].holds] /\ new[j].perm = new[j].holds
      <4>1. CASE j = n + 1
        BY <1>2, <2>4, <2>6, <2>8, <4>1
      <4>2. CASE j \in DOMAIN table
        BY <2>6, <4>2 DEF TableTrue
      <4> QED BY <2>6, <4>1, <4>2
    <3>2. ASSUME NEW j \in DOMAIN new, NEW k \in DOMAIN new, new[j].holds = new[k].holds
          PROVE  j = k
      <4>1. j \in DOMAIN table /\ k \in DOMAIN table => j = k
        BY <2>6, <3>2 DEF TableTrue
      <4> QED BY <2>6, <2>7, <2>8, <3>2, <4>1
    <3>3. \A c \in LocalOrders : \E j \in DOMAIN new : new[j].ref = c
      BY <2>6 DEF TableTrue
    <3> QED BY <2>6, <3>1, <3>2, <3>3 DEF TableTrue
  <2>10. b \in Known(new)
    BY <2>6, <2>8 DEF Known
  <2>11. Known(table) \subseteq Known(new)
    BY <2>6 DEF Known
  <2>12. DOMAIN table \subseteq DOMAIN new /\ \A j \in DOMAIN table : new[j].holds = table[j].holds
    BY <2>6
  <2> QED BY <2>9, <2>10, <2>11, <2>12 DEF new
<1>5. CASE i \in DOMAIN table /\ table[i].holds = b
  <2> DEFINE row == ApplyTradeFields(table[i], t, now)
  <2>1. i # 0 /\ table[i] \in OrderRow
    BY <1>2, <1>5
  <2>2. new = [table EXCEPT ![i] = row]
    BY <2>1 DEF Copied
  <2>3. /\ row \in OrderRow /\ row.ref = table[i].ref /\ row.perm = b /\ row.holds = b
        /\ row.oid = IF oid # 0 THEN oid ELSE table[i].oid
    BY <1>1, <1>2, <2>1 DEF OrderRow, NewUnlessZero, ApplyTradeFields
  <2> HIDE DEF row
  <2>4. /\ new \in Seq(OrderRow) /\ DOMAIN new = DOMAIN table /\ new[i] = row
        /\ \A j \in DOMAIN table \ {i} : new[j] = table[j]
    BY <1>5, <2>2, <2>3 DEF TableTrue
  <2>5. row.oid # -1 => row.oid = OidOf[b]
    BY <1>5, <2>3 DEF TableTrue, MetIn
  <2>6. \A j \in DOMAIN table : new[j].holds = table[j].holds /\ new[j].ref = table[j].ref
    BY <1>5, <2>3, <2>4
  <2> HIDE DEF new
  <2>7. TableTrue(new)
    <3>1. ASSUME NEW j \in DOMAIN new
          PROVE  /\ new[j].ref \in {-1, new[j].holds} /\ new[j].perm \in {-1, new[j].holds}
                 /\ new[j].ref # -1 \/ new[j].perm # -1
                 /\ new[j].oid # -1 =>
                      new[j].oid = OidOf[new[j].holds] /\ new[j].perm = new[j].holds
      <4>1. CASE j = i
        BY <1>2, <1>5, <2>3, <2>4, <2>5, <4>1 DEF TableTrue
      <4>2. CASE j \in DOMAIN table \ {i}
        BY <2>4, <4>2 DEF TableTrue
      <4> QED BY <2>4, <4>1, <4>2
    <3>2. \A j, k \in DOMAIN new : new[j].holds = new[k].holds => j = k
      BY <2>4, <2>6 DEF TableTrue
    <3>3. \A c \in LocalOrders : \E j \in DOMAIN new : new[j].ref = c
      BY <2>4, <2>6 DEF TableTrue
    <3> QED BY <2>4, <3>1, <3>2, <3>3 DEF TableTrue
  <2>8. Known(table) \cup {b} \subseteq Known(new)
    <3>1. b \in Known(new)
      BY <1>5, <2>3, <2>4 DEF Known
    <3>2. ASSUME NEW c \in Known(table) PROVE c \in Known(new)
      <4>1. PICK j \in DOMAIN table : table[j].perm = c
        BY <3>2 DEF Known
      <4>2. CASE j = i
        BY <1>2, <1>5, <3>1, <3>2, <4>1, <4>2 DEF TableTrue, Known, ImportAssumption
      <4>3. CASE j # i
        BY <2>4, <4>1, <4>3 DEF Known
      <4> QED BY <4>2, <4>3
    <3> QED BY <3>1, <3>2
  <2> QED BY <2>4, <2>6, <2>7, <2>8 DEF new
<1> QED BY <1>3, <1>4, <1>5

\* The sync's loop is the recursive function it reads as.
ImportSteps(trades, m, h) ==
  h = [n \in 0 .. m |-> IF n = 0 THEN orderRows ELSE Copied(h[n - 1], trades[n], stamp + n)]

LEMMA ImportStepsExist ==
  ASSUME NEW trades, NEW m \in Nat PROVE \E h : ImportSteps(trades, m, h)
<1> DEFINE T == {k \in Nat : \E h : ImportSteps(trades, k, h)}
<1>1. 0 \in T
  <2> DEFINE h == [n \in 0 .. 0 |-> orderRows]
  <2>1. ImportSteps(trades, 0, h)
    BY DEF ImportSteps
  <2> QED BY <2>1
<1>2. ASSUME NEW k \in Nat, k \in T PROVE k + 1 \in T
  <2>1. PICK h : ImportSteps(trades, k, h)
    BY <1>2
  <2> DEFINE last == Copied(h[k], trades[k + 1], stamp + (k + 1))
             g == [n \in 0 .. k + 1 |-> IF n = k + 1 THEN last ELSE h[n]]
  <2>2. \A n \in 0 .. k :
          g[n] = h[n] /\ h[n] = IF n = 0 THEN orderRows ELSE Copied(h[n - 1], trades[n], stamp + n)
    BY <2>1 DEF ImportSteps
  <2>3. \A n \in 1 .. k + 1 : n - 1 \in 0 .. k /\ g[n - 1] = h[n - 1]
    BY <2>2
  <2>4. ASSUME NEW n \in 0 .. k + 1
        PROVE  g[n] = IF n = 0 THEN orderRows ELSE Copied(g[n - 1], trades[n], stamp + n)
    <3>1. CASE n = k + 1
      <4>1. n # 0 /\ n - 1 = k /\ g[n - 1] = h[k] /\ g[n] = last
        BY <2>2, <3>1
      <4> HIDE DEF g
      <4> QED BY <3>1, <4>1
    <3>2. CASE n # k + 1
      <4>1. n \in 0 .. k /\ (n # 0 => n \in 1 .. k + 1)
        BY <3>2
      <4> HIDE DEF g
      <4> QED BY <2>2, <2>3, <4>1
    <3> QED BY <3>1, <3>2
  <2>5. DOMAIN g = 0 .. k + 1 /\ g = [n \in 0 .. k + 1 |-> g[n]]
    OBVIOUS
  <2> HIDE DEF g
  <2>6. ImportSteps(trades, k + 1, g)
    BY <2>4, <2>5 DEF ImportSteps
  <2> QED BY <2>6
<1> HIDE DEF T
<1>3. m \in T
  BY <1>1, <1>2, AllOf
<1> QED BY <1>3 DEF T

LEMMA ImportedUpToIs ==
  ASSUME NEW trades, Len(trades) \in Nat
  PROVE  ImportSteps(trades, Len(trades), ImportedUpTo(trades))
<1>1. \E h : ImportSteps(trades, Len(trades), h)
  BY ImportStepsExist
<1>2. ImportSteps(trades, Len(trades), CHOOSE h : ImportSteps(trades, Len(trades), h))
  BY <1>1
<1>3. ImportedUpTo(trades) = CHOOSE h : ImportSteps(trades, Len(trades), h)
  BY DEF ImportedUpTo, ImportSteps
<1> QED BY <1>2, <1>3

\* A collected trade is met with its orderId, or without one when a row knows it
\* already or an earlier trade of the sync was the same order's.
TradesMeet(trades) ==
  \A n \in 1 .. Len(trades) : \E b \in BrokerOrders, oid \in Nat :
    /\ trades[n] = TradeOf(b, oid)
    /\ \/ oid = OidOf[b]
       \/ oid = 0 /\ b \in Known(orderRows)
       \/ oid = 0 /\ \E k \in 1 .. n - 1 : trades[k].order = b

\* What a whole sync does to the table.
LEMMA SyncKeeps ==
  ASSUME ImportAssumption, OidsApart, TableTrue(orderRows), stamp \in Int,
         NEW trades, Len(trades) \in Nat, TradesMeet(trades)
  PROVE  LET new == ImportedUpTo(trades)[Len(trades)] IN
         /\ TableTrue(new)
         /\ DOMAIN orderRows \subseteq DOMAIN new
         /\ \A i \in DOMAIN orderRows : new[i].holds = orderRows[i].holds
         /\ Known(orderRows) \subseteq Known(new)
         /\ \A n \in 1 .. Len(trades) : trades[n].order \in Known(new)
<1> DEFINE L == Len(trades)
           h == ImportedUpTo(trades)
           Good(n) == /\ TableTrue(h[n])
                      /\ DOMAIN orderRows \subseteq DOMAIN h[n]
                      /\ \A i \in DOMAIN orderRows : h[n][i].holds = orderRows[i].holds
                      /\ Known(orderRows) \subseteq Known(h[n])
                      /\ \A k \in 1 .. n : trades[k].order \in Known(h[n])
           T == {n \in Nat : n <= L => Good(n)}
<1>1. \A n \in 0 .. L :
        h[n] = IF n = 0 THEN orderRows ELSE Copied(h[n - 1], trades[n], stamp + n)
  BY ImportedUpToIs DEF ImportSteps
<1> HIDE DEF h
<1>2. 0 \in T
  <2>1. h[0] = orderRows
    BY <1>1
  <2> QED BY <2>1
<1>3. ASSUME NEW n \in Nat, n \in T PROVE n + 1 \in T
  <2> SUFFICES ASSUME n + 1 <= L PROVE Good(n + 1)
    OBVIOUS
  <2>1. Good(n)
    BY <1>3
  <2>2. n + 1 \in 1 .. L /\ n + 1 \in 0 .. L /\ n + 1 # 0 /\ n + 1 - 1 = n
    OBVIOUS
  <2>3. h[n + 1] = Copied(h[n], trades[n + 1], stamp + (n + 1))
    BY <1>1, <2>2
  <2>4. PICK b \in BrokerOrders, oid \in Nat :
          /\ trades[n + 1] = TradeOf(b, oid)
          /\ \/ oid = OidOf[b]
             \/ oid = 0 /\ b \in Known(orderRows)
             \/ oid = 0 /\ \E k \in 1 .. n + 1 - 1 : trades[k].order = b
    BY <2>2 DEF TradesMeet
  <2>5. MetIn(h[n], b, oid)
    BY <2>1, <2>2, <2>4 DEF MetIn
  <2>6. trades[n + 1].order = b
    BY <2>4 DEF TradeOf
  <2>7. /\ TableTrue(h[n + 1])
        /\ DOMAIN h[n] \subseteq DOMAIN h[n + 1]
        /\ \A i \in DOMAIN h[n] : h[n + 1][i].holds = h[n][i].holds
        /\ Known(h[n]) \cup {b} \subseteq Known(h[n + 1])
    BY <2>1, <2>3, <2>4, <2>5, CopyKeeps
  <2>8. \A k \in 1 .. n + 1 : k \in 1 .. n \/ k = n + 1
    OBVIOUS
  <2> QED BY <2>1, <2>6, <2>7, <2>8
<1> HIDE DEF T
<1>4. L \in T
  BY <1>2, <1>3, AllOf
<1> QED BY <1>4 DEF T, h

ImportInv ==
  /\ orderPhase \in [BrokerOrders -> {"unplaced", "open", "completed", "forgotten"}]
  /\ stamp \in Int
  /\ TableTrue(orderRows)
  /\ InPhase("completed") \subseteq Known(orderRows)
  /\ inReport \subseteq Known(orderRows)

LEMMA ListingIs ==
  ASSUME NEW S, IsFiniteSet(S), NEW f \in Listings(S)
  PROVE  /\ Len(f) \in Nat /\ DOMAIN f = 1 .. Len(f)
         /\ \A k \in 1 .. Len(f) : f[k] \in S
         /\ \A b \in S : \E k \in 1 .. Len(f) : f[k] = b
         /\ \A j, k \in 1 .. Len(f) : f[j] = f[k] => j = k
<1>1. Cardinality(S) \in Nat
  BY FS_CardinalityType
<1>2. /\ f \in [1 .. Cardinality(S) -> S]
      /\ \A b \in S : \E k \in 1 .. Cardinality(S) : f[k] = b
      /\ \A j, k \in 1 .. Cardinality(S) : f[j] = f[k] => j = k
  BY DEF Listings, Bijection, Injection, Surjection, IsInjective
<1>3. Len(f) = Cardinality(S)
  BY <1>1, <1>2
<1> QED BY <1>1, <1>2, <1>3

LEMMA ImportStarts ==
  ASSUME ImportAssumption PROVE ImportInit => ImportInv
<1> SUFFICES ASSUME ImportInit PROVE ImportInv
  OBVIOUS
<1>1. PICK order \in Listings(LocalOrders) : orderRows = LocalRows(order)
  BY DEF ImportInit
<1>2. IsFiniteSet(LocalOrders)
  BY FS_Subset DEF ImportAssumption
<1> DEFINE L == Len(order)
<1>3. /\ L \in Nat /\ DOMAIN order = 1 .. L
      /\ \A k \in 1 .. L : order[k] \in LocalOrders
      /\ \A b \in LocalOrders : \E k \in 1 .. L : order[k] = b
      /\ \A j, k \in 1 .. L : order[j] = order[k] => j = k
  BY <1>2, ListingIs
<1> DEFINE row(k) == [ref |-> order[k], perm |-> -1, oid |-> -1, holds |-> order[k], updated |-> 0]
<1> HIDE DEF L
<1>4. orderRows = [k \in 1 .. L |-> row(k)]
  BY <1>1, <1>3 DEF LocalRows
<1>5. ASSUME NEW k \in 1 .. L
      PROVE  /\ row(k) \in OrderRow /\ order[k] # -1
             /\ row(k).ref = order[k] /\ row(k).perm = -1 /\ row(k).oid = -1
             /\ row(k).holds = order[k]
  <2>1. order[k] \in LocalOrders
    BY <1>3
  <2>2. \A b \in LocalOrders : b \in BrokerOrders /\ b \in Nat /\ b # -1
    BY DEF ImportAssumption
  <2>3. ASSUME NEW b \in LocalOrders
        PROVE  [ref |-> b, perm |-> -1, oid |-> -1, holds |-> b, updated |-> 0] \in OrderRow
    BY <2>2 DEF OrderRow
  <2> QED BY <2>1, <2>2, <2>3
<1> HIDE DEF row
<1>6. /\ orderRows \in Seq(OrderRow) /\ DOMAIN orderRows = 1 .. L
      /\ \A k \in 1 .. L : orderRows[k] = row(k)
  BY <1>3, <1>4, <1>5
<1>7. TableTrue(orderRows)
  BY <1>3, <1>5, <1>6 DEF TableTrue
<1> QED BY <1>7 DEF ImportInit, ImportInv, InPhase

\* What the broker lists is met as the loop needs it: a completed order is known
\* by then, or it was still open in the first answer.
LEMMA ListedMeet ==
  ASSUME ImportAssumption, ImportInv, NEW ending \in SUBSET InPhase("open"),
         NEW open \in Listings(InPhase("open")),
         NEW completed \in Listings(InPhase("completed") \cup {b \in ending : OidOf[b] # 0})
  PROVE  LET trades == Collected(open, completed) IN
         /\ Len(trades) \in Nat
         /\ TradesMeet(trades)
         /\ \A b \in InPhase("open") \cup InPhase("completed") :
              \E n \in 1 .. Len(trades) : trades[n].order = b
         /\ \A n \in 1 .. Len(trades) : trades[n].order \in BrokerOrders
<1> DEFINE trades == Collected(open, completed)
           K == Len(open)
           L == Len(completed)
           ended == InPhase("completed") \cup {b \in ending : OidOf[b] # 0}
<1>1. /\ InPhase("open") \subseteq BrokerOrders /\ ended \subseteq BrokerOrders
      /\ IsFiniteSet(InPhase("open")) /\ IsFiniteSet(ended)
  <2>1. InPhase("open") \subseteq BrokerOrders /\ ended \subseteq BrokerOrders
    BY DEF InPhase
  <2> QED BY <2>1, FS_Subset DEF ImportAssumption
<1>2. /\ K \in Nat /\ \A k \in 1 .. K : open[k] \in InPhase("open")
      /\ \A b \in InPhase("open") : \E k \in 1 .. K : open[k] = b
  BY <1>1, ListingIs
<1>3. /\ L \in Nat /\ \A k \in 1 .. L : completed[k] \in ended
      /\ \A b \in ended : \E k \in 1 .. L : completed[k] = b
  <2>1. completed \in Listings(ended)
    OBVIOUS
  <2> HIDE DEF ended
  <2> QED BY <1>1, <2>1, ListingIs
<1>4. /\ trades = [i \in 1 .. K + L |-> IF i <= K THEN TradeOf(open[i], OidOf[open[i]])
                                        ELSE TradeOf(completed[i - K], 0)]
  BY DEF Collected
<1> HIDE DEF K, L, trades
<1>5. Len(trades) = K + L
  BY <1>2, <1>3, <1>4
<1>6. \A k \in 1 .. K : trades[k] = TradeOf(open[k], OidOf[open[k]]) /\ trades[k].order = open[k]
  BY <1>2, <1>3, <1>4 DEF TradeOf
<1>7. \A k \in 1 .. L : /\ trades[K + k] = TradeOf(completed[k], 0)
                        /\ trades[K + k].order = completed[k]
  <2> SUFFICES ASSUME NEW k \in 1 .. L PROVE trades[K + k] = TradeOf(completed[k], 0)
    BY DEF TradeOf
  <2>1. PICK n \in Int : n = K + k
    BY <1>2, <1>3
  <2>2. n \in 1 .. K + L /\ ~(n <= K) /\ n - K = k
    BY <1>2, <1>3, <2>1
  <2>3. trades[n] = TradeOf(completed[k], 0)
    BY <1>4, <2>2
  <2> QED BY <2>1, <2>3
<1>8. TradesMeet(trades)
  <2> SUFFICES ASSUME NEW n \in 1 .. K + L
               PROVE  \E b \in BrokerOrders, oid \in Nat :
                        /\ trades[n] = TradeOf(b, oid)
                        /\ \/ oid = OidOf[b]
                           \/ oid = 0 /\ b \in Known(orderRows)
                           \/ oid = 0 /\ \E k \in 1 .. n - 1 : trades[k].order = b
    BY <1>5 DEF TradesMeet
  <2>1. CASE n <= K
    <3>1. n \in 1 .. K /\ open[n] \in BrokerOrders /\ OidOf[open[n]] \in Nat
      <4>1. n \in 1 .. K /\ open[n] \in BrokerOrders
        BY <1>1, <1>2, <2>1
      <4> QED BY <4>1 DEF ImportAssumption
    <3> QED BY <1>6, <3>1
  <2>2. CASE n > K
    <3> DEFINE k == n - K
               b == completed[k]
    <3>1. k \in 1 .. L /\ n = K + k
      BY <1>2, <1>3, <2>2
    <3>2. b \in ended /\ b \in BrokerOrders /\ trades[n] = TradeOf(b, 0)
      BY <1>1, <1>3, <1>7, <3>1
    <3> HIDE DEF b, k
    <3>3. CASE b \in InPhase("completed")
      BY <3>2, <3>3 DEF ImportInv
    <3>4. CASE b \in InPhase("open")
      <4>1. PICK j \in 1 .. K : open[j] = b
        BY <1>2, <3>4
      <4>2. j \in 1 .. n - 1 /\ trades[j].order = b
        BY <1>2, <1>6, <2>2, <4>1
      <4> QED BY <3>2, <4>2
    <3> QED BY <3>2, <3>3, <3>4
  <2> QED BY <1>2, <1>3, <2>1, <2>2
<1>9. ASSUME NEW b \in InPhase("open") \cup InPhase("completed")
      PROVE  \E n \in 1 .. K + L : trades[n].order = b
  <2>1. CASE b \in InPhase("open")
    <3>1. PICK k \in 1 .. K : open[k] = b
      BY <1>2, <2>1
    <3> QED BY <1>2, <1>3, <1>6, <3>1
  <2>2. CASE b \in InPhase("completed")
    <3>1. PICK k \in 1 .. L : completed[k] = b
      BY <1>3, <2>2
    <3>2. K + k \in 1 .. K + L
      BY <1>2, <1>3
    <3> QED BY <1>7, <3>1, <3>2
  <2> QED BY <2>1, <2>2
<1>10. ASSUME NEW n \in 1 .. K + L PROVE trades[n].order \in BrokerOrders
  <2>1. PICK b \in BrokerOrders, oid \in Nat : trades[n] = TradeOf(b, oid)
    BY <1>5, <1>8 DEF TradesMeet
  <2> QED BY <2>1 DEF TradeOf
<1> QED BY <1>2, <1>3, <1>5, <1>8, <1>9, <1>10 DEF trades

\* One sync, whatever completes while it reads.
LEMMA SyncSafe ==
  ASSUME ImportAssumption, OidsApart, ImportInv, ImportOrders
  PROVE  /\ ImportInv'
         /\ DOMAIN orderRows \subseteq DOMAIN orderRows'
         /\ \A i \in DOMAIN orderRows : orderRows'[i].holds = orderRows[i].holds
<1>0. PICK ending \in SUBSET InPhase("open") :
        \E open \in Listings(InPhase("open")),
           completed \in Listings(InPhase("completed") \cup {b \in ending : OidOf[b] # 0}) :
        LET trades == Collected(open, completed) IN
        /\ orderPhase' = [b \in BrokerOrders |->
                            IF b \in ending THEN "completed" ELSE orderPhase[b]]
        /\ orderRows' = ImportedUpTo(trades)[Len(trades)]
        /\ stamp' = stamp + Len(trades)
  BY DEF ImportOrders
<1>1. PICK open \in Listings(InPhase("open")),
           completed \in Listings(InPhase("completed") \cup {b \in ending : OidOf[b] # 0}) :
        LET trades == Collected(open, completed) IN
        /\ orderPhase' = [b \in BrokerOrders |->
                            IF b \in ending THEN "completed" ELSE orderPhase[b]]
        /\ orderRows' = ImportedUpTo(trades)[Len(trades)]
        /\ stamp' = stamp + Len(trades)
  BY <1>0
<1> DEFINE trades == Collected(open, completed)
<1>2. /\ Len(trades) \in Nat
      /\ TradesMeet(trades)
      /\ \A b \in InPhase("open") \cup InPhase("completed") :
           \E n \in 1 .. Len(trades) : trades[n].order = b
  BY ListedMeet, ZenonT(40)
<1> HIDE DEF trades
<1>3. /\ orderRows' = ImportedUpTo(trades)[Len(trades)] /\ stamp' = stamp + Len(trades)
      /\ orderPhase' = [b \in BrokerOrders |->
                            IF b \in ending THEN "completed" ELSE orderPhase[b]]
  BY <1>1 DEF trades
<1>4. /\ TableTrue(orderRows')
      /\ DOMAIN orderRows \subseteq DOMAIN orderRows'
      /\ \A i \in DOMAIN orderRows : orderRows'[i].holds = orderRows[i].holds
      /\ Known(orderRows) \subseteq Known(orderRows')
      /\ \A n \in 1 .. Len(trades) : trades[n].order \in Known(orderRows')
  BY <1>2, <1>3, SyncKeeps DEF ImportInv
<1>5. InPhase("open") \cup InPhase("completed") \subseteq Known(orderRows')
  BY <1>2, <1>4
<1>6. InPhase("completed")' \subseteq InPhase("completed") \cup ending
  BY <1>3 DEF InPhase
<1>7. inReport' = InPhase("open") \cup InPhase("completed")
  BY DEF ImportOrders
<1>8. /\ orderPhase' \in [BrokerOrders -> {"unplaced", "open", "completed", "forgotten"}]
      /\ stamp' \in Int
  BY <1>2, <1>3 DEF ImportInv
<1> QED BY <1>4, <1>5, <1>6, <1>7, <1>8 DEF ImportInv, Known

LEMMA MovesSafe ==
  ASSUME ImportAssumption, ~Unwatched, ImportInv, NEW b \in BrokerOrders, BrokerMoves(b)
  PROVE  ImportInv' /\ orderRows' = orderRows
<1>1. orderRows' = orderRows /\ stamp' = stamp /\ inReport' = inReport
  BY DEF BrokerMoves
<1>2. orderPhase' \in [BrokerOrders -> {"unplaced", "open", "completed", "forgotten"}]
  BY DEF BrokerMoves, ImportInv
<1>3. InPhase("completed")' \subseteq InPhase("completed") \cup Known(orderRows)
  BY DEF BrokerMoves, ImportInv, InPhase, Known
<1> QED BY <1>1, <1>2, <1>3 DEF ImportInv, Known

\* Where no order completes before a sync has seen it and orderIds tell orders
\* apart, any number of syncs, whatever the broker lists in whatever order, keep
\* one row for each order and never hand a row to another (sync_orders_with_ib).
THEOREM ImportIsIdempotent ==
  ASSUME ImportAssumption, OidsApart, ~Unwatched
  PROVE  ImportSpec => MatchingIsIdempotent
<1>1. ImportInv => OneRowPerOrder
  <2> SUFFICES ASSUME ImportInv PROVE OneRowPerOrder
    OBVIOUS
  <2>1. ASSUME NEW b \in Known(orderRows) PROVE \E i \in DOMAIN orderRows : orderRows[i].holds = b
    BY <2>1 DEF ImportInv, TableTrue, Known, ImportAssumption
  <2> QED BY <2>1 DEF ImportInv, OneRowPerOrder, TableTrue
<1>2. ASSUME ImportInv, [ImportNext]_importVars
      PROVE  /\ ImportInv'
             /\ \A i \in DOMAIN orderRows : orderRows'[i].holds = orderRows[i].holds
  <2>1. CASE ImportOrders
    BY <2>1, <1>2, SyncSafe
  <2>2. ASSUME NEW b \in BrokerOrders, BrokerMoves(b)
        PROVE  /\ ImportInv'
               /\ \A i \in DOMAIN orderRows : orderRows'[i].holds = orderRows[i].holds
    BY <2>2, <1>2, MovesSafe
  <2>3. CASE UNCHANGED importVars
    BY <2>3, <1>2 DEF importVars, ImportInv, InPhase, TableTrue, Known
  <2> QED BY <1>2, <2>1, <2>2, <2>3 DEF ImportNext
<1>3. ImportInv' => OneRowPerOrder'
  BY <1>1, PTL
<1> QED BY ImportStarts, <1>1, <1>2, PTL DEF ImportSpec, MatchingIsIdempotent
=============================================================================
