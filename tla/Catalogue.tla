----------------------------- MODULE Catalogue -----------------------------
(***************************************************************************)
(* The contract catalogue of one symbol (src/services/contract_sync.py,    *)
(* contract_lookup.py): the jobs that ask TWS for contracts, for an option *)
(* chain or for an activated product, and write the contracts table, the   *)
(* chain catalogue and the product's row.                                  *)
(*                                                                         *)
(* TWS is external: it lists contracts and later delists them, and may     *)
(* fail between two transactions of a job.  The operator sets a product's  *)
(* exchange in the database.                                               *)
(***************************************************************************)
EXTENDS Integers, Sequences, FiniteSets, SequencesExt, FiniteSetsExt

CONSTANTS
  Futures, Options,
  Expiry,     \* of each contract, a month
  Venue,      \* of each future, its exchange
  Under,      \* of each option, its future
  FrontN,     \* front_n: the futures a chain sync keeps
  Ahead,      \* months_ahead of the product
  LastMonth,  \* bound: the calendar
  MaxJobs     \* bound: jobs

ASSUME CatalogueAssumption ==
  /\ Expiry \in [Futures \cup Options -> Nat] /\ Under \in [Options -> Futures]
  /\ FrontN \in Nat \ {0} /\ Ahead \in Nat /\ LastMonth \in Nat /\ MaxJobs \in Nat

VARIABLES
  month,      \* today
  listed,     \* contracts TWS knows
  contracts,  \* the contracts table: absent, active or inactive
  meta,       \* option_chain_meta: the future each option's row names, or NoFuture
  product,    \* the activated product: exchange and discovery status
  work,       \* the job under way
  ran,        \* jobs so far
  vouched     \* history: exchanges an operator set, or TWS named as the only one

catVars == <<month, listed, contracts, meta, product, work, ran, vouched>>

Con == Futures \cup Options
NoFuture == 0
NoVenue == "none"
NoWork == [kind |-> "none"]
Class(c) == IF c \in Futures THEN Futures ELSE Options
Active == {c \in Con : contracts[c] = "active"}

CatInit ==
  /\ month = 0 /\ listed \in SUBSET Con
  /\ contracts = [c \in Con |-> "absent"]
  /\ meta = [o \in Options |-> NoFuture]
  /\ product = [exchange |-> NoVenue, status |-> "pending"]
  /\ work = NoWork /\ ran = 0 /\ vouched = {}

\* TWS lists one more contract; a month passes and the expired ones go.
List(c) ==
  /\ c \notin listed /\ Expiry[c] >= month
  /\ listed' = listed \cup {c}
  /\ UNCHANGED <<month, contracts, meta, product, work, ran, vouched>>
Calendar ==
  /\ month < LastMonth /\ month' = month + 1
  /\ listed' = {c \in listed : Expiry[c] >= month'}
  /\ UNCHANGED <<contracts, meta, product, work, ran, vouched>>

Begin(job) == work = NoWork /\ ran < MaxJobs /\ ran' = ran + 1 /\ work' = job

\* A job fails between two transactions, and what it has committed stays.
JobFails ==
  /\ work # NoWork /\ work' = NoWork
  /\ UNCHANGED <<month, listed, contracts, meta, product, ran, vouched>>

\* The rows of one class are upserted, and the other active ones of the class
\* retired unless nothing came back.
Written(class, found) ==
  [c \in Con |-> CASE c \in found -> "active"
                   [] c \in class \ found /\ found # {} /\ contracts[c] = "active" -> "inactive"
                   [] OTHER -> contracts[c]]

\* contracts.sync and contracts.qualify_and_snapshot: a list of specs, each the
\* contracts of one class it describes ...
StartSpecs(specs) ==
  /\ Begin([kind |-> "specs", todo |-> specs])
  /\ UNCHANGED <<month, listed, contracts, meta, product, vouched>>

\* ... a transaction each (sync_contracts_with_ib).
SyncSpec ==
  /\ work.kind = "specs" /\ work.todo # <<>>
  /\ LET s == Head(work.todo)
     IN contracts' = Written(UNION {Class(c) : c \in s}, s \cap listed)
  /\ work' = IF Len(work.todo) = 1 THEN NoWork ELSE [work EXCEPT !.todo = Tail(@)]
  /\ UNCHANGED <<month, listed, meta, product, ran, vouched>>

\* find_contracts_with_fallback: a lookup that finds nothing queues a sync of the
\* whole class.
LookUp(class, wanted) ==
  /\ wanted \cap Active = {}
  /\ StartSpecs(<<class>>)

\* _front_future_contracts: the futures of the chain, nearest expiry first.
FrontFutures(futs) ==
  LET ranked == SetToSortSeq(futs, LAMBDA f, g : Expiry[f] < Expiry[g] \/
                                     (Expiry[f] = Expiry[g] /\ f < g))
  IN ToSet(SubSeq(ranked, 1, Min({FrontN, Len(ranked)})))

\* sync_futures_chain: the futures with listed options, nearest first ...
StartChain ==
  /\ Begin([kind |-> "chain", options |-> Options \cap listed])
  /\ UNCHANGED <<month, listed, contracts, meta, product, vouched>>
SyncFront ==
  /\ work.kind = "chain"
  /\ LET front == FrontFutures({Under[o] : o \in work.options} \cap listed)
     IN /\ contracts' = Written(Futures, front)
        /\ work' = [kind |-> "meta", front |-> front, options |-> work.options]
  /\ UNCHANGED <<month, listed, meta, product, ran, vouched>>

\* Mutant of ChainRows: every option of the chain, also of a later future.
ChainRowsAll == {o \in work.options : Expiry[o] >= month}

\* _build_chain_meta_rows.
ChainRows ==
  {o \in work.options : Under[o] \in work.front /\ Expiry[o] >= month}

\* ... and _store_chain_meta, in a transaction of its own; no row is ever deleted.
StoreMeta ==
  /\ work.kind = "meta"
  /\ meta' = [o \in Options |-> IF o \in ChainRows THEN Under[o] ELSE meta[o]]
  /\ work' = NoWork
  /\ UNCHANGED <<month, listed, contracts, product, ran, vouched>>

\* sync_activated_products_with_ib loads the product ...
StartProduct ==
  /\ Begin([kind |-> "product", loaded |-> product.exchange])
  /\ UNCHANGED <<month, listed, contracts, meta, product, vouched>>

Venues == {Venue[f] : f \in Futures \cap listed}

\* discover_product_metadata: an exchange only when there is exactly one.
Discovered == IF Cardinality(Venues) = 1 THEN CHOOSE v \in Venues : TRUE ELSE NoVenue

\* ... and _sync_one_product writes it.  The row's exchange is written only when
\* it differs from what was loaded; a failed discovery leaves an exchange that is
\* set in force and the product active.
SyncProduct ==
  LET exchange == IF work.loaded # NoVenue THEN work.loaded ELSE Discovered
      window == {f \in Futures \cap listed :
                   Venue[f] = exchange /\ Expiry[f] \in month .. month + Ahead}
  IN /\ work.kind = "product"
     /\ IF exchange = NoVenue
        THEN /\ product' = [product EXCEPT !.status = IF Venues = {} THEN "unknown_symbol"
                                                      ELSE "needs_disambiguation"]
             /\ UNCHANGED contracts
        ELSE /\ product' = [exchange |-> IF work.loaded = exchange THEN product.exchange
                                         ELSE exchange,
                            status |-> "active"]
             /\ contracts' = Written(Futures, window)
     /\ vouched' = vouched \cup (IF Cardinality(Venues) = 1 THEN Venues ELSE {})
     /\ work' = NoWork
     /\ UNCHANGED <<month, listed, meta, ran>>

\* The operator settles an ambiguous symbol.
SetExchange(v) ==
  /\ product.exchange # v
  /\ product' = [product EXCEPT !.exchange = v]
  /\ vouched' = vouched \cup {v}
  /\ UNCHANGED <<month, listed, contracts, meta, work, ran>>

CatNext ==
  \/ \E c \in Con : List(c)
  \/ Calendar \/ JobFails
  \/ \E o \in Options : StartSpecs(<<{o}>>) \/ LookUp(Options, {o})
  \/ \E v \in {Venue[f] : f \in Futures} :
       \/ SetExchange(v)
       \/ StartSpecs(<<{f \in Futures : Venue[f] = v}, Options>>)
  \/ SyncSpec
  \/ StartChain \/ SyncFront \/ StoreMeta
  \/ StartProduct \/ SyncProduct

CatSpec == CatInit /\ [][CatNext]_catVars
-----------------------------------------------------------------------------
\* The chain catalogue offers options of futures the contracts table has, however
\* far a chain sync got before it failed: the page joins one to the other.
MetaHasFuture == \A o \in Options : meta[o] # NoFuture => contracts[meta[o]] # "absent"

\* A product is on an exchange only because an operator said so, or because TWS
\* named no other when it was discovered: "no guess" (contract_sync.py:599).
VenueNotGuessed == product.exchange \in vouched \cup {NoVenue}

\* Both hold after every transaction of every job, failed ones included.
CatalogueSound == MetaHasFuture /\ VenueNotGuessed

\* A sync retires only contracts its spec describes: "Mark contracts for this
\* spec that were NOT returned as inactive" (contract_sync.py:135).
OtherSpecsKept ==
  [][work.kind = "specs" =>
       \A c \in Con : contracts[c] = "active" /\ contracts'[c] = "inactive" =>
                        c \in Head(work.todo)]_catVars
=============================================================================
