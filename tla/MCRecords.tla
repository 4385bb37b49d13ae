----------------------------- MODULE MCRecords -----------------------------
(***************************************************************************)
(* The tables kept beside the trades, one component per behaviour:         *)
(* positions and their tags, tags and tasks on fills, broker sessions, the *)
(* contract catalogue, imported orders, group membership.  The components  *)
(* share no state.                                                         *)
(***************************************************************************)
EXTENDS PositionBook, ItemLinks, JobSessions, Catalogue, OrderImport, GroupBook, TLC

VARIABLE part

recordVars == <<part, bookVars, linkVars, sessionVars, catVars, importVars, groupVars>>

RecordsInit ==
  /\ part \in {"book", "links", "sessions", "catalogue", "import", "groups"}
  /\ BookInit /\ LinksInit /\ SessionInit /\ CatInit /\ ImportInit /\ GroupInit
  /\ part # "catalogue" => listed = {}

RecordsNext ==
  /\ UNCHANGED part
  /\ \/ /\ part = "book" /\ BookNext
        /\ UNCHANGED <<linkVars, sessionVars, catVars, importVars, groupVars>>
     \/ /\ part = "links" /\ LinksNext
        /\ UNCHANGED <<bookVars, sessionVars, catVars, importVars, groupVars>>
     \/ /\ part = "sessions" /\ SessionNext
        /\ UNCHANGED <<bookVars, linkVars, catVars, importVars, groupVars>>
     \/ /\ part = "catalogue" /\ CatNext
        /\ UNCHANGED <<bookVars, linkVars, sessionVars, importVars, groupVars>>
     \/ /\ part = "import" /\ ImportNext
        /\ UNCHANGED <<bookVars, linkVars, sessionVars, catVars, groupVars>>
     \/ /\ part = "groups" /\ GroupNext
        /\ UNCHANGED <<bookVars, linkVars, sessionVars, catVars, importVars>>

\* LinksFairness, of the part it is about: a settled sync keeps coming.
RecordsFairness ==
  WF_recordVars(/\ part = "links" /\ SyncFlex({})
                /\ UNCHANGED <<part, bookVars, sessionVars, catVars, importVars, groupVars>>)

RecordsSpec == RecordsInit /\ [][RecordsNext]_recordVars /\ RecordsFairness

\* Two fills of one order, one with its permId and one with the orderId alone,
\* and a fill of an order that TWS gives no id at all.
MCOrderOf == 1 :> "o" @@ 2 :> "o" @@ 3 :> "p"
MCPermId == 1 :> 7 @@ 2 :> 0 @@ 3 :> 0
MCOrderId == 1 :> 5 @@ 2 :> 5 @@ 3 :> 0

\* Three futures on two exchanges and an option on each of two of them.
MCExpiry == 1 :> 0 @@ 2 :> 1 @@ 3 :> 1 @@ 11 :> 0 @@ 12 :> 1 @@ 13 :> 1
MCVenue == 1 :> "nymex" @@ 2 :> "nymex" @@ 3 :> "ice"
MCUnder == 11 :> 1 @@ 12 :> 2 @@ 13 :> 2

\* Every order of the one client has an orderId of its own.
MCOidOf == [b \in BrokerOrders |-> 100 + b]

\* The case ImportIsIdempotent is proved for is this instance's.
ASSUME InstanceOids == OidsApart /\ ~Unwatched

\* Two fills in two accounts.
MCOwner == [f \in GroupFills |-> IF f = 1 THEN "a" ELSE "b"]
=============================================================================
