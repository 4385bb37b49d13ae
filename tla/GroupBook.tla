------------------------------ MODULE GroupBook ------------------------------
(***************************************************************************)
(* Which trade group a settled fill belongs to, and the history kept of    *)
(* it.  Requests overlap: each reads the rows it will change, then writes. *)
(* The ORM's UPDATE of a membership row names the key it read, group and   *)
(* fill, and fails when no row has it any more; its DELETE only warns.     *)
(* The handoff of Settlement puts a fill into the group its live tag named,*)
(* when it settles or at a later sync, and logs no event; it is one step   *)
(* here.                                                                   *)
(*                                                                         *)
(*   src/api/routers/trade_groups.py       create, assign, unassign, delete*)
(*   src/services/group_link_carryover.py  the handoff                     *)
(*   src/models.py                         the keys, and what a deletion   *)
(*                                         cascades to                     *)
(***************************************************************************)
EXTENDS Naturals, Sequences

CONSTANTS
  GroupFills,   \* executions of the brokerage
  GroupIds,     \* ids of trade_groups, never used again
  Owner,        \* the account of a fill
  NoId,
  Callers,      \* API requests in flight at once
  MaxGroupAsks  \* bound: requests

ASSUME GroupAssumption == NoId \notin GroupIds /\ MaxGroupAsks \in Nat

VARIABLES
  created,      \* ids given out
  there,        \* trade_groups
  account,      \* trade_groups.account_id
  settledFills, \* trade_executions
  member,       \* trade_group_executions: the group of a fill
  history,      \* trade_group_execution_events, by fill, and in their place
                \* the handoffs ("handed"), which are not in the table
  inFlight,     \* what each request in flight has read
  groupAsks     \* for the bound

groupVars ==
  <<created, there, account, settledFills, member, history, inFlight, groupAsks>>

AtRest == [kind |-> "none"]

GroupInit ==
  /\ created = {} /\ there = {} /\ settledFills = {}
  /\ account = [g \in GroupIds |-> NoId]
  /\ member = [f \in GroupFills |-> NoId]
  /\ history = [f \in GroupFills |-> << >>]
  /\ inFlight = [c \in Callers |-> AtRest]
  /\ groupAsks = 0

CreateGroup(g) ==
  /\ g \notin created
  /\ created' = created \cup {g}
  /\ there' = there \cup {g}
  /\ UNCHANGED <<account, settledFills, member, history, inFlight, groupAsks>>

\* _insert_group_execution: a fill that has no row gets one for the group of its
\* live tag, and no event.
HandedOver(f, g) ==
  /\ member[f] = NoId
  /\ g \in there
  /\ member' = [member EXCEPT ![f] = g]
  /\ history' = [history EXCEPT
                   ![f] = Append(@, [type |-> "handed", from |-> NoId, to |-> g])]

\* A fill settles: with its live tag, if it has one.
Settle(f) ==
  /\ f \notin settledFills
  /\ settledFills' = settledFills \cup {f}
  /\ UNCHANGED <<member, history>> \/ \E g \in GroupIds : HandedOver(f, g)
  /\ UNCHANGED <<created, there, account, inFlight, groupAsks>>

\* A tag committed after its fill settled, or one on a combo whose last leg
\* settles now, is handed over by a later sync.
HandOver(f, g) ==
  /\ f \in settledFills
  /\ HandedOver(f, g)
  /\ UNCHANGED <<created, there, account, settledFills, inFlight, groupAsks>>

-----------------------------------------------------------------------------
(* Requests: what they read. *)

Open(c, req) ==
  /\ inFlight[c] = AtRest
  /\ groupAsks < MaxGroupAsks
  /\ groupAsks' = groupAsks + 1
  /\ inFlight' = [inFlight EXCEPT ![c] = req]
  /\ UNCHANGED <<created, there, account, settledFills, member, history>>

InGroup(g) == {f \in settledFills : member[f] = g}

\* A fill of another group is refused unless the request forces it, as the
\* reassignment of one fill and the assignment of a position do.
BeginAssign(c, g, fs, force) ==
  /\ g \in there /\ fs \subseteq settledFills
  /\ force \/ \A f \in fs : member[f] \in {g, NoId}
  /\ Open(c, [kind |-> "assign", group |-> g, fills |-> fs \ InGroup(g), asked |-> fs,
              from |-> member, owned |-> account[g] # NoId])

BeginUnassign(c, g, fs) ==
  /\ g \in there /\ fs \subseteq InGroup(g)
  /\ Open(c, [kind |-> "unassign", group |-> g, fills |-> fs])

BeginDelete(c, g) ==
  /\ g \in there
  /\ Open(c, [kind |-> "delete", group |-> g, fills |-> InGroup(g)])

-----------------------------------------------------------------------------
(* What they write. *)

\* Mutant of StillThere: rows are found by fill alone, and overwritten.
StillThereByFill(req) == TRUE

\* The rows to change are those that were read: the INSERT of a fill that
\* has a row violates the unique constraint, the UPDATE of one that has moved
\* matches nothing.
StillThere(req) == \A f \in req.fills : member[f] = req.from[f]

\* No foreign key dangles: a request with nothing to write has none.
KeysHold(req) == req.group \in there \/ (req.kind # "assign" /\ req.fills = {})

MovedTo(req, f) ==
  IF req.from[f] = NoId THEN [type |-> "assigned", from |-> NoId, to |-> req.group]
  ELSE [type |-> "reassigned", from |-> req.from[f], to |-> req.group]

TakenOut(req) == [type |-> "unassigned", from |-> req.group, to |-> NoId]

Finish(c) ==
  /\ inFlight' = [inFlight EXCEPT ![c] = AtRest]
  /\ UNCHANGED <<created, settledFills, groupAsks>>

CommitAssign(c) ==
  LET req == inFlight[c] IN
  /\ req.kind = "assign"
  /\ KeysHold(req) /\ StillThere(req)
  /\ member' = [f \in GroupFills |-> IF f \in req.fills THEN req.group ELSE member[f]]
  /\ history' = [f \in GroupFills |->
                   IF f \in req.fills THEN Append(history[f], MovedTo(req, f)) ELSE history[f]]
  /\ IF req.owned \/ req.asked = {} THEN UNCHANGED account
     ELSE \E f \in req.asked : account' = [account EXCEPT ![req.group] = Owner[f]]
  /\ UNCHANGED there
  /\ Finish(c)

CommitUnassign(c) ==
  LET req == inFlight[c] IN
  /\ req.kind = "unassign"
  /\ KeysHold(req)
  /\ member' = [f \in GroupFills |->
                  IF f \in req.fills /\ member[f] = req.group THEN NoId ELSE member[f]]
  /\ history' = [f \in GroupFills |->
                   IF f \in req.fills THEN Append(history[f], TakenOut(req)) ELSE history[f]]
  /\ UNCHANGED <<there, account>>
  /\ Finish(c)

\* ON DELETE SET NULL, for a sequence of events.
Nulled(events, g) ==
  LET kept(id) == IF id = g THEN NoId ELSE id
  IN  [i \in DOMAIN events |->
         [events[i] EXCEPT !.from = kept(@), !.to = kept(@)]]

\* The group goes, its rows by cascade, and the history forgets its name.
CommitDelete(c) ==
  LET req == inFlight[c]
      written == [f \in GroupFills |->
                    IF f \in req.fills THEN Append(history[f], TakenOut(req)) ELSE history[f]]
  IN
  /\ req.kind = "delete"
  /\ KeysHold(req)
  /\ there' = there \ {req.group}
  /\ member' = [f \in GroupFills |-> IF member[f] = req.group THEN NoId ELSE member[f]]
  /\ history' = [f \in GroupFills |-> Nulled(written[f], req.group)]
  /\ UNCHANGED account
  /\ Finish(c)

\* The database refuses: the request is rolled back.
Refused(c) ==
  LET req == inFlight[c] IN
  /\ req # AtRest
  /\ ~KeysHold(req) \/ (req.kind = "assign" /\ ~StillThere(req))
  /\ UNCHANGED <<there, account, member, history>>
  /\ Finish(c)

GroupNext ==
  \/ \E g \in GroupIds : CreateGroup(g)
  \/ \E f \in GroupFills : Settle(f) \/ \E g \in GroupIds : HandOver(f, g)
  \/ \E c \in Callers, g \in GroupIds :
       \/ BeginDelete(c, g)
       \/ \E fs \in SUBSET GroupFills \ {{}} :
            \/ \E force \in BOOLEAN : BeginAssign(c, g, fs, force)
            \/ BeginUnassign(c, g, fs)
  \/ \E c \in Callers : CommitAssign(c) \/ CommitUnassign(c) \/ CommitDelete(c) \/ Refused(c)

GroupSpec == GroupInit /\ [][GroupNext]_groupVars

-----------------------------------------------------------------------------
(* Properties. *)

\* The last move into a group among the first n entries left the fill in g.
LeftIn(events, n, g) ==
  LET moved(i) == events[i].type # "unassigned"
  IN  \E i \in 1 .. n : /\ moved(i) /\ events[i].to = g
                        /\ \A j \in i + 1 .. n : ~moved(j)

\* However requests overlap and groups are deleted, the events explain each
\* fill but for the handoffs, which leave none: the group it is in is the one
\* it was last moved or handed to, and each reassignment on record starts from
\* the group the move or handoff before it led to, as far as that group still
\* exists.  A fill with no handoff after its last event is told by the table.
HistoryTellsGroup ==
  \A f \in settledFills :
    LET events == history[f]
        left(n, g) == g # NoId => LeftIn(events, n, g)
    IN  /\ left(Len(events), member[f])
        /\ \A i \in 1 .. Len(events) :
             events[i].type = "reassigned" => left(i - 1, events[i].from)
==============================================================================
