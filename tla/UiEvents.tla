------------------------------ MODULE UiEvents ------------------------------
(***************************************************************************)
(* The UI event stream (src/services/ui_events.py, the events router) and  *)
(* its two ends: the worker that posts what it committed                   *)
(* (scripts/work_jobs.py, src/services/worker_heartbeat.py) and the list a *)
(* browser keeps current from the pushed rows (useSseList.ts, events.ts).  *)
(*                                                                         *)
(* A row's value is the number of its last commit; for a worker's heartbeat*)
(* row, of its last change of status.  HTTP and the browser's EventSource  *)
(* are external: a post may fail and a connection may break.               *)
(***************************************************************************)
EXTENDS Integers, Sequences, FiniteSets

CONSTANTS
  JobRows,     \* jobs, changed by the worker and by requests
  OrderRows,   \* orders that order.fetch_sync changes
  Beats,       \* heartbeat rows, one per worker
  Browsers,
  QueueSize,   \* MAX_QUEUE_SIZE
  MaxChanges,  \* bound: commits
  MaxFaults    \* bound: failed posts and loads, streams broken or reopened, crashes

ASSUME UiAssumption ==
  /\ QueueSize \in Nat \ {0} /\ MaxChanges \in Nat /\ MaxFaults \in Nat

VARIABLES
  value,     \* the committed value of each row
  posts,     \* notification requests the API has not answered
  waiting,   \* the post the jobs worker waits for, or 0
  notified,  \* _last_notified_status of each worker process
  tab,       \* each browser: its stream, its queue at the server, its list,
             \* the loads it asked for and the answers that are on their way
  suspect,   \* history: browsers that were failed since they connected
  issued, faults

uiVars == <<value, posts, waiting, notified, tab, suspect, issued, faults>>

UiRows == JobRows \cup OrderRows \cup Beats
Unread == -1
Closed == [stream |-> "off", subscribed |-> FALSE, queue |-> <<>>,
           list |-> [r \in UiRows |-> 0], asked |-> 0, answers |-> <<>>]

UiInit ==
  /\ value = [r \in UiRows |-> 0]
  /\ posts = {} /\ waiting = 0
  /\ notified = [b \in Beats |-> Unread]
  /\ tab = [b \in Browsers |-> Closed]
  /\ suspect = {}
  /\ issued = 0 /\ faults = 0

\* A request to notify: two of one row under way may be answered in any order.
Post(r) ==
  /\ posts' = posts \cup {[id |-> issued + 1, row |-> r, read |-> Unread]}
  /\ suspect' = IF \E p \in posts : p.row = r THEN Browsers ELSE suspect

\* A commit of the jobs worker, which waits for the answer to its post ...
WorkerCommit(j) ==
  /\ waiting = 0 /\ issued < MaxChanges /\ issued' = issued + 1
  /\ value' = [value EXCEPT ![j] = issued + 1]
  /\ Post(j) /\ waiting' = issued + 1
  /\ UNCHANGED <<notified, tab, faults>>

\* ... and of a request, which publishes the refreshed row itself.
RequestCommit(j) ==
  /\ issued < MaxChanges /\ issued' = issued + 1
  /\ value' = [value EXCEPT ![j] = issued + 1]
  /\ Post(j)
  /\ UNCHANGED <<waiting, notified, tab, faults>>

\* sync_orders_with_ib publishes in the worker's process, where nobody listens.
SilentCommit(o) ==
  /\ waiting = 0 /\ issued < MaxChanges /\ issued' = issued + 1
  /\ value' = [value EXCEPT ![o] = issued + 1]
  /\ suspect' = Browsers
  /\ UNCHANGED <<posts, waiting, notified, tab, faults>>

\* upsert_worker_heartbeat: a notice on a new status, and on the old one when
\* the last notice is 30 seconds old.
NeedsNotice(b, v, due) == notified[b] # v \/ due

Heartbeat(b, changed, due) ==
  LET v == IF changed THEN issued + 1 ELSE value[b]
  IN /\ waiting = 0 /\ issued < MaxChanges /\ issued' = issued + 1
     /\ value' = [value EXCEPT ![b] = v]
     /\ IF NeedsNotice(b, v, due)
        THEN Post(b) /\ waiting' = issued + 1 /\ notified' = [notified EXCEPT ![b] = v]
        ELSE UNCHANGED <<posts, suspect, waiting, notified>>
     /\ UNCHANGED <<tab, faults>>

\* The worker gives up on a slow answer; a restart forgets what it notified.
PostTimesOut ==
  /\ waiting # 0 /\ waiting' = 0
  /\ UNCHANGED <<value, posts, notified, tab, suspect, issued, faults>>
WorkerRestarts(b) ==
  /\ faults < MaxFaults /\ faults' = faults + 1
  /\ waiting' = 0 /\ notified' = [notified EXCEPT ![b] = Unread]
  /\ UNCHANGED <<value, posts, tab, suspect, issued>>

\* notify_job and its like read the row ...
ReadRow(p) ==
  /\ p \in posts /\ p.read = Unread
  /\ posts' = (posts \ {p}) \cup {[p EXCEPT !.read = value[p.row]]}
  /\ UNCHANGED <<value, waiting, notified, tab, suspect, issued, faults>>

Done(p) == posts' = posts \ {p} /\ waiting' = IF waiting = p.id THEN 0 ELSE waiting

\* A subscriber whose queue is full is dropped; its stream is not told.
Offered(t, e) ==
  IF ~t.subscribed THEN t
  ELSE IF Len(t.queue) < QueueSize THEN [t EXCEPT !.queue = Append(@, e)]
  ELSE [t EXCEPT !.subscribed = FALSE]

\* Broadcaster.publish reaches the subscribers of reach: all of them, unless
\* the post fails or the set changes under the loop.  A tab that is opening its
\* stream misses the event, and learns of it if a load is still to be read.
Publish(p, reach) ==
  LET e == [row |-> p.row, val |-> p.read]
      served == [b \in Browsers |-> IF b \in reach THEN Offered(tab[b], e) ELSE tab[b]]
      behind(b) == tab[b].stream = "opening" /\ tab[b].asked = 0
  IN /\ p \in posts /\ p.read # Unread
     /\ tab' = served
     /\ Done(p)
     /\ faults' = IF reach = Browsers THEN faults ELSE faults + 1
     /\ faults' <= MaxFaults
     /\ suspect' = suspect \cup (Browsers \ reach) \cup
                   {b \in Browsers : behind(b) \/ (tab[b].subscribed /\ ~served[b].subscribed)}
     /\ UNCHANGED <<value, notified, issued>>

\* The list is mounted: the snapshot is asked for and the stream opened.
Mount(b) ==
  /\ tab[b].stream = "off"
  /\ tab' = [tab EXCEPT ![b] = [Closed EXCEPT !.stream = "opening", !.asked = 1]]
  /\ suspect' = IF posts = {} THEN suspect \ {b} ELSE suspect
  /\ UNCHANGED <<value, posts, waiting, notified, issued, faults>>

\* Mutant of Reloaded: only the first connection loads.
ReloadedNever(t) ==
  [t EXCEPT !.stream = "on", !.subscribed = TRUE, !.queue = <<>>]

\* stream_events subscribes; a stream that was disconnected and is connected is
\* loaded once more, next to the loads still under way.
Reloaded(t) ==
  [t EXCEPT !.stream = "on", !.subscribed = TRUE, !.queue = <<>>,
            !.asked = IF t.stream = "broken" THEN @ + 1 ELSE @]

Connect(b) ==
  /\ tab[b].stream \in {"opening", "broken"}
  /\ tab' = [tab EXCEPT ![b] = Reloaded(@)]
  /\ suspect' = IF tab[b].stream = "broken" /\ posts = {} THEN suspect \ {b} ELSE suspect
  /\ UNCHANGED <<value, posts, waiting, notified, issued, faults>>

\* The server's end of a stream goes, with its queue.
Lost(t, stream) == [t EXCEPT !.stream = stream, !.subscribed = FALSE, !.queue = <<>>]

\* A component that follows another topic makes the tab reopen its stream, also
\* a disconnected one: what is queued for the old stream, or was missed while it
\* was down, is lost, for the status is "connecting" and nothing is loaded again.
Missed(t) == t.stream = "broken" \/ t.queue # <<>> \/ ~t.subscribed
Reopen(b) ==
  /\ tab[b].stream \in {"on", "broken"} /\ faults < MaxFaults /\ faults' = faults + 1
  /\ tab' = [tab EXCEPT ![b] = Lost(@, "opening")]
  /\ suspect' = IF Missed(tab[b]) /\ tab[b].asked = 0 THEN suspect \cup {b} ELSE suspect
  /\ UNCHANGED <<value, posts, waiting, notified, issued>>

\* The connection fails, or cannot be opened.
Break(b) ==
  /\ tab[b].stream \in {"opening", "on"} /\ faults < MaxFaults /\ faults' = faults + 1
  /\ tab' = [tab EXCEPT ![b] = Lost(@, "broken")]
  /\ UNCHANGED <<value, posts, waiting, notified, suspect, issued>>

\* The list has changed since the answers of these loads were read.
Overtaken(answers) == [k \in DOMAIN answers |-> [answers[k] EXCEPT !.passed = TRUE]]

\* The next event of the queue replaces its row.
Delivered(t) ==
  LET e == Head(t.queue)
  IN [t EXCEPT !.queue = Tail(@), !.list = [@ EXCEPT ![e.row] = e.val],
               !.answers = Overtaken(@)]

Deliver(b) ==
  /\ tab[b].stream = "on" /\ tab[b].queue # <<>>
  /\ tab' = [tab EXCEPT ![b] = Delivered(@)]
  /\ UNCHANGED <<value, posts, waiting, notified, suspect, issued, faults>>

\* A load reads its snapshot ...
Answered(t) ==
  [t EXCEPT !.asked = @ - 1, !.answers = Append(@, [snap |-> value, passed |-> FALSE])]

ReadSnapshot(b) ==
  /\ tab[b].asked > 0
  /\ tab' = [tab EXCEPT ![b] = Answered(@)]
  /\ UNCHANGED <<value, posts, waiting, notified, suspect, issued, faults>>

\* ... which replaces the whole list when it comes in, in whatever order the
\* answers do: events, and answers read later, are forgotten.
Landed(t, i) ==
  [t EXCEPT !.list = t.answers[i].snap,
            !.answers = Overtaken(SubSeq(@, 1, i - 1)) \o SubSeq(@, i + 1, Len(@))]

\* An answer the list has gone past is one too many when none is to follow.
LandSnapshot(b, i) ==
  LET t == tab[b]
  IN /\ i \in DOMAIN t.answers
     /\ tab' = [tab EXCEPT ![b] = Landed(@, i)]
     /\ suspect' = IF t.answers[i].passed /\ i = Len(t.answers) /\ t.asked = 0
                   THEN suspect \cup {b} ELSE suspect
     /\ UNCHANGED <<value, posts, waiting, notified, issued, faults>>

\* A load that fails leaves the list as it is; the workers' lights, whose load
\* catches the error itself, show their fallback.
Failed(t) ==
  [t EXCEPT !.asked = @ - 1,
            !.list = [r \in UiRows |-> IF r \in Beats THEN Unread ELSE t.list[r]]]

FailLoad(b) ==
  /\ tab[b].asked > 0 /\ faults < MaxFaults /\ faults' = faults + 1
  /\ tab' = [tab EXCEPT ![b] = Failed(@)]
  /\ suspect' = IF tab[b].asked = 1 THEN suspect \cup {b} ELSE suspect
  /\ UNCHANGED <<value, posts, waiting, notified, issued>>

UiNext ==
  \/ \E j \in JobRows : WorkerCommit(j) \/ RequestCommit(j)
  \/ \E o \in OrderRows : SilentCommit(o)
  \/ \E b \in Beats : WorkerRestarts(b) \/ \E changed, due \in BOOLEAN : Heartbeat(b, changed, due)
  \/ PostTimesOut
  \/ \E p \in posts : ReadRow(p) \/ \E reach \in SUBSET Browsers : Publish(p, reach)
  \/ \E b \in Browsers : \/ Mount(b) \/ Connect(b) \/ Reopen(b) \/ Break(b)
                         \/ Deliver(b) \/ ReadSnapshot(b) \/ FailLoad(b)
                         \/ \E i \in DOMAIN tab[b].answers : LandSnapshot(b, i)

UiSpec == UiInit /\ [][UiNext]_uiVars
-----------------------------------------------------------------------------
\* Once nothing is under way, a connected list shows every row as it was last
\* committed, unless one of the known gaps hit it since its last load was asked
\* for: a lost post, two posts of one row at once, a full queue, a change nobody
\* posted, an event that came while the stream was being opened, a stream that
\* was down or had events queued when another topic reopened it, a load that
\* failed, an answer that landed after an event or an answer read later.
ListIsCurrent ==
  \A b \in Browsers :
    /\ posts = {} /\ b \notin suspect
    /\ tab[b].stream = "on" /\ tab[b].queue = <<>>
    /\ tab[b].asked = 0 /\ tab[b].answers = <<>>
    => tab[b].list = value
=============================================================================
