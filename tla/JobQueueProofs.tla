--------------------------- MODULE JobQueueProofs ---------------------------
(***************************************************************************)
(* What TLAPS proves of JobQueue, for every number of jobs and every bound. *)
(* The first part holds of any number of workers and producers; the second *)
(* of the deployment, one jobs worker (and for the idle check one producer): *)
(* with two workers both may select the same row before either claims it.  *)
(***************************************************************************)
EXTENDS JobQueue, FiniteSetTheorems, TLAPS

-----------------------------------------------------------------------------
(* Type correctness. *)

Busy == {"selected", "claimed", "handling"}

\* A worker past its SELECT holds an inserted row.
ClaimsInserted == \A w \in Workers : pc[w] \in Busy => held[w] \in 1 .. lastId

\* The rows inserted are those up to lastId.
InsertedUpToLast == \A j \in JobIds : status[j] = "absent" <=> j > lastId

Typed == TypeOK /\ ClaimsInserted /\ InsertedUpToLast

\* The empty session is a snapshot.
LEMMA UnseenTyped == Unseen \in Snapshots
BY DEF Unseen, Snapshots, Statuses

\* Inserting a row keeps the table typed.
LEMMA EnqueueTyped ==
  ASSUME RowsTyped, ClaimsInserted, InsertedUpToLast,
         NEW t \in Types \cup {NoType}, NEW b \in Nat, enqueue_job(t, b),
         pc' = pc, held' = held
  PROVE  RowsTyped' /\ ClaimsInserted' /\ InsertedUpToLast'
<1>1. RowsTyped'
  BY ConstantsAssumption DEF RowsTyped, enqueue_job, JobIds, Statuses
<1>2. ClaimsInserted'
  BY ConstantsAssumption DEF ClaimsInserted, RowsTyped, enqueue_job
<1>3. InsertedUpToLast'
  BY ConstantsAssumption DEF InsertedUpToLast, RowsTyped, enqueue_job, JobIds
<1> QED
  BY <1>1, <1>2, <1>3

\* What a busy worker holds is a row of the table.
LEMMA HeldIsRow ==
  ASSUME RowsTyped, ClaimsInserted, InsertedUpToLast,
         NEW w \in Workers, pc[w] \in Busy
  PROVE  held[w] \in JobIds /\ held[w] <= lastId /\ status[held[w]] # "absent"
BY ConstantsAssumption
   DEF RowsTyped, ClaimsInserted, InsertedUpToLast, JobIds

\* Changing the status of an inserted row leaves it inserted.
LEMMA SetStatusTyped ==
  ASSUME RowsTyped, InsertedUpToLast, lastId' = lastId,
         NEW j \in JobIds, j <= lastId, NEW from,
         NEW to \in Statuses \ {"absent"}, SetStatus(j, from, to)
  PROVE  status' \in [JobIds -> Statuses] /\ InsertedUpToLast'
<1>1. CASE from = to
  BY <1>1 DEF SetStatus, RowsTyped, InsertedUpToLast
<1>2. CASE from # to
  <2>1. status' = [status EXCEPT ![j] = to]
    BY <1>2 DEF SetStatus
  <2> QED
    BY <2>1, ConstantsAssumption DEF RowsTyped, InsertedUpToLast, JobIds
<1> QED
  BY <1>1, <1>2

\* Ending a session leaves the processes typed and their claims inserted.
LEMMA ReleaseTyped ==
  ASSUME ProcsTyped, ClaimsInserted, NEW w \in Workers, Release(w),
         check' = check, lastId' = lastId
  PROVE  ProcsTyped' /\ ClaimsInserted'
<1>1. 0 \in 0 .. MaxJobs
  BY ConstantsAssumption
<1>2. ProcsTyped'
  BY <1>1, UnseenTyped DEF Release, ProcsTyped
<1>3. ClaimsInserted'
  BY DEF Release, ProcsTyped, ClaimsInserted, Busy
<1> QED
  BY <1>2, <1>3

\* Charging a failure keeps the table and the history typed.
LEMMA FailTyped ==
  ASSUME RowsTyped, HistoryTyped, InsertedUpToLast, lastId' = lastId,
         NEW j \in JobIds, j <= lastId, NEW loaded \in Snapshots,
         NEW delayed \in BOOLEAN, fail_or_retry_job(j, loaded, delayed),
         UNCHANGED <<maxAttempts, jobType, archived, lastId,
                     deferrals, byIdle, orphans, crashes>>
  PROVE  RowsTyped' /\ HistoryTyped' /\ InsertedUpToLast'
<1>1. loaded.attempts \in Nat
  BY DEF Snapshots
<1>2. status' \in [JobIds -> Statuses] /\ InsertedUpToLast'
  <2>1. CASE SetStatus(j, loaded.status, "failed")
    BY <2>1, SetStatusTyped DEF Statuses
  <2>2. CASE SetStatus(j, loaded.status, "queued")
    BY <2>2, SetStatusTyped DEF Statuses
  <2> QED
    BY <2>1, <2>2 DEF fail_or_retry_job
<1>3. due' \subseteq JobIds
  BY DEF RowsTyped, fail_or_retry_job
<1>4. RowsTyped'
  <2>1. attempts' = [attempts EXCEPT ![j] = loaded.attempts + 1]
    BY DEF fail_or_retry_job
  <2> QED
    BY <1>1, <1>2, <1>3, <2>1 DEF RowsTyped
<1>5. HistoryTyped'
  BY DEF HistoryTyped, fail_or_retry_job
<1> QED
  BY <1>2, <1>4, <1>5

\* Every action keeps the type invariant.
LEMMA TypedStep == Typed /\ [Next]_vars => Typed'
<1> SUFFICES ASSUME Typed, [Next]_vars PROVE Typed'
  OBVIOUS
<1> USE DEF Typed, TypeOK
<1>1. ASSUME NEW t \in Types, NEW b \in Budgets, CreateJob(t, b) PROVE Typed'
  <2>1. b \in Nat
    BY ConstantsAssumption
  <2>2. RowsTyped' /\ ClaimsInserted' /\ InsertedUpToLast'
    BY <1>1, <2>1, EnqueueTyped DEF CreateJob, procs
  <2> QED
    BY <1>1, <2>2 DEF CreateJob, procs, history, ProcsTyped, HistoryTyped
<1>2. ASSUME NEW j \in JobIds, Rerun(j) PROVE Typed'
  <2>1. jobType[j] \in Types \cup {NoType} /\ DefaultBudget \in Nat
    BY ConstantsAssumption DEF RowsTyped
  <2>2. RowsTyped' /\ ClaimsInserted' /\ InsertedUpToLast'
    BY <1>2, <2>1, EnqueueTyped DEF Rerun, procs
  <2> QED
    BY <1>2, <2>2 DEF Rerun, procs, history, ProcsTyped, HistoryTyped
<1>3. ASSUME NEW j \in JobIds, Archive(j) PROVE Typed'
  BY <1>3 DEF Archive, procs, history, RowsTyped, ProcsTyped, HistoryTyped,
              ClaimsInserted, InsertedUpToLast
<1>4. ASSUME NEW p \in Producers, NEW t \in Types, CheckIdle(p, t)
      PROVE  Typed'
  BY <1>4 DEF CheckIdle, rows, history, RowsTyped, ProcsTyped, HistoryTyped,
              ClaimsInserted, InsertedUpToLast
<1>5. ASSUME NEW p \in Producers, InsertIdle(p) PROVE Typed'
  <2>1. check[p] \in Types \cup {NoType} /\ DefaultBudget \in Nat
    BY ConstantsAssumption DEF ProcsTyped
  <2>2. RowsTyped' /\ ClaimsInserted' /\ InsertedUpToLast'
    BY <1>5, <2>1, EnqueueTyped DEF InsertIdle
  <2>3. ProcsTyped'
    BY <1>5 DEF InsertIdle, ProcsTyped
  <2>4. lastId + 1 \in JobIds
    BY <1>5, ConstantsAssumption DEF InsertIdle, enqueue_job, RowsTyped, JobIds
  <2>5. HistoryTyped'
    BY <1>5, <2>4 DEF InsertIdle, HistoryTyped
  <2> QED
    BY <2>2, <2>3, <2>5
<1>6. ASSUME NEW w \in Workers, SelectNext(w) PROVE Typed'
  <2>1. PICK j \in JobIds : /\ status[j] = "queued"
                            /\ held' = [held EXCEPT ![w] = j]
    BY <1>6 DEF SelectNext, Claimable
  <2>2. j \in 1 .. lastId /\ j \in 0 .. MaxJobs
    BY <2>1, ConstantsAssumption DEF InsertedUpToLast, RowsTyped, JobIds
  <2>3. ProcsTyped' /\ ClaimsInserted'
    BY <1>6, <2>1, <2>2
       DEF SelectNext, rows, ProcsTyped, ClaimsInserted, Busy
  <2> QED
    BY <1>6, <2>3
       DEF SelectNext, rows, history, RowsTyped, HistoryTyped, InsertedUpToLast
<1>7. ASSUME NEW w \in Workers, Claim(w) PROVE Typed'
  <2>1. held[w] \in JobIds /\ status[held[w]] # "absent"
    BY <1>7, HeldIsRow DEF Claim, Busy
  <2>2. RowsTyped' /\ InsertedUpToLast'
    BY <1>7, <2>1 DEF Claim, RowsTyped, InsertedUpToLast, Statuses
  <2>3. ProcsTyped' /\ ClaimsInserted'
    BY <1>7 DEF Claim, ProcsTyped, ClaimsInserted, Busy
  <2> QED
    BY <1>7, <2>2, <2>3 DEF Claim, history, HistoryTyped
<1>8. ASSUME NEW w \in Workers, Load(w) PROVE Typed'
  <2>1. held[w] \in JobIds
    BY <1>8, HeldIsRow DEF Load, Busy
  <2>2. [status |-> status[held[w]], attempts |-> attempts[held[w]]]
          \in Snapshots
    BY <2>1 DEF RowsTyped, Snapshots
  <2>3. ProcsTyped' /\ ClaimsInserted'
    BY <1>8, <2>2 DEF Load, rows, ProcsTyped, ClaimsInserted, Busy
  <2> QED
    BY <1>8, <2>3
       DEF Load, rows, history, RowsTyped, HistoryTyped, InsertedUpToLast
<1>9. ASSUME NEW w \in Workers, RejectUnsupported(w) PROVE Typed'
  <2>1. held[w] \in JobIds /\ held[w] <= lastId
    BY <1>9, HeldIsRow DEF RejectUnsupported, Busy
  <2>2. [status |-> status[held[w]], attempts |-> attempts[held[w]]]
          \in Snapshots
    BY <2>1 DEF RowsTyped, Snapshots
  <2>3. RowsTyped' /\ HistoryTyped' /\ InsertedUpToLast'
    BY <1>9, <2>1, <2>2, FailTyped DEF RejectUnsupported
  <2>4. ProcsTyped' /\ ClaimsInserted'
    BY <1>9, ReleaseTyped DEF RejectUnsupported
  <2> QED
    BY <2>3, <2>4
<1>10. ASSUME NEW w \in Workers, Complete(w) PROVE Typed'
  <2>1. held[w] \in JobIds /\ held[w] <= lastId
    BY <1>10, HeldIsRow DEF Complete, Busy
  <2>2. status' \in [JobIds -> Statuses] /\ InsertedUpToLast'
    BY <1>10, <2>1, SetStatusTyped DEF Complete, Statuses
  <2>3. ProcsTyped' /\ ClaimsInserted'
    BY <1>10, ReleaseTyped DEF Complete
  <2> QED
    BY <1>10, <2>2, <2>3 DEF Complete, history, RowsTyped, HistoryTyped
<1>11. ASSUME NEW w \in Workers, Defer(w) PROVE Typed'
  <2>1. held[w] \in JobIds /\ held[w] <= lastId
    BY <1>11, HeldIsRow DEF Defer, Busy
  <2>2. status' \in [JobIds -> Statuses] /\ InsertedUpToLast'
    BY <1>11, <2>1, SetStatusTyped DEF Defer, Statuses
  <2>3. ProcsTyped' /\ ClaimsInserted'
    BY <1>11, ReleaseTyped DEF Defer
  <2>4. RowsTyped'
    BY <1>11, <2>2 DEF Defer, RowsTyped
  <2>5. HistoryTyped'
    BY <1>11, <2>1 DEF Defer, HistoryTyped
  <2> QED
    BY <2>2, <2>3, <2>4, <2>5
<1>12. ASSUME NEW w \in Workers, Fail(w) PROVE Typed'
  <2>1. held[w] \in JobIds /\ held[w] <= lastId
    BY <1>12, HeldIsRow DEF Fail, Busy
  <2>2. seen[w] \in Snapshots
    BY DEF ProcsTyped
  <2>3. RowsTyped' /\ HistoryTyped' /\ InsertedUpToLast'
    BY <1>12, <2>1, <2>2, FailTyped DEF Fail
  <2>4. ProcsTyped' /\ ClaimsInserted'
    BY <1>12, ReleaseTyped DEF Fail
  <2> QED
    BY <2>3, <2>4
<1>13. ASSUME NEW w \in Workers, Crash(w) PROVE Typed'
  <2>1. pc[w] \in {"claimed", "handling"} => held[w] \in JobIds
    BY HeldIsRow DEF Busy
  <2>2. 0 \in 0 .. MaxJobs
    BY ConstantsAssumption
  <2>3. ProcsTyped' /\ ClaimsInserted'
    BY <1>13, <2>2, UnseenTyped
       DEF Crash, rows, ProcsTyped, ClaimsInserted, Busy
  <2>4. HistoryTyped'
    BY <1>13, <2>1 DEF Crash, HistoryTyped
  <2> QED
    BY <1>13, <2>3, <2>4 DEF Crash, rows, RowsTyped, InsertedUpToLast
<1>14. ASSUME NEW w \in Workers, Restart(w) PROVE Typed'
  <2>1. ProcsTyped' /\ ClaimsInserted'
    BY <1>14 DEF Restart, rows, ProcsTyped, ClaimsInserted, Busy
  <2> QED
    BY <1>14, <2>1
       DEF Restart, rows, history, RowsTyped, HistoryTyped, InsertedUpToLast
<1>15. ASSUME NEW j \in JobIds, BecomeDue(j) PROVE Typed'
  BY <1>15 DEF BecomeDue, procs, history, RowsTyped, ProcsTyped, HistoryTyped,
               ClaimsInserted, InsertedUpToLast
<1>16. CASE UNCHANGED vars
  BY <1>16 DEF vars, rows, procs, history, RowsTyped, ProcsTyped,
               HistoryTyped, ClaimsInserted, InsertedUpToLast
<1> QED
  BY <1>1, <1>2, <1>3, <1>4, <1>5, <1>6, <1>7, <1>8, <1>9, <1>10, <1>11,
     <1>12, <1>13, <1>14, <1>15, <1>16 DEF Next, Requests, Produce, Work

\* Type correctness: every column and every process-local variable keeps its
\* range, a worker past its SELECT holds an inserted row, and rows are
\* inserted in the order of their ids.
THEOREM TypeCorrect == Spec => []Typed
<1>1. Init => Typed
  BY ConstantsAssumption, UnseenTyped
     DEF Init, Typed, TypeOK, RowsTyped, ProcsTyped, HistoryTyped,
         ClaimsInserted, InsertedUpToLast, JobIds, Statuses, Busy
<1> QED
  BY <1>1, TypedStep, PTL DEF Spec

\* The type invariant the runs check, for every instance.
THEOREM TypeInvariant == Spec => []TypeOK
<1>1. Typed => TypeOK
  BY DEF Typed
<1> QED
  BY <1>1, TypeCorrect, PTL

-----------------------------------------------------------------------------
(* Any number of workers: attempts never outnumber failures. *)

\* What a session loaded was no more than the failures so far.
SnapshotsBehind ==
  \A w \in Workers : pc[w] = "handling" => seen[w].attempts <= failures[held[w]]

Counted == AttemptsWereFailures /\ FailedSpentBudget /\ SnapshotsBehind

\* Charging a failure to an inserted row, from attempts that were loaded
\* behind the failures, keeps the accounts.
LEMMA FailCounted ==
  ASSUME Typed, Counted, NEW j \in JobIds, NEW loaded \in Snapshots,
         loaded.attempts <= failures[j], NEW delayed \in BOOLEAN,
         fail_or_retry_job(j, loaded, delayed), maxAttempts' = maxAttempts
  PROVE  AttemptsWereFailures' /\ FailedSpentBudget'
<1> USE DEF Typed, TypeOK, RowsTyped, HistoryTyped
<1>1. /\ attempts' = [attempts EXCEPT ![j] = loaded.attempts + 1]
      /\ failures' = [failures EXCEPT ![j] = failures[j] + 1]
  BY DEF fail_or_retry_job
<1>2. loaded.attempts \in Nat
  BY DEF Snapshots
<1>3. AttemptsWereFailures'
  BY <1>1, <1>2 DEF Counted, AttemptsWereFailures
<1>4. FailedSpentBudget'
  <2>1. ASSUME NEW i \in JobIds, status'[i] = "failed"
        PROVE  failures'[i] >= maxAttempts[i]
    <3>1. CASE status[i] = "failed"
      BY <1>1, <3>1 DEF Counted, FailedSpentBudget
    <3>2. CASE status[i] # "failed"
      <4>1. i = j /\ loaded.attempts + 1 >= maxAttempts[j]
        BY <2>1, <3>2 DEF fail_or_retry_job, SetStatus
      <4> QED
        BY <1>1, <1>2, <4>1
    <3> QED
      BY <3>1, <3>2
  <2> QED
    BY <2>1 DEF FailedSpentBudget
<1> QED
  BY <1>3, <1>4

\* Every action keeps the accounts.
LEMMA CountedStep == Typed /\ Counted /\ [Next]_vars => Counted'
<1> SUFFICES ASSUME Typed, Counted, [Next]_vars PROVE Counted'
  OBVIOUS
<1> USE DEF Counted, AttemptsWereFailures, FailedSpentBudget, SnapshotsBehind
<1>t. /\ RowsTyped /\ ProcsTyped /\ HistoryTyped
      /\ ClaimsInserted /\ InsertedUpToLast
  BY DEF Typed, TypeOK
<1>1. ASSUME NEW t, NEW b, enqueue_job(t, b), UNCHANGED <<pc, held, seen, failures>>
      PROVE  Counted'
  BY <1>1, <1>t, ConstantsAssumption DEF enqueue_job, RowsTyped, JobIds
<1>2. ASSUME NEW w \in Workers, SelectNext(w) PROVE Counted'
  BY <1>2, <1>t DEF SelectNext, rows, history, ProcsTyped
<1>3. ASSUME NEW w \in Workers, Claim(w) PROVE Counted'
  BY <1>3, <1>t DEF Claim, history, RowsTyped, ProcsTyped
<1>4. ASSUME NEW w \in Workers, Load(w) PROVE Counted'
  <2>1. held[w] \in JobIds
    BY <1>4, <1>t, HeldIsRow DEF Load, Busy
  <2> QED
    BY <1>4, <1>t, <2>1 DEF Load, rows, history, ProcsTyped
<1>5. ASSUME NEW w \in Workers, NEW loaded \in Snapshots, NEW delayed \in BOOLEAN,
             pc[w] \in Busy, loaded.attempts <= failures[held[w]],
             fail_or_retry_job(held[w], loaded, delayed), Release(w),
             maxAttempts' = maxAttempts
      PROVE  Counted'
  <2>1. held[w] \in JobIds
    BY <1>5, <1>t, HeldIsRow
  <2>2. AttemptsWereFailures' /\ FailedSpentBudget'
    BY <1>5, <2>1, FailCounted
  <2>3. \A j \in JobIds : failures[j] <= failures'[j]
    BY <1>5, <1>t, <2>1 DEF fail_or_retry_job, HistoryTyped
  <2>4. ASSUME NEW v \in Workers, pc'[v] = "handling"
        PROVE  seen'[v].attempts <= failures'[held'[v]]
    <3>1. /\ v # w /\ pc[v] = "handling"
          /\ held'[v] = held[v] /\ seen'[v] = seen[v]
      BY <1>5, <1>t, <2>4 DEF Release, ProcsTyped
    <3>2. held[v] \in JobIds
      BY <3>1, <1>t, HeldIsRow DEF Busy
    <3>3. /\ seen[v].attempts \in Nat /\ failures[held[v]] \in Nat
          /\ failures'[held[v]] \in Nat
      BY <3>2, <1>5, <1>t, <2>1 DEF fail_or_retry_job, HistoryTyped, ProcsTyped, Snapshots
    <3> QED
      BY <3>1, <3>2, <3>3, <2>3
  <2> QED
    BY <2>2, <2>4
<1>6. ASSUME NEW w \in Workers, RejectUnsupported(w) PROVE Counted'
  <2>1. held[w] \in JobIds
    BY <1>6, <1>t, HeldIsRow DEF RejectUnsupported, Busy
  <2>2. [status |-> status[held[w]], attempts |-> attempts[held[w]]]
          \in Snapshots
    BY <2>1, <1>t DEF RowsTyped, Snapshots
  <2> QED
    BY <1>5, <1>6, <2>1, <2>2 DEF RejectUnsupported, Busy
<1>7. ASSUME NEW w \in Workers, NEW from, NEW to \in {"queued", "completed"},
             SetStatus(held[w], from, to), Release(w),
             UNCHANGED <<attempts, maxAttempts, failures>>
      PROVE  Counted'
  BY <1>7, <1>t DEF SetStatus, Release, RowsTyped, ProcsTyped
<1>8. ASSUME NEW w \in Workers, Complete(w) PROVE Counted'
  BY <1>7, <1>8 DEF Complete, history
<1>9. ASSUME NEW w \in Workers, Defer(w) PROVE Counted'
  BY <1>7, <1>9 DEF Defer
<1>10. ASSUME NEW w \in Workers, Fail(w) PROVE Counted'
  BY <1>5, <1>10, <1>t DEF Fail, Busy, ProcsTyped
<1>11. ASSUME NEW w \in Workers, Crash(w) PROVE Counted'
  BY <1>11, <1>t DEF Crash, rows, ProcsTyped
<1>12. ASSUME NEW w \in Workers, Restart(w) PROVE Counted'
  BY <1>12, <1>t DEF Restart, rows, history, ProcsTyped
<1>13. ASSUME UNCHANGED <<status, attempts, maxAttempts, pc, held, seen, failures>>
       PROVE  Counted'
  BY <1>13
<1> QED
  BY <1>1, <1>2, <1>3, <1>4, <1>6, <1>8, <1>9, <1>10, <1>11, <1>12, <1>13
     DEF Next, Requests, Produce, Work, CreateJob, Rerun, Archive, CheckIdle,
         InsertIdle, BecomeDue, vars, rows, procs, history

\* However many workers run, whatever they read before others wrote: the
\* attempts charged to a job never exceed its failed executions, so neither
\* a deferral nor a crash spends the budget (JobDeferred's contract).
THEOREM AttemptsAreFailures == Spec => []AttemptsWereFailures
<1>1. Init => Counted
  BY ConstantsAssumption
     DEF Init, Counted, AttemptsWereFailures, FailedSpentBudget, SnapshotsBehind
<1>2. Counted => AttemptsWereFailures
  BY DEF Counted
<1> QED
  BY <1>1, <1>2, TypeCorrect, CountedStep, PTL DEF Spec

\* ... and a job is failed only after max_attempts executions failed.
THEOREM NoEarlyVerdict == Spec => []FailedSpentBudget
<1>1. Init => Counted
  BY ConstantsAssumption
     DEF Init, Counted, AttemptsWereFailures, FailedSpentBudget, SnapshotsBehind
<1>2. Counted => FailedSpentBudget
  BY DEF Counted
<1> QED
  BY <1>1, <1>2, TypeCorrect, CountedStep, PTL DEF Spec

-----------------------------------------------------------------------------
(* One worker. *)

OneWorker == \A v, w \in Workers : v = w

-----------------------------------------------------------------------------
(* With one worker, what its session loaded is still what the table says:  *)
(* nobody else writes the status or the attempts of a queued or running row.*)

Owning == {"claimed", "handling"}

SessionCurrent ==
  \A w \in Workers :
    /\ pc[w] = "selected" => status[held[w]] = "queued"
    /\ pc[w] \in Owning => /\ status[held[w]] = "running"
                           /\ held[w] \notin orphans
    /\ pc[w] = "handling" =>
         seen[w] = [status |-> "running", attempts |-> attempts[held[w]]]

OrphansRun == \A j \in orphans : status[j] = "running"

RunningHasOwner ==
  \A j \in JobIds : status[j] = "running" =>
    j \in orphans \/ \E w \in Workers : pc[w] \in Owning /\ held[w] = j

\* Rows are inserted with a type and a positive budget, and ids not yet used
\* have been charged nothing.
Fresh ==
  \A j \in JobIds :
    /\ maxAttempts[j] \in Budgets
    /\ IF status[j] = "absent" THEN attempts[j] = 0 ELSE jobType[j] \in Types

Solo ==
  AttemptsExact /\ SessionCurrent /\ OrphansRun /\ RunningHasOwner /\ Fresh

\* The worker starts idle, over an empty table.
LEMMA InitSolo == Init => Solo
BY ConstantsAssumption
   DEF Init, Solo, AttemptsExact, SessionCurrent, OrphansRun, RunningHasOwner,
       Fresh, Owning

\* Enqueueing touches an unused row only.
LEMMA EnqueueSolo ==
  ASSUME Typed, Solo, NEW t \in Types, NEW b \in Budgets, enqueue_job(t, b),
         UNCHANGED <<pc, held, seen, failures, orphans>>
  PROVE  Solo'
<1> DEFINE n == lastId + 1
<1> USE DEF Solo
<1>t. /\ RowsTyped /\ ProcsTyped /\ HistoryTyped
      /\ ClaimsInserted /\ InsertedUpToLast
  BY DEF Typed, TypeOK
<1>1. /\ n \in JobIds /\ status[n] = "absent"
      /\ status' = [status EXCEPT ![n] = "queued"]
      /\ maxAttempts' = [maxAttempts EXCEPT ![n] = b]
      /\ jobType' = [jobType EXCEPT ![n] = t]
      /\ attempts' = attempts
  BY <1>t, ConstantsAssumption DEF enqueue_job, RowsTyped, InsertedUpToLast, JobIds
<1>2. \A w \in Workers : pc[w] \in Busy => held[w] # n /\ held[w] \in JobIds
  BY <1>1, <1>t, HeldIsRow
<1>3. n \notin orphans /\ orphans \subseteq JobIds
  BY <1>1, <1>t DEF OrphansRun, HistoryTyped
<1> HIDE DEF n
<1>4. AttemptsExact'
  BY <1>1, <1>t, ConstantsAssumption DEF AttemptsExact, Fresh, RowsTyped
<1>5. SessionCurrent'
  BY <1>1, <1>2, <1>t DEF SessionCurrent, Busy, Owning, RowsTyped
<1>6. OrphansRun' /\ RunningHasOwner' /\ Fresh'
  BY <1>1, <1>3, <1>t DEF OrphansRun, RunningHasOwner, Fresh, RowsTyped
<1> QED
  BY <1>4, <1>5, <1>6

\* A session ends by moving its own row: the worker owns nothing afterwards.
LEMMA EndSolo ==
  ASSUME Typed, Solo, OneWorker, NEW w \in Workers, pc[w] \in Owning,
         NEW to \in {"queued", "completed", "failed"},
         status' = [status EXCEPT ![held[w]] = to],
         NEW k \in {0, 1},
         attempts' = [attempts EXCEPT ![held[w]] = attempts[held[w]] + k],
         failures' = [failures EXCEPT ![held[w]] = failures[held[w]] + k],
         to = "queued" => attempts[held[w]] + k < maxAttempts[held[w]],
         Release(w), UNCHANGED <<maxAttempts, jobType, orphans>>
  PROVE  Solo'
<1> USE DEF Solo
<1>t. /\ RowsTyped /\ ProcsTyped /\ HistoryTyped
      /\ ClaimsInserted /\ InsertedUpToLast
  BY DEF Typed, TypeOK
<1> DEFINE j == held[w]
<1>1. /\ j \in JobIds /\ status[j] = "running" /\ j \notin orphans
      /\ \A v \in Workers : pc'[v] = "idle"
  BY <1>t, HeldIsRow DEF SessionCurrent, Owning, Busy, Release, OneWorker, ProcsTyped
<1> HIDE DEF j
<1>2. AttemptsExact'
  BY <1>1, <1>t DEF AttemptsExact, RowsTyped, HistoryTyped, j
<1>3. SessionCurrent'
  BY <1>1 DEF SessionCurrent, Owning
<1>4. OrphansRun'
  BY <1>1, <1>t DEF OrphansRun, RowsTyped, HistoryTyped, j
<1>5. \A v \in Workers : v = w
  BY DEF OneWorker
<1>6. RunningHasOwner'
  BY <1>1, <1>5, <1>t DEF RunningHasOwner, RowsTyped, j
<1>7. Fresh'
  BY <1>1, <1>t DEF Fresh, RowsTyped, j
<1> QED
  BY <1>2, <1>3, <1>4, <1>6, <1>7

\* A charge from the current attempts is such an end.
LEMMA ChargeEffect ==
  ASSUME Typed, Solo, NEW w \in Workers, pc[w] \in Owning, NEW delayed,
         fail_or_retry_job(held[w],
           [status |-> "running", attempts |-> attempts[held[w]]], delayed)
  PROVE  LET j == held[w]
             to == IF attempts[j] + 1 < maxAttempts[j] THEN "queued" ELSE "failed"
         IN  /\ status' = [status EXCEPT ![j] = to]
             /\ attempts' = [attempts EXCEPT ![j] = attempts[j] + 1]
             /\ failures' = [failures EXCEPT ![j] = failures[j] + 1]
<1>1. /\ held[w] \in JobIds /\ attempts[held[w]] \in Nat
      /\ maxAttempts[held[w]] \in Nat
  BY HeldIsRow DEF Typed, TypeOK, RowsTyped, Owning, Busy
<1> QED
  BY <1>1 DEF fail_or_retry_job, SetStatus

\* The session of a worker past its claim still shows the row.
LEMMA SeenCurrent ==
  ASSUME Typed, Solo, NEW w \in Workers, pc[w] \in Owning
  PROVE  /\ held[w] \in JobIds /\ status[held[w]] = "running"
         /\ attempts[held[w]] \in Nat
         /\ attempts[held[w]] < maxAttempts[held[w]]
         /\ pc[w] = "handling" =>
              seen[w] = [status |-> "running", attempts |-> attempts[held[w]]]
BY HeldIsRow
   DEF Typed, TypeOK, RowsTyped, Solo, SessionCurrent, AttemptsExact, Owning, Busy

\* A failure or an unsupported type charges the row as it stands now.
LEMMA FailEffect ==
  ASSUME Typed, Solo, NEW w \in Workers, Fail(w) \/ RejectUnsupported(w)
  PROVE  LET j == held[w]
             to == IF attempts[j] + 1 < maxAttempts[j] THEN "queued" ELSE "failed"
         IN  /\ pc[w] \in Owning
             /\ status' = [status EXCEPT ![j] = to]
             /\ attempts' = [attempts EXCEPT ![j] = attempts[j] + 1]
             /\ failures' = [failures EXCEPT ![j] = failures[j] + 1]
             /\ Release(w)
             /\ UNCHANGED <<maxAttempts, jobType, orphans>>
<1>1. pc[w] \in Owning
  BY DEF Fail, RejectUnsupported, Owning
<1>2. PICK delayed : fail_or_retry_job(held[w],
        [status |-> "running", attempts |-> attempts[held[w]]], delayed)
  BY <1>1, SeenCurrent DEF Fail, RejectUnsupported
<1>3. /\ Release(w)
      /\ maxAttempts' = maxAttempts /\ jobType' = jobType /\ orphans' = orphans
  BY DEF Fail, RejectUnsupported
<1> QED
  BY <1>1, <1>2, <1>3, ChargeEffect

\* A completion moves the row to completed and nothing else.
LEMMA CompleteEffect ==
  ASSUME Typed, Solo, NEW w \in Workers, Complete(w)
  PROVE  /\ pc[w] \in Owning
         /\ status' = [status EXCEPT ![held[w]] = "completed"]
         /\ Release(w)
         /\ UNCHANGED <<attempts, failures, maxAttempts, jobType, orphans>>
<1>1. pc[w] \in Owning /\ pc[w] = "handling"
  BY DEF Complete, Owning
<1>2. seen[w] = [status |-> "running", attempts |-> attempts[held[w]]]
  BY <1>1, SeenCurrent
<1> QED
  BY <1>1, <1>2 DEF Complete, SetStatus, history

\* A deferral moves the row back to queued and charges nothing.
LEMMA DeferEffect ==
  ASSUME Typed, Solo, NEW w \in Workers, Defer(w)
  PROVE  /\ pc[w] \in Owning
         /\ status' = [status EXCEPT ![held[w]] = "queued"]
         /\ Release(w)
         /\ UNCHANGED <<attempts, failures, maxAttempts, jobType, orphans>>
<1>1. pc[w] \in Owning /\ pc[w] = "handling"
  BY DEF Defer, Owning
<1>2. seen[w] = [status |-> "running", attempts |-> attempts[held[w]]]
  BY <1>1, SeenCurrent
<1> QED
  BY <1>1, <1>2 DEF Defer, SetStatus

\* Adding nothing to an entry leaves the function as it is.
LEMMA AddZero ==
  ASSUME NEW f \in [JobIds -> Nat], NEW j \in JobIds
  PROVE  f = [f EXCEPT ![j] = f[j] + 0]
OBVIOUS

\* Every step of a queue with one worker keeps its session current.
LEMMA StepSolo ==
  ASSUME OneWorker
  PROVE  Typed /\ Solo /\ [Next]_vars => Solo'
<1> SUFFICES ASSUME Typed, Solo, [Next]_vars PROVE Solo'
  OBVIOUS
<1>t. /\ RowsTyped /\ ProcsTyped /\ HistoryTyped
      /\ ClaimsInserted /\ InsertedUpToLast
  BY DEF Typed, TypeOK
<1>u. ASSUME UNCHANGED <<status, attempts, maxAttempts, jobType, pc, held, seen,
                         failures, orphans>>
      PROVE  Solo'
  BY <1>u DEF Solo, AttemptsExact, SessionCurrent, OrphansRun, RunningHasOwner, Fresh
<1>1. ASSUME NEW t \in Types, NEW b \in Budgets, CreateJob(t, b) PROVE Solo'
  BY <1>1, EnqueueSolo DEF CreateJob, procs, history
<1>2. ASSUME NEW j \in JobIds, Rerun(j) PROVE Solo'
  <2>1. jobType[j] \in Types /\ DefaultBudget \in Budgets
    BY <1>2, ConstantsAssumption DEF Rerun, Solo, Fresh
  <2> QED
    BY <1>2, <2>1, EnqueueSolo DEF Rerun, procs, history
<1>3. ASSUME NEW p \in Producers, InsertIdle(p) PROVE Solo'
  <2>1. check[p] \in Types /\ DefaultBudget \in Budgets
    BY <1>3, <1>t, ConstantsAssumption DEF InsertIdle, ProcsTyped
  <2> QED
    BY <1>3, <2>1, EnqueueSolo DEF InsertIdle
<1>4. ASSUME NEW w \in Workers, SelectNext(w) PROVE Solo'
  <2>1. PICK j \in JobIds : /\ status[j] = "queued"
                            /\ held' = [held EXCEPT ![w] = j]
    BY <1>4 DEF SelectNext, Claimable
  <2>2. /\ pc[w] = "idle" /\ pc' = [pc EXCEPT ![w] = "selected"]
        /\ UNCHANGED <<status, attempts, maxAttempts, jobType, seen, failures,
                       orphans>>
    BY <1>4 DEF SelectNext, rows, history
  <2>3. SessionCurrent'
    BY <2>1, <2>2, <1>t DEF Solo, SessionCurrent, ProcsTyped, Owning
  <2>4. RunningHasOwner'
    <3>1. \A v \in Workers : pc[v] \in Owning =>
            pc'[v] = pc[v] /\ held'[v] = held[v]
      BY <2>1, <2>2, <1>t DEF ProcsTyped, Owning
    <3> QED
      BY <2>2, <3>1 DEF Solo, RunningHasOwner
  <2> QED
    BY <2>2, <2>3, <2>4 DEF Solo, AttemptsExact, OrphansRun, Fresh
<1>5. ASSUME NEW w \in Workers, Claim(w) PROVE Solo'
  <2>1. /\ held[w] \in JobIds /\ status[held[w]] = "queued"
        /\ held[w] \notin orphans
    BY <1>5, <1>t, HeldIsRow DEF Claim, Solo, SessionCurrent, OrphansRun, Busy
  <2>2. /\ pc[w] = "selected" /\ pc' = [pc EXCEPT ![w] = "claimed"]
        /\ status' = [status EXCEPT ![held[w]] = "running"]
        /\ UNCHANGED <<attempts, maxAttempts, jobType, held, seen, failures,
                       orphans>>
    BY <1>5 DEF Claim, history
  <2>3. SessionCurrent'
    BY <2>1, <2>2, <1>t DEF SessionCurrent, OneWorker, ProcsTyped, RowsTyped, Owning
  <2>4. RunningHasOwner'
    <3>1. pc'[w] \in Owning /\ \A v \in Workers : v = w
      BY <2>2, <1>t DEF OneWorker, ProcsTyped, Owning
    <3>2. \A j \in JobIds : status'[j] = "running" =>
            j = held[w] \/ status[j] = "running"
      BY <2>2, <1>t DEF RowsTyped
    <3>3. \A j \in JobIds : status[j] = "running" => j \in orphans
      BY <2>2, <3>1 DEF Solo, RunningHasOwner, Owning
    <3> QED
      BY <2>2, <3>1, <3>2, <3>3 DEF RunningHasOwner
  <2> QED
    BY <2>1, <2>2, <2>3, <2>4, <1>t
       DEF Solo, AttemptsExact, OrphansRun, Fresh, RowsTyped, HistoryTyped
<1>6. ASSUME NEW w \in Workers, Load(w) PROVE Solo'
  <2>1. /\ pc[w] = "claimed" /\ pc' = [pc EXCEPT ![w] = "handling"]
        /\ seen' = [seen EXCEPT ![w] = [status |-> status[held[w]],
                                        attempts |-> attempts[held[w]]]]
        /\ UNCHANGED <<status, attempts, maxAttempts, jobType, held, failures,
                       orphans>>
    BY <1>6 DEF Load, rows, history
  <2>2. SessionCurrent'
    BY <2>1, <1>t DEF Solo, SessionCurrent, ProcsTyped, Owning
  <2>3. RunningHasOwner'
    BY <2>1, <1>t DEF Solo, RunningHasOwner, ProcsTyped, Owning
  <2> QED
    BY <2>1, <2>2, <2>3 DEF Solo, AttemptsExact, OrphansRun, Fresh
<1>7. ASSUME NEW w \in Workers, Fail(w) \/ RejectUnsupported(w) PROVE Solo'
  BY <1>7, FailEffect, EndSolo
<1>8. ASSUME NEW w \in Workers, Complete(w) \/ Defer(w) PROVE Solo'
  <2>1. pc[w] \in Owning
    BY <1>8, CompleteEffect, DeferEffect
  <2>2. attempts[held[w]] < maxAttempts[held[w]] /\ held[w] \in JobIds
    BY <2>1, SeenCurrent
  <2>3. /\ attempts = [attempts EXCEPT ![held[w]] = attempts[held[w]] + 0]
        /\ failures = [failures EXCEPT ![held[w]] = failures[held[w]] + 0]
        /\ attempts[held[w]] + 0 < maxAttempts[held[w]]
    BY <2>2, <1>t, AddZero DEF RowsTyped, HistoryTyped
  <2>4. PICK to \in {"queued", "completed"} :
          /\ status' = [status EXCEPT ![held[w]] = to]
          /\ Release(w)
          /\ UNCHANGED <<attempts, failures, maxAttempts, jobType, orphans>>
    BY <1>8, CompleteEffect, DeferEffect
  <2> QED
    BY <2>1, <2>3, <2>4, EndSolo
<1>9. ASSUME NEW w \in Workers, Crash(w) PROVE Solo'
  <2>1. /\ pc' = [pc EXCEPT ![w] = "down"]
        /\ orphans' = IF pc[w] \in Owning THEN orphans \cup {held[w]} ELSE orphans
        /\ UNCHANGED <<status, attempts, maxAttempts, jobType, failures>>
    BY <1>9 DEF Crash, rows, Owning
  <2>2. \A v \in Workers : v = w /\ pc'[v] = "down"
    BY <2>1, <1>t DEF OneWorker, ProcsTyped
  <2>3. SessionCurrent'
    BY <2>2 DEF SessionCurrent, Owning
  <2>4. OrphansRun'
    BY <2>1 DEF Solo, OrphansRun, SessionCurrent
  <2>5. ASSUME NEW j \in JobIds, status[j] = "running" PROVE j \in orphans'
    BY <2>1, <2>2, <2>5 DEF Solo, RunningHasOwner
  <2>6. RunningHasOwner'
    BY <2>1, <2>5 DEF RunningHasOwner
  <2> QED
    BY <2>1, <2>3, <2>4, <2>6 DEF Solo, AttemptsExact, Fresh
<1>10. ASSUME NEW w \in Workers, Restart(w) PROVE Solo'
  <2>1. /\ pc[w] = "down" /\ pc' = [pc EXCEPT ![w] = "idle"]
        /\ UNCHANGED <<status, attempts, maxAttempts, jobType, held, seen,
                       failures, orphans>>
    BY <1>10 DEF Restart, rows, history
  <2>2. SessionCurrent' /\ RunningHasOwner'
    BY <2>1, <1>t DEF Solo, SessionCurrent, RunningHasOwner, ProcsTyped, Owning
  <2> QED
    BY <2>1, <2>2 DEF Solo, AttemptsExact, OrphansRun, Fresh
<1>11. ASSUME NEW j \in JobIds, Archive(j) \/ BecomeDue(j) PROVE Solo'
  BY <1>11, <1>u DEF Archive, BecomeDue, procs, history
<1>12. ASSUME NEW p \in Producers, NEW t \in Types, CheckIdle(p, t) PROVE Solo'
  BY <1>12, <1>u DEF CheckIdle, rows, history
<1>13. CASE UNCHANGED vars
  BY <1>13, <1>u DEF vars, rows, procs, history
<1> QED
  BY <1>1, <1>2, <1>3, <1>4, <1>5, <1>6, <1>7, <1>8, <1>9, <1>10, <1>11, <1>12,
     <1>13 DEF Next, Requests, Produce, Work

\* So the session is current for good.
LEMMA SoloAlways ==
  ASSUME OneWorker
  PROVE  Spec => []Solo
<1>1. Typed /\ Solo /\ [Next]_vars => Solo'
  BY StepSolo
<1> QED
  BY <1>1, InitSolo, TypeCorrect, PTL DEF Spec

\* With one worker the attempts column counts the failures exactly, so a
\* failing job runs exactly as often as its budget allows.
THEOREM FailuresAreAttempts ==
  ASSUME OneWorker
  PROVE  Spec => []AttemptsExact
<1>1. Solo => AttemptsExact
  BY DEF Solo
<1> QED
  BY <1>1, SoloAlways, PTL

\* A running row is held by the worker or was orphaned by a crash, never both
\* and never neither: nothing but a crash loses a claim.
THEOREM RunningIsAccounted ==
  ASSUME OneWorker
  PROVE  Spec => []RunningIsOwned
<1>1. Typed /\ Solo => RunningIsOwned
  <2> SUFFICES ASSUME Typed, Solo, NEW j \in JobIds
               PROVE  LET owners == {w \in Workers : held[w] = j /\ pc[w] \in Owning}
                      IN  IF status[j] = "running"
                            THEN IF j \in orphans THEN owners = {}
                                                  ELSE Cardinality(owners) = 1
                            ELSE owners = {}
    BY DEF RunningIsOwned, Owning
  <2> DEFINE owners == {w \in Workers : held[w] = j /\ pc[w] \in Owning}
  <2>1. owners # {} => status[j] = "running" /\ j \notin orphans
    BY DEF Solo, SessionCurrent
  <2>2. ASSUME status[j] = "running", j \notin orphans
        PROVE  Cardinality(owners) = 1
    <3>1. PICK w \in Workers : held[w] = j /\ pc[w] \in Owning
      BY <2>2 DEF Solo, RunningHasOwner
    <3>2. owners = {w}
      BY <3>1 DEF OneWorker
    <3> QED
      BY <3>2, FS_Singleton
  <2> QED
    BY <2>1, <2>2
<1> QED
  BY <1>1, SoloAlways, TypeCorrect, PTL

\* No step writes a row that has its verdict.
LEMMA RowStep ==
  ASSUME Typed, Solo, [Next]_vars, NEW j \in JobIds, status[j] \in Terminal
  PROVE  status'[j] = status[j] /\ attempts'[j] = attempts[j]
<1>t. /\ RowsTyped /\ ProcsTyped /\ HistoryTyped
      /\ ClaimsInserted /\ InsertedUpToLast
  BY DEF Typed, TypeOK
<1>1. ASSUME NEW t, NEW b, enqueue_job(t, b)
      PROVE  status'[j] = status[j] /\ attempts'[j] = attempts[j]
  <2>1. lastId + 1 # j
    BY <1>t DEF RowsTyped, InsertedUpToLast, Terminal
  <2> QED
    BY <1>1, <2>1, <1>t DEF enqueue_job, RowsTyped
<1>2. ASSUME NEW w \in Workers, Claim(w)
      PROVE  status'[j] = status[j] /\ attempts'[j] = attempts[j]
  <2>1. held[w] # j
    BY <1>2 DEF Claim, Solo, SessionCurrent, Terminal
  <2> QED
    BY <1>2, <2>1, <1>t DEF Claim, RowsTyped
<1>3. ASSUME NEW w \in Workers, pc[w] \in Owning PROVE held[w] # j
  BY <1>3 DEF Solo, SessionCurrent, Terminal
<1>4. ASSUME NEW w \in Workers, Fail(w) \/ RejectUnsupported(w)
      PROVE  status'[j] = status[j] /\ attempts'[j] = attempts[j]
  <2>1. held[w] # j
    BY <1>3, <1>4, FailEffect
  <2> QED
    BY <1>4, <2>1, <1>t, FailEffect DEF RowsTyped
<1>5. ASSUME NEW w \in Workers, Complete(w) \/ Defer(w)
      PROVE  status'[j] = status[j] /\ attempts'[j] = attempts[j]
  <2>1. held[w] # j
    BY <1>3, <1>5, CompleteEffect, DeferEffect
  <2> QED
    BY <1>5, <2>1, <1>t, CompleteEffect, DeferEffect DEF RowsTyped
<1>6. ASSUME NEW w \in Workers, SelectNext(w) \/ Load(w) \/ Crash(w) \/ Restart(w)
      PROVE  status' = status /\ attempts' = attempts
  BY <1>6 DEF SelectNext, Load, Crash, Restart, rows
<1>7. ASSUME NEW i \in JobIds, Archive(i) \/ BecomeDue(i)
      PROVE  status' = status /\ attempts' = attempts
  BY <1>7 DEF Archive, BecomeDue
<1>8. ASSUME NEW p \in Producers, NEW t \in Types, CheckIdle(p, t)
      PROVE  status' = status /\ attempts' = attempts
  BY <1>8 DEF CheckIdle, rows
<1>9. CASE UNCHANGED vars
  BY <1>9 DEF vars, rows
<1> QED
  BY <1>1, <1>2, <1>4, <1>5, <1>6, <1>7, <1>8, <1>9
     DEF Next, Requests, Produce, Work, CreateJob, Rerun, InsertIdle

\* A completed or failed job keeps its verdict and its attempts for good: the
\* worker never writes a row from a session that predates the verdict.
THEOREM VerdictsStand ==
  ASSUME OneWorker
  PROVE  Spec => VerdictIsFinal
<1>1. Typed /\ Solo /\ [Next]_vars =>
        \A j \in JobIds : status[j] \in Terminal =>
          status'[j] = status[j] /\ attempts'[j] = attempts[j]
  BY RowStep
<1> QED
  BY <1>1, SoloAlways, TypeCorrect, PTL DEF Spec, VerdictIsFinal

\* A claim orphaned by a crash is never taken up again, and blocks the idle
\* check of its type until it is archived.
THEOREM OrphansStay ==
  ASSUME OneWorker
  PROVE  Spec => OrphanBlocksIdle
<1>1. Typed /\ Solo /\ Solo' /\ [Next]_vars =>
        \A j \in orphans :
          /\ status'[j] = "running"
          /\ \A p \in Producers :
               (check[p] = NoType /\ check'[p] = jobType[j]) => j \in archived
  <2> SUFFICES ASSUME Typed, Solo, Solo', [Next]_vars, NEW j \in orphans
               PROVE  /\ status'[j] = "running"
                      /\ \A p \in Producers :
                           (check[p] = NoType /\ check'[p] = jobType[j])
                             => j \in archived
    OBVIOUS
  <2>1. orphans \subseteq orphans'
    <3>1. ASSUME NEW w \in Workers, Work(w) \/ Restart(w) PROVE orphans' = orphans
      BY <3>1 DEF Work, SelectNext, Claim, Load, RejectUnsupported, Complete, Defer,
         Fail, Restart, history
    <3>2. ASSUME NEW w \in Workers, Crash(w) PROVE orphans \subseteq orphans'
      BY <3>2 DEF Crash
    <3>3. ASSUME Requests \/ \E i \in JobIds : BecomeDue(i) PROVE orphans' = orphans
      BY <3>3 DEF Requests, CreateJob, Rerun, Archive, BecomeDue, history
    <3>4. ASSUME NEW p \in Producers, Produce(p) PROVE orphans' = orphans
      BY <3>4 DEF Produce, CheckIdle, InsertIdle, history
    <3>5. CASE UNCHANGED vars
      BY <3>5 DEF vars, history
    <3> QED
      BY <3>1, <3>2, <3>3, <3>4, <3>5 DEF Next
  <2>2. status'[j] = "running"
    BY <2>1 DEF Solo, OrphansRun
  <2>3. j \in JobIds /\ status[j] = "running" /\ jobType[j] \in Types
    BY DEF Typed, TypeOK, HistoryTyped, Solo, OrphansRun, Fresh
  <2>4. ASSUME NEW p \in Producers, check[p] = NoType, check'[p] = jobType[j]
        PROVE  j \in archived
    <3>1. check' # check
      BY <2>3, <2>4, ConstantsAssumption
    <3>2. ASSUME NEW w \in Workers, Work(w) \/ Crash(w) \/ Restart(w) PROVE FALSE
      BY <3>1, <3>2 DEF Work, SelectNext, Claim, Load, RejectUnsupported, Complete,
         Defer, Fail, Crash, Restart
    <3>3. ASSUME Requests \/ \E i \in JobIds : BecomeDue(i) PROVE FALSE
      BY <3>1, <3>3 DEF Requests, CreateJob, Rerun, Archive, BecomeDue, procs
    <3>4. PICK q \in Producers : Produce(q)
      <4>1. CASE UNCHANGED vars
        BY <3>1, <4>1 DEF vars, procs
      <4> QED
        BY <3>2, <3>3, <4>1 DEF Next
    <3>5. check \in [Producers -> Types \cup {NoType}]
      BY DEF Typed, TypeOK, ProcsTyped
    <3>6. ~InsertIdle(q)
      BY <2>3, <2>4, <3>5, ConstantsAssumption DEF InsertIdle
    <3>7. PICK t \in Types : CheckIdle(q, t)
      BY <3>4, <3>6 DEF Produce
    <3>8. jobType[j] = t
      BY <2>3, <2>4, <3>5, <3>7, ConstantsAssumption DEF CheckIdle
    <3>9. Active(t) = {}
      BY <3>7 DEF CheckIdle
    <3> QED
      BY <2>3, <3>8, <3>9 DEF Active
  <2> QED
    BY <2>2, <2>4
<1> QED
  BY <1>1, SoloAlways, TypeCorrect, PTL DEF Spec, OrphanBlocksIdle

-----------------------------------------------------------------------------
(* The idle check, with one worker and one producer: work_order_queue.py is *)
(* the only caller of enqueue_job_if_idle and runs as one process.          *)

OneProducer == \A p, q \in Producers : p = q

\* A row that counts as active, whatever its type.
IsActive(j) == j \notin archived /\ status[j] \in {"queued", "running"}

\* Between the producer's SELECT and its INSERT none of its own earlier jobs
\* of the type is active.
CheckedIsIdle ==
  \A p \in Producers : check[p] # NoType =>
    \A j \in byIdle : jobType[j] = check[p] => ~IsActive(j)

ByIdleInserted == \A j \in byIdle : status[j] # "absent"

Unstacked == IdleNotStacked /\ CheckedIsIdle /\ ByIdleInserted

\* An inserted row keeps its type, an archived row stays archived and a row
\* with its verdict keeps it: what is active afterwards was active before.
LEMMA NoRevival ==
  ASSUME Typed, Solo, [Next]_vars, NEW j \in JobIds, status[j] # "absent"
  PROVE  /\ jobType'[j] = jobType[j] /\ status'[j] # "absent"
         /\ IsActive(j)' => IsActive(j)
<1>t. RowsTyped /\ InsertedUpToLast
  BY DEF Typed, TypeOK
<1>1. jobType'[j] = jobType[j] /\ archived \subseteq archived'
  <2>1. ASSUME NEW t, NEW b, enqueue_job(t, b)
        PROVE  jobType'[j] = jobType[j] /\ archived' = archived
    <3>1. lastId + 1 # j
      BY <1>t DEF RowsTyped, InsertedUpToLast
    <3> QED
      BY <2>1, <3>1, <1>t DEF enqueue_job, RowsTyped
  <2>2. ASSUME NEW w \in Workers, Work(w) \/ Crash(w) \/ Restart(w)
        PROVE  jobType' = jobType /\ archived' = archived
    BY <2>2 DEF Work, SelectNext, Claim, Load, RejectUnsupported, Complete,
       Defer, Fail, Crash, Restart, rows
  <2>3. ASSUME NEW i \in JobIds, Archive(i) \/ BecomeDue(i)
        PROVE  jobType' = jobType /\ archived \subseteq archived'
    BY <2>3 DEF Archive, BecomeDue
  <2>4. ASSUME NEW p \in Producers, NEW t \in Types, CheckIdle(p, t)
        PROVE  jobType' = jobType /\ archived' = archived
    BY <2>4 DEF CheckIdle, rows
  <2>5. CASE UNCHANGED vars
    BY <2>5 DEF vars, rows
  <2> QED
    BY <2>1, <2>2, <2>3, <2>4, <2>5
       DEF Next, Requests, Produce, CreateJob, Rerun, InsertIdle
<1>2. status[j] \in Terminal => status'[j] = status[j]
  BY RowStep
<1>3. status'[j] # "absent"
  <2>1. Typed'
    BY TypedStep
  <2>2. lastId <= lastId'
    <3>1. ASSUME NEW t, NEW b, enqueue_job(t, b) PROVE lastId' = lastId + 1
      BY <3>1 DEF enqueue_job
    <3>2. ASSUME NEW w \in Workers, Work(w) \/ Crash(w) \/ Restart(w)
          PROVE  lastId' = lastId
      BY <3>2 DEF Work, SelectNext, Claim, Load, RejectUnsupported, Complete,
         Defer, Fail, Crash, Restart, rows
    <3>3. ASSUME NEW i \in JobIds, Archive(i) \/ BecomeDue(i) PROVE lastId' = lastId
      BY <3>3 DEF Archive, BecomeDue
    <3>4. ASSUME NEW p \in Producers, NEW t \in Types, CheckIdle(p, t)
          PROVE  lastId' = lastId
      BY <3>4 DEF CheckIdle, rows
    <3>5. UNCHANGED vars => lastId' = lastId
      BY DEF vars, rows
    <3>6. lastId' = lastId \/ lastId' = lastId + 1
      BY <3>1, <3>2, <3>3, <3>4, <3>5
         DEF Next, Requests, Produce, CreateJob, Rerun, InsertIdle
    <3> QED
      BY <3>6, <1>t, ConstantsAssumption DEF RowsTyped
  <2>3. RowsTyped' /\ InsertedUpToLast'
    BY <2>1 DEF Typed, TypeOK
  <2> QED
    BY <2>2, <2>3, <1>t, ConstantsAssumption DEF RowsTyped, InsertedUpToLast, JobIds
<1>4. status[j] \in {"queued", "running"} \cup Terminal
  BY <1>t DEF RowsTyped, Statuses, Terminal
<1> QED
  BY <1>1, <1>2, <1>3, <1>4 DEF IsActive, Terminal

\* Every step keeps the producer's jobs unstacked.
LEMMA UnstackedStep ==
  ASSUME OneProducer, Typed, Solo, Unstacked, [Next]_vars
  PROVE  Unstacked'
<1>t. /\ RowsTyped /\ InsertedUpToLast /\ byIdle \subseteq JobIds
      /\ check \in [Producers -> Types \cup {NoType}]
  BY DEF Typed, TypeOK, HistoryTyped, ProcsTyped
<1>k. \A j \in byIdle : /\ jobType'[j] = jobType[j] /\ status'[j] # "absent"
                        /\ IsActive(j)' => IsActive(j)
  BY <1>t, NoRevival DEF Unstacked, ByIdleInserted
<1>n. IdleNotStacked <=>
        \A i, j \in byIdle :
          jobType[i] = jobType[j] /\ IsActive(i) /\ IsActive(j) => i = j
  BY <1>t DEF IdleNotStacked, Active, IsActive
<1>p. byIdle' \subseteq JobIds =>
        (IdleNotStacked' <=>
          \A i, j \in byIdle' :
            jobType'[i] = jobType'[j] /\ IsActive(i)' /\ IsActive(j)' => i = j)
  BY DEF IdleNotStacked, Active, IsActive
<1>s. \A i, j \in byIdle :
        jobType'[i] = jobType'[j] /\ IsActive(i)' /\ IsActive(j)' => i = j
  BY <1>k, <1>n DEF Unstacked
<1>1. ASSUME byIdle' = byIdle, check' = check PROVE Unstacked'
  <2>1. CheckedIsIdle'
    BY <1>1, <1>k DEF Unstacked, CheckedIsIdle
  <2>2. IdleNotStacked'
    BY <1>1, <1>s, <1>p, <1>t
  <2>3. ByIdleInserted'
    BY <1>1, <1>k DEF ByIdleInserted
  <2> QED
    BY <2>1, <2>2, <2>3 DEF Unstacked
<1>2. ASSUME NEW p \in Producers, NEW t \in Types, CheckIdle(p, t) PROVE Unstacked'
  <2>1. /\ UNCHANGED <<status, jobType, archived, byIdle>>
        /\ check' = [check EXCEPT ![p] = t] /\ Active(t) = {}
    BY <1>2 DEF CheckIdle, rows, history
  <2>2. \A q \in Producers : check'[q] = t
    BY <2>1, <1>t DEF OneProducer
  <2>3. \A j \in byIdle : jobType[j] = t => ~IsActive(j)
    BY <2>1, <1>t DEF Active, IsActive
  <2>4. CheckedIsIdle'
    BY <2>1, <2>2, <2>3 DEF CheckedIsIdle, IsActive
  <2> QED
    BY <2>1, <2>4 DEF Unstacked, IdleNotStacked, ByIdleInserted, Active
<1>3. ASSUME NEW p \in Producers, InsertIdle(p) PROVE Unstacked'
  <2> DEFINE n == lastId + 1
  <2>1. /\ n \in JobIds /\ status[n] = "absent" /\ n \notin byIdle
        /\ byIdle' = byIdle \cup {n}
        /\ jobType' = [jobType EXCEPT ![n] = check[p]]
        /\ status' = [status EXCEPT ![n] = "queued"]
        /\ check[p] # NoType /\ check' = [check EXCEPT ![p] = NoType]
    BY <1>3, <1>t, ConstantsAssumption
       DEF InsertIdle, enqueue_job, RowsTyped, InsertedUpToLast, JobIds,
           Unstacked, ByIdleInserted
  <2> HIDE DEF n
  <2>2. jobType'[n] = check[p] /\ status'[n] = "queued"
    BY <2>1, <1>t DEF RowsTyped
  <2>3. \A j \in byIdle : jobType'[j] = check[p] => ~IsActive(j)'
    <3>1. \A j \in byIdle : jobType[j] = check[p] => ~IsActive(j)
      BY <2>1 DEF Unstacked, CheckedIsIdle
    <3> QED
      BY <3>1, <1>k
  <2>4. IdleNotStacked'
    <3>1. byIdle' \subseteq JobIds
      BY <2>1, <1>t
    <3>2. ASSUME NEW i \in byIdle', NEW j \in byIdle',
                 jobType'[i] = jobType'[j], IsActive(i)', IsActive(j)'
          PROVE  i = j
      BY <2>1, <2>2, <2>3, <1>s, <3>2
    <3> QED
      BY <1>p, <3>1, <3>2
  <2>5. CheckedIsIdle'
    <3>1. \A q \in Producers : check'[q] = NoType
      BY <2>1, <1>t DEF OneProducer
    <3> QED
      BY <3>1 DEF CheckedIsIdle
  <2>6. ByIdleInserted'
    BY <2>1, <2>2, <1>k DEF ByIdleInserted
  <2> QED
    BY <2>4, <2>5, <2>6 DEF Unstacked
<1>4. ASSUME NEW w \in Workers, Work(w) \/ Crash(w) \/ Restart(w)
      PROVE  byIdle' = byIdle /\ check' = check
  BY <1>4 DEF Work, SelectNext, Claim, Load, RejectUnsupported, Complete,
     Defer, Fail, Crash, Restart, history
<1>5. ASSUME Requests \/ \E j \in JobIds : BecomeDue(j)
      PROVE  byIdle' = byIdle /\ check' = check
  BY <1>5 DEF Requests, CreateJob, Rerun, Archive, BecomeDue, procs, history
<1>6. CASE UNCHANGED vars
  BY <1>1, <1>6 DEF vars, procs, history
<1> QED
  BY <1>1, <1>2, <1>3, <1>4, <1>5, <1>6 DEF Next, Produce

\* enqueue_job_if_idle never stacks work (jobs.py): whatever other requests
\* enqueue, archive or rerun between its SELECT and its INSERT, at most one
\* active job of a type was inserted by it.  Two producers, or two workers,
\* would break it.
THEOREM IdleNeverStacks ==
  ASSUME OneWorker, OneProducer
  PROVE  Spec => []IdleNotStacked
<1>1. Init => Unstacked
  BY DEF Init, Unstacked, IdleNotStacked, CheckedIsIdle, ByIdleInserted
<1>2. Typed /\ Solo /\ Unstacked /\ [Next]_vars => Unstacked'
  BY UnstackedStep
<1>3. Unstacked => IdleNotStacked
  BY DEF Unstacked
<1> QED
  BY <1>1, <1>2, <1>3, SoloAlways, TypeCorrect, PTL DEF Spec

-----------------------------------------------------------------------------
(* The table implements the ledger. *)

OutcomeOf(s) == IF s \in {"queued", "running"} THEN "pending" ELSE s

\* Moving one row moves its outcome only.
LEMMA OutcomeMoves ==
  ASSUME RowsTyped, NEW j \in JobIds, NEW to, status' = [status EXCEPT ![j] = to]
  PROVE  outcome' = [outcome EXCEPT ![j] = OutcomeOf(to)]
BY DEF RowsTyped, outcome, OutcomeOf

\* ... and a move between queued and running moves none.
LEMMA OutcomeStays ==
  ASSUME RowsTyped, NEW j \in JobIds, status[j] \in {"queued", "running"},
         status' = [status EXCEPT ![j] = "queued"]
           \/ status' = [status EXCEPT ![j] = "running"]
  PROVE  outcome' = outcome
BY DEF RowsTyped, outcome

\* An enqueue is a submission of one job.
LEMMA EnqueueSubmits ==
  ASSUME Typed, NEW t, NEW b \in Budgets, enqueue_job(t, b)
  PROVE  Ledger!Next
<1> DEFINE n == lastId + 1
<1>t. RowsTyped /\ InsertedUpToLast
  BY DEF Typed, TypeOK
<1>1. /\ n \in JobIds /\ status[n] = "absent"
      /\ status' = [status EXCEPT ![n] = "queued"]
      /\ maxAttempts' = [maxAttempts EXCEPT ![n] = b]
      /\ attempts' = attempts
  BY <1>t, ConstantsAssumption DEF enqueue_job, RowsTyped, InsertedUpToLast, JobIds
<1> HIDE DEF n
<1>2. outcome[n] = "absent"
  BY <1>1 DEF outcome
<1>3. outcome' = [j \in JobIds |-> IF j \in {n} THEN "pending" ELSE outcome[j]]
  BY <1>1, <1>t DEF outcome, RowsTyped
<1>4. \E f \in [{n} -> Budgets] :
        maxAttempts' = [j \in JobIds |-> IF j \in {n} THEN f[j] ELSE maxAttempts[j]]
  <2> WITNESS [x \in {n} |-> b] \in [{n} -> Budgets]
  <2> QED
    BY <1>1, <1>t DEF RowsTyped
<1>5. Ledger!Submit({n})
  BY <1>1, <1>2, <1>3, <1>4 DEF Ledger!Submit
<1> QED
  BY <1>1, <1>5 DEF Ledger!Next

\* A failed execution is a charge.
LEMMA FailCharges ==
  ASSUME Typed, Solo, NEW w \in Workers, Fail(w) \/ RejectUnsupported(w)
  PROVE  Ledger!Next
<1> DEFINE j == held[w]
           to == IF attempts[j] + 1 < maxAttempts[j] THEN "queued" ELSE "failed"
<1>t. RowsTyped
  BY DEF Typed, TypeOK
<1>1. /\ pc[w] \in Owning
      /\ status' = [status EXCEPT ![j] = to]
      /\ attempts' = [attempts EXCEPT ![j] = attempts[j] + 1]
      /\ maxAttempts' = maxAttempts
  BY FailEffect
<1>2. j \in JobIds /\ status[j] = "running"
  BY <1>1, SeenCurrent
<1> HIDE DEF j
<1>3. outcome[j] = "pending" /\ outcome \in [JobIds -> {"pending"} \cup Statuses]
  BY <1>2, <1>t DEF outcome, RowsTyped
<1>4. outcome' = [outcome EXCEPT ![j] = OutcomeOf(to)]
  BY <1>1, <1>2, <1>t, OutcomeMoves
<1>5. outcome' = IF attempts[j] + 1 < maxAttempts[j]
                   THEN outcome ELSE [outcome EXCEPT ![j] = "failed"]
  <2>1. CASE attempts[j] + 1 < maxAttempts[j]
    BY <1>3, <1>4, <2>1 DEF OutcomeOf
  <2>2. CASE ~(attempts[j] + 1 < maxAttempts[j])
    BY <1>4, <2>2 DEF OutcomeOf
  <2> QED
    BY <2>1, <2>2
<1>6. Ledger!Charge(j)
  BY <1>1, <1>3, <1>5 DEF Ledger!Charge
<1> QED
  BY <1>2, <1>6 DEF Ledger!Next

\* A completion succeeds.
LEMMA CompleteSucceeds ==
  ASSUME Typed, Solo, NEW w \in Workers, Complete(w)
  PROVE  Ledger!Next
<1>t. RowsTyped
  BY DEF Typed, TypeOK
<1>1. /\ held[w] \in JobIds /\ status[held[w]] = "running"
      /\ status' = [status EXCEPT ![held[w]] = "completed"]
      /\ attempts' = attempts /\ maxAttempts' = maxAttempts
  BY CompleteEffect, SeenCurrent
<1>2. outcome[held[w]] = "pending"
  BY <1>1 DEF outcome
<1>3. outcome' = [outcome EXCEPT ![held[w]] = "completed"]
  BY <1>1, <1>t, OutcomeMoves DEF OutcomeOf
<1>4. Ledger!Succeed(held[w])
  BY <1>1, <1>2, <1>3 DEF Ledger!Succeed
<1> QED
  BY <1>1, <1>4 DEF Ledger!Next

\* Every step of the queue is a step of the ledger or leaves it alone.
LEMMA LedgerStep ==
  ASSUME Typed, Solo, [Next]_vars
  PROVE  [Ledger!Next]_Ledger!ledger
<1> SUFFICES Ledger!Next \/ UNCHANGED <<outcome, attempts, maxAttempts>>
  BY DEF Ledger!ledger
<1>t. RowsTyped /\ ProcsTyped
  BY DEF Typed, TypeOK
<1>u. ASSUME UNCHANGED <<status, attempts, maxAttempts>>
      PROVE  UNCHANGED <<outcome, attempts, maxAttempts>>
  BY <1>u DEF outcome
<1>1. ASSUME NEW t \in Types, NEW b \in Budgets, CreateJob(t, b) PROVE Ledger!Next
  BY <1>1, EnqueueSubmits DEF CreateJob
<1>2. ASSUME NEW j \in JobIds, Rerun(j) PROVE Ledger!Next
  BY <1>2, EnqueueSubmits, ConstantsAssumption DEF Rerun
<1>3. ASSUME NEW p \in Producers, InsertIdle(p) PROVE Ledger!Next
  BY <1>3, EnqueueSubmits, ConstantsAssumption DEF InsertIdle
<1>4. ASSUME NEW w \in Workers, Claim(w)
      PROVE  UNCHANGED <<outcome, attempts, maxAttempts>>
  <2>1. held[w] \in JobIds /\ status[held[w]] = "queued"
    BY <1>4, HeldIsRow DEF Claim, Solo, SessionCurrent, Busy, Typed, TypeOK
  <2> QED
    BY <1>4, <2>1, <1>t, OutcomeStays DEF Claim
<1>5. ASSUME NEW w \in Workers, Defer(w)
      PROVE  UNCHANGED <<outcome, attempts, maxAttempts>>
  <2>1. held[w] \in JobIds /\ status[held[w]] = "running"
    BY <1>5, DeferEffect, SeenCurrent
  <2> QED
    BY <1>5, <2>1, <1>t, DeferEffect, OutcomeStays
<1>6. ASSUME NEW w \in Workers, Fail(w) \/ RejectUnsupported(w) PROVE Ledger!Next
  BY <1>6, FailCharges
<1>7. ASSUME NEW w \in Workers, Complete(w) PROVE Ledger!Next
  BY <1>7, CompleteSucceeds
<1>8. ASSUME NEW w \in Workers, SelectNext(w) \/ Load(w) \/ Crash(w) \/ Restart(w)
      PROVE  UNCHANGED <<outcome, attempts, maxAttempts>>
  BY <1>8, <1>u DEF SelectNext, Load, Crash, Restart, rows
<1>9. ASSUME NEW j \in JobIds, Archive(j) \/ BecomeDue(j)
      PROVE  UNCHANGED <<outcome, attempts, maxAttempts>>
  BY <1>9, <1>u DEF Archive, BecomeDue
<1>10. ASSUME NEW p \in Producers, NEW t \in Types, CheckIdle(p, t)
       PROVE  UNCHANGED <<outcome, attempts, maxAttempts>>
  BY <1>10, <1>u DEF CheckIdle, rows
<1>11. CASE UNCHANGED vars
  BY <1>11, <1>u DEF vars, rows
<1> QED
  BY <1>1, <1>2, <1>3, <1>4, <1>5, <1>6, <1>7, <1>8, <1>9, <1>10, <1>11
     DEF Next, Requests, Produce, Work

\* The queue with one worker implements the ledger: a job stays pending until
\* one execution succeeds or max_attempts have failed, and its verdict stands.
THEOREM ImplementsLedger ==
  ASSUME OneWorker
  PROVE  Spec => KeepsLedger
<1>1. Init => Ledger!Init
  BY DEF Init, Ledger!Init, outcome
<1>2. Typed /\ Solo /\ [Next]_vars => [Ledger!Next]_Ledger!ledger
  BY LedgerStep
<1> QED
  BY <1>1, <1>2, SoloAlways, TypeCorrect, PTL DEF Spec, KeepsLedger, Ledger!Spec
=============================================================================
