------------------------------ MODULE JobQueue ------------------------------
(***************************************************************************)
(* The jobs table, the worker processes that drain it, the API endpoints   *)
(* that create, rerun and archive jobs, and the producers that enqueue a   *)
(* job only when none of its type is active.                               *)
(*                                                                         *)
(*   src/services/jobs.py      queue primitives                            *)
(*   scripts/work_jobs.py      the worker's polling loop                   *)
(*   src/api/routers/jobs.py   create / rerun / archive                    *)
(*   scripts/work_order_queue.py  the one producer using the idle check    *)
(*                                                                         *)
(* A transaction that reads and later writes is split at the point where   *)
(* another transaction can commit in between (READ COMMITTED, no row lock  *)
(* is taken by the reads).  What a handler does is left open: it returns,  *)
(* raises JobDeferred, or raises anything else.                            *)
(***************************************************************************)
EXTENDS Naturals, FiniteSets

CONSTANTS
  Workers,            \* worker processes running work_jobs.py
  Producers,          \* processes that use enqueue_job_if_idle
  Types,              \* job types requests can name
  NoType,             \* none of them
  Supported,          \* those with an entry in get_handler's table
  Budgets,            \* values of max_attempts a caller may pass
  DefaultBudget,      \* max_attempts when the caller passes none
  MaxJobs,            \* bound: rows ever inserted
  MaxDeferrals,       \* bound: deferrals of one job
  MaxCrashes          \* bound: worker process crashes

ASSUME ConstantsAssumption ==
  /\ MaxJobs \in Nat
  /\ MaxDeferrals \in Nat
  /\ MaxCrashes \in Nat
  /\ Budgets \subseteq Nat \ {0}
  /\ DefaultBudget \in Budgets
  /\ Supported \subseteq Types
  /\ NoType \notin Types

JobIds == 1 .. MaxJobs
Statuses == {"absent", "queued", "running", "completed", "failed"}
Terminal == {"completed", "failed"}

VARIABLES
  status,       \* jobs.status; "absent" before the row is inserted
  attempts,     \* jobs.attempts
  maxAttempts,  \* jobs.max_attempts
  jobType,      \* jobs.job_type
  archived,     \* ids whose archived_at is set
  due,          \* ids whose available_at has passed
  lastId,       \* id of the newest row: created_at grows with the id
  pc,           \* what each worker is doing
  held,         \* the job id each worker works on
  seen,         \* the status and attempts in each worker's session
  check,        \* the type each producer found idle in its open transaction
  failures,     \* history: executions of the job that raised an error
  deferrals,    \* history, for the bound: deferrals of the job
  byIdle,       \* history: ids inserted by enqueue_job_if_idle
  orphans,      \* history: ids running when the worker that had them crashed
  crashes       \* for the bound: crashes so far

rows == <<status, attempts, maxAttempts, jobType, archived, due, lastId>>
procs == <<pc, held, seen, check>>
history == <<failures, deferrals, byIdle, orphans, crashes>>
vars == <<rows, procs, history>>

Snapshots == [status : Statuses, attempts : Nat]
Unseen == [status |-> "absent", attempts |-> 0]

Init ==
  /\ status = [j \in JobIds |-> "absent"]
  /\ attempts = [j \in JobIds |-> 0]
  /\ maxAttempts = [j \in JobIds |-> DefaultBudget]
  /\ jobType = [j \in JobIds |-> NoType]
  /\ archived = {}
  /\ due = {}
  /\ lastId = 0
  /\ pc = [w \in Workers |-> "idle"]
  /\ held = [w \in Workers |-> 0]
  /\ seen = [w \in Workers |-> Unseen]
  /\ check = [p \in Producers |-> NoType]
  /\ failures = [j \in JobIds |-> 0]
  /\ deferrals = [j \in JobIds |-> 0]
  /\ byIdle = {}
  /\ orphans = {}
  /\ crashes = 0

-----------------------------------------------------------------------------
(* Enqueueing. *)

\* enqueue_job: a new row, due at once, with its whole budget.
enqueue_job(t, budget) ==
  /\ lastId < MaxJobs
  /\ lastId' = lastId + 1
  /\ status' = [status EXCEPT ![lastId + 1] = "queued"]
  /\ maxAttempts' = [maxAttempts EXCEPT ![lastId + 1] = budget]
  /\ jobType' = [jobType EXCEPT ![lastId + 1] = t]
  /\ due' = due \cup {lastId + 1}
  /\ UNCHANGED <<attempts, archived>>

\* A request that enqueues unconditionally, with the budget it names.
CreateJob(t, budget) ==
  /\ enqueue_job(t, budget)
  /\ UNCHANGED <<procs, history>>

\* POST /jobs/{id}/rerun: a new row of the same type, default budget.
Rerun(j) ==
  /\ status[j] # "absent"
  /\ enqueue_job(jobType[j], DefaultBudget)
  /\ UNCHANGED <<procs, history>>

\* POST /jobs/{id}/archive: stamps archived_at once, whatever the status.
Archive(j) ==
  /\ status[j] # "absent"
  /\ j \notin archived
  /\ archived' = archived \cup {j}
  /\ UNCHANGED <<status, attempts, maxAttempts, jobType, due, lastId,
                 procs, history>>

\* Mutant of Active: the idle check forgets the running jobs.
ActiveQueuedOnly(t) == {j \in JobIds : /\ jobType[j] = t
                                       /\ j \notin archived
                                       /\ status[j] = "queued"}

Active(t) == {j \in JobIds : /\ jobType[j] = t
                             /\ j \notin archived
                             /\ status[j] \in {"queued", "running"}}

\* enqueue_job_if_idle, its SELECT: nothing to do when a job is active.
CheckIdle(p, t) ==
  /\ check[p] = NoType
  /\ Active(t) = {}
  /\ check' = [check EXCEPT ![p] = t]
  /\ UNCHANGED <<rows, pc, held, seen, history>>

\* ... and its INSERT, committed with the rest of the caller's transaction.
InsertIdle(p) ==
  /\ check[p] # NoType
  /\ enqueue_job(check[p], DefaultBudget)
  /\ check' = [check EXCEPT ![p] = NoType]
  /\ byIdle' = byIdle \cup {lastId + 1}
  /\ UNCHANGED <<pc, held, seen, failures, deferrals, orphans, crashes>>

-----------------------------------------------------------------------------
(* The worker. *)

Claimable == {j \in JobIds : /\ status[j] = "queued"
                             /\ j \in due
                             /\ j \notin archived}

\* claim_next_job, its SELECT ... ORDER BY created_at LIMIT 1.
SelectNext(w) ==
  /\ pc[w] = "idle"
  /\ \E j \in Claimable :
       /\ \A i \in Claimable : j <= i
       /\ held' = [held EXCEPT ![w] = j]
  /\ pc' = [pc EXCEPT ![w] = "selected"]
  /\ UNCHANGED <<rows, seen, check, history>>

\* ... and its UPDATE ... WHERE id = j, committed.
Claim(w) ==
  /\ pc[w] = "selected"
  /\ status' = [status EXCEPT ![held[w]] = "running"]
  /\ pc' = [pc EXCEPT ![w] = "claimed"]
  /\ UNCHANGED <<attempts, maxAttempts, jobType, archived, due, lastId,
                 held, seen, check, history>>

\* session.get(Job, job_id) in the second session; the handler starts.
Load(w) ==
  /\ pc[w] = "claimed"
  /\ jobType[held[w]] \in Supported
  /\ seen' = [seen EXCEPT ![w] = [status |-> status[held[w]],
                                  attempts |-> attempts[held[w]]]]
  /\ pc' = [pc EXCEPT ![w] = "handling"]
  /\ UNCHANGED <<rows, held, check, history>>

\* An UPDATE names only the columns that differ from the loaded object's.
SetStatus(j, from, to) ==
  status' = IF from = to THEN status ELSE [status EXCEPT ![j] = to]

\* Mutant of fail_or_retry_job: gives up one attempt late.
FailLate(j, loaded, delayed) ==
  /\ attempts' = [attempts EXCEPT ![j] = loaded.attempts + 1]
  /\ IF loaded.attempts + 1 > maxAttempts[j]
       THEN SetStatus(j, loaded.status, "failed") /\ due' = due
       ELSE SetStatus(j, loaded.status, "queued") /\ due' = due \ {j}
  /\ failures' = [failures EXCEPT ![j] = @ + 1]

\* Mutant of fail_or_retry_job: gives up one attempt early.
FailEarly(j, loaded, delayed) ==
  /\ attempts' = [attempts EXCEPT ![j] = loaded.attempts + 1]
  /\ IF loaded.attempts + 2 >= maxAttempts[j]
       THEN SetStatus(j, loaded.status, "failed") /\ due' = due
       ELSE SetStatus(j, loaded.status, "queued") /\ due' = due \ {j}
  /\ failures' = [failures EXCEPT ![j] = @ + 1]

\* fail_or_retry_job, from the attempts and status the session loaded.
fail_or_retry_job(j, loaded, delayed) ==
  /\ attempts' = [attempts EXCEPT ![j] = loaded.attempts + 1]
  /\ IF loaded.attempts + 1 >= maxAttempts[j]
       THEN /\ SetStatus(j, loaded.status, "failed")
            /\ due' = due
       ELSE /\ SetStatus(j, loaded.status, "queued")
            /\ due' = IF delayed THEN due \ {j} ELSE due
  /\ failures' = [failures EXCEPT ![j] = @ + 1]

\* The session ends with a commit and the loop goes on.
Release(w) ==
  /\ pc' = [pc EXCEPT ![w] = "idle"]
  /\ held' = [held EXCEPT ![w] = 0]
  /\ seen' = [seen EXCEPT ![w] = Unseen]

\* get_handler found no entry: fail at once, retry without delay.
RejectUnsupported(w) ==
  /\ pc[w] = "claimed"
  /\ jobType[held[w]] \notin Supported
  /\ fail_or_retry_job(held[w], [status |-> status[held[w]],
                                 attempts |-> attempts[held[w]]], FALSE)
  /\ Release(w)
  /\ UNCHANGED <<maxAttempts, jobType, archived, lastId, check,
                 deferrals, byIdle, orphans, crashes>>

\* The handler returned: complete_job.
Complete(w) ==
  /\ pc[w] = "handling"
  /\ SetStatus(held[w], seen[w].status, "completed")
  /\ Release(w)
  /\ UNCHANGED <<attempts, maxAttempts, jobType, archived, due, lastId, check,
                 history>>

\* Mutant of Defer: a deferral spends an attempt.
DeferCharged(w) ==
  /\ pc[w] = "handling"
  /\ deferrals[held[w]] < MaxDeferrals
  /\ SetStatus(held[w], seen[w].status, "queued")
  /\ attempts' = [attempts EXCEPT ![held[w]] = seen[w].attempts + 1]
  /\ due' = due \ {held[w]}
  /\ deferrals' = [deferrals EXCEPT ![held[w]] = @ + 1]
  /\ Release(w)
  /\ UNCHANGED <<maxAttempts, jobType, archived, lastId, check,
                 failures, byIdle, orphans, crashes>>

\* Mutant of Defer: the status is not put back to queued.
DeferStillRunning(w) ==
  /\ pc[w] = "handling"
  /\ deferrals[held[w]] < MaxDeferrals
  /\ due' = due \ {held[w]}
  /\ deferrals' = [deferrals EXCEPT ![held[w]] = @ + 1]
  /\ Release(w)
  /\ UNCHANGED <<status, attempts, maxAttempts, jobType, archived, lastId,
                 check, failures, byIdle, orphans, crashes>>

\* The handler raised JobDeferred: defer_job.
Defer(w) ==
  /\ pc[w] = "handling"
  /\ deferrals[held[w]] < MaxDeferrals
  /\ SetStatus(held[w], seen[w].status, "queued")
  /\ due' = due \ {held[w]}
  /\ deferrals' = [deferrals EXCEPT ![held[w]] = @ + 1]
  /\ Release(w)
  /\ UNCHANGED <<attempts, maxAttempts, jobType, archived, lastId, check,
                 failures, byIdle, orphans, crashes>>

\* The handler raised anything else.
Fail(w) ==
  /\ pc[w] = "handling"
  /\ fail_or_retry_job(held[w], seen[w], TRUE)
  /\ Release(w)
  /\ UNCHANGED <<maxAttempts, jobType, archived, lastId, check,
                 deferrals, byIdle, orphans, crashes>>

\* The process dies: its open transaction is rolled back, a committed claim
\* is not, and nothing in the code looks for it again.
Crash(w) ==
  /\ crashes < MaxCrashes
  /\ pc[w] # "down"
  /\ pc' = [pc EXCEPT ![w] = "down"]
  /\ held' = [held EXCEPT ![w] = 0]
  /\ seen' = [seen EXCEPT ![w] = Unseen]
  /\ orphans' = IF pc[w] \in {"claimed", "handling"}
                  THEN orphans \cup {held[w]} ELSE orphans
  /\ crashes' = crashes + 1
  /\ UNCHANGED <<rows, check, failures, deferrals, byIdle>>

Restart(w) ==
  /\ pc[w] = "down"
  /\ pc' = [pc EXCEPT ![w] = "idle"]
  /\ UNCHANGED <<rows, held, seen, check, history>>

\* available_at passes.
BecomeDue(j) ==
  /\ status[j] = "queued"
  /\ j \notin due
  /\ due' = due \cup {j}
  /\ UNCHANGED <<status, attempts, maxAttempts, jobType, archived, lastId,
                 procs, history>>

-----------------------------------------------------------------------------
Requests ==
  \/ \E t \in Types, b \in Budgets : CreateJob(t, b)
  \/ \E j \in JobIds : Rerun(j) \/ Archive(j)

Produce(p) == InsertIdle(p) \/ \E t \in Types : CheckIdle(p, t)

\* What the worker's own loop does next.
Work(w) ==
  \/ SelectNext(w) \/ Claim(w) \/ Load(w) \/ RejectUnsupported(w)
  \/ Complete(w) \/ Defer(w) \/ Fail(w)

Next ==
  \/ Requests
  \/ \E p \in Producers : Produce(p)
  \/ \E w \in Workers : Work(w) \/ Crash(w) \/ Restart(w)
  \/ \E j \in JobIds : BecomeDue(j)

Spec == Init /\ [][Next]_vars

\* The worker process polls for as long as it lives, a supervisor starts it
\* again, and time passes.  Requests, archives and crashes need not happen.
Fairness ==
  /\ \A w \in Workers : WF_vars(Work(w)) /\ WF_vars(Restart(w))
  /\ \A j \in JobIds : WF_vars(BecomeDue(j))

FairSpec == Spec /\ Fairness

-----------------------------------------------------------------------------
(* Properties of any number of workers. *)

RowsTyped ==
  /\ status \in [JobIds -> Statuses]
  /\ attempts \in [JobIds -> Nat]
  /\ maxAttempts \in [JobIds -> Nat]
  /\ jobType \in [JobIds -> Types \cup {NoType}]
  /\ archived \subseteq JobIds
  /\ due \subseteq JobIds
  /\ lastId \in 0 .. MaxJobs

ProcsTyped ==
  /\ pc \in [Workers -> {"idle", "selected", "claimed", "handling", "down"}]
  /\ held \in [Workers -> 0 .. MaxJobs]
  /\ seen \in [Workers -> Snapshots]
  /\ check \in [Producers -> Types \cup {NoType}]

HistoryTyped ==
  /\ failures \in [JobIds -> Nat]
  /\ deferrals \in [JobIds -> Nat]
  /\ byIdle \subseteq JobIds
  /\ orphans \subseteq JobIds
  /\ crashes \in Nat

\* Every column and process-local variable keeps its range.
TypeOK == RowsTyped /\ ProcsTyped /\ HistoryTyped

\* A job is never charged for more failures than its executions had: neither
\* a deferral nor a crash, nor two workers writing from stale snapshots,
\* spends an attempt (JobDeferred's contract, jobs.py:24-33).
AttemptsWereFailures == \A j \in JobIds : attempts[j] <= failures[j]

\* A job is only given up once max_attempts of its executions have failed.
FailedSpentBudget ==
  \A j \in JobIds : status[j] = "failed" => failures[j] >= maxAttempts[j]

\* enqueue_job_if_idle never stacks work: of the jobs one producer inserted
\* for a type, at most one is active (jobs.py:99-106).
IdleNotStacked ==
  \A i, j \in byIdle :
    (/\ jobType[i] = jobType[j]
     /\ {i, j} \subseteq Active(jobType[i])) => i = j

(* Properties of the deployment: one jobs worker. *)

\* The attempts column counts the failures exactly: no failure is forgotten,
\* so a failing job cannot run more often than its budget allows.
AttemptsExact ==
  \A j \in JobIds : /\ attempts[j] = failures[j]
                    /\ status[j] \in {"queued", "running"}
                         => attempts[j] < maxAttempts[j]

\* A running row is either held by a worker past its claim or was orphaned by
\* a crash, never both and never neither.
RunningIsOwned ==
  \A j \in JobIds :
    LET owners == {w \in Workers : held[w] = j
                                     /\ pc[w] \in {"claimed", "handling"}}
    IN  IF status[j] = "running"
          THEN IF j \in orphans THEN owners = {} ELSE Cardinality(owners) = 1
          ELSE owners = {}

\* A completed or failed job keeps its verdict and its attempts for good.
VerdictIsFinal ==
  [][\A j \in JobIds : status[j] \in Terminal =>
       status'[j] = status[j] /\ attempts'[j] = attempts[j]]_vars

\* A job whose claim was orphaned by a crash stays running: no worker takes
\* it up again and, until it is archived, its type counts as active, so
\* enqueue_job_if_idle declines that type.
OrphanBlocksIdle ==
  [][\A j \in orphans :
       /\ status'[j] = "running"
       /\ \A p \in Producers :
            (check[p] = NoType /\ check'[p] = jobType[j]) => j \in archived]_vars

\* Every job whose claim is not lost to a crash and that is not archived is
\* completed or failed in the end, the older ones before the newer ones
\* notwithstanding.
EveryJobEnds ==
  \A j \in JobIds :
    (status[j] = "queued") ~>
      (status[j] \in Terminal \/ j \in archived \/ j \in orphans)

\* The table keeps the ledger's promise: queued and running are both pending.
outcome == [j \in JobIds |-> IF status[j] \in {"queued", "running"}
                               THEN "pending" ELSE status[j]]
Ledger == INSTANCE JobLedger WITH tries <- attempts, budget <- maxAttempts
KeepsLedger == Ledger!Spec

=============================================================================
