----------------------------- MODULE FlexReport -----------------------------
(***************************************************************************)
(* The two-phase FlexQuery sync, run by the one jobs worker.  A fan-out    *)
(* job enqueues an initiate job per active token; an initiate job asks     *)
(* IBKR for a statement and enqueues the fetch job of its reference code;  *)
(* a fetch job polls until the statement is built and then syncs every     *)
(* account in it, each in a transaction of its own.                        *)
(*                                                                         *)
(*   src/workers/jobs.py                  the handlers                     *)
(*   src/services/flex_credentials.py     a token's cooldown               *)
(*   src/services/flex_client_factory.py  delays, MAX_STATEMENT_CHECKS     *)
(*   src/api/routers/flexquery_tokens.py  the operator's edits             *)
(*                                                                         *)
(* IBKR is external: it answers each call with success, "not now" or the   *)
(* rate limit 1025.  Time runs in ticks; delays are kept as ticks left.    *)
(***************************************************************************)
EXTENDS Integers, Sequences, FiniteSets, SequencesExt

CONSTANTS
  Tokens,        \* rows of flexquery_tokens
  Accounts,      \* accounts in each report
  Second,        \* ticks per second
  Pause,         \* RATE_LIMIT_PAUSE_SECONDS, in ticks
  FirstCheck,    \* first_check_delay_seconds
  Recheck,       \* RECHECK_DELAY_SECONDS
  Retry,         \* fail_or_retry_job's retry delay
  OperatorPause, \* a pause an operator sets
  MaxChecks,     \* MAX_STATEMENT_CHECKS
  MaxAttempts,   \* max_attempts of the jobs
  Prompt,        \* TRUE when polling and handling take less than a tick
  MaxSyncs,      \* bound: syncs requested
  MaxLimits,     \* bound: 1025 answers
  MaxEdits,      \* bound: edits by the operator
  MaxCrashes     \* bound: crashes of the worker

ASSUME FlexAssumption ==
  /\ {Second, MaxChecks, MaxAttempts} \subseteq Nat \ {0}
  /\ {Pause, FirstCheck, Recheck, Retry, OperatorPause} \subseteq Nat
  /\ {MaxSyncs, MaxLimits, MaxEdits, MaxCrashes} \subseteq Nat
  /\ Prompt \in BOOLEAN
  /\ IsFiniteSet(Tokens) /\ "none" \notin Tokens

VARIABLES
  jobs,     \* the jobs table in order of created_at
  active,   \* tokens whose is_active is set
  left,     \* ticks until each token's paused_until
  pc,       \* what the worker is doing
  job,      \* the job it holds, 0 for none
  todo,     \* accounts of the report it has still to sync
  cooling,  \* history: ticks left of the pause IBKR's last 1025 calls for
  lost,     \* history: tokens whose last 1025 was never recorded
  misses,   \* history: "not ready" answers each job has had
  synced,   \* history: accounts each job has synced
  limits, edits, crashes  \* for the bounds

worker == <<pc, job, todo>>
history == <<cooling, lost, misses, synced, limits, edits, crashes>>
vars == <<jobs, active, left, worker, history>>

Kinds == {"fan_out", "initiate", "fetch"}
MaxJobs == MaxSyncs * (1 + 2 * Cardinality(Tokens))
Ids == 1 .. MaxJobs

NewJob(kind, token, parent, wait) ==
  [kind |-> kind, token |-> token, parent |-> parent, status |-> "queued",
   attempts |-> 0, wait |-> wait, checks |-> 0]

Init ==
  /\ jobs = << >>
  /\ active = Tokens
  /\ left = [t \in Tokens |-> 0]
  /\ pc = "idle"
  /\ job = 0
  /\ todo = {}
  /\ cooling = [t \in Tokens |-> 0]
  /\ lost = {}
  /\ misses = [j \in Ids |-> 0]
  /\ synced = [j \in Ids |-> {}]
  /\ limits = 0 /\ edits = 0 /\ crashes = 0

Claimable == {j \in DOMAIN jobs : jobs[j].status = "queued" /\ jobs[j].wait = 0}
Mine == jobs[job].token

-----------------------------------------------------------------------------
(* What the worker's loop does with a job it holds. *)

\* Mutant of Deferred: a deferral spends an attempt.
DeferredCharged(row, delay) ==
  [row EXCEPT !.status = "queued", !.wait = delay, !.attempts = @ + 1]

\* Mutant of Deferred: the status is not put back to queued.
DeferredRunning(row, delay) == [row EXCEPT !.wait = delay]

\* defer_job.
Deferred(row, delay) == [row EXCEPT !.status = "queued", !.wait = delay]

\* fail_or_retry_job.
Failed(row) ==
  IF row.attempts + 1 >= MaxAttempts
    THEN [row EXCEPT !.status = "failed", !.attempts = @ + 1]
    ELSE [row EXCEPT !.status = "queued", !.attempts = @ + 1, !.wait = Retry]

\* The session commits the row and the loop goes on.
Finish(row) ==
  /\ jobs' = [jobs EXCEPT ![job] = row]
  /\ pc' = "idle"
  /\ job' = 0
  /\ todo' = {}

\* claim_next_job with its commit, oldest due job first.
Claim ==
  /\ pc = "idle"
  /\ \E j \in Claimable :
       /\ \A i \in Claimable : j <= i
       /\ job' = j
       /\ jobs' = [jobs EXCEPT ![j].status = "running"]
  /\ pc' = "claimed"
  /\ UNCHANGED <<active, left, todo, history>>

\* complete_job.
Complete ==
  /\ pc = "finishing" \/ (pc = "syncing" /\ todo = {})
  /\ Finish([jobs[job] EXCEPT !.status = "completed"])
  /\ UNCHANGED <<active, left, history>>

\* The tokens whose last 1025 nobody will record when the handler stops now.
Unrecorded == lost \cup (IF pc = "limited" THEN {Mine} ELSE {})

\* Any other error in a handler that has not finished its own writes.
HandlerFails ==
  /\ pc \in {"calling", "limited", "accepted"} \/ (pc = "syncing" /\ todo # {})
  /\ Finish(Failed(jobs[job]))
  /\ lost' = Unrecorded
  /\ UNCHANGED <<active, left, cooling, misses, synced, limits, edits, crashes>>

-----------------------------------------------------------------------------
(* The handlers. *)

\* _fan_out_flexquery: one initiate job per active token, in one commit; an
\* error when there is none.
FanOut ==
  /\ pc = "claimed"
  /\ jobs[job].kind = "fan_out"
  /\ IF active = {}
       THEN Finish(Failed(jobs[job]))
       ELSE /\ jobs' = jobs \o LET order == SetToSeq(active) IN
                 [i \in DOMAIN order |-> NewJob("initiate", order[i], job, 0)]
            /\ pc' = "finishing"
            /\ UNCHANGED <<job, todo>>
  /\ UNCHANGED <<active, left, history>>

\* pause_remaining_seconds: whole seconds, rounded down.
PauseRemaining(t) == left[t] \div Second

\* An initiate or a fetch job loads its token: an error when it is inactive,
\* a deferral while it is paused, else on to the call.
Load ==
  /\ pc = "claimed"
  /\ jobs[job].kind # "fan_out"
  /\ \/ /\ Mine \notin active
        /\ Finish(Failed(jobs[job]))
     \/ /\ Mine \in active
        /\ PauseRemaining(Mine) > 0
        /\ Finish(Deferred(jobs[job], PauseRemaining(Mine) * Second))
     \/ /\ Mine \in active
        /\ PauseRemaining(Mine) = 0
        /\ pc' = "calling"
        /\ UNCHANGED <<jobs, job, todo>>
  /\ UNCHANGED <<active, left, history>>

\* IBKR answers 1025.
AnswerLimited ==
  /\ pc = "calling"
  /\ limits < MaxLimits
  /\ limits' = limits + 1
  /\ cooling' = [cooling EXCEPT ![Mine] = Pause]
  /\ pc' = "limited"
  /\ UNCHANGED <<jobs, active, left, job, todo, lost, misses, synced, edits, crashes>>

\* Mutant of RecordPause: the pause is not committed.
RecordPauseUncommitted ==
  /\ pc = "limited"
  /\ pc' = "paused"
  /\ UNCHANGED <<jobs, active, left, job, todo, history>>

\* pause_token, a transaction of its own: overwrites whatever pause there is.
RecordPause ==
  /\ pc = "limited"
  /\ left' = [left EXCEPT ![Mine] = Pause]
  /\ lost' = lost \ {Mine}
  /\ pc' = "paused"
  /\ UNCHANGED <<jobs, active, job, todo, cooling, misses, synced, limits, edits, crashes>>

\* ... and the deferral for the length of the pause.
DeferPaused ==
  /\ pc = "paused"
  /\ Finish(Deferred(jobs[job], Pause))
  /\ UNCHANGED <<active, left, history>>

\* An initiate job's request is not accepted yet.
AnswerNotAccepted ==
  /\ pc = "calling"
  /\ jobs[job].kind = "initiate"
  /\ Finish(Deferred(jobs[job], FirstCheck))
  /\ UNCHANGED <<active, left, history>>

AnswerAccepted ==
  /\ pc = "calling"
  /\ jobs[job].kind = "initiate"
  /\ pc' = "accepted"
  /\ UNCHANGED <<jobs, active, left, job, todo, history>>

\* Mutant of EnqueueFetch: the token is marked used after the fetch job is
\* committed, and that fails.
EnqueueFetchFirst ==
  /\ pc = "accepted"
  /\ Len(jobs) < MaxJobs
  /\ jobs' = Append([jobs EXCEPT ![job] = Failed(@)],
                    NewJob("fetch", Mine, job, FirstCheck))
  /\ pc' = "idle" /\ job' = 0 /\ todo' = {}
  /\ UNCHANGED <<active, left, history>>

\* The fetch job of the reference code is committed.
EnqueueFetch ==
  /\ pc = "accepted"
  /\ jobs' = Append(jobs, NewJob("fetch", Mine, job, FirstCheck))
  /\ pc' = "finishing"
  /\ UNCHANGED <<active, left, job, todo, history>>

\* Mutant of AfterMiss: the count is changed on a copy of the payload.
AfterMissForgotten(row) ==
  IF row.checks + 1 >= MaxChecks THEN Failed(row) ELSE Deferred(row, Recheck)

\* A statement that is not ready costs a check; the last one costs an attempt
\* and leaves the count where it is.
AfterMiss(row) ==
  IF row.checks + 1 >= MaxChecks
    THEN Failed(row)
    ELSE Deferred([row EXCEPT !.checks = @ + 1], Recheck)

AnswerNotReady ==
  /\ pc = "calling"
  /\ jobs[job].kind = "fetch"
  /\ Finish(AfterMiss(jobs[job]))
  /\ misses' = [misses EXCEPT ![job] = @ + 1]
  /\ UNCHANGED <<active, left, cooling, lost, synced, limits, edits, crashes>>

AnswerReport ==
  /\ pc = "calling"
  /\ jobs[job].kind = "fetch"
  /\ pc' = "syncing"
  /\ todo' = Accounts
  /\ UNCHANGED <<jobs, active, left, job, history>>

\* Mutant of SyncAccount: an account that fails is skipped.
SyncAccountOrSkip ==
  /\ pc = "syncing"
  /\ \E a \in todo :
       /\ todo' = todo \ {a}
       /\ synced' \in {synced, [synced EXCEPT ![job] = @ \cup {a}]}
  /\ UNCHANGED <<jobs, active, left, pc, job, cooling, lost, misses, limits, edits, crashes>>

\* sync_account commits one account of the report.
SyncAccount ==
  /\ pc = "syncing"
  /\ \E a \in todo :
       /\ todo' = todo \ {a}
       /\ synced' = [synced EXCEPT ![job] = @ \cup {a}]
  /\ UNCHANGED <<jobs, active, left, pc, job, cooling, lost, misses, limits, edits, crashes>>

-----------------------------------------------------------------------------
(* Everybody else. *)

\* A sync is requested through the API.
RequestSync ==
  /\ Cardinality({j \in DOMAIN jobs : jobs[j].kind = "fan_out"}) < MaxSyncs
  /\ jobs' = Append(jobs, NewJob("fan_out", "none", 0, 0))
  /\ UNCHANGED <<active, left, worker, history>>

\* update_flexquery_token: pause, resume, switch on or off.
Edit(t) ==
  /\ edits < MaxEdits
  /\ edits' = edits + 1
  /\ \/ /\ left' = [left EXCEPT ![t] = OperatorPause]
        /\ cooling' = [cooling EXCEPT ![t] = 0]
        /\ active' = active
     \/ /\ left' = [left EXCEPT ![t] = 0]
        /\ cooling' = [cooling EXCEPT ![t] = 0]
        /\ active' = active
     \/ /\ active' = IF t \in active THEN active \ {t} ELSE active \cup {t}
        /\ UNCHANGED <<left, cooling>>
  /\ UNCHANGED <<jobs, worker, lost, misses, synced, limits, crashes>>

\* The worker process dies: a claimed job stays running.
Crash ==
  /\ crashes < MaxCrashes
  /\ pc # "down"
  /\ crashes' = crashes + 1
  /\ lost' = Unrecorded
  /\ pc' = "down" /\ job' = 0 /\ todo' = {}
  /\ UNCHANGED <<jobs, active, left, cooling, misses, synced, limits, edits>>

Restart ==
  /\ pc = "down"
  /\ pc' = "idle"
  /\ UNCHANGED <<jobs, active, left, job, todo, history>>

Less(n) == IF n = 0 THEN 0 ELSE n - 1

\* A tick passes.
Tick ==
  /\ Prompt => pc = "idle" /\ Claimable = {}
  /\ jobs' = [j \in DOMAIN jobs |-> [jobs[j] EXCEPT !.wait = Less(@)]]
  /\ left' = [t \in Tokens |-> Less(left[t])]
  /\ cooling' = [t \in Tokens |-> Less(cooling[t])]
  /\ UNCHANGED <<active, worker, lost, misses, synced, limits, edits, crashes>>

Work ==
  \/ Claim \/ FanOut \/ Load \/ Complete \/ HandlerFails
  \/ AnswerLimited \/ RecordPause \/ DeferPaused
  \/ AnswerNotAccepted \/ AnswerAccepted \/ EnqueueFetch
  \/ AnswerNotReady \/ AnswerReport \/ SyncAccount

Next ==
  \/ RequestSync \/ Work \/ Crash \/ Restart \/ Tick
  \/ \E t \in Tokens : Edit(t)

Spec == Init /\ [][Next]_vars

\* The worker polls, a supervisor restarts it, time passes.
FairSpec == Spec /\ WF_vars(Work) /\ WF_vars(Restart) /\ WF_vars(Tick)

-----------------------------------------------------------------------------
Rows == [kind : Kinds, token : Tokens \cup {"none"}, parent : 0 .. MaxJobs,
         status : {"queued", "running", "completed", "failed"},
         attempts : 0 .. MaxAttempts, wait : Nat, checks : 0 .. MaxChecks - 1]

\* Every variable keeps its range; a count of checks never reaches the bound.
TypeOK ==
  /\ jobs \in Seq(Rows)
  /\ Len(jobs) <= MaxJobs
  /\ active \subseteq Tokens
  /\ left \in [Tokens -> Nat]
  /\ pc \in {"idle", "claimed", "calling", "limited", "paused", "accepted",
             "finishing", "syncing", "down"}
  /\ job \in 0 .. Len(jobs)
  /\ todo \subseteq Accounts

\* Once IBKR has answered 1025 no job calls it for that token before the pause
\* is over, whichever job was told (jobs.py:447-449, 550-552), but in the
\* pause's last part of a second, which int() drops (flex_credentials.py:53).
\* Excepted is a pause that was never recorded, because the worker died or the
\* write failed after the answer, and one an operator has overridden.
CooldownRespected ==
  pc = "calling" => cooling[Mine] < Second \/ Mine \in lost

\* However a fetch job's checks, rate limits, retries and failed syncs mix, it
\* asks for a statement that is not ready only so often.
ChecksBounded ==
  \A j \in DOMAIN jobs :
    /\ misses[j] <= MaxChecks - 1 + jobs[j].attempts
    /\ jobs[j].attempts <= MaxAttempts

\* A completed fetch job has synced every account of its report: the failure
\* of one is retried with the others, never dropped.
CompletedCoversReport ==
  \A j \in DOMAIN jobs :
    jobs[j].kind = "fetch" /\ jobs[j].status = "completed"
      => synced[j] = Accounts

\* A retried fan-out or initiate job never enqueues a second child for a
\* token, and a completed initiate job has its one fetch job.
NoDuplicateChildren ==
  /\ \A i, j \in DOMAIN jobs :
       (/\ jobs[i].parent = jobs[j].parent /\ jobs[i].parent # 0
        /\ jobs[i].token = jobs[j].token) => i = j
  /\ \A i \in DOMAIN jobs :
       jobs[i].kind = "initiate" /\ jobs[i].status = "completed"
         => \E j \in DOMAIN jobs : jobs[j].kind = "fetch" /\ jobs[j].parent = i

\* To its queue the flow is a set of jobs that keep the ledger's promise.
Outcome(j) ==
  IF j \notin DOMAIN jobs THEN "absent"
  ELSE IF jobs[j].status \in {"completed", "failed"} THEN jobs[j].status
  ELSE "pending"

Ledger == INSTANCE JobLedger WITH
  JobIds <- Ids,
  Budgets <- {MaxAttempts},
  DefaultBudget <- MaxAttempts,
  outcome <- [j \in Ids |-> Outcome(j)],
  tries <- [j \in Ids |-> IF j \in DOMAIN jobs THEN jobs[j].attempts ELSE 0],
  budget <- [j \in Ids |-> MaxAttempts]

KeepsLedger == Ledger!Spec

Ends(kind) ==
  \A j \in Ids : (j \in DOMAIN jobs /\ jobs[j].kind = kind)
                   ~> (Outcome(j) \in {"completed", "failed"})

\* Every fetch job ends (flex_client_factory.py:60, jobs.py:29-31).
FetchEnds == Ends("fetch")

=============================================================================
