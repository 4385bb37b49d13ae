----------------------------- MODULE JobLedger -----------------------------
(***************************************************************************)
(* What the jobs table promises the code that enqueues a job, whatever     *)
(* workers, deferrals and crashes do to it: the job is pending until one   *)
(* of its executions succeeds or as many have failed as it was given       *)
(* attempts; then it has a verdict, and the verdict stands.                *)
(***************************************************************************)
EXTENDS Naturals

CONSTANTS JobIds, Budgets, DefaultBudget

VARIABLES
  outcome,   \* of each job: absent, pending, completed or failed
  tries,     \* failed executions charged to it
  budget     \* failed executions it may have

ledger == <<outcome, tries, budget>>

Init ==
  /\ outcome = [j \in JobIds |-> "absent"]
  /\ tries = [j \in JobIds |-> 0]
  /\ budget = [j \in JobIds |-> DefaultBudget]

\* Jobs are submitted together when one transaction enqueues them.
Submit(new) ==
  /\ \A j \in new : outcome[j] = "absent"
  /\ outcome' = [j \in JobIds |-> IF j \in new THEN "pending" ELSE outcome[j]]
  /\ \E b \in [new -> Budgets] :
       budget' = [j \in JobIds |-> IF j \in new THEN b[j] ELSE budget[j]]
  /\ tries' = tries

Succeed(j) ==
  /\ outcome[j] = "pending"
  /\ outcome' = [outcome EXCEPT ![j] = "completed"]
  /\ UNCHANGED <<tries, budget>>

Charge(j) ==
  /\ outcome[j] = "pending"
  /\ tries' = [tries EXCEPT ![j] = @ + 1]
  /\ outcome' = IF tries[j] + 1 < budget[j]
                  THEN outcome ELSE [outcome EXCEPT ![j] = "failed"]
  /\ budget' = budget

Next ==
  \/ \E new \in SUBSET JobIds : Submit(new)
  \/ \E j \in JobIds : Succeed(j) \/ Charge(j)

Spec == Init /\ [][Next]_ledger
=============================================================================
