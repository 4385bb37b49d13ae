-------------------------- MODULE FlexReportProofs --------------------------
(***************************************************************************)
(* The FlexQuery flow keeps its promises for any tokens, accounts, delays  *)
(* and budgets, however checks, rate limits, failures, edits and crashes   *)
(* mix.                                                                    *)
(***************************************************************************)
EXTENDS FlexReport, FiniteSetTheorems, FunctionTheorems, SequenceTheorems, TLAPS

(* The jobs of a table, and who enqueued whom. *)

Of(table, kind) == {j \in 1 .. Len(table) : table[j].kind = kind}

\* A job's kind, token and parent are for life.
Family(table) ==
  /\ \A j \in 1 .. Len(table) :
       LET row == table[j] IN
       /\ row.kind = "fan_out" => row.parent = 0
       /\ row.kind # "fan_out" => row.token \in Tokens /\ row.parent \in 1 .. Len(table)
       /\ row.kind = "initiate" => table[row.parent].kind = "fan_out"
       /\ row.kind = "fetch" => /\ table[row.parent].kind = "initiate"
                                /\ table[row.parent].token = row.token
  /\ \A i, j \in 1 .. Len(table) :
       table[i].parent = table[j].parent /\ table[i].parent # 0 /\ table[i].token = table[j].token
         => i = j

SameFamily(table, other) ==
  /\ Len(other) = Len(table)
  /\ \A j \in 1 .. Len(table) :
       /\ other[j].kind = table[j].kind
       /\ other[j].token = table[j].token
       /\ other[j].parent = table[j].parent

FewSyncs(table) == Cardinality(Of(table, "fan_out")) <= MaxSyncs

FlexRows == [kind : Kinds, token : Tokens \cup {"none"}, parent : Nat,
             status : {"queued", "running", "completed", "failed"},
             attempts : 0 .. MaxAttempts, wait : Nat, checks : 0 .. MaxChecks - 1]

LEMMA FamilyStays ==
  ASSUME NEW table, NEW other, Len(table) \in Nat, SameFamily(table, other)
  PROVE  /\ Family(table) => Family(other)
         /\ FewSyncs(table) => FewSyncs(other)
<1>1. \A kind : Of(other, kind) = Of(table, kind)
  BY DEF Of, SameFamily
<1>2. FewSyncs(table) => FewSyncs(other)
  BY <1>1 DEF FewSyncs
<1>3. ASSUME Family(table)
      PROVE  Family(other)
  <2>1. ASSUME NEW j \in 1 .. Len(other)
        PROVE  LET row == other[j] IN
               /\ row.kind = "fan_out" => row.parent = 0
               /\ row.kind # "fan_out" => row.token \in Tokens /\ row.parent \in 1 .. Len(other)
               /\ row.kind = "initiate" => other[row.parent].kind = "fan_out"
               /\ row.kind = "fetch" => /\ other[row.parent].kind = "initiate"
                                        /\ other[row.parent].token = row.token
    BY <1>3 DEF Family, SameFamily
  <2>2. \A i, j \in 1 .. Len(other) :
          other[i].parent = other[j].parent /\ other[i].parent # 0 /\ other[i].token = other[j].token
            => i = j
    BY <1>3 DEF Family, SameFamily
  <2> QED  BY <2>1, <2>2 DEF Family
<1> QED  BY <1>2, <1>3

LEMMA MaxJobsIsNat == FlexAssumption => MaxJobs \in Nat
BY FS_CardinalityType, SMTT(30) DEF MaxJobs, FlexAssumption

LEMMA SumsUp ==
  ASSUME NEW f \in Nat, NEW i \in Nat, NEW c \in Nat, NEW l \in Nat, NEW m \in Nat, NEW n \in Nat,
         l <= f + i + c, i <= f * n, c <= i, f <= m
  PROVE  l <= m * (1 + 2 * n)
<1>1. f * n <= m * n /\ f * n \in Nat /\ m * n \in Nat
  OBVIOUS
<1>2. m * (1 + 2 * n) = m + 2 * (m * n)
  OBVIOUS
<1>3. l <= m + 2 * (m * n)
  BY <1>1
<1> QED  BY <1>2, <1>3

LEMMA SumOfParts ==
  ASSUME NEW f \in Nat, NEW i \in Nat, NEW c \in Nat, NEW u \in Nat, NEW l \in Nat,
         NEW p \in Nat, NEW q \in Nat, u = f + i - p, l = u + c - q
  PROVE  l <= f + i + c
OBVIOUS

\* The bound on the table is no restriction: a fan-out job has a child per
\* token and an initiate job one child.
LEMMA TableFits ==
  ASSUME FlexAssumption, NEW table \in Seq(FlexRows), Family(table), FewSyncs(table)
  PROVE  Len(table) <= MaxJobs
<1> DEFINE F == Of(table, "fan_out")
           I == Of(table, "initiate")
           C == Of(table, "fetch")
           n == Cardinality(Tokens)
<1>0. Len(table) \in Nat
  BY LenProperties
<1>1. \A j \in 1 .. Len(table) : table[j].kind \in Kinds
  <2>1. \A j \in 1 .. Len(table) : table[j] \in FlexRows
    BY ElementOfSeq
  <2> QED  BY <2>1 DEF FlexRows
<1>2. IsFiniteSet(1 .. Len(table)) /\ Cardinality(1 .. Len(table)) = Len(table)
  <2>1. /\ IsFiniteSet(1 .. Len(table))
        /\ Cardinality(1 .. Len(table)) = IF 1 > Len(table) THEN 0 ELSE Len(table) - 1 + 1
    <3>1. 1 \in Int /\ Len(table) \in Int
      BY <1>0
    <3> DEFINE l == Len(table)
    <3> HIDE DEF l
    <3>2. IsFiniteSet(1 .. l) /\ Cardinality(1 .. l) = IF 1 > l THEN 0 ELSE l - 1 + 1
      BY <3>1, FS_Interval, Zenon DEF l
    <3> QED  BY <3>2 DEF l
  <2> QED  BY <1>0, <2>1
<1>3. 1 .. Len(table) = (F \cup I) \cup C
  BY <1>1 DEF Of, Kinds
<1>once. /\ \A j \in 1 .. Len(table) : table[j].kind # "fan_out" => table[j].parent # 0
         /\ \A j \in 1 .. Len(table) : table[j].kind = "fetch" =>
              table[table[j].parent].token = table[j].token
         /\ \A i, k \in 1 .. Len(table) :
              table[i].parent = table[k].parent /\ table[i].parent # 0
                /\ table[i].token = table[k].token => i = k
  <2>1. \A j \in 1 .. Len(table) : table[j].kind # "fan_out" => table[j].parent # 0
    BY <1>0 DEF Family
  <2>2. \A j \in 1 .. Len(table) : table[j].kind = "fetch" =>
          table[table[j].parent].token = table[j].token
    BY DEF Family
  <2>3. \A i, k \in 1 .. Len(table) :
          table[i].parent = table[k].parent /\ table[i].parent # 0 /\ table[i].token = table[k].token
            => i = k
    BY DEF Family
  <2> QED  BY <2>1, <2>2, <2>3
<1>4. IsFiniteSet(F) /\ IsFiniteSet(I) /\ IsFiniteSet(C)
  BY <1>2, FS_Subset DEF Of
<1>5. n \in Nat /\ Cardinality(F) \in Nat /\ Cardinality(I) \in Nat /\ Cardinality(C) \in Nat
  BY <1>4, FS_CardinalityType DEF FlexAssumption
<1>6. Cardinality(I) <= Cardinality(F) * n
  <2> DEFINE of == [j \in I |-> <<table[j].parent, table[j].token>>]
  <2>1. of \in [I -> F \X Tokens]
    BY DEF Of, Family
  <2>2. ASSUME NEW i \in I, NEW j \in I, of[i] = of[j]
        PROVE  i = j
    <3>1. table[i].parent = table[j].parent /\ table[i].token = table[j].token
      BY <2>2
    <3>2. i \in 1 .. Len(table) /\ j \in 1 .. Len(table) /\ table[i].kind # "fan_out"
      BY DEF Of
    <3>3. table[i].parent # 0
      BY <1>once, <3>2
    <3> QED  BY <1>once, <3>1, <3>2, <3>3
  <2>3. of \in Injection(I, F \X Tokens)
    BY <2>1, <2>2 DEF Injection, IsInjective
  <2>4. IsFiniteSet(F \X Tokens) /\ Cardinality(F \X Tokens) = Cardinality(F) * n
    BY <1>4, FS_Product DEF FlexAssumption
  <2> QED  BY <2>3, <2>4, FS_Injection
<1>7. Cardinality(C) <= Cardinality(I)
  <2> DEFINE of == [j \in C |-> table[j].parent]
  <2>1. of \in [C -> I]
    BY DEF Of, Family
  <2>2. ASSUME NEW i \in C, NEW j \in C, of[i] = of[j]
        PROVE  i = j
    <3>1. table[i].parent = table[j].parent
      BY <2>2
    <3>2. /\ i \in 1 .. Len(table) /\ j \in 1 .. Len(table)
          /\ table[i].kind = "fetch" /\ table[j].kind = "fetch"
      BY DEF Of
    <3>3. table[i].parent # 0 /\ table[i].token = table[j].token
      BY <1>once, <3>1, <3>2
    <3> QED  BY <1>once, <3>1, <3>2, <3>3
  <2>3. of \in Injection(C, I)
    BY <2>1, <2>2 DEF Injection, IsInjective
  <2> QED  BY <1>4, <2>3, FS_Injection
<1>8. Len(table) <= Cardinality(F) + Cardinality(I) + Cardinality(C)
  <2>1. /\ IsFiniteSet(F \cup I)
        /\ Cardinality(F \cup I) = Cardinality(F) + Cardinality(I) - Cardinality(F \cap I)
    BY <1>4, FS_Union
  <2>2. Cardinality((F \cup I) \cup C) =
          Cardinality(F \cup I) + Cardinality(C) - Cardinality((F \cup I) \cap C)
    BY <1>4, <2>1, FS_Union
  <2>3. Cardinality(F \cap I) \in Nat /\ Cardinality((F \cup I) \cap C) \in Nat
    <3>1. IsFiniteSet(F \cap I) /\ IsFiniteSet((F \cup I) \cap C)
      BY <1>4, FS_Subset
    <3> QED  BY <3>1, FS_CardinalityType
  <2>4. Cardinality(F \cup I) \in Nat
    BY <2>1, FS_CardinalityType
  <2>5. Len(table) = Cardinality(F \cup I) + Cardinality(C) - Cardinality((F \cup I) \cap C)
    BY <1>2, <1>3, <2>2
  <2> HIDE DEF F, I, C
  <2> QED  BY <1>0, <1>5, <2>1, <2>3, <2>4, <2>5, SumOfParts
<1>9. Cardinality(F) <= MaxSyncs /\ MaxSyncs \in Nat
  BY DEF FewSyncs, FlexAssumption
<1> HIDE DEF F, I, C, n
<1>10. Len(table) <= MaxSyncs * (1 + 2 * n)
  BY <1>0, <1>5, <1>6, <1>7, <1>8, <1>9, SumsUp
<1> QED  BY <1>10 DEF MaxJobs, n
-----------------------------------------------------------------------------
(* The invariant. *)

Phases == {"idle", "claimed", "calling", "limited", "paused", "accepted",
           "finishing", "syncing", "down"}

FlexTyped ==
  /\ jobs \in Seq(FlexRows)
  /\ active \subseteq Tokens
  /\ left \in [Tokens -> Nat]
  /\ pc \in Phases
  /\ todo \subseteq Accounts
  /\ misses \in [Ids -> Nat]
  /\ synced \in [Ids -> SUBSET Accounts]

\* What the worker does, it does to a running job of the right kind.
Holding ==
  /\ pc \in {"idle", "down"} => job = 0 /\ todo = {}
  /\ pc \notin {"idle", "down"} =>
       /\ job \in 1 .. Len(jobs)
       /\ jobs[job].status = "running"
       /\ pc \notin {"claimed", "finishing"} => jobs[job].kind # "fan_out"
       /\ pc = "accepted" => jobs[job].kind = "initiate"
       /\ pc = "syncing" => jobs[job].kind = "fetch"
       /\ pc = "finishing" => jobs[job].kind # "fetch"

\* A job that can still run has attempts left, and each answer "not ready" has
\* cost it a check or an attempt.
Charged ==
  /\ \A j \in 1 .. Len(jobs) :
       /\ jobs[j].status \in {"queued", "running"} => jobs[j].attempts < MaxAttempts
       /\ misses[j] <= jobs[j].checks + jobs[j].attempts
  /\ \A j \in Ids : j > Len(jobs) => misses[j] = 0

\* A fetch job's accounts that are not to do are done.
Covered ==
  /\ pc = "syncing" => Accounts \ todo \subseteq synced[job]
  /\ \A j \in 1 .. Len(jobs) :
       jobs[j].kind = "fetch" /\ jobs[j].status = "completed" => synced[j] = Accounts

\* A job with children will not have more: it is finishing, or it finished, or
\* it was orphaned by a crash.
Parents ==
  /\ \A j \in 1 .. Len(jobs) : jobs[j].parent # 0 =>
       LET p == jobs[j].parent IN
       \/ jobs[p].status = "completed"
       \/ jobs[p].status = "running" /\ (p = job => pc = "finishing")
  /\ \A p \in 1 .. Len(jobs) :
       jobs[p].kind = "initiate" /\ (jobs[p].status = "completed" \/ (p = job /\ pc = "finishing"))
         => \E j \in 1 .. Len(jobs) : jobs[j].kind = "fetch" /\ jobs[j].parent = p

FlexInv ==
  /\ FlexTyped /\ Family(jobs) /\ FewSyncs(jobs)
  /\ Holding /\ Charged /\ Covered /\ Parents

LEMMA FlexStarts == FlexAssumption /\ Init => FlexInv
<1> SUFFICES ASSUME FlexAssumption, Init PROVE FlexInv
  OBVIOUS
<1>1. jobs = << >> /\ Len(jobs) = 0 /\ jobs \in Seq(FlexRows)
  BY DEF Init
<1>2. FlexTyped
  BY <1>1 DEF Init, FlexTyped, Phases
<1>3. Of(jobs, "fan_out") = {}
  BY <1>1 DEF Of
<1>4. Family(jobs) /\ FewSyncs(jobs)
  <2>1. 1 .. Len(jobs) = {}
    BY <1>1
  <2>2. Family(jobs)
    BY <2>1 DEF Family
  <2>3. Cardinality(Of(jobs, "fan_out")) = 0
    BY <1>3, FS_EmptySet
  <2>4. MaxSyncs \in Nat
    BY DEF FlexAssumption
  <2> QED  BY <2>2, <2>3, <2>4 DEF FewSyncs
<1>5. Holding /\ Charged /\ Covered /\ Parents
  BY <1>1 DEF Init, Holding, Charged, Covered, Parents
<1> QED  BY <1>2, <1>4, <1>5 DEF FlexInv

\* Every id of the table is one the histories are kept for.
LEMMA IdsSuffice ==
  ASSUME FlexAssumption, FlexInv
  PROVE  Len(jobs) \in Nat /\ DOMAIN jobs = 1 .. Len(jobs) /\ 1 .. Len(jobs) \subseteq Ids
<1>1. Len(jobs) \in Nat /\ DOMAIN jobs = 1 .. Len(jobs)
  BY LenProperties DEF FlexInv, FlexTyped
<1>2. Len(jobs) <= MaxJobs
  BY TableFits DEF FlexInv, FlexTyped
<1>3. MaxJobs \in Nat
  BY MaxJobsIsNat
<1> QED  BY <1>1, <1>2, <1>3 DEF Ids

\* A row written over one of its kind, token and parent.
LEMMA RowWritten ==
  ASSUME FlexAssumption, FlexInv, NEW j \in 1 .. Len(jobs), NEW row \in FlexRows,
         row.kind = jobs[j].kind, row.token = jobs[j].token, row.parent = jobs[j].parent,
         jobs' = [jobs EXCEPT ![j] = row]
  PROVE  /\ jobs' \in Seq(FlexRows) /\ Len(jobs') = Len(jobs) /\ jobs'[j] = row
         /\ \A i \in 1 .. Len(jobs) : i # j => jobs'[i] = jobs[i]
         /\ SameFamily(jobs, jobs') /\ Family(jobs') /\ FewSyncs(jobs')
<1>1. /\ jobs' \in Seq(FlexRows) /\ Len(jobs') = Len(jobs)
      /\ \A i \in 1 .. Len(jobs) : jobs'[i] = IF i = j THEN row ELSE jobs[i]
  BY ExceptSeq, SMTT(30) DEF FlexInv, FlexTyped
<1>2. SameFamily(jobs, jobs')
  BY <1>1 DEF SameFamily
<1>3. Family(jobs') /\ FewSyncs(jobs')
  BY <1>2, FamilyStays, IdsSuffice DEF FlexInv
<1> QED  BY <1>1, <1>2, <1>3

\* The handler ends and the loop goes on.
LEMMA FinishKeeps ==
  ASSUME FlexAssumption, FlexInv, pc \notin {"idle", "down"},
         NEW row \in FlexRows, Finish(row),
         row.kind = jobs[job].kind, row.token = jobs[job].token, row.parent = jobs[job].parent,
         row.status \in {"queued", "completed", "failed"},
         row.status = "queued" => row.attempts < MaxAttempts,
         row.status = "completed" => pc = "finishing" \/ (pc = "syncing" /\ todo = {}),
         row.status # "completed" => pc # "finishing",
         NEW m \in Nat, misses' = [misses EXCEPT ![job] = m], m <= row.checks + row.attempts,
         UNCHANGED <<active, left, synced>>
  PROVE  FlexInv'
<1>1. job \in 1 .. Len(jobs) /\ jobs[job].status = "running"
  BY DEF FlexInv, Holding
<1>2. /\ jobs' = [jobs EXCEPT ![job] = row] /\ pc' = "idle" /\ job' = 0 /\ todo' = {}
  BY DEF Finish
<1>3. /\ jobs' \in Seq(FlexRows) /\ Len(jobs') = Len(jobs) /\ jobs'[job] = row
      /\ \A i \in 1 .. Len(jobs) : i # job => jobs'[i] = jobs[i]
      /\ SameFamily(jobs, jobs') /\ Family(jobs') /\ FewSyncs(jobs')
  BY <1>1, <1>2, RowWritten
<1>4. 1 .. Len(jobs) \subseteq Ids /\ Len(jobs) \in Nat
  BY IdsSuffice
<1>5. FlexTyped'
  BY <1>2, <1>3 DEF FlexInv, FlexTyped, Phases
<1>6. Holding'
  BY <1>2 DEF Holding
<1>7. Charged'
  <2>1. misses'[job] = m /\ \A i \in Ids : i # job => misses'[i] = misses[i]
    BY <1>1, <1>4 DEF FlexInv, FlexTyped
  <2>2. \A j \in Ids : j > Len(jobs') => misses'[j] = 0
    BY <1>1, <1>3, <2>1, SMTT(30) DEF FlexInv, Charged
  <2>3. ASSUME NEW j \in 1 .. Len(jobs')
        PROVE  /\ jobs'[j].status \in {"queued", "running"} => jobs'[j].attempts < MaxAttempts
               /\ misses'[j] <= jobs'[j].checks + jobs'[j].attempts
    <3>1. CASE j = job
      BY <1>1, <1>3, <2>1, <3>1
    <3>2. CASE j # job
      <4>1. jobs'[j] = jobs[j] /\ misses'[j] = misses[j]
        BY <1>3, <1>4, <2>1, <3>2
      <4> QED  BY <1>3, <4>1 DEF FlexInv, Charged
    <3> QED  BY <3>1, <3>2
  <2> QED  BY <2>2, <2>3 DEF Charged
<1>8. Covered'
  <2>1. ASSUME row.kind = "fetch", row.status = "completed"
        PROVE  synced[job] = Accounts
    <3>1. pc = "syncing" /\ todo = {}
      BY <2>1 DEF FlexInv, Holding
    <3> QED  BY <1>1, <1>4, <3>1 DEF FlexInv, FlexTyped, Covered
  <2> QED  BY <1>1, <1>2, <1>3, <2>1 DEF FlexInv, Covered
<1>9. Parents'
  <2>1. ASSUME NEW j \in 1 .. Len(jobs'), jobs'[j].parent # 0
        PROVE  LET p == jobs'[j].parent IN
               \/ jobs'[p].status = "completed"
               \/ jobs'[p].status = "running" /\ (p = job' => pc' = "finishing")
    <3> DEFINE p == jobs[j].parent
    <3>1. jobs'[j].parent = p /\ p # 0 /\ p \in 1 .. Len(jobs)
      BY <1>3, <2>1 DEF SameFamily, FlexInv, Family
    <3>2. \/ jobs[p].status = "completed"
          \/ jobs[p].status = "running" /\ (p = job => pc = "finishing")
      BY <1>3, <2>1, <3>1 DEF FlexInv, Parents
    <3>3. CASE p = job
      BY <1>1, <1>3, <3>1, <3>2, <3>3
    <3>4. CASE p # job
      <4>1. jobs'[p] = jobs[p] /\ p # job'
        BY <1>2, <1>3, <3>1, <3>4
      <4> QED  BY <3>1, <3>2, <4>1
    <3> QED  BY <3>3, <3>4
  <2>2. ASSUME NEW p \in 1 .. Len(jobs'), jobs'[p].kind = "initiate",
               jobs'[p].status = "completed" \/ (p = job' /\ pc' = "finishing")
        PROVE  \E j \in 1 .. Len(jobs') : jobs'[j].kind = "fetch" /\ jobs'[j].parent = p
    <3>1. jobs[p].kind = "initiate"
      BY <1>3, <2>2 DEF SameFamily
    <3>2. jobs[p].status = "completed" \/ (p = job /\ pc = "finishing")
      <4>1. CASE p = job
        <5>1. pc # "syncing"
          BY <3>1, <4>1 DEF FlexInv, Holding
        <5> QED  BY <1>2, <1>3, <2>2, <4>1, <5>1
      <4>2. CASE p # job
        BY <1>2, <1>3, <2>2, <4>2
      <4> QED  BY <4>1, <4>2
    <3>3. PICK j \in 1 .. Len(jobs) : jobs[j].kind = "fetch" /\ jobs[j].parent = p
      BY <1>3, <2>2, <3>1, <3>2 DEF FlexInv, Parents
    <3> QED  BY <1>3, <3>3 DEF SameFamily
  <2> QED  BY <2>1, <2>2 DEF Parents
<1> QED  BY <1>3, <1>5, <1>6, <1>7, <1>8, <1>9 DEF FlexInv


\* Nothing is written to the table.
LEMMA MovesOnKeeps ==
  ASSUME FlexAssumption, FlexInv, jobs' = jobs, UNCHANGED misses,
         active' \subseteq Tokens, left' \in [Tokens -> Nat], pc' \in Phases, todo' \subseteq Accounts,
         synced' \in [Ids -> SUBSET Accounts], \A j \in Ids : synced[j] \subseteq synced'[j],
         Holding', pc' = "syncing" => Accounts \ todo' \subseteq synced'[job'],
         job' # 0 => job' = job,
         pc = "finishing" => job' = 0 \/ pc' = "finishing",
         pc' = "finishing" => pc = "finishing"
  PROVE  FlexInv'
<1>0. 1 .. Len(jobs) \subseteq Ids
  BY IdsSuffice
<1>1. FlexTyped'
  BY DEF FlexInv, FlexTyped
<1>2. Family(jobs') /\ FewSyncs(jobs') /\ Charged'
  BY DEF FlexInv, Charged
<1>3. Covered'
  <2>1. ASSUME NEW j \in 1 .. Len(jobs), synced[j] = Accounts
        PROVE  synced'[j] = Accounts
    BY <1>0, <2>1
  <2> QED  BY <2>1 DEF FlexInv, Covered
<1>4. Parents'
  <2>1. ASSUME NEW j \in 1 .. Len(jobs), jobs[j].parent # 0
        PROVE  LET p == jobs[j].parent IN
               \/ jobs[p].status = "completed"
               \/ jobs[p].status = "running" /\ (p = job' => pc' = "finishing")
    BY <2>1 DEF FlexInv, Parents
  <2>2. ASSUME NEW p \in 1 .. Len(jobs), p = job', pc' = "finishing"
        PROVE  p = job /\ pc = "finishing"
    BY <2>2, <1>0 DEF Ids
  <2>3. \A p \in 1 .. Len(jobs) :
          jobs[p].kind = "initiate" /\ (jobs[p].status = "completed" \/ (p = job' /\ pc' = "finishing"))
            => \E j \in 1 .. Len(jobs) : jobs[j].kind = "fetch" /\ jobs[j].parent = p
    BY <2>2 DEF FlexInv, Parents
  <2> QED  BY <2>1, <2>3 DEF Parents
<1> QED  BY <1>1, <1>2, <1>3, <1>4 DEF FlexInv

\* The claim of a due job: it was queued, so it has no child.
LEMMA ClaimKeeps ==
  ASSUME FlexAssumption, FlexInv, Claim
  PROVE  FlexInv'
<1>0. Len(jobs) \in Nat /\ DOMAIN jobs = 1 .. Len(jobs) /\ 1 .. Len(jobs) \subseteq Ids
  BY IdsSuffice
<1>1. PICK j \in 1 .. Len(jobs) :
        /\ jobs[j].status = "queued" /\ job' = j
        /\ jobs' = [jobs EXCEPT ![j].status = "running"]
  BY <1>0 DEF Claim, Claimable
<1>2. pc = "idle" /\ pc' = "claimed" /\ UNCHANGED <<active, left, todo, misses, synced>>
  BY DEF Claim, history
<1> DEFINE row == [jobs[j] EXCEPT !.status = "running"]
<1>3. jobs[j] \in FlexRows
  BY ElementOfSeq DEF FlexInv, FlexTyped
<1>4. /\ row \in FlexRows /\ row.kind = jobs[j].kind /\ row.token = jobs[j].token
      /\ row.parent = jobs[j].parent /\ row.status = "running"
      /\ row.attempts = jobs[j].attempts /\ row.checks = jobs[j].checks
  BY <1>3 DEF FlexRows
<1>5. jobs' = [jobs EXCEPT ![j] = row]
  BY <1>1
<1> HIDE DEF row
<1>6. /\ jobs' \in Seq(FlexRows) /\ Len(jobs') = Len(jobs) /\ jobs'[j] = row
      /\ \A i \in 1 .. Len(jobs) : i # j => jobs'[i] = jobs[i]
      /\ SameFamily(jobs, jobs') /\ Family(jobs') /\ FewSyncs(jobs')
  BY <1>4, <1>5, RowWritten
<1>7. FlexTyped'
  BY <1>2, <1>6 DEF FlexInv, FlexTyped, Phases
<1>8. Holding'
  BY <1>1, <1>2, <1>4, <1>6 DEF Holding
<1>9. Charged'
  BY <1>0, <1>1, <1>2, <1>4, <1>6 DEF FlexInv, Charged
<1>10. Covered'
  BY <1>1, <1>2, <1>4, <1>6 DEF FlexInv, Covered
<1>11. Parents'
  <2>1. ASSUME NEW i \in 1 .. Len(jobs'), jobs'[i].parent # 0
        PROVE  LET p == jobs'[i].parent IN
               \/ jobs'[p].status = "completed"
               \/ jobs'[p].status = "running" /\ (p = job' => pc' = "finishing")
    <3> DEFINE p == jobs[i].parent
    <3>1. jobs'[i].parent = p /\ p # 0 /\ p \in 1 .. Len(jobs)
      BY <1>6, <2>1 DEF SameFamily, FlexInv, Family
    <3>2. jobs[p].status \in {"completed", "running"}
      BY <1>6, <2>1, <3>1 DEF FlexInv, Parents
    <3>3. p # j
      BY <1>1, <3>2
    <3>4. jobs'[p] = jobs[p] /\ p # job'
      BY <1>1, <1>6, <3>1, <3>3
    <3> QED  BY <3>1, <3>2, <3>4
  <2>2. ASSUME NEW p \in 1 .. Len(jobs'), jobs'[p].kind = "initiate",
               jobs'[p].status = "completed" \/ (p = job' /\ pc' = "finishing")
        PROVE  \E i \in 1 .. Len(jobs') : jobs'[i].kind = "fetch" /\ jobs'[i].parent = p
    <3>1. p # j /\ jobs'[p] = jobs[p]
      BY <1>2, <1>4, <1>6, <2>2
    <3>2. PICK i \in 1 .. Len(jobs) : jobs[i].kind = "fetch" /\ jobs[i].parent = p
      BY <1>2, <1>6, <2>2, <3>1 DEF FlexInv, Parents
    <3> QED  BY <1>6, <3>2 DEF SameFamily
  <2> QED  BY <2>1, <2>2 DEF Parents
<1> QED  BY <1>6, <1>7, <1>8, <1>9, <1>10, <1>11 DEF FlexInv

LEMMA LessIsNat == \A n \in Nat : Less(n) \in Nat
BY DEF Less

\* Time passes for every row.
LEMMA TickKeeps ==
  ASSUME FlexAssumption, FlexInv, Tick
  PROVE  FlexInv'
<1>0. Len(jobs) \in Nat /\ DOMAIN jobs = 1 .. Len(jobs) /\ 1 .. Len(jobs) \subseteq Ids
  BY IdsSuffice
<1>1. /\ jobs' = [j \in 1 .. Len(jobs) |-> [jobs[j] EXCEPT !.wait = Less(@)]]
      /\ left' = [t \in Tokens |-> Less(left[t])]
      /\ UNCHANGED <<active, pc, job, todo, misses, synced>>
  BY <1>0 DEF Tick, worker
<1>2. ASSUME NEW j \in 1 .. Len(jobs)
      PROVE  /\ jobs'[j] \in FlexRows /\ jobs'[j].kind = jobs[j].kind
             /\ jobs'[j].token = jobs[j].token /\ jobs'[j].parent = jobs[j].parent
             /\ jobs'[j].status = jobs[j].status /\ jobs'[j].attempts = jobs[j].attempts
             /\ jobs'[j].checks = jobs[j].checks
  <2>1. jobs[j] \in FlexRows
    BY ElementOfSeq DEF FlexInv, FlexTyped
  <2>2. Less(jobs[j].wait) \in Nat
    <3>1. jobs[j].wait \in Nat
      BY <2>1 DEF FlexRows
    <3> QED  BY <3>1, LessIsNat
  <2>3. jobs'[j] = [jobs[j] EXCEPT !.wait = Less(jobs[j].wait)]
    BY <1>1
  <2> QED  BY <2>1, <2>2, <2>3 DEF FlexRows
<1>3. jobs' \in [1 .. Len(jobs) -> FlexRows]
  BY <1>1, <1>2
<1>4. jobs' \in Seq(FlexRows) /\ Len(jobs') = Len(jobs)
  BY <1>0, <1>3, SMTT(30)
<1>5. SameFamily(jobs, jobs')
  BY <1>2, <1>4 DEF SameFamily
<1>6. Family(jobs') /\ FewSyncs(jobs')
  BY <1>0, <1>5, FamilyStays DEF FlexInv
<1>7. left' \in [Tokens -> Nat]
  BY <1>1, LessIsNat DEF FlexInv, FlexTyped
<1>8. FlexTyped'
  BY <1>1, <1>4, <1>7 DEF FlexInv, FlexTyped
<1>9. Holding'
  BY <1>1, <1>2, <1>4 DEF FlexInv, Holding
<1>10. Charged'
  BY <1>1, <1>2, <1>4 DEF FlexInv, Charged
<1>11. Covered'
  BY <1>1, <1>2, <1>4 DEF FlexInv, Covered
<1>12. Parents'
  <2>1. \A j \in 1 .. Len(jobs) : jobs[j].parent # 0 => jobs[j].parent \in 1 .. Len(jobs)
    BY DEF FlexInv, Family
  <2>2. ASSUME NEW j \in 1 .. Len(jobs'), jobs'[j].parent # 0
        PROVE  LET p == jobs'[j].parent IN
               \/ jobs'[p].status = "completed"
               \/ jobs'[p].status = "running" /\ (p = job' => pc' = "finishing")
    <3>1. jobs'[j].parent = jobs[j].parent /\ jobs[j].parent \in 1 .. Len(jobs)
      BY <1>2, <1>4, <2>1, <2>2
    <3>2. jobs'[jobs[j].parent].status = jobs[jobs[j].parent].status
      BY <1>2, <3>1
    <3> QED  BY <1>1, <1>4, <2>2, <3>1, <3>2 DEF FlexInv, Parents
  <2>3. ASSUME NEW p \in 1 .. Len(jobs'), jobs'[p].kind = "initiate",
               jobs'[p].status = "completed" \/ (p = job' /\ pc' = "finishing")
        PROVE  \E j \in 1 .. Len(jobs') : jobs'[j].kind = "fetch" /\ jobs'[j].parent = p
    <3>1. PICK j \in 1 .. Len(jobs) : jobs[j].kind = "fetch" /\ jobs[j].parent = p
      BY <1>1, <1>2, <1>4, <2>3 DEF FlexInv, Parents
    <3> QED  BY <1>2, <1>4, <3>1
  <2> QED  BY <2>2, <2>3 DEF Parents
<1> QED  BY <1>6, <1>8, <1>9, <1>10, <1>11, <1>12, <1>4 DEF FlexInv

-----------------------------------------------------------------------------
(* The steps that finish a job. *)

LEMMA RowIs ==
  ASSUME FlexInv, pc \notin {"idle", "down"}
  PROVE  /\ job \in 1 .. Len(jobs) /\ jobs[job] \in FlexRows
         /\ jobs[job].attempts < MaxAttempts /\ misses[job] <= jobs[job].checks + jobs[job].attempts
BY ElementOfSeq DEF FlexInv, FlexTyped, Holding, Charged

LEMMA OneMore ==
  ASSUME NEW m \in Nat, NEW c \in Nat, NEW a \in Nat, m <= c + a
  PROVE  m <= c + (a + 1) /\ m + 1 <= c + (a + 1) /\ m + 1 <= (c + 1) + a /\ m + 1 \in Nat
OBVIOUS

\* What fail_or_retry_job and defer_job make of a row.
LEMMA FailedIs ==
  ASSUME FlexAssumption, NEW row \in FlexRows, row.attempts < MaxAttempts
  PROVE  /\ Failed(row) \in FlexRows
         /\ Failed(row).kind = row.kind /\ Failed(row).token = row.token
         /\ Failed(row).parent = row.parent /\ Failed(row).checks = row.checks
         /\ Failed(row).attempts = row.attempts + 1
         /\ Failed(row).status = IF row.attempts + 1 >= MaxAttempts THEN "failed" ELSE "queued"
<1>1. row.attempts \in Nat /\ MaxAttempts \in Nat /\ Retry \in Nat
  BY DEF FlexRows, FlexAssumption
<1>4. row.attempts + 1 \in 0 .. MaxAttempts
  BY <1>1
<1>2. CASE row.attempts + 1 >= MaxAttempts
  <2>1. Failed(row) = [row EXCEPT !.status = "failed", !.attempts = row.attempts + 1]
    BY <1>2 DEF Failed
  <2> QED  BY <1>2, <1>4, <2>1 DEF FlexRows
<1>3. CASE ~(row.attempts + 1 >= MaxAttempts)
  <2>1. Failed(row) = [row EXCEPT !.status = "queued", !.attempts = row.attempts + 1, !.wait = Retry]
    BY <1>3 DEF Failed
  <2> QED  BY <1>1, <1>3, <1>4, <2>1 DEF FlexRows
<1> QED  BY <1>2, <1>3

LEMMA DeferredIs ==
  ASSUME NEW row \in FlexRows, NEW delay \in Nat
  PROVE  /\ Deferred(row, delay) \in FlexRows
         /\ Deferred(row, delay).kind = row.kind /\ Deferred(row, delay).token = row.token
         /\ Deferred(row, delay).parent = row.parent /\ Deferred(row, delay).checks = row.checks
         /\ Deferred(row, delay).attempts = row.attempts
         /\ Deferred(row, delay).status = "queued"
BY DEF Deferred, FlexRows

\* A job that fails, with or without one more answer "not ready".
LEMMA FailingKeeps ==
  ASSUME FlexAssumption, FlexInv, pc \notin {"idle", "down", "finishing"}, Finish(Failed(jobs[job])),
         misses' \in {misses, [misses EXCEPT ![job] = @ + 1]}, UNCHANGED <<active, left, synced>>
  PROVE  FlexInv'
<1>1. /\ job \in 1 .. Len(jobs) /\ jobs[job] \in FlexRows
      /\ jobs[job].attempts < MaxAttempts /\ misses[job] <= jobs[job].checks + jobs[job].attempts
  BY RowIs
<1>2. misses[job] \in Nat /\ misses \in [Ids -> Nat] /\ job \in Ids
  BY <1>1, IdsSuffice DEF FlexInv, FlexTyped
<1>3. jobs[job].checks \in Nat /\ jobs[job].attempts \in Nat /\ MaxAttempts \in Nat
  BY <1>1 DEF FlexRows, FlexAssumption
<1>4. PICK m \in Nat : /\ misses' = [misses EXCEPT ![job] = m]
                       /\ m <= jobs[job].checks + (jobs[job].attempts + 1)
  <2>1. CASE misses' = misses
    <3>1. misses' = [misses EXCEPT ![job] = misses[job]]
      BY <1>2, <2>1
    <3>2. misses[job] <= jobs[job].checks + (jobs[job].attempts + 1)
      BY <1>1, <1>2, <1>3, OneMore
    <3> QED  BY <1>2, <3>1, <3>2
  <2>2. CASE misses' = [misses EXCEPT ![job] = @ + 1]
    <3>1. misses[job] + 1 \in Nat /\ misses[job] + 1 <= jobs[job].checks + (jobs[job].attempts + 1)
      BY <1>1, <1>2, <1>3, OneMore
    <3> QED  BY <2>2, <3>1
  <2> QED  BY <2>1, <2>2
<1> DEFINE row == Failed(jobs[job])
<1>5. /\ row \in FlexRows /\ row.kind = jobs[job].kind /\ row.token = jobs[job].token
      /\ row.parent = jobs[job].parent /\ row.checks = jobs[job].checks
      /\ row.attempts = jobs[job].attempts + 1
      /\ row.status = IF jobs[job].attempts + 1 >= MaxAttempts THEN "failed" ELSE "queued"
  BY <1>1, FailedIs
<1>6. Finish(row)
  OBVIOUS
<1> HIDE DEF row
<1>7. row.status \in {"queued", "failed"} /\ (row.status = "queued" => row.attempts < MaxAttempts)
  BY <1>3, <1>5
<1> QED  BY <1>4, <1>5, <1>6, <1>7, FinishKeeps

\* A job that is put off.
LEMMA DeferringKeeps ==
  ASSUME FlexAssumption, FlexInv, pc \notin {"idle", "down", "finishing"}, NEW delay \in Nat,
         Finish(Deferred(jobs[job], delay)), UNCHANGED <<active, left, misses, synced>>
  PROVE  FlexInv'
<1>1. /\ job \in 1 .. Len(jobs) /\ jobs[job] \in FlexRows
      /\ jobs[job].attempts < MaxAttempts /\ misses[job] <= jobs[job].checks + jobs[job].attempts
  BY RowIs
<1>2. misses[job] \in Nat /\ misses' = [misses EXCEPT ![job] = misses[job]]
  BY <1>1, IdsSuffice DEF FlexInv, FlexTyped
<1> DEFINE row == Deferred(jobs[job], delay)
<1>3. /\ row \in FlexRows /\ row.kind = jobs[job].kind /\ row.token = jobs[job].token
      /\ row.parent = jobs[job].parent /\ row.checks = jobs[job].checks
      /\ row.attempts = jobs[job].attempts /\ row.status = "queued"
  BY <1>1, DeferredIs
<1>4. Finish(row)
  OBVIOUS
<1> HIDE DEF row
<1> QED  BY <1>1, <1>2, <1>3, <1>4, FinishKeeps

\* A statement that is not ready.
LEMMA NotReadyKeeps ==
  ASSUME FlexAssumption, FlexInv, AnswerNotReady
  PROVE  FlexInv'
<1>1. /\ pc = "calling" /\ jobs[job].kind = "fetch" /\ Finish(AfterMiss(jobs[job]))
      /\ misses' = [misses EXCEPT ![job] = @ + 1] /\ UNCHANGED <<active, left, synced>>
  BY DEF AnswerNotReady
<1>2. /\ job \in 1 .. Len(jobs) /\ jobs[job] \in FlexRows
      /\ jobs[job].attempts < MaxAttempts /\ misses[job] <= jobs[job].checks + jobs[job].attempts
  BY <1>1, RowIs
<1>3. CASE jobs[job].checks + 1 >= MaxChecks
  <2>1. Finish(Failed(jobs[job]))
    BY <1>1, <1>3 DEF AfterMiss
  <2> QED  BY <1>1, <2>1, FailingKeeps
<1>4. CASE ~(jobs[job].checks + 1 >= MaxChecks)
  <2> DEFINE counted == [jobs[job] EXCEPT !.checks = @ + 1]
             row == Deferred(counted, Recheck)
  <2>1. Finish(row)
    BY <1>1, <1>4 DEF AfterMiss
  <2>2. jobs[job].checks \in 0 .. MaxChecks - 1 /\ MaxChecks \in Nat /\ jobs[job].attempts \in Nat
    BY <1>2 DEF FlexRows, FlexAssumption
  <2>3. /\ counted \in FlexRows /\ counted.kind = jobs[job].kind /\ counted.token = jobs[job].token
        /\ counted.parent = jobs[job].parent /\ counted.checks = jobs[job].checks + 1
        /\ counted.attempts = jobs[job].attempts
    <3>1. jobs[job].checks + 1 \in 0 .. MaxChecks - 1
      BY <1>4, <2>2
    <3> QED  BY <1>2, <3>1 DEF FlexRows
  <2> HIDE DEF counted
  <2>4. Recheck \in Nat
    BY DEF FlexAssumption
  <2>5. /\ row \in FlexRows /\ row.kind = jobs[job].kind /\ row.token = jobs[job].token
        /\ row.parent = jobs[job].parent /\ row.checks = jobs[job].checks + 1
        /\ row.attempts = jobs[job].attempts /\ row.status = "queued"
    BY <2>3, <2>4, DeferredIs
  <2> HIDE DEF row
  <2>6. misses[job] \in Nat
    BY <1>2, IdsSuffice DEF FlexInv, FlexTyped
  <2>7. misses[job] + 1 \in Nat /\ misses[job] + 1 <= row.checks + row.attempts
    <3>1. jobs[job].checks \in Nat
      BY <2>2
    <3> QED  BY <1>2, <2>2, <2>5, <2>6, <3>1, OneMore
  <2> QED  BY <1>1, <1>2, <2>1, <2>5, <2>7, FinishKeeps
<1> QED  BY <1>3, <1>4

LEMMA CompleteKeeps ==
  ASSUME FlexAssumption, FlexInv, Complete
  PROVE  FlexInv'
<1>1. /\ pc = "finishing" \/ (pc = "syncing" /\ todo = {})
      /\ Finish([jobs[job] EXCEPT !.status = "completed"])
      /\ UNCHANGED <<active, left, misses, synced>>
  BY DEF Complete, history
<1>2. /\ job \in 1 .. Len(jobs) /\ jobs[job] \in FlexRows
      /\ misses[job] <= jobs[job].checks + jobs[job].attempts
  BY <1>1, RowIs
<1>3. misses[job] \in Nat /\ misses' = [misses EXCEPT ![job] = misses[job]]
  BY <1>1, <1>2, IdsSuffice DEF FlexInv, FlexTyped
<1> DEFINE row == [jobs[job] EXCEPT !.status = "completed"]
<1>4. /\ row \in FlexRows /\ row.kind = jobs[job].kind /\ row.token = jobs[job].token
      /\ row.parent = jobs[job].parent /\ row.checks = jobs[job].checks
      /\ row.attempts = jobs[job].attempts /\ row.status = "completed"
  BY <1>2 DEF FlexRows
<1>5. Finish(row)
  BY <1>1
<1> HIDE DEF row
<1> QED  BY <1>1, <1>2, <1>3, <1>4, <1>5, FinishKeeps

-----------------------------------------------------------------------------
(* The steps that enqueue. *)

\* A row a step adds: a sync, or a child of the job at hand.
Added(row, holder) ==
  /\ row.status = "queued" /\ row.attempts = 0 /\ row.checks = 0
  /\ \/ row.kind = "fan_out" /\ row.parent = 0
     \/ /\ row.parent = holder /\ row.token \in Tokens
        /\ \/ row.kind = "initiate" /\ jobs[holder].kind = "fan_out"
           \/ row.kind = "fetch" /\ jobs[holder].kind = "initiate" /\ jobs[holder].token = row.token

LEMMA EnqueueKeeps ==
  ASSUME FlexAssumption, FlexInv,
         jobs' \in Seq(FlexRows), Len(jobs') >= Len(jobs),
         \A i \in 1 .. Len(jobs) : jobs'[i] = jobs[i],
         \A i \in 1 .. Len(jobs') : i > Len(jobs) => Added(jobs'[i], job),
         \A i, k \in 1 .. Len(jobs') :
           i > Len(jobs) /\ k > Len(jobs) /\ jobs'[i].token = jobs'[k].token
             /\ jobs'[i].parent = jobs'[k].parent /\ jobs'[i].parent # 0 => i = k,
         FewSyncs(jobs'), job' = job,
         \/ pc' = pc /\ \A i \in 1 .. Len(jobs') : i > Len(jobs) => jobs'[i].kind = "fan_out"
         \/ /\ pc \in {"claimed", "accepted"} /\ pc' = "finishing" /\ jobs[job].kind # "fetch"
            /\ jobs[job].kind = "initiate" =>
                 \E i \in 1 .. Len(jobs') : i > Len(jobs) /\ jobs'[i].kind = "fetch"
                                            /\ jobs'[i].parent = job,
         UNCHANGED <<active, left, todo, misses, synced>>
  PROVE  FlexInv'
<1>0. Len(jobs) \in Nat /\ 1 .. Len(jobs) \subseteq Ids /\ Len(jobs') \in Nat
  BY IdsSuffice, LenProperties
<1>old. 1 .. Len(jobs) \subseteq 1 .. Len(jobs')
  BY <1>0
<1>split. ASSUME NEW n \in 1 .. Len(jobs'), ~(n > Len(jobs))
          PROVE  n \in 1 .. Len(jobs) /\ jobs'[n] = jobs[n]
  <2>1. n \in 1 .. Len(jobs)
    BY <1>0, <1>split
  <2> QED  BY <2>1
<1>new. ASSUME NEW n \in 1 .. Len(jobs'), n > Len(jobs)
        PROVE  /\ Added(jobs'[n], job) /\ jobs'[n].status = "queued"
               /\ jobs'[n].parent # 0 => jobs'[n].kind # "fan_out"
               /\ jobs'[n].kind \in {"fan_out", "initiate", "fetch"}
  <2>1. Added(jobs'[n], job)
    BY <1>new
  <2> QED  BY <2>1 DEF Added
<1>1. /\ pc \notin {"idle", "down"} => job \in 1 .. Len(jobs) /\ jobs[job].status = "running"
      /\ pc \in {"idle", "down"} => job = 0
  BY DEF FlexInv, Holding
<1>2. pc \in {"claimed", "accepted"} =>
        \A i \in 1 .. Len(jobs) : jobs[i].parent # 0 => jobs[i].parent # job
  BY <1>1 DEF FlexInv, Parents
<1>3. \A i \in 1 .. Len(jobs') : i > Len(jobs) /\ jobs'[i].kind # "fan_out" =>
        /\ pc \in {"claimed", "accepted"} /\ pc' = "finishing"
        /\ jobs'[i].parent = job /\ job \in 1 .. Len(jobs)
  BY <1>1 DEF Added
<1>4. \A i \in 1 .. Len(jobs) : jobs[i].kind # "fan_out" => jobs[i].parent \in 1 .. Len(jobs)
  BY DEF FlexInv, Family
<1>5. \A i \in 1 .. Len(jobs) : jobs[i].kind = "fan_out" => jobs[i].parent = 0
  BY DEF FlexInv, Family
<1>6. Family(jobs')
  <2>1. ASSUME NEW j \in 1 .. Len(jobs')
        PROVE  LET row == jobs'[j] IN
               /\ row.kind = "fan_out" => row.parent = 0
               /\ row.kind # "fan_out" => row.token \in Tokens /\ row.parent \in 1 .. Len(jobs')
               /\ row.kind = "initiate" => jobs'[row.parent].kind = "fan_out"
               /\ row.kind = "fetch" => /\ jobs'[row.parent].kind = "initiate"
                                        /\ jobs'[row.parent].token = row.token
    <3>1. CASE j > Len(jobs)
      <4>1. Added(jobs'[j], job)
        BY <3>1
      <4>2. CASE jobs'[j].kind = "fan_out"
        BY <1>0, <1>3, <3>1, <4>1, <4>2 DEF Added
      <4>3. CASE jobs'[j].kind # "fan_out"
        <5>1. job \in 1 .. Len(jobs) /\ jobs'[job] = jobs[job] /\ job \in 1 .. Len(jobs')
          <6>1. job \in 1 .. Len(jobs)
            BY <1>3, <3>1, <4>3
          <6> QED  BY <1>old, <6>1
        <5> QED  BY <4>1, <4>3, <5>1 DEF Added
      <4> QED  BY <4>2, <4>3
    <3>2. CASE ~(j > Len(jobs))
      <4>1. j \in 1 .. Len(jobs) /\ jobs'[j] = jobs[j]
        BY <1>0, <3>2, SMTT(30)
      <4>2. /\ jobs[j].kind = "fan_out" => jobs[j].parent = 0
            /\ jobs[j].kind # "fan_out" =>
                 /\ jobs[j].token \in Tokens /\ jobs[j].parent \in 1 .. Len(jobs)
                 /\ jobs[j].parent \in 1 .. Len(jobs')
                 /\ jobs'[jobs[j].parent] = jobs[jobs[j].parent]
        <5>1. jobs[j].kind = "fan_out" => jobs[j].parent = 0
          BY <1>5, <4>1
        <5>2. jobs[j].kind # "fan_out" => jobs[j].token \in Tokens /\ jobs[j].parent \in 1 .. Len(jobs)
          BY <4>1 DEF FlexInv, Family
        <5> QED  BY <1>old, <5>1, <5>2
      <4>3. /\ jobs[j].kind = "initiate" => jobs[jobs[j].parent].kind = "fan_out"
            /\ jobs[j].kind = "fetch" => /\ jobs[jobs[j].parent].kind = "initiate"
                                         /\ jobs[jobs[j].parent].token = jobs[j].token
        BY <4>1 DEF FlexInv, Family
      <4> QED  BY <4>1, <4>2, <4>3
    <3> QED  BY <3>1, <3>2
  <2>2. ASSUME NEW i \in 1 .. Len(jobs'), NEW k \in 1 .. Len(jobs'),
               jobs'[i].parent = jobs'[k].parent, jobs'[i].parent # 0, jobs'[i].token = jobs'[k].token
        PROVE  i = k
    <3>0. \A n \in 1 .. Len(jobs') :
            /\ ~(n > Len(jobs)) => n \in 1 .. Len(jobs) /\ jobs'[n] = jobs[n]
            /\ n > Len(jobs) /\ jobs'[n].parent # 0 => jobs'[n].kind # "fan_out"
      BY <1>split, <1>new
    <3>1. CASE i > Len(jobs) /\ k > Len(jobs)
      BY <2>2, <3>1
    <3>2. CASE ~(i > Len(jobs)) /\ ~(k > Len(jobs))
      <4>1. i \in 1 .. Len(jobs) /\ jobs'[i] = jobs[i] /\ k \in 1 .. Len(jobs) /\ jobs'[k] = jobs[k]
        BY <3>0, <3>2
      <4>2. jobs[i].parent = jobs[k].parent /\ jobs[i].parent # 0 /\ jobs[i].token = jobs[k].token
        BY <2>2, <4>1
      <4> QED  BY <4>1, <4>2 DEF FlexInv, Family
    <3>3. CASE i > Len(jobs) /\ ~(k > Len(jobs))
      BY <1>2, <1>3, <2>2, <3>0, <3>3
    <3>4. CASE ~(i > Len(jobs)) /\ k > Len(jobs)
      BY <1>2, <1>3, <2>2, <3>0, <3>4
    <3> QED  BY <3>1, <3>2, <3>3, <3>4
  <2> QED  BY <2>1, <2>2 DEF Family
<1>7. Len(jobs') <= MaxJobs /\ 1 .. Len(jobs') \subseteq Ids
  <2>1. Len(jobs') <= MaxJobs
    BY <1>6, TableFits
  <2>2. MaxJobs \in Nat
    BY MaxJobsIsNat
  <2> QED  BY <1>0, <2>1, <2>2, SMTT(30) DEF Ids
<1>8. FlexTyped'
  BY DEF FlexInv, FlexTyped, Phases
<1>9. Holding'
  <2>1. job \in 1 .. Len(jobs) => jobs'[job] = jobs[job] /\ job \in 1 .. Len(jobs')
    BY <1>old
  <2>2. CASE pc' = pc
    BY <1>1, <2>1, <2>2 DEF FlexInv, Holding
  <2>3. CASE pc' = "finishing" /\ pc \in {"claimed", "accepted"} /\ jobs[job].kind # "fetch"
    BY <1>1, <2>1, <2>3 DEF Holding
  <2> QED  BY <2>2, <2>3
<1>10. Charged'
  <2>1. ASSUME NEW j \in 1 .. Len(jobs')
        PROVE  /\ jobs'[j].status \in {"queued", "running"} => jobs'[j].attempts < MaxAttempts
               /\ misses'[j] <= jobs'[j].checks + jobs'[j].attempts
    <3>1. CASE j > Len(jobs)
      <4>1. misses[j] = 0
        BY <1>7, <3>1 DEF FlexInv, Charged
      <4>2. MaxAttempts \in Nat /\ MaxAttempts > 0
        BY SMTT(30) DEF FlexAssumption
      <4> QED  BY <3>1, <4>1, <4>2 DEF Added
    <3>2. CASE ~(j > Len(jobs))
      <4>1. j \in 1 .. Len(jobs) /\ jobs'[j] = jobs[j]
        BY <1>0, <3>2, SMTT(30)
      <4> QED  BY <4>1 DEF FlexInv, Charged
    <3> QED  BY <3>1, <3>2
  <2>2. \A j \in Ids : j > Len(jobs') => misses'[j] = 0
    <3>1. \A j \in Ids : j > Len(jobs') => j > Len(jobs)
      BY <1>0 DEF Ids
    <3> QED  BY <3>1 DEF FlexInv, Charged
  <2> QED  BY <2>1, <2>2 DEF Charged
<1>11. Covered'
  <2>1. \A j \in 1 .. Len(jobs') : jobs'[j].status = "completed" =>
          j \in 1 .. Len(jobs) /\ jobs'[j] = jobs[j]
    BY <1>split, <1>new
  <2>2. pc' = "syncing" => pc = "syncing"
    OBVIOUS
  <2> QED  BY <2>1, <2>2 DEF FlexInv, Covered
<1>12. Parents'
  <2>1. ASSUME NEW j \in 1 .. Len(jobs'), jobs'[j].parent # 0
        PROVE  LET p == jobs'[j].parent IN
               \/ jobs'[p].status = "completed"
               \/ jobs'[p].status = "running" /\ (p = job' => pc' = "finishing")
    <3>1. CASE j > Len(jobs)
      <4>1. jobs'[j].kind # "fan_out"
        BY <2>1, <3>1 DEF Added
      <4>2. jobs'[j].parent = job /\ job \in 1 .. Len(jobs) /\ pc' = "finishing"
            /\ jobs[job].status = "running" /\ jobs'[job] = jobs[job]
        BY <1>1, <1>3, <3>1, <4>1
      <4> QED  BY <4>2
    <3>2. CASE ~(j > Len(jobs))
      <4>1. j \in 1 .. Len(jobs) /\ jobs'[j] = jobs[j]
        BY <1>0, <3>2, SMTT(30)
      <4>2. jobs[j].parent \in 1 .. Len(jobs)
        BY <1>4, <1>5, <2>1, <4>1
      <4>3. \/ jobs[jobs[j].parent].status = "completed"
            \/ /\ jobs[jobs[j].parent].status = "running"
               /\ jobs[j].parent = job => pc = "finishing"
        BY <2>1, <4>1 DEF FlexInv, Parents
      <4>4. pc = "finishing" => pc' = "finishing"
        OBVIOUS
      <4>5. jobs'[jobs[j].parent] = jobs[jobs[j].parent]
        BY <4>2
      <4> QED  BY <4>1, <4>3, <4>4, <4>5
    <3> QED  BY <3>1, <3>2
  <2>2. ASSUME NEW p \in 1 .. Len(jobs'), jobs'[p].kind = "initiate",
               jobs'[p].status = "completed" \/ (p = job' /\ pc' = "finishing")
        PROVE  \E i \in 1 .. Len(jobs') : jobs'[i].kind = "fetch" /\ jobs'[i].parent = p
    <3>1. p \in 1 .. Len(jobs) /\ jobs'[p] = jobs[p]
      <4>1. CASE p = job' /\ pc' = "finishing"
        <5>1. job \in 1 .. Len(jobs)
          BY <1>1, <4>1
        <5> QED  BY <4>1, <5>1
      <4>2. CASE jobs'[p].status = "completed"
        BY <1>split, <1>new, <4>2
      <4> QED  BY <2>2, <4>1, <4>2
    <3>2. CASE p = job /\ pc' = "finishing" /\ pc # "finishing"
      BY <2>2, <3>1, <3>2
    <3>3. CASE jobs[p].status = "completed" \/ (p = job /\ pc = "finishing")
      <4>1. PICK i \in 1 .. Len(jobs) : jobs[i].kind = "fetch" /\ jobs[i].parent = p
        BY <2>2, <3>1, <3>3 DEF FlexInv, Parents
      <4>2. i \in 1 .. Len(jobs') /\ jobs'[i] = jobs[i]
        BY <1>old
      <4> QED  BY <4>1, <4>2
    <3> QED  BY <2>2, <3>1, <3>2, <3>3
  <2> QED  BY <2>1, <2>2 DEF Parents
<1> QED  BY <1>6, <1>8, <1>9, <1>10, <1>11, <1>12 DEF FlexInv


LEMMA ListedOnce ==
  ASSUME NEW S, IsFiniteSet(S)
  PROVE  /\ Cardinality(S) \in Nat
         /\ SetToSeq(S) \in [1 .. Cardinality(S) -> S]
         /\ \A i, k \in 1 .. Cardinality(S) : SetToSeq(S)[i] = SetToSeq(S)[k] => i = k
<1>1. Cardinality(S) \in Nat /\ ExistsBijection(1 .. Cardinality(S), S)
  BY FS_CardinalityType
<1>2. PICK f \in [1 .. Cardinality(S) -> S] : IsInjective(f)
  BY <1>1 DEF ExistsBijection, Bijection, Injection
<1>3. SetToSeq(S) \in [1 .. Cardinality(S) -> S] /\ IsInjective(SetToSeq(S))
  BY <1>2 DEF SetToSeq
<1> QED  BY <1>1, <1>3 DEF IsInjective

\* The counts of a new row are within bounds.
LEMMA ZeroFits == FlexAssumption => 0 \in 0 .. MaxAttempts /\ 0 \in 0 .. MaxChecks - 1
BY DEF FlexAssumption

\* A table with one row more.
LEMMA OneRowMore ==
  ASSUME FlexInv, NEW row \in FlexRows, jobs' = Append(jobs, row)
  PROVE  /\ jobs' \in Seq(FlexRows) /\ Len(jobs) \in Nat /\ Len(jobs') = Len(jobs) + 1
         /\ \A i \in 1 .. Len(jobs) : jobs'[i] = jobs[i]
         /\ \A i \in 1 .. Len(jobs') : i > Len(jobs) => i = Len(jobs) + 1 /\ jobs'[i] = row
<1>1. jobs \in Seq(FlexRows) /\ Len(jobs) \in Nat
  BY LenProperties DEF FlexInv, FlexTyped
<1>2. /\ jobs' \in Seq(FlexRows) /\ Len(jobs') = Len(jobs) + 1
      /\ \A i \in 1 .. Len(jobs) : jobs'[i] = jobs[i]
      /\ jobs'[Len(jobs) + 1] = row
  BY <1>1
<1>3. ASSUME NEW i \in 1 .. Len(jobs'), i > Len(jobs)
      PROVE  i = Len(jobs) + 1
  BY <1>1, <1>2, <1>3
<1> QED  BY <1>1, <1>2, <1>3

LEMMA RequestKeeps ==
  ASSUME FlexAssumption, FlexInv, RequestSync
  PROVE  FlexInv'
<1> DEFINE row == NewJob("fan_out", "none", 0, 0)
<1>1. /\ jobs' = Append(jobs, row) /\ UNCHANGED <<active, left, pc, job, todo, misses, synced>>
      /\ Cardinality({j \in DOMAIN jobs : jobs[j].kind = "fan_out"}) < MaxSyncs
  BY DEF RequestSync, worker, history
<1>2. /\ row \in FlexRows /\ row.kind = "fan_out" /\ row.parent = 0
      /\ row.status = "queued" /\ row.attempts = 0 /\ row.checks = 0
  BY ZeroFits DEF NewJob, FlexRows, Kinds
<1> HIDE DEF row
<1>3. /\ jobs' \in Seq(FlexRows) /\ Len(jobs) \in Nat /\ Len(jobs') = Len(jobs) + 1
      /\ \A i \in 1 .. Len(jobs) : jobs'[i] = jobs[i]
      /\ \A i \in 1 .. Len(jobs') : i > Len(jobs) => i = Len(jobs) + 1 /\ jobs'[i] = row
  BY <1>1, <1>2, OneRowMore
<1>4. FewSyncs(jobs')
  <2> DEFINE old == Of(jobs, "fan_out")
             new == Len(jobs) + 1
  <2>1. DOMAIN jobs = 1 .. Len(jobs)
    BY IdsSuffice
  <2>2. Cardinality(old) < MaxSyncs
    BY <1>1, <2>1 DEF Of
  <2>3. 1 .. Len(jobs') = (1 .. Len(jobs)) \cup {new} /\ new \notin 1 .. Len(jobs)
    BY <1>3, SMTT(30)
  <2>4. Of(jobs', "fan_out") = old \cup {new}
    <3>1. ASSUME NEW i \in 1 .. Len(jobs)
          PROVE  jobs'[i].kind = jobs[i].kind
      BY <1>3
    <3>2. jobs'[new].kind = "fan_out" /\ new \in 1 .. Len(jobs')
      <4>1. new \in 1 .. Len(jobs') /\ new > Len(jobs)
        BY <1>3, <2>3
      <4>2. jobs'[new] = row
        BY <1>3, <4>1
      <4> QED  BY <1>2, <4>1, <4>2
    <3> HIDE DEF new
    <3> QED  BY <2>3, <3>1, <3>2 DEF Of
  <2>5. IsFiniteSet(old)
    <3>1. IsFiniteSet(1 .. Len(jobs))
      BY <1>3, FS_Interval
    <3> QED  BY <3>1, FS_Subset DEF Of
  <2>6. Cardinality(old) \in Nat
    BY <2>5, FS_CardinalityType
  <2>7. Cardinality(old \cup {new}) = Cardinality(old) + 1
    BY <2>3, <2>5, FS_AddElement DEF Of
  <2>8. MaxSyncs \in Nat
    BY DEF FlexAssumption
  <2>9. Cardinality(Of(jobs', "fan_out")) = Cardinality(old) + 1
    BY <2>4, <2>7
  <2> HIDE DEF old, new
  <2> QED  BY <2>2, <2>6, <2>8, <2>9 DEF FewSyncs
<1>5. \A i \in 1 .. Len(jobs') : i > Len(jobs) => Added(jobs'[i], job) /\ jobs'[i].kind = "fan_out"
  BY <1>2, <1>3 DEF Added
<1>6. Len(jobs') >= Len(jobs)
  BY <1>3
<1> QED  BY <1>1, <1>2, <1>3, <1>4, <1>5, <1>6, EnqueueKeeps

\* Children change no number of syncs.
LEMMA ChildrenAreNoSyncs ==
  ASSUME FlexInv, Len(jobs) \in Nat, Len(jobs') \in Nat, Len(jobs') >= Len(jobs),
         \A i \in 1 .. Len(jobs) : jobs'[i] = jobs[i],
         \A i \in 1 .. Len(jobs') : i > Len(jobs) => jobs'[i].kind # "fan_out"
  PROVE  FewSyncs(jobs')
<1>1. \A i \in 1 .. Len(jobs') : i > Len(jobs) \/ i \in 1 .. Len(jobs)
  OBVIOUS
<1>2. 1 .. Len(jobs) \subseteq 1 .. Len(jobs')
  OBVIOUS
<1>3. Of(jobs', "fan_out") = Of(jobs, "fan_out")
  BY <1>1, <1>2 DEF Of
<1> QED  BY <1>3 DEF FlexInv, FewSyncs

LEMMA FetchKeeps ==
  ASSUME FlexAssumption, FlexInv, EnqueueFetch
  PROVE  FlexInv'
<1> DEFINE row == NewJob("fetch", Mine, job, FirstCheck)
<1>1. /\ jobs' = Append(jobs, row) /\ pc = "accepted" /\ pc' = "finishing"
      /\ UNCHANGED <<active, left, job, todo, misses, synced>>
  BY DEF EnqueueFetch, history
<1>2. job \in 1 .. Len(jobs) /\ jobs[job].kind = "initiate" /\ Mine = jobs[job].token
  BY <1>1 DEF FlexInv, Holding, Mine
<1>3. Mine \in Tokens /\ job \in Nat /\ FirstCheck \in Nat
  BY <1>2, IdsSuffice DEF FlexInv, Family, FlexAssumption
<1>4. /\ row \in FlexRows /\ row.kind = "fetch" /\ row.parent = job /\ row.token = Mine
      /\ row.status = "queued" /\ row.attempts = 0 /\ row.checks = 0
  <2> DEFINE t == Mine
  <2>1. t \in Tokens \cup {"none"} /\ row = NewJob("fetch", t, job, FirstCheck)
    BY <1>3
  <2> HIDE DEF t, row
  <2>2. /\ row \in FlexRows /\ row.kind = "fetch" /\ row.parent = job /\ row.token = t
        /\ row.status = "queued" /\ row.attempts = 0 /\ row.checks = 0
    BY <1>3, <2>1, ZeroFits DEF NewJob, FlexRows, Kinds
  <2> QED  BY <2>2 DEF t
<1> HIDE DEF row
<1>5. /\ jobs' \in Seq(FlexRows) /\ Len(jobs) \in Nat /\ Len(jobs') = Len(jobs) + 1
      /\ \A i \in 1 .. Len(jobs) : jobs'[i] = jobs[i]
      /\ \A i \in 1 .. Len(jobs') : i > Len(jobs) => i = Len(jobs) + 1 /\ jobs'[i] = row
  BY <1>1, <1>4, OneRowMore
<1>6. Len(jobs') >= Len(jobs) /\ Len(jobs') \in Nat /\ Len(jobs) + 1 \in 1 .. Len(jobs')
      /\ Len(jobs) + 1 > Len(jobs)
  BY <1>5
<1>7. \A i \in 1 .. Len(jobs') : i > Len(jobs) => Added(jobs'[i], job) /\ jobs'[i].kind # "fan_out"
  BY <1>2, <1>3, <1>4, <1>5 DEF Added
<1>8. FewSyncs(jobs')
  BY <1>5, <1>6, <1>7, ChildrenAreNoSyncs
<1>9. \E i \in 1 .. Len(jobs') : i > Len(jobs) /\ jobs'[i].kind = "fetch" /\ jobs'[i].parent = job
  BY <1>4, <1>5, <1>6
<1>10. /\ pc \in {"claimed", "accepted"} /\ pc' = "finishing" /\ jobs[job].kind # "fetch"
       /\ jobs[job].kind = "initiate" =>
            \E i \in 1 .. Len(jobs') : i > Len(jobs) /\ jobs'[i].kind = "fetch"
                                       /\ jobs'[i].parent = job
  BY <1>1, <1>2, <1>9
<1>11. \A i, k \in 1 .. Len(jobs') : i > Len(jobs) /\ k > Len(jobs) => i = k
  BY <1>5
<1> QED  BY <1>1, <1>5, <1>6, <1>7, <1>8, <1>10, <1>11, EnqueueKeeps

\* The children of a fan-out: an initiate job per active token.
LEMMA ChildrenAre ==
  ASSUME FlexAssumption, FlexInv, FanOut, active # {}
  PROVE  \E new \in Seq(FlexRows) :
           /\ jobs' = jobs \o new /\ pc' = "finishing" /\ UNCHANGED <<job, todo>>
           /\ \A i \in 1 .. Len(new) :
                /\ new[i].kind = "initiate" /\ new[i].parent = job /\ new[i].token \in Tokens
                /\ new[i].status = "queued" /\ new[i].attempts = 0 /\ new[i].checks = 0
           /\ \A i, k \in 1 .. Len(new) : new[i].token = new[k].token => i = k
<1> DEFINE order == SetToSeq(active)
           new == [i \in DOMAIN order |-> NewJob("initiate", order[i], job, 0)]
           n == Cardinality(active)
<1>1. jobs' = jobs \o new /\ pc' = "finishing" /\ UNCHANGED <<job, todo>>
  BY DEF FanOut
<1>2. IsFiniteSet(active) /\ active \subseteq Tokens
  BY FS_Subset DEF FlexAssumption, FlexInv, FlexTyped
<1>3. /\ n \in Nat /\ order \in [1 .. n -> active]
      /\ \A i, k \in 1 .. n : order[i] = order[k] => i = k
  BY <1>2, ListedOnce
<1> HIDE DEF order, n
<1>4. job \in 1 .. Len(jobs) /\ jobs \in Seq(FlexRows) /\ Len(jobs) \in Nat
  BY IdsSuffice DEF FanOut, FlexInv, Holding, FlexTyped
<1>5. ASSUME NEW i \in 1 .. n
      PROVE  /\ new[i] \in FlexRows /\ new[i].kind = "initiate" /\ new[i].parent = job
             /\ new[i].token = order[i] /\ order[i] \in Tokens
             /\ new[i].status = "queued" /\ new[i].attempts = 0 /\ new[i].checks = 0
  <2> DEFINE t == order[i]
  <2>1. t \in Tokens /\ job \in Nat /\ i \in DOMAIN order
    BY <1>2, <1>3, <1>4
  <2>2. new[i] = NewJob("initiate", t, job, 0)
    BY <2>1
  <2> DEFINE row == new[i]
  <2>4. row = NewJob("initiate", t, job, 0)
    BY <2>2
  <2> HIDE DEF new, t, row
  <2>5. /\ row \in FlexRows /\ row.kind = "initiate" /\ row.parent = job /\ row.token = t
        /\ row.status = "queued" /\ row.attempts = 0 /\ row.checks = 0
    BY <2>1, <2>4, ZeroFits DEF NewJob, FlexRows, Kinds
  <2> QED  BY <2>1, <2>5 DEF row, t
<1>6. DOMAIN new = 1 .. n
  BY <1>3
<1> HIDE DEF new, order, n
<1>7. new \in Seq(FlexRows) /\ Len(new) = n
  <2>1. new \in [1 .. n -> FlexRows]
    BY <1>5, <1>6 DEF new
  <2> QED  BY <1>3, <2>1
<1>8. DOMAIN new = 1 .. n /\ \A i \in 1 .. n : new[i].token = order[i]
  BY <1>5, <1>6
<1>9. \A i, k \in 1 .. n : new[i].token = new[k].token => i = k
  BY <1>3, <1>8
<1>10. \A i \in 1 .. n :
         /\ new[i].kind = "initiate" /\ new[i].parent = job /\ new[i].token \in Tokens
         /\ new[i].status = "queued" /\ new[i].attempts = 0 /\ new[i].checks = 0
  BY <1>5
<1> QED  BY <1>1, <1>7, <1>9, <1>10

LEMMA PastTheEnd ==
  ASSUME NEW l \in Nat, NEW n \in Nat
  PROVE  \A i \in 1 .. (l + n) : i > l => i - l \in 1 .. n
OBVIOUS

LEMMA FanOutKeeps ==
  ASSUME FlexAssumption, FlexInv, FanOut
  PROVE  FlexInv'
<1>1. /\ pc = "claimed" /\ jobs[job].kind = "fan_out" /\ UNCHANGED <<active, left, misses, synced>>
  BY DEF FanOut, history
<1>2. CASE active = {}
  <2>1. Finish(Failed(jobs[job]))
    BY <1>2 DEF FanOut
  <2> QED  BY <1>1, <2>1, FailingKeeps
<1>3. CASE active # {}
  <2>1. PICK new \in Seq(FlexRows) :
          /\ jobs' = jobs \o new /\ pc' = "finishing" /\ UNCHANGED <<job, todo>>
          /\ \A i \in 1 .. Len(new) :
               /\ new[i].kind = "initiate" /\ new[i].parent = job /\ new[i].token \in Tokens
               /\ new[i].status = "queued" /\ new[i].attempts = 0 /\ new[i].checks = 0
          /\ \A i, k \in 1 .. Len(new) : new[i].token = new[k].token => i = k
    BY <1>3, ChildrenAre
  <2> DEFINE n == Len(new)
  <2>3. n \in Nat
    BY LenProperties
  <2>4. job \in 1 .. Len(jobs) /\ jobs \in Seq(FlexRows) /\ Len(jobs) \in Nat
    BY <1>1, IdsSuffice DEF FlexInv, Holding, FlexTyped
  <2> HIDE DEF n
  <2>8. /\ jobs' \in Seq(FlexRows) /\ Len(jobs') = Len(jobs) + n
        /\ \A i \in 1 .. Len(jobs) : jobs'[i] = jobs[i]
        /\ \A i \in 1 .. Len(jobs') : i > Len(jobs) => jobs'[i] = new[i - Len(jobs)]
    BY <2>1, <2>3, <2>4, ConcatProperties DEF n
  <2>7. Len(jobs') = Len(jobs) + n /\ Len(jobs) \in Nat /\ n \in Nat
    BY <2>3, <2>4, <2>8
  <2>9. \A i \in 1 .. Len(jobs') : i > Len(jobs) => i - Len(jobs) \in 1 .. n
    BY <2>7, PastTheEnd
  <2>10. Len(jobs') >= Len(jobs) /\ Len(jobs') \in Nat
    BY <2>7
  <2>11. ASSUME NEW i \in 1 .. Len(jobs'), i > Len(jobs)
         PROVE  /\ Added(jobs'[i], job) /\ jobs'[i].kind = "initiate"
                /\ jobs'[i].token = new[i - Len(jobs)].token
    <3>1. jobs'[i] = new[i - Len(jobs)] /\ i - Len(jobs) \in 1 .. n
      BY <2>8, <2>9, <2>11
    <3> QED  BY <1>1, <2>1, <3>1 DEF Added, n
  <2>12. FewSyncs(jobs')
    BY <2>4, <2>8, <2>10, <2>11, ChildrenAreNoSyncs
  <2>13. ASSUME NEW i \in 1 .. Len(jobs'), NEW k \in 1 .. Len(jobs'),
                i > Len(jobs), k > Len(jobs), jobs'[i].token = jobs'[k].token
         PROVE  i = k
    <3>1. i - Len(jobs) \in 1 .. Len(new) /\ k - Len(jobs) \in 1 .. Len(new)
      BY <2>9, <2>13 DEF n
    <3>2. new[i - Len(jobs)].token = new[k - Len(jobs)].token
      BY <2>11, <2>13
    <3>3. i - Len(jobs) = k - Len(jobs)
      BY <2>1, <3>1, <3>2
    <3> QED  BY <2>4, <3>3
  <2>14. /\ pc \in {"claimed", "accepted"} /\ pc' = "finishing" /\ jobs[job].kind # "fetch"
         /\ jobs[job].kind # "initiate"
    BY <1>1, <2>1
  <2> QED  BY <1>1, <2>1, <2>8, <2>10, <2>11, <2>12, <2>13, <2>14, EnqueueKeeps
<1> QED  BY <1>2, <1>3

-----------------------------------------------------------------------------
(* The steps that leave the table alone, and the whole. *)

LEMMA PauseIsNat ==
  ASSUME FlexAssumption, FlexInv, Mine \in active
  PROVE  PauseRemaining(Mine) * Second \in Nat
<1>1. left[Mine] \in Nat /\ Second \in Nat \ {0}
  BY DEF FlexInv, FlexTyped, FlexAssumption
<1> DEFINE l == left[Mine]
<1> HIDE DEF l
<1>2. l \in Nat
  BY <1>1 DEF l
<1>3. (l \div Second) * Second \in Nat
  BY <1>1, <1>2
<1> QED  BY <1>3 DEF PauseRemaining, l

LEMMA LoadKeeps ==
  ASSUME FlexAssumption, FlexInv, Load
  PROVE  FlexInv'
<1>1. pc = "claimed" /\ jobs[job].kind # "fan_out" /\ UNCHANGED <<active, left, misses, synced>>
  BY DEF Load, history
<1>2. CASE Finish(Failed(jobs[job]))
  BY <1>1, <1>2, FailingKeeps
<1>3. CASE Mine \in active /\ Finish(Deferred(jobs[job], PauseRemaining(Mine) * Second))
  <2>4. PauseRemaining(Mine) * Second \in Nat
    BY <1>3, PauseIsNat
  <2> QED  BY <1>1, <1>3, <2>4, DeferringKeeps
<1>4. CASE pc' = "calling" /\ UNCHANGED <<jobs, job, todo>>
  <2>1. Holding'
    BY <1>1, <1>4 DEF FlexInv, Holding
  <2> QED  BY <1>1, <1>4, <2>1, MovesOnKeeps DEF FlexInv, FlexTyped, Phases
<1> QED  BY <1>2, <1>3, <1>4 DEF Load

LEMMA AnswersKeep ==
  ASSUME FlexAssumption, FlexInv,
         AnswerLimited \/ AnswerNotAccepted \/ AnswerAccepted \/ AnswerReport
  PROVE  FlexInv'
<1>1. CASE AnswerLimited
  <2>1. Holding'
    BY <1>1 DEF AnswerLimited, FlexInv, Holding
  <2> QED  BY <1>1, <2>1, MovesOnKeeps DEF AnswerLimited, FlexInv, FlexTyped, Phases
<1>2. CASE AnswerNotAccepted
  <2>1. /\ pc = "calling" /\ Finish(Deferred(jobs[job], FirstCheck))
        /\ UNCHANGED <<active, left, misses, synced>>
    BY <1>2 DEF AnswerNotAccepted, history
  <2>2. FirstCheck \in Nat
    BY DEF FlexAssumption
  <2> QED  BY <2>1, <2>2, DeferringKeeps
<1>3. CASE AnswerAccepted
  <2>1. Holding'
    BY <1>3 DEF AnswerAccepted, FlexInv, Holding
  <2> QED  BY <1>3, <2>1, MovesOnKeeps DEF AnswerAccepted, history, FlexInv, FlexTyped, Phases
<1>4. CASE AnswerReport
  <2>1. Holding'
    BY <1>4 DEF AnswerReport, FlexInv, Holding
  <2>2. Accounts \ todo' = {}
    BY <1>4 DEF AnswerReport
  <2> QED  BY <1>4, <2>1, <2>2, MovesOnKeeps
           DEF AnswerReport, history, FlexInv, FlexTyped, Phases
<1> QED  BY <1>1, <1>2, <1>3, <1>4

LEMMA PauseKeeps ==
  ASSUME FlexAssumption, FlexInv, RecordPause \/ DeferPaused \/ HandlerFails
  PROVE  FlexInv'
<1>0. Pause \in Nat
  BY DEF FlexAssumption
<1>1. CASE RecordPause
  <2>1. Holding'
    BY <1>1 DEF RecordPause, FlexInv, Holding
  <2>2. left' \in [Tokens -> Nat]
    BY <1>0, <1>1 DEF RecordPause, FlexInv, FlexTyped
  <2> QED  BY <1>1, <2>1, <2>2, MovesOnKeeps DEF RecordPause, history, FlexInv, FlexTyped, Phases
<1>2. CASE DeferPaused
  <2>1. /\ pc = "paused" /\ Finish(Deferred(jobs[job], Pause))
        /\ UNCHANGED <<active, left, misses, synced>>
    BY <1>2 DEF DeferPaused, history
  <2> QED  BY <1>0, <2>1, DeferringKeeps
<1>3. CASE HandlerFails
  <2>1. /\ pc \in {"calling", "limited", "accepted", "syncing"} /\ Finish(Failed(jobs[job]))
        /\ UNCHANGED <<active, left, misses, synced>>
    BY <1>3 DEF HandlerFails
  <2> QED  BY <2>1, FailingKeeps
<1> QED  BY <1>1, <1>2, <1>3

LEMMA SyncAccountKeeps ==
  ASSUME FlexAssumption, FlexInv, SyncAccount
  PROVE  FlexInv'
<1>1. PICK a \in todo : todo' = todo \ {a} /\ synced' = [synced EXCEPT ![job] = @ \cup {a}]
  BY DEF SyncAccount
<1>2. pc = "syncing" /\ UNCHANGED <<jobs, active, left, pc, job, misses>>
  BY DEF SyncAccount
<1>3. Holding'
  BY <1>2 DEF FlexInv, Holding
<1>4. job \in Ids
  BY <1>2, IdsSuffice DEF FlexInv, Holding
<1>5. synced \in [Ids -> SUBSET Accounts] /\ a \in Accounts
  BY DEF FlexInv, FlexTyped
<1>6. synced' \in [Ids -> SUBSET Accounts] /\ \A j \in Ids : synced[j] \subseteq synced'[j]
  BY <1>1, <1>4, <1>5
<1>7. synced'[job] = synced[job] \cup {a}
  BY <1>1, <1>4, <1>5
<1>8. Accounts \ todo' \subseteq synced'[job]
  BY <1>1, <1>2, <1>7 DEF FlexInv, Covered
<1> QED  BY <1>1, <1>2, <1>3, <1>6, <1>8, MovesOnKeeps DEF FlexInv, FlexTyped, Phases

LEMMA OthersKeep ==
  ASSUME FlexAssumption, FlexInv, Crash \/ Restart \/ \E t \in Tokens : Edit(t)
  PROVE  FlexInv'
<1>1. CASE Crash
  <2>1. Holding'
    BY <1>1 DEF Crash, Holding
  <2> QED  BY <1>1, <2>1, MovesOnKeeps DEF Crash, FlexInv, FlexTyped, Phases
<1>2. CASE Restart
  <2>1. Holding'
    BY <1>2 DEF Restart, FlexInv, Holding
  <2> QED  BY <1>2, <2>1, MovesOnKeeps DEF Restart, history, FlexInv, FlexTyped, Phases
<1>3. ASSUME NEW t \in Tokens, Edit(t)
      PROVE  FlexInv'
  <2>1. UNCHANGED <<jobs, pc, job, todo, misses, synced>>
    BY <1>3 DEF Edit, worker
  <2>a. OperatorPause \in Nat /\ active \subseteq Tokens /\ left \in [Tokens -> Nat]
    BY DEF FlexInv, FlexTyped, FlexAssumption
  <2>b. left' \in {left, [left EXCEPT ![t] = OperatorPause], [left EXCEPT ![t] = 0]}
    BY <1>3 DEF Edit
  <2>c. left' \in [Tokens -> Nat]
    BY <2>a, <2>b
  <2>d. active' \in {active, active \ {t}, active \cup {t}}
    BY <1>3 DEF Edit
  <2>2. left' \in [Tokens -> Nat] /\ active' \subseteq Tokens
    BY <2>a, <2>c, <2>d
  <2>3. Holding'
    BY <2>1 DEF FlexInv, Holding
  <2>4. pc = "syncing" => Accounts \ todo \subseteq synced[job]
    BY DEF FlexInv, Covered
  <2> QED  BY <2>1, <2>2, <2>3, <2>4, MovesOnKeeps DEF FlexInv, FlexTyped, Phases
<1> QED  BY <1>1, <1>2, <1>3

LEMMA FlexStays == FlexAssumption /\ FlexInv /\ [Next]_vars => FlexInv'
<1> SUFFICES ASSUME FlexAssumption, FlexInv, [Next]_vars PROVE FlexInv'
  OBVIOUS
<1>1. CASE RequestSync
  BY <1>1, RequestKeeps
<1>2. CASE Work
  <2>1. CASE Claim
    BY <2>1, ClaimKeeps
  <2>2. CASE FanOut
    BY <2>2, FanOutKeeps
  <2>3. CASE Load
    BY <2>3, LoadKeeps
  <2>4. CASE Complete
    BY <2>4, CompleteKeeps
  <2>5. CASE HandlerFails \/ RecordPause \/ DeferPaused
    BY <2>5, PauseKeeps
  <2>6. CASE AnswerLimited \/ AnswerNotAccepted \/ AnswerAccepted \/ AnswerReport
    BY <2>6, AnswersKeep
  <2>7. CASE EnqueueFetch
    BY <2>7, FetchKeeps
  <2>8. CASE AnswerNotReady
    BY <2>8, NotReadyKeeps
  <2>9. CASE SyncAccount
    BY <2>9, SyncAccountKeeps
  <2> QED  BY <1>2, <2>1, <2>2, <2>3, <2>4, <2>5, <2>6, <2>7, <2>8, <2>9 DEF Work
<1>3. CASE Tick
  BY <1>3, TickKeeps
<1>4. CASE Crash \/ Restart \/ \E t \in Tokens : Edit(t)
  BY <1>4, OthersKeep
<1>5. CASE UNCHANGED vars
  <2>1. UNCHANGED <<jobs, active, left, pc, job, todo, misses, synced>>
    BY <1>5 DEF vars, worker, history
  <2>2. Holding'
    BY <2>1 DEF FlexInv, Holding
  <2>3. pc = "syncing" => Accounts \ todo \subseteq synced[job]
    BY DEF FlexInv, Covered
  <2> QED  BY <2>1, <2>2, <2>3, MovesOnKeeps DEF FlexInv, FlexTyped, Phases
<1> QED  BY <1>1, <1>2, <1>3, <1>4, <1>5 DEF Next

LEMMA FlexAlways == Spec => []FlexInv
<1>0. FlexAssumption
  BY FlexAssumption
<1>1. Init => FlexInv
  BY <1>0, FlexStarts
<1>2. FlexInv /\ [Next]_vars => FlexInv'
  BY <1>0, FlexStays
<1> QED  BY <1>1, <1>2, PTL DEF Spec
-----------------------------------------------------------------------------
(* What follows. *)

\* Every variable keeps its range, and the table never outgrows its bound: a
\* fan-out has a child per token and an initiate job one fetch job.
THEOREM FlexTypes == Spec => []TypeOK
<1>1. FlexAssumption
  BY FlexAssumption
<1>2. FlexInv => TypeOK
  <2> SUFFICES ASSUME FlexInv PROVE TypeOK
    OBVIOUS
  <2>1. /\ Len(jobs) \in Nat /\ DOMAIN jobs = 1 .. Len(jobs) /\ Len(jobs) <= MaxJobs
        /\ MaxJobs \in Nat /\ jobs \in Seq(FlexRows)
    BY <1>1, IdsSuffice, TableFits, MaxJobsIsNat DEF FlexInv, FlexTyped
  <2>2. ASSUME NEW j \in 1 .. Len(jobs)
        PROVE  jobs[j] \in Rows
    <3>1. jobs[j] \in FlexRows
      BY <2>1, ElementOfSeq
    <3>2. jobs[j].parent \in 0 .. MaxJobs
      BY <2>1 DEF FlexInv, Family
    <3> QED  BY <3>1, <3>2 DEF FlexRows, Rows
  <2>3. jobs \in Seq(Rows)
    <3>1. jobs \in [1 .. Len(jobs) -> Rows]
      BY <2>1, <2>2
    <3> QED  BY <2>1, <3>1
  <2>4. job \in 0 .. Len(jobs)
    BY <2>1 DEF FlexInv, FlexTyped, Phases, Holding
  <2> QED  BY <2>1, <2>3, <2>4 DEF TypeOK, FlexInv, FlexTyped, Phases
<1> QED  BY <1>1, <1>2, FlexAlways, PTL

\* However a fetch job's checks, rate limits, retries and failed syncs mix, it
\* asks for a statement that is not ready only so often (jobs.py:516-597).
THEOREM ChecksStayBounded == Spec => []ChecksBounded
<1>1. FlexAssumption
  BY FlexAssumption
<1>2. FlexInv => ChecksBounded
  <2> SUFFICES ASSUME FlexInv, NEW j \in 1 .. Len(jobs)
               PROVE  misses[j] <= MaxChecks - 1 + jobs[j].attempts /\ jobs[j].attempts <= MaxAttempts
    BY <1>1, IdsSuffice DEF ChecksBounded
  <2>1. jobs[j] \in FlexRows
    BY ElementOfSeq DEF FlexInv, FlexTyped
  <2>2. /\ jobs[j].checks \in 0 .. MaxChecks - 1 /\ jobs[j].attempts \in 0 .. MaxAttempts
        /\ MaxChecks \in Nat /\ MaxAttempts \in Nat
    BY <1>1, <2>1 DEF FlexRows, FlexAssumption
  <2>3. misses[j] <= jobs[j].checks + jobs[j].attempts /\ misses[j] \in Nat
    BY <1>1, IdsSuffice DEF FlexInv, Charged, FlexTyped
  <2> QED  BY <2>2, <2>3
<1> QED  BY <1>1, <1>2, FlexAlways, PTL

\* A completed fetch job has synced every account of its report
\* (jobs.py:580-588).
THEOREM ReportsStayCovered == Spec => []CompletedCoversReport
<1>1. FlexAssumption
  BY FlexAssumption
<1>2. FlexInv => CompletedCoversReport
  BY <1>1, IdsSuffice DEF CompletedCoversReport, FlexInv, Covered
<1> QED  BY <1>1, <1>2, FlexAlways, PTL

\* No retry of a fan-out or initiate job enqueues a second child, and a
\* completed initiate job has its fetch job (jobs.py:370-419, 422-513).
THEOREM ChildrenStaySingle == Spec => []NoDuplicateChildren
<1>1. FlexAssumption
  BY FlexAssumption
<1>2. FlexInv => NoDuplicateChildren
  <2> SUFFICES ASSUME FlexInv PROVE NoDuplicateChildren
    OBVIOUS
  <2>1. DOMAIN jobs = 1 .. Len(jobs)
    BY <1>1, IdsSuffice
  <2>2. \A i, k \in 1 .. Len(jobs) :
          jobs[i].parent = jobs[k].parent /\ jobs[i].parent # 0 /\ jobs[i].token = jobs[k].token
            => i = k
    BY DEF FlexInv, Family
  <2>3. \A p \in 1 .. Len(jobs) : jobs[p].kind = "initiate" /\ jobs[p].status = "completed"
          => \E k \in 1 .. Len(jobs) : jobs[k].kind = "fetch" /\ jobs[k].parent = p
    BY DEF FlexInv, Parents
  <2> QED  BY <2>1, <2>2, <2>3 DEF NoDuplicateChildren
<1> QED  BY <1>1, <1>2, FlexAlways, PTL

-----------------------------------------------------------------------------
(* The cooldown. *)

\* The table's pause is no shorter than the one IBKR asked for, unless that
\* one is yet to be recorded or never was.
Cooled ==
  /\ cooling \in [Tokens -> Nat]
  /\ \A t \in Tokens :
       /\ cooling[t] <= Pause
       /\ cooling[t] <= left[t] \/ (pc = "limited" /\ t = Mine) \/ t \in lost
  /\ pc = "calling" => cooling[Mine] < Second \/ Mine \in lost

LEMMA LessInOrder == \A m, n \in Nat : m <= n => Less(m) <= Less(n) /\ Less(m) <= n
BY DEF Less

\* A job that calls has a token.
LEMMA MineIs ==
  ASSUME FlexInv, pc \notin {"idle", "claimed", "finishing", "down"}
  PROVE  job \in 1 .. Len(jobs) /\ Mine = jobs[job].token /\ Mine \in Tokens
BY DEF FlexInv, Holding, Family, Mine

\* Most steps neither begin nor end a call.
LEMMA QuietKeepsCool ==
  ASSUME Cooled, pc # "limited", pc' \notin {"calling", "limited"},
         UNCHANGED <<left, cooling, lost>>
  PROVE  Cooled'
BY DEF Cooled

\* A handler that stops before it has recorded a pause loses it.
LEMMA StoppingKeepsCool ==
  ASSUME Cooled, lost' = Unrecorded, pc' \notin {"calling", "limited"},
         UNCHANGED <<left, cooling>>
  PROVE  Cooled'
BY DEF Cooled, Unrecorded

LEMMA LoadKeepsCool ==
  ASSUME FlexAssumption, FlexInv, Cooled, Load
  PROVE  Cooled'
<1>1. pc = "claimed" /\ UNCHANGED <<left, cooling, lost>>
  BY DEF Load, history
<1>2. CASE pc' = "idle"
  BY <1>1, <1>2, QuietKeepsCool
<1>3. CASE Mine \in active /\ PauseRemaining(Mine) = 0 /\ pc' = "calling" /\ UNCHANGED <<jobs, job>>
  <2>1. Mine \in Tokens /\ Mine' = Mine
    BY <1>3 DEF FlexInv, FlexTyped, Mine
  <2>2. PICK l : l = left[Mine]
    OBVIOUS
  <2>3. l \in Nat /\ Second \in Nat \ {0} /\ l \div Second = 0
    BY <1>3, <2>1, <2>2 DEF PauseRemaining, FlexInv, FlexTyped, FlexAssumption
  <2>4. l < Second
    BY <2>3
  <2>5. cooling[Mine] < Second \/ Mine \in lost
    <3>1. cooling[Mine] \in Nat /\ (cooling[Mine] <= l \/ Mine \in lost)
      BY <1>1, <2>1, <2>2 DEF Cooled
    <3> QED  BY <2>3, <2>4, <3>1
  <2> QED  BY <1>1, <1>3, <2>1, <2>5 DEF Cooled
<1> QED  BY <1>2, <1>3 DEF Load, Finish

LEMMA LimitKeepsCool ==
  ASSUME FlexAssumption, FlexInv, Cooled, AnswerLimited \/ RecordPause
  PROVE  Cooled'
<1>0. left \in [Tokens -> Nat] /\ Pause \in Nat
  BY DEF FlexInv, FlexTyped, FlexAssumption
<1>1. CASE AnswerLimited
  <2>1. /\ pc = "calling" /\ pc' = "limited" /\ cooling' = [cooling EXCEPT ![Mine] = Pause]
        /\ UNCHANGED <<left, lost>> /\ Mine' = Mine
    BY <1>1 DEF AnswerLimited, Mine
  <2>2. Mine \in Tokens
    BY <2>1, MineIs
  <2>3. cooling' \in [Tokens -> Nat] /\ cooling'[Mine] = Pause
        /\ \A t \in Tokens : t # Mine => cooling'[t] = cooling[t]
    BY <1>0, <2>1, <2>2 DEF Cooled
  <2> QED  BY <1>0, <2>1, <2>3 DEF Cooled
<1>2. CASE RecordPause
  <2>1. /\ pc = "limited" /\ pc' = "paused" /\ left' = [left EXCEPT ![Mine] = Pause]
        /\ lost' = lost \ {Mine} /\ cooling' = cooling
    BY <1>2 DEF RecordPause
  <2>2. Mine \in Tokens
    BY <2>1, MineIs
  <2>3. left'[Mine] = Pause /\ \A t \in Tokens : t # Mine => left'[t] = left[t]
    BY <1>0, <2>1, <2>2
  <2> QED  BY <2>1, <2>3 DEF Cooled
<1> QED  BY <1>1, <1>2

LEMMA TickKeepsCool ==
  ASSUME FlexAssumption, FlexInv, Cooled, Tick
  PROVE  Cooled'
<1>0. left \in [Tokens -> Nat] /\ Pause \in Nat /\ Second \in Nat
  BY DEF FlexInv, FlexTyped, FlexAssumption
<1>1. /\ left' = [t \in Tokens |-> Less(left[t])] /\ cooling' = [t \in Tokens |-> Less(cooling[t])]
      /\ UNCHANGED <<pc, job, lost>>
      /\ jobs' = [j \in DOMAIN jobs |-> [jobs[j] EXCEPT !.wait = Less(@)]]
  BY DEF Tick, worker
<1>2. ASSUME pc \in {"calling", "limited"}
      PROVE  Mine \in Tokens /\ Mine' = Mine
  <2>1. job \in DOMAIN jobs /\ jobs[job] \in FlexRows /\ Mine \in Tokens
    BY <1>2, MineIs, IdsSuffice, ElementOfSeq DEF FlexInv, FlexTyped
  <2>2. jobs'[job] = [jobs[job] EXCEPT !.wait = Less(@)]
    BY <1>1, <2>1
  <2>3. jobs'[job].token = jobs[job].token
    BY <2>1, <2>2 DEF FlexRows
  <2> QED  BY <1>1, <2>1, <2>3 DEF Mine
<1>3. ASSUME NEW t \in Tokens
      PROVE  /\ cooling'[t] \in Nat /\ cooling'[t] <= Pause
             /\ cooling[t] <= left[t] => cooling'[t] <= left'[t]
             /\ cooling[t] < Second => cooling'[t] < Second
  <2>1. PICK c, l : c = cooling[t] /\ l = left[t]
    OBVIOUS
  <2>2. c \in Nat /\ l \in Nat /\ c <= Pause /\ cooling'[t] = Less(c) /\ left'[t] = Less(l)
    BY <1>0, <1>1, <2>1 DEF Cooled
  <2>3. /\ Less(c) \in Nat /\ Less(c) <= Pause /\ (c <= l => Less(c) <= Less(l))
        /\ (c < Second => Less(c) < Second)
    BY <1>0, <2>2 DEF Less
  <2> QED  BY <2>1, <2>2, <2>3
<1>4. cooling' \in [Tokens -> Nat]
  BY <1>1, <1>3
<1>5. \A t \in Tokens : cooling'[t] <= left'[t] \/ (pc' = "limited" /\ t = Mine') \/ t \in lost'
  BY <1>1, <1>2, <1>3 DEF Cooled
<1>6. pc' = "calling" => cooling'[Mine'] < Second \/ Mine' \in lost'
  BY <1>1, <1>2, <1>3 DEF Cooled
<1> QED  BY <1>3, <1>4, <1>5, <1>6 DEF Cooled

LEMMA EditKeepsCool ==
  ASSUME FlexAssumption, FlexInv, Cooled, NEW e \in Tokens, Edit(e)
  PROVE  Cooled'
<1>0. /\ left \in [Tokens -> Nat] /\ Pause \in Nat /\ OperatorPause \in Nat
      /\ Second \in Nat \ {0}
  BY DEF FlexInv, FlexTyped, FlexAssumption
<1>1. UNCHANGED <<jobs, pc, job, lost>> /\ Mine' = Mine
  BY DEF Edit, worker, Mine
<1>2. CASE UNCHANGED <<left, cooling>>
  BY <1>1, <1>2 DEF Cooled
<1>3. CASE /\ cooling' = [cooling EXCEPT ![e] = 0]
           /\ left' \in {[left EXCEPT ![e] = OperatorPause], [left EXCEPT ![e] = 0]}
  <2>1. cooling' \in [Tokens -> Nat] /\ cooling'[e] = 0
        /\ \A t \in Tokens : t # e => cooling'[t] = cooling[t]
    BY <1>3 DEF Cooled
  <2>2. left'[e] \in Nat /\ \A t \in Tokens : t # e => left'[t] = left[t]
    BY <1>0, <1>3
  <2>3. pc = "calling" => Mine \in Tokens
    BY MineIs
  <2> QED  BY <1>0, <1>1, <2>1, <2>2, <2>3 DEF Cooled
<1> QED  BY <1>2, <1>3 DEF Edit

LEMMA CooledStays ==
  ASSUME FlexAssumption, FlexInv, Cooled, [Next]_vars
  PROVE  Cooled'
<1>1. ASSUME UNCHANGED <<pc, left, cooling, lost>>, pc \in {"calling", "limited"} => Mine' = Mine
      PROVE  Cooled'
  BY <1>1 DEF Cooled
<1>2. CASE RequestSync
  <2>1. UNCHANGED <<pc, job, left, cooling, lost>>
    BY <1>2 DEF RequestSync, worker, history
  <2>2. ASSUME pc \in {"calling", "limited"}
        PROVE  Mine' = Mine
    <3>1. job \in 1 .. Len(jobs)
      BY <2>2, MineIs
    <3> DEFINE row == NewJob("fan_out", "none", 0, 0)
    <3>2. jobs' = Append(jobs, row) /\ jobs \in Seq(FlexRows)
      BY <1>2 DEF RequestSync, FlexInv, FlexTyped
    <3> HIDE DEF row
    <3>3. jobs'[job] = jobs[job]
      BY <3>1, <3>2
    <3> QED  BY <2>1, <3>3 DEF Mine
  <2> QED  BY <1>1, <2>1, <2>2
<1>3. CASE Claim \/ FanOut \/ Complete \/ DeferPaused \/ AnswerNotAccepted
           \/ AnswerAccepted \/ EnqueueFetch \/ AnswerNotReady \/ AnswerReport \/ SyncAccount
           \/ Restart
  <2>1. pc # "limited" /\ pc' \notin {"calling", "limited"} /\ UNCHANGED <<left, cooling, lost>>
    BY <1>3 DEF Claim, FanOut, Complete, DeferPaused, AnswerNotAccepted,
         AnswerAccepted, EnqueueFetch, AnswerNotReady, AnswerReport, SyncAccount, Restart,
         Finish, history
  <2> QED  BY <2>1, QuietKeepsCool
<1>4. CASE HandlerFails \/ Crash
  <2>1. lost' = Unrecorded /\ pc' \notin {"calling", "limited"} /\ UNCHANGED <<left, cooling>>
    BY <1>4 DEF HandlerFails, Crash, Finish
  <2> QED  BY <2>1, StoppingKeepsCool
<1>5. CASE UNCHANGED vars
  <2>1. UNCHANGED <<pc, left, cooling, lost>> /\ Mine' = Mine
    BY <1>5 DEF vars, worker, history, Mine
  <2> QED  BY <1>1, <2>1
<1> QED  BY <1>2, <1>3, <1>4, <1>5, LoadKeepsCool, LimitKeepsCool, TickKeepsCool, EditKeepsCool
         DEF Next, Work

\* Once IBKR has answered 1025 no job calls it for that token before the pause
\* is over, whichever job was told (jobs.py:447-449, 550-552), but in the
\* pause's last part of a second (flex_credentials.py:53); for any clock, any
\* crashes, failures and edits, a pause that was never recorded excepted.
THEOREM CooldownIsRespected == Spec => []CooldownRespected
<1>0. FlexAssumption
  BY FlexAssumption
<1>1. Init => Cooled
  BY <1>0 DEF Init, Cooled, FlexAssumption
<1>2. FlexInv /\ Cooled /\ [Next]_vars => Cooled'
  BY <1>0, CooledStays
<1>3. Cooled => CooldownRespected
  BY DEF Cooled, CooldownRespected
<1> QED  BY <1>1, <1>2, <1>3, FlexAlways, PTL DEF Spec

-----------------------------------------------------------------------------
(* To its queue the flow is jobs that keep the ledger's promise. *)

\* The refinement mapping.
outcome == [j \in Ids |-> Outcome(j)]
tries == [j \in Ids |-> IF j \in DOMAIN jobs THEN jobs[j].attempts ELSE 0]
budget == [j \in Ids |-> MaxAttempts]

\* What a row is to the ledger.
Verdict(row) == IF row.status \in {"completed", "failed"} THEN row.status ELSE "pending"

LEMMA LedgerOf ==
  ASSUME NEW n \in Nat, DOMAIN jobs = 1 .. n, 1 .. n \subseteq Ids, NEW j \in Ids
  PROVE  /\ outcome[j] = IF j \in 1 .. n THEN Verdict(jobs[j]) ELSE "absent"
         /\ tries[j] = IF j \in 1 .. n THEN jobs[j].attempts ELSE 0
BY DEF outcome, tries, Outcome, Verdict

\* A table whose rows look the same leaves the ledger alone.
LEMMA LedgerStays ==
  ASSUME DOMAIN jobs' = DOMAIN jobs,
         \A j \in DOMAIN jobs : Verdict(jobs'[j]) = Verdict(jobs[j])
                                /\ jobs'[j].attempts = jobs[j].attempts
  PROVE  UNCHANGED <<outcome, tries, budget>>
<1>1. ASSUME NEW j \in Ids
      PROVE  Outcome(j)' = Outcome(j)
  BY DEF Outcome, Verdict
<1>2. outcome' = outcome
  BY <1>1 DEF outcome
<1>3. tries' = tries
  BY DEF tries
<1> QED  BY <1>2, <1>3 DEF budget

\* A row written moves its own entry.
LEMMA LedgerMoves ==
  ASSUME FlexAssumption, FlexInv, NEW j \in 1 .. Len(jobs), NEW row,
         jobs' = [jobs EXCEPT ![j] = row]
  PROVE  /\ j \in Ids
         /\ outcome[j] = Verdict(jobs[j]) /\ outcome' = [outcome EXCEPT ![j] = Verdict(row)]
         /\ tries[j] = jobs[j].attempts /\ tries' = [tries EXCEPT ![j] = row.attempts]
         /\ budget' = budget
<1>1. DOMAIN jobs = 1 .. Len(jobs) /\ j \in Ids /\ DOMAIN jobs' = DOMAIN jobs
  BY IdsSuffice
<1>2. jobs'[j] = row /\ \A i \in DOMAIN jobs : i # j => jobs'[i] = jobs[i]
  BY <1>1
<1>3. outcome[j] = Verdict(jobs[j]) /\ tries[j] = jobs[j].attempts
  BY <1>1 DEF outcome, tries, Outcome, Verdict
<1>4. \A i \in Ids : Outcome(i)' = IF i = j THEN Verdict(row) ELSE Outcome(i)
  BY <1>1, <1>2 DEF Outcome, Verdict
<1>5. outcome' = [outcome EXCEPT ![j] = Verdict(row)]
  BY <1>4 DEF outcome
<1>6. tries' = [tries EXCEPT ![j] = row.attempts]
  BY <1>1, <1>2 DEF tries
<1> QED  BY <1>1, <1>3, <1>5, <1>6 DEF budget

\* Rows added are jobs submitted.
LEMMA EnqueueSubmits ==
  ASSUME FlexAssumption, FlexInv, FlexInv', Len(jobs') >= Len(jobs),
         \A i \in 1 .. Len(jobs) : jobs'[i] = jobs[i],
         \A i \in 1 .. Len(jobs') : i > Len(jobs) => jobs'[i].status = "queued" /\ jobs'[i].attempts = 0
  PROVE  Ledger!Next
<1>0. PICK new : new = (1 .. Len(jobs')) \ (1 .. Len(jobs))
  OBVIOUS
<1>1. /\ Len(jobs) \in Nat /\ DOMAIN jobs = 1 .. Len(jobs) /\ 1 .. Len(jobs) \subseteq Ids
      /\ Len(jobs') \in Nat /\ DOMAIN jobs' = 1 .. Len(jobs') /\ 1 .. Len(jobs') \subseteq Ids
  <2>1. jobs' \in Seq(FlexRows) /\ Family(jobs') /\ FewSyncs(jobs')
    BY DEF FlexInv, FlexTyped
  <2>2. Len(jobs') \in Nat /\ DOMAIN jobs' = 1 .. Len(jobs') /\ Len(jobs') <= MaxJobs
    BY <2>1, TableFits, LenProperties
  <2>3. MaxJobs \in Nat
    BY MaxJobsIsNat
  <2> QED  BY <2>2, <2>3, IdsSuffice, SMTT(30) DEF Ids
<1>2. /\ new \subseteq Ids
      /\ \A i \in Ids : i \in new <=> i \in 1 .. Len(jobs') /\ i \notin 1 .. Len(jobs)
      /\ \A i \in new : i > Len(jobs)
  BY <1>0, <1>1, SMTT(30)
<1>3. 1 .. Len(jobs) \subseteq 1 .. Len(jobs')
  BY <1>1
<1>4. \A i \in new : outcome[i] = "absent"
  BY <1>1, <1>2 DEF outcome, Outcome
<1>5. ASSUME NEW i \in Ids
      PROVE  /\ Outcome(i)' = IF i \in new THEN "pending" ELSE Outcome(i)
             /\ tries'[i] = tries[i]
  <2>1. CASE i \in new
    BY <1>1, <1>2, <2>1 DEF Outcome, tries
  <2>2. CASE i \in 1 .. Len(jobs)
    BY <1>1, <1>2, <1>3, <2>2 DEF Outcome, tries
  <2>3. CASE i \notin 1 .. Len(jobs')
    BY <1>1, <1>2, <1>3, <2>3 DEF Outcome, tries
  <2> QED  BY <1>2, <2>1, <2>2, <2>3
<1>6. outcome' = [j \in Ids |-> IF j \in new THEN "pending" ELSE outcome[j]]
  BY <1>5 DEF outcome
<1>7. tries' = tries
  BY <1>5 DEF tries
<1>8. \E b \in [new -> {MaxAttempts}] : budget' = [j \in Ids |-> IF j \in new THEN b[j] ELSE budget[j]]
  <2> WITNESS [j \in new |-> MaxAttempts] \in [new -> {MaxAttempts}]
  <2> QED  BY DEF budget
<1>9. Ledger!Submit(new)
  BY <1>4, <1>6, <1>7, <1>8 DEF Ledger!Submit, outcome, tries, budget
<1>10. new \in SUBSET Ids
  BY <1>2
<1>11. \E s \in SUBSET Ids : Ledger!Submit(s)
  BY <1>9, <1>10
<1> QED  BY <1>11 DEF Ledger!Next


\* A deferral, with or without one more check, leaves the ledger alone.
LEMMA DeferringStays ==
  ASSUME FlexAssumption, FlexInv, pc \notin {"idle", "down"}, NEW row,
         Finish(row), Verdict(row) = "pending", row.attempts = jobs[job].attempts
  PROVE  UNCHANGED <<outcome, tries, budget>>
<1>1. job \in 1 .. Len(jobs) /\ jobs[job].status = "running" /\ jobs' = [jobs EXCEPT ![job] = row]
  BY DEF FlexInv, Holding, Finish
<1>2. DOMAIN jobs = 1 .. Len(jobs) /\ DOMAIN jobs' = DOMAIN jobs
  BY <1>1, IdsSuffice
<1>3. Verdict(jobs[job]) = "pending"
  BY <1>1 DEF Verdict
<1>4. ASSUME NEW j \in DOMAIN jobs
      PROVE  Verdict(jobs'[j]) = Verdict(jobs[j]) /\ jobs'[j].attempts = jobs[j].attempts
  <2>1. CASE j = job
    BY <1>1, <1>2, <1>3, <2>1
  <2>2. CASE j # job
    BY <1>1, <1>2, <2>2
  <2> QED  BY <2>1, <2>2
<1> QED  BY <1>2, <1>4, LedgerStays

\* A failure is a charge.
LEMMA FailingCharges ==
  ASSUME FlexAssumption, FlexInv, pc \notin {"idle", "down"}, Finish(Failed(jobs[job]))
  PROVE  Ledger!Next
<1>1. job \in 1 .. Len(jobs) /\ jobs[job] \in FlexRows /\ jobs[job].attempts < MaxAttempts
      /\ jobs[job].status = "running"
  BY RowIs DEF FlexInv, Holding
<1> DEFINE row == Failed(jobs[job])
<1>2. jobs' = [jobs EXCEPT ![job] = row]
  BY DEF Finish
<1>3. /\ row.attempts = jobs[job].attempts + 1
      /\ row.status = IF jobs[job].attempts + 1 >= MaxAttempts THEN "failed" ELSE "queued"
  BY <1>1, FailedIs
<1> HIDE DEF row
<1>4. /\ job \in Ids /\ outcome[job] = Verdict(jobs[job])
      /\ outcome' = [outcome EXCEPT ![job] = Verdict(row)]
      /\ tries[job] = jobs[job].attempts /\ tries' = [tries EXCEPT ![job] = row.attempts]
      /\ budget' = budget
  BY <1>1, <1>2, LedgerMoves
<1>5. outcome[job] = "pending" /\ Verdict(row) = IF tries[job] + 1 < MaxAttempts THEN "pending" ELSE "failed"
  <2>1. jobs[job].attempts \in Nat /\ MaxAttempts \in Nat
    BY <1>1 DEF FlexRows, FlexAssumption
  <2> QED  BY <1>1, <1>3, <1>4, <2>1, SMTT(30) DEF Verdict
<1>6. budget[job] = MaxAttempts
  BY <1>4 DEF budget
<1>7. [outcome EXCEPT ![job] = "pending"] = outcome
  BY <1>4, <1>5 DEF outcome
<1>8. outcome' = IF tries[job] + 1 < budget[job] THEN outcome ELSE [outcome EXCEPT ![job] = "failed"]
  BY <1>4, <1>5, <1>6, <1>7
<1>9. tries' = [tries EXCEPT ![job] = @ + 1]
  BY <1>3, <1>4
<1>10. PICK j \in Ids : j = job
  BY <1>4
<1>11. Ledger!Charge(j)
  BY <1>4, <1>5, <1>8, <1>9, <1>10 DEF Ledger!Charge, outcome, tries, budget
<1> QED  BY <1>11 DEF Ledger!Next

\* A completion succeeds.
LEMMA CompleteSucceeds ==
  ASSUME FlexAssumption, FlexInv, Complete
  PROVE  Ledger!Next
<1>1. pc \in {"finishing", "syncing"} /\ Finish([jobs[job] EXCEPT !.status = "completed"])
  BY DEF Complete
<1>2. job \in 1 .. Len(jobs) /\ jobs[job] \in FlexRows /\ jobs[job].status = "running"
  BY <1>1, RowIs DEF FlexInv, Holding
<1> DEFINE row == [jobs[job] EXCEPT !.status = "completed"]
<1>3. jobs' = [jobs EXCEPT ![job] = row]
  BY <1>1 DEF Finish
<1>4. row.status = "completed" /\ row.attempts = jobs[job].attempts
  BY <1>2 DEF FlexRows
<1> HIDE DEF row
<1>5. /\ job \in Ids /\ outcome[job] = Verdict(jobs[job])
      /\ outcome' = [outcome EXCEPT ![job] = Verdict(row)]
      /\ tries[job] = jobs[job].attempts /\ tries' = [tries EXCEPT ![job] = row.attempts]
      /\ budget' = budget
  BY <1>2, <1>3, LedgerMoves
<1>6. outcome[job] = "pending" /\ Verdict(row) = "completed"
  BY <1>2, <1>4, <1>5 DEF Verdict
<1>7. tries' = tries
  BY <1>4, <1>5 DEF tries
<1>8. PICK j \in Ids : j = job
  BY <1>5
<1>9. Ledger!Succeed(j)
  BY <1>5, <1>6, <1>7, <1>8 DEF Ledger!Succeed, outcome, tries, budget
<1> QED  BY <1>9 DEF Ledger!Next

LEMMA LedgerStep ==
  ASSUME FlexAssumption, FlexInv, FlexInv', [Next]_vars
  PROVE  [Ledger!Next]_Ledger!ledger
<1> SUFFICES Ledger!Next \/ UNCHANGED <<outcome, tries, budget>>
  BY DEF Ledger!ledger, outcome, tries, budget
<1>u. ASSUME jobs' = jobs
      PROVE  UNCHANGED <<outcome, tries, budget>>
  BY <1>u, LedgerStays
<1>1. CASE RequestSync
  <2> DEFINE row == NewJob("fan_out", "none", 0, 0)
  <2>1. jobs' = Append(jobs, row)
    BY <1>1 DEF RequestSync
  <2>2. row \in FlexRows /\ row.status = "queued" /\ row.attempts = 0
    BY ZeroFits DEF NewJob, FlexRows, Kinds
  <2> HIDE DEF row
  <2>3. /\ Len(jobs) \in Nat /\ Len(jobs') = Len(jobs) + 1
        /\ \A i \in 1 .. Len(jobs) : jobs'[i] = jobs[i]
        /\ \A i \in 1 .. Len(jobs') : i > Len(jobs) => i = Len(jobs) + 1 /\ jobs'[i] = row
    BY <2>1, <2>2, OneRowMore
  <2> QED  BY <2>2, <2>3, EnqueueSubmits
<1>2. CASE EnqueueFetch
  <2> DEFINE row == NewJob("fetch", Mine, job, FirstCheck)
  <2>1. jobs' = Append(jobs, row) /\ pc = "accepted"
    BY <1>2 DEF EnqueueFetch
  <2>2. row \in FlexRows /\ row.status = "queued" /\ row.attempts = 0
    <3>1. Mine \in Tokens /\ job \in Nat /\ FirstCheck \in Nat
      BY <2>1, MineIs, IdsSuffice DEF FlexAssumption
    <3> DEFINE t == Mine
    <3>3. t \in Tokens /\ row = NewJob("fetch", t, job, FirstCheck)
      BY <3>1
    <3> HIDE DEF t, row
    <3> QED  BY <3>1, <3>3, ZeroFits DEF NewJob, FlexRows, Kinds
  <2> HIDE DEF row
  <2>3. /\ Len(jobs) \in Nat /\ Len(jobs') = Len(jobs) + 1
        /\ \A i \in 1 .. Len(jobs) : jobs'[i] = jobs[i]
        /\ \A i \in 1 .. Len(jobs') : i > Len(jobs) => i = Len(jobs) + 1 /\ jobs'[i] = row
    BY <2>1, <2>2, OneRowMore
  <2> QED  BY <2>2, <2>3, EnqueueSubmits
<1>3. CASE FanOut
  <2>1. CASE active = {}
    <3>1. pc = "claimed" /\ Finish(Failed(jobs[job]))
      BY <1>3, <2>1 DEF FanOut
    <3> QED  BY <3>1, FailingCharges
  <2>2. CASE active # {}
    <3>1. PICK new \in Seq(FlexRows) :
            /\ jobs' = jobs \o new
            /\ \A i \in 1 .. Len(new) : new[i].status = "queued" /\ new[i].attempts = 0
      BY <1>3, <2>2, ChildrenAre
    <3>2. jobs \in Seq(FlexRows)
      BY DEF FlexInv, FlexTyped
    <3>3. /\ Len(jobs) \in Nat /\ Len(new) \in Nat /\ Len(jobs') = Len(jobs) + Len(new)
          /\ \A i \in 1 .. Len(jobs) : jobs'[i] = jobs[i]
          /\ \A i \in 1 .. Len(jobs') : i > Len(jobs) => jobs'[i] = new[i - Len(jobs)]
      BY <3>1, <3>2, ConcatProperties, LenProperties, SMTT(30)
    <3>4. Len(jobs') >= Len(jobs)
          /\ \A i \in 1 .. Len(jobs') : i > Len(jobs) => i - Len(jobs) \in 1 .. Len(new)
      <4>1. Len(jobs) \in Nat /\ Len(new) \in Nat /\ Len(jobs') = Len(jobs) + Len(new)
        BY <3>3
      <4>2. Len(jobs') >= Len(jobs)
        BY <4>1
      <4>3. \A i \in 1 .. Len(jobs') : i > Len(jobs) => i - Len(jobs) \in 1 .. Len(new)
        BY <4>1, PastTheEnd
      <4> QED  BY <4>2, <4>3
    <3>5. ASSUME NEW i \in 1 .. Len(jobs'), i > Len(jobs)
          PROVE  jobs'[i].status = "queued" /\ jobs'[i].attempts = 0
      <4>1. jobs'[i] = new[i - Len(jobs)] /\ i - Len(jobs) \in 1 .. Len(new)
        BY <3>3, <3>4, <3>5
      <4> QED  BY <3>1, <4>1
    <3> QED  BY <3>3, <3>4, <3>5, EnqueueSubmits
  <2> QED  BY <2>1, <2>2
<1>4. CASE HandlerFails
  <2>1. pc \notin {"idle", "down"} /\ Finish(Failed(jobs[job]))
    BY <1>4 DEF HandlerFails
  <2> QED  BY <2>1, FailingCharges
<1>5. CASE Complete
  BY <1>5, CompleteSucceeds
<1>6. ASSUME NEW delay \in Nat, pc \notin {"idle", "down"}, Finish(Deferred(jobs[job], delay))
      PROVE  UNCHANGED <<outcome, tries, budget>>
  <2>1. jobs[job] \in FlexRows
    BY <1>6, RowIs
  <2>2. /\ Deferred(jobs[job], delay).status = "queued"
        /\ Deferred(jobs[job], delay).attempts = jobs[job].attempts
    BY <2>1, DeferredIs
  <2> QED  BY <1>6, <2>2, DeferringStays DEF Verdict
<1>7. CASE Load
  <2>1. CASE Finish(Failed(jobs[job]))
    BY <1>7, <2>1, FailingCharges DEF Load
  <2>2. CASE Mine \in active /\ Finish(Deferred(jobs[job], PauseRemaining(Mine) * Second))
    <3>1. PauseRemaining(Mine) * Second \in Nat
      BY <2>2, PauseIsNat
    <3>2. pc = "claimed"
      BY <1>7 DEF Load
    <3> QED  BY <1>6, <2>2, <3>1, <3>2
  <2> QED  BY <1>7, <1>u, <2>1, <2>2 DEF Load
<1>8. CASE DeferPaused \/ AnswerNotAccepted
  <2>1. Pause \in Nat /\ FirstCheck \in Nat
    BY DEF FlexAssumption
  <2> QED  BY <1>6, <1>8, <2>1 DEF DeferPaused, AnswerNotAccepted
<1>9. CASE AnswerNotReady
  <2>1. pc = "calling" /\ Finish(AfterMiss(jobs[job])) /\ jobs[job] \in FlexRows
    BY <1>9, RowIs DEF AnswerNotReady
  <2>2. CASE jobs[job].checks + 1 >= MaxChecks
    BY <2>1, <2>2, FailingCharges DEF AfterMiss
  <2>3. CASE ~(jobs[job].checks + 1 >= MaxChecks)
    <3> DEFINE row == Deferred([jobs[job] EXCEPT !.checks = @ + 1], Recheck)
    <3>1. Finish(row)
      BY <2>1, <2>3 DEF AfterMiss
    <3>2. row.status = "queued" /\ row.attempts = jobs[job].attempts
      BY <2>1 DEF Deferred, FlexRows
    <3> HIDE DEF row
    <3> QED  BY <2>1, <3>1, <3>2, DeferringStays DEF Verdict
  <2> QED  BY <2>2, <2>3
<1>10. CASE Claim
  <2>1. PICK j \in DOMAIN jobs :
          jobs[j].status = "queued" /\ jobs' = [jobs EXCEPT ![j].status = "running"]
    BY <1>10 DEF Claim, Claimable
  <2>2. \A i \in DOMAIN jobs : jobs[i] \in FlexRows
    BY IdsSuffice, ElementOfSeq DEF FlexInv, FlexTyped
  <2>3. ASSUME NEW i \in DOMAIN jobs
        PROVE  Verdict(jobs'[i]) = Verdict(jobs[i]) /\ jobs'[i].attempts = jobs[i].attempts
    <3>1. CASE i = j
      <4>1. jobs'[i] = [jobs[i] EXCEPT !.status = "running"]
        BY <2>1, <3>1
      <4> QED  BY <2>1, <2>2, <3>1, <4>1 DEF Verdict, FlexRows
    <3>2. CASE i # j
      BY <2>1, <3>2
    <3> QED  BY <3>1, <3>2
  <2> QED  BY <2>1, <2>3, LedgerStays
<1>11. CASE Tick
  <2>1. jobs' = [j \in DOMAIN jobs |-> [jobs[j] EXCEPT !.wait = Less(@)]]
    BY <1>11 DEF Tick
  <2>2. ASSUME NEW i \in DOMAIN jobs
        PROVE  Verdict(jobs'[i]) = Verdict(jobs[i]) /\ jobs'[i].attempts = jobs[i].attempts
    <3>1. jobs[i] \in FlexRows
      BY IdsSuffice, ElementOfSeq DEF FlexInv, FlexTyped
    <3>2. jobs'[i] = [jobs[i] EXCEPT !.wait = Less(@)]
      BY <2>1
    <3> QED  BY <3>1, <3>2 DEF Verdict, FlexRows
  <2> QED  BY <2>1, <2>2, LedgerStays
<1>12. CASE \/ AnswerLimited \/ RecordPause \/ AnswerAccepted \/ AnswerReport \/ SyncAccount
            \/ Crash \/ Restart \/ UNCHANGED vars
  BY <1>12, <1>u DEF AnswerLimited, RecordPause, AnswerAccepted, AnswerReport, SyncAccount,
     Crash, Restart, vars
<1>13. CASE \E t \in Tokens : Edit(t)
  BY <1>13, <1>u DEF Edit
<1> QED  BY <1>1, <1>2, <1>3, <1>4, <1>5, <1>7, <1>8, <1>9, <1>10, <1>11, <1>12, <1>13 DEF Next, Work

\* To its queue the flow is a set of jobs that keep the ledger's promise, as
\* the jobs of any queue do: deferrals are free, a verdict stands.
THEOREM FlowKeepsLedger == Spec => KeepsLedger
<1>0. FlexAssumption
  BY FlexAssumption
<1>1. Init => Ledger!Init
  BY DEF Init, Ledger!Init, Outcome
<1>2. FlexInv /\ FlexInv' /\ [Next]_vars => [Ledger!Next]_Ledger!ledger
  BY <1>0, LedgerStep
<1> QED  BY <1>1, <1>2, FlexAlways, PTL DEF Spec, KeepsLedger, Ledger!Spec

=============================================================================
