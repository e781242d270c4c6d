-------------------------- MODULE ScanQueueProofs --------------------------
(***************************************************************************)
(* Proofs about ScanQueue, for any number of jobs, replicas, goroutines,   *)
(* requests, retries, faults and crashes.                                  *)
(***************************************************************************)
EXTENDS ScanQueue, TLAPS

\* What a goroutine knows while it holds a job: the row it copied is the
\* running one, its retry count is one behind the number of claims, and the
\* stored row can only have been cancelled or deleted under it.
WorkerInv ==
    \A w \in Workers : Busy(w) =>
        /\ worker[w].id \in Jobs
        /\ worker[w].row.status = "scanning"
        /\ worker[w].row.retries <= MaxRetries
        /\ attempts[worker[w].id] = worker[w].row.retries + 1
        /\ published[worker[w].id] = 0
        /\ worker[w].at = "publish" =>
              job[worker[w].id].status \in {"completed", "cancelled", "gone"}
        /\ worker[w].at # "publish" =>
              job[worker[w].id].status \in {"scanning", "cancelled", "gone"}

\* The retry count of a pending row is the number of claims so far.
JobInv ==
    \A j \in Jobs :
        /\ job[j].status = "none" => attempts[j] = 0 /\ published[j] = 0
        /\ job[j].status = "pending" =>
              /\ attempts[j] = job[j].retries
              /\ job[j].retries <= MaxRetries
              /\ published[j] = 0

\* What the requests hold between their read and their write.
CallerInv ==
    \A c \in Callers :
        /\ caller[c].at = "create" => caller[c].row.status = "pending" /\ caller[c].row.retries = 0
        /\ caller[c].at = "cancel" => caller[c].id \in Jobs

\* The inductive invariant.
IndInv ==
    /\ TypeOK
    /\ OneWorkerPerJob
    /\ WorkerInv
    /\ JobInv
    /\ CallerInv
    /\ AttemptsBounded
    /\ CompletedOnce

\* The row of an id that was never inserted is a row.
LEMMA BlankRowType == BlankRow \in Row /\ BlankRow.status = "none" /\ BlankRow.retries = 0
BY ConstantsOK DEF BlankRow, Row, NoRow

\* Changing the status of a row keeps it a row and leaves its retry count.
LEMMA StatusChange ==
    ASSUME NEW r \in Row, NEW st \in Active \cup Terminal \cup NoRow
    PROVE  /\ [r EXCEPT !.status = st] \in Row
           /\ [r EXCEPT !.status = st].status = st
           /\ [r EXCEPT !.status = st].retries = r.retries
BY Zenon DEF Row

\* The row retryOrFail stores is pending while retries are left, else failed.
LEMMA RetryRowFacts ==
    ASSUME NEW r \in Row, r.retries <= MaxRetries
    PROVE  /\ RetryRow(r) \in Row
           /\ RetryRow(r).retries = r.retries + 1
           /\ r.retries + 1 <= MaxRetries => RetryRow(r).status = "pending"
           /\ r.retries + 1 > MaxRetries => RetryRow(r).status = "failed"
<1>1. r.retries \in Nat /\ r.retries + 1 \in 0..(MaxRetries + 1)
  BY ConstantsOK DEF Row
<1>2. CASE r.retries + 1 > MaxRetries
  <2>1. RetryRow(r) = [r EXCEPT !.retries = r.retries + 1, !.status = "failed"]
    BY <1>2, Zenon DEF RetryRow
  <2>2. ~(r.retries + 1 <= MaxRetries)
    BY <1>1, <1>2, ConstantsOK
  <2> QED
    BY <1>1, <1>2, <2>1, <2>2, Zenon DEF Row, Terminal
<1>3. CASE ~(r.retries + 1 > MaxRetries)
  <2>1. RetryRow(r) = [r EXCEPT !.retries = r.retries + 1, !.status = "pending", !.due = FALSE]
    BY <1>3, Zenon DEF RetryRow
  <2> QED
    BY <1>1, <1>3, <2>1, Zenon DEF Row, Active
<1> QED
  BY <1>2, <1>3, Zenon

WorkerState == [at: WorkerPC, id: Jobs \cup {NoJob}, row: Row]

\* A goroutine that moves on keeps its job and its copy of the row.
LEMMA GoToFacts ==
    ASSUME TypeOK, NEW w \in Workers, NEW pc \in WorkerPC, GoTo(w, pc)
    PROVE  /\ worker' \in [Workers -> WorkerState]
           /\ worker'[w].at = pc
           /\ worker'[w].id = worker[w].id /\ worker'[w].row = worker[w].row
           /\ \A v \in Workers \ {w} : worker'[v] = worker[v]
BY Zenon DEF TypeOK, GoTo, WorkerState

\* A goroutine that stops is idle; the others are untouched.
LEMMA StopFacts ==
    ASSUME TypeOK, NEW w \in Workers, Stop(w)
    PROVE  /\ worker' \in [Workers -> WorkerState]
           /\ worker'[w].at = "idle"
           /\ \A v \in Workers \ {w} : worker'[v] = worker[v]
BY BlankRowType, Zenon DEF TypeOK, Stop, Idle, WorkerState, WorkerPC

\* The empty table satisfies the inductive invariant.
LEMMA InitIndInv == Init => IndInv
<1> SUFFICES ASSUME Init PROVE IndInv
  OBVIOUS
<1> USE ConstantsOK, BlankRowType DEF Init, Idle
<1>1. TypeOK
  BY DEF TypeOK, WorkerPC, Workers
<1>2. OneWorkerPerJob /\ WorkerInv
  BY Zenon DEF OneWorkerPerJob, WorkerInv, Busy
<1>3. JobInv /\ CallerInv
  BY Zenon DEF JobInv, CallerInv
<1>4. AttemptsBounded /\ CompletedOnce
  BY DEF AttemptsBounded, CompletedOnce
<1> QED
  BY <1>1, <1>2, <1>3, <1>4, Zenon DEF IndInv

\* StartScan's check only records what the request is about to insert.
LEMMA StartScanCheckKeeps ==
    ASSUME IndInv, NEW c \in Callers, NEW s \in Subnets, StartScanCheck(c, s)
    PROVE  IndInv'
<1> USE ConstantsOK, BlankRowType DEF IndInv, StartScanCheck
<1>1. TypeOK'
  BY Zenon DEF TypeOK, WorkerPC, Row, Active, Terminal, NoRow
<1>2. OneWorkerPerJob'
  BY Zenon DEF TypeOK, OneWorkerPerJob, Busy
<1>3. WorkerInv'
  BY Zenon DEF TypeOK, OneWorkerPerJob, WorkerInv, JobInv, Busy
<1>4. JobInv'
  BY Zenon DEF TypeOK, WorkerInv, JobInv, CallerInv, Busy
<1>5. CallerInv'
  BY DEF TypeOK, CallerInv
<1>6. AttemptsBounded'
  BY Zenon DEF TypeOK, WorkerInv, JobInv, CallerInv, AttemptsBounded, Busy
<1>7. CompletedOnce'
  BY Zenon DEF TypeOK, OneWorkerPerJob, WorkerInv, JobInv, CallerInv, CompletedOnce, Busy
<1> QED
  BY <1>1, <1>2, <1>3, <1>4, <1>5, <1>6, <1>7, Zenon

\* The inserted row is pending and unclaimed.
LEMMA StartScanCreateKeeps ==
    ASSUME IndInv, NEW c \in Callers, StartScanCreate(c)
    PROVE  IndInv'
<1> USE ConstantsOK, BlankRowType DEF IndInv, StartScanCreate, Reply, Idle
<1>1. TypeOK'
  BY DEF TypeOK, WorkerPC, Row, Active, Terminal, NoRow
<1>2. OneWorkerPerJob'
  BY Zenon DEF TypeOK, OneWorkerPerJob, Busy
<1>3. WorkerInv'
  BY Zenon DEF TypeOK, OneWorkerPerJob, WorkerInv, JobInv, Busy
<1>4. JobInv'
  BY DEF TypeOK, WorkerInv, JobInv, CallerInv, Busy
<1>5. CallerInv'
  BY Zenon DEF TypeOK, CallerInv
<1>6. AttemptsBounded'
  BY DEF TypeOK, WorkerInv, JobInv, CallerInv, AttemptsBounded, Busy
<1>7. CompletedOnce'
  BY Zenon DEF TypeOK, OneWorkerPerJob, WorkerInv, JobInv, CallerInv, CompletedOnce, Busy
<1> QED
  BY <1>1, <1>2, <1>3, <1>4, <1>5, <1>6, <1>7, Zenon

\* CancelScan's read only fills the request's copy.
LEMMA CancelScanReadKeeps ==
    ASSUME IndInv, NEW c \in Callers, NEW j \in Jobs, CancelScanRead(c, j)
    PROVE  IndInv'
<1> USE ConstantsOK, BlankRowType DEF IndInv, CancelScanRead
<1>1. TypeOK'
  BY DEF TypeOK, WorkerPC, Row, Active, Terminal, NoRow
<1>2. OneWorkerPerJob'
  BY Zenon DEF TypeOK, OneWorkerPerJob, Busy
<1>3. WorkerInv'
  BY Zenon DEF TypeOK, OneWorkerPerJob, WorkerInv, JobInv, Busy
<1>4. JobInv'
  BY Zenon DEF TypeOK, WorkerInv, JobInv, CallerInv, Busy
<1>5. CallerInv'
  BY Zenon DEF TypeOK, CallerInv
<1>6. AttemptsBounded'
  BY Zenon DEF TypeOK, WorkerInv, JobInv, CallerInv, AttemptsBounded, Busy
<1>7. CompletedOnce'
  BY Zenon DEF TypeOK, OneWorkerPerJob, WorkerInv, JobInv, CallerInv, CompletedOnce, Busy
<1> QED
  BY <1>1, <1>2, <1>3, <1>4, <1>5, <1>6, <1>7, Zenon

\* A stale cancel writes "cancelled", which no worker invariant excludes.
LEMMA CancelScanWriteKeeps ==
    ASSUME IndInv, NEW c \in Callers, CancelScanWrite(c)
    PROVE  IndInv'
<1> USE ConstantsOK, BlankRowType DEF IndInv, CancelScanWrite, Reply, Idle, UpdateScanJob, Exists
<1>1. TypeOK'
  <2>1. caller[c].id \in Jobs /\ caller[c].row \in Row
    BY Zenon DEF TypeOK, CallerInv
  <2>2. job' \in [Jobs -> Row]
    BY <2>1, StatusChange, Zenon DEF TypeOK, Terminal
  <2> QED
    BY <2>2, Zenon DEF TypeOK
<1>2. OneWorkerPerJob'
  BY Zenon DEF TypeOK, OneWorkerPerJob, Busy
<1>3. WorkerInv'
  BY DEF TypeOK, OneWorkerPerJob, WorkerInv, JobInv, Busy
<1>4. JobInv'
  BY DEF TypeOK, WorkerInv, JobInv, CallerInv, Busy
<1>5. CallerInv'
  BY Zenon DEF TypeOK, CallerInv
<1>6. AttemptsBounded'
  BY DEF TypeOK, WorkerInv, JobInv, CallerInv, AttemptsBounded, Busy
<1>7. CompletedOnce'
  BY DEF TypeOK, OneWorkerPerJob, WorkerInv, JobInv, CallerInv, CompletedOnce, Busy
<1> QED
  BY <1>1, <1>2, <1>3, <1>4, <1>5, <1>6, <1>7, Zenon

\* The cascade turns rows into "gone" under whoever runs them.
LEMMA DeleteSubnetKeeps ==
    ASSUME IndInv, NEW s \in Subnets, DeleteSubnet(s)
    PROVE  IndInv'
<1> USE ConstantsOK, BlankRowType DEF IndInv, DeleteSubnet, Exists
<1>1. TypeOK'
  <2>1. job' \in [Jobs -> Row]
    BY StatusChange, Zenon DEF TypeOK, NoRow
  <2> QED
    BY <2>1, Zenon DEF TypeOK
<1>2. OneWorkerPerJob'
  BY Zenon DEF TypeOK, OneWorkerPerJob, Busy
<1>3. WorkerInv'
  BY DEF TypeOK, OneWorkerPerJob, WorkerInv, JobInv, Busy
<1>4. JobInv'
  BY DEF TypeOK, WorkerInv, JobInv, CallerInv, Busy
<1>5. CallerInv'
  BY Zenon DEF TypeOK, CallerInv
<1>6. AttemptsBounded'
  BY DEF TypeOK, WorkerInv, JobInv, CallerInv, AttemptsBounded, Busy
<1>7. CompletedOnce'
  BY DEF TypeOK, OneWorkerPerJob, WorkerInv, JobInv, CallerInv, CompletedOnce, Busy
<1> QED
  BY <1>1, <1>2, <1>3, <1>4, <1>5, <1>6, <1>7, Zenon

\* A claim hands out due pending rows, each to one idle goroutine.
LEMMA RunOnceKeeps ==
    ASSUME IndInv, NEW r \in Replicas, RunOnce(r)
    PROVE  IndInv'
<1> USE ConstantsOK DEF IndInv
<1> DEFINE Given(f) == [w \in Workers |->
                  IF w[1] = r /\ f[w[2]] # NoJob
                  THEN [at |-> "observe1", id |-> f[w[2]],
                        row |-> [job[f[w[2]]] EXCEPT !.status = "scanning"]]
                  ELSE worker[w]]
<1>a. PICK batch \in SUBSET {j \in Jobs : Due(j)} :
        /\ job' = [j \in Jobs |-> IF j \in batch
                                  THEN [job[j] EXCEPT !.status = "scanning"] ELSE job[j]]
        /\ attempts' = [j \in Jobs |-> IF j \in batch THEN attempts[j] + 1 ELSE attempts[j]]
        /\ \E f \in Assignments(batch) : worker' = Given(f)
  BY Zenon DEF RunOnce
<1>1. PICK f \in Assignments(batch) : worker' = Given(f)
  BY <1>a, Zenon
<1>2. /\ UNCHANGED <<subnets, caller, faults, crashes, published>>
      /\ \A s \in Slots : worker[<<r, s>>].at = "idle"
  BY Zenon DEF RunOnce
<1>3. /\ \A s \in Slots : f[s] # NoJob => f[s] \in batch
      /\ \A s, t \in Slots : f[s] # NoJob /\ f[s] = f[t] => s = t
  BY Zenon DEF Assignments
\* A due job is pending, so nobody works on it.
<1>4. \A j \in batch :
        /\ j \in Jobs
        /\ job[j] \in Row
        /\ job[j].status = "pending"
        /\ attempts[j] = job[j].retries
        /\ job[j].retries <= MaxRetries
        /\ published[j] = 0
        /\ \A w \in Workers : Busy(w) => worker[w].id # j
  BY Zenon DEF TypeOK, JobInv, WorkerInv, Due
<1>5. \A j \in batch : /\ [job[j] EXCEPT !.status = "scanning"] \in Row
                       /\ [job[j] EXCEPT !.status = "scanning"].status = "scanning"
                       /\ [job[j] EXCEPT !.status = "scanning"].retries = job[j].retries
  BY <1>4, StatusChange, Zenon DEF Active
<1>6. \A j \in batch : /\ job'[j] \in Row
                       /\ job'[j].status = "scanning"
                       /\ attempts'[j] = attempts[j] + 1
  BY <1>a, <1>4, <1>5, Zenon
<1>7. \A j \in Jobs \ batch : job'[j] = job[j] /\ attempts'[j] = attempts[j]
  BY <1>a, Zenon
\* After the claim every busy goroutine was busy before, or has just been given
\* a job of the batch.
<1>8. \A w \in Workers :
        \/ /\ w[1] = r /\ w[2] \in Slots /\ w = <<r, w[2]>>
           /\ worker'[w].id = f[w[2]]
           /\ f[w[2]] \in batch
           /\ worker'[w] \in WorkerState
           /\ worker'[w].at = "observe1"
           /\ worker'[w].row.status = "scanning"
           /\ worker'[w].row.retries = job[worker'[w].id].retries
        \/ worker'[w] = worker[w] /\ worker[w] \in WorkerState
  <2> SUFFICES ASSUME NEW w \in Workers
      PROVE  \/ /\ w[1] = r /\ w[2] \in Slots /\ w = <<r, w[2]>>
                /\ worker'[w].id = f[w[2]]
                /\ f[w[2]] \in batch
                /\ worker'[w] \in WorkerState
                /\ worker'[w].at = "observe1"
                /\ worker'[w].row.status = "scanning"
                /\ worker'[w].row.retries = job[worker'[w].id].retries
             \/ worker'[w] = worker[w] /\ worker[w] \in WorkerState
    OBVIOUS
  <2>1. w[2] \in Slots /\ w = <<w[1], w[2]>>
    BY DEF Workers
  <2>2. CASE w[1] = r /\ f[w[2]] # NoJob
    <3> DEFINE row == [job[f[w[2]]] EXCEPT !.status = "scanning"]
    <3>1. f[w[2]] \in batch /\ f[w[2]] \in Jobs
      BY <1>3, <1>4, <2>1, <2>2, Zenon
    <3>2. row \in Row /\ row.status = "scanning" /\ row.retries = job[f[w[2]]].retries
      BY <1>5, <3>1, Zenon
    <3>3. worker'[w] = [at |-> "observe1", id |-> f[w[2]], row |-> row]
      BY <1>1, <2>2, Zenon
    <3> HIDE DEF row
    <3> QED
      BY <2>1, <2>2, <3>1, <3>2, <3>3 DEF WorkerState, WorkerPC
  <2>3. CASE ~(w[1] = r /\ f[w[2]] # NoJob)
    BY <1>1, <2>3, Zenon DEF TypeOK, WorkerState
  <2> QED
    BY <2>2, <2>3, Zenon
<1>9. TypeOK'
  <2>1. \A j \in Jobs : job'[j] \in Row /\ attempts'[j] \in Nat
    BY <1>6, <1>7 DEF TypeOK
  <2>2. job' = [j \in Jobs |-> job'[j]] /\ attempts' = [j \in Jobs |-> attempts'[j]]
    BY <1>a, Zenon
  <2>3. job' \in [Jobs -> Row] /\ attempts' \in [Jobs -> Nat]
    BY <2>1, <2>2, Zenon
  <2>4. worker' \in [Workers -> WorkerState]
    BY <1>1, <1>8, Zenon
  <2> QED
    BY <1>2, <2>3, <2>4, Zenon DEF TypeOK, WorkerState
<1>10. OneWorkerPerJob'
  BY <1>3, <1>4, <1>8 DEF OneWorkerPerJob, Busy
<1>11. WorkerInv'
  <2> SUFFICES ASSUME NEW w \in Workers, Busy(w)'
      PROVE  /\ worker'[w].id \in Jobs
             /\ worker'[w].row.status = "scanning"
             /\ worker'[w].row.retries <= MaxRetries
             /\ attempts'[worker'[w].id] = worker'[w].row.retries + 1
             /\ published'[worker'[w].id] = 0
             /\ worker'[w].at = "publish" =>
                   job'[worker'[w].id].status \in {"completed", "cancelled", "gone"}
             /\ worker'[w].at # "publish" =>
                   job'[worker'[w].id].status \in {"scanning", "cancelled", "gone"}
    BY Zenon DEF WorkerInv
  <2>1. CASE worker'[w].at = "observe1" /\ worker'[w].id \in batch
             /\ worker'[w].row.status = "scanning"
             /\ worker'[w].row.retries = job[worker'[w].id].retries
    BY <1>2, <1>4, <1>6, <2>1
  <2>2. CASE worker'[w] = worker[w]
    <3>1. Busy(w) /\ worker[w].id \in Jobs \ batch
      BY <1>4, <2>2 DEF Busy, WorkerInv
    <3> QED
      BY <1>2, <1>7, <2>2, <3>1 DEF WorkerInv
  <2> QED
    BY <1>8, <2>1, <2>2, Zenon
<1>12. JobInv'
  BY <1>2, <1>6, <1>7 DEF JobInv
<1>13. CallerInv'
  BY <1>2, Zenon DEF CallerInv
<1>14. AttemptsBounded'
  BY <1>4, <1>6, <1>7 DEF AttemptsBounded, TypeOK, Row
<1>15. CompletedOnce'
  BY <1>2, <1>4, <1>6, <1>7, Zenon DEF CompletedOnce
<1> QED
  BY <1>9, <1>10, <1>11, <1>12, <1>13, <1>14, <1>15, Zenon

\* A crash only idles goroutines.
LEMMA CrashKeeps ==
    ASSUME IndInv, NEW r \in Replicas, Crash(r)
    PROVE  IndInv'
<1> USE ConstantsOK, BlankRowType DEF IndInv, Crash, Idle
<1>1. TypeOK'
  BY DEF TypeOK, WorkerPC, Row, Active, Terminal, NoRow
<1>2. OneWorkerPerJob'
  BY Zenon DEF TypeOK, OneWorkerPerJob, Busy
<1>3. WorkerInv'
  BY Zenon DEF TypeOK, OneWorkerPerJob, WorkerInv, JobInv, Busy
<1>4. JobInv'
  BY Zenon DEF TypeOK, WorkerInv, JobInv, CallerInv, Busy
<1>5. CallerInv'
  BY Zenon DEF TypeOK, CallerInv
<1>6. AttemptsBounded'
  BY Zenon DEF TypeOK, WorkerInv, JobInv, CallerInv, AttemptsBounded, Busy
<1>7. CompletedOnce'
  BY Zenon DEF TypeOK, OneWorkerPerJob, WorkerInv, JobInv, CallerInv, CompletedOnce, Busy
<1> QED
  BY <1>1, <1>2, <1>3, <1>4, <1>5, <1>6, <1>7, Zenon

\* A step that only moves a goroutine on or stops it, short of publishing.
LEMMA MoveKeeps ==
    ASSUME IndInv, NEW w \in Workers, worker[w].at \notin {"idle", "publish"},
           NEW p \in WorkerPC \ {"publish"}, GoTo(w, p) \/ Stop(w),
           faults' \in 0..MaxFaults,
           UNCHANGED <<job, subnets, caller, crashes, attempts, published>>
    PROVE  IndInv'
<1> USE DEF IndInv
<1>1. /\ worker' \in [Workers -> WorkerState]
      /\ \A v \in Workers \ {w} : worker'[v] = worker[v]
      /\ worker'[w].at # "publish"
      /\ worker'[w].at # "idle" => worker'[w].id = worker[w].id /\ worker'[w].row = worker[w].row
  BY GoToFacts, StopFacts, Zenon
<1>2. TypeOK'
  BY <1>1, Zenon DEF TypeOK, WorkerState
<1>3. OneWorkerPerJob'
  BY <1>1 DEF OneWorkerPerJob, Busy
<1>4. WorkerInv'
  <2> SUFFICES ASSUME NEW v \in Workers, Busy(v)'
               PROVE  /\ Busy(v) /\ worker'[v].id = worker[v].id /\ worker'[v].row = worker[v].row
                      /\ worker'[v].at = "publish" <=> worker[v].at = "publish"
    BY DEF WorkerInv
  <2> QED
    BY <1>1, Zenon DEF Busy
<1>5. JobInv' /\ CallerInv'
  BY Zenon DEF JobInv, CallerInv
<1>6. AttemptsBounded'
  BY Zenon DEF AttemptsBounded
<1>7. CompletedOnce'
  BY <1>1, Zenon DEF CompletedOnce, Busy
<1> QED
  BY <1>2, <1>3, <1>4, <1>5, <1>6, <1>7, Zenon

\* A cancel check moves its goroutine on or stops it.
LEMMA ObserveCancelKeeps ==
    ASSUME IndInv, NEW w \in Workers, observeCancel(w)
    PROVE  IndInv'
<1>1. worker[w].at \in DOMAIN AfterCheck /\ faults' \in 0..MaxFaults
  BY ConstantsOK DEF observeCancel, DBFault, IndInv, TypeOK
<1>2. AfterCheck[worker[w].at] \in WorkerPC \ {"publish"} /\ worker[w].at \notin {"idle", "publish"}
  BY <1>1 DEF AfterCheck, WorkerPC
<1>3. GoTo(w, AfterCheck[worker[w].at]) \/ Stop(w)
  BY Zenon DEF observeCancel
<1> QED
  BY <1>1, <1>2, <1>3, MoveKeeps, Zenon DEF observeCancel

\* A phase of the scan moves its goroutine on.
LEMMA WorkKeeps ==
    ASSUME IndInv, NEW w \in Workers, Work(w)
    PROVE  IndInv'
<1>1. worker[w].at \in DOMAIN AfterWork /\ faults' \in 0..MaxFaults
  BY Zenon DEF Work, IndInv, TypeOK
<1>2. /\ AfterWork[worker[w].at] \in WorkerPC \ {"publish"} /\ "retryRead" \in WorkerPC \ {"publish"}
      /\ worker[w].at \notin {"idle", "publish"}
  BY <1>1 DEF AfterWork, WorkerPC
<1>3. PICK p \in WorkerPC \ {"publish"} : GoTo(w, p)
  BY <1>2, Zenon DEF Work
<1> QED
  BY <1>1, <1>2, <1>3, MoveKeeps, Zenon DEF Work

\* A progress write stores the copy, which is still the running row.
LEMMA WriteProgressKeeps ==
    ASSUME IndInv, NEW w \in Workers, WriteProgress(w)
    PROVE  IndInv'
<1> USE ConstantsOK, BlankRowType DEF IndInv, WriteProgress, UpdateScanJob, Exists, DBFault, GoTo, AfterWrite
<1>1. TypeOK'
  <2>1. worker[w].id \in Jobs /\ worker[w].row \in Row
    BY Zenon DEF TypeOK, WorkerInv, Busy
  <2>2. job' \in [Jobs -> Row]
    BY <2>1, Zenon DEF TypeOK
  <2>3. AfterWrite[worker[w].at] \in WorkerPC
    BY DEF WorkerPC
  <2>4. worker' \in [Workers -> WorkerState]
    BY <2>3, GoToFacts, Zenon
  <2> QED
    BY <2>2, <2>4 DEF TypeOK, WorkerState
<1>2. OneWorkerPerJob'
  BY DEF TypeOK, OneWorkerPerJob, Busy
<1>3. WorkerInv'
  BY DEF TypeOK, OneWorkerPerJob, WorkerInv, JobInv, Busy
<1>4. JobInv'
  BY DEF TypeOK, WorkerInv, JobInv, CallerInv, Busy
<1>5. CallerInv'
  BY Zenon DEF TypeOK, CallerInv
<1>6. AttemptsBounded'
  BY DEF TypeOK, WorkerInv, JobInv, CallerInv, AttemptsBounded, Busy
<1>7. CompletedOnce'
  BY DEF TypeOK, OneWorkerPerJob, WorkerInv, JobInv, CallerInv, CompletedOnce, Busy
<1> QED
  BY <1>1, <1>2, <1>3, <1>4, <1>5, <1>6, <1>7, Zenon

\* The final write leads to the publication or to the retry path.
LEMMA WriteCompletedKeeps ==
    ASSUME IndInv, NEW w \in Workers, WriteCompleted(w)
    PROVE  IndInv'
<1> USE DEF IndInv
<1> DEFINE id == worker[w].id
           done == [worker[w].row EXCEPT !.status = "completed"]
<1>1. /\ Busy(w) /\ worker[w].at = "writeCompleted" /\ "publish" \in WorkerPC
      /\ id \in Jobs
      /\ worker[w].row \in Row
      /\ job[id].status \in {"scanning", "cancelled", "gone"}
      /\ published[id] = 0
  BY Zenon DEF WriteCompleted, TypeOK, WorkerInv, Busy, WorkerPC
<1>2. done \in Row /\ done.status = "completed"
  BY <1>1, StatusChange, Zenon DEF Terminal
<1>3. /\ faults' \in 0..MaxFaults
      /\ UNCHANGED <<subnets, caller, crashes, attempts, published>>
  BY ConstantsOK DEF WriteCompleted, DBFault, TypeOK
<1>4. \/ job' = job /\ Stop(w)
      \/ job' = [job EXCEPT ![id] = done] /\ GoTo(w, "publish")
  BY Zenon DEF WriteCompleted, UpdateScanJob
<1>5. /\ worker' \in [Workers -> WorkerState]
      /\ \A v \in Workers \ {w} : worker'[v] = worker[v]
      /\ \/ job' = job /\ worker'[w].at = "idle"
         \/ /\ job' = [job EXCEPT ![id] = done]
            /\ worker'[w].at = "publish" /\ worker'[w].id = id
            /\ worker'[w].row = worker[w].row
  BY <1>1, <1>4, GoToFacts, StopFacts, Zenon
<1> HIDE DEF done
<1>6. TypeOK'
  <2>1. job' \in [Jobs -> Row]
    BY <1>1, <1>2, <1>5, Zenon DEF TypeOK
  <2> QED
    BY <1>3, <1>5, <2>1, Zenon DEF TypeOK, WorkerState
<1>7. OneWorkerPerJob'
  BY <1>1, <1>5 DEF OneWorkerPerJob, Busy
<1>8. WorkerInv'
  BY <1>1, <1>2, <1>3, <1>5 DEF WorkerInv, OneWorkerPerJob, Busy, TypeOK
<1>9. JobInv'
  BY <1>1, <1>2, <1>3, <1>5 DEF JobInv, TypeOK
<1>10. CallerInv'
  BY <1>3, Zenon DEF CallerInv
<1>11. AttemptsBounded'
  BY <1>1, <1>2, <1>3, <1>5, Zenon DEF AttemptsBounded, TypeOK
<1>12. CompletedOnce'
  BY <1>1, <1>2, <1>3, <1>5, Zenon DEF CompletedOnce, TypeOK
<1> QED
  BY <1>6, <1>7, <1>8, <1>9, <1>10, <1>11, <1>12, Zenon

\* The publication is counted once: its goroutine then stops.
LEMMA PublishKeeps ==
    ASSUME IndInv, NEW w \in Workers, Publish(w)
    PROVE  IndInv'
<1> USE ConstantsOK, BlankRowType DEF IndInv, Publish, Stop, Idle
<1>1. TypeOK'
  <2>1. worker[w].id \in Jobs
    BY Zenon DEF WorkerInv, Busy
  <2>2. worker' \in [Workers -> WorkerState]
    BY StopFacts, Zenon
  <2> QED
    BY <2>1, <2>2 DEF TypeOK, WorkerState
<1>2. OneWorkerPerJob'
  BY Zenon DEF TypeOK, OneWorkerPerJob, Busy
<1>3. WorkerInv'
  BY DEF TypeOK, OneWorkerPerJob, WorkerInv, JobInv, Busy
<1>4. JobInv'
  BY Zenon DEF TypeOK, WorkerInv, JobInv, CallerInv, Busy
<1>5. CallerInv'
  BY Zenon DEF TypeOK, CallerInv
<1>6. AttemptsBounded'
  BY Zenon DEF TypeOK, WorkerInv, JobInv, CallerInv, AttemptsBounded, Busy
<1>7. CompletedOnce'
  BY DEF TypeOK, OneWorkerPerJob, WorkerInv, JobInv, CallerInv, CompletedOnce, Busy
<1> QED
  BY <1>1, <1>2, <1>3, <1>4, <1>5, <1>6, <1>7, Zenon

\* The re-read before a retry stops a goroutine whose job was cancelled.
LEMMA RetryReadKeeps ==
    ASSUME IndInv, NEW w \in Workers, RetryRead(w)
    PROVE  IndInv'
<1>1. worker[w].at = "retryRead" /\ faults' \in 0..MaxFaults
  BY ConstantsOK DEF RetryRead, DBFault, IndInv, TypeOK
<1>2. "retryWrite" \in WorkerPC \ {"publish"}
  BY Zenon DEF WorkerPC
<1>3. GoTo(w, "retryWrite") \/ Stop(w)
  BY Zenon DEF RetryRead
<1> QED
  BY <1>1, <1>2, <1>3, MoveKeeps, Zenon DEF RetryRead

\* The retry row counts one attempt more, or ends the job.
LEMMA RetryOrFailKeeps ==
    ASSUME IndInv, NEW w \in Workers, retryOrFail(w)
    PROVE  IndInv'
<1> USE ConstantsOK, BlankRowType DEF IndInv, retryOrFail, RetryRow, UpdateScanJob, Exists, DBFault, Stop, Idle
<1>a. /\ worker[w].id \in Jobs
      /\ worker[w].row \in Row
      /\ worker[w].row.retries <= MaxRetries
      /\ attempts[worker[w].id] = worker[w].row.retries + 1
      /\ published[worker[w].id] = 0
  BY Zenon DEF TypeOK, WorkerInv, Busy
<1>b. /\ RetryRow(worker[w].row) \in Row
      /\ RetryRow(worker[w].row).retries = worker[w].row.retries + 1
      /\ \/ /\ RetryRow(worker[w].row).status = "pending"
            /\ worker[w].row.retries + 1 <= MaxRetries
         \/ /\ RetryRow(worker[w].row).status = "failed"
            /\ worker[w].row.retries = MaxRetries
  <2>1. worker[w].row.retries \in Nat
    BY <1>a, ConstantsOK DEF Row
  <2> HIDE DEF RetryRow
  <2> QED
    BY <1>a, <2>1, RetryRowFacts, ConstantsOK
<1> HIDE DEF RetryRow
<1>1. TypeOK'
  <2>1. job' \in [Jobs -> Row]
    BY <1>a, <1>b, Zenon DEF TypeOK
  <2>2. worker' \in [Workers -> WorkerState]
    BY <1>a, GoToFacts, StopFacts, Zenon
  <2> QED
    BY <2>1, <2>2 DEF TypeOK, WorkerState
<1>2. OneWorkerPerJob'
  BY Zenon DEF TypeOK, OneWorkerPerJob, Busy
<1>3. WorkerInv'
  BY <1>a, <1>b DEF TypeOK, OneWorkerPerJob, WorkerInv, JobInv, Busy
<1>4. JobInv'
  BY <1>a, <1>b DEF TypeOK, WorkerInv, JobInv, CallerInv, Busy
<1>5. CallerInv'
  BY Zenon DEF TypeOK, CallerInv
<1>6. AttemptsBounded'
  BY <1>a, <1>b DEF TypeOK, WorkerInv, JobInv, CallerInv, AttemptsBounded, Busy
<1>7. CompletedOnce'
  BY <1>a, <1>b DEF TypeOK, OneWorkerPerJob, WorkerInv, JobInv, CallerInv, CompletedOnce, Busy
<1> QED
  BY <1>1, <1>2, <1>3, <1>4, <1>5, <1>6, <1>7, Zenon

\* Waiting for the retry time changes no count.
LEMMA BecomeDueKeeps ==
    ASSUME IndInv, NEW j \in Jobs, BecomeDue(j)
    PROVE  IndInv'
<1> USE ConstantsOK, BlankRowType DEF IndInv, BecomeDue
<1>1. TypeOK'
  <2>1. job' \in [Jobs -> Row]
    BY ZenonT(30) DEF TypeOK, Row
  <2> QED
    BY <2>1, Zenon DEF TypeOK
<1>2. OneWorkerPerJob'
  BY Zenon DEF TypeOK, OneWorkerPerJob, Busy
<1>3. WorkerInv'
  BY Zenon DEF TypeOK, OneWorkerPerJob, WorkerInv, JobInv, Busy
<1>4. JobInv'
  BY DEF TypeOK, WorkerInv, JobInv, CallerInv, Busy
<1>5. CallerInv'
  BY Zenon DEF TypeOK, CallerInv
<1>6. AttemptsBounded'
  BY DEF TypeOK, WorkerInv, JobInv, CallerInv, AttemptsBounded, Busy
<1>7. CompletedOnce'
  BY Zenon DEF TypeOK, OneWorkerPerJob, WorkerInv, JobInv, CallerInv, CompletedOnce, Busy
<1> QED
  BY <1>1, <1>2, <1>3, <1>4, <1>5, <1>6, <1>7, Zenon

\* Every step keeps the inductive invariant.
LEMMA NextIndInv == IndInv /\ [Next]_vars => IndInv'
<1> SUFFICES ASSUME IndInv, [Next]_vars PROVE IndInv'
  OBVIOUS
<1>1. CASE UNCHANGED vars
  BY <1>1 DEF vars, IndInv, TypeOK, OneWorkerPerJob, WorkerInv, JobInv, CallerInv,
              AttemptsBounded, CompletedOnce, Busy
<1>2. ASSUME NEW c \in Callers, NEW s \in Subnets, StartScanCheck(c, s) PROVE IndInv'
  BY <1>2, StartScanCheckKeeps, Zenon
<1>3. ASSUME NEW c \in Callers, StartScanCreate(c) \/ CancelScanWrite(c) PROVE IndInv'
  BY <1>3, StartScanCreateKeeps, CancelScanWriteKeeps, Zenon
<1>4. ASSUME NEW c \in Callers, NEW j \in Jobs, CancelScanRead(c, j) PROVE IndInv'
  BY <1>4, CancelScanReadKeeps, Zenon
<1>5. ASSUME NEW s \in Subnets, DeleteSubnet(s) PROVE IndInv'
  BY <1>5, DeleteSubnetKeeps, Zenon
<1>6. ASSUME NEW r \in Replicas, RunOnce(r) \/ Crash(r) PROVE IndInv'
  BY <1>6, RunOnceKeeps, CrashKeeps, Zenon
<1>7. ASSUME NEW w \in Workers, WorkerStep(w) PROVE IndInv'
  BY <1>7, ObserveCancelKeeps, WorkKeeps, WriteProgressKeeps, WriteCompletedKeeps,
     PublishKeeps, RetryReadKeeps, RetryOrFailKeeps, Zenon DEF WorkerStep
<1>8. ASSUME NEW j \in Jobs, BecomeDue(j) PROVE IndInv'
  BY <1>8, BecomeDueKeeps, Zenon
<1> QED
  BY <1>1, <1>2, <1>3, <1>4, <1>5, <1>6, <1>7, <1>8, Zenon DEF Next

\* The inductive invariant holds throughout: in particular the state of the
\* queue, the pools and the requests is always well typed.
THEOREM Invariance == Spec => []IndInv
BY InitIndInv, NextIndInv, PTL DEF Spec

\* The variables always hold values of their types (job rows, goroutine and
\* request states): no write of a stale copy takes a row out of its domain.
THEOREM TypeCorrect == Spec => []TypeOK
<1>1. IndInv => TypeOK
  BY Zenon DEF IndInv
<1> QED
  BY <1>1, Invariance, PTL

\* However many replicas and goroutines run, ClaimDueScanJobs never gives a job
\* to two of them at a time.
THEOREM ClaimExclusive == Spec => []OneWorkerPerJob
<1>1. IndInv => OneWorkerPerJob
  BY Zenon DEF IndInv
<1> QED
  BY <1>1, Invariance, PTL

\* retryOrFail runs a job at most 1 + MaxRetries times and fails it only then.
THEOREM RetriesBounded == Spec => []AttemptsBounded
<1>1. IndInv => AttemptsBounded
  BY Zenon DEF IndInv
<1> QED
  BY <1>1, Invariance, PTL

\* The completion of a job is published at most once, after it was stored.
THEOREM PublishedOnce == Spec => []CompletedOnce
<1>1. IndInv => CompletedOnce
  BY Zenon DEF IndInv
<1> QED
  BY <1>1, Invariance, PTL

\* A completed or failed job is never queued or run again: whoever writes the
\* row of a finished job can only be a late cancel or the subnet's deletion.
THEOREM FinishedForGood == Spec => NoRevival
<1> DEFINE Step == \A j \in Jobs : job[j].status \in {"completed", "failed"} =>
                      job'[j].status \in {job[j].status, "cancelled", "gone"}
<1>1. ASSUME IndInv, [Next]_vars PROVE [Step]_vars
  <2> SUFFICES ASSUME Next, NEW j \in Jobs, job[j].status \in {"completed", "failed"}
      PROVE  job'[j].status \in {job[j].status, "cancelled", "gone"}
    BY <1>1, Zenon
  <2> USE <1>1 DEF IndInv
  <2>1. ASSUME NEW c \in Callers, NEW s \in Subnets, StartScanCheck(c, s)
        PROVE  job' = job
    BY <2>1, Zenon DEF StartScanCheck
  <2>2. ASSUME NEW c \in Callers, StartScanCreate(c) PROVE job'[j] = job[j]
    BY <2>2, Zenon DEF StartScanCreate, TypeOK
  <2>3. ASSUME NEW c \in Callers, NEW i \in Jobs, CancelScanRead(c, i) PROVE job' = job
    BY <2>3, Zenon DEF CancelScanRead
  <2>4. ASSUME NEW c \in Callers, CancelScanWrite(c)
        PROVE  job'[j].status \in {job[j].status, "cancelled"}
    <3>1. caller[c].row \in Row
      BY Zenon DEF TypeOK
    <3>2. [caller[c].row EXCEPT !.status = "cancelled"].status = "cancelled"
      BY <3>1, StatusChange, Zenon DEF Terminal
    <3> QED
      BY <2>4, <3>2, Zenon DEF CancelScanWrite, UpdateScanJob, TypeOK
  <2>5. ASSUME NEW s \in Subnets, DeleteSubnet(s) PROVE job'[j].status \in {job[j].status, "gone"}
    <3>1. [job[j] EXCEPT !.status = "gone"].status = "gone"
      BY StatusChange, Zenon DEF TypeOK, NoRow
    <3> QED
      BY <2>5, <3>1, Zenon DEF DeleteSubnet
  <2>6. ASSUME NEW r \in Replicas, RunOnce(r) PROVE job'[j] = job[j]
    BY <2>6, Zenon DEF RunOnce, Due
  <2>7. ASSUME NEW r \in Replicas, Crash(r) PROVE job' = job
    BY <2>7, Zenon DEF Crash
  <2>8. ASSUME NEW w \in Workers, WorkerStep(w) PROVE job'[j] = job[j]
    <3>1. worker[w].at \notin {"idle", "publish"} => worker[w].id # j
      BY Zenon DEF WorkerInv, Busy
    <3>2. CASE observeCancel(w) \/ Work(w) \/ Publish(w) \/ RetryRead(w)
      BY <3>2, Zenon DEF observeCancel, Work, Publish, RetryRead
    <3>3. CASE WriteProgress(w)
      BY <3>1, <3>3, Zenon DEF WriteProgress, AfterWrite, UpdateScanJob, TypeOK
    <3>4. CASE WriteCompleted(w)
      BY <3>1, <3>4, Zenon DEF WriteCompleted, UpdateScanJob, TypeOK
    <3>5. CASE retryOrFail(w)
      BY <3>1, <3>5, Zenon DEF retryOrFail, UpdateScanJob, TypeOK
    <3> QED
      BY <2>8, <3>2, <3>3, <3>4, <3>5, Zenon DEF WorkerStep
  <2>9. ASSUME NEW i \in Jobs, BecomeDue(i) PROVE job'[j] = job[j]
    BY <2>9, Zenon DEF BecomeDue, TypeOK
  <2> QED
    BY <2>1, <2>2, <2>3, <2>4, <2>5, <2>6, <2>7, <2>8, <2>9, Zenon DEF Next
<1> QED
  BY <1>1, Invariance, PTL DEF Spec, NoRevival

\* A cancel stored while no goroutine of the job is between a cancel check and
\* its write is final, whatever goroutines, requests, replicas and the clock do
\* next, unless a database call fails (observeCancel, retryOrFail).
THEOREM CancelsAreFinal == Spec => CancelFinalOutsideWindow
<1> DEFINE Step == \A j \in Jobs : CancelSettled(j) /\ faults' = faults =>
                      CancelSettled(j)' \/ job'[j].status = "gone"
<1>1. ASSUME IndInv, [Next]_vars PROVE [Step]_vars
  <2> SUFFICES ASSUME Next, NEW j \in Jobs, CancelSettled(j), faults' = faults
      PROVE  CancelSettled(j)' \/ job'[j].status = "gone"
    BY <1>1, Zenon
  <2> USE <1>1 DEF IndInv
  <2> DEFINE Outside == \A w \in Workers : worker'[w].id = j => worker'[w].at \notin {"writeSweeping", "writeSwept", "writeCompleted", "retryWrite"}
  <2>0. job'[j].status = "cancelled" /\ Outside => CancelSettled(j)'
    BY Zenon DEF CancelSettled, InWindow
  <2>a. /\ job[j].status = "cancelled"
        /\ \A w \in Workers : worker[w].id = j => worker[w].at \notin {"writeSweeping", "writeSwept", "writeCompleted", "retryWrite"}
    BY Zenon DEF CancelSettled, InWindow
  <2> HIDE DEF Outside
  <2>b. worker' = worker => Outside
    BY <2>a, Zenon DEF Outside
  <2>1. ASSUME NEW c \in Callers, NEW s \in Subnets, StartScanCheck(c, s)
        PROVE  job'[j].status = "cancelled" /\ Outside
    BY <2>1, <2>a, <2>b, Zenon DEF StartScanCheck
  <2>2. ASSUME NEW c \in Callers, StartScanCreate(c)
        PROVE  job'[j].status = "cancelled" /\ Outside
    BY <2>2, <2>a, <2>b, Zenon DEF StartScanCreate, TypeOK
  <2>3. ASSUME NEW c \in Callers, NEW i \in Jobs, CancelScanRead(c, i)
        PROVE  job'[j].status = "cancelled" /\ Outside
    BY <2>3, <2>a, <2>b, Zenon DEF CancelScanRead
  <2>4. ASSUME NEW c \in Callers, CancelScanWrite(c)
        PROVE  job'[j].status = "cancelled" /\ Outside
    <3>1. caller[c].row \in Row
      BY Zenon DEF TypeOK
    <3>2. [caller[c].row EXCEPT !.status = "cancelled"].status = "cancelled"
      BY <3>1, StatusChange, Zenon DEF Terminal
    <3> QED
      BY <2>4, <2>a, <2>b, <3>2, Zenon DEF CancelScanWrite, UpdateScanJob, TypeOK
  <2>5. ASSUME NEW s \in Subnets, DeleteSubnet(s)
        PROVE  job'[j].status \in {"cancelled", "gone"} /\ Outside
    <3>1. [job[j] EXCEPT !.status = "gone"].status = "gone"
      BY StatusChange, Zenon DEF TypeOK, NoRow
    <3> QED
      BY <2>5, <2>a, <2>b, <3>1, Zenon DEF DeleteSubnet
  <2>6. ASSUME NEW r \in Replicas, RunOnce(r)
        PROVE  job'[j].status = "cancelled" /\ Outside
    <3>1. job'[j] = job[j]
      BY <2>6, <2>a, Zenon DEF RunOnce, Due
    <3>2. \A w \in Workers : worker'[w] = worker[w] \/ worker'[w].at = "observe1"
      BY <2>6 DEF RunOnce
    <3> QED
      BY <2>a, <3>1, <3>2, Zenon DEF Outside
  <2>7. ASSUME NEW r \in Replicas, Crash(r)
        PROVE  job'[j].status = "cancelled" /\ Outside
    <3>1. \A w \in Workers : worker'[w] = worker[w] \/ worker'[w].at = "idle"
      BY <2>7, Zenon DEF Crash, Idle
    <3> QED
      BY <2>7, <2>a, <3>1, Zenon DEF Outside, Crash
  <2>8. ASSUME NEW w \in Workers, WorkerStep(w)
        PROVE  job'[j].status = "cancelled" /\ Outside
    <3>1. \A v \in Workers : v # w => worker'[v] = worker[v]
      BY <2>8, Zenon DEF WorkerStep, observeCancel, Work, WriteProgress, WriteCompleted, Publish, RetryRead, retryOrFail, GoTo, Stop, TypeOK
    <3>2. worker'[w].id = worker[w].id \/ worker'[w].at = "idle"
      BY <2>8 DEF WorkerStep, observeCancel, Work, WriteProgress, WriteCompleted, Publish, RetryRead, retryOrFail, GoTo, Stop, TypeOK, Idle
    <3>3. CASE worker[w].id # j
      <4>1. job'[j] = job[j]
        BY <2>8, <3>3, Zenon DEF WorkerStep, observeCancel, Work, WriteProgress, WriteCompleted, Publish, RetryRead, retryOrFail, UpdateScanJob, TypeOK
      <4> QED
        BY <2>a, <3>1, <3>2, <3>3, <4>1, Zenon DEF Outside
    <3>4. CASE worker[w].id = j
      <4>1. ~ (WriteProgress(w) \/ WriteCompleted(w) \/ retryOrFail(w))
        BY <2>a, <3>4, Zenon DEF WriteProgress, AfterWrite, WriteCompleted, retryOrFail
      <4>2. CASE observeCancel(w) \/ RetryRead(w)
        <5>1. faults \in Nat /\ ~ DBFault
          BY DEF DBFault, TypeOK
        <5>2. job' = job /\ worker'[w].at = "idle"
          BY <2>a, <3>4, <4>2, <5>1 DEF observeCancel, RetryRead, Stop, Idle, TypeOK
        <5> QED
          BY <2>a, <3>1, <5>2, Zenon DEF Outside
      <4>3. CASE Work(w)
        <5>1. job' = job /\ worker'[w].at \in {"observe2", "observe3", "observe4", "retryRead"}
          BY <4>3 DEF Work, AfterWork, GoTo, TypeOK
        <5> QED
          BY <2>a, <3>1, <5>1, Zenon DEF Outside
      <4>4. CASE Publish(w)
        <5>1. job' = job /\ worker'[w].at = "idle"
          BY <4>4, Zenon DEF Publish, Stop, Idle, TypeOK
        <5> QED
          BY <2>a, <3>1, <5>1, Zenon DEF Outside
      <4> QED
        BY <2>8, <4>1, <4>2, <4>3, <4>4, Zenon DEF WorkerStep
    <3> QED
      BY <3>3, <3>4, Zenon
  <2>9. ASSUME NEW i \in Jobs, BecomeDue(i)
        PROVE  job'[j].status = "cancelled" /\ Outside
    BY <2>9, <2>a, <2>b, Zenon DEF BecomeDue, TypeOK
  <2> QED
    BY <2>0, <2>1, <2>2, <2>3, <2>4, <2>5, <2>6, <2>7, <2>8, <2>9, Zenon DEF Next
<1> QED
  BY <1>1, Invariance, PTL DEF Spec, CancelFinalOutsideWindow

=============================================================================
