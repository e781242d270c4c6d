----------------------------- MODULE ScanQueue -----------------------------
(***************************************************************************)
(* The subnet-scan job queue: the API calls that start and cancel scans    *)
(* (internal/scan/scan.go), the worker pools that claim and process jobs   *)
(* (internal/scan/executor.go) and the job table they share                *)
(* (internal/repo/repodb/db.go).                                           *)
(*                                                                         *)
(* Every database call is one transaction and one atomic step; nothing     *)
(* spans two calls.  UpdateScanJob rewrites the WHOLE row from the         *)
(* caller's in-memory copy, so a writer that read the row some steps ago   *)
(* overwrites whatever was stored meanwhile.  Several replicas of the      *)
(* service share the table.  The columns kept are those the control flow   *)
(* reads: status, retry_count, and whether next_retry_at has passed.       *)
(***************************************************************************)
EXTENDS Integers, FiniteSets

CONSTANTS
    Jobs,        \* job ids
    Subnets,     \* IPv4 subnets of at most max_hosts hosts (others are refused)
    Replicas,    \* service processes, each running one worker pool
    Slots,       \* the goroutines of a pool (cfg.Workers of them)
    Callers,     \* concurrent API requests
    MaxRetries,  \* cfg.MaxRetries
    MaxFaults,   \* bound: failed database calls
    MaxCrashes,  \* bound: crashes of a replica
    NoJob        \* the id held by an idle worker or caller

ASSUME ConstantsOK ==
    /\ NoJob \notin Jobs
    /\ MaxRetries \in Nat /\ MaxFaults \in Nat /\ MaxCrashes \in Nat
    /\ IsFiniteSet(Jobs) /\ IsFiniteSet(Slots)
    /\ Subnets # {}

VARIABLES
    job,        \* the table: one row per job id
    subnets,    \* the subnets that exist
    worker,     \* per goroutine: where it is, its job id and its copy of the row
    caller,     \* per API request: where it is, and its copy of the row
    faults,     \* database calls that failed so far
    crashes,    \* replica crashes so far
    attempts,   \* history: how often each job was claimed
    published   \* history: how often "scan completed" was published for a job

vars == <<job, subnets, worker, caller, faults, crashes, attempts, published>>

Active   == {"pending", "scanning"}
Terminal == {"completed", "failed", "cancelled"}
NoRow    == {"none", "gone"}      \* not created yet, deleted with its subnet

Row == [subnet: Subnets, status: Active \cup Terminal \cup NoRow,
        retries: 0..(MaxRetries + 1), due: BOOLEAN]

Workers == Replicas \X Slots

\* The steps of processJob, in order; "observeN" are the cancel checks.
WorkerPC == {"idle", "observe1", "prepare", "observe2", "writeSweeping", "sweep",
             "observe3", "writeSwept", "record", "observe4", "writeCompleted",
             "publish", "retryRead", "retryWrite"}

TypeOK ==
    /\ job \in [Jobs -> Row]
    /\ subnets \subseteq Subnets
    /\ worker \in [Workers -> [at: WorkerPC, id: Jobs \cup {NoJob}, row: Row]]
    /\ caller \in [Callers -> [at: {"idle", "create", "cancel"},
                               id: Jobs \cup {NoJob}, row: Row]]
    /\ faults \in 0..MaxFaults
    /\ crashes \in 0..MaxCrashes
    /\ attempts \in [Jobs -> Nat]
    /\ published \in [Jobs -> Nat]

BlankRow == [subnet |-> CHOOSE s \in Subnets : TRUE, status |-> "none",
             retries |-> 0, due |-> TRUE]
Idle     == [at |-> "idle", id |-> NoJob, row |-> BlankRow]

Init ==
    /\ job = [j \in Jobs |-> BlankRow]
    /\ subnets = Subnets
    /\ worker = [w \in Workers |-> Idle]
    /\ caller = [c \in Callers |-> Idle]
    /\ faults = 0
    /\ crashes = 0
    /\ attempts = [j \in Jobs |-> 0]
    /\ published = [j \in Jobs |-> 0]

-----------------------------------------------------------------------------
(* The job table. *)

Exists(j) == job[j].status \notin NoRow

\* UpdateScanJob: the whole row, or ErrNotFound when the row is gone.
UpdateScanJob(j, r) == job' = IF Exists(j) THEN [job EXCEPT ![j] = r] ELSE job

\* A database call that fails and changes nothing.
DBFault == faults < MaxFaults /\ faults' = faults + 1

ActiveScanForSubnet(s) == \E j \in Jobs : job[j].subnet = s /\ job[j].status \in Active

\* Faulty variants of Due: claims running jobs, failed jobs, or compares
\* next_retry_at the wrong way round.
DueRunning(j)  == job[j].status \in Active /\ job[j].due
DueFailed(j)   == job[j].status \in {"pending", "failed"} /\ job[j].due
DueReversed(j) == job[j].status = "pending" /\ ~job[j].due

Due(j) == job[j].status = "pending" /\ job[j].due

-----------------------------------------------------------------------------
(* API requests. *)

Reply(c) == caller' = [caller EXCEPT ![c] = Idle]

\* StartScan up to the active-scan check: one read-only transaction that lets
\* the request go on (a refusal changes nothing and is not a step).
StartScanCheck(c, s) ==
    /\ caller[c].at = "idle"
    /\ s \in subnets
    /\ ~ActiveScanForSubnet(s)
    /\ caller' = [caller EXCEPT ![c] = [at |-> "create", id |-> NoJob,
                      row |-> [BlankRow EXCEPT !.subnet = s, !.status = "pending"]]]
    /\ UNCHANGED <<job, subnets, worker, faults, crashes, attempts, published>>

\* StartScan's CreateScanJob, in a transaction of its own.  The foreign key
\* refuses the row when the subnet was deleted meanwhile.
StartScanCreate(c) ==
    /\ caller[c].at = "create"
    /\ IF caller[c].row.subnet \in subnets
       THEN \E j \in Jobs : /\ job[j].status = "none"
                            /\ job' = [job EXCEPT ![j] = caller[c].row]
       ELSE UNCHANGED job
    /\ Reply(c)
    /\ UNCHANGED <<subnets, worker, faults, crashes, attempts, published>>

\* CancelScan's read: a missing or finished job is refused.
CancelScanRead(c, j) ==
    /\ caller[c].at = "idle"
    /\ job[j].status \in Active
    /\ caller' = [caller EXCEPT ![c] = [at |-> "cancel", id |-> j, row |-> job[j]]]
    /\ UNCHANGED <<job, subnets, worker, faults, crashes, attempts, published>>

\* CancelScan's write: the copy read before, marked cancelled.
CancelScanWrite(c) ==
    /\ caller[c].at = "cancel"
    /\ UpdateScanJob(caller[c].id, [caller[c].row EXCEPT !.status = "cancelled"])
    /\ Reply(c)
    /\ UNCHANGED <<subnets, worker, faults, crashes, attempts, published>>

\* DeleteSubnet: the foreign key cascades to the subnet's scan jobs.
DeleteSubnet(s) ==
    /\ s \in subnets
    /\ subnets' = subnets \ {s}
    /\ job' = [j \in Jobs |-> IF job[j].subnet = s /\ Exists(j)
                              THEN [job[j] EXCEPT !.status = "gone"] ELSE job[j]]
    /\ UNCHANGED <<worker, caller, faults, crashes, attempts, published>>

-----------------------------------------------------------------------------
(* The worker pool. *)

\* Which job each goroutine of a pool gets from the claimed batch.
Assignments(batch) ==
    {f \in [Slots -> batch \cup {NoJob}] :
        \A j \in batch : \E s \in Slots : f[s] = j /\ \A t \in Slots \ {s} : f[t] # j}

\* RunOnce and ClaimDueScanJobs: when the previous batch is finished, claim as
\* many due jobs as the pool has goroutines and hand each to one of them.
RunOnce(r) ==
    /\ \A s \in Slots : worker[<<r, s>>].at = "idle"
    /\ \E batch \in SUBSET {j \in Jobs : Due(j)} :
         /\ batch # {}
         /\ Cardinality(batch) <= Cardinality(Slots)
         /\ \/ Cardinality(batch) = Cardinality(Slots)
            \/ batch = {j \in Jobs : Due(j)}
         /\ job' = [j \in Jobs |-> IF j \in batch
                                   THEN [job[j] EXCEPT !.status = "scanning"] ELSE job[j]]
         /\ attempts' = [j \in Jobs |-> IF j \in batch THEN attempts[j] + 1 ELSE attempts[j]]
         /\ \E f \in Assignments(batch) :
              worker' = [w \in Workers |->
                  IF w[1] = r /\ f[w[2]] # NoJob
                  THEN [at |-> "observe1", id |-> f[w[2]],
                        row |-> [job[f[w[2]]] EXCEPT !.status = "scanning"]]
                  ELSE worker[w]]
    /\ UNCHANGED <<subnets, caller, faults, crashes, published>>

GoTo(w, pc) == worker' = [worker EXCEPT ![w].at = pc]
Stop(w)     == worker' = [worker EXCEPT ![w] = Idle]

\* Where processJob goes on after each cancel check that finds nothing.
AfterCheck == [observe1 |-> "prepare", observe2 |-> "writeSweeping",
               observe3 |-> "writeSwept", observe4 |-> "writeCompleted"]

\* observeCancel: re-read the row and stop when it is cancelled.  A failed
\* read counts as "not cancelled".
observeCancel(w) ==
    /\ worker[w].at \in DOMAIN AfterCheck
    /\ \/ /\ job[worker[w].id].status = "cancelled"
          /\ Stop(w)
          /\ UNCHANGED faults
       \/ /\ job[worker[w].id].status # "cancelled"
          /\ GoTo(w, AfterCheck[worker[w].at])
          /\ UNCHANGED faults
       \/ /\ job[worker[w].id].status = "cancelled"
          /\ DBFault
          /\ GoTo(w, AfterCheck[worker[w].at])
    /\ UNCHANGED <<job, subnets, caller, crashes, attempts, published>>

\* The stages that work outside the job table and may fail for many reasons
\* (credentials, a changed CIDR, the network, another table), and what follows.
AfterWork == [prepare |-> "observe2", sweep |-> "observe3", record |-> "observe4"]

\* Load the subnet, its credentials and targets; sweep; record the live hosts
\* and run the SNMP and ARP phases.  Loading a deleted subnet always fails.
Work(w) ==
    /\ worker[w].at \in DOMAIN AfterWork
    /\ \/ /\ worker[w].at = "prepare" => worker[w].row.subnet \in subnets
          /\ GoTo(w, AfterWork[worker[w].at])
       \/ GoTo(w, "retryRead")
    /\ UNCHANGED <<job, subnets, caller, faults, crashes, attempts, published>>

AfterWrite == [writeSweeping |-> "sweep", writeSwept |-> "record"]

\* The two progress writes; their errors are ignored.
WriteProgress(w) ==
    /\ worker[w].at \in DOMAIN AfterWrite
    /\ \/ UpdateScanJob(worker[w].id, worker[w].row) /\ UNCHANGED faults
       \/ UNCHANGED job /\ DBFault
    /\ GoTo(w, AfterWrite[worker[w].at])
    /\ UNCHANGED <<subnets, caller, crashes, attempts, published>>

\* Faulty variant: the error of the completing write is not returned.
WriteCompletedIgnoringError(w) ==
    /\ worker[w].at = "writeCompleted"
    /\ \/ /\ UpdateScanJob(worker[w].id, [worker[w].row EXCEPT !.status = "completed"])
          /\ UNCHANGED faults
       \/ UNCHANGED job /\ DBFault
    /\ GoTo(w, "publish")
    /\ UNCHANGED <<subnets, caller, crashes, attempts, published>>

\* The completing write; without it nothing is published.
WriteCompleted(w) ==
    /\ worker[w].at = "writeCompleted"
    /\ \/ /\ UpdateScanJob(worker[w].id, [worker[w].row EXCEPT !.status = "completed"])
          /\ IF Exists(worker[w].id) THEN GoTo(w, "publish") ELSE Stop(w)
          /\ UNCHANGED faults
       \/ UNCHANGED job /\ DBFault /\ Stop(w)
    /\ UNCHANGED <<subnets, caller, crashes, attempts, published>>

\* Publish "scan completed"; the port correlation that follows is another component.
Publish(w) ==
    /\ worker[w].at = "publish"
    /\ published' = [published EXCEPT ![worker[w].id] = @ + 1]
    /\ Stop(w)
    /\ UNCHANGED <<job, subnets, caller, faults, crashes, attempts>>

\* Faulty variant: no re-read before the retry is scheduled.
RetryReadSkipped(w) ==
    /\ worker[w].at = "retryRead"
    /\ GoTo(w, "retryWrite")
    /\ UNCHANGED <<job, subnets, caller, faults, crashes, attempts, published>>

\* retryOrFail's re-read: leave a cancelled job alone.
RetryRead(w) ==
    /\ worker[w].at = "retryRead"
    /\ \/ /\ job[worker[w].id].status = "cancelled"
          /\ Stop(w)
          /\ UNCHANGED faults
       \/ /\ job[worker[w].id].status # "cancelled"
          /\ GoTo(w, "retryWrite")
          /\ UNCHANGED faults
       \/ /\ job[worker[w].id].status = "cancelled"
          /\ DBFault
          /\ GoTo(w, "retryWrite")
    /\ UNCHANGED <<job, subnets, caller, crashes, attempts, published>>

\* Faulty variants: the retry is not counted; one retry too many.
RetryRowUncounted(row) == [row EXCEPT !.status = "pending", !.due = FALSE]
RetryRowOffByOne(row)  ==
    IF row.retries > MaxRetries
    THEN [row EXCEPT !.retries = @ + 1, !.status = "failed"]
    ELSE [row EXCEPT !.retries = @ + 1, !.status = "pending", !.due = FALSE]

\* The row retryOrFail stores: pending with a backed-off next_retry_at, or
\* failed once the retries are used up.
RetryRow(row) ==
    IF row.retries + 1 > MaxRetries
    THEN [row EXCEPT !.retries = @ + 1, !.status = "failed"]
    ELSE [row EXCEPT !.retries = @ + 1, !.status = "pending", !.due = FALSE]

\* retryOrFail's write.
retryOrFail(w) ==
    /\ worker[w].at = "retryWrite"
    /\ \/ UpdateScanJob(worker[w].id, RetryRow(worker[w].row)) /\ UNCHANGED faults
       \/ UNCHANGED job /\ DBFault
    /\ Stop(w)
    /\ UNCHANGED <<subnets, caller, crashes, attempts, published>>

\* The clock passes next_retry_at.
BecomeDue(j) ==
    /\ job[j].status = "pending" /\ ~job[j].due
    /\ job' = [job EXCEPT ![j].due = TRUE]
    /\ UNCHANGED <<subnets, worker, caller, faults, crashes, attempts, published>>

\* A replica dies and restarts: its goroutines and their copies are lost.
Crash(r) ==
    /\ crashes < MaxCrashes
    /\ \E s \in Slots : worker[<<r, s>>].at # "idle"
    /\ crashes' = crashes + 1
    /\ worker' = [w \in Workers |-> IF w[1] = r THEN Idle ELSE worker[w]]
    /\ UNCHANGED <<job, subnets, caller, faults, attempts, published>>

-----------------------------------------------------------------------------

WorkerStep(w) ==
    \/ observeCancel(w) \/ Work(w) \/ WriteProgress(w) \/ WriteCompleted(w)
    \/ Publish(w) \/ RetryRead(w) \/ retryOrFail(w)

Next ==
    \/ \E c \in Callers : \/ \E s \in Subnets : StartScanCheck(c, s)
                          \/ StartScanCreate(c)
                          \/ \E j \in Jobs : CancelScanRead(c, j)
                          \/ CancelScanWrite(c)
    \/ \E s \in Subnets : DeleteSubnet(s)
    \/ \E r \in Replicas : RunOnce(r) \/ Crash(r)
    \/ \E w \in Workers : WorkerStep(w)
    \/ \E j \in Jobs : BecomeDue(j)

Spec == Init /\ [][Next]_vars

\* Run's ticker calls RunOnce for ever, goroutines are scheduled, time passes.
\* Nothing is assumed of API requests, deletions, faults or crashes.
Fairness ==
    /\ \A r \in Replicas : WF_vars(RunOnce(r))
    /\ \A w \in Workers : WF_vars(WorkerStep(w))
    /\ \A j \in Jobs : WF_vars(BecomeDue(j))

FairSpec == Spec /\ Fairness

-----------------------------------------------------------------------------
(* Properties. *)

Busy(w) == worker[w].at # "idle"

\* No two goroutines, of one replica or of two, ever process the same job:
\* ClaimDueScanJobs takes pending rows only, and a row becomes pending again
\* only by the last write of the goroutine that held it.
OneWorkerPerJob ==
    \A v, w \in Workers :
        Busy(v) /\ Busy(w) /\ worker[v].id = worker[w].id => v = w

\* A job is run at most 1 + MaxRetries times, and is failed only after all of
\* them, although every writer of the row (also a cancel that read it several
\* attempts ago) stores the retry count of its own copy.
AttemptsBounded ==
    \A j \in Jobs : /\ attempts[j] <= MaxRetries + 1
                    /\ job[j].status = "failed" => attempts[j] = MaxRetries + 1

\* "scan completed" is published at most once per job, and only for a job that
\* was stored as completed (a late cancel or deletion may follow).
CompletedOnce ==
    \A j \in Jobs : /\ published[j] <= 1
                    /\ published[j] = 1 => job[j].status \in {"completed", "cancelled", "gone"}

\* A completed or failed job never becomes active again.
NoRevival ==
    [][\A j \in Jobs : job[j].status \in {"completed", "failed"} =>
            job'[j].status \in {job[j].status, "cancelled", "gone"}]_vars

\* A worker between a cancel check and the write that follows it.
InWindow(w) == worker[w].at \in {"writeSweeping", "writeSwept", "writeCompleted", "retryWrite"}

CancelSettled(j) ==
    /\ job[j].status = "cancelled"
    /\ \A w \in Workers : worker[w].id = j => ~InWindow(w)

\* The cancel checks bound the race exactly: a cancel stored while no worker
\* of the job is between a check and its write is final, whatever the worker
\* does next, unless the database fails the worker's next check.
CancelFinalOutsideWindow ==
    [][\A j \in Jobs : CancelSettled(j) /\ faults' = faults =>
            CancelSettled(j)' \/ job'[j].status = "gone"]_vars

\* A job left "scanning" with no goroutine working on it (a crash, or a failed
\* last write): nothing in the code picks it up again.
Orphan(j) == job[j].status = "scanning" /\ \A w \in Workers : Busy(w) => worker[w].id # j

\* Every queued scan ends: it completes, fails, is cancelled or deleted, or is
\* orphaned.  No job waits for ever behind others or behind its own retries.
QueuedSettles ==
    \A j \in Jobs : job[j].status = "pending" ~>
        (job[j].status \in Terminal \cup {"gone"} \/ Orphan(j))

(* What the documentation says, and a race refutes. *)

\* "Cancel stops a pending or scanning job; it ends cancelled."
\* (docs/help/guides/scans.md:75)
CancelledStays ==
    [][\A j \in Jobs : job[j].status = "cancelled" => job'[j].status \in {"cancelled", "gone"}]_vars

=============================================================================
