------------------------------ MODULE HostSync ------------------------------
(***************************************************************************)
(* The host sync of one tenant (internal/hostsync): replicas that poll the *)
(* inventory module for changed host reports and reconcile digests, an     *)
(* administrator who re-syncs one device, and the settings row and device  *)
(* rows they share in Postgres (internal/repo/repodb/hostsync.go).         *)
(*                                                                         *)
(* A report's content is named by the inventory time it last changed, so   *)
(* the digest of a report, the digest stored on a device and changed_at    *)
(* are one number; 0 is "no report" or "no device".  Each database call    *)
(* and each inventory call is one step.  The transaction of an apply is    *)
(* two: it takes the tenant's advisory lock and FOR SHARE on the settings  *)
(* row, and it commits or fails.  Other tenants appear only as the choice  *)
(* a cycle makes between backing off and advancing its global watermark.   *)
(***************************************************************************)
EXTENDS Integers

CONSTANTS
    Hosts,      \* inventory hosts of the tenant
    Malformed,  \* hosts whose reports fail hostreport.Normalize
    Runners,    \* replicas, one Runner each
    Admins,     \* ResyncDevice calls that can be in flight together
    NoProc,
    MaxClock,   \* bound on the number of report changes
    MaxEvents   \* bound on the number of everything else that others do

ASSUME HostSyncConstantsOK ==
    /\ Malformed \subseteq Hosts
    /\ Runners \cap Admins = {}
    /\ NoProc \notin Runners \cup Admins
    /\ MaxClock \in Nat /\ MaxEvents \in Nat

VARIABLES
    at,         \* inventory: when each host's report last changed, 0 = none
    retired,    \* inventory: hosts with status retired
    clock,      \* inventory: the newest change of all
    enabled,    \* settings row: the tenant's switch
    requested,  \* settings row: reconcile_requested
    fresh,      \* settings row: last_reconcile_at is within the full interval
    since,      \* settings row: changed_since, the tenant's watermark
    digest,     \* devices: report_digest, 0 = no device
    reported,   \* devices: those with report_state reported
    lock,       \* who holds the apply transaction's locks
    pc,         \* per process
    mode,       \* per process: where its apply was called from
    row,        \* per process: the report being applied
    page,       \* per runner: rows read and not yet handled
    more,       \* runners whose listing has another page
    cursor,     \* per runner: changed_at of the last row listed
    known,      \* per runner: deviceDigests, report_digest as read
    live,       \* per runner: deviceDigests, devices then reported
    seen,       \* per runner: hosts of the digest listing
    mark,       \* per runner: the watermark of the current poll
    failed,     \* runners whose current run has failed hosts
    due,        \* runners whose current run reconciles
    result,     \* per runner: how the run ended
    retry,      \* runners remembering the tenant in Runner.retry
    global,     \* per runner: globalSince
    newest,     \* per runner: max_changed_at of the current cycle
    backoff,    \* runners waiting for nextAttempt
    handled,    \* history: reports applied, found unchanged or rejected
    events      \* what others did so far, report changes excepted

inventory == <<at, retired, clock>>
settings  == <<enabled, requested, fresh, since>>
devices   == <<digest, reported, handled>>
scan      == <<page, more, cursor, known, live, seen, due>>
outcome   == <<mark, failed, result>>
poll      == <<scan, outcome>>
memory    == <<retry, global, newest, backoff>>
vars      == <<inventory, settings, devices, lock, pc, mode, row, poll, memory, events>>

Procs   == Runners \cup Admins
Times   == 0 .. clock
Report  == [host : Hosts, at : Times \ {0}, status : {"active", "retired"}]
PCs     == {"idle", "begin", "digests", "list", "rows", "recdigests", "reclist",
            "recrows", "absent", "save", "fresh", "apply", "mark", "applytx", "marktx"}
Modes   == {"none", "poll", "reconcile", "retired", "absent", "deleted", "resync"}
Results == {"ok", "reconciled", "unavailable", "internal", "disabled"}

\* Every variable has its type; no time a replica holds is later than the
\* newest change, in particular no watermark is past every report.
TypeOK ==
    /\ clock \in Nat /\ at \in [Hosts -> Times] /\ retired \subseteq Hosts
    /\ enabled \in BOOLEAN /\ requested \in BOOLEAN /\ fresh \in BOOLEAN
    /\ since \in Times
    /\ digest \in [Hosts -> Times] /\ reported \subseteq Hosts
    /\ lock \in Procs \cup {NoProc}
    /\ pc \in [Procs -> PCs] /\ mode \in [Procs -> Modes]
    /\ row \in [Procs -> Report \cup {<<>>}]
    /\ page \in [Runners -> SUBSET Report]
    /\ more \subseteq Runners /\ failed \subseteq Runners /\ due \subseteq Runners
    /\ cursor \in [Runners -> Times] /\ mark \in [Runners -> Times]
    /\ known \in [Runners -> [Hosts -> Times]]
    /\ live \in [Runners -> SUBSET Hosts] /\ seen \in [Runners -> SUBSET Hosts]
    /\ result \in [Runners -> Results]
    /\ retry \subseteq Runners /\ backoff \subseteq Runners
    /\ global \in [Runners -> Times] /\ newest \in [Runners -> Times]
    /\ handled \subseteq Hosts \X Times
    /\ events \in 0 .. MaxEvents

Init ==
    /\ at = [h \in Hosts |-> 0] /\ retired = {} /\ clock = 0
    /\ enabled = TRUE /\ requested = FALSE /\ fresh = FALSE /\ since = 0
    /\ digest = [h \in Hosts |-> 0] /\ reported = {} /\ handled = {}
    /\ lock = NoProc
    /\ pc = [p \in Procs |-> "idle"] /\ mode = [p \in Procs |-> "none"]
    /\ row = [p \in Procs |-> <<>>]
    /\ page = [r \in Runners |-> {}] /\ more = {} /\ failed = {} /\ due = {}
    /\ cursor = [r \in Runners |-> 0] /\ mark = [r \in Runners |-> 0]
    /\ known = [r \in Runners |-> [h \in Hosts |-> 0]]
    /\ live = [r \in Runners |-> {}] /\ seen = [r \in Runners |-> {}]
    /\ result = [r \in Runners |-> "ok"]
    /\ retry = {} /\ backoff = {}
    /\ global = [r \in Runners |-> 0] /\ newest = [r \in Runners |-> 0]
    /\ events = 0

-----------------------------------------------------------------------------
\* The inventory module (external).  Every change of a report gets a later
\* report_changed_at; retiring a host changes its status only.

Listed(t) == {h \in Hosts : at[h] > t}
Status(h) == IF h \in retired THEN "retired" ELSE "active"
Latest(h) == [host |-> h, at |-> at[h], status |-> Status(h)]

ReportChanges(h) ==
    /\ clock < MaxClock
    /\ clock' = clock + 1
    /\ at' = [at EXCEPT ![h] = clock + 1]
    /\ UNCHANGED <<retired, settings, devices, lock, pc, mode, row, poll, memory>>

HostRetired(h) ==
    /\ retired' = IF h \in retired THEN retired \ {h} ELSE retired \cup {h}
    /\ UNCHANGED <<at, clock, settings, devices, lock, pc, mode, row, poll, memory>>

HostDeleted(h) ==
    /\ at[h] # 0
    /\ at' = [at EXCEPT ![h] = 0]
    /\ UNCHANGED <<retired, clock, settings, devices, lock, pc, mode, row, poll, memory>>

-----------------------------------------------------------------------------
\* The settings row.  An UPDATE of it waits for the FOR SHARE lock of every
\* apply transaction.

SettingsUpdatableNoWait == TRUE

SettingsUpdatable == lock = NoProc

AskReconcile == requested' = TRUE

UpdateSettings(on) ==
    /\ SettingsUpdatable
    /\ IF on /\ ~enabled THEN AskReconcile ELSE UNCHANGED requested
    /\ enabled' = on
    /\ UNCHANGED <<fresh, since, inventory, devices, lock, pc, mode, row, poll, memory>>

ResyncAll ==
    /\ enabled
    /\ SettingsUpdatable
    /\ AskReconcile
    /\ UNCHANGED <<enabled, fresh, since, inventory, devices, lock, pc, mode, row, poll, memory>>

\* The full interval since last_reconcile_at has passed.
IntervalPasses ==
    /\ fresh
    /\ fresh' = FALSE
    /\ UNCHANGED <<enabled, requested, since, inventory, devices, lock, pc, mode, row, poll, memory>>

reconcileDue == requested \/ ~fresh

-----------------------------------------------------------------------------
\* Runner.Cycle and the start of RunTenant.

GoTo(p, l) == pc' = [pc EXCEPT ![p] = l]

TenantDue(r) == Listed(global[r]) # {} \/ r \in retry \/ (enabled /\ reconcileDue)

\* ListReportTenants, ListHostSyncSettings and the retry map.  A cycle in
\* which the tenant is not due only advances the global watermark.
Cycle(r) ==
    /\ pc[r] = "idle" /\ r \notin backoff
    /\ IF TenantDue(r)
       THEN /\ GoTo(r, "begin")
            /\ newest' = [newest EXCEPT ![r] = clock]
            /\ UNCHANGED <<global, retry, backoff>>
       ELSE /\ global' = [global EXCEPT ![r] = clock]
            /\ UNCHANGED <<pc, newest, retry, backoff>>
    /\ UNCHANGED <<inventory, settings, devices, lock, mode, row, poll>>

\* The cycle ends: with ErrUnavailable first among the tenants' errors it
\* backs off, else it moves the global watermark.
EndCycle(r) ==
    /\ GoTo(r, "idle")
    /\ newest' = [newest EXCEPT ![r] = 0]
    /\ \/ backoff' = backoff \cup {r} /\ UNCHANGED global
       \/ global' = [global EXCEPT ![r] = newest[r]] /\ UNCHANGED backoff

BackoffEnds(r) ==
    /\ r \in backoff
    /\ backoff' = backoff \ {r}
    /\ UNCHANGED <<inventory, settings, devices, lock, pc, mode, row, poll, retry, global, newest>>

\* RunTenant: EnsureHostSyncSettings, and the early return when disabled.
RunTenant(r) ==
    /\ pc[r] = "begin"
    /\ IF enabled
       THEN /\ GoTo(r, "digests")
            /\ cursor' = [cursor EXCEPT ![r] = since]
            /\ due' = IF reconcileDue THEN due \cup {r} ELSE due
            /\ UNCHANGED <<page, more, known, live, seen, outcome, memory>>
       ELSE /\ SettingsUpdatable  \* saveState: disabled
            /\ EndCycle(r)
            /\ retry' = retry \ {r}
            /\ UNCHANGED poll
    /\ UNCHANGED <<inventory, settings, devices, lock, mode, row>>

\* What poll and reconcile hold is gone when they return.
Forget(r) ==
    /\ page' = [page EXCEPT ![r] = {}]
    /\ cursor' = [cursor EXCEPT ![r] = 0]
    /\ known' = [known EXCEPT ![r] = [h \in Hosts |-> 0]]
    /\ live' = [live EXCEPT ![r] = {}]
    /\ seen' = [seen EXCEPT ![r] = {}]
    /\ more' = more \ {r}
    /\ due' = due \ {r}

\* poll or reconcile returns; what follows is SaveHostSyncState.
EndRun(r, res) ==
    /\ GoTo(r, "save")
    /\ result' = [result EXCEPT ![r] = res]
    /\ Forget(r)

-----------------------------------------------------------------------------
\* poll: the device digests, then page by page the reports changed after the
\* tenant's watermark, oldest change first.

ReadDigests(r) ==
    /\ known' = [known EXCEPT ![r] = digest]
    /\ live' = [live EXCEPT ![r] = reported]
    /\ UNCHANGED <<inventory, settings, devices, lock, mode, row, page, more, cursor, seen,
                   mark, failed, due, result, memory>>

deviceDigests(r) ==
    /\ pc[r] = "digests"
    /\ GoTo(r, "list")
    /\ ReadDigests(r)

\* A page is a prefix of the listing of any length: inventory bounds it by
\* row count and by bytes.
ListHostReports(r) ==
    /\ pc[r] = "list"
    /\ GoTo(r, "rows")
    /\ \/ /\ Listed(cursor[r]) = {}
          /\ more' = more \ {r}
          /\ UNCHANGED <<page, cursor>>
       \/ \E last \in Listed(cursor[r]) :
             LET hs == {h \in Listed(cursor[r]) : at[h] <= at[last]}
             IN  /\ page' = [page EXCEPT ![r] = {Latest(h) : h \in hs}]
                 /\ cursor' = [cursor EXCEPT ![r] = at[last]]
                 /\ more' = IF hs = Listed(cursor[r]) THEN more \ {r} ELSE more \cup {r}
    /\ UNCHANGED <<inventory, settings, devices, lock, mode, row, known, live, seen, mark,
                   failed, due, result, memory>>

\* The next row: a listing is ordered by changed_at.
Oldest(rows) == {x \in rows : \A y \in rows : x.at <= y.at}

AdvancedToNow(r, x) == IF r \in failed THEN mark[r] ELSE clock

AdvancedOffByOne(r, x) == IF r \in failed THEN mark[r] ELSE x.at + 1

\* The watermark after row x was applied, skipped or rejected.
Advanced(r, x) == IF r \notin failed /\ x.at > mark[r] THEN x.at ELSE mark[r]

UnchangedAnyState(r, x) == known[r][x.host] = x.at

\* The digest shortcut: the device is reported with the report's digest.
Unchanged(r, x) == x.host \in live[r] /\ known[r][x.host] = x.at

Handled(x) == handled' = handled \cup {<<x.host, x.at>>}

\* Apply is called: a retired host is only marked as no longer reported.
CallApply(p, m, x) ==
    /\ mode' = [mode EXCEPT ![p] = m]
    /\ row' = [row EXCEPT ![p] = x]
    /\ GoTo(p, IF x.status = "retired" THEN "mark" ELSE "apply")

handlePolled(r) ==
    /\ pc[r] = "rows"
    /\ \E x \in Oldest(page[r]) :
          /\ page' = [page EXCEPT ![r] = @ \ {x}]
          /\ IF Unchanged(r, x) \/ x.host \in Malformed
             THEN /\ mark' = [mark EXCEPT ![r] = Advanced(r, x)]
                  /\ Handled(x)
                  /\ UNCHANGED <<pc, mode, row>>
             ELSE /\ CallApply(r, "poll", x)
                  /\ UNCHANGED <<mark, handled>>
    /\ UNCHANGED <<inventory, settings, digest, reported, lock, more, cursor, known, live,
                   seen, failed, due, result, memory>>

PageDone(r) ==
    /\ pc[r] = "rows" /\ page[r] = {}
    /\ IF r \in more
       THEN GoTo(r, "list") /\ UNCHANGED <<scan, result>>
       ELSE IF r \in due
       THEN GoTo(r, "recdigests") /\ UNCHANGED <<scan, result>>
       ELSE EndRun(r, "ok")
    /\ UNCHANGED <<inventory, settings, devices, lock, mode, row, mark, failed, memory>>

-----------------------------------------------------------------------------
\* reconcile: digests of every host, then the hosts that differ, then the
\* devices whose host the listing did not have.

reconcileDigests(r) ==
    /\ pc[r] = "recdigests"
    /\ GoTo(r, "reclist")
    /\ ReadDigests(r)

reconcileList(r) ==
    /\ pc[r] = "reclist"
    /\ GoTo(r, "recrows")
    /\ page' = [page EXCEPT ![r] = {Latest(h) : h \in Listed(0)}]
    /\ seen' = [seen EXCEPT ![r] = Listed(0)]
    /\ UNCHANGED <<inventory, settings, devices, lock, mode, row, more, cursor, known, live,
                   mark, failed, due, result, memory>>

\* handle with the report just fetched by GetHostReport.
HandleFetched(r, m, h) ==
    IF h \in Malformed
    THEN /\ Handled(Latest(h))
         /\ UNCHANGED <<pc, mode, row>>
    ELSE /\ CallApply(r, m, Latest(h))
         /\ UNCHANGED handled

reconcileRow(r) ==
    /\ pc[r] = "recrows"
    /\ \E x \in Oldest(page[r]) :
          /\ page' = [page EXCEPT ![r] = @ \ {x}]
          /\ IF x.status = "retired"
             THEN IF x.host \in live[r]
                  THEN CallApply(r, "retired", x) /\ UNCHANGED handled
                  ELSE UNCHANGED <<pc, mode, row, handled>>
             ELSE IF Unchanged(r, x) \/ at[x.host] = 0  \* same digest, or ErrNotFound
             THEN UNCHANGED <<pc, mode, row, handled>>
             ELSE HandleFetched(r, "reconcile", x.host)
    /\ UNCHANGED <<inventory, settings, digest, reported, lock, more, cursor, known, live,
                   seen, mark, failed, due, result, memory>>

reconcileListed(r) ==
    /\ pc[r] = "recrows" /\ page[r] = {}
    /\ GoTo(r, "absent")
    /\ UNCHANGED <<inventory, settings, devices, lock, mode, row, poll, memory>>

Missing(r) == live[r] \ seen[r]

\* GetHostReport confirms that a host is gone before its device is marked.
reconcileAbsent(r) ==
    /\ pc[r] = "absent"
    /\ \E h \in Missing(r) :
          /\ seen' = [seen EXCEPT ![r] = @ \cup {h}]
          /\ IF at[h] = 0
             THEN /\ CallApply(r, "deleted", [host |-> h, at |-> known[r][h], status |-> "retired"])
                  /\ UNCHANGED handled
             ELSE HandleFetched(r, "absent", h)
    /\ UNCHANGED <<inventory, settings, digest, reported, lock, page, more, cursor, known,
                   live, mark, failed, due, result, memory>>

reconcileDone(r) ==
    /\ pc[r] = "absent" /\ Missing(r) = {}
    /\ EndRun(r, "reconciled")
    /\ UNCHANGED <<inventory, settings, devices, lock, mode, row, mark, failed, memory>>

-----------------------------------------------------------------------------
\* ApplyHostReport, called by every path above and by ResyncDevice.

InTx(p) == pc[p] \in {"applytx", "marktx"}

\* Where a process continues once its report is applied.
Resume(p) == CASE mode[p] = "poll"                     -> "rows"
               [] mode[p] \in {"reconcile", "retired"} -> "recrows"
               [] mode[p] \in {"absent", "deleted"}    -> "absent"
               [] OTHER                                -> "idle"

Return(p) ==
    /\ mode' = [mode EXCEPT ![p] = "none"]
    /\ row' = [row EXCEPT ![p] = <<>>]

\* The advisory lock, then enabled read FOR SHARE: ErrSyncDisabled ends the
\* run, or the re-sync.
ApplyBegin(p) ==
    /\ pc[p] \in {"apply", "mark"}
    /\ lock = NoProc
    /\ IF enabled
       THEN /\ lock' = p
            /\ GoTo(p, IF pc[p] = "apply" THEN "applytx" ELSE "marktx")
            /\ UNCHANGED <<mode, row, scan, result>>
       ELSE /\ Return(p)
            /\ IF p \in Runners
               THEN EndRun(p, "disabled")
               ELSE GoTo(p, "idle") /\ UNCHANGED <<scan, result>>
            /\ UNCHANGED lock
    /\ UNCHANGED <<inventory, settings, devices, mark, failed, memory>>

\* The commit.  The device carries the report, or markGone marks the device
\* if there is one and it is reported.
ApplyCommit(p) ==
    /\ InTx(p)
    /\ LET x == row[p]
       IN  /\ IF pc[p] = "applytx"
              THEN /\ digest' = [digest EXCEPT ![x.host] = x.at]
                   /\ reported' = reported \cup {x.host}
              ELSE /\ reported' = reported \ {x.host}
                   /\ UNCHANGED digest
           /\ Handled(x)
           /\ mark' = IF mode[p] = "poll" THEN [mark EXCEPT ![p] = Advanced(p, x)] ELSE mark
    /\ lock' = NoProc
    /\ GoTo(p, Resume(p)) /\ Return(p)
    /\ UNCHANGED <<inventory, settings, scan, failed, result, memory>>

\* The transaction fails: the host counts as failed and the run goes on,
\* but a markGone called by reconcile itself ends the run.
ApplyFails(p) ==
    /\ InTx(p)
    /\ lock' = NoProc
    /\ Return(p)
    /\ IF mode[p] \in {"retired", "deleted"}
       THEN EndRun(p, "internal") /\ UNCHANGED failed
       ELSE /\ GoTo(p, Resume(p))
            /\ failed' = failed \cup ({p} \cap Runners)
            /\ UNCHANGED <<scan, result>>
    /\ UNCHANGED <<inventory, settings, devices, mark, memory>>

-----------------------------------------------------------------------------
\* The end of RunTenant: SaveHostSyncState, the retry map and the cycle.

SaveState(r) ==
    /\ since' = IF mark[r] # 0 THEN mark[r] ELSE since
    /\ requested' = (requested /\ result[r] # "reconciled")
    /\ fresh' = (fresh \/ result[r] = "reconciled")
    /\ UNCHANGED enabled

Save(r, ok) ==
    /\ pc[r] = "save"
    /\ SettingsUpdatable
    /\ IF ok THEN SaveState(r) ELSE UNCHANGED settings
    /\ retry' = IF r \in failed THEN retry \cup {r} ELSE retry \ {r}
    /\ mark' = [mark EXCEPT ![r] = 0]
    /\ failed' = failed \ {r}
    /\ result' = [result EXCEPT ![r] = "ok"]
    /\ EndCycle(r)
    /\ UNCHANGED <<inventory, devices, lock, mode, row, scan>>

\* An inventory or database call fails.  ListReportTenants: back off.  The
\* settings read: the cycle ends.  Later calls: the run ends with the error.
CallFails(r) ==
    \/ /\ pc[r] = "idle" /\ r \notin backoff
       /\ backoff' = backoff \cup {r}
       /\ UNCHANGED <<pc, retry, global, newest, poll>>
    \/ /\ pc[r] = "begin"
       /\ EndCycle(r)
       /\ UNCHANGED <<retry, poll>>
    \/ /\ \/ pc[r] \in {"digests", "recdigests"} /\ EndRun(r, "internal")
          \/ pc[r] \in {"list", "reclist"} /\ EndRun(r, "unavailable")
          \/ pc[r] = "recrows" /\ page[r] # {} /\ EndRun(r, "unavailable")
          \/ pc[r] = "absent" /\ Missing(r) # {} /\ EndRun(r, "unavailable")
       /\ UNCHANGED <<mark, failed, memory>>

RunnerFails(r) ==
    /\ CallFails(r) /\ UNCHANGED <<inventory, settings, devices, lock, mode, row>>

\* The process stops.  Its transaction is rolled back, its memory is lost.
Restart(r) ==
    /\ GoTo(r, "idle") /\ Return(r) /\ Forget(r)
    /\ lock' = IF lock = r THEN NoProc ELSE lock
    /\ mark' = [mark EXCEPT ![r] = 0]
    /\ result' = [result EXCEPT ![r] = "ok"]
    /\ global' = [global EXCEPT ![r] = 0]
    /\ newest' = [newest EXCEPT ![r] = 0]
    /\ failed' = failed \ {r} /\ retry' = retry \ {r} /\ backoff' = backoff \ {r}
    /\ UNCHANGED <<inventory, settings, devices>>

-----------------------------------------------------------------------------
\* ResyncDevice: read the stored report, ask the agent for a newer one and
\* poll for it, apply what was found whatever its digest.

ResyncDevice(a, h) ==
    /\ pc[a] = "idle"
    /\ digest[h] # 0 /\ enabled /\ at[h] # 0 /\ h \notin Malformed
    /\ row' = [row EXCEPT ![a] = Latest(h)]
    /\ GoTo(a, "fresh")
    /\ UNCHANGED <<inventory, settings, devices, lock, mode, poll, memory>>

freshReport(a) ==
    /\ pc[a] = "fresh"
    /\ LET h == row[a].host
       IN  \E x \in {row[a]} \cup {Latest(i) : i \in {h} \cap Listed(row[a].at)} :
              CallApply(a, "resync", x)
    /\ UNCHANGED <<inventory, settings, devices, lock, poll, memory>>

-----------------------------------------------------------------------------
RunnerStep(r) ==
    \/ Cycle(r) \/ BackoffEnds(r) \/ RunTenant(r)
    \/ deviceDigests(r) \/ ListHostReports(r) \/ handlePolled(r) \/ PageDone(r)
    \/ reconcileDigests(r) \/ reconcileList(r) \/ reconcileRow(r) \/ reconcileListed(r)
    \/ reconcileAbsent(r) \/ reconcileDone(r)
    \/ Save(r, TRUE)

ApplyStep(p) == ApplyBegin(p) \/ ApplyCommit(p)

\* What others do besides changing reports: the inventory, administrators,
\* faults and restarts.
Disturbance ==
    \/ \E h \in Hosts : HostRetired(h) \/ HostDeleted(h)
    \/ \E on \in BOOLEAN : UpdateSettings(on)
    \/ ResyncAll
    \/ \E a \in Admins, h \in Hosts : ResyncDevice(a, h)
    \/ \E p \in Procs : ApplyFails(p)
    \/ \E r \in Runners : RunnerFails(r) \/ Save(r, FALSE) \/ Restart(r)

Progress ==
    \/ IntervalPasses
    \/ \E r \in Runners : RunnerStep(r)
    \/ \E a \in Admins : freshReport(a)
    \/ \E p \in Procs : ApplyStep(p)

Next ==
    \/ /\ (\E h \in Hosts : ReportChanges(h)) \/ Progress
       /\ UNCHANGED events
    \/ /\ events < MaxEvents
       /\ events' = events + 1
       /\ Disturbance

Spec == Init /\ [][Next]_vars

\* A replica's loop and its transactions make progress, its back-off ends and
\* the reconcile interval passes.  Nothing is assumed of anyone else.
Fairness ==
    /\ WF_vars(IntervalPasses /\ UNCHANGED events)
    /\ \A r \in Runners : WF_vars((RunnerStep(r) \/ ApplyStep(r)) /\ UNCHANGED events)
    /\ \A a \in Admins : WF_vars((freshReport(a) \/ ApplyStep(a)) /\ UNCHANGED events)

FairSpec == Spec /\ Fairness

-----------------------------------------------------------------------------
\* poll: the watermark "only moves past hosts that were applied (or skipped
\* as unchanged), never past a failed one" (runner.go:348-350).  Every report
\* the tenant's watermark will keep a poll from listing has been handled,
\* whatever replicas, restarts, faults and re-syncs did in between.
WatermarkSafe ==
    \A h \in Hosts : at[h] # 0 /\ at[h] <= since => <<h, at[h]>> \in handled

\* UpdateHostSyncSettings: "no host-sync change commits after a disable
\* commits (SR-006)", although a run in flight read enabled long before.
NoChangeAfterDisable == [][<<digest, reported>>' # <<digest, reported>> => enabled]_vars

\* What a full reconcile leaves when nothing else happens.
InSync ==
    \A h \in Hosts \ Malformed :
       IF at[h] # 0 /\ h \notin retired THEN h \in reported /\ digest[h] = at[h]
       ELSE h \notin reported

\* Once others are quiet and the tenant enabled, every device shows its host's
\* latest report and the devices of retired and deleted hosts are marked, for
\* good: the reconcile repairs what polls, restarts, faults and stale re-syncs
\* left behind.  (Others are quiet in the end: both bounds are finite.)
Converges == <>[](enabled => InSync)

\* ResyncDevice "applies the newest report now" (admin.go:218-221): no apply
\* replaces a device's report by an older one.
NewestApplied == [][\A h \in Hosts : digest'[h] >= digest[h]]_vars

=============================================================================
