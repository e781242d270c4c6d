--------------------------- MODULE AdminServices ---------------------------
(***************************************************************************)
(* The calls of internal/scan that queue, cancel and show scan jobs, its   *)
(* credential test, and the administration of host sync                    *)
(* (internal/hostsync/admin.go).  The work of the queued jobs is in        *)
(* ScanQueue, applying a host report is in HostSync.                       *)
(***************************************************************************)
EXTENDS NetworkServices

CONSTANTS MaxHosts,    \* cfg.MaxHosts of a scan
          GlobalSync   \* whether host sync is enabled for the installation

usableHosts(c) == IF c.v = 4 /\ c.bits > 1 THEN 2 ^ c.bits - 2 ELSE 2 ^ c.bits

isTerminal(status) == status \in {"completed", "failed", "cancelled"}

\* Mutant of StartScan: nobody asks whether a scan is active.
StartScanAgain(f, d, n) ==
  CASE f.at = "begin" -> Then(f, S!GetSubnet(d, f.t, f.in.id), "insert", None)
    [] f.at = "insert" -> Then(f, S!CreateScanJob(d, f.t, n, [subnet |-> f.in.id, status |-> "pending", later |-> FALSE]), "reread", [id |-> n])
    [] f.at = "reread" -> Reread(f, S!GetScanJob(d, f.t, f.x.id), "scans")

\* The event is published before the job is read back.
StartScan(f, d, n) ==
  LET a == S!GetSubnet(d, f.t, f.in.id)
      job == [subnet |-> f.in.id, status |-> "pending", later |-> FALSE]
      made == Then(f, S!CreateScanJob(d, f.t, n, job), "reread", [id |-> n])
  IN CASE f.at = "begin" ->
            IF a.err # "ok" THEN Refuse(f, d, a.err)
            ELSE IF a.val.v = 6 THEN Refuse(f, d, "ipv6")
            ELSE IF usableHosts(cidrOf(a.val)) > MaxHosts THEN Refuse(f, d, "toolarge")
            ELSE Go(f, d, "active", None)
       [] f.at = "active" -> IF S!ActiveScanForSubnet(d, f.t, f.in.id) THEN Refuse(f, d, "activescan")
                             ELSE Go(f, d, IF f.in.auto THEN "index" ELSE "insert", None)
       [] f.at = "index" -> Go(f, d, "insert", [snmp |-> Effective(d, f.t, f.in.id) # 0])
       [] f.at = "insert" -> IF Finished(made.f) THEN made
                             ELSE [made EXCEPT !.fx = <<[kind |-> "publish", what |-> "scan", id |-> n, addr |-> 0]>>]
       [] f.at = "reread" -> Reread(f, S!GetScanJob(d, f.t, f.x.id), "scans")

GetScanJob(f, d, n) == GetOne(f, d, "scans", S!GetScanJob(d, f.t, f.in.id))

ListScanJobs(f, d, n) == ListAll(f, d, "scans", f.in.filter)

PageScanJobs(f, d, n) == ListAll(f, d, "scans", f.in.filter)

\* The whole row read first is written back as cancelled.
CancelScan(f, d, n) ==
  LET a == S!GetScanJob(d, f.t, f.in.id)
  IN CASE f.at = "begin" ->
            IF a.err # "ok" THEN Refuse(f, d, a.err)
            ELSE IF isTerminal(a.val.status) THEN Return(f, d, "terminal", Rows("scans", {f.in.id}))
            ELSE Go(f, d, "write", [id |-> f.in.id, row |-> [status |-> "cancelled"] @@ Columns(a.val, {"subnet", "later"})])
       [] f.at = "write" -> Then(f, S!UpdateScanJob(d, f.t, f.in.id, f.x.row), "reread", None)
       [] f.at = "reread" -> Reread(f, a, "scans")

usableTarget(c, a) == a # 0 /\ GatewayInRange(c, a)

\* f.in.outcome is what the probe reports.  The test itself never fails for what
\* the target answers, and its audit row is written whatever that is.
TestCredentials(f, d, n) ==
  LET a == S!GetSubnet(d, f.t, f.in.id)
      tested == IF f.x.source = 0 THEN "no_credentials" ELSE f.in.outcome
  IN CASE f.at = "begin" ->
            IF a.err # "ok" THEN Refuse(f, d, a.err)
            ELSE IF ~usableTarget(cidrOf(a.val), f.in.addr) THEN Refuse(f, d, "field")
            ELSE Go(f, d, "index", None)
       [] f.at = "index" -> Go(f, d, "probe", [source |-> Effective(d, f.t, f.in.id)])
       [] f.at = "probe" -> Audited(Return(f, d, "ok", Rows("snmp", {f.x.source} \ {0})), tested, f.in.id)

(***************************************************************************)
(* Host sync.                                                              *)
(***************************************************************************)
\* The first read creates the row.
HostSyncSettings(f, d, n) == Reply(f, S!EnsureHostSyncSettings(d, f.t), Rows("hsSettings", {f.t}))

UpdateSettings(f, d, n) ==
  CASE f.at = "begin" ->
         IF ~f.in.valid THEN Refuse(f, d, "validation")
         ELSE Then(f, S!EnsureHostSyncSettings(d, f.t), "write", [id |-> f.t])
    [] f.at = "write" -> Audited(Then(f, S!UpdateHostSyncSettings(d, f.t, f.in.enabled), "reread", None), "hostsync_settings", 0)
    [] f.at = "reread" -> Reread(f, S!GetHostSyncSettings(d, f.t), "hsSettings")

HostSyncStatus(f, d, n) ==
  IF f.at = "begin" THEN Then(f, S!EnsureHostSyncSettings(d, f.t), "counts", None)
  ELSE Return(f, d, "ok", Rows("counts", {S!HostSyncCounts(d, f.t)}))

\* Enabled is read before the request is written.
ResyncAll(f, d, n) ==
  LET s == S!EnsureHostSyncSettings(d, f.t)
  IN IF f.at = "begin" THEN IF s.val.enabled /\ GlobalSync THEN Go(f, s.db, "request", None)
                            ELSE Refuse(f, s.db, "syncdisabled")
     ELSE Audited(Reply(f, S!RequestReconcile(d, f.t), {}), "resync", 0)

hostDevice(f, d, at) == Then(f, S!GetDevice(d, f.t, f.in.id), at, None)

DeviceHostSync(f, d, n) ==
  IF f.at = "begin" THEN hostDevice(f, d, "state")
  ELSE Return(f, d, "ok", Rows("devState", {k \in {f.in.id} : S!GetHostSyncDeviceState(d, f.t, k).err = "ok"}))

Guests(f, d, n) ==
  IF f.at = "begin" THEN hostDevice(f, d, "guests")
  ELSE Return(f, d, "ok", Rows("guests", {g.ref : g \in S!ListGuests(d, f.t, f.in.id)}))

PageGuests(f, d, n) == Guests(f, d, n)

ClearConflict(f, d, n) ==
  Audited(Reply(f, S!ClearAddressConflict(d, f.t, f.in.id), Rows("addrs", {f.in.id})), "conflict_cleared", f.in.id)

=============================================================================
