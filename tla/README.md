# Formal models of go-tangra-ipam

go-tangra-ipam is a multi-tenant IP address management service. Several replicas run
over one Postgres database and one Valkey stream. Nothing coordinates them except what
single database transactions give: a repository method is one transaction, and a
service method is a sequence of them with no lock across. That is where most of the
hard questions are, so the models step from one repository call to the next and
interleave everything else in between.

## The parts and how they interact

* **Services** (`internal/subnets`, `addresses`, `devices`, ...) check a request and make
  repository calls. The **HTTP** and **gRPC** APIs route requests to them and translate
  their errors.
* **The store** (`internal/repo/repodb`) keeps the rows. `internal/memstore` is its
  in-memory twin, which the tests of all the other packages run against.
* **Scans**: `StartScan` queues a job, the worker pools of all replicas claim jobs, and a
  claimed job sweeps the subnet, stores what answered, plans MAC updates from ARP tables
  and links hosts to switch ports. A scheduler task queues scans too.
* **Host sync** polls the inventory service and applies host reports under a row lock.
* **KVM consoles** share BMC logins among browser sessions by reference count.
* **The event hub** carries what services publish to connected browsers.

## Modules

| module | code | state and actions |
|---|---|---|
| `ScanQueue` | `internal/scan/scan.go`, `executor.go`, the job statements | the job table, callers of StartScan and CancelScan, the goroutines of every replica, one action per store call |
| `KvmSessions` | `internal/kvm/kvm.go`, `session.go` | sessions, tokens, reference counts, BMC logins, logout goroutines, Close; one action per critical section |
| `HostSync` | `internal/hostsync`, `internal/invclient` | the inventory, the settings row, the runners of every replica, the administrators |
| `StoreRows`, `SqlStore` | `internal/repo`, `internal/repo/repodb`, `internal/store` and its migrations | the tables, unique keys, foreign keys with their cascades; one operator per repository method |
| `StoreLists` | `internal/repo`, the list methods of both stores | filters, sort keys and the windows of paged lists |
| `MemWrites`, `MemReads` | `internal/memstore` | the same methods over maps: those that write, those that only read |
| `MemStore` | `internal/memstore` | the maps as a state machine, one action per method that writes |
| `MemRefinesSql` | | the in-memory store against the database one |
| `IpNet` | `internal/ipnet` | blocks, hosts, overlap and placement in a small address space |
| `Frames` | all service methods | a call in progress: caller, operation, input, the point it reached, what it read |
| `NetworkServices`, `AddressService`, `DeviceServices`, `AdminServices`, `BackupService` | the service packages | one operator per method; each maps a frame, the database and a fresh id to the next frame |
| `Discovery` | `internal/scan/executor.go`, `scan/arp.go`, `arpplan`, `portlink`, `taskexec` | what a job and a task do to the inventory, as frames; the ARP planner and the port ranking as operators |
| `HttpApi`, `GrpcApi` | `internal/httpapi`, `internal/grpcapi` | routes and RPCs: checks, service calls, error tables |
| `EventHub` | `internal/stream` | the stream, the tenant loop, subscriptions, pushes, replay, closes, the SSE writer |
| `Api` | the running service | callers, jobs and the hub composed: a step is one repository or outside call of one of them |

`ScanQueueProofs`, `KvmSessionsProofs`, `HostSyncSteps`, `HostSyncProofs`, `EventHubSteps`,
`EventHubProofs`, `StoreSteps` and `StoreProofs` hold the theorems; a `...Steps` module has the
lemmas on single steps that its `...Proofs` module uses. The `MC*` modules and the `.cfg`
files instantiate the specifications. A definition named after another with a suffix and
commented as a mutant is a plausible bug in the code: each property is known to fail
when that definition takes the place of the faithful one.

## Runs

| run | instance | what it shows |
|---|---|---|
| `scan_queue` | 2 jobs, 1 subnet, 2 replicas of 2 slots, 2 callers, 1 retry, 1 fault, 1 crash, symmetry | no job is processed by two workers, tried too often, announced twice or revived; a cancel stored outside a worker's check-to-write window is final |
| `scan_queue_live` | 2 jobs, 2 subnets, 1 replica, 1 slot | every pending scan ends, or is orphaned by a crash or a failed last write |
| `scan_cancel_lost` | violation | a cancel between a worker's check and its write is overwritten |
| `kvm_sessions` | 1 key, 2 sessions, 2 logins, 2 tokens, 2 requests, symmetry | reference counts are exact, a login is never forgotten, ended in use or ended twice, Close waits |
| `kvm_sessions_live` | 1 login, 1 request | a login nobody uses is logged out |
| `host_sync` | 1 host, 2 runners, 2 clock values, 1 inventory event | the watermark never passes an unhandled report, nothing is applied after a disable |
| `host_sync_live` | 2 hosts (1 malformed), 1 runner, 1 administrator, 2 events | devices converge to the newest reports |
| `host_sync_stale_resync` | violation | a re-sync puts an older report back |
| `store_refines` | 2 tenants, small tables per scene, symmetry and a view | `MemStore` implements `SqlStore`: same errors, values, audit rows and cascades, and the same reads afterwards |
| `api` | see below | eighteen properties of the composed service |
| `backup_import` | violation | importing a tenant's own export in overwrite mode flattens its hierarchy |
| `hub_replay` | violation | a reconnecting stream loses events of the window |

A violation run checks one statement of a document or a comment of the repository that
the code does not keep; PROJECT.json quotes it.

**The api instance.** 3 callers, 2 connections, channel buffer 1, stream length 2, 1
stream per user and 2 per tenant, ancestor walks of 3, pages of 2, 2 allocation tries, 2
hosts per sweep, blocks of up to 4 hosts listed, 2 foreign MACs per access port. The
scenes: `Tour` (every request of both APIs alone), `Faulty` (a store or bus failure at
some point), `Race` (pairs of writes), `Allocation` (three allocations in a nearly full
subnet), `Watched` (writes while browsers connect), `Tangle` (a location cycle already in
the data), `Deepening` (moves in a chain of locations as long as the ancestor walk, and
below one that is longer), `Scanned` (scans alone, with a fault, against users' edits and
against each other, also over a link entered by hand) and `Scheduled` (tasks, repeated after failures). The limits are the smallest at
which each is reached: a buffer of 1 fills, a trim drops an unread entry, a third
allocation finds the block full. The limit per tenant is the exception: no scene reaches
it, and the code path is the one of the limit per user.

**Fairness.** `scan_queue_live`: weak fairness of polling, of every worker's steps and of
a retry becoming due, because tickers fire and runnable goroutines run.
`kvm_sessions_live`: weak fairness of the janitor, of requests, of spawned goroutines and
of expiry, since remote calls have deadlines; strong fairness of the steps that wait for
a session's mutex, since Go's mutexes do not starve a waiter. `host_sync_live`: weak
fairness of the poll interval, of a runner's steps and of a re-sync that has begun.
`EveryRequestAnswered` assumes that a handler that can take a step takes one. New
requests, crashes, faults and inventory changes are never fair. Deadlock is not checked
where the system may stop: when all jobs are finished, and after Close.

## Properties of the api run

* Addresses: no row is handed out twice (`HandedOutOnce`); "exhausted" means that no host
  was free (`ExhaustedMeansFull`).
* Requests: a refused one writes nothing (`RefusedWritesNothing`), an internal error has an
  outside cause (`FailureExplained`), each is answered (`EveryRequestAnswered`).
* Structure: a call during which nobody else writes keeps locations a forest, provided
  none lies deeper than guardCycle walks (`AloneKeepsForest`), subnets disjoint or nested (`AloneKeepsDisjoint`) and one active
  scan per subnet (`AloneOneActiveScan`). Overlapping calls can break all three: the checks
  and the writes are different transactions. `UnforcedDeleteKeeps` holds with any overlap.
* Outside effects: a call of the address API publishes one event for each address it
  created, changed or deleted and none for others (`EventsMatchWrites`; only an allocation
  whose new row somebody else takes away before its look-up announces another row). A
  power command or console start contacts the BMC at most once, for a caller
  IsPlatformAdmin accepts, answers what the BMC said and records it, the record being
  missing only when it could not be stored (`BmcAudited`).
* Scans: a MAC set by a user or an agent is never replaced (`ScanKeepsKnownMACs`), a scan
  that ran alone has nothing left to change (`ScanSettles`), a link shown is one of
  the per-switch links unless the interface was created with it (`PrimaryInSet`).
* Hub: order without repetition (`InOrder`), exact counters (`CountersExact`), no live event
  missed (`NothingMissed`).

## What is proved

The theorems hold for every value of the constants under the named assumptions of the
modules. Each rests on an inductive invariant, since none of the properties is inductive
by itself.

* **ScanQueueProofs.** `IndInv` ties what a goroutine believes about its job to the row.
  From it: `TypeCorrect`, `ClaimExclusive`, `RetriesBounded`, `PublishedOnce`,
  `FinishedForGood`, and `CancelsAreFinal`: a cancel stored while no worker of the job is
  between its check and its write is final, unless the database fails the worker's next check.
* **KvmSessionsProofs.** `IndInv` is the types, the map invariants (who holds a session,
  where it may be, that the count is the number of holders) and the login invariants
  (where each login is, one login at a time, whose authentication is current). A count
  alone is not inductive: a release is right only if its holder was counted. From it:
  `RefsAreHolders`, `HeldSessionsServe`, `LoginsAccountedFor`, `LogoutsUnused`,
  `LoginsSerialised`, `CloseWaitsForLogouts`.
* **HostSyncProofs.** `IndInv` adds to the watermark's safety that every time a runner
  carries, read or about to be saved, is safe too: a replica may save a watermark it
  computed long ago. From it: `WatermarkIsSafe`, `NothingAfterDisable`.
* **EventHubProofs.** `HubInv` is the types, `Wired` (the registry and the connections
  agree), `SentUpToLast`, `InOrder`, `CountersExact`, bounds on positions, what the loop
  still holds, and which events a connection follows or has missed. From it:
  `DeliveriesInOrder`, `CountersMatch`, `LiveEventsArrive`, for `HubSpec`, in which anybody
  publishes anything; the hub steps of `Api` are steps of it.

* **StoreProofs**, for `MemStore` with any tenants, any number of rows and any sequence of
  calls. `StoreInv` is: every row has its tenant and its reference columns; a reference is
  null or the id of a row of the same tenant; the slices kept beside the rows (links,
  packages, guests, host links) belong to ports and devices that exist; no id is given out
  twice. With `DeleteLinked = FALSE` it also says that the port of an address's link is a port
  of the linked switch: DeleteDevice drops the ports of its device, and that no address names
  one of them follows only from no address being linked to that device. Ids enter
  because a row that took a deleted row's id would inherit its references. From it:
  * `StoreTypeCorrect` (`TypeOK`);
  * `NoDanglingReference` (`ReferencesLive`), with `DeleteLinked = FALSE`;
  * `OnlyAddressLinksDangle`, for both values of `DeleteLinked`: every reference other than the
    three link columns of addresses is live;
  * `TenantsKeptApart`: no such reference names a row of another tenant.

  The assumption is `RoomsAssumption`: what a scene is. The calls are the ones "The two stores"
  lists, so callers name rows of their own tenant. A host report is one statement after an
  audit row, perhaps followed by one that fails and rolls everything back; plans with more
  statements in one transaction are not covered by the theorems.

Only model-checked:

* the liveness properties, which the prover does not handle;
* the refinement between the stores: both run ARP plans, guest lists and host reports as
  folds over sequences, and that two folds agree needs induction;
* the reads of the stores (`SameReads`), which sort and page with folds;
* the service, API and scan pipeline properties: their modules reach recursive operators.

## What was found

Shown by a run: the lost cancel, the stale re-sync, the flattened import and the
incomplete replay above. Met while reading the code, without a run:

* guardCycle, which "rejects a parent that is the node itself or one of its descendants"
  (`locations.go:224`), stops after 256 hops and accepts: below a chain that deep one move
  alone closes a cycle. The scene `Deepening` contains it, with a walk of 3.
* Who may use power and console: the package comment of `internal/authz` says "a mere
  tenant admin must not reach" them, and the repository's README "platform-admin only".
  IsPlatformAdmin accepts the tenant's admin and owner, and its own comment,
  `authz_test.go:84` and `docs/help/reference.md:105` say so. The models follow the code.
* The audit row of a power command or console start, of an SNMP test and of a scheduled
  scan is dropped silently when it cannot be stored.
* CreateInterface stores a link from the body without a per-switch link. A correlation
  that finds a link replaces one entered by hand; it never clears one as stale.
* Two updates, each legal, can close a cycle of subnet parents; GetTree hides both.
  Moving a subnet's block and parent leaves its children overlapping the old ancestor.
* Split of a nested subnet skips every block: only the subnet being split is exempt from
  the overlap check, its ancestors are not.
* Overlapping calls: two scans of a subnet, overlapping subnets, location cycles, a BMC
  reference put back by a device update, an export that is not one snapshot.
* AllocateNext finds its new row by address: after a delete and an insert in between it
  returns somebody else's. It can report a conflict in a parent subnet whose children
  hold many addresses. Over gRPC the address stays allocated when stamping it fails.
* Bulk allocation over HTTP drops the addresses already allocated when it fails.
* A forced subnet delete removes addresses without events.
* ServeSSE returns before it defers the close when the writer cannot flush.
* UpsertInterfaceByName clears the link of a host-reported interface when the host
  answers SNMP, until the next correlation.
* MemStore's DeleteDevice leaves addresses that refer to the deleted device.

## Abstractions

* **Store calls.** A repository call is one atomic step. The transactions run at READ
  COMMITTED, so inside one a count and a following delete can see different rows; that
  window is not modelled. Ids come from a counter; time is left out except for "due",
  "stale" and the stream's order.
* **Services.** Pages return the filtered set. CIDRs are canonical. Reads whose results only
  go into the answer are one step. Bodies name rows of the caller's tenant or rows that do
  not exist. Store failures are injected at every store call of a job; in requests not at
  the reads of the SNMP index, the previous row, credentials and metadata. Whether the
  audit row of a BMC call can be stored is an input of the request. The audit
  rows of other calls go with the write they record, and no property looks at them.
* **APIs.** OpenAPI validation and the gateway's permissions are external. Callers over the
  mesh carry no roles, so the RPCs that need a platform administrator always refuse them.
* **Discovery.** What the network answers, whether links are stale (none, the secondary ones
  or all) and whether a retry is left are inputs. Devices are stored in address order: a
  mutex serialises them, in any order. One worker per RunOnce; ScanQueue has several. A
  guest has one MAC. Link VLANs, counters and the audit rows are left out. An interface
  created by a client has no link or one with the source "manual"; the code takes any
  text, and would treat the two sources of the correlator as learned and never confirmed.
* **Claims.** ClaimDueScanJobs takes the job due longest, by next_retry_at or else
  created_at. `SqlStore` has no times, so a retried job keeps the place of its creation;
  `ScanQueue` lets a poll claim due jobs in any order.
* **Hub.** One hub instance; the read limit of 100 entries is left out.
* **KVM.** No session starts after Close has begun, as `internal/app` shuts the listener down
  first. A login whose reply is lost stays on the BMC and is not modelled.
* **HostSync.** Change times in the inventory increase and are distinct. Status, last error
  and counters are for display. The retry on a conflict is one step, and other tenants are
  a choice at the end of a cycle.

## The two stores

`store_refines` compares the stores where callers use them. The calls keep to:
references to existing rows of the own tenant, guests with distinct references, no package
twice, no hypervisor of itself, reports only for tenants with settings and for hosts that
are not another device's, members only of existing groups, claims of at least one job, an
observed status that is not blank, port link data only with a switch. `DeleteLinked = FALSE`
keeps devices and interfaces that addresses were linked to from being deleted.

Outside these they differ:

1. MemStore's DeleteDevice leaves the MAC source and the link of addresses dangling where
   Postgres sets them to NULL, and its DeleteInterface keeps the link port. This is what
   `DeleteLinked` excludes; so `ReferencesLive` says nothing about such deletes. Theorem
   `OnlyAddressLinksDangle` says that nothing else dangles after them.
2. Duplicate primary keys and foreign keys are not checked in memory; a missing group is
   NotFound there and a raw error in Postgres.
3. A failing ApplyHostReport keeps the settings row it ensured in memory.
4. DeleteDevicePackages ignores the tenant in memory.
5. Claims with a limit of zero or less, blank statuses and the reverse-DNS flag of upserts,
   duplicate guests, PortLinkData without a switch, and the order of some lists.

Left out of the comparison: has_reverse_dns, the free-text filter, the order of
ListInterfaces, which device is shown behind a port, timestamps.

## Not modelled

* Probes, BMC, Warden and inventory transports: their outcomes are inputs.
* Host report validation and the host planner, field by field: large sequential functions
  of one report; HostSync has a report as one value, well formed or not.
* Conversions of messages, JSON, HTML, error texts, audit row contents, metrics.
* Sealing, configuration, wiring, the manifest, the SDK client, generated code, the UI.
* The asynchronous audit writer: the service does not use it.
* Row level security policies: tenant scoping is a condition of each statement.
