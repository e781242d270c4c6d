------------------------------ MODULE HttpApi ------------------------------
(***************************************************************************)
(* internal/httpapi: one handler per route.  f.op is <<"http", resource,   *)
(* verb and rest of the path>>; a handler is an operation like a service's *)
(* (see Frames) that checks its request and then runs the service's steps. *)
(* What the request carries besides the service's input:                   *)
(*   auth    a valid platform token came with it                           *)
(*   decodes the strict JSON decoder accepts its body                      *)
(*   list    its list parameters: "page", "legacy" (cursor/limit) or "bad" *)
(***************************************************************************)
EXTENDS AddressService, DeviceServices, AdminServices, BackupService

Body(f, d, o) == IF f.at = "begin" /\ ~f.in.decodes THEN Refuse(f, d, "malformed") ELSE o

\* A legacy request reads the rows, then a first page for the total; NoLegacy are
\* the lists that have no such form.
serveList(f, d, page, legacy) ==
  CASE f.at = "begin" /\ f.in.list = "bad" -> Refuse(f, d, "validation")
    [] f.at = "begin" /\ f.in.list = "legacy" /\ legacy # None -> Go(f, d, "total", [items |-> legacy.f.val])
    [] f.at = "total" -> Return(f, d, "ok", f.x.items)
    [] OTHER -> page

NoLegacy == None

SubnetRoutes(f, d, n) ==
  CASE f.op[3] = "GET" -> serveList(f, d, SubnetsPage(f, d, n), SubnetsList(f, d, n))
    [] f.op[3] = "POST" -> Body(f, d, SubnetsCreate(f, d, n))
    [] f.op[3] = "POST {id}/split" -> Body(f, d, Split(f, d, n))
    [] f.op[3] = "GET tree" -> SubnetsGetTree(f, d, n)
    [] f.op[3] = "GET {id}" -> SubnetsGet(f, d, n)
    [] f.op[3] = "PUT {id}" -> Body(f, d, SubnetsUpdate(f, d, n))
    [] f.op[3] = "DELETE {id}" -> SubnetsDelete(f, d, n)
    [] f.op[3] = "GET {id}/stats" -> SubnetsGet(f, d, n)
    [] f.op[3] = "POST {id}/scan" -> Body(f, d, StartScan(f, d, n))

\* f.in.mac = "bad": the mac filter is not 2 to 12 hex digits.
AddressListRoute(f, d, n) ==
  IF f.at = "begin" /\ f.in.mac = "bad" THEN Refuse(f, d, "validation")
  ELSE serveList(f, d, AddressesPage(f, d, n), AddressesList(f, d, n))

AddressRoutes(f, d, n) ==
  CASE f.op[3] = "GET" -> AddressListRoute(f, d, n)
    [] f.op[3] = "POST" -> Body(f, d, AddressesCreate(f, d, n))
    [] f.op[3] = "POST allocate" -> Body(f, d, AllocateNext(f, d, n))
    [] f.op[3] = "POST bulk-allocate" -> Body(f, d, BulkAllocate(f, d, n))
    [] f.op[3] = "GET find" -> Find(f, d, n)
    [] f.op[3] = "GET suggest" -> Suggest(f, d, n)

AddressItemRoutes(f, d, n) ==
  CASE f.op[3] = "GET {id}" -> AddressesGet(f, d, n)
    [] f.op[3] = "PUT {id}" -> Body(f, d, AddressesUpdate(f, d, n))
    [] f.op[3] = "DELETE {id}" -> AddressesDelete(f, d, n)
    [] f.op[3] = "POST {id}/ping" -> PingAddress(f, d, n)

DeviceRoutes(f, d, n) ==
  CASE f.op[3] = "GET" -> serveList(f, d, DevicesPage(f, d, n), DevicesList(f, d, n))
    [] f.op[3] = "POST" -> Body(f, d, DevicesCreate(f, d, n))
    [] f.op[3] = "GET {id}" -> DevicesGet(f, d, n)
    [] f.op[3] = "PUT {id}" -> Body(f, d, DevicesUpdate(f, d, n))
    [] f.op[3] = "DELETE {id}" -> DevicesDelete(f, d, n)

DevicePartRoutes(f, d, n) ==
  CASE f.op[3] = "GET addresses" -> serveList(f, d, PageAddresses(f, d, n), NoLegacy)
    [] f.op[3] = "GET interfaces" -> serveList(f, d, PageInterfaces(f, d, n), NoLegacy)
    [] f.op[3] = "POST interfaces" -> Body(f, d, CreateInterface(f, d, n))
    [] f.op[3] = "DELETE interfaces/{ifid}" -> DeleteInterface(f, d, n)
    [] f.op[3] = "GET packages" -> serveList(f, d, PagePackages(f, d, n), NoLegacy)
    [] f.op[3] = "POST packages/sync" -> Body(f, d, SyncPackages(f, d, n))
    [] f.op[3] = "GET host-groups" -> ListDeviceHostGroups(f, d, n)

HardwareRoute(f, d, n) == GetHardware(f, d, n)

VlanRoutes(f, d, n) ==
  CASE f.op[3] = "GET" -> serveList(f, d, VlansPage(f, d, n), VlansList(f, d, n))
    [] f.op[3] = "POST" -> Body(f, d, VlansCreate(f, d, n))
    [] f.op[3] = "GET {id}" -> VlansGet(f, d, n)
    [] f.op[3] = "PUT {id}" -> Body(f, d, VlansUpdate(f, d, n))
    [] f.op[3] = "DELETE {id}" -> VlansDelete(f, d, n)
    [] f.op[3] = "GET {id}/subnets" -> VlansGetSubnets(f, d, n)

LocationRoutes(f, d, n) ==
  CASE f.op[3] = "GET" -> LocationsList(f, d, n)
    [] f.op[3] = "POST" -> Body(f, d, LocationsCreate(f, d, n))
    [] f.op[3] = "GET tree" -> LocationsGetTree(f, d, n)
    [] f.op[3] = "GET {id}" -> LocationsGet(f, d, n)
    [] f.op[3] = "PUT {id}" -> Body(f, d, LocationsUpdate(f, d, n))
    [] f.op[3] = "DELETE {id}" -> LocationsDelete(f, d, n)

IPGroupRoutes(f, d, n) ==
  CASE f.op[3] = "GET" -> ListIPGroups(f, d, n)
    [] f.op[3] = "POST" -> Body(f, d, CreateIPGroup(f, d, n))
    [] f.op[3] = "GET check" -> CheckIpInGroup(f, d, n)
    [] f.op[3] = "GET {id}" -> GetIPGroup(f, d, n)
    [] f.op[3] = "PUT {id}" -> Body(f, d, UpdateIPGroup(f, d, n))
    [] f.op[3] = "DELETE {id}" -> DeleteIPGroup(f, d, n)

IPMemberRoutes(f, d, n) ==
  CASE f.op[3] = "GET" -> serveList(f, d, PageIPGroupMembers(f, d, n), NoLegacy)
    [] f.op[3] = "POST" -> Body(f, d, AddIPGroupMember(f, d, n))
    [] f.op[3] = "PUT {mid}" -> Body(f, d, UpdateIPGroupMember(f, d, n))
    [] f.op[3] = "DELETE {mid}" -> RemoveIPGroupMember(f, d, n)

HostGroupRoutes(f, d, n) ==
  CASE f.op[3] = "GET" -> ListHostGroups(f, d, n)
    [] f.op[3] = "POST" -> Body(f, d, CreateHostGroup(f, d, n))
    [] f.op[3] = "GET {id}" -> GetHostGroup(f, d, n)
    [] f.op[3] = "PUT {id}" -> Body(f, d, UpdateHostGroup(f, d, n))
    [] f.op[3] = "DELETE {id}" -> DeleteHostGroup(f, d, n)

HostMemberRoutes(f, d, n) ==
  CASE f.op[3] = "GET" -> serveList(f, d, PageHostGroupMembers(f, d, n), NoLegacy)
    [] f.op[3] = "POST" -> Body(f, d, AddHostGroupMember(f, d, n))
    [] f.op[3] = "PUT {mid}" -> Body(f, d, UpdateHostGroupMember(f, d, n))
    [] f.op[3] = "DELETE {mid}" -> RemoveHostGroupMember(f, d, n)

ScanRoutes(f, d, n) ==
  CASE f.op[3] = "GET" -> serveList(f, d, PageScanJobs(f, d, n), ListScanJobs(f, d, n))
    [] f.op[3] = "POST" -> Body(f, d, StartScan(f, d, n))
    [] f.op[3] = "GET {id}" -> GetScanJob(f, d, n)
    [] f.op[3] = "POST {id}/cancel" -> CancelScan(f, d, n)

\* The DNS test answers 200 whatever the lookup gave.
SystemRoutes(f, d, n) ==
  LET test == DNSTest(f, d, n)
  IN CASE f.op[3] = "GET health" -> Return(f, d, "ok", {})
       [] f.op[3] = "GET stats" -> StatsTenant(f, d, n)
       [] f.op[3] = "GET dns-config" -> DNSGet(f, d, n)
       [] f.op[3] = "PUT dns-config" -> Body(f, d, DNSUpdate(f, d, n))
       [] f.op[3] = "POST dns-config/test" -> Body(f, d, IF Finished(test.f) THEN Return(f, d, "ok", {}) ELSE test)

BackupRoutes(f, d, n) ==
  CASE f.op[3] = "POST export" -> Body(f, d, Export(f, d, n))
    [] f.op[3] = "POST import" -> Body(f, d, Import(f, d, n))

HostSyncRoutes(f, d, n) ==
  CASE f.op[3] = "GET settings" -> HostSyncSettings(f, d, n)
    [] f.op[3] = "PUT settings" -> Body(f, d, UpdateSettings(f, d, n))
    [] f.op[3] = "GET status" -> HostSyncStatus(f, d, n)
    [] f.op[3] = "POST resync" -> Body(f, d, ResyncAll(f, d, n))
    [] f.op[3] = "GET device" -> DeviceHostSync(f, d, n)
    [] f.op[3] = "GET guests" -> serveList(f, d, PageGuests(f, d, n), NoLegacy)
    [] f.op[3] = "POST clear-conflict" -> Body(f, d, ClearConflict(f, d, n))

\* The test route counts against the caller's rate limit before anything else;
\* f.in.limited says the limit is reached.
SNMPRoutes(f, d, n) ==
  CASE f.op[3] = "GET" -> GetSNMP(f, d, n)
    [] f.op[3] = "PUT" -> Body(f, d, SetSNMP(f, d, n))
    [] f.op[3] = "DELETE" -> ClearSNMP(f, d, n)
    [] f.op[3] = "POST test" -> IF f.at = "begin" /\ f.in.limited THEN Refuse(f, d, "ratelimited")
                                ELSE Body(f, d, TestCredentials(f, d, n))

ARPRoutes(f, d, n) ==
  CASE f.op[3] = "GET" -> ARPGet(f, d, n)
    [] f.op[3] = "PUT" -> Body(f, d, ARPUpdate(f, d, n))

BMCRoutes(f, d, n) ==
  CASE f.op[3] = "GET" -> Status(f, d, n)
    [] f.op[3] = "PUT" -> Body(f, d, Set(f, d, n))
    [] f.op[3] = "DELETE" -> Clear(f, d, n)

(***************************************************************************)
(* Power and console.  f.in.bmc is what the BMC answers.                   *)
(***************************************************************************)
DecisionReasons == {"not_configured", "no_address", "secret_forbidden", "secret_not_found", "warden_unavailable"}

BMCReasons == {"bmc_unreachable", "bmc_auth_failed", "bmc_error", "bmc_2fa_required", "bmc_session_limit"}

\* bmc.Reason: "" for an error it does not name.
Reason(err) == IF err \in DecisionReasons \cup BMCReasons THEN err ELSE ""

\* The BMC is contacted: a command leaves an audit row with its outcome afterwards.
Contact(f, d, at) ==
  [Go(f, d, at, [outcome |-> f.in.bmc]) EXCEPT !.fx = <<Effect("bmc", f.in.verb, f.in.id)>>]

\* The answer is the same whether or not the audit row could be stored.
AuditThenAnswer(f, d) == [Return(f, d, f.x.outcome, {}) EXCEPT !.fx = AuditAction(f, f.x.outcome)]

\* Mutant of resolveBMC: a refused command leaves no audit row.
resolveBMCQuiet(f, d, n, audits) ==
  LET o == ResolveBMC(f, d, n) IN IF Finished(o.f) /\ o.f.err = "ok" THEN Go(f, d, "contact", None) ELSE o

\* Resolve inside a handler: goes on at "contact" when it says yes; a named refusal
\* of a command is audited.
resolveBMC(f, d, n, audits) ==
  LET o == ResolveBMC(f, d, n)
  IN IF ~Finished(o.f) THEN o
     ELSE IF o.f.err = "ok" THEN Go(f, d, "contact", None)
     ELSE IF audits /\ Reason(o.f.err) # "" THEN Go(f, d, "audit", [outcome |-> o.f.err])
     ELSE o

\* Power status, sensors and event log.
PowerReadRoutes(f, d, n) ==
  IF f.at = "contact" THEN [Return(f, d, f.in.bmc, {}) EXCEPT !.fx = <<Effect("bmc", "read", f.in.id)>>]
  ELSE resolveBMC(f, d, n, FALSE)

\* f.in.verb = "bad" is an unknown action: audited and refused without a look at the device.
PowerRoute(f, d, n) ==
  CASE f.at = "begin" -> IF ~IsPlatformAdmin(f) THEN Refuse(f, d, "forbidden")
                         ELSE IF ~f.in.decodes THEN Refuse(f, d, "malformed")
                         ELSE IF f.in.verb = "bad" THEN Go(f, d, "audit", [outcome |-> "badrequest"])
                         ELSE resolveBMC(f, d, n, TRUE)
    [] f.at = "contact" -> Contact(f, d, "audit")
    [] f.at = "audit" -> AuditThenAnswer(f, d)
    [] OTHER -> resolveBMC(f, d, n, TRUE)

KVMRoute(f, d, n) ==
  CASE f.at = "contact" -> Contact(f, d, "audit")
    [] f.at = "audit" -> AuditThenAnswer(f, d)
    [] OTHER -> resolveBMC(f, d, n, TRUE)

(***************************************************************************)
(* The server.                                                             *)
(***************************************************************************)
Register(f, d, n) ==
  CASE f.op[2] = "subnets" -> SubnetRoutes(f, d, n)
    [] f.op[2] = "ip-addresses" ->
         IF f.op[3] \in {"GET {id}", "PUT {id}", "DELETE {id}", "POST {id}/ping"} THEN AddressItemRoutes(f, d, n)
         ELSE AddressRoutes(f, d, n)
    [] f.op[2] = "devices" -> DeviceRoutes(f, d, n)
    [] f.op[2] = "devices/{id}" -> DevicePartRoutes(f, d, n)
    [] f.op[2] = "hardware" -> HardwareRoute(f, d, n)
    [] f.op[2] = "vlans" -> VlanRoutes(f, d, n)
    [] f.op[2] = "locations" -> LocationRoutes(f, d, n)
    [] f.op[2] = "ip-groups" -> IPGroupRoutes(f, d, n)
    [] f.op[2] = "ip-groups/{id}/members" -> IPMemberRoutes(f, d, n)
    [] f.op[2] = "host-groups" -> HostGroupRoutes(f, d, n)
    [] f.op[2] = "host-groups/{id}/members" -> HostMemberRoutes(f, d, n)
    [] f.op[2] = "ip-scans" -> ScanRoutes(f, d, n)
    [] f.op[2] = "system" -> SystemRoutes(f, d, n)
    [] f.op[2] = "backup" -> BackupRoutes(f, d, n)
    [] f.op[2] = "host-sync" -> HostSyncRoutes(f, d, n)
    [] f.op[2] = "snmp" -> SNMPRoutes(f, d, n)
    [] f.op[2] = "arp" -> ARPRoutes(f, d, n)
    [] f.op[2] = "bmc" -> BMCRoutes(f, d, n)
    [] f.op[2] = "power" -> IF f.op[3] = "POST" THEN PowerRoute(f, d, n) ELSE PowerReadRoutes(f, d, n)
    [] f.op[2] = "kvm-session" -> KVMRoute(f, d, n)

\* Everything but the health check needs a token.
authenticate(f) == f.op[3] = "GET health" \/ f.in.auth

Handle(f, d, n) == IF f.at = "begin" /\ ~authenticate(f) THEN Refuse(f, d, "unauthenticated") ELSE Register(f, d, n)

(***************************************************************************)
(* The answer's status.                                                    *)
(***************************************************************************)
Created == {"subnets", "ip-addresses", "devices", "devices/{id}", "vlans", "locations", "ip-groups",
            "ip-groups/{id}/members", "host-groups", "host-groups/{id}/members", "kvm-session"}

OkStatus(op) ==
  CASE op[3] \in {"DELETE", "DELETE {id}", "DELETE {mid}", "DELETE interfaces/{ifid}"} -> 204
    [] op[2] \in Created /\ op[3] \in {"POST", "POST allocate", "POST bulk-allocate", "POST interfaces"} -> 201
    [] <<op[2], op[3]>> \in {<<"ip-scans", "POST">>, <<"host-sync", "POST resync">>} -> 202
    [] OTHER -> 200

\* Mutant of failSvc: ErrTerminal is not mapped.
failSvcShort(err) ==
  CASE err \in {"field", "validation", "badschema"} -> 422
    [] err \in {"malformed", "ipv6", "toolarge", "badrequest"} -> 400
    [] err = "notfound" -> 404
    [] err = "forbidden" -> 403
    [] err \in {"notempty", "conflict", "activescan"} -> 409
    [] err = "noavailable" -> 507
    [] err = "unauthenticated" -> 401
    [] OTHER -> 500

failSvc(err) ==
  CASE err \in {"field", "validation", "badschema"} -> 422
    [] err = "malformed" -> 400
    [] err = "notfound" -> 404
    [] err = "forbidden" -> 403
    [] err \in {"notempty", "conflict", "activescan", "terminal"} -> 409
    [] err = "noavailable" -> 507
    [] err \in {"ipv6", "toolarge", "badrequest"} -> 400
    [] err = "unauthenticated" -> 401
    [] OTHER -> 500

\* bmc.HTTPStatus
HTTPStatus(reason) ==
  CASE reason \in {"not_configured", "no_address", "secret_not_found", "bmc_2fa_required"} -> 409
    [] reason = "secret_forbidden" -> 403
    [] reason = "warden_unavailable" -> 503
    [] reason = "bmc_unreachable" -> 504
    [] reason \in {"bmc_auth_failed", "bmc_error", "bmc_session_limit"} -> 502
    [] OTHER -> 500

\* On save a secret warden does not know is the caller's mistake.
failBMCRef(err) ==
  CASE err = "secret_not_found" -> 422 [] err # "secret_not_found" /\ Reason(err) # "" -> HTTPStatus(err) [] OTHER -> failSvc(err)

failResolve(err) == IF Reason(err) # "" THEN HTTPStatus(err) ELSE failSvc(err)

failHostSync(err) == CASE err = "syncdisabled" -> 409 [] err = "validation" -> 400 [] OTHER -> failSvc(err)

failSNMP(err) == IF err = "ratelimited" THEN 429 ELSE failSvc(err)

HttpStatus(op, err) ==
  CASE err = "ok" -> OkStatus(op)
    [] err # "ok" /\ op[2] = "bmc" -> failBMCRef(err)
    [] err # "ok" /\ op[2] \in {"power", "kvm-session"} -> failResolve(err)
    [] err # "ok" /\ op[2] = "host-sync" -> failHostSync(err)
    [] err # "ok" /\ op[2] = "snmp" -> failSNMP(err)
    [] OTHER -> failSvc(err)

=============================================================================
