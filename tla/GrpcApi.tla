------------------------------ MODULE GrpcApi ------------------------------
(***************************************************************************)
(* internal/grpcapi: the ipam.v1 servers of the mesh.  f.op is <<"grpc",   *)
(* server, method>>; f.in.auth says the peer presents a SPIFFE identity,   *)
(* f.in.uuid that the tenant id is a uuid.  A mesh peer has no roles, so   *)
(* its frame has role "service".                                           *)
(***************************************************************************)
EXTENDS AddressService, DeviceServices, AdminServices

\* "" when the call may proceed.
caller(f) == CASE ~f.in.auth -> "unauthenticated" [] f.in.auth /\ ~f.in.uuid -> "validation" [] OTHER -> ""

\* What the mesh never asks for: an overlap, a forced VLAN delete.
Strict(f) == [f EXCEPT !.in = [allowOverlap |-> FALSE] @@ f.in]

Unforced(f) == [f EXCEPT !.in = [force |-> FALSE] @@ f.in]

\* o ran on a copy of f with another input.
As(f, o) == [o EXCEPT !.f.in = f.in]

SubnetServer(f, d, n) ==
  CASE f.op[3] = "Create" -> As(f, SubnetsCreate(Strict(f), d, n))
    [] f.op[3] = "Get" -> SubnetsGet(f, d, n)
    [] f.op[3] = "List" -> SubnetsList(f, d, n)
    [] f.op[3] = "Update" -> As(f, SubnetsUpdate(Strict(f), d, n))
    [] f.op[3] = "Delete" -> SubnetsDelete(f, d, n)
    [] f.op[3] = "GetTree" -> SubnetsGetTree(f, d, n)
    [] f.op[3] = "GetStats" -> GetStats(f, d, n)
    [] f.op[3] = "Scan" -> StartScan(f, d, n)

\* An allocation that carries a hostname or device is followed by an update of the
\* row just allocated; when that fails the address stays allocated.
AllocateAndStamp(f, d, n) ==
  LET a == AllocateNext([f EXCEPT !.in = [startFrom |-> 0, skip |-> {}] @@ f.in], d, n)
      row == [Drop(f.x.got, {"tenant"}) EXCEPT !.hostname = f.in.stamp.hostname, !.device = f.in.stamp.device]
      g == [f EXCEPT !.at = f.x.at, !.in = [id |-> f.x.id, row |-> row] @@ f.in]
      u == AddressesUpdate(g, d, n)
  IN IF f.x # None /\ "at" \in DOMAIN f.x
       THEN As(f, IF Finished(u.f) THEN u ELSE [u EXCEPT !.f.at = "stamp", !.f.x.at = u.f.at])
     ELSE IF Finished(a.f) /\ a.f.err = "ok" /\ f.in.stamp # None
       THEN [Go(f, d, "stamp", [at |-> "begin", id |-> f.x.id]) EXCEPT !.fx = a.fx]
     ELSE As(f, a)

IpAddressServer(f, d, n) ==
  CASE f.op[3] = "Create" -> AddressesCreate(f, d, n)
    [] f.op[3] = "Get" -> AddressesGet(f, d, n)
    [] f.op[3] = "List" -> AddressesList(f, d, n)
    [] f.op[3] = "Update" -> AddressesUpdate(f, d, n)
    [] f.op[3] = "Delete" -> AddressesDelete(f, d, n)
    [] f.op[3] = "AllocateNext" -> AllocateAndStamp(f, d, n)
    [] f.op[3] = "BulkAllocate" -> BulkAllocate(f, d, n)
    [] f.op[3] = "Find" -> Find(f, d, n)
    [] f.op[3] = "Suggest" -> Suggest(f, d, n)
    [] f.op[3] = "Ping" -> PingAddress(f, d, n)

\* The power and console calls stop at RequirePlatformAdmin: a peer without roles is
\* refused whatever the device.
resolvePeer(f, d) == Refuse(f, d, "forbidden")

Power(f, d) == IF f.in.verb = "bad" THEN Refuse(f, d, "validation") ELSE resolvePeer(f, d)

DeviceServer(f, d, n) ==
  CASE f.op[3] = "Create" -> DevicesCreate(f, d, n)
    [] f.op[3] = "Get" -> DevicesGet(f, d, n)
    [] f.op[3] = "List" -> DevicesList(f, d, n)
    [] f.op[3] = "Update" -> DevicesUpdate(f, d, n)
    [] f.op[3] = "Delete" -> DevicesDelete(f, d, n)
    [] f.op[3] = "GetAddresses" -> GetAddresses(f, d, n)
    [] f.op[3] = "GetInterfaces" -> ListInterfaces(f, d, n)
    [] f.op[3] = "CreateInterface" -> CreateInterface(f, d, n)
    [] f.op[3] = "DeleteInterface" -> DeleteInterface(f, d, n)
    [] f.op[3] = "ListPackages" -> ListPackages(f, d, n)

BmcServer(f, d) ==
  CASE f.op[3] = "SyncPackages" -> Refuse(f, d, "unimplemented")
    [] f.op[3] = "Power" -> Power(f, d)
    [] f.op[3] \in {"PowerStatus", "StartKvmSession"} -> resolvePeer(f, d)

VlanServer(f, d, n) ==
  CASE f.op[3] = "Create" -> VlansCreate(f, d, n)
    [] f.op[3] = "Get" -> VlansGet(f, d, n)
    [] f.op[3] = "List" -> VlansList(f, d, n)
    [] f.op[3] = "Update" -> VlansUpdate(f, d, n)
    [] f.op[3] = "Delete" -> As(f, VlansDelete(Unforced(f), d, n))
    [] f.op[3] = "GetSubnets" -> VlansGetSubnets(f, d, n)

LocationServer(f, d, n) ==
  CASE f.op[3] = "Create" -> LocationsCreate(f, d, n)
    [] f.op[3] = "Get" -> LocationsGet(f, d, n)
    [] f.op[3] = "List" -> LocationsList(f, d, n)
    [] f.op[3] = "Update" -> LocationsUpdate(f, d, n)
    [] f.op[3] = "Delete" -> LocationsDelete(f, d, n)
    [] f.op[3] = "GetTree" -> LocationsGetTree(f, d, n)

\* The groups first, then with include_members one read per group.
WithMembers(f, d, groups, memberTab) ==
  LET todo == {g[2] : g \in f.x.groups} \ f.x.asked
      g == Min(todo)
  IN CASE f.at = "begin" ->
            IF groups.f.err # "ok" \/ ~f.in.members THEN groups
            ELSE Go(f, d, "members", [groups |-> groups.f.val, asked |-> {}, got |-> {}])
       [] f.at = "members" ->
            IF todo = {} THEN Return(f, d, "ok", f.x.groups \cup f.x.got)
            ELSE Go(f, d, "members", [asked |-> f.x.asked \cup {g},
                                      got |-> f.x.got \cup Rows(memberTab, Where(d, memberTab, f.t, "group" :> g))])

IpGroupServer(f, d, n) ==
  CASE f.op[3] = "Create" -> CreateIPGroup(f, d, n)
    [] f.op[3] = "Get" -> WithMembers(f, d, GetIPGroup(f, d, n), "ipMembers")
    [] f.op[3] = "List" -> WithMembers(f, d, ListIPGroups(f, d, n), "ipMembers")
    [] f.op[3] = "Update" -> UpdateIPGroup(f, d, n)
    [] f.op[3] = "Delete" -> DeleteIPGroup(f, d, n)
    [] f.op[3] = "AddMember" -> AddIPGroupMember(f, d, n)

IpMemberServer(f, d, n) ==
  CASE f.op[3] = "UpdateMember" -> UpdateIPGroupMember(f, d, n)
    [] f.op[3] = "RemoveMember" -> RemoveIPGroupMember(f, d, n)
    [] f.op[3] = "ListMembers" -> ListIPGroupMembers(f, d, n)
    [] f.op[3] = "CheckIpInGroup" -> CheckIpInGroup(f, d, n)

HostGroupServer(f, d, n) ==
  CASE f.op[3] = "Create" -> CreateHostGroup(f, d, n)
    [] f.op[3] = "Get" -> WithMembers(f, d, GetHostGroup(f, d, n), "hostMembers")
    [] f.op[3] = "List" -> WithMembers(f, d, ListHostGroups(f, d, n), "hostMembers")
    [] f.op[3] = "Update" -> UpdateHostGroup(f, d, n)
    [] f.op[3] = "Delete" -> DeleteHostGroup(f, d, n)

\* A member is removed by device: the group's members are listed, then the row of
\* the device's is removed.
RemoveMember(f, d, n) ==
  LET of == Where(d, "hostMembers", f.t, [group |-> f.in.id, device |-> f.in.device])
  IN IF f.at = "begin" THEN IF of = {} THEN Refuse(f, d, "notfound") ELSE Go(f, d, "remove", [member |-> Min(of)])
     ELSE As(f, RemoveHostGroupMember([f EXCEPT !.in = [id |-> f.x.member] @@ f.in], d, n))

HostMemberServer(f, d, n) ==
  CASE f.op[3] = "AddMember" -> AddHostGroupMember(f, d, n)
    [] f.op[3] = "RemoveMember" -> RemoveMember(f, d, n)
    [] f.op[3] = "ListMembers" -> ListHostGroupMembers(f, d, n)
    [] f.op[3] = "ListDeviceHostGroups" -> ListDeviceHostGroups(f, d, n)

IpScanServer(f, d, n) ==
  CASE f.op[3] = "Start" -> StartScan(f, d, n)
    [] f.op[3] = "Get" -> GetScanJob(f, d, n)
    [] f.op[3] = "List" -> ListScanJobs(f, d, n)
    [] f.op[3] = "Cancel" -> CancelScan(f, d, n)

\* UpdateDnsConfig needs an administrator, which no peer is.
SystemServer(f, d, n) ==
  CASE f.op[3] = "GetStats" -> StatsTenant(f, d, n)
    [] f.op[3] = "GetDnsConfig" -> DNSGet(f, d, n)
    [] f.op[3] = "UpdateDnsConfig" -> DNSUpdate(f, d, n)

Serve(f, d, n) ==
  CASE f.op[2] = "Subnet" -> SubnetServer(f, d, n)
    [] f.op[2] = "IpAddress" -> IpAddressServer(f, d, n)
    [] f.op[2] = "Device" -> DeviceServer(f, d, n)
    [] f.op[2] = "Bmc" -> BmcServer(f, d)
    [] f.op[2] = "Vlan" -> VlanServer(f, d, n)
    [] f.op[2] = "Location" -> LocationServer(f, d, n)
    [] f.op[2] = "IpGroup" -> IpGroupServer(f, d, n)
    [] f.op[2] = "IpMember" -> IpMemberServer(f, d, n)
    [] f.op[2] = "HostGroup" -> HostGroupServer(f, d, n)
    [] f.op[2] = "HostMember" -> HostMemberServer(f, d, n)
    [] f.op[2] = "IpScan" -> IpScanServer(f, d, n)
    [] f.op[2] = "System" -> SystemServer(f, d, n)

\* Health and SyncPackages do not look at the caller; Power looks at its action first.
Call(f, d, n) ==
  CASE f.op[3] = "Health" -> Return(f, d, "ok", {})
    [] f.op[3] = "SyncPackages" \/ (f.op[3] = "Power" /\ f.in.verb = "bad") -> BmcServer(f, d)
    [] OTHER -> IF f.at = "begin" /\ caller(f) # "" THEN Refuse(f, d, caller(f)) ELSE Serve(f, d, n)

isValidation(err) == err \in {"validation", "field"}

grpcError(err) ==
  CASE err = "ok" -> "OK"
    [] isValidation(err) \/ err = "ipv6" -> "InvalidArgument"
    [] err = "notfound" -> "NotFound"
    [] err = "forbidden" -> "PermissionDenied"
    [] err = "noavailable" -> "ResourceExhausted"
    [] err \in {"notempty", "conflict", "toolarge", "activescan", "terminal"} -> "FailedPrecondition"
    [] err = "unauthenticated" -> "Unauthenticated"
    [] err = "unimplemented" -> "Unimplemented"
    [] OTHER -> "Unavailable"

=============================================================================
