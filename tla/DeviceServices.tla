-------------------------- MODULE DeviceServices --------------------------
(***************************************************************************)
(* internal/devices, internal/groups, internal/bmc, internal/dnscfg,       *)
(* internal/arpcfg and internal/stats.  What warden, a resolver or a BMC   *)
(* answers is part of the input of the call.                               *)
(***************************************************************************)
EXTENDS Frames

(***************************************************************************)
(* Devices, interfaces, packages.                                          *)
(***************************************************************************)
DevicesCreate(f, d, n) ==
  CASE f.at = "begin" ->
         IF f.in.row.bmc # "" THEN Refuse(f, d, "field")
         ELSE Then(f, S!CreateDevice(d, f.t, n, f.in.row), "reread", [id |-> n])
    [] f.at = "reread" -> Reread(f, S!GetDevice(d, f.t, f.x.id), "devices")

\* Blank columns and the BMC reference come from the row read first; a body that
\* names another reference is refused.
DevicesUpdate(f, d, n) ==
  LET r == f.in.row
      ex == S!GetDevice(d, f.t, f.in.id)
      keep == [name |-> IF r.name = <<>> THEN ex.val.name ELSE r.name,
               type |-> IF r.type = "" THEN ex.val.type ELSE r.type, bmc |-> ex.val.bmc]
  IN CASE f.at = "begin" ->
            IF ex.err # "ok" THEN Refuse(f, d, ex.err)
            ELSE IF r.bmc \notin {"", ex.val.bmc} THEN Refuse(f, d, "field")
            ELSE Go(f, d, "write", [row |-> keep @@ r])
       [] f.at = "write" -> Then(f, S!UpdateDevice(d, f.t, f.in.id, f.x.row), "reread", [id |-> f.in.id])
       [] f.at = "reread" -> Reread(f, S!GetDevice(d, f.t, f.x.id), "devices")

DevicesDelete(f, d, n) ==
  IF f.at = "begin" /\ ~f.in.force
    THEN IF S!AddressesForDevice(d, f.t, f.in.id) # {} THEN Refuse(f, d, "notempty") ELSE Go(f, d, "delete", None)
  ELSE Reply(f, S!DeleteDevice(d, f.t, f.in.id, f.in.force), {})

DevicesGet(f, d, n) == GetOne(f, d, "devices", S!GetDevice(d, f.t, f.in.id))

DevicesList(f, d, n) == ListAll(f, d, "devices", f.in.filter)

DevicesPage(f, d, n) == ListAll(f, d, "devices", f.in.filter)

GetHardware(f, d, n) == GetOne(f, d, "hardware", S!GetDeviceHardware(d, f.t, f.in.id))

GetAddresses(f, d, n) == Read(f, d, "addrs", S!AddressesForDevice(d, f.t, f.in.id))

PageAddresses(f, d, n) == Read(f, d, "addrs", S!AddressesForDevice(d, f.t, f.in.id))

CreateInterface(f, d, n) ==
  CASE f.at = "begin" -> Then(f, S!GetDevice(d, f.t, f.in.id), "insert", None)
    [] f.at = "insert" -> Then(f, S!CreateInterface(d, f.t, n, [device |-> f.in.id] @@ f.in.row), "reread", [id |-> n])
    [] f.at = "reread" -> Reread(f, S!GetInterface(d, f.t, f.x.id), "ifaces")

ListInterfaces(f, d, n) == ListAll(f, d, "ifaces", "device" :> f.in.id)

PageInterfaces(f, d, n) == ListAll(f, d, "ifaces", "device" :> f.in.id)

DeleteInterface(f, d, n) == Reply(f, S!DeleteInterface(d, f.t, f.in.id), {})

SyncPackages(f, d, n) ==
  IF f.at = "begin" THEN Then(f, S!GetDevice(d, f.t, f.in.id), "replace", None)
  ELSE Reply(f, S!ReplaceDevicePackages(d, f.t, f.in.id, f.in.pkgs), {})

ListPackages(f, d, n) == Return(f, d, "ok", Rows("pkgs", S!ListDevicePackages(d, f.t, f.in.id, f.in.filter)))

PagePackages(f, d, n) == Return(f, d, "ok", Rows("pkgs", S!ListDevicePackages(d, f.t, f.in.id, f.in.filter)))

(***************************************************************************)
(* IP groups and host groups.  A member value is [type, lo, hi]; a single  *)
(* address has lo = hi, and type "bad" does not parse as what it claims.   *)
(***************************************************************************)
CreateIPGroup(f, d, n) ==
  CASE f.at = "begin" ->
         IF f.in.row.name = <<>> THEN Refuse(f, d, "validation")
         ELSE Then(f, S!CreateIPGroup(d, f.t, n, f.in.row), "reread", [id |-> n])
    [] f.at = "reread" -> Reread(f, S!GetIPGroup(d, f.t, f.x.id), "ipGroups")

UpdateIPGroup(f, d, n) ==
  CASE f.at = "begin" ->
         IF f.in.row.name = <<>> THEN Refuse(f, d, "validation")
         ELSE Then(f, S!GetIPGroup(d, f.t, f.in.id), "write", [id |-> f.in.id])
    [] f.at = "write" -> Then(f, S!UpdateIPGroup(d, f.t, f.in.id, f.in.row), "reread", None)
    [] f.at = "reread" -> Reread(f, S!GetIPGroup(d, f.t, f.x.id), "ipGroups")

DeleteIPGroup(f, d, n) == Reply(f, S!DeleteIPGroup(d, f.t, f.in.id), {})

GetIPGroup(f, d, n) == GetOne(f, d, "ipGroups", S!GetIPGroup(d, f.t, f.in.id))

ListIPGroups(f, d, n) == ListAll(f, d, "ipGroups", None)

validateMemberValue(v) == v.type \in {"address", "range", "subnet"}

AddIPGroupMember(f, d, n) ==
  IF ~validateMemberValue(f.in.row.value) THEN Refuse(f, d, "validation")
  ELSE Reply(f, S!AddIPGroupMember(d, f.t, n, f.in.row), Rows("ipMembers", {n}))

UpdateIPGroupMember(f, d, n) ==
  IF ~validateMemberValue(f.in.row.value) THEN Refuse(f, d, "validation")
  ELSE Reply(f, S!UpdateIPGroupMember(d, f.t, f.in.id, f.in.row), Rows("ipMembers", {f.in.id}))

RemoveIPGroupMember(f, d, n) == Reply(f, S!RemoveIPGroupMember(d, f.t, f.in.id), {})

ListIPGroupMembers(f, d, n) == ListAll(f, d, "ipMembers", "group" :> f.in.id)

PageIPGroupMembers(f, d, n) == ListAll(f, d, "ipMembers", "group" :> f.in.id)

Matches(v, ip) == validateMemberValue(v) /\ InRange(v.lo, v.hi, ip)

\* The groups named, or all of them, with a member that matches.
CheckIpInGroup(f, d, n) ==
  LET mine == Where(d, "ipGroups", f.t, None)
      asked == IF f.in.groups = {} THEN mine ELSE mine \cap f.in.groups
  IN Read(f, d, "ipGroups",
          {g \in asked : \E m \in Where(d, "ipMembers", f.t, "group" :> g) : Matches(d.ipMembers[m].value, f.in.addr)})

CreateHostGroup(f, d, n) ==
  CASE f.at = "begin" ->
         IF f.in.row.name = <<>> THEN Refuse(f, d, "validation")
         ELSE Then(f, S!CreateHostGroup(d, f.t, n, f.in.row), "reread", [id |-> n])
    [] f.at = "reread" -> Reread(f, S!GetHostGroup(d, f.t, f.x.id), "hostGroups")

UpdateHostGroup(f, d, n) ==
  CASE f.at = "begin" ->
         IF f.in.row.name = <<>> THEN Refuse(f, d, "validation")
         ELSE Then(f, S!GetHostGroup(d, f.t, f.in.id), "write", [id |-> f.in.id])
    [] f.at = "write" -> Then(f, S!UpdateHostGroup(d, f.t, f.in.id, f.in.row), "reread", None)
    [] f.at = "reread" -> Reread(f, S!GetHostGroup(d, f.t, f.x.id), "hostGroups")

DeleteHostGroup(f, d, n) == Reply(f, S!DeleteHostGroup(d, f.t, f.in.id), {})

GetHostGroup(f, d, n) == GetOne(f, d, "hostGroups", S!GetHostGroup(d, f.t, f.in.id))

ListHostGroups(f, d, n) == ListAll(f, d, "hostGroups", None)

AddHostGroupMember(f, d, n) ==
  IF f.in.row.device = 0 THEN Refuse(f, d, "validation")
  ELSE Reply(f, S!AddHostGroupMember(d, f.t, n, f.in.row), Rows("hostMembers", {n}))

UpdateHostGroupMember(f, d, n) ==
  IF f.in.row.device = 0 THEN Refuse(f, d, "validation")
  ELSE Reply(f, S!UpdateHostGroupMember(d, f.t, f.in.id, f.in.row), Rows("hostMembers", {f.in.id}))

RemoveHostGroupMember(f, d, n) == Reply(f, S!RemoveHostGroupMember(d, f.t, f.in.id), {})

ListHostGroupMembers(f, d, n) == ListAll(f, d, "hostMembers", "group" :> f.in.id)

PageHostGroupMembers(f, d, n) == ListAll(f, d, "hostMembers", "group" :> f.in.id)

ListDeviceHostGroups(f, d, n) == Read(f, d, "hostGroups", Range(S!ListDeviceHostGroups(d, f.t, f.in.id)))

(***************************************************************************)
(* The BMC reference and access decisions.                                 *)
(***************************************************************************)
\* The management address, else the lowest reported address of the device on a BMC
\* interface; 0 when there is none.
Address(d, t, dev) ==
  LET bmc == {k \in S!AddressesForDevice(d, t, dev) : d.addrs[k].iface = "bmc" /\ d.addrs[k].report # "not_reported"}
  IN IF d.devices[dev].mgmt # 0 THEN d.devices[dev].mgmt
     ELSE IF bmc = {} THEN 0 ELSE Min({d.addrs[k].addr : k \in bmc})

\* GetDevice, then AddressesForDevice.
load(f, d, at) ==
  IF f.at = "begin" THEN IF Own(d, "devices", f.t, f.in.id)
                           THEN Go(f, d, "load", [ref |-> d.devices[f.in.id].bmc, dev |-> d.devices[f.in.id]])
                         ELSE Refuse(f, d, "notfound")
  ELSE Go(f, d, at, [addr |-> Address([d EXCEPT !.devices = Put(@, f.in.id, f.x.dev)], f.t, f.in.id)])

\* f.in.warden is what warden answers: "ok" or the reason it refused.
Status(f, d, n) ==
  CASE f.at \in {"begin", "load"} -> load(f, d, "meta")
    [] f.at = "meta" -> Return(f, d, "ok", Rows("devices", {f.in.id}))

\* f.in.ref = "bad" stands for a reference that is no warden id.
Set(f, d, n) ==
  CASE f.in.ref = "bad" -> Refuse(f, d, "field")
    [] f.in.ref # "bad" /\ f.at \in {"begin", "load"} -> load(f, d, "meta")
    [] f.at = "meta" -> IF f.in.warden # "ok" THEN Refuse(f, d, f.in.warden)
                        ELSE IF f.x.ref = f.in.ref THEN Return(f, d, "ok", Rows("devices", {f.in.id}))
                        ELSE Go(f, d, "write", None)
    [] f.at = "write" -> Audited(Reply(f, S!SetDeviceBMCRef(d, f.t, f.in.id, f.in.ref), Rows("devices", {f.in.id})),
                                 IF f.x.ref = "" THEN "set" ELSE "changed", f.in.id)

Clear(f, d, n) ==
  LET a == S!GetDevice(d, f.t, f.in.id)
  IN CASE f.at = "begin" -> IF a.err = "ok" /\ a.val.bmc = "" THEN Return(f, d, "ok", {}) ELSE Then(f, a, "write", None)
       [] f.at = "write" -> Audited(Reply(f, S!SetDeviceBMCRef(d, f.t, f.in.id, ""), {}), "cleared", f.in.id)

\* In this order: platform administrator, device, reference, address, warden.  The
\* answer is the device the BMC of which may be contacted.
ResolveBMC(f, d, n) ==
  CASE f.at = "begin" -> IF IsPlatformAdmin(f) THEN load(f, d, "creds") ELSE Refuse(f, d, "forbidden")
    [] f.at = "load" -> load(f, d, "creds")
    [] f.at = "creds" ->
         IF f.x.ref = "" THEN Refuse(f, d, "not_configured")
         ELSE IF f.x.addr = 0 THEN Refuse(f, d, "no_address")
         ELSE IF f.in.warden # "ok" THEN Refuse(f, d, f.in.warden)
         ELSE Return(f, d, "ok", Rows("devices", {f.in.id}))

\* One audit row with the outcome, or none when it cannot be stored (f.in.audit): the
\* error is dropped.
AuditAction(f, outcome) == IF f.in.audit THEN <<Effect("audit", outcome, f.in.id)>> ELSE <<>>

(***************************************************************************)
(* DNS configuration, ARP settings, statistics.                            *)
(***************************************************************************)
\* A tenant without a row gets the defaults.
DNSGet(f, d, n) == Read(f, d, "dns", Where(d, "dns", f.t, None))

DNSUpdate(f, d, n) ==
  CASE f.at = "begin" ->
         IF ~IsAdmin(f) THEN Refuse(f, d, "forbidden")
         ELSE Then(f, S!UpsertDNSConfig(d, f.t, f.in.servers), "reread", [id |-> f.t])
    [] f.at = "reread" -> Reread(f, S!GetDNSConfig(d, f.t), "dns")

\* f.in.lookup is what the resolver answers; "bad" input never reaches it.
DNSTest(f, d, n) ==
  CASE f.in.addr = 0 -> Refuse(f, d, "error")
    [] f.in.addr # 0 /\ f.at = "begin" -> Go(f, d, "lookup", None)
    [] f.in.addr # 0 /\ f.at = "lookup" -> Return(f, d, f.in.lookup, {})

ARPGet(f, d, n) == Read(f, d, "arp", Where(d, "arp", f.t, None))

\* Every excluded device is looked up before the settings are replaced.
ARPUpdate(f, d, n) ==
  LET todo == IF f.at = "begin" THEN f.in.excluded ELSE f.x.todo
      dev == Min(todo)
  IN CASE f.at \in {"begin", "devices"} ->
            IF f.at = "begin" /\ f.in.threshold \notin 2 .. 256 THEN Refuse(f, d, "field")
            ELSE IF todo # {}
              THEN IF Own(d, "devices", f.t, dev) THEN Go(f, d, "devices", [todo |-> todo \ {dev}]) ELSE Refuse(f, d, "field")
            ELSE Audited(Then(f, S!PutARPSettings(d, f.t, Columns(f.in, {"enabled", "threshold", "excluded"})), "reread", None), "arp_settings", 0)
       [] f.at = "reread" -> ARPGet(f, d, n)

StatsTenant(f, d, n) == Return(f, d, "ok", {})

\* One read per tenant.
StatsSystem(f, d, n) ==
  LET todo == IF f.at = "begin" THEN S!TenantIDs(d) ELSE f.x.todo
  IN IF f.at = "begin" /\ ~IsAdmin(f) THEN Refuse(f, d, "forbidden")
     ELSE IF todo = {} THEN Return(f, d, "ok", {})
     ELSE Go(f, d, "tenant", [todo |-> todo \ {CHOOSE t \in todo : TRUE}])

=============================================================================
