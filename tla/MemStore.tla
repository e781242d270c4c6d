------------------------------ MODULE MemStore ------------------------------
(***************************************************************************)
(* internal/memstore as a state machine: its maps are guarded by one       *)
(* mutex, so every method is one step.                                     *)
(***************************************************************************)
EXTENDS MemWrites

CONSTANTS
  Rooms,        \* bounds: how many rows each table may ever get, and whose
  DeleteLinked  \* whether devices and ports that addresses are linked to get deleted

ASSUME RoomsAssumption ==
  \A r \in Rooms : r.who \subseteq Tenants /\ \A tab \in Tables : r[tab] \in Nat

VARIABLES
  mem,          \* the maps of Mem: [Tables -> [key -> row]]
  born,         \* the last id store.NewID gave out, per table: ids are never reused
  room,         \* the bounds of this behaviour
  call,         \* the last call
  reply         \* what it answered

memVars == <<mem, born, room, call, reply>>

(***************************************************************************)
(* Callers.  Every input the services let through: fresh ids, references   *)
(* to rows of the caller's tenant, ids that exist, are gone, or belong to  *)
(* the other tenant.                                                       *)
(***************************************************************************)
\* The tables whose keys store.NewID makes.
IdTables == Tables \ {"links", "pkgs", "dns", "hsSettings", "arp", "hostLinks", "snmp", "devState", "hardware"}

Init ==
  /\ mem = [tab \in Tables |-> None] /\ born = [tab \in Tables |-> 0]
  /\ room \in Rooms /\ call = <<>> /\ reply = <<>>

Do(c, a) ==
  /\ mem' = a.db /\ call' = c /\ reply' = [err |-> a.err, log |-> a.log, val |-> a.val]
  /\ born' = [tab \in Tables |-> IF tab \in IdTables /\ born[tab] + 1 \in DOMAIN a.db[tab] THEN born[tab] + 1
                                 ELSE born[tab]]
  /\ room' = room

Fresh(tab, t) == IF t \in room.who THEN {born[tab] + 1} \cap 1..room[tab] ELSE {}

Ids(tab) == 1..room[tab]

Rows(tab, t) == Where(mem, tab, t, None)

Nullable(tab, t) == Rows(tab, t) \cup {0}

LocationRows(t) ==
  {[name |-> n[1], code |-> n[2], parent |-> p] : n \in {<<"a", NoText>>, <<"a", "c">>, <<"b", "c">>}, p \in Nullable("locs", t)}

VlanRows(t) ==
  {[name |-> n[1], num |-> n[2], location |-> l] : n \in {<<"a", 1>>, <<"a", 2>>, <<"b", 1>>}, l \in Nullable("locs", t)}

SubnetRows(t) ==
  {[name |-> n, bits |-> IF n = "a" THEN 1 ELSE 64, vlan |-> v, parent |-> p, location |-> l] :
     n \in {"a", "b"}, v \in Nullable("vlans", t), p \in Nullable("subnets", t), l \in Nullable("locs", t)}

\* With whatever the caller's copy holds in the server-owned columns.
AddressRows(t) ==
  {[addr |-> a[1], subnet |-> s, device |-> d, hostname |-> NoText, mac |-> a[2],
    status |-> IF a[2] = NoText THEN "offline" ELSE "active", msrc |-> IF a[2] = NoText THEN NoText ELSE "manual",
    mdev |-> 0, mconf |-> NoText, report |-> "reported", prev |-> d, conflict |-> TRUE, origin |-> "arp",
    lswitch |-> d, lport |-> 0] :
     a \in {<<"x", NoText>>, <<"x", "m">>, <<"y", "m">>}, s \in Rows("subnets", t),
     d \in IF room.hsSettings > 0 THEN {0} ELSE Nullable("devices", t)}

DeviceNames == IF room.addrs > 0 THEN {"a"} ELSE {"a", "b"}

DeviceRows(t) ==
  {[name |-> n[1], location |-> l, type |-> IF n[1] = "a" THEN "switch" ELSE "server", os |-> n[2], bmc |-> NoText,
    source |-> "host_report", host |-> "h", hyper |-> 0, report |-> "reported"] :
     n \in {<<x, NoText>> : x \in DeviceNames} \cup IF room.pkgs > 0 THEN {<<"a", "bsd">>} ELSE {}, l \in Nullable("locs", t)}

InterfaceRows(t) ==
  {[device |-> d, name |-> n, mac |-> IF n = "e0" THEN "m" ELSE NoText, rdev |-> 0, rport |-> 0, lsrc |-> NoText] :
     d \in Rows("devices", t), n \in {"e0", "e1"}}

DoCreateLocation ==
  \E t \in Tenants : \E i \in Fresh("locs", t), r \in LocationRows(t) :
    Do(<<"CreateLocation", t, i, r>>, CreateLocation(mem, t, i, r))

DoUpdateLocation ==
  \E t \in Tenants, i \in Ids("locs") : \E r \in LocationRows(t) :
    Do(<<"UpdateLocation", t, i, r>>, UpdateLocation(mem, t, i, r))

DoDeleteLocation ==
  \E t \in Tenants, i \in Ids("locs"), force \in BOOLEAN :
    Do(<<"DeleteLocation", t, i, force>>, DeleteLocation(mem, t, i, force))

DoCreateVlan ==
  \E t \in Tenants : \E i \in Fresh("vlans", t), r \in VlanRows(t) :
    Do(<<"CreateVlan", t, i, r>>, CreateVlan(mem, t, i, r))

DoUpdateVlan ==
  \E t \in Tenants, i \in Ids("vlans") : \E r \in VlanRows(t) :
    Do(<<"UpdateVlan", t, i, r>>, UpdateVlan(mem, t, i, r))

DoDeleteVlan ==
  \E t \in Tenants, i \in Ids("vlans"), force \in BOOLEAN :
    Do(<<"DeleteVlan", t, i, force>>, DeleteVlan(mem, t, i, force))

DoCreateSubnet ==
  \E t \in Tenants : \E i \in Fresh("subnets", t), r \in SubnetRows(t) :
    Do(<<"CreateSubnet", t, i, r>>, CreateSubnet(mem, t, i, r))

DoUpdateSubnet ==
  \E t \in Tenants, i \in Ids("subnets") : \E r \in SubnetRows(t) :
    Do(<<"UpdateSubnet", t, i, r>>, UpdateSubnet(mem, t, i, r))

DoDeleteSubnet ==
  \E t \in Tenants, i \in Ids("subnets"), force \in BOOLEAN :
    Do(<<"DeleteSubnet", t, i, force>>, DeleteSubnet(mem, t, i, force))

DoCreateAddress ==
  \E t \in Tenants : \E i \in Fresh("addrs", t), r \in AddressRows(t) :
    Do(<<"CreateAddress", t, i, r>>, CreateAddress(mem, t, i, r))

DoUpdateAddress ==
  \E t \in Tenants, i \in Ids("addrs") : \E r \in AddressRows(t) :
    Do(<<"UpdateAddress", t, i, r>>, UpdateAddress(mem, t, i, r))

DoDeleteAddress ==
  \E t \in Tenants, i \in Ids("addrs") : Do(<<"DeleteAddress", t, i>>, DeleteAddress(mem, t, i))

\* What a scan saw: the address answered, perhaps with a name and a MAC.
DoUpsertAddressByAddress ==
  \E t \in Tenants : \E i \in Fresh("addrs", t), r \in AddressRows(t) :
    LET seen == [r EXCEPT !.hostname = IF r.addr = "y" THEN NoText ELSE "ptr", !.status = "active", !.msrc = NoText, !.device = 0]
    IN Do(<<"UpsertAddressByAddress", t, i, seen>>, UpsertAddressByAddress(mem, t, i, seen))

DoCreateDevice ==
  \E t \in Tenants : \E i \in Fresh("devices", t), r \in DeviceRows(t) :
    Do(<<"CreateDevice", t, i, r>>, CreateDevice(mem, t, i, r))

DoUpdateDevice ==
  \E t \in Tenants, i \in Ids("devices") : \E r \in DeviceRows(t) :
    Do(<<"UpdateDevice", t, i, r>>, UpdateDevice(mem, t, i, r))

\* An address whose MAC was learned from device d, or whose link is on it or on
\* one of the given ports.
LinkedTo(d, ports) ==
  \E a \in DOMAIN mem.addrs : mem.addrs[a].mdev = d \/ mem.addrs[a].lswitch = d \/ mem.addrs[a].lport \in ports

DoDeleteDevice ==
  \E t \in Tenants, i \in Ids("devices"), force \in BOOLEAN :
    /\ DeleteLinked \/ ~LinkedTo(i, {})
    /\ Do(<<"DeleteDevice", t, i, force>>, DeleteDevice(mem, t, i, force))

DoUpsertDeviceByName ==
  \E t \in Tenants : \E i \in Fresh("devices", t), r \in DeviceRows(t) :
    Do(<<"UpsertDeviceByName", t, i, r>>, UpsertDeviceByName(mem, t, i, r))

DoCreateInterface ==
  \E t \in Tenants : \E i \in Fresh("ifaces", t), r \in InterfaceRows(t) :
    Do(<<"CreateInterface", t, i, r>>, CreateInterface(mem, t, i, r))

DoUpsertInterfaceByName ==
  \E t \in Tenants : \E i \in Fresh("ifaces", t), r \in InterfaceRows(t) :
    Do(<<"UpsertInterfaceByName", t, i, r>>, UpsertInterfaceByName(mem, t, i, r))

DoDeleteInterface ==
  \E t \in Tenants, i \in Ids("ifaces") :
    /\ DeleteLinked \/ ~LinkedTo(-1, {i})
    /\ Do(<<"DeleteInterface", t, i>>, DeleteInterface(mem, t, i))

DoReplaceInterfaceLinks ==
  \E t \in Tenants, i \in Ids("ifaces"), seq \in {<<>>, <<<<"lldp", 9>>>>, <<<<"lldp", 9>>, <<"lldp", 9>>>>} :
    /\ room.links > 0
    /\ Do(<<"ReplaceInterfaceLinks", t, i, seq>>, ReplaceInterfaceLinks(mem, t, i, seq))

DoReplaceDevicePackages ==
  \E t \in Tenants, seq \in {<<>>, <<<<"p", TRUE>>>>, <<<<"p", TRUE>>, <<"p", FALSE>>>>, <<<<"p", FALSE>>, <<"q", TRUE>>>>} :
    \E i \in Rows("devices", t) :
      /\ room.pkgs > 0
      /\ Do(<<"ReplaceDevicePackages", t, i, seq>>, ReplaceDevicePackages(mem, t, i, seq))

DoDeleteDevicePackages ==
  \E t \in Tenants : \E i \in Rows("devices", t) :
    room.pkgs > 0 /\ Do(<<"DeleteDevicePackages", t, i>>, DeleteDevicePackages(mem, t, i))

GroupRows == [name : {"a", "b"}]

DoCreateIPGroup ==
  \E t \in Tenants : \E i \in Fresh("ipGroups", t), r \in GroupRows :
    Do(<<"CreateIPGroup", t, i, r>>, CreateIPGroup(mem, t, i, r))

DoUpdateIPGroup ==
  \E t \in Tenants, i \in Ids("ipGroups"), r \in GroupRows :
    Do(<<"UpdateIPGroup", t, i, r>>, UpdateIPGroup(mem, t, i, r))

DoDeleteIPGroup ==
  \E t \in Tenants, i \in Ids("ipGroups") : Do(<<"DeleteIPGroup", t, i>>, DeleteIPGroup(mem, t, i))

DoAddIPGroupMember ==
  \E t \in Tenants : \E i \in Fresh("ipMembers", t), v \in {"x", "y"}, n \in {1, 2}, g \in Rows("ipGroups", t) :
    LET r == [group |-> g, value |-> v, seq |-> n]
    IN Do(<<"AddIPGroupMember", t, i, r>>, AddIPGroupMember(mem, t, i, r))

DoUpdateIPGroupMember ==
  \E t \in Tenants, i \in Ids("ipMembers"), v \in {"x", "y"}, n \in {1, 2} :
    LET r == [group |-> 0, value |-> v, seq |-> n]
    IN Do(<<"UpdateIPGroupMember", t, i, r>>, UpdateIPGroupMember(mem, t, i, r))

DoRemoveIPGroupMember ==
  \E t \in Tenants, i \in Ids("ipMembers") : Do(<<"RemoveIPGroupMember", t, i>>, RemoveIPGroupMember(mem, t, i))

DoCreateHostGroup ==
  \E t \in Tenants : \E i \in Fresh("hostGroups", t), r \in GroupRows :
    Do(<<"CreateHostGroup", t, i, r>>, CreateHostGroup(mem, t, i, r))

DoUpdateHostGroup ==
  \E t \in Tenants, i \in Ids("hostGroups"), r \in GroupRows :
    Do(<<"UpdateHostGroup", t, i, r>>, UpdateHostGroup(mem, t, i, r))

DoDeleteHostGroup ==
  \E t \in Tenants, i \in Ids("hostGroups") : Do(<<"DeleteHostGroup", t, i>>, DeleteHostGroup(mem, t, i))

DoAddHostGroupMember ==
  \E t \in Tenants : \E i \in Fresh("hostMembers", t), n \in {1, 2} :
    \E g \in Rows("hostGroups", t), dev \in Rows("devices", t) :
      LET r == [group |-> g, device |-> dev, seq |-> n]
      IN Do(<<"AddHostGroupMember", t, i, r>>, AddHostGroupMember(mem, t, i, r))

DoUpdateHostGroupMember ==
  \E t \in Tenants, i \in Ids("hostMembers"), n \in {1, 2} : \E dev \in Rows("devices", t) :
    LET r == [group |-> 0, device |-> dev, seq |-> n]
    IN Do(<<"UpdateHostGroupMember", t, i, r>>, UpdateHostGroupMember(mem, t, i, r))

DoRemoveHostGroupMember ==
  \E t \in Tenants, i \in Ids("hostMembers") :
    Do(<<"RemoveHostGroupMember", t, i>>, RemoveHostGroupMember(mem, t, i))

DoCreateScanJob ==
  \E t \in Tenants : \E i \in Fresh("scans", t), s \in Rows("subnets", t) :
    LET r == [subnet |-> s, status |-> "pending", later |-> FALSE]
    IN Do(<<"CreateScanJob", t, i, r>>, CreateScanJob(mem, t, i, r))

DoUpdateScanJob ==
  \E t \in Tenants, i \in Ids("scans"), r \in [status : {"pending"}, later : BOOLEAN] \cup [status : {"failed"}, later : {FALSE}] :
    Do(<<"UpdateScanJob", t, i, r>>, UpdateScanJob(mem, t, i, r))

DoClaimDueScanJobs ==
  \E limit \in 1..2 : room.scans > 0 /\ Do(<<"ClaimDueScanJobs", limit>>, ClaimDueScanJobs(mem, limit))

DoUpsertDNSConfig ==
  \E t \in room.who, servers \in {NoText, "s"} :
    room.dns > 0 /\ Do(<<"UpsertDNSConfig", t, servers>>, UpsertDNSConfig(mem, t, servers))

DoAppendAudit == room.dns > 0 /\ Do(<<"AppendAudit">>, AppendAudit(mem))

DoPutSubnetSNMP ==
  \E t \in Tenants, i \in Ids("subnets"), version \in {"v2c", "v3"} :
    room.snmp > 0 /\ Do(<<"PutSubnetSNMP", t, i, version>>, PutSubnetSNMP(mem, t, i, version))

DoDeleteSubnetSNMP ==
  \E t \in Tenants, i \in Ids("subnets") :
    room.snmp > 0 /\ Do(<<"DeleteSubnetSNMP", t, i>>, DeleteSubnetSNMP(mem, t, i))

DoSetDeviceBMCRef ==
  \E t \in Tenants, i \in Ids("devices"), ref \in {NoText, "w"} :
    room.hardware > 0 /\ Do(<<"SetDeviceBMCRef", t, i, ref>>, SetDeviceBMCRef(mem, t, i, ref))

DoPutARPSettings ==
  \E t \in room.who, on \in BOOLEAN :
    LET cfg == [DefaultARPSettings EXCEPT !.enabled = on]
    IN room.arp > 0 /\ Do(<<"PutARPSettings", t, cfg>>, PutARPSettings(mem, t, cfg))

\* Operations planned from an earlier snapshot of the addresses.
ARPOps(t) ==
  [kind : {"create"}, id : Fresh("addrs", t), addr : {"x", "y"}, subnet : Ids("subnets"), mac : {"n"}, dev : Rows("devices", t)]
    \cup [kind : {"fill", "conflict", "clear", "touch"}, id : Ids("addrs"), addr : {"x"}, subnet : {0},
          mac : {"n"}, dev : Rows("devices", t)]

DoApplyARP ==
  \E t \in Tenants : \E o \in ARPOps(t) : \E ops \in {<<o>>, <<o, [o EXCEPT !.kind = "conflict"]>>} :
    room.arp > 0 /\ Do(<<"ApplyARP", t, ops>>, ApplyARP(mem, t, ops))

\* The link sets the correlation asks for: at most one port per switch.
LinkSets(t) ==
  LET links(S) == {<<mem.ifaces[p].device, p>> : p \in S}
  IN {links(S) : S \in {P \in SUBSET Rows("ifaces", t) :
                          \A p, q \in P : p # q => mem.ifaces[p].device # mem.ifaces[q].device}}

Primary(links) == IF links = {} THEN <<0, 0>> ELSE CHOOSE l \in links : TRUE

LinkSource(links) == IF links = {} THEN NoText ELSE "lldp"

DoSetAddressLinks ==
  \E t \in Tenants, i \in Ids("addrs") : \E links \in LinkSets(t) :
    LET p == Primary(links)
    IN room.hostLinks > 0 /\ Do(<<"SetAddressLinks", t, i, p[1], p[2], links>>, SetAddressLinks(mem, t, i, p[1], p[2], links))

DoSetInterfaceLinks ==
  \E t \in Tenants, i \in Ids("ifaces") : \E links \in LinkSets(t) :
    LET p == Primary(links)
        src == LinkSource(links)
    IN room.hostLinks > 0 /\ Do(<<"SetInterfaceLinks", t, i, p[1], p[2], src, links>>, SetInterfaceLinks(mem, t, i, p[1], p[2], src, links))

DoEnsureHostSyncSettings ==
  \E t \in room.who : room.hsSettings > 0 /\ Do(<<"EnsureHostSyncSettings", t>>, EnsureHostSyncSettings(mem, t))

DoUpdateHostSyncSettings ==
  \E t \in room.who, on \in BOOLEAN :
    room.hsSettings > 1 /\ Do(<<"UpdateHostSyncSettings", t, on>>, UpdateHostSyncSettings(mem, t, on))

DoRequestReconcile ==
  \E t \in room.who : room.hsSettings > 2 /\ Do(<<"RequestReconcile", t>>, RequestReconcile(mem, t))

DoSaveHostSyncState ==
  \E t \in room.who, since \in {0, 1}, clear \in BOOLEAN :
    room.hsSettings > 2 /\ Do(<<"SaveHostSyncState", t, "error", since, clear>>, SaveHostSyncState(mem, t, "error", since, clear))

DoClearAddressConflict ==
  \E t \in Tenants, i \in Ids("addrs") :
    room.hsSettings > 0 /\ Do(<<"ClearAddressConflict", t, i>>, ClearAddressConflict(mem, t, i))

\* The statements of a plan for tenant t.
DeviceReports(t) ==
  [name : DeviceNames, location : {0}, type : {"server"}, os : {"linux"}, bmc : {NoText}, source : {"host_report"},
   host : {"h"}, report : {"reported"}]

AddressReports(t) ==
  {[addr |-> "x", subnet |-> s, device |-> d, hostname |-> NoText, mac |-> IF c THEN NoText ELSE "m", status |-> "active",
    report |-> IF d = 0 THEN "not_reported" ELSE "reported", prev |-> IF c THEN d ELSE 0, conflict |-> c] :
     s \in Rows("subnets", t), d \in Nullable("devices", t), c \in BOOLEAN}

DeviceStatements(t) ==
  {<<"InsertDevice", i, r>> : i \in Fresh("devices", t), r \in DeviceReports(t)}
    \cup {<<"UpdateDeviceReported", i, r>> : i \in {k \in Rows("devices", t) : ~Taken(mem, "devices", t, k, "host", "h")},
                                             r \in DeviceReports(t)}
    \cup {<<"SetHypervisor", h[1], h[2]>> :
            h \in {g \in Rows("devices", t) \X Nullable("devices", t) : g[1] # g[2]}}
    \cup {<<"MarkDeviceNotReported", i>> : i \in Ids("devices")}
    \cup {<<"SaveDeviceState", i, n>> : i \in Rows("devices", t), n \in 1..room.devState}
    \cup {<<"ReplaceHardware", i, v>> : i \in Ids("devices"), v \in IF room.hardware > 0 THEN {"w"} ELSE {}}

PackageReports == IF room.pkgs > 0 THEN {<<>>, <<<<"p", TRUE>>>>} ELSE {}

GuestReports(t) ==
  {None} \cup {[x \in {k} |-> [ref |-> "r", mac |-> "m", guest |-> 0]] : k \in Fresh("guests", t)}

GuestStatements(t) ==
  {<<"ReplaceGuests", i, rows>> : i \in Rows("devices", t), rows \in GuestReports(t)}
    \cup {<<"SetGuestDevice", i, dev>> : i \in Ids("guests"), dev \in Nullable("devices", t)}
    \cup {<<"ReplacePendingPackages", i, seq>> : i \in Rows("devices", t), seq \in PackageReports}

PortReports(t) ==
  {[rdev |-> 0, rport |-> 0, lsrc |-> NoText, report |-> "reported"] \uplus Columns(r, {"device", "name", "mac"}) : r \in InterfaceRows(t)}

PortGone == [mac |-> NoText, report |-> "not_reported"]

AutoSubnets == [name : {"b"}, bits : {64}, vlan : {0}, parent : {0}, location : {0}]

NetworkStatements(t) ==
  {<<"UpsertInterfaceReported", p[1], p[2], TRUE>> : p \in Fresh("ifaces", t) \X PortReports(t)}
    \cup {<<"UpsertInterfaceReported", i, PortGone, FALSE>> : i \in Ids("ifaces")}
    \cup {<<"CreateSubnetAuto", p[1], p[2]>> : p \in Fresh("subnets", t) \X AutoSubnets}
    \cup {<<"InsertAddressReported", p[1], p[2]>> : p \in Fresh("addrs", t) \X AddressReports(t)}
    \cup {<<"UpdateAddressReported", p[1], p[2]>> : p \in Ids("addrs") \X AddressReports(t)}

\* One statement after an audit row, perhaps followed by one that fails.
Scripts(t) ==
  LET some == DeviceStatements(t) \cup GuestStatements(t) \cup NetworkStatements(t)
  IN UNION {{<<<<"AppendAudit">>, o>>, <<<<"AppendAudit">>, o, <<"MarkDeviceNotReported", 0>>>>} : o \in some}

DoApplyHostReport ==
  \E t \in DOMAIN mem.hsSettings : \E script \in Scripts(t) :
    Do(<<"ApplyHostReport", t, script>>, ApplyHostReport(mem, t, script))

Places ==
  \/ DoCreateLocation \/ DoUpdateLocation \/ DoDeleteLocation \/ DoCreateVlan \/ DoUpdateVlan \/ DoDeleteVlan
  \/ DoCreateSubnet \/ DoUpdateSubnet \/ DoDeleteSubnet \/ DoPutSubnetSNMP \/ DoDeleteSubnetSNMP

Addressing ==
  \/ DoCreateAddress \/ DoUpdateAddress \/ DoDeleteAddress \/ DoUpsertAddressByAddress \/ DoApplyARP \/ DoPutARPSettings
  \/ DoSetAddressLinks \/ DoClearAddressConflict

DevicesAndPorts ==
  \/ DoCreateDevice \/ DoUpdateDevice \/ DoDeleteDevice \/ DoUpsertDeviceByName \/ DoSetDeviceBMCRef
  \/ DoCreateInterface \/ DoUpsertInterfaceByName \/ DoDeleteInterface \/ DoReplaceInterfaceLinks \/ DoSetInterfaceLinks
  \/ DoReplaceDevicePackages \/ DoDeleteDevicePackages

Groups ==
  \/ DoCreateIPGroup \/ DoUpdateIPGroup \/ DoDeleteIPGroup
  \/ DoAddIPGroupMember \/ DoUpdateIPGroupMember \/ DoRemoveIPGroupMember
  \/ DoCreateHostGroup \/ DoUpdateHostGroup \/ DoDeleteHostGroup
  \/ DoAddHostGroupMember \/ DoUpdateHostGroupMember \/ DoRemoveHostGroupMember

Jobs ==
  \/ DoCreateScanJob \/ DoUpdateScanJob \/ DoClaimDueScanJobs \/ DoUpsertDNSConfig \/ DoAppendAudit
  \/ DoEnsureHostSyncSettings \/ DoUpdateHostSyncSettings \/ DoRequestReconcile \/ DoSaveHostSyncState
  \/ DoApplyHostReport

Next == Places \/ Addressing \/ DevicesAndPorts \/ Groups \/ Jobs

Spec == Init /\ [][Next]_memVars

(***************************************************************************)
(* The database rows the maps stand for.  A link whose port has been       *)
(* deleted stays in the map and is skipped by every read.                  *)
(***************************************************************************)
AbsLinks(m) ==
  [k \in UNION {{<<i, l.src, l.remote>> : l \in Range(m.links[i])} : i \in DOMAIN m.links} |->
    [tenant |-> m.links[k[1]][1].tenant, iface |-> k[1], src |-> k[2], remote |-> k[3]]]

AbsPkgs(m) ==
  [k \in UNION {{<<i, p.name>> : p \in Range(m.pkgs[i])} : i \in DOMAIN m.pkgs} |->
    [tenant |-> m.pkgs[k[1]][1].tenant, device |-> k[1], name |-> k[2],
     pending |-> \E p \in Range(m.pkgs[k[1]]) : p.name = k[2] /\ p.pending]]

AbsHostLinks(m) ==
  LET live(h) == hostLinksLocked(m, m.hostLinks[h].tenant, h[1], h[2])
  IN [k \in UNION {{<<h[1], h[2], l.switch>> : l \in live(h)} : h \in DOMAIN m.hostLinks} |->
       [tenant |-> m.hostLinks[<<k[1], k[2]>>].tenant, kind |-> k[1], host |-> k[2], switch |-> k[3],
        port |-> (CHOOSE l \in live(<<k[1], k[2]>>) : l.switch = k[3]).port]]

Abs(m) == [m EXCEPT !.links = AbsLinks(m), !.pkgs = AbsPkgs(m), !.hostLinks = AbsHostLinks(m)]

(***************************************************************************)
(* Properties.                                                             *)
(***************************************************************************)
TypeOK ==
  /\ DOMAIN mem = Tables
  /\ \A tab \in Tables \ {"links", "pkgs"} : \A k \in DOMAIN mem[tab] : mem[tab][k].tenant \in Tenants
  /\ \A tab \in {"links", "pkgs"} : \A k \in DOMAIN mem[tab] : \A r \in Range(mem[tab][k]) : r.tenant \in Tenants

\* No row points at a row that is gone: in the database a foreign key sees to
\* it, in the maps every delete has to find the rows that refer to it.
ReferencesLive ==
  LET d == Abs(mem)
  IN \A r \in Refs : \A k \in DOMAIN d[r.from] : d[r.from][k][r.col] \in DOMAIN d[r.to] \cup {0}

=============================================================================
