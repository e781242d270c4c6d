------------------------------ MODULE MemReads ------------------------------
(***************************************************************************)
(* internal/memstore: the methods that only read, and the paged lists.     *)
(***************************************************************************)
EXTENDS MemWrites, StoreLists

Get(m, tab, t, i, computed) ==
  IF Own(m, tab, t, i) THEN Answer("ok", m, 0, computed \uplus m[tab][i]) ELSE Err("notfound", m)

(***************************************************************************)
(* Locations, VLANs and subnets.                                           *)
(***************************************************************************)
GetLocation(m, t, i) == Get(m, "locs", t, i, fillLocation(m, t, i))

ListLocations(m, t, f, cursor, limit) == Keyset(Where(m, "locs", t, f), cursor, limit)

fillVlan(m, t, i) == [subnets |-> Used(m, "subnets", t, "vlan", i)]

GetVlan(m, t, i) == Get(m, "vlans", t, i, fillVlan(m, t, i))

ListVlans(m, t, f, cursor, limit) == Keyset(Where(m, "vlans", t, f), cursor, limit)

subnetTotal(bits) == IF bits <= 0 THEN 1 ELSE IF bits > 62 THEN 0 ELSE 2 ^ bits

fillSubnetUncounted(m, t, i) ==
  LET used == Used(m, "addrs", t, "subnet", i)
      total == subnetTotal(m.subnets[i].bits)
  IN [total |-> total, used |-> used, free |-> total - used]

fillSubnet(m, t, i) ==
  LET used == Used(m, "addrs", t, "subnet", i)
      total == subnetTotal(m.subnets[i].bits)
  IN [total |-> total, used |-> used, free |-> IF total > 0 THEN total - used ELSE 0]

GetSubnet(m, t, i) == Get(m, "subnets", t, i, fillSubnet(m, t, i))

ListSubnets(m, t, f, cursor, limit) == Keyset(Where(m, "subnets", t, f), cursor, limit)

CountAddressesInSubnet(m, t, i) == Used(m, "addrs", t, "subnet", i)

ListAllocated(m, t, i) == {m.addrs[k].addr : k \in Where(m, "addrs", t, [subnet |-> i])}

SubnetsForVlan(m, t, v) ==
  [k \in Where(m, "subnets", t, [vlan |-> v]) |-> fillSubnet(m, t, k) \uplus m.subnets[k]]

AllSubnetCIDRs(m, t) == [k \in Where(m, "subnets", t, None) |-> m.subnets[k]]

(***************************************************************************)
(* Addresses.                                                              *)
(***************************************************************************)
linkedToLocked(m, t, kind, host, port) == \E l \in hostLinksLocked(m, t, kind, host) : l.port = port

decorateAddrLocked(m, t, i) ==
  LET sw == m.addrs[i].lswitch
  IN [linkName |-> IF Own(m, "devices", t, sw) THEN m.devices[sw].name ELSE NoText,
      links |-> hostLinksLocked(m, t, "address", i)]

GetAddress(m, t, i) == Get(m, "addrs", t, i, decorateAddrLocked(m, t, i))

FindAddress(m, t, a) ==
  LET found == Where(m, "addrs", t, [addr |-> a])
  IN IF found = {} THEN Err("notfound", m) ELSE GetAddress(m, t, CHOOSE k \in found : TRUE)

ListAddresses(m, t, f, cursor, limit) == Keyset(Where(m, "addrs", t, f), cursor, limit)

AddressesForDevice(m, t, i) == Where(m, "addrs", t, [device |-> i])

(***************************************************************************)
(* Devices, interfaces, links and packages.  m.links and m.pkgs hold one   *)
(* slice per interface and per device.                                     *)
(***************************************************************************)
GetDevice(m, t, i) == Get(m, "devices", t, i, fillDevice(m, t, i))

ListDevices(m, t, f, cursor, limit) == Keyset(Where(m, "devices", t, f), cursor, limit)

GetInterface(m, t, i) == Get(m, "ifaces", t, i, None)

behindAddressesLocked(m, t, port) ==
  {a \in Where(m, "addrs", t, None) : m.addrs[a].lport = port \/ linkedToLocked(m, t, "address", a, port)}

ListInterfaces(m, t, dev) ==
  [i \in Where(m, "ifaces", t, [device |-> dev]) |->
    LET row == m.ifaces[i]
        behind == {h \in Where(m, "ifaces", t, None) :
                     m.ifaces[h].rport = i \/ linkedToLocked(m, t, "interface", h, i)}
    IN [remote |-> IF Own(m, "devices", t, row.rdev) THEN m.devices[row.rdev].name ELSE NoText,
        behind |-> {m.ifaces[h].device : h \in behind}, addresses |-> behindAddressesLocked(m, t, i),
        links |-> hostLinksLocked(m, t, "interface", i)] \uplus row]

ListInterfaceLinks(m, t, i) ==
  {<<l.src, l.remote>> : l \in {x \in ToSet(Slice(m, "links", i)) : x.tenant = t}}

ListDevicePackages(m, t, i, f) ==
  {<<p.name, p.pending>> : p \in {x \in ToSet(Slice(m, "pkgs", i)) :
                                    x.tenant = t /\ \A c \in DOMAIN f : x[c] = f[c]}}

(***************************************************************************)
(* Groups, scan jobs, DNS settings and statistics.                         *)
(***************************************************************************)
GetIPGroup(m, t, i) == Get(m, "ipGroups", t, i, [members |-> Used(m, "ipMembers", t, "group", i)])

ListIPGroups(m, t, cursor, limit) == Keyset(Where(m, "ipGroups", t, None), cursor, limit)

Sequenced(m, tab, S) ==
  SetToSortSeq(S, LAMBDA a, b : \/ m[tab][a].seq < m[tab][b].seq
                                \/ m[tab][a].seq = m[tab][b].seq /\ a < b)

ListIPGroupMembers(m, t, g) == Sequenced(m, "ipMembers", Where(m, "ipMembers", t, [group |-> g]))

AllIPGroupsWithMembers(m, t) == [g \in Where(m, "ipGroups", t, None) |-> ListIPGroupMembers(m, t, g)]

GetHostGroup(m, t, i) == Get(m, "hostGroups", t, i, [members |-> Used(m, "hostMembers", t, "group", i)])

ListHostGroups(m, t, cursor, limit) == Keyset(Where(m, "hostGroups", t, None), cursor, limit)

enrichHostMember(m, k) ==
  LET dev == m.hostMembers[k].device
  IN <<k, IF dev \in DOMAIN m.devices THEN m.devices[dev].name ELSE NoText>>

ListHostGroupMembers(m, t, g) ==
  LET order == Sequenced(m, "hostMembers", Where(m, "hostMembers", t, [group |-> g]))
  IN [n \in DOMAIN order |-> enrichHostMember(m, order[n])]

ListDeviceHostGroups(m, t, dev) ==
  Keyset({m.hostMembers[k].group : k \in Where(m, "hostMembers", t, [device |-> dev])}
           \cap Where(m, "hostGroups", t, None), 0, 0)

GetScanJob(m, t, i) == Get(m, "scans", t, i, None)

ListScanJobs(m, t, f, cursor, limit) == Keyset(Where(m, "scans", t, f), cursor, limit)

ActiveScanForSubnet(m, t, i) ==
  \E k \in Where(m, "scans", t, [subnet |-> i]) : m.scans[k].status \in {"pending", "scanning"}

GetDNSConfig(m, t) == Get(m, "dns", t, t, None)

TenantStats(m, t) ==
  LET subs == Where(m, "subnets", t, None)
      total == MapThenSumSet(LAMBDA k : subnetTotal(m.subnets[k].bits), subs)
      used == MapThenSumSet(LAMBDA k : Used(m, "addrs", t, "subnet", k), subs)
  IN [subnets |-> Cardinality(subs), total |-> total, used |-> used,
      free |-> IF total > 0 THEN total - used ELSE 0, vlans |-> Count(m, "vlans", t, None),
      locations |-> Count(m, "locs", t, None),
      devices |-> [k \in {m.devices[i].type : i \in Where(m, "devices", t, None)} |->
                    Used(m, "devices", t, "type", k)]]

TenantIDs(m) ==
  UNION {{m[tab][k].tenant : k \in DOMAIN m[tab]} : tab \in {"subnets", "devices", "vlans", "locs", "scans"}}

(***************************************************************************)
(* Subnet credentials, the BMC reference, ARP settings, ARP data, links.   *)
(***************************************************************************)
GetSubnetSNMP(m, t, i) == Get(m, "snmp", t, i, None)

ListSubnetSNMP(m, t) == Ascending(Where(m, "snmp", t, None))

GetARPSettings(m, t) == IF t \in DOMAIN m.arp THEN Drop(m.arp[t], {"tenant"}) ELSE DefaultARPSettings

NetworkMACs(m, t) ==
  {m.ifaces[i].mac : i \in {k \in Where(m, "ifaces", t, None) :
     m.ifaces[k].mac # NoText /\ IsNetworkDevice(m.devices[m.ifaces[k].device].type)}}

PortLinkData(m, t) ==
  LET switches == Where(m, "devices", t, [type |-> "switch"])
      hosts == Where(m, "devices", t, [source |-> "host_report"])
      nics == {i \in Where(m, "ifaces", t, [report |-> "reported"]) :
                 m.ifaces[i].device \in hosts /\ m.ifaces[i].mac # NoText}
      addrs == {a \in Where(m, "addrs", t, None) : m.addrs[a].mac # NoText \/ m.addrs[a].lport # 0}
  IN [switches |-> switches, hosts |-> hosts, macs |-> NetworkMACs(m, t),
      ports |-> {i \in Where(m, "ifaces", t, None) : m.ifaces[i].device \in switches},
      nics |-> [i \in nics |-> hostLinksLocked(m, t, "interface", i)],
      addrs |-> [a \in addrs |-> decorateAddrLocked(m, t, a)], guests |-> Where(m, "guests", t, None)]

(***************************************************************************)
(* Host sync: settings, the per-host transaction and its statements.       *)
(***************************************************************************)
GetHostSyncSettings(m, t) == Get(m, "hsSettings", t, t, None)

ListHostSyncSettings(m) == m.hsSettings

HostDevices(m, t) == Ascending({i \in Where(m, "devices", t, None) : m.devices[i].host # NoText})

GetHostSyncDeviceState(m, t, i) == Get(m, "devState", t, i, None)

HostSyncCounts(m, t) ==
  <<Used(m, "devices", t, "report", "not_reported"), Used(m, "addrs", t, "conflict", TRUE)>>

ListGuests(m, t, i) ==
  {LET g == m.guests[k]
   IN [ref |-> g.ref, name |-> IF Own(m, "devices", t, g.guest) THEN m.devices[g.guest].name ELSE NoText] :
     k \in Where(m, "guests", t, [device |-> i])}

GetDeviceHardware(m, t, i) == Get(m, "hardware", t, i, None)

devicesWhere(m, t, keep(_)) == Ascending({i \in Where(m, "devices", t, None) : keep(m.devices[i])})

DeviceByInventoryHost(m, t, h) == ToSet(devicesWhere(m, t, LAMBDA x : x.host = h))

DevicesByNames(m, t, names) == devicesWhere(m, t, LAMBDA x : x.name \in names)

Interfaces(m, t, dev) == Ascending(Where(m, "ifaces", t, [device |-> dev]))

addrsWhere(m, t, keep(_)) == Ascending({i \in Where(m, "addrs", t, None) : keep(m.addrs[i])})

AddressesByValue(m, t, values) == addrsWhere(m, t, LAMBDA x : x.addr \in values)

AddressesOfDevice(m, t, dev) == addrsWhere(m, t, LAMBDA x : x.device = dev)

Subnets(m, t) == Ascending(Where(m, "subnets", t, None))

Packages(m, t, dev) == {p.name : p \in {x \in ToSet(Slice(m, "pkgs", dev)) : x.tenant = t}}

Guests(m, t, dev) == Ascending(Where(m, "guests", t, [device |-> dev]))

DevicesByMAC(m, t, mac) ==
  {<<m.ifaces[i].device, m.devices[m.ifaces[i].device].hyper>> : i \in Where(m, "ifaces", t, [mac |-> mac])}

GuestRowsByMAC(m, t, mac) == Ascending(Where(m, "guests", t, [mac |-> mac]))

GuestDevicesOf(m, t, i) == Ascending(Where(m, "devices", t, [hyper |-> i]))

(***************************************************************************)
(* Paged lists: the rows of the keyset list, sorted and cut in Go.         *)
(***************************************************************************)
pageOf(all, spec, req, key(_, _)) ==
  LET applied == ListRequest(req, spec)
  IN Window(InKeyOrder(ToSet(all), LAMBDA k : key(k, applied.sort), applied.desc), applied)

PageSubnets(m, t, f, req) ==
  pageOf(ListSubnets(m, t, f, 0, 0), Lists.subnets, req, LAMBDA k, field :
    CASE field = "name" -> Text(m.subnets[k].name) [] field = "vlan" -> Optional(m.subnets[k].vlan)
      [] field = "location" -> Optional(m.subnets[k].location) [] OTHER -> Num(m.subnets[k].bits))

addressKey(row, field) ==
  CASE field = "hostname" -> Text(row.hostname) [] field = "mac" -> Text(row.mac)
    [] field = "status" -> Text(row.status) [] OTHER -> Text(row.addr)

PageAddresses(m, t, f, req) ==
  pageOf(ListAddresses(m, t, f, 0, 0), Lists.addrs, req, LAMBDA k, field : addressKey(m.addrs[k], field))

PageDevices(m, t, f, req) ==
  pageOf(ListDevices(m, t, f, 0, 0), Lists.devices, req, LAMBDA k, field :
    CASE field = "device_type" -> Text(m.devices[k].type) [] field = "location" -> Optional(m.devices[k].location)
      [] field = "created_at" -> Num(k) [] OTHER -> Text(m.devices[k].name))

PageVlans(m, t, f, req) ==
  pageOf(ListVlans(m, t, f, 0, 0), Lists.vlans, req, LAMBDA k, field :
    IF field = "name" THEN Text(m.vlans[k].name) ELSE Num(m.vlans[k].num))

PageScanJobs(m, t, f, req) ==
  pageOf(ListScanJobs(m, t, f, 0, 0), Lists.scans, req, LAMBDA k, field :
    CASE field = "status" -> Text(m.scans[k].status) [] field = "subnet" -> Optional(m.scans[k].subnet)
      [] OTHER -> Num(k))

PageIPGroupMembers(m, t, g, req) ==
  pageOf(ListIPGroupMembers(m, t, g), Lists.ipMembers, req, LAMBDA k, field :
    IF field = "name" THEN Text(m.ipMembers[k].value) ELSE Num(m.ipMembers[k].seq))

PageHostGroupMembers(m, t, g, req) ==
  LET all == ListHostGroupMembers(m, t, g)
  IN pageOf([n \in DOMAIN all |-> all[n][1]], Lists.hostMembers, req, LAMBDA k, field :
       IF field = "name" THEN Text(enrichHostMember(m, k)[2]) ELSE Num(m.hostMembers[k].seq))

PageInterfaces(m, t, dev, req) ==
  pageOf(Ascending(DOMAIN ListInterfaces(m, t, dev)), Lists.ifaces, req, LAMBDA k, field : Text(m.ifaces[k].name))

PageDevicePackages(m, t, dev, f, req) ==
  pageOf(Ascending({Text(p[1]).n : p \in ListDevicePackages(m, t, dev, f)}), Lists.pkgs, req, LAMBDA n, field : Num(n))

PageGuests(m, t, dev, req) ==
  pageOf(Ascending(Where(m, "guests", t, [device |-> dev])), Lists.guests, req, LAMBDA k, field : Text(m.guests[k].ref))

=============================================================================
