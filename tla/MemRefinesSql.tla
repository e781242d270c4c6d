--------------------------- MODULE MemRefinesSql ----------------------------
(***************************************************************************)
(* The in-memory store against Sql!Spec, the store of internal/repo/repodb *)
(* that its maps and loops have to amount to.                              *)
(***************************************************************************)
EXTENDS MemStore, MemReads

Sql == INSTANCE SqlStore WITH db <- Abs(mem)

\* Every call changes the maps and answers exactly as the database transaction
\* of repodb does: same error class, same value, same audit rows, same cascades
\* and nulled columns, nothing left of a failed host report.
Implements == Sql!Spec

Same(a, b) == a.err = b.err /\ a.val = b.val

SamePlaces(d, t) ==
  /\ \A i \in Ids("locs") : Same(GetLocation(mem, t, i), Sql!GetLocation(d, t, i))
  /\ \A i \in Ids("vlans") : /\ Same(GetVlan(mem, t, i), Sql!GetVlan(d, t, i))
                             /\ SubnetsForVlan(mem, t, i) = Sql!SubnetsForVlan(d, t, i)
  /\ \A i \in Ids("subnets") : /\ Same(GetSubnet(mem, t, i), Sql!GetSubnet(d, t, i))
                               /\ ListAllocated(mem, t, i) = Sql!ListAllocated(d, t, i)
                               /\ CountAddressesInSubnet(mem, t, i) = Sql!CountAddressesInSubnet(d, t, i)
                               /\ ActiveScanForSubnet(mem, t, i) = Sql!ActiveScanForSubnet(d, t, i)
                               /\ Same(GetSubnetSNMP(mem, t, i), Sql!GetSubnetSNMP(d, t, i))
  /\ AllSubnetCIDRs(mem, t) = Sql!AllSubnetCIDRs(d, t) /\ ListSubnetSNMP(mem, t) = Sql!ListSubnetSNMP(d, t)
  /\ TenantStats(mem, t) = Sql!TenantStats(d, t)

SameAddresses(d, t) ==
  /\ \A i \in Ids("addrs") : Same(GetAddress(mem, t, i), Sql!GetAddress(d, t, i))
  /\ \A a \in {"x", "y"} : Same(FindAddress(mem, t, a), Sql!FindAddress(d, t, a))
  /\ GetARPSettings(mem, t) = Sql!GetARPSettings(d, t) /\ NetworkMACs(mem, t) = Sql!NetworkMACs(d, t)
  /\ HostSyncCounts(mem, t) = Sql!HostSyncCounts(d, t)
  /\ Where(mem, "devices", t, [type |-> "switch"]) # {} => PortLinkData(mem, t) = Sql!PortLinkData(d, t)

SameDevices(d, t) ==
  /\ \A i \in Ids("devices") : /\ Same(GetDevice(mem, t, i), Sql!GetDevice(d, t, i))
                               /\ AddressesForDevice(mem, t, i) = Sql!AddressesForDevice(d, t, i)
                               /\ ListInterfaces(mem, t, i) = Sql!ListInterfaces(d, t, i)
                               /\ \A f \in {None, [pending |-> TRUE]} :
                                    ListDevicePackages(mem, t, i, f) = Sql!ListDevicePackages(d, t, i, f)
                               /\ ListDeviceHostGroups(mem, t, i) = Sql!ListDeviceHostGroups(d, t, i)
                               /\ ListGuests(mem, t, i) = Sql!ListGuests(d, t, i)
                               /\ GuestDevicesOf(mem, t, i) = Sql!GuestDevicesOf(d, t, i)
                               /\ Same(GetHostSyncDeviceState(mem, t, i), Sql!GetHostSyncDeviceState(d, t, i))
                               /\ Same(GetDeviceHardware(mem, t, i), Sql!GetDeviceHardware(d, t, i))
  /\ \A i \in Ids("ifaces") : /\ Same(GetInterface(mem, t, i), Sql!GetInterface(d, t, i))
                              /\ ListInterfaceLinks(mem, t, i) = Sql!ListInterfaceLinks(d, t, i)
  /\ HostDevices(mem, t) = Sql!HostDevices(d, t) /\ DevicesByMAC(mem, t, "m") = Sql!DevicesByMAC(d, t, "m")
  /\ GuestRowsByMAC(mem, t, "m") = Sql!GuestRowsByMAC(d, t, "m")

SamePlanReads(d, t) ==
  /\ \A i \in Ids("devices") : /\ Interfaces(mem, t, i) = Sql!Interfaces(d, t, i)
                               /\ AddressesOfDevice(mem, t, i) = Sql!AddressesOfDevice(d, t, i)
                               /\ Packages(mem, t, i) = Sql!Packages(d, t, i) /\ Guests(mem, t, i) = Sql!Guests(d, t, i)
  /\ DeviceByInventoryHost(mem, t, "h") = Sql!DeviceByInventoryHost(d, t, "h")
  /\ DevicesByNames(mem, t, {"a"}) = Sql!DevicesByNames(d, t, {"a"})
  /\ AddressesByValue(mem, t, {"x"}) = Sql!AddressesByValue(d, t, {"x"}) /\ Subnets(mem, t) = Sql!Subnets(d, t)

SameGroups(d, t) ==
  /\ \A i \in Ids("ipGroups") : Same(GetIPGroup(mem, t, i), Sql!GetIPGroup(d, t, i))
  /\ \A i \in Ids("hostGroups") : /\ Same(GetHostGroup(mem, t, i), Sql!GetHostGroup(d, t, i))
                                  /\ ListHostGroupMembers(mem, t, i) = Sql!ListHostGroupMembers(d, t, i)
  /\ AllIPGroupsWithMembers(mem, t) = Sql!AllIPGroupsWithMembers(d, t)
  /\ \A i \in Ids("scans") : Same(GetScanJob(mem, t, i), Sql!GetScanJob(d, t, i))
  /\ Same(GetDNSConfig(mem, t), Sql!GetDNSConfig(d, t))
  /\ Same(GetHostSyncSettings(mem, t), Sql!GetHostSyncSettings(d, t))

\* Keyset pages with and without a filter.
SameLists(d, t) ==
  \A cursor \in 0..2, limit \in 0..1 :
    /\ \A f \in {None, [parent |-> 1]} : ListLocations(mem, t, f, cursor, limit) = Sql!ListLocations(d, t, f, cursor, limit)
    /\ \A f \in {None, [location |-> 1]} : ListVlans(mem, t, f, cursor, limit) = Sql!ListVlans(d, t, f, cursor, limit)
    /\ \A f \in {None, [vlan |-> 1]} : ListSubnets(mem, t, f, cursor, limit) = Sql!ListSubnets(d, t, f, cursor, limit)
    /\ \A f \in {None, [mac |-> "m"]} : ListAddresses(mem, t, f, cursor, limit) = Sql!ListAddresses(d, t, f, cursor, limit)
    /\ \A f \in {None, [host |-> "h"]} : ListDevices(mem, t, f, cursor, limit) = Sql!ListDevices(d, t, f, cursor, limit)
    /\ \A f \in {None, [status |-> "pending"]} : ListScanJobs(mem, t, f, cursor, limit) = Sql!ListScanJobs(d, t, f, cursor, limit)
    /\ ListIPGroups(mem, t, cursor, limit) = Sql!ListIPGroups(d, t, cursor, limit)
    /\ ListHostGroups(mem, t, cursor, limit) = Sql!ListHostGroups(d, t, cursor, limit)

Requests(list) ==
  [sort : Lists[list].fields \cup {"", "bogus"}, order : {"", "desc"}, page : {2}, size : {1}]
    \cup [sort : Lists[list].fields, order : {"asc"}, page : {1}, size : {25}]

\* Sorted, numbered pages, only of lists with something to sort.
SamePages(d, t) ==
  LET many(tab) == Cardinality(Rows(tab, t)) > 1
  IN /\ many("subnets") => \A q \in Requests("subnets") : PageSubnets(mem, t, None, q) = Sql!PageSubnets(d, t, None, q)
     /\ many("addrs") => \A q \in Requests("addrs") : PageAddresses(mem, t, None, q) = Sql!PageAddresses(d, t, None, q)
     /\ many("devices") => \A q \in Requests("devices") : PageDevices(mem, t, None, q) = Sql!PageDevices(d, t, None, q)
     /\ many("vlans") => \A q \in Requests("vlans") : PageVlans(mem, t, None, q) = Sql!PageVlans(d, t, None, q)
     /\ many("scans") => \A q \in Requests("scans") : PageScanJobs(mem, t, None, q) = Sql!PageScanJobs(d, t, None, q)
     /\ many("ipMembers") => \A q \in Requests("ipMembers") : \A g \in Rows("ipGroups", t) :
          PageIPGroupMembers(mem, t, g, q) = Sql!PageIPGroupMembers(d, t, g, q)
     /\ many("hostMembers") => \A q \in Requests("hostMembers") : \A g \in Rows("hostGroups", t) :
          PageHostGroupMembers(mem, t, g, q) = Sql!PageHostGroupMembers(d, t, g, q)
     /\ many("ifaces") => \A q \in Requests("ifaces") : \A dev \in Rows("devices", t) :
          PageInterfaces(mem, t, dev, q) = Sql!PageInterfaces(d, t, dev, q)
     /\ DOMAIN d.pkgs # {} => \A q \in Requests("pkgs") : \A dev \in Rows("devices", t) :
          PageDevicePackages(mem, t, dev, None, q) = Sql!PageDevicePackages(d, t, dev, None, q)
     /\ many("guests") => \A q \in Requests("guests") : \A dev \in Rows("devices", t) :
          PageGuests(mem, t, dev, q) = Sql!PageGuests(d, t, dev, q)

\* The reads agree too: counts, utilisation, enrichment with names of linked
\* rows, members in order, what is behind a port, statistics.
SameReads ==
  LET d == Abs(mem)
  IN /\ \A t \in Tenants : SamePlaces(d, t) /\ SameAddresses(d, t) /\ SameDevices(d, t) /\ SameGroups(d, t)
                         /\ SameLists(d, t) /\ SamePages(d, t) /\ SamePlanReads(d, t)
     /\ TenantIDs(mem) = Sql!TenantIDs(d) /\ ListHostSyncSettings(mem) = Sql!ListHostSyncSettings(d)

=============================================================================
