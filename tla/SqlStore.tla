------------------------------ MODULE SqlStore ------------------------------
(***************************************************************************)
(* What repo.Store promises, as internal/repo/repodb keeps it: every call  *)
(* is one transaction over the tables of the migrations, whose unique      *)
(* indexes and foreign keys decide conflicts, cascades and nulled columns. *)
(* Timestamps, tags and descriptive columns are left out.  A row of        *)
(* ipam_host_switch_links whose host is gone can never be read again (ids  *)
(* are not reused); the model drops it together with the host.             *)
(***************************************************************************)
EXTENDS StoreLists

VARIABLES db, call, reply

vars == <<db, call, reply>>

(***************************************************************************)
(* INSERT, UPDATE and DELETE with what mapErr makes of their failures: a   *)
(* unique violation is ErrConflict, no row is ErrNotFound, a foreign-key   *)
(* violation stays a raw error.                                            *)
(***************************************************************************)
Clash(d, tab, i, row) ==
  \E cols \in Unique[tab] :
    /\ \A c \in cols \cap Sparse : row[c] # ""
    /\ \E k \in DOMAIN d[tab] \ {i} : \A c \in cols : d[tab][k][c] = row[c]

Missing(d, tab, row) ==
  \E r \in Refs : r.from = tab /\ row[r.col] # 0 /\ row[r.col] \notin DOMAIN d[r.to]

Stored(d, tab, i, row) ==
  IF Clash(d, tab, i, row) THEN Err("conflict", d)
  ELSE IF Missing(d, tab, row) THEN Err("error", d)
  ELSE Ok([d EXCEPT ![tab] = Put(@, i, row)])

Insert(d, tab, i, row) ==
  IF i \in DOMAIN d[tab] THEN Err("conflict", d) ELSE Stored(d, tab, i, row)

\* UPDATE ... WHERE tenant_id AND id: the columns of cols, the others kept.
Update(d, tab, t, i, cols) ==
  IF Own(d, tab, t, i) THEN Stored(d, tab, i, cols @@ d[tab][i]) ELSE Err("notfound", d)

\* gone: the rows to remove, as <<table, key>>.
Cascaded(d, gone) ==
  LET held(r) == {k \in DOMAIN d[r.from] : <<r.to, d[r.from][k][r.col]>> \in gone}
  IN gone \cup UNION {{<<r.from, k>> : k \in held(r)} : r \in {q \in Refs : q.act = "cascade"}}

HostTable(kind) == IF kind = "address" THEN "addrs" ELSE "ifaces"

Orphans(d, gone) ==
  {<<"hostLinks", k>> : k \in {l \in DOMAIN d.hostLinks : <<HostTable(d.hostLinks[l].kind), d.hostLinks[l].host>> \in gone}}

Removed(d, tab, ids) ==
  LET closed == Cascaded(d, Cascaded(d, {<<tab, i>> : i \in ids}))
      gone == closed \cup Orphans(d, closed)
      nulled(x, row) == {r.col : r \in {q \in Refs : q.from = x /\ q.act = "null" /\ <<q.to, row[q.col]>> \in gone}}
  IN [x \in Tables |->
       [k \in {i \in DOMAIN d[x] : <<x, i>> \notin gone} |-> [c \in nulled(x, d[x][k]) |-> 0] @@ d[x][k]]]

Delete(d, tab, t, i) ==
  IF Own(d, tab, t, i) THEN Ok(Removed(d, tab, {i})) ELSE Err("notfound", d)

\* A delete that first counts what the row still holds, unless forced.
\* Mutant of DeleteUnless: dependents are not looked at.
DeleteAnyway(d, tab, t, i, force, held) == Delete(d, tab, t, i)

DeleteUnless(d, tab, t, i, force, held) ==
  IF ~force /\ held > 0 THEN Err("notempty", d) ELSE Delete(d, tab, t, i)

GetRow(d, tab, t, i, computed) ==
  IF Own(d, tab, t, i) THEN Answer("ok", d, 0, computed @@ d[tab][i]) ELSE Err("notfound", d)

(***************************************************************************)
(* Locations, VLANs and subnets.                                           *)
(***************************************************************************)
Held(d, tab, t, col, i) == Count(d, tab, t, col :> i)

computeLocation(d, t, i) ==
  [children |-> Held(d, "locs", t, "parent", i), devices |-> Held(d, "devices", t, "location", i),
   subnets |-> Held(d, "subnets", t, "location", i), vlans |-> Held(d, "vlans", t, "location", i)]

CreateLocation(d, t, i, r) == Insert(d, "locs", i, r @@ [tenant |-> t])

GetLocation(d, t, i) == GetRow(d, "locs", t, i, computeLocation(d, t, i))

ListLocations(d, t, f, cursor, limit) == Keyset(Where(d, "locs", t, f), cursor, limit)

UpdateLocation(d, t, i, r) == Update(d, "locs", t, i, r)

DeleteLocation(d, t, i, force) ==
  DeleteUnless(d, "locs", t, i, force,
    Held(d, "locs", t, "parent", i) + Held(d, "devices", t, "location", i)
      + Held(d, "subnets", t, "location", i) + Held(d, "vlans", t, "location", i))

computeVlan(d, t, i) == [subnets |-> Held(d, "subnets", t, "vlan", i)]

CreateVlan(d, t, i, r) == Insert(d, "vlans", i, r @@ [tenant |-> t])

GetVlan(d, t, i) == GetRow(d, "vlans", t, i, computeVlan(d, t, i))

ListVlans(d, t, f, cursor, limit) == Keyset(Where(d, "vlans", t, f), cursor, limit)

UpdateVlan(d, t, i, r) == Update(d, "vlans", t, i, r)

DeleteVlan(d, t, i, force) ==
  DeleteUnless(d, "vlans", t, i, force, Held(d, "subnets", t, "vlan", i))

\* Addresses of a prefix with this many host bits; 0 stands for "too many to count".
subnetTotal(bits) == IF bits > 62 THEN 0 ELSE 2 ^ bits

computeSubnet(d, t, i) ==
  LET used == Held(d, "addrs", t, "subnet", i)
      total == subnetTotal(d.subnets[i].bits)
  IN [total |-> total, used |-> used, free |-> IF total > 0 THEN total - used ELSE 0]

CreateSubnet(d, t, i, r) == Insert(d, "subnets", i, r @@ [tenant |-> t, origin |-> "manual"])

GetSubnet(d, t, i) == GetRow(d, "subnets", t, i, computeSubnet(d, t, i))

ListSubnets(d, t, f, cursor, limit) == Keyset(Where(d, "subnets", t, f), cursor, limit)

\* Never writes origin.
UpdateSubnet(d, t, i, r) == Update(d, "subnets", t, i, r)

CountAddressesInSubnet(d, t, i) == Held(d, "addrs", t, "subnet", i)

DeleteSubnet(d, t, i, force) ==
  DeleteUnless(d, "subnets", t, i, force, CountAddressesInSubnet(d, t, i))

ListAllocated(d, t, i) == {d.addrs[k].addr : k \in Where(d, "addrs", t, "subnet" :> i)}

SubnetsForVlan(d, t, v) ==
  [k \in Where(d, "subnets", t, "vlan" :> v) |-> computeSubnet(d, t, k) @@ d.subnets[k]]

AllSubnetCIDRs(d, t) == [k \in Where(d, "subnets", t, None) |-> d.subnets[k]]

(***************************************************************************)
(* Addresses.                                                              *)
(***************************************************************************)
\* The columns INSERT leaves at their defaults and UPDATE never writes.
FreshAddress == [report |-> "", prev |-> 0, conflict |-> FALSE, origin |-> "",
                 lswitch |-> 0, lport |-> 0]

CreateAddress(d, t, i, r) == Insert(d, "addrs", i, FreshAddress @@ r @@ [tenant |-> t])

\* A host's per-switch links, each with the name of its switch.
hostLinks(d, t, kind, host) ==
  {[switch |-> d.hostLinks[k].switch, port |-> d.hostLinks[k].port,
    name |-> d.devices[d.hostLinks[k].switch].name] :
     k \in Where(d, "hostLinks", t, [kind |-> kind, host |-> host])}

scanAddress(d, t, i) ==
  LET sw == d.addrs[i].lswitch
  IN [linkName |-> IF Own(d, "devices", t, sw) THEN d.devices[sw].name ELSE "",
      links |-> hostLinks(d, t, "address", i)]

GetAddress(d, t, i) == GetRow(d, "addrs", t, i, scanAddress(d, t, i))

FindAddress(d, t, a) ==
  LET found == Where(d, "addrs", t, "addr" :> a)
  IN IF found = {} THEN Err("notfound", d) ELSE GetAddress(d, t, CHOOSE i \in found : TRUE)

ListAddresses(d, t, f, cursor, limit) == Keyset(Where(d, "addrs", t, f), cursor, limit)

AddressesForDevice(d, t, i) == Where(d, "addrs", t, "device" :> i)

UpdateAddress(d, t, i, r) == Update(d, "addrs", t, i, Drop(r, DOMAIN FreshAddress))

DeleteAddress(d, t, i) == Delete(d, "addrs", t, i)

\* INSERT ... ON CONFLICT (tenant_id, address): a scan fills in what it observed
\* unless the row is reported by an agent; an offline address that answers is active.
UpsertAddressByAddress(d, t, i, r) ==
  LET found == Where(d, "addrs", t, "addr" :> r.addr)
      k == CHOOSE x \in found : TRUE
      old == d.addrs[k]
      seen(c) == IF old.report = "reported" \/ r[c] = "" THEN old[c] ELSE r[c]
  IN IF found = {} THEN [CreateAddress(d, t, i, r) EXCEPT !.val = "created"]
     ELSE Update(d, "addrs", t, k,
            [hostname |-> seen("hostname"), mac |-> seen("mac"),
             status |-> IF old.status = "offline" THEN r.status ELSE old.status])

(***************************************************************************)
(* Devices, interfaces, links and packages.                                *)
(***************************************************************************)
FreshDevice(source) == [source |-> source, host |-> "", hyper |-> 0, report |-> ""]

deviceInsert(d, t, i, r, source) ==
  Insert(d, "devices", i, FreshDevice(source) @@ r @@ [tenant |-> t])

CreateDevice(d, t, i, r) == deviceInsert(d, t, i, r, "manual")

computeDevice(d, t, i) ==
  [ifaces |-> Held(d, "ifaces", t, "device", i), addrs |-> Held(d, "addrs", t, "device", i),
   updates |-> Count(d, "pkgs", t, [device |-> i, pending |-> TRUE]),
   guests |-> Held(d, "guests", t, "device", i),
   summary |-> IF Own(d, "hardware", t, i) THEN d.hardware[i].value ELSE ""]

GetDevice(d, t, i) == GetRow(d, "devices", t, i, computeDevice(d, t, i))

ListDevices(d, t, f, cursor, limit) == Keyset(Where(d, "devices", t, f), cursor, limit)

UpdateDevice(d, t, i, r) == Update(d, "devices", t, i, Drop(r, DOMAIN FreshDevice("")))

DeleteDevice(d, t, i, force) ==
  DeleteUnless(d, "devices", t, i, force,
    Held(d, "ifaces", t, "device", i) + Held(d, "addrs", t, "device", i))

\* What a scan learned goes over the known row, blanks excepted.
mergeDevice(old, r) ==
  [c \in DOMAIN r \ (DOMAIN FreshDevice("") \cup {"name"}) |-> IF Blank(c, r[c]) THEN old[c] ELSE r[c]]

\* Reported fields win: a scan fills only the blank descriptive ones.
FillEmptyDevice(old, r) ==
  [c \in {"os", "type", "mgmt"} \cap DOMAIN r |-> IF Blank(c, old[c]) THEN r[c] ELSE old[c]]

UpsertDeviceByName(d, t, i, r) ==
  LET found == Where(d, "devices", t, "name" :> r.name)
      k == CHOOSE x \in found : TRUE
      old == d.devices[k]
      key == IF found = {} THEN i ELSE k
      done == IF found = {} THEN deviceInsert(d, t, i, r, "scan")
              ELSE Update(d, "devices", t, k, IF old.source = "host_report"
                                              THEN FillEmptyDevice(old, r) ELSE mergeDevice(old, r))
  IN IF done.err # "ok" THEN done
     ELSE [done EXCEPT !.val = computeDevice(done.db, t, key) @@ done.db.devices[key]]

CreateInterface(d, t, i, r) == Insert(d, "ifaces", i, r @@ [tenant |-> t, report |-> ""])

GetInterface(d, t, i) == GetRow(d, "ifaces", t, i, None)

\* The hosts behind a switch port: linked to it as primary or per switch.
behindDevices(d, t, port) ==
  {d.ifaces[h].device : h \in Where(d, "ifaces", t, "rport" :> port) \cup
     {d.hostLinks[k].host : k \in Where(d, "hostLinks", t, [kind |-> "interface", port |-> port])}}

behindAddresses(d, t, port) ==
  Where(d, "addrs", t, "lport" :> port) \cup
    {d.hostLinks[k].host : k \in Where(d, "hostLinks", t, [kind |-> "address", port |-> port])}

enrichIfaces(d, t, i) ==
  LET row == d.ifaces[i]
  IN [remote |-> IF Own(d, "devices", t, row.rdev) THEN d.devices[row.rdev].name ELSE "",
      behind |-> behindDevices(d, t, i), addresses |-> behindAddresses(d, t, i),
      links |-> hostLinks(d, t, "interface", i)]

ListInterfaces(d, t, dev) ==
  [i \in Where(d, "ifaces", t, "device" :> dev) |-> enrichIfaces(d, t, i) @@ d.ifaces[i]]

UpsertInterfaceByName(d, t, i, r) ==
  LET found == Where(d, "ifaces", t, [device |-> r.device, name |-> r.name])
  IN IF found = {} THEN CreateInterface(d, t, i, r)
     ELSE Update(d, "ifaces", t, CHOOSE x \in found : TRUE, r)

DeleteInterface(d, t, i) == Delete(d, "ifaces", t, i)

\* The rows of a set of neighbours <<source, remote port>> keyed as the index is.
LinkRows(t, i, new) ==
  [k \in {<<i, l[1], l[2]>> : l \in new} |-> [tenant |-> t, iface |-> i, src |-> k[2], remote |-> k[3]]]

\* DELETE, then one INSERT per link: a duplicate rolls the replacement back.
ReplaceInterfaceLinks(d, t, i, seq) ==
  IF ~Own(d, "ifaces", t, i) THEN Err("notfound", d)
  ELSE IF Cardinality(ToSet(seq)) < Len(seq) THEN Err("conflict", d)
  ELSE Ok([d EXCEPT !.links = LinkRows(t, i, ToSet(seq)) @@ Drop(@, Where(d, "links", t, "iface" :> i))])

ListInterfaceLinks(d, t, i) ==
  {<<d.links[k].src, d.links[k].remote>> : k \in Where(d, "links", t, "iface" :> i)}

PackageRows(t, i, seq) ==
  [k \in {<<i, p[1]>> : p \in ToSet(seq)} |->
    [tenant |-> t, device |-> i, name |-> k[2], pending |-> <<k[2], TRUE>> \in ToSet(seq)]]

ReplaceDevicePackages(d, t, i, seq) ==
  IF Cardinality({p[1] : p \in ToSet(seq)}) < Len(seq) THEN Err("conflict", d)
  ELSE IF seq # <<>> /\ i \notin DOMAIN d.devices THEN Err("error", d)
  ELSE Ok([d EXCEPT !.pkgs = PackageRows(t, i, seq) @@ Drop(@, Where(d, "pkgs", t, "device" :> i))])

ListDevicePackages(d, t, i, f) ==
  {<<d.pkgs[k].name, d.pkgs[k].pending>> : k \in Where(d, "pkgs", t, ("device" :> i) @@ f)}

DeleteDevicePackages(d, t, i) ==
  Ok([d EXCEPT !.pkgs = Drop(@, Where(d, "pkgs", t, "device" :> i))])

(***************************************************************************)
(* Groups, scan jobs, DNS settings and statistics.                         *)
(***************************************************************************)
CreateIPGroup(d, t, i, r) == Insert(d, "ipGroups", i, r @@ [tenant |-> t])

GetIPGroup(d, t, i) ==
  GetRow(d, "ipGroups", t, i, [members |-> Held(d, "ipMembers", t, "group", i)])

ListIPGroups(d, t, cursor, limit) == Keyset(Where(d, "ipGroups", t, None), cursor, limit)

UpdateIPGroup(d, t, i, r) == Update(d, "ipGroups", t, i, r)

DeleteIPGroup(d, t, i) == Delete(d, "ipGroups", t, i)

AddIPGroupMember(d, t, i, r) == Insert(d, "ipMembers", i, r @@ [tenant |-> t])

RemoveIPGroupMember(d, t, i) == Delete(d, "ipMembers", t, i)

\* Never moves the member to another group.
UpdateIPGroupMember(d, t, i, r) == Update(d, "ipMembers", t, i, Drop(r, {"group"}))

\* ORDER BY sequence, id.
InSequence(d, tab, S) ==
  SetToSortSeq(S, LAMBDA a, b : \/ d[tab][a].seq < d[tab][b].seq
                                \/ d[tab][a].seq = d[tab][b].seq /\ a < b)

ListIPGroupMembers(d, t, g) == InSequence(d, "ipMembers", Where(d, "ipMembers", t, "group" :> g))

AllIPGroupsWithMembers(d, t) ==
  [g \in Where(d, "ipGroups", t, None) |-> ListIPGroupMembers(d, t, g)]

CreateHostGroup(d, t, i, r) == Insert(d, "hostGroups", i, r @@ [tenant |-> t])

GetHostGroup(d, t, i) ==
  GetRow(d, "hostGroups", t, i, [members |-> Held(d, "hostMembers", t, "group", i)])

ListHostGroups(d, t, cursor, limit) == Keyset(Where(d, "hostGroups", t, None), cursor, limit)

UpdateHostGroup(d, t, i, r) == Update(d, "hostGroups", t, i, r)

DeleteHostGroup(d, t, i) == Delete(d, "hostGroups", t, i)

AddHostGroupMember(d, t, i, r) == Insert(d, "hostMembers", i, r @@ [tenant |-> t])

RemoveHostGroupMember(d, t, i) == Delete(d, "hostMembers", t, i)

UpdateHostGroupMember(d, t, i, r) == Update(d, "hostMembers", t, i, Drop(r, {"group"}))

ListHostGroupMembers(d, t, g) ==
  LET order == InSequence(d, "hostMembers", Where(d, "hostMembers", t, "group" :> g))
      dev(k) == d.hostMembers[k].device
  IN [n \in DOMAIN order |->
       <<order[n], IF Own(d, "devices", t, dev(order[n])) THEN d.devices[dev(order[n])].name ELSE "">>]

ListDeviceHostGroups(d, t, dev) ==
  Keyset({g \in Where(d, "hostGroups", t, None) :
            Where(d, "hostMembers", t, [group |-> g, device |-> dev]) # {}}, 0, 0)

CreateScanJob(d, t, i, r) == Insert(d, "scans", i, r @@ [tenant |-> t])

GetScanJob(d, t, i) == GetRow(d, "scans", t, i, None)

ListScanJobs(d, t, f, cursor, limit) == Keyset(Where(d, "scans", t, f), cursor, limit)

UpdateScanJob(d, t, i, r) == Update(d, "scans", t, i, r)

\* Pending jobs whose retry time has come, the longest waiting first, all tenants:
\* the first limit become scanning.  The code waits from next_retry_at, or from
\* created_at without one; later says only that the retry is still to come, so here a
\* retried job keeps the place of its creation (ids grow with it).
ClaimDueScanJobs(d, limit) ==
  LET due == Ascending({k \in DOMAIN d.scans : d.scans[k].status = "pending" /\ ~d.scans[k].later})
      n == IF limit <= 0 THEN 1 ELSE limit
      took == ToSet(SubSeq(due, 1, IF n < Len(due) THEN n ELSE Len(due)))
  IN Answer("ok", [d EXCEPT !.scans = [k \in took |-> [@[k] EXCEPT !.status = "scanning"]] @@ @], 0, took)

ActiveScanForSubnet(d, t, i) ==
  \E k \in Where(d, "scans", t, "subnet" :> i) : d.scans[k].status \in {"pending", "scanning"}

GetDNSConfig(d, t) == GetRow(d, "dns", t, t, None)

UpsertDNSConfig(d, t, servers) ==
  Ok([d EXCEPT !.dns = Put(@, t, [tenant |-> t, servers |-> servers])])

TenantStats(d, t) ==
  LET subs == Where(d, "subnets", t, None)
      total == MapThenSumSet(LAMBDA k : subnetTotal(d.subnets[k].bits), subs)
      used == MapThenSumSet(LAMBDA k : Held(d, "addrs", t, "subnet", k), subs)
  IN [subnets |-> Cardinality(subs), total |-> total, used |-> used,
      free |-> IF total > 0 THEN total - used ELSE 0, vlans |-> Count(d, "vlans", t, None),
      locations |-> Count(d, "locs", t, None),
      devices |-> [k \in {d.devices[i].type : i \in Where(d, "devices", t, None)} |->
                    Held(d, "devices", t, "type", k)]]

TenantIDs(d) ==
  UNION {{d[tab][k].tenant : k \in DOMAIN d[tab]} : tab \in {"subnets", "devices", "vlans", "locs", "scans"}}

AppendAudit(d) == Logged(Ok(d), 1)

(***************************************************************************)
(* Subnet credentials, the BMC reference, ARP settings, ARP data, links.   *)
(***************************************************************************)
GetSubnetSNMP(d, t, i) == GetRow(d, "snmp", t, i, None)

PutSubnetSNMP(d, t, i, version) ==
  IF Own(d, "subnets", t, i)
  THEN Logged(Ok([d EXCEPT !.snmp = Put(@, i, [tenant |-> t, subnet |-> i, version |-> version])]), 1)
  ELSE Err("notfound", d)

DeleteSubnetSNMP(d, t, i) == Logged(Delete(d, "snmp", t, i), 1)

ListSubnetSNMP(d, t) == Ascending(Where(d, "snmp", t, None))

SetDeviceBMCRef(d, t, i, ref) ==
  LET done == Logged(Update(d, "devices", t, i, [bmc |-> ref]), 1)
  IN IF done.err = "ok" THEN [done EXCEPT !.val = d.devices[i].bmc] ELSE done

GetARPSettings(d, t) == IF t \in DOMAIN d.arp THEN Drop(d.arp[t], {"tenant"}) ELSE DefaultARPSettings

PutARPSettings(d, t, cfg) == Logged(Ok([d EXCEPT !.arp = Put(@, t, cfg @@ [tenant |-> t])]), 1)

NetworkMACs(d, t) ==
  {d.ifaces[i].mac : i \in {k \in Where(d, "ifaces", t, None) :
     d.ifaces[k].mac # "" /\ IsNetworkDevice(d.devices[d.ifaces[k].device].type)}}

\* Mutant of arpOpSQL: the statement trusts the plan.
arpOpForced(d, t, o) ==
  LET cols == CASE o.kind = "conflict" -> [mconf |-> o.mac]
                [] o.kind = "touch" -> None
                [] OTHER -> [mac |-> o.mac, msrc |-> "arp", mdev |-> o.dev, mconf |-> ""]
  IN IF Own(d, "addrs", t, o.id) THEN Logged(Update(d, "addrs", t, o.id, cols), 1) ELSE Ok(d)

\* The guarded statement of one ARP operation; a guard that fails changes no
\* row, and only an operation that changed one has its audit row written.
arpOpSQL(d, t, o) ==
  LET row == d.addrs[o.id]
      held == Own(d, "addrs", t, o.id)
      learned == row.mac = "" \/ row.msrc = "arp"
      set(cols) == Logged(Update(d, "addrs", t, o.id, cols), 1)
      new == [addr |-> o.addr, subnet |-> o.subnet, device |-> 0, hostname |-> "", mac |-> o.mac,
              status |-> "active", msrc |-> "arp", mdev |-> o.dev, mconf |-> "", tenant |-> t,
              origin |-> "arp"] @@ FreshAddress
  IN CASE o.kind = "create" /\ Own(d, "subnets", t, o.subnet) -> Logged(Insert(d, "addrs", o.id, new), 1)
       [] o.kind = "fill" /\ held /\ learned ->
            set([mac |-> o.mac, msrc |-> "arp", mdev |-> o.dev, mconf |-> ""])
       [] o.kind = "conflict" /\ held /\ ~learned -> set([mconf |-> o.mac])
       [] o.kind = "clear" /\ held -> set([mconf |-> ""])
       [] o.kind = "touch" /\ held -> set(IF row.msrc = "arp" THEN [mdev |-> o.dev] ELSE None)
       [] OTHER -> Ok(d)

\* Every operation in order in one transaction, then the summary audit row.  An
\* insert that clashes does nothing; a source device that is gone rolls all back.
ApplyARP(d, t, ops) ==
  LET run(x, o) ==
        LET a == arpOpSQL(x.db, t, o)
        IN IF x.err # "ok" THEN x ELSE IF a.err = "error" THEN Err("error", d) ELSE Answer("ok", a.db, x.log + a.log, 0)
  IN FoldLeft(run, Answer("ok", d, 1, 0), ops)

\* Replaces one host's links <<switch, port>>, skipping ports that no longer exist.
queueHostLinks(d, t, kind, host, links) ==
  LET valid == {l \in links : Own(d, "ifaces", t, l[2]) /\ d.ifaces[l[2]].device = l[1]}
      port(sw) == (CHOOSE l \in valid : l[1] = sw)[2]
  IN [d EXCEPT !.hostLinks =
       [k \in {<<kind, host, l[1]>> : l \in valid} |->
         [tenant |-> t, kind |-> kind, host |-> host, switch |-> k[3], port |-> port(k[3])]]
       @@ Drop(@, Where(d, "hostLinks", t, [kind |-> kind, host |-> host]))]

SetLinks(d, t, kind, tab, i, cols, links) ==
  LET done == Update(d, tab, t, i, cols)
  IN IF done.err = "ok" THEN Logged(Ok(queueHostLinks(done.db, t, kind, i, links)), 1) ELSE done

SetAddressLinks(d, t, i, sw, port, links) ==
  SetLinks(d, t, "address", "addrs", i, [lswitch |-> sw, lport |-> port], links)

SetInterfaceLinks(d, t, i, sw, port, src, links) ==
  SetLinks(d, t, "interface", "ifaces", i, [rdev |-> sw, rport |-> port, lsrc |-> src], links)

\* Everything the port correlation reads; nothing at all without a switch.
PortLinkData(d, t) ==
  LET switches == Where(d, "devices", t, "type" :> "switch")
      hosts == Where(d, "devices", t, "source" :> "host_report")
  IN IF switches = {} THEN None
     ELSE [switches |-> switches, hosts |-> hosts, macs |-> NetworkMACs(d, t),
           ports |-> {i \in Where(d, "ifaces", t, None) : d.ifaces[i].device \in switches},
           nics |-> [i \in {k \in Where(d, "ifaces", t, "report" :> "reported") :
                              d.ifaces[k].device \in hosts /\ d.ifaces[k].mac # ""} |->
                      hostLinks(d, t, "interface", i)],
           addrs |-> [a \in {k \in Where(d, "addrs", t, None) :
                               d.addrs[k].mac # "" \/ d.addrs[k].lport # 0} |-> scanAddress(d, t, a)],
           guests |-> Where(d, "guests", t, None)]

(***************************************************************************)
(* Host sync: settings, the per-host transaction and its statements.       *)
(***************************************************************************)
DefaultSettings(t) == [tenant |-> t, enabled |-> TRUE, requested |-> FALSE, status |-> "ok", since |-> 0]

ensureSettings(d, t) ==
  IF t \in DOMAIN d.hsSettings THEN d ELSE [d EXCEPT !.hsSettings = Put(@, t, DefaultSettings(t))]

SetSettings(d, t, cols) == [ensureSettings(d, t) EXCEPT !.hsSettings[t] = cols @@ @]

EnsureHostSyncSettings(d, t) ==
  Answer("ok", ensureSettings(d, t), 0, ensureSettings(d, t).hsSettings[t])

GetHostSyncSettings(d, t) == GetRow(d, "hsSettings", t, t, None)

\* Re-enabling asks for a full reconcile.
UpdateHostSyncSettings(d, t, on) ==
  LET cur == ensureSettings(d, t).hsSettings[t]
  IN Answer("ok", SetSettings(d, t,
       [requested |-> cur.requested \/ (on /\ ~cur.enabled), enabled |-> on,
        status |-> IF ~on THEN "disabled" ELSE IF cur.status = "disabled" THEN "ok" ELSE cur.status]), 1, 0)

RequestReconcile(d, t) == Answer("ok", SetSettings(d, t, [requested |-> TRUE]), 1, 0)

ListHostSyncSettings(d) == d.hsSettings

\* A nil time keeps the stored one.
SaveHostSyncState(d, t, status, since, clear) ==
  LET cur == ensureSettings(d, t).hsSettings[t]
  IN Ok(SetSettings(d, t, [status |-> status, since |-> IF since = 0 THEN cur.since ELSE since,
                           requested |-> cur.requested /\ ~clear]))

HostDevices(d, t) == Ascending({i \in Where(d, "devices", t, None) : d.devices[i].host # ""})

GetHostSyncDeviceState(d, t, i) == GetRow(d, "devState", t, i, None)

HostSyncCounts(d, t) ==
  <<Held(d, "devices", t, "report", "not_reported"), Held(d, "addrs", t, "conflict", TRUE)>>

ListGuests(d, t, i) ==
  {LET g == d.guests[k]
   IN [ref |-> g.ref, name |-> IF Own(d, "devices", t, g.guest) THEN d.devices[g.guest].name ELSE ""] :
     k \in Where(d, "guests", t, "device" :> i)}

ClearAddressConflict(d, t, i) == Logged(Update(d, "addrs", t, i, [conflict |-> FALSE]), 1)

GetDeviceHardware(d, t, i) == GetRow(d, "hardware", t, i, None)

\* The reads a plan is built from.
DeviceByInventoryHost(d, t, h) == Where(d, "devices", t, "host" :> h)

DevicesByNames(d, t, names) == Ascending({i \in Where(d, "devices", t, None) : d.devices[i].name \in names})

Interfaces(d, t, dev) == Ascending(Where(d, "ifaces", t, "device" :> dev))

AddressesByValue(d, t, values) == Ascending({i \in Where(d, "addrs", t, None) : d.addrs[i].addr \in values})

AddressesOfDevice(d, t, dev) == Ascending(Where(d, "addrs", t, "device" :> dev))

Subnets(d, t) == Ascending(Where(d, "subnets", t, None))

Packages(d, t, dev) == {p[1] : p \in ListDevicePackages(d, t, dev, None)}

Guests(d, t, dev) == Ascending(Where(d, "guests", t, "device" :> dev))

DevicesByMAC(d, t, mac) ==
  {<<d.ifaces[i].device, d.devices[d.ifaces[i].device].hyper>> : i \in Where(d, "ifaces", t, "mac" :> mac)}

GuestRowsByMAC(d, t, mac) == Ascending(Where(d, "guests", t, "mac" :> mac))

GuestDevicesOf(d, t, i) == Ascending(Where(d, "devices", t, "hyper" :> i))

InsertDevice(d, t, i, r) == Insert(d, "devices", i, r @@ [tenant |-> t, hyper |-> 0])

UpdateDeviceReported(d, t, i, r) == Update(d, "devices", t, i, Drop(r, {"location", "bmc"}))

UpsertInterfaceReported(d, t, i, r, create) ==
  IF create THEN Insert(d, "ifaces", i, r @@ [tenant |-> t])
  ELSE Update(d, "ifaces", t, i, Columns(r, {"mac", "report"}))

CreateSubnetAuto(d, t, i, r) == Insert(d, "subnets", i, r @@ [tenant |-> t, origin |-> "auto"])

AgentMAC(mac) == [msrc |-> IF mac = "" THEN "" ELSE "agent", mdev |-> 0]

InsertAddressReported(d, t, i, r) ==
  Insert(d, "addrs", i, r @@ AgentMAC(r.mac) @@ [tenant |-> t, mconf |-> ""] @@ FreshAddress)

UpdateAddressReported(d, t, i, r) ==
  Update(d, "addrs", t, i, Columns(r, {"device", "mac", "hostname", "report", "prev", "conflict"})
                           @@ IF r.report = "reported" THEN AgentMAC(r.mac) ELSE None)

ReplacePendingPackages(d, t, i, seq) == ReplaceDevicePackages(d, t, i, seq)

\* rows: the reported guests by row id.
ReplaceGuests(d, t, i, rows) ==
  LET emptied == [d EXCEPT !.guests = Drop(@, Where(d, "guests", t, "device" :> i))]
      add(x, k) == IF x.err = "ok" THEN Insert(x.db, "guests", k, rows[k] @@ [tenant |-> t, device |-> i]) ELSE x
  IN FoldLeft(add, Ok(emptied), Ascending(DOMAIN rows))

SetHypervisor(d, t, i, h) == Update(d, "devices", t, i, [hyper |-> h])

SetGuestDevice(d, t, i, dev) == Update(d, "guests", t, i, [guest |-> dev])

\* The device's own row always, its interfaces and addresses only where reported.
MarkDeviceNotReported(d, t, i) ==
  LET lost(x) == IF x.device = i /\ x.report = "reported" THEN [x EXCEPT !.report = "not_reported"] ELSE x
      marked == Update(d, "devices", t, i, [report |-> "not_reported"])
  IN IF marked.err # "ok" THEN marked
     ELSE Ok([marked.db EXCEPT !.ifaces = [k \in DOMAIN @ |-> lost(@[k])],
                               !.addrs = [k \in DOMAIN @ |-> lost(@[k])]])

SaveDeviceState(d, t, i, changes) ==
  Stored(d, "devState", i, [tenant |-> t, device |-> i, changes |-> changes])

ReplaceHardware(d, t, i, value) ==
  IF Own(d, "devices", t, i) THEN Stored(d, "hardware", i, [tenant |-> t, device |-> i, value |-> value])
  ELSE Err("notfound", d)

TxStep(d, t, o) ==
  CASE o[1] = "InsertDevice" -> InsertDevice(d, t, o[2], o[3])
    [] o[1] = "UpdateDeviceReported" -> UpdateDeviceReported(d, t, o[2], o[3])
    [] o[1] = "UpsertInterfaceReported" -> UpsertInterfaceReported(d, t, o[2], o[3], o[4])
    [] o[1] = "CreateSubnetAuto" -> CreateSubnetAuto(d, t, o[2], o[3])
    [] o[1] = "InsertAddressReported" -> InsertAddressReported(d, t, o[2], o[3])
    [] o[1] = "UpdateAddressReported" -> UpdateAddressReported(d, t, o[2], o[3])
    [] o[1] = "ReplacePendingPackages" -> ReplacePendingPackages(d, t, o[2], o[3])
    [] o[1] = "ReplaceGuests" -> ReplaceGuests(d, t, o[2], o[3])
    [] o[1] = "SetHypervisor" -> SetHypervisor(d, t, o[2], o[3])
    [] o[1] = "SetGuestDevice" -> SetGuestDevice(d, t, o[2], o[3])
    [] o[1] = "MarkDeviceNotReported" -> MarkDeviceNotReported(d, t, o[2])
    [] o[1] = "SaveDeviceState" -> SaveDeviceState(d, t, o[2], o[3])
    [] o[1] = "ReplaceHardware" -> ReplaceHardware(d, t, o[2], o[3])
    [] o[1] = "AppendAudit" -> Logged(Ok(d), 1)

\* One transaction: disabled, or any failing statement, and nothing is kept.
ApplyHostReport(d, t, script) ==
  LET open == ensureSettings(d, t)
      run(x, o) == IF x.err # "ok" THEN x
                   ELSE LET a == TxStep(x.db, t, o) IN [a EXCEPT !.log = x.log + @]
      done == FoldLeft(run, Ok(open), script)
  IN IF ~open.hsSettings[t].enabled THEN Err("disabled", d)
     ELSE IF done.err = "ok" THEN done ELSE Err(done.err, d)

(***************************************************************************)
(* Paged lists: the column each sort field orders by.                      *)
(***************************************************************************)
runPage(S, spec, req, key(_, _)) ==
  LET applied == ListRequest(req, spec)
  IN Window(InKeyOrder(S, LAMBDA k : key(k, applied.sort), applied.desc), applied)

PageSubnets(d, t, f, req) ==
  runPage(Where(d, "subnets", t, f), Lists.subnets, req, LAMBDA k, field :
    LET row == d.subnets[k]
    IN CASE field = "cidr" -> Num(row.bits) [] field = "name" -> Text(row.name)
         [] field = "vlan" -> Optional(row.vlan) [] field = "location" -> Optional(row.location))

PageAddresses(d, t, f, req) ==
  runPage(Where(d, "addrs", t, f), Lists.addrs, req, LAMBDA k, field :
    Text(d.addrs[k][IF field = "address" THEN "addr" ELSE field]))

PageDevices(d, t, f, req) ==
  runPage(Where(d, "devices", t, f), Lists.devices, req, LAMBDA k, field :
    LET row == d.devices[k]
    IN CASE field = "name" -> Text(row.name) [] field = "device_type" -> Text(row.type)
         [] field = "location" -> Optional(row.location) [] field = "created_at" -> Num(k))

PageVlans(d, t, f, req) ==
  runPage(Where(d, "vlans", t, f), Lists.vlans, req, LAMBDA k, field :
    IF field = "vlan_id" THEN Num(d.vlans[k].num) ELSE Text(d.vlans[k].name))

PageScanJobs(d, t, f, req) ==
  runPage(Where(d, "scans", t, f), Lists.scans, req, LAMBDA k, field :
    CASE field = "created_at" -> Num(k) [] field = "status" -> Text(d.scans[k].status)
      [] field = "subnet" -> Num(d.scans[k].subnet))

PageIPGroupMembers(d, t, g, req) ==
  runPage(Where(d, "ipMembers", t, "group" :> g), Lists.ipMembers, req, LAMBDA k, field :
    IF field = "sequence" THEN Num(d.ipMembers[k].seq) ELSE Text(d.ipMembers[k].value))

\* LEFT JOIN: a member whose device is not the tenant's has a null name.
PageHostGroupMembers(d, t, g, req) ==
  runPage(Where(d, "hostMembers", t, "group" :> g), Lists.hostMembers, req, LAMBDA k, field :
    LET dev == d.hostMembers[k].device
    IN IF field = "sequence" THEN Num(d.hostMembers[k].seq)
       ELSE IF Own(d, "devices", t, dev) THEN Text(d.devices[dev].name) ELSE Optional(0))

PageInterfaces(d, t, dev, req) ==
  runPage(Where(d, "ifaces", t, "device" :> dev), Lists.ifaces, req, LAMBDA k, field : Text(d.ifaces[k].name))

\* Packages by the place of their name, which is unique on the device.
PageDevicePackages(d, t, dev, f, req) ==
  runPage({Text(p[1]).n : p \in ListDevicePackages(d, t, dev, f)}, Lists.pkgs, req, LAMBDA n, field : Num(n))

PageGuests(d, t, dev, req) ==
  runPage(Where(d, "guests", t, "device" :> dev), Lists.guests, req, LAMBDA k, field : Text(d.guests[k].ref))

(***************************************************************************)
(* The store answers one call at a time; call' is what the caller asked.   *)
(***************************************************************************)
Answered(d, c) ==
  CASE c[1] = "CreateLocation" -> CreateLocation(d, c[2], c[3], c[4])
    [] c[1] = "UpdateLocation" -> UpdateLocation(d, c[2], c[3], c[4])
    [] c[1] = "DeleteLocation" -> DeleteLocation(d, c[2], c[3], c[4])
    [] c[1] = "CreateVlan" -> CreateVlan(d, c[2], c[3], c[4])
    [] c[1] = "UpdateVlan" -> UpdateVlan(d, c[2], c[3], c[4])
    [] c[1] = "DeleteVlan" -> DeleteVlan(d, c[2], c[3], c[4])
    [] c[1] = "CreateSubnet" -> CreateSubnet(d, c[2], c[3], c[4])
    [] c[1] = "UpdateSubnet" -> UpdateSubnet(d, c[2], c[3], c[4])
    [] c[1] = "DeleteSubnet" -> DeleteSubnet(d, c[2], c[3], c[4])
    [] c[1] = "CreateAddress" -> CreateAddress(d, c[2], c[3], c[4])
    [] c[1] = "UpdateAddress" -> UpdateAddress(d, c[2], c[3], c[4])
    [] c[1] = "DeleteAddress" -> DeleteAddress(d, c[2], c[3])
    [] c[1] = "UpsertAddressByAddress" -> UpsertAddressByAddress(d, c[2], c[3], c[4])
    [] c[1] = "CreateDevice" -> CreateDevice(d, c[2], c[3], c[4])
    [] c[1] = "UpdateDevice" -> UpdateDevice(d, c[2], c[3], c[4])
    [] c[1] = "DeleteDevice" -> DeleteDevice(d, c[2], c[3], c[4])
    [] c[1] = "UpsertDeviceByName" -> UpsertDeviceByName(d, c[2], c[3], c[4])
    [] c[1] = "CreateInterface" -> CreateInterface(d, c[2], c[3], c[4])
    [] c[1] = "UpsertInterfaceByName" -> UpsertInterfaceByName(d, c[2], c[3], c[4])
    [] c[1] = "DeleteInterface" -> DeleteInterface(d, c[2], c[3])
    [] c[1] = "ReplaceInterfaceLinks" -> ReplaceInterfaceLinks(d, c[2], c[3], c[4])
    [] c[1] = "ReplaceDevicePackages" -> ReplaceDevicePackages(d, c[2], c[3], c[4])
    [] c[1] = "DeleteDevicePackages" -> DeleteDevicePackages(d, c[2], c[3])
    [] c[1] = "CreateIPGroup" -> CreateIPGroup(d, c[2], c[3], c[4])
    [] c[1] = "UpdateIPGroup" -> UpdateIPGroup(d, c[2], c[3], c[4])
    [] c[1] = "DeleteIPGroup" -> DeleteIPGroup(d, c[2], c[3])
    [] c[1] = "AddIPGroupMember" -> AddIPGroupMember(d, c[2], c[3], c[4])
    [] c[1] = "RemoveIPGroupMember" -> RemoveIPGroupMember(d, c[2], c[3])
    [] c[1] = "UpdateIPGroupMember" -> UpdateIPGroupMember(d, c[2], c[3], c[4])
    [] c[1] = "CreateHostGroup" -> CreateHostGroup(d, c[2], c[3], c[4])
    [] c[1] = "UpdateHostGroup" -> UpdateHostGroup(d, c[2], c[3], c[4])
    [] c[1] = "DeleteHostGroup" -> DeleteHostGroup(d, c[2], c[3])
    [] c[1] = "AddHostGroupMember" -> AddHostGroupMember(d, c[2], c[3], c[4])
    [] c[1] = "RemoveHostGroupMember" -> RemoveHostGroupMember(d, c[2], c[3])
    [] c[1] = "UpdateHostGroupMember" -> UpdateHostGroupMember(d, c[2], c[3], c[4])
    [] c[1] = "CreateScanJob" -> CreateScanJob(d, c[2], c[3], c[4])
    [] c[1] = "UpdateScanJob" -> UpdateScanJob(d, c[2], c[3], c[4])
    [] c[1] = "UpsertDNSConfig" -> UpsertDNSConfig(d, c[2], c[3])
    [] c[1] = "PutSubnetSNMP" -> PutSubnetSNMP(d, c[2], c[3], c[4])
    [] c[1] = "DeleteSubnetSNMP" -> DeleteSubnetSNMP(d, c[2], c[3])
    [] c[1] = "SetDeviceBMCRef" -> SetDeviceBMCRef(d, c[2], c[3], c[4])
    [] c[1] = "PutARPSettings" -> PutARPSettings(d, c[2], c[3])
    [] c[1] = "ApplyARP" -> ApplyARP(d, c[2], c[3])
    [] c[1] = "SetAddressLinks" -> SetAddressLinks(d, c[2], c[3], c[4], c[5], c[6])
    [] c[1] = "SetInterfaceLinks" -> SetInterfaceLinks(d, c[2], c[3], c[4], c[5], c[6], c[7])
    [] c[1] = "EnsureHostSyncSettings" -> EnsureHostSyncSettings(d, c[2])
    [] c[1] = "UpdateHostSyncSettings" -> UpdateHostSyncSettings(d, c[2], c[3])
    [] c[1] = "RequestReconcile" -> RequestReconcile(d, c[2])
    [] c[1] = "SaveHostSyncState" -> SaveHostSyncState(d, c[2], c[3], c[4], c[5])
    [] c[1] = "ClearAddressConflict" -> ClearAddressConflict(d, c[2], c[3])
    [] c[1] = "ApplyHostReport" -> ApplyHostReport(d, c[2], c[3])
    [] c[1] = "ClaimDueScanJobs" -> ClaimDueScanJobs(d, c[2])
    [] c[1] = "AppendAudit" -> AppendAudit(d)

Init == db = [tab \in Tables |-> None] /\ call = <<>> /\ reply = <<>>

Next ==
  \E a \in {Answered(db, call')} : db' = a.db /\ reply' = [err |-> a.err, log |-> a.log, val |-> a.val]

Spec == Init /\ [][Next]_vars

=============================================================================
