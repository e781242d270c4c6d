----------------------------- MODULE MemWrites ------------------------------
(***************************************************************************)
(* internal/memstore: the in-memory repo.Store of local development and of *)
(* nearly every test.  The methods that write: each one takes the maps of  *)
(* Mem and answers with the maps afterwards.  Constraints the database     *)
(* gives for free (unique indexes, foreign keys, rollback) are loops over  *)
(* the maps here.                                                          *)
(***************************************************************************)
EXTENDS StoreRows

\* Another row of the tenant already holds v in this column.
Taken(m, tab, t, i, col, v) ==
  \E k \in DOMAIN m[tab] \ {i} : m[tab][k].tenant = t /\ m[tab][k][col] = v

Save(m, tab, i, row, conflict) ==
  IF conflict THEN Err("conflict", m) ELSE Ok([m EXCEPT ![tab] = Put(@, i, row)])

Change(m, tab, t, i, cols, conflict) ==
  IF Own(m, tab, t, i) THEN Save(m, tab, i, cols \uplus m[tab][i], conflict) ELSE Err("notfound", m)

Forget(m, tab, t, i) ==
  IF Own(m, tab, t, i) THEN Ok([m EXCEPT ![tab] = Drop(@, {i})]) ELSE Err("notfound", m)

\* Blank the column in the tenant's rows that refer to i.
Cleared(rows, t, col, i) ==
  [k \in DOMAIN rows |-> IF rows[k].tenant = t /\ rows[k][col] = i THEN [rows[k] EXCEPT ![col] = 0] ELSE rows[k]]

Used(m, tab, t, col, i) == Cardinality(Where(m, tab, t, [c \in {col} |-> i]))

Refused(m, tab, t, i, force, used) ==
  IF ~Own(m, tab, t, i) THEN "notfound" ELSE IF used > 0 /\ ~force THEN "notempty" ELSE "ok"

(***************************************************************************)
(* Locations, VLANs and subnets.                                           *)
(***************************************************************************)
fillLocation(m, t, i) ==
  [children |-> Used(m, "locs", t, "parent", i), devices |-> Used(m, "devices", t, "location", i),
   subnets |-> Used(m, "subnets", t, "location", i), vlans |-> Used(m, "vlans", t, "location", i)]

LocationTaken(m, t, i, r) ==
  Taken(m, "locs", t, i, "name", r.name) \/ (r.code # NoText /\ Taken(m, "locs", t, i, "code", r.code))

CreateLocation(m, t, i, r) == Save(m, "locs", i, r \uplus [tenant |-> t], LocationTaken(m, t, i, r))

UpdateLocation(m, t, i, r) == Change(m, "locs", t, i, r, LocationTaken(m, t, i, r))

DeleteLocation(m, t, i, force) ==
  LET f == fillLocation(m, t, i)
      refused == Refused(m, "locs", t, i, force, f.children + f.devices + f.subnets + f.vlans)
  IN IF refused # "ok" THEN Err(refused, m)
     ELSE Ok([m EXCEPT !.locs = Cleared(Drop(@, {i}), t, "parent", i),
                       !.devices = Cleared(@, t, "location", i),
                       !.subnets = Cleared(@, t, "location", i),
                       !.vlans = Cleared(@, t, "location", i)])

VlanTaken(m, t, i, r) == Taken(m, "vlans", t, i, "name", r.name) \/ Taken(m, "vlans", t, i, "num", r.num)

CreateVlan(m, t, i, r) == Save(m, "vlans", i, r \uplus [tenant |-> t], VlanTaken(m, t, i, r))

UpdateVlan(m, t, i, r) == Change(m, "vlans", t, i, r, VlanTaken(m, t, i, r))

DeleteVlanKeepingSubnets(m, t, i, force) ==
  LET refused == Refused(m, "vlans", t, i, force, Used(m, "subnets", t, "vlan", i))
  IN IF refused # "ok" THEN Err(refused, m) ELSE Ok([m EXCEPT !.vlans = Drop(@, {i})])

DeleteVlan(m, t, i, force) ==
  LET refused == Refused(m, "vlans", t, i, force, Used(m, "subnets", t, "vlan", i))
  IN IF refused # "ok" THEN Err(refused, m)
     ELSE Ok([m EXCEPT !.vlans = Drop(@, {i}), !.subnets = Cleared(@, t, "vlan", i)])

CreateSubnet(m, t, i, r) ==
  Save(m, "subnets", i, r \uplus [tenant |-> t, origin |-> "manual"], Taken(m, "subnets", t, i, "name", r.name))

UpdateSubnet(m, t, i, r) == Change(m, "subnets", t, i, r, Taken(m, "subnets", t, i, "name", r.name))

\* The addresses go with their per-switch links, then scans, children, credentials.
DeleteSubnet(m, t, i, force) ==
  LET held == Where(m, "addrs", t, [subnet |-> i])
      refused == Refused(m, "subnets", t, i, force, Cardinality(held))
  IN IF refused # "ok" THEN Err(refused, m)
     ELSE Ok([m EXCEPT !.addrs = Drop(@, held), !.hostLinks = Drop(@, {<<"address", a>> : a \in held}),
                       !.scans = Drop(@, Where(m, "scans", t, [subnet |-> i])),
                       !.subnets = Cleared(Drop(@, {i}), t, "parent", i), !.snmp = Drop(@, {i})])

(***************************************************************************)
(* Addresses.                                                              *)
(***************************************************************************)
\* A host's links whose port still exists on that switch.
hostLinksLocked(m, t, kind, host) ==
  LET set == IF Own(m, "hostLinks", t, <<kind, host>>) THEN m.hostLinks[<<kind, host>>].links ELSE {}
      live == {l \in set : Own(m, "ifaces", t, l[2]) /\ m.ifaces[l[2]].device = l[1]}
  IN {[switch |-> l[1], port |-> l[2], name |-> m.devices[l[1]].name] : l \in live}

clearAddrServerFields == [report |-> NoText, prev |-> 0, conflict |-> FALSE, origin |-> NoText, lswitch |-> 0, lport |-> 0]

AddressTaken(m, t, i, a) == Taken(m, "addrs", t, i, "addr", a)

CreateAddress(m, t, i, r) ==
  Save(m, "addrs", i, clearAddrServerFields \uplus r \uplus [tenant |-> t], AddressTaken(m, t, i, r.addr))

\* keepAddrServerFields: the caller's copy of the server-owned columns is ignored.
UpdateAddress(m, t, i, r) ==
  Change(m, "addrs", t, i, Drop(r, DOMAIN clearAddrServerFields), AddressTaken(m, t, i, r.addr))

DeleteAddress(m, t, i) ==
  LET done == Forget(m, "addrs", t, i)
  IN IF done.err = "ok" THEN Ok([done.db EXCEPT !.hostLinks = Drop(@, {<<"address", i>>})]) ELSE done

UpsertAddressByAddress(m, t, i, r) ==
  LET found == Where(m, "addrs", t, [addr |-> r.addr])
      k == CHOOSE x \in found : TRUE
      old == m.addrs[k]
      seen(c) == IF r[c] # NoText /\ old.report # "reported" THEN r[c] ELSE old[c]
  IN IF found = {} THEN [CreateAddress(m, t, i, r) EXCEPT !.val = "created"]
     ELSE Change(m, "addrs", t, k,
            [hostname |-> seen("hostname"), mac |-> seen("mac"),
             status |-> IF old.status = "offline" /\ r.status # NoText THEN r.status ELSE old.status], FALSE)

(***************************************************************************)
(* Devices, interfaces, links and packages.  m.links and m.pkgs hold one   *)
(* slice per interface and per device.                                     *)
(***************************************************************************)
Slice(m, tab, k) == IF k \in DOMAIN m[tab] THEN m[tab][k] ELSE <<>>

fillDevice(m, t, i) ==
  [ifaces |-> Used(m, "ifaces", t, "device", i), addrs |-> Used(m, "addrs", t, "device", i),
   updates |-> Len(SelectSeq(Slice(m, "pkgs", i), LAMBDA p : p.tenant = t /\ p.pending)),
   guests |-> Used(m, "guests", t, "device", i),
   summary |-> IF Own(m, "hardware", t, i) THEN m.hardware[i].value ELSE NoText]

deviceServerFields == {"source", "host", "hyper", "report"}

keepDeviceServerFields(r, source) == [source |-> source, host |-> NoText, hyper |-> 0, report |-> NoText] \uplus r

DeviceTaken(m, t, i, r) == Taken(m, "devices", t, i, "name", r.name)

CreateDevice(m, t, i, r) ==
  Save(m, "devices", i, keepDeviceServerFields(r, "manual") \uplus [tenant |-> t], DeviceTaken(m, t, i, r))

UpdateDevice(m, t, i, r) == Change(m, "devices", t, i, Drop(r, deviceServerFields), DeviceTaken(m, t, i, r))

\* deleteDeviceHostSyncLocked: guest rows and state cascade, references are nulled.
deleteDeviceHostSyncLocked(m, i) ==
  [m EXCEPT !.devState = Drop(@, {i}), !.hardware = Drop(@, {i}),
            !.guests = [g \in {k \in DOMAIN @ : @[k].device # i} |->
                         IF @[g].guest = i THEN [@[g] EXCEPT !.guest = 0] ELSE @[g]],
            !.devices = [k \in DOMAIN @ |-> IF @[k].hyper = i THEN [@[k] EXCEPT !.hyper = 0] ELSE @[k]]]

DeleteDevice(m, t, i, force) ==
  LET nics == Where(m, "ifaces", t, [device |-> i])
      refused == Refused(m, "devices", t, i, force, Cardinality(nics) + Used(m, "addrs", t, "device", i))
      emptied == [m EXCEPT !.ifaces = Drop(@, nics), !.links = Drop(@, nics), !.pkgs = Drop(@, {i}),
                           !.hostLinks = Drop(@, {<<"interface", n>> : n \in nics})]
  IN IF refused # "ok" THEN Err(refused, m)
     ELSE Ok([deleteDeviceHostSyncLocked(emptied, i) EXCEPT
                !.addrs = Cleared(@, t, "device", i), !.devices = Drop(@, {i}),
                !.hostMembers = Drop(@, Where(m, "hostMembers", t, [device |-> i]))])

mergeDevice(old, r) == [c \in DOMAIN r \ (deviceServerFields \cup {"name"}) |-> IF Blank(c, r[c]) THEN old[c] ELSE r[c]]

FillEmptyDevice(old, r) == [c \in {"os", "type"} |-> IF old[c] = NoText THEN r[c] ELSE old[c]]

UpsertDeviceByName(m, t, i, r) ==
  LET found == Where(m, "devices", t, [name |-> r.name])
      key == IF found = {} THEN i ELSE CHOOSE x \in found : TRUE
      old == m.devices[key]
      merged == IF old.source = "host_report" THEN FillEmptyDevice(old, r) ELSE mergeDevice(old, r)
      row == IF found = {} THEN keepDeviceServerFields(r, "scan") \uplus [tenant |-> t]
             ELSE merged \uplus old
      done == [m EXCEPT !.devices = Put(@, key, row)]
  IN Answer("ok", done, 0, fillDevice(done, t, key) \uplus row)

IfaceTaken(m, i, r) ==
  \E k \in DOMAIN m.ifaces \ {i} : m.ifaces[k].device = r.device /\ m.ifaces[k].name = r.name

CreateInterface(m, t, i, r) == Save(m, "ifaces", i, r \uplus [tenant |-> t, report |-> NoText], IfaceTaken(m, i, r))

UpsertInterfaceByName(m, t, i, r) ==
  LET found == {k \in DOMAIN m.ifaces : m.ifaces[k].device = r.device /\ m.ifaces[k].name = r.name}
      k == CHOOSE x \in found : TRUE
  IN IF found = {} THEN CreateInterface(m, t, i, r)
     ELSE Ok([m EXCEPT !.ifaces[k] = r \uplus [tenant |-> t, report |-> @.report]])

DeleteInterface(m, t, i) ==
  LET done == Forget(m, "ifaces", t, i)
  IN IF done.err # "ok" THEN done
     ELSE Ok([done.db EXCEPT !.links = Drop(@, {i}), !.hostLinks = Drop(@, {<<"interface", i>>})])

ReplaceInterfaceLinks(m, t, i, seq) ==
  IF ~Own(m, "ifaces", t, i) THEN Err("notfound", m)
  ELSE IF \E a, b \in DOMAIN seq : a # b /\ seq[a] = seq[b] THEN Err("conflict", m)
  ELSE Ok([m EXCEPT !.links = Put(@, i, [n \in DOMAIN seq |-> [tenant |-> t, src |-> seq[n][1], remote |-> seq[n][2]]])])

PackageSliceNoTenant(t, seq) == [n \in DOMAIN seq |-> [tenant |-> 0, name |-> seq[n][1], pending |-> seq[n][2]]]

PackageSlice(t, seq) == [n \in DOMAIN seq |-> [tenant |-> t, name |-> seq[n][1], pending |-> seq[n][2]]]

ReplaceDevicePackages(m, t, i, seq) ==
  IF \E a, b \in DOMAIN seq : a # b /\ seq[a][1] = seq[b][1] THEN Err("conflict", m)
  ELSE Ok([m EXCEPT !.pkgs = Put(@, i, PackageSlice(t, seq))])

DeleteDevicePackages(m, t, i) == Ok([m EXCEPT !.pkgs = Drop(@, {i})])

(***************************************************************************)
(* Groups, scan jobs, DNS settings and statistics.                         *)
(***************************************************************************)
CreateIPGroup(m, t, i, r) == Save(m, "ipGroups", i, r \uplus [tenant |-> t], Taken(m, "ipGroups", t, i, "name", r.name))

UpdateIPGroup(m, t, i, r) == Change(m, "ipGroups", t, i, r, Taken(m, "ipGroups", t, i, "name", r.name))

DeleteIPGroup(m, t, i) ==
  LET done == Forget(m, "ipGroups", t, i)
  IN IF done.err # "ok" THEN done
     ELSE Ok([done.db EXCEPT !.ipMembers = Drop(@, Where(m, "ipMembers", t, [group |-> i]))])

\* Another member of the same group has this value.
MemberTaken(m, tab, i, g, col, v) ==
  \E k \in DOMAIN m[tab] \ {i} : m[tab][k].group = g /\ m[tab][k][col] = v

AddIPGroupMember(m, t, i, r) ==
  IF ~Own(m, "ipGroups", t, r.group) THEN Err("notfound", m)
  ELSE Save(m, "ipMembers", i, r \uplus [tenant |-> t], MemberTaken(m, "ipMembers", i, r.group, "value", r.value))

RemoveIPGroupMember(m, t, i) == Forget(m, "ipMembers", t, i)

UpdateIPGroupMember(m, t, i, r) ==
  Change(m, "ipMembers", t, i, Drop(r, {"group"}), MemberTaken(m, "ipMembers", i, m.ipMembers[i].group, "value", r.value))

CreateHostGroup(m, t, i, r) ==
  Save(m, "hostGroups", i, r \uplus [tenant |-> t], Taken(m, "hostGroups", t, i, "name", r.name))

UpdateHostGroup(m, t, i, r) == Change(m, "hostGroups", t, i, r, Taken(m, "hostGroups", t, i, "name", r.name))

DeleteHostGroup(m, t, i) ==
  LET done == Forget(m, "hostGroups", t, i)
  IN IF done.err # "ok" THEN done
     ELSE Ok([done.db EXCEPT !.hostMembers = Drop(@, Where(m, "hostMembers", t, [group |-> i]))])

AddHostGroupMember(m, t, i, r) ==
  IF ~Own(m, "hostGroups", t, r.group) THEN Err("notfound", m)
  ELSE Save(m, "hostMembers", i, r \uplus [tenant |-> t], MemberTaken(m, "hostMembers", i, r.group, "device", r.device))

RemoveHostGroupMember(m, t, i) == Forget(m, "hostMembers", t, i)

UpdateHostGroupMember(m, t, i, r) ==
  Change(m, "hostMembers", t, i, Drop(r, {"group"}),
         MemberTaken(m, "hostMembers", i, m.hostMembers[i].group, "device", r.device))

CreateScanJob(m, t, i, r) == Save(m, "scans", i, r \uplus [tenant |-> t], FALSE)

UpdateScanJob(m, t, i, r) == Change(m, "scans", t, i, r, FALSE)

ClaimDueScanJobs(m, limit) ==
  LET due == {k \in DOMAIN m.scans : m.scans[k].status = "pending" /\ ~m.scans[k].later}
      took == {k \in due : limit > 0 => Cardinality({x \in due : x < k}) < limit}
  IN Answer("ok", [m EXCEPT !.scans = [k \in took |-> [@[k] EXCEPT !.status = "scanning"]] \uplus @], 0, took)

UpsertDNSConfig(m, t, servers) == Save(m, "dns", t, [tenant |-> t, servers |-> servers], FALSE)

AppendAudit(m) == Logged(Ok(m), 1)

(***************************************************************************)
(* Subnet credentials, the BMC reference, ARP settings, ARP data, links.   *)
(***************************************************************************)
PutSubnetSNMP(m, t, i, version) ==
  IF ~Own(m, "subnets", t, i) THEN Err("notfound", m)
  ELSE Logged(Save(m, "snmp", i, [tenant |-> t, subnet |-> i, version |-> version], FALSE), 1)

DeleteSubnetSNMP(m, t, i) == Logged(Forget(m, "snmp", t, i), 1)

SetDeviceBMCRef(m, t, i, ref) ==
  IF ~Own(m, "devices", t, i) THEN Err("notfound", m)
  ELSE Answer("ok", [m EXCEPT !.devices[i].bmc = ref], 1, m.devices[i].bmc)

PutARPSettings(m, t, cfg) == Logged(Save(m, "arp", t, cfg \uplus [tenant |-> t], FALSE), 1)

arpOwned(a) == a.mac = NoText \/ a.msrc = "arp"

\* The op's guard failed: <<m>> unchanged and no audit row of its own.
applyARPOpLocked(m, t, o) ==
  LET row == m.addrs[o.id]
      held == Own(m, "addrs", t, o.id)
      set(cols) == Answer("ok", [m EXCEPT !.addrs[o.id] = cols \uplus @], 1, 0)
      free == /\ Own(m, "subnets", t, o.subnet) /\ Where(m, "addrs", t, [addr |-> o.addr]) = {}
              /\ o.id \notin DOMAIN m.addrs
      new == [tenant |-> t, addr |-> o.addr, subnet |-> o.subnet, device |-> 0, hostname |-> NoText,
              mac |-> o.mac, status |-> "active", msrc |-> "arp", mdev |-> o.dev, mconf |-> NoText,
              origin |-> "arp"] \uplus clearAddrServerFields
  IN CASE o.kind = "create" /\ free -> Logged(Save(m, "addrs", o.id, new, FALSE), 1)
       [] o.kind = "fill" /\ held /\ arpOwned(row) ->
            set([mac |-> o.mac, msrc |-> "arp", mdev |-> o.dev, mconf |-> NoText])
       [] o.kind = "conflict" /\ held /\ ~arpOwned(row) -> set([mconf |-> o.mac])
       [] o.kind = "clear" /\ held -> set([mconf |-> NoText])
       [] o.kind = "touch" /\ held -> set(IF row.msrc = "arp" THEN [mdev |-> o.dev] ELSE None)
       [] OTHER -> Ok(m)

afterARPOp(x, t, o) == LET a == applyARPOpLocked(x.db, t, o) IN Answer("ok", a.db, x.log + a.log, 0)

ApplyARP(m, t, ops) ==
  LET run[n \in 0 .. Len(ops)] == IF n = 0 THEN Answer("ok", m, 1, 0) ELSE afterARPOp(run[n - 1], t, ops[n])
  IN run[Len(ops)]

setHostLinksLocked(m, t, kind, host, links) ==
  [m EXCEPT !.hostLinks = IF links = {} THEN Drop(@, {<<kind, host>>})
                          ELSE Put(@, <<kind, host>>, [tenant |-> t, links |-> links])]

SetAddressLinks(m, t, i, sw, port, links) ==
  IF ~Own(m, "addrs", t, i) THEN Err("notfound", m)
  ELSE Answer("ok", [setHostLinksLocked(m, t, "address", i, links) EXCEPT
                       !.addrs[i].lswitch = sw, !.addrs[i].lport = port], 1, 0)

SetInterfaceLinks(m, t, i, sw, port, src, links) ==
  IF ~Own(m, "ifaces", t, i) THEN Err("notfound", m)
  ELSE Answer("ok", [setHostLinksLocked(m, t, "interface", i, links) EXCEPT
                       !.ifaces[i].rdev = sw, !.ifaces[i].rport = port, !.ifaces[i].lsrc = src], 1, 0)

(***************************************************************************)
(* Host sync: settings, the per-host transaction and its statements.       *)
(***************************************************************************)
defaultSettings(t) == [tenant |-> t, enabled |-> TRUE, requested |-> FALSE, status |-> "ok", since |-> 0]

ensureSettingsLocked(m, t) ==
  IF t \in DOMAIN m.hsSettings THEN m ELSE [m EXCEPT !.hsSettings = Put(@, t, defaultSettings(t))]

EnsureHostSyncSettings(m, t) ==
  LET ensured == ensureSettingsLocked(m, t) IN Answer("ok", ensured, 0, ensured.hsSettings[t])

UpdateHostSyncSettings(m, t, on) ==
  LET ensured == ensureSettingsLocked(m, t)
      cur == ensured.hsSettings[t]
      row == [cur EXCEPT !.requested = @ \/ (on /\ ~cur.enabled), !.enabled = on,
                         !.status = IF ~on THEN "disabled" ELSE IF @ = "disabled" THEN "ok" ELSE @]
  IN Answer("ok", [ensured EXCEPT !.hsSettings[t] = row], 1, 0)

RequestReconcile(m, t) ==
  Answer("ok", [ensureSettingsLocked(m, t) EXCEPT !.hsSettings[t].requested = TRUE], 1, 0)

SaveHostSyncState(m, t, status, since, clear) ==
  LET ensured == ensureSettingsLocked(m, t)
      row == [ensured.hsSettings[t] EXCEPT !.status = status, !.since = IF since # 0 THEN since ELSE @,
                                           !.requested = IF clear THEN FALSE ELSE @]
  IN Ok([ensured EXCEPT !.hsSettings[t] = row])

ClearAddressConflict(m, t, i) ==
  Logged(Change(m, "addrs", t, i, [conflict |-> FALSE], FALSE), 1)

InsertDevice(m, t, i, r) ==
  Save(m, "devices", i, r \uplus [tenant |-> t, hyper |-> 0],
       DeviceTaken(m, t, i, r) \/ (r.host # NoText /\ Taken(m, "devices", t, i, "host", r.host)))

UpdateDeviceReported(m, t, i, r) ==
  Change(m, "devices", t, i, Columns(r, {"name", "type", "os", "source", "host", "report"}), DeviceTaken(m, t, i, r))

UpsertInterfaceReported(m, t, i, r, create) ==
  IF create THEN Save(m, "ifaces", i, r \uplus [tenant |-> t], IfaceTaken(m, i, r))
  ELSE Change(m, "ifaces", t, i, [mac |-> r.mac, report |-> r.report], FALSE)

CreateSubnetAuto(m, t, i, r) ==
  Save(m, "subnets", i, r \uplus [tenant |-> t, origin |-> "auto"], Taken(m, "subnets", t, i, "name", r.name))

AgentMAC(mac) == [msrc |-> IF mac # NoText THEN "agent" ELSE NoText, mdev |-> 0]

InsertAddressReported(m, t, i, r) ==
  Save(m, "addrs", i, AgentMAC(r.mac) \uplus [tenant |-> t, mconf |-> NoText, origin |-> NoText, lswitch |-> 0, lport |-> 0] \uplus r
                      \uplus clearAddrServerFields, AddressTaken(m, t, i, r.addr))

UpdateAddressReported(m, t, i, r) ==
  Change(m, "addrs", t, i, [device |-> r.device, mac |-> r.mac, hostname |-> r.hostname, report |-> r.report,
                            prev |-> r.prev, conflict |-> r.conflict]
                           \uplus IF r.report = "reported" THEN AgentMAC(r.mac) ELSE None, FALSE)

ReplacePendingPackages(m, t, i, seq) == Ok([m EXCEPT !.pkgs = Put(@, i, PackageSlice(t, seq))])

ReplaceGuests(m, t, i, rows) ==
  Ok([m EXCEPT !.guests = [k \in DOMAIN rows |-> rows[k] \uplus [tenant |-> t, device |-> i]]
                          \uplus Drop(@, Where(m, "guests", t, [device |-> i]))])

SetHypervisor(m, t, i, h) ==
  IF i = h THEN Err("notfound", m) ELSE Change(m, "devices", t, i, [hyper |-> h], FALSE)

SetGuestDevice(m, t, i, dev) == Change(m, "guests", t, i, [guest |-> dev], FALSE)

MarkDeviceNotReported(m, t, i) ==
  LET reported(tab) == {k \in DOMAIN m[tab] : m[tab][k].device = i /\ m[tab][k].report = "reported"}
      mark(tab, S) == [k \in S |-> [m[tab][k] EXCEPT !.report = "not_reported"]] \uplus m[tab]
  IN IF ~Own(m, "devices", t, i) THEN Err("notfound", m)
     ELSE Ok([m EXCEPT !.devices = mark("devices", {i}), !.ifaces = mark("ifaces", reported("ifaces")),
                       !.addrs = mark("addrs", {k \in reported("addrs") : m.addrs[k].tenant = t})])

SaveDeviceState(m, t, i, changes) ==
  Save(m, "devState", i, [tenant |-> t, device |-> i, changes |-> changes], FALSE)

ReplaceHardware(m, t, i, value) ==
  IF Own(m, "devices", t, i) THEN Save(m, "hardware", i, [tenant |-> t, device |-> i, value |-> value], FALSE)
  ELSE Err("notfound", m)

TxStep(m, t, o) ==
  CASE o[1] = "InsertDevice" -> InsertDevice(m, t, o[2], o[3])
    [] o[1] = "UpdateDeviceReported" -> UpdateDeviceReported(m, t, o[2], o[3])
    [] o[1] = "UpsertInterfaceReported" -> UpsertInterfaceReported(m, t, o[2], o[3], o[4])
    [] o[1] = "CreateSubnetAuto" -> CreateSubnetAuto(m, t, o[2], o[3])
    [] o[1] = "InsertAddressReported" -> InsertAddressReported(m, t, o[2], o[3])
    [] o[1] = "UpdateAddressReported" -> UpdateAddressReported(m, t, o[2], o[3])
    [] o[1] = "ReplacePendingPackages" -> ReplacePendingPackages(m, t, o[2], o[3])
    [] o[1] = "ReplaceGuests" -> ReplaceGuests(m, t, o[2], o[3])
    [] o[1] = "SetHypervisor" -> SetHypervisor(m, t, o[2], o[3])
    [] o[1] = "SetGuestDevice" -> SetGuestDevice(m, t, o[2], o[3])
    [] o[1] = "MarkDeviceNotReported" -> MarkDeviceNotReported(m, t, o[2])
    [] o[1] = "SaveDeviceState" -> SaveDeviceState(m, t, o[2], o[3])
    [] o[1] = "ReplaceHardware" -> ReplaceHardware(m, t, o[2], o[3])
    [] o[1] = "AppendAudit" -> Logged(Ok(m), 1)

SnapshottedNoHardware == {"devices", "ifaces", "addrs", "subnets", "pkgs", "guests", "devState"}

Snapshotted == {"devices", "ifaces", "addrs", "subnets", "pkgs", "guests", "devState", "hardware"}

\* The statements write the maps in place; an error puts the copied maps and
\* the length of the audit log back.
restoreLocked(m, snap) == [tab \in Tables |-> IF tab \in Snapshotted THEN snap[tab] ELSE m[tab]]

afterTxStep(x, t, o) ==
  IF x.err # "ok" THEN x ELSE LET a == TxStep(x.db, t, o) IN [a EXCEPT !.log = x.log + @]

\* The statements of the callback, up to the first that fails.
runTx(m, t, script) ==
  LET run[n \in 0 .. Len(script)] == IF n = 0 THEN Ok(m) ELSE afterTxStep(run[n - 1], t, script[n])
  IN run[Len(script)]

ApplyHostReport(m, t, script) ==
  LET open == ensureSettingsLocked(m, t)
      done == runTx(open, t, script)
  IN IF ~open.hsSettings[t].enabled THEN Err("disabled", open)
     ELSE IF done.err = "ok" THEN done ELSE Err(done.err, restoreLocked(done.db, open))

=============================================================================
