----------------------------- MODULE Discovery -----------------------------
(***************************************************************************)
(* What a scan does to the inventory: the pipeline of internal/scan for    *)
(* one claimed job, with the ARP planner (internal/arpplan) and the switch *)
(* port correlation (internal/portlink), and the scheduler's task that     *)
(* queues scans (internal/taskexec).  The job table under several replicas *)
(* and crashes is ScanQueue's subject.                                     *)
(*                                                                         *)
(* A frame's input says what the network answers: alive, the hosts that    *)
(* answer the sweep; devices, by address, what answers SNMP, with its      *)
(* interfaces, the neighbours they learned and its ARP table; stale, which *)
(* links not confirmed now are past the stale age.                         *)
(***************************************************************************)
EXTENDS AddressService, AdminServices

CONSTANTS MaxMACs,           \* foreign MACs an access port may have learned
          MaxHostEnumerate   \* hosts a block may have to be listed

(***************************************************************************)
(* The ARP planner.  obs: the entries read, [dev, ip, mac], in the order   *)
(* they were read; ip 0 is one that does not parse.                        *)
(***************************************************************************)
classifyMAC(mac, network) == mac \notin {"", "invalid", "multicast", "virtual"} \cup network

\* The entries left when every MAC that answers for too many addresses is dropped.
filterProxy(obs, ks, threshold) ==
  {k \in ks : Cardinality({obs[j].ip : j \in {i \in ks : obs[i].mac = obs[k].mac}}) <= threshold}

subnetOf(subs, ip) == MostSpecific([i \in {k \in DOMAIN subs : subs[k].v = 4} |-> cidrOf(subs[i])], ip)

ArpOp(kind, id, sub, o) == [kind |-> kind, id |-> id, subnet |-> sub, addr |-> o.ip, mac |-> o.mac, dev |-> o.dev]

\* Mutant of address: a contradiction already noted is noted again.
addressLoud(id, row, o) ==
  ArpOp(IF row.mac = "" THEN "fill" ELSE IF row.mac = o.mac THEN "touch" ELSE "conflict", id, row.subnet, o)

\* An update of a learned MAC is the statement a fill is.
address(id, row, o) ==
  LET kind == CASE row.mac = "" -> "fill"
                [] row.mac = o.mac -> IF row.mconf # "" THEN "clear" ELSE "touch"
                [] row.mac \notin {"", o.mac} /\ row.msrc = "arp" -> "fill"
                [] OTHER -> IF row.mconf = o.mac THEN "none" ELSE "conflict"
  IN ArpOp(kind, id, row.subnet, o)

\* Of two entries of one address the later device's wins, then the later one.
Wins(obs, k, j) == obs[j].dev < obs[k].dev \/ (obs[j].dev = obs[k].dev /\ j <= k)

\* The operations in address order; n is the first id for new rows.
Build(obs, subs, addrs, network, cfg, n) ==
  LET usable == {k \in DOMAIN obs : obs[k].dev \notin cfg.excluded /\ obs[k].ip # 0 /\ classifyMAC(obs[k].mac, network)}
      placed == {k \in filterProxy(obs, usable, cfg.threshold) : subnetOf(subs, obs[k].ip) # 0}
      ips == Ascending({obs[k].ip : k \in placed})
      winner(ip) == obs[CHOOSE k \in placed : obs[k].ip = ip /\ \A j \in placed : obs[j].ip = ip => Wins(obs, k, j)]
      rows(ip) == {i \in DOMAIN addrs : addrs[i].addr = ip}
      newID(ip) == n + Cardinality({i \in ToSet(ips) : i < ip /\ rows(i) = {}})
      op(ip) == IF rows(ip) = {} THEN ArpOp("create", newID(ip), subnetOf(subs, ip), winner(ip))
                ELSE LET i == CHOOSE k \in rows(ip) : TRUE IN address(i, addrs[i], winner(ip))
  IN SelectSeq([k \in DOMAIN ips |-> op(ips[k])], LAMBDA o : o.kind # "none")

(***************************************************************************)
(* The ranking of switch ports.  A neighbour is [sys, port]: an FDB entry  *)
(* has its MAC as port and no system name.                                 *)
(***************************************************************************)
NormalMAC(mac) == mac \notin {"", "invalid", "multicast"}

Ports(d, t, data) ==
  LET learned(p, src) == {d.links[k].remote : k \in Where(d, "links", t, [iface |-> p, src |-> src])}
  IN [p \in data.ports |-> [switch |-> d.ifaces[p].device, lldp |-> learned(p, "lldp"),
                            macs |-> {r.port : r \in {l \in learned(p, "snmp_fdb") : NormalMAC(l.port)}}]]

SwitchMACs(d, data) == {p \in data.ports : NormalMAC(d.ifaces[p].mac)}

\* An uplink: it learned another switch's MAC, or its neighbour is a switch.
facesSwitch(d, data, port) ==
  \/ \E m \in port.macs :
       LET own == {p \in SwitchMACs(d, data) : d.ifaces[p].mac = m} IN own # {} /\ d.ifaces[Max(own)].device # port.switch
  \/ \E nb \in port.lldp, s \in data.switches : nb.sys = d.devices[s].name

Reported(d, data) == {i \in DOMAIN data.nics : NormalMAC(d.ifaces[i].mac)}

\* The MACs of a device's reported interfaces and of its guests.
Related(d, data, dev) ==
  {d.ifaces[i].mac : i \in {k \in Reported(d, data) : d.ifaces[k].device = dev}}
    \cup {m \in {d.guests[g].mac : g \in {k \in data.guests : d.guests[k].device = dev}} : NormalMAC(m)}

\* The hosts to place: the reported interfaces, and the addresses whose MAC is
\* neither one of theirs nor a network device's.
BuildInput(d, data) ==
  LET nic(i) == [kind |-> "interface", id |-> i, owner |-> d.ifaces[i].device, name |-> d.devices[d.ifaces[i].device].name,
                 port |-> d.ifaces[i].name, mac |-> d.ifaces[i].mac, related |-> Related(d, data, d.ifaces[i].device)]
      taken == {d.ifaces[i].mac : i \in Reported(d, data) \cup SwitchMACs(d, data)} \cup data.macs
      addr(a) == [kind |-> "address", id |-> a, owner |-> 0 - a, port |-> "", mac |-> d.addrs[a].mac,
                  name |-> IF d.addrs[a].hostname = "" THEN <<>> ELSE <<d.addrs[a].hostname>>,
                  related |-> IF d.addrs[a].device = 0 THEN {} ELSE Related(d, data, d.addrs[a].device)]
  IN {nic(i) : i \in Reported(d, data)}
       \cup {addr(a) : a \in {k \in DOMAIN data.addrs : NormalMAC(d.addrs[k].mac) /\ d.addrs[k].mac \notin taken}}

foreignMACs(port, h) == Cardinality({m \in port.macs : m = h.mac \/ m \notin h.related})

Names(nb, h, port, single) ==
  \/ nb.port # "" /\ (nb.port = h.mac \/ (nb.port = h.port /\ nb.sys = h.name))
  \/ nb.sys # <<>> /\ nb.sys = h.name /\ (single \/ h.mac \in port.macs)

\* On each switch the first access port whose neighbour is h, or else the one with
\* the fewest foreign MACs among those that learned its MAC, if it is the only one.
Rank(ports, access, hosts, h) ==
  LET single == \A o \in hosts : o.owner = h.owner => o = h
      named(sw) == {p \in access : ports[p].switch = sw /\ \E nb \in ports[p].lldp : Names(nb, h, ports[p], single)}
      count(p) == foreignMACs(ports[p], h)
      heard(sw) == {p \in access : ports[p].switch = sw /\ h.mac \in ports[p].macs /\ count(p) <= MaxMACs}
      best(sw) == {p \in heard(sw) : \A q \in heard(sw) : count(p) <= count(q)}
      link(sw) == CASE named(sw) # {} -> {[switch |-> sw, port |-> Min(named(sw)), lldp |-> TRUE, count |-> Cardinality(ports[Min(named(sw))].macs)]}
                    [] named(sw) = {} /\ Cardinality(best(sw)) = 1 ->
                         {[switch |-> sw, port |-> p, lldp |-> FALSE, count |-> count(p)] : p \in best(sw)}
                    [] OTHER -> {}
  IN UNION {link(ports[p].switch) : p \in access}

primaryBefore(a, b) ==
  IF a.lldp # b.lldp THEN a.lldp ELSE IF a.count # b.count THEN a.count < b.count ELSE a.switch <= b.switch

Primary(links) == CHOOSE a \in links : \A b \in links : primaryBefore(a, b)

LearnedSources == {"snmp_fdb", "lldp"}

\* Mutant of mergeSet: the set holds the secondary links only.
mergeSetSecondary(ranked, flat, src, cur, stale) ==
  LET best == IF ranked = {} THEN {} ELSE {Primary(ranked)}
  IN [flat |-> IF best = {} THEN flat ELSE <<Primary(ranked).switch, Primary(ranked).port>>, src |-> src,
      links |-> {<<r.switch, r.port>> : r \in ranked \ best}, changed |-> ranked # {}]

\* A host's new link columns and per-switch set: what was ranked now, and the links
\* of other switches until they are stale.  flat: its current <<switch, port>>, from
\* src; one that no correlation wrote is replaced by a ranked one, but never stale.
mergeSet(ranked, flat, src, cur, stale) ==
  LET old == {<<e.switch, e.port>> : e \in {l \in cur : \A r \in ranked : r.switch # l.switch}}
      aged(l) == stale = "all" \/ (stale = "secondary" /\ l # flat)
      new == IF ranked # {} THEN <<Primary(ranked).switch, Primary(ranked).port>>
             ELSE IF stale = "all" /\ src \in LearnedSources THEN <<0, 0>> ELSE flat
      from == CASE ranked # {} -> IF Primary(ranked).lldp THEN "lldp" ELSE "snmp_fdb"
                [] ranked = {} /\ new # flat -> NoText
                [] OTHER -> src
  IN [flat |-> new, src |-> from, links |-> {<<r.switch, r.port>> : r \in ranked} \cup {l \in old : ~aged(l)},
      changed |-> ranked # {} \/ new # flat \/ \E l \in old : aged(l)]

\* What a correlation writes: the interfaces, then the addresses, that change.  An
\* address whose MAC a reported interface carries shows that interface's links; every
\* link of an address is a correlation's.
Correlation(d, t, stale) ==
  LET data == S!PortLinkData(d, t)
      ports == Ports(d, t, data)
      access == {p \in DOMAIN ports : ~facesSwitch(d, data, ports[p])}
      hosts == BuildInput(d, data)
      ranked(kind, i) == UNION {Rank(ports, access, hosts, h) : h \in {k \in hosts : k.kind = kind /\ k.id = i}}
      nic(i) == mergeSet(ranked("interface", i), <<d.ifaces[i].rdev, d.ifaces[i].rport>>, d.ifaces[i].lsrc, data.nics[i], stale)
      carriers(a) == {i \in Reported(d, data) : d.ifaces[i].mac = d.addrs[a].mac /\ ranked("interface", i) # {}}
      shown(a) == IF carriers(a) = {} THEN ranked("address", a) ELSE ranked("interface", Max(carriers(a)))
      addr(a) == mergeSet(shown(a), <<d.addrs[a].lswitch, d.addrs[a].lport>>, "snmp_fdb", data.addrs[a].links, stale)
  IN IF data = None THEN [nics |-> None, addrs |-> None]
     ELSE [nics |-> [i \in {k \in DOMAIN data.nics : nic(k).changed} |-> nic(i)],
           addrs |-> [a \in {k \in DOMAIN data.addrs : addr(k).changed} |-> addr(a)]]

\* One transaction: a host that is gone, or a port an address would refer to, undoes
\* all of it.
SetAll(d, t, kind, writes) ==
  LET set(x, i) == LET w == writes[i]
                   IN IF kind = "address" THEN S!SetAddressLinks(x, t, i, w.flat[1], w.flat[2], w.links)
                      ELSE S!SetInterfaceLinks(x, t, i, w.flat[1], w.flat[2], w.src, w.links)
      next(a, i) == IF a.err = "ok" THEN set(a.db, i) ELSE a
      done == FoldLeft(next, Ok(d), Ascending(DOMAIN writes))
  IN IF done.err = "ok" THEN done ELSE Err(done.err, d)

(***************************************************************************)
(* One claimed job.  f.x.job is its id, f.x.ran says the credentials could *)
(* be opened, f.x.cfg are the ARP settings read with them.                 *)
(***************************************************************************)
Cancelled(f, d) == Own(d, "scans", f.t, f.x.job) /\ d.scans[f.x.job].status = "cancelled"

observeCancel(f, d, at) == IF Cancelled(f, d) THEN Return(f, d, "cancelled", {}) ELSE Go(f, d, at, None)

SaveJob(f, d, status, later) == S!UpdateScanJob(d, f.t, f.x.job, [subnet |-> f.x.subnet, status |-> status, later |-> later])

\* A progress write whose failure is ignored.
Progress(f, d, at) == Go(f, SaveJob(f, d, "scanning", FALSE).db, at, None)

\* RunOnce with one worker.
RunOnce(f, d) ==
  LET a == S!ClaimDueScanJobs(d, 1)
      j == CHOOSE i \in a.val : TRUE
  IN IF a.val = {} THEN Return(f, d, "ok", {})
     ELSE [Go(f, a.db, "claimed", [job |-> j, subnet |-> d.scans[j].subnet, ran |-> FALSE, cfg |-> DefaultARPSettings, obs |-> <<>>])
             EXCEPT !.f.t = d.scans[j].tenant]

loadSubnet(f, d) ==
  LET a == S!GetSubnet(d, f.t, f.x.subnet)
  IN IF a.err # "ok" THEN Go(f, d, "retry", None)
     ELSE Go(f, d, IF f.in.snmp THEN "index" ELSE "targets", [block |-> cidrOf(a.val)])

\* The nearest subnet with credentials, its sealed row, the ARP settings.
effectiveCreds(f, d) ==
  CASE f.at = "index" -> LET src == Effective(d, f.t, f.x.subnet) IN Go(f, d, IF src = 0 THEN "targets" ELSE "creds", [src |-> src])
    [] f.at = "creds" -> Go(f, d, IF Own(d, "snmp", f.t, f.x.src) /\ f.in.opens THEN "arpcfg" ELSE "targets", None)
    [] f.at = "arpcfg" -> Go(f, d, "targets", [ran |-> TRUE, cfg |-> S!GetARPSettings(d, f.t)])

enumerateTargets(f) ==
  LET hosts == Ascending(hostRange(f.x.block))
  IN ToSet(SubSeq(hosts, 1, IF Len(hosts) > MaxHosts THEN MaxHosts ELSE Len(hosts)))

Sweep(f, d) ==
  LET alive == enumerateTargets(f) \cap f.in.alive
  IN IF f.in.sweep = "error" THEN Go(f, d, "retry", None)
     ELSE Go(f, d, "swept", [todo |-> Ascending(alive), devs |-> Ascending(alive \cap DOMAIN f.in.devices), alive |-> alive])

AfterHost(f, todo) == IF todo # <<>> THEN "host" ELSE IF f.x.ran /\ f.x.alive # {} THEN "device" ELSE "finish"

\* Every host that answers is upserted, looked up and announced.
recordHost(f, d, n) ==
  LET ip == Head(f.x.todo)
      a == S!UpsertAddressByAddress(d, f.t, n, HostRow(f.x.subnet, ip, f.in.revname))
      found == Where(d, "addrs", f.t, "addr" :> ip)
  IN CASE f.at = "host" -> IF a.err = "ok" THEN Go(f, a.db, "find", None) ELSE Go(f, d, "retry", None)
       [] f.at = "find" -> Go(f, d, "publish", [id |-> IF found = {} THEN 0 ELSE CHOOSE i \in found : TRUE])
       [] f.at = "publish" -> [Go(f, d, AfterHost(f, Tail(f.x.todo)), [todo |-> Tail(f.x.todo)]) EXCEPT
                                 !.fx = <<[kind |-> "publish", what |-> "scanned", id |-> f.x.id, addr |-> ip]>>]

deviceName(dev, ip) == IF dev.name # <<>> THEN dev.name ELSE <<"device", ip>>

\* Only what the rest of the job uses is kept.
Finish(f, d) == Go([f EXCEPT !.x = Columns(@, {"job", "subnet", "alive"})], d, "finish", None)

\* What cannot be stored ends a device; its ARP table is not used then.
SkipDevice(f, d) == Go(f, d, "device", [devs |-> Tail(f.x.devs)])

\* The devices are stored one after the other, whatever the order of their answers.
persistDevice(f, d, n) ==
  LET ip == Head(f.x.devs)
      dev == f.in.devices[ip]
      name == deviceName(dev, ip)
      a == S!UpsertDeviceByName(d, f.t, n, [name |-> name, type |-> dev.type, mgmt |-> ip, bmc |-> "", location |-> 0])
      nic == Head(f.x.ifs)
      b == S!UpsertInterfaceByName(d, f.t, n, [device |-> f.x.dev, name |-> nic.name, mac |-> nic.mac, rdev |-> 0, rport |-> 0, lsrc |-> NoText])
      id(e, tab, key) == CHOOSE i \in Where(e, tab, f.t, key) : TRUE
      c == S!ReplaceInterfaceLinks(d, f.t, f.x.iface, nic.links)
      read == [k \in DOMAIN dev.arp |-> [dev |-> f.x.dev, ip |-> dev.arp[k][1], mac |-> dev.arp[k][2]]]
  IN CASE f.at = "device" /\ f.x.devs = <<>> -> IF f.x.cfg.enabled THEN Go(f, d, "arpSubnets", None) ELSE Finish(f, d)
       [] f.at = "device" /\ f.x.devs # <<>> ->
            IF a.err # "ok" THEN SkipDevice(f, d) ELSE Go(f, a.db, "iface", [dev |-> id(a.db, "devices", "name" :> name), ifs |-> dev.ifaces])
       [] f.at = "iface" /\ f.x.ifs = <<>> -> Go(f, d, "device", [devs |-> Tail(f.x.devs), obs |-> f.x.obs \o read])
       [] f.at = "iface" /\ f.x.ifs # <<>> ->
            IF b.err # "ok" THEN SkipDevice(f, d)
            ELSE IF nic.links = <<>> THEN Go(f, b.db, "iface", [ifs |-> Tail(f.x.ifs)])
            ELSE Go(f, b.db, "links", [iface |-> id(b.db, "ifaces", [device |-> f.x.dev, name |-> nic.name])])
       [] f.at = "links" -> IF c.err # "ok" THEN SkipDevice(f, d) ELSE Go(f, c.db, "iface", [ifs |-> Tail(f.x.ifs)])

ArpPlan(f, n) == Build(f.x.obs, f.x.subs, f.x.addrs, f.x.network, f.x.cfg, n)

\* A failure of this phase does not fail the scan.
arpPhase(f, d, n) ==
  CASE f.at = "arpSubnets" -> Go(f, d, "arpAddrs", [subs |-> S!AllSubnetCIDRs(d, f.t)])
    [] f.at = "arpAddrs" -> Go(f, d, "arpMacs", [addrs |-> [i \in Where(d, "addrs", f.t, None) |-> Columns(d.addrs[i], {"addr", "subnet", "mac", "msrc", "mconf"})]])
    [] f.at = "arpMacs" -> Go(f, d, "arpApply", [network |-> S!NetworkMACs(d, f.t)])
    [] f.at = "arpApply" -> Finish(f, S!ApplyARP(d, f.t, ArpPlan(f, n)).db)

complete(f, d) ==
  LET a == SaveJob(f, d, "completed", FALSE)
      next == IF f.in.snmp THEN Go(f, d, "linkData", None) ELSE Return(f, d, "ok", {})
  IN CASE f.at = "complete" -> IF a.err = "ok" THEN Go(f, a.db, "announce", None) ELSE Return(f, d, a.err, {})
       [] f.at = "announce" -> [next EXCEPT !.fx = <<[kind |-> "publish", what |-> "scan", id |-> f.x.job, addr |-> 0]>>]

\* The error of a correlation is logged only.
Correlate(f, d) ==
  LET a == SetAll(d, f.t, "interface", f.x.plan.nics)
      b == SetAll(d, f.t, "address", f.x.plan.addrs)
  IN CASE f.at = "linkData" -> Go(f, d, "linkNics", [plan |-> Correlation(d, f.t, f.in.stale)])
       [] f.at = "linkNics" -> IF a.err = "ok" THEN Go(f, a.db, "linkAddrs", None) ELSE Return(f, d, "ok", {})
       [] f.at = "linkAddrs" -> Return(f, b.db, "ok", {})

\* f.in.last: the job has no retry left.
retryOrFail(f, d) ==
  CASE f.at = "retry" -> observeCancel(f, d, "giveup")
    [] f.at = "giveup" -> Return(f, SaveJob(f, d, IF f.in.last THEN "failed" ELSE "pending", ~f.in.last).db, "retry", {})

processJob(f, d, n) ==
  CASE f.at = "begin" -> RunOnce(f, d)
    [] f.at = "claimed" -> observeCancel(f, d, "subnet")
    [] f.at = "subnet" -> loadSubnet(f, d)
    [] f.at \in {"index", "creds", "arpcfg"} -> effectiveCreds(f, d)
    [] f.at = "targets" -> IF usableHosts(f.x.block) > MaxHostEnumerate THEN Go(f, d, "retry", None) ELSE observeCancel(f, d, "sweeping")
    [] f.at = "sweeping" -> Progress(f, d, "sweep")
    [] f.at = "sweep" -> Sweep(f, d)
    [] f.at = "swept" -> observeCancel(f, d, "progress")
    [] f.at = "progress" -> Progress(f, d, AfterHost(f, f.x.todo))
    [] f.at \in {"host", "find", "publish"} -> recordHost(f, d, n)
    [] f.at \in {"device", "iface", "links"} -> persistDevice(f, d, n)
    [] f.at \in {"arpSubnets", "arpAddrs", "arpMacs", "arpApply"} -> arpPhase(f, d, n)
    [] f.at = "finish" -> observeCancel(f, d, "complete")
    [] f.at \in {"complete", "announce"} -> complete(f, d)
    [] f.at \in {"linkData", "linkNics", "linkAddrs"} -> Correlate(f, d)
    [] f.at \in {"retry", "giveup"} -> retryOrFail(f, d)

(***************************************************************************)
(* The scheduler's task: StartScan for every target, one after the other.  *)
(* f.x.at is the point its call of StartScan has reached.                  *)
(***************************************************************************)
NextTarget(f, d, failed) ==
  LET rest == Tail(f.x.todo)
      lost == f.x.failed \/ failed
  IN IF rest # <<>> THEN Go(f, d, "queue", [todo |-> rest, failed |-> lost, at |-> "begin"])
     ELSE Return(f, d, IF lost THEN "retry" ELSE "ok", {})

queueScan(f, d, n) ==
  LET o == StartScan([f EXCEPT !.at = f.x.at, !.in.id = Head(f.x.todo)], d, n)
  IN CASE ~Finished(o.f) -> [Go(f, o.db, "queue", [at |-> o.f.at] @@ o.f.x) EXCEPT !.fx = o.fx]
       [] Finished(o.f) /\ o.f.err = "ok" -> [NextTarget(f, o.db, FALSE) EXCEPT !.fx = <<Effect("audit", "scan", f.x.id)>>]
       [] o.f.err \in {"activescan", "ipv6", "toolarge"} -> NextTarget(f, d, FALSE)
       [] o.f.err = "notfound" /\ f.in.target # "all" -> Return(f, d, "permanent", {})
       [] OTHER -> NextTarget(f, d, TRUE)

\* f.in.target: one subnet by id or by block, all of them, or a payload to refuse.
ScanNetwork(f, d, n) ==
  LET subs == S!AllSubnetCIDRs(d, f.t)
      named == {i \in DOMAIN subs : cidrOf(subs[i]) = f.in.block}
      start(todo) == Go(f, d, "queue", [todo |-> todo, failed |-> FALSE, at |-> "begin"])
  IN CASE f.at = "queue" -> queueScan(f, d, n)
       [] f.at = "begin" /\ f.in.target = "id" -> start(<<f.in.id>>)
       [] f.at = "begin" /\ f.in.target = "cidr" -> IF named = {} THEN Return(f, d, "permanent", {}) ELSE start(<<Min(named)>>)
       [] f.at = "begin" /\ f.in.target = "all" -> IF subs = None THEN Return(f, d, "ok", {}) ELSE start(Ascending(DOMAIN subs))
       [] f.at = "begin" /\ f.in.target = "bad" -> Return(f, d, "permanent", {})

(***************************************************************************)
(* What runs without a request, and what it does when a store call fails.  *)
(***************************************************************************)
Work(f, d, n) == IF f.op[2] = "scan" THEN processJob(f, d, n) ELSE ScanNetwork(f, d, n)

\* The points that make no store call.
Offline(f) ==
  \/ f.at \in {"sweep", "publish", "announce"}
  \/ f.at = "device" /\ f.x.devs = <<>>
  \/ f.at = "iface" /\ f.x.ifs = <<>>
  \/ f.op[2] = "task" /\ f.at = "begin" /\ f.in.target \in {"id", "bad"}

\* A job whose subnet, credentials or hosts cannot be read or written is tried again;
\* a cancel that cannot be read is none; a device or the ARP phase is given up; the
\* other failures are only logged.
Fails(f, d) ==
  CASE f.op[2] = "task" -> IF f.at = "begin" THEN Return(f, d, "retry", {}) ELSE NextTarget(f, d, TRUE)
    [] f.op[2] = "scan" /\ f.at = "claimed" -> Go(f, d, "subnet", None)
    [] f.op[2] = "scan" /\ f.at \in {"subnet", "index", "host"} -> Go(f, d, "retry", None)
    [] f.op[2] = "scan" /\ f.at = "creds" -> Go(f, d, "targets", None)
    [] f.op[2] = "scan" /\ f.at = "arpcfg" -> Go(f, d, "targets", [ran |-> TRUE, cfg |-> [DefaultARPSettings EXCEPT !.enabled = FALSE]])
    [] f.op[2] = "scan" /\ f.at = "targets" -> Go(f, d, "sweeping", None)
    [] f.op[2] = "scan" /\ f.at = "sweeping" -> Go(f, d, "sweep", None)
    [] f.op[2] = "scan" /\ f.at = "swept" -> Go(f, d, "progress", None)
    [] f.op[2] = "scan" /\ f.at = "progress" -> Go(f, d, AfterHost(f, f.x.todo), None)
    [] f.op[2] = "scan" /\ f.at = "find" -> Go(f, d, "publish", [id |-> 0])
    [] f.op[2] = "scan" /\ f.at \in {"device", "iface", "links"} -> SkipDevice(f, d)
    [] f.op[2] = "scan" /\ f.at \in {"arpSubnets", "arpAddrs", "arpMacs", "arpApply"} -> Finish(f, d)
    [] f.op[2] = "scan" /\ f.at = "finish" -> Go(f, d, "complete", None)
    [] f.op[2] = "scan" /\ f.at = "retry" -> Go(f, d, "giveup", None)
    [] f.op[2] = "scan" /\ f.at \in {"begin", "complete", "giveup", "linkData", "linkNics", "linkAddrs"} -> Return(f, d, "error", {})

=============================================================================
