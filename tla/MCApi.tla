------------------------------- MODULE MCApi -------------------------------
(***************************************************************************)
(* Scenes for Api: one small tenant with a row of every kind, a second     *)
(* tenant, and callers that make every request of both APIs alone, pairs   *)
(* of writes concurrently, three allocations at once, and writes while     *)
(* browsers connect.                                                       *)
(***************************************************************************)
EXTENDS Api

Row(t, r) == [tenant |-> t] @@ r

Loc(name, code, parent, path) == [name |-> name, code |-> code, parent |-> parent, path |-> path]

Vlan(name, num) == [name |-> name, num |-> num, location |-> 0]

Subnet(name, base, bits, parent) ==
  [name |-> name, v |-> 4, base |-> base, bits |-> bits, gw |-> 0, parent |-> parent, vlan |-> 0, location |-> 0]

Device(name, bmc, mgmt) == [name |-> name, type |-> "server", bmc |-> bmc, mgmt |-> mgmt, location |-> 0]

Addr(addr, sub, dev) == [HostRow(sub, addr, "") EXCEPT !.device = dev]

\* An interface as a client sends it; a link it names is entered by hand.
Nic(name, dev, port) == [device |-> 0, name |-> name, mac |-> "", rdev |-> dev, rport |-> port, lsrc |-> IF port = 0 THEN "" ELSE "manual"]

Member(v) == [type |-> "range", lo |-> v, hi |-> v + 1]

Seed ==
  [tab \in Tables |->
    CASE tab = "locs" -> 1 :> Row("t1", Loc(<<"a">>, "a", 0, <<"a">>)) @@ 2 :> Row("t1", Loc(<<"b">>, "b", 1, <<"a", "b">>))
                           @@ 12 :> Row("t2", Loc(<<"a">>, "a", 0, <<"a">>))
      [] tab = "vlans" -> 3 :> Row("t1", Vlan(<<"v">>, 1))
      [] tab = "subnets" -> 4 :> Row("t1", [origin |-> "manual"] @@ Subnet(<<"s">>, 8, 3, 0))
                              @@ 5 :> Row("t1", [origin |-> "manual"] @@ Subnet(<<"c">>, 8, 2, 4))
                              @@ 13 :> Row("t2", [origin |-> "manual"] @@ Subnet(<<"s">>, 8, 3, 0))
      [] tab = "devices" -> 6 :> Row("t1", S!FreshDevice("manual") @@ Device(<<"d">>, "k", 20))
      [] tab = "addrs" -> 7 :> Row("t1", S!FreshAddress @@ Addr(9, 5, 6))
      [] tab = "ipGroups" -> 8 :> Row("t1", [name |-> <<"g">>])
      [] tab = "ipMembers" -> 9 :> Row("t1", [group |-> 8, value |-> Member(9), seq |-> 1])
      [] tab = "hostGroups" -> 10 :> Row("t1", [name |-> <<"h">>])
      [] tab = "hostMembers" -> 11 :> Row("t1", [group |-> 10, device |-> 6, seq |-> 1])
      [] tab = "scans" -> 14 :> Row("t1", [subnet |-> 5, status |-> "completed", later |-> FALSE])
      [] tab = "ifaces" -> 15 :> Row("t1", [device |-> 6, name |-> "e0", mac |-> "", report |-> "", rdev |-> 0, rport |-> 0, lsrc |-> ""])
      [] OTHER -> None]

\* A chain of MaxHops locations.
Nested == [Seed EXCEPT !.locs = 16 :> Row("t1", Loc(<<"c">>, "c", 2, <<"a", "b", "c">>)) @@ @]

\* What a file can hold that was put together by hand: 16 below a location there is not.
Dangling == [Seed EXCEPT !.locs = 16 :> Row("t1", Loc(<<"c">>, "c", 99, <<"c">>)) @@ @]

\* What two overlapping moves can leave behind: 1 below 2 below 1, and 16 elsewhere.
Knotted == [Seed EXCEPT !.locs = 1 :> Row("t1", Loc(<<"a">>, "a", 2, <<"a">>)) @@ 16 :> Row("t1", Loc(<<"c">>, "c", 0, <<"c">>)) @@ @]

(***************************************************************************)
(* Requests.                                                               *)
(***************************************************************************)
Input ==
  [auth |-> TRUE, uuid |-> TRUE, decodes |-> TRUE, list |-> "page", mac |-> "", id |-> 0, subnet |-> 0, row |-> None,
   filter |-> None, force |-> FALSE, allowOverlap |-> FALSE, startFrom |-> 0, skip |-> {}, count |-> 1, prefix |-> "",
   alive |-> {}, ping |-> "ok", bits |-> 2, dryRun |-> FALSE, auto |-> FALSE, addr |-> 9, groups |-> {}, pkgs |-> <<>>,
   ref |-> "k2", warden |-> "ok", bmc |-> "ok", verb |-> "on", outcome |-> "ok", audit |-> TRUE, version |-> 2, valid |-> TRUE,
   enabled |-> TRUE, threshold |-> 2, excluded |-> {6}, servers |-> "x", lookup |-> "ok", limited |-> FALSE,
   schema |-> TRUE, mode |-> "skip", backup |-> <<>>, members |-> TRUE, device |-> 6, stamp |-> None]

Http(resource, verb, in) == [t |-> "t1", role |-> "admin", op |-> <<"http", resource, verb>>, in |-> in @@ Input]

Mesh(server, method, in) == [t |-> "t1", role |-> "service", op |-> <<"grpc", server, method>>, in |-> in @@ Input]

Id(i) == [id |-> i]

Body1(i, row) == [id |-> i, row |-> row]

Restore(mode, backup) == Http("backup", "POST import", [mode |-> mode, backup |-> backup])

Restoring == {Restore(mode, BackupOf(Seed, "t1")) : mode \in {"skip", "overwrite"}}

Gets ==
  {Http(r, "GET", [list |-> l]) : r \in {"subnets", "ip-addresses", "devices", "vlans", "ip-scans"}, l \in {"page", "legacy", "bad"}}
    \cup {Http(r, "GET", Id(i)) : r \in {"locations", "ip-groups", "host-groups", "hardware", "snmp", "arp", "bmc"}, i \in {5, 6}}
    \cup {Http(r, "GET {id}", Id(i)) : r \in {"subnets", "ip-addresses", "devices", "vlans", "locations", "ip-groups", "host-groups", "ip-scans"},
                                       i \in {1, 3, 4, 6, 7, 8, 10, 12, 14}}
    \cup {Http(r, "GET", [id |-> i, list |-> l]) : r \in {"ip-groups/{id}/members", "host-groups/{id}/members"}, i \in {8, 10}, l \in {"page", "bad"}}
    \cup {Http("devices/{id}", v, Id(6)) : v \in {"GET addresses", "GET interfaces", "GET packages", "GET host-groups"}}
    \cup {Http("subnets", "GET tree", None), Http("locations", "GET tree", None), Http("subnets", "GET {id}/stats", Id(4)),
          Http("ip-addresses", "GET", [mac |-> "bad"]), Http("ip-addresses", "GET find", None), Http("ip-addresses", "GET find", [addr |-> 30]),
          Http("ip-addresses", "GET suggest", [subnet |-> 5, alive |-> {10}]), Http("ip-addresses", "GET suggest", [subnet |-> 13]),
          Http("vlans", "GET {id}/subnets", Id(3)), Http("ip-groups", "GET check", None), Http("ip-groups", "GET check", [groups |-> {8}, addr |-> 30])}
    \cup {Http("system", v, in) : v \in {"GET health", "GET stats", "GET dns-config"}, in \in {None, [auth |-> FALSE]}}
    \cup {Http("host-sync", v, Id(i)) : v \in {"GET settings", "GET status", "GET device", "GET guests"}, i \in {6, 99}}

Posts ==
  {Http("subnets", "POST", [row |-> r, allowOverlap |-> o, decodes |-> b]) :
      r \in {Subnet(<<"n">>, 16, 3, 0), Subnet(<<"n">>, 12, 2, 4), Subnet(<<"n">>, 8, 1, 5), Subnet(<<"n">>, 0, 4, 0), Subnet(<<"s">>, 16, 2, 0),
             [Subnet(<<"n">>, 12, 2, 4) EXCEPT !.gw = 13], [Subnet(<<"n">>, 12, 2, 4) EXCEPT !.gw = 12], Subnet(<<>>, 12, 2, 0),
             [Subnet(<<"n">>, 12, 2, 4) EXCEPT !.vlan = 99]}, o \in BOOLEAN, b \in BOOLEAN}
    \cup {Http("subnets", "POST {id}/split", [id |-> i, bits |-> b, dryRun |-> y]) : i \in {4, 5, 99}, b \in {1, 2, 3}, y \in BOOLEAN}
    \cup {Http("subnets", "POST {id}/scan", [id |-> i, auto |-> a]) : i \in {4, 5, 99}, a \in BOOLEAN}
    \cup {Http("ip-addresses", "POST", [row |-> r]) :
            r \in {Addr(10, 5, 0), Addr(9, 5, 0), Addr(10, 99, 0), [Addr(10, 5, 6) EXCEPT !.mac = "m", !.status = ""]}}
    \cup {Http("ip-addresses", "POST allocate", [subnet |-> i, startFrom |-> a, skip |-> k]) : i \in {5, 13}, a \in {0, 10}, k \in {{}, {10}}}
    \cup {Http("ip-addresses", "POST bulk-allocate", [subnet |-> 5, count |-> k, prefix |-> "h"]) : k \in {0, 1, 2}}
    \cup {Http("ip-addresses", "POST {id}/ping", [id |-> i, ping |-> p]) : i \in {7, 99}, p \in {"ok", "error"}}
    \cup {Http("devices", "POST", [row |-> r]) : r \in {Device(<<"e">>, "", 0), Device(<<"d">>, "", 0), Device(<<"e">>, "k", 0)}}
    \cup {Http("devices/{id}", "POST interfaces", Body1(i, r)) : i \in {6, 99}, r \in {Nic("e1", 0, 0), Nic("e1", 6, 15)}}
    \cup {Http("devices/{id}", "POST packages/sync", [id |-> i]) : i \in {6, 99}}
    \cup {Http("vlans", "POST", [row |-> r]) : r \in {Vlan(<<"w">>, 2), Vlan(<<"w">>, 1), Vlan(<<"w">>, 5000), Vlan(<<>>, 2)}}
    \cup {Http("locations", "POST", [row |-> r]) : r \in {Loc(<<"c">>, "c", 2, <<>>), Loc(<<"c">>, "c", 99, <<>>), Loc(<<>>, "c", 0, <<>>), Loc(<<"a">>, "c", 0, <<>>)}}
    \cup {Http(r, "POST", [row |-> [name |-> m]]) : r \in {"ip-groups", "host-groups"}, m \in {<<"n">>, <<>>}}
    \cup {Http("ip-groups/{id}/members", "POST", [row |-> [group |-> g, value |-> v, seq |-> 2]]) : g \in {8, 99}, v \in {Member(11), [type |-> "bad"]}}
    \cup {Http("host-groups/{id}/members", "POST", [row |-> [group |-> 10, device |-> x, seq |-> 2]]) : x \in {0, 6, 99}}
    \cup {Http("ip-scans", "POST", Id(4)), Http("ip-scans", "POST", Id(13)), Http("ip-scans", "POST {id}/cancel", Id(14)), Http("ip-scans", "POST {id}/cancel", Id(99))}
    \cup {Http("system", "POST dns-config/test", [addr |-> a, lookup |-> x]) : a \in {0, 9}, x \in {"ok", "error"}}
    \cup {Http("backup", "POST export", None), Http("backup", "POST import", [schema |-> FALSE]), Http("backup", "POST import", None),
          [Restore("skip", BackupOf(Seed, "t1")) EXCEPT !.t = "t2"], Restore("skip", SelectSeq(BackupOf(Knotted, "t1"), LAMBDA it : it.id >= 14)),
          Restore("skip", BackupOf(Dangling, "t1")),
          Http("host-sync", "POST resync", None), Http("host-sync", "POST clear-conflict", Id(7)), Http("host-sync", "POST clear-conflict", Id(99))}
    \cup {Http("snmp", "POST test", [id |-> 5, addr |-> a, limited |-> b]) : a \in {9, 30}, b \in BOOLEAN}
    \cup {[Http("power", v, [verb |-> x, bmc |-> b, warden |-> w, id |-> i]) EXCEPT !.role = r] :
            v \in {"GET", "POST"}, x \in {"on", "bad"}, b \in {"ok", "bmc_unreachable"}, w \in {"ok", "secret_forbidden"}, i \in {6, 99},
            r \in {"user", "platform"}}
    \cup {[Http("power", "POST", [verb |-> x, bmc |-> b, warden |-> w, id |-> 6, audit |-> FALSE]) EXCEPT !.role = "platform"] :
            x \in {"on", "bad"}, b \in {"ok", "bmc_unreachable"}, w \in {"ok", "secret_forbidden"}}
    \cup {[Http("kvm-session", "POST", [verb |-> "kvm", bmc |-> b, id |-> 6, audit |-> a]) EXCEPT !.role = r] :
            b \in {"ok", "bmc_session_limit", "error"}, a \in BOOLEAN, r \in {"user", "admin", "platform"}}

Puts ==
  {Http("subnets", "PUT {id}", Body1(i, r)) : i \in {4, 5, 99}, r \in {Subnet(<<>>, 8, 3, 0), Subnet(<<"n">>, 16, 2, 0), [Subnet(<<"n">>, 0, 0, 0) EXCEPT !.v = 0]}}
    \cup {Http("ip-addresses", "PUT {id}", Body1(i, r)) :
            i \in {7, 99}, r \in {[Addr(0, 0, 0) EXCEPT !.status = "", !.mac = "m"], Addr(10, 5, 6), Addr(10, 99, 0)}}
    \cup {Http("devices", "PUT {id}", Body1(6, r)) : r \in {Device(<<>>, "", 0), Device(<<"e">>, "k", 21), Device(<<"e">>, "other", 0)}}
    \cup {Http("vlans", "PUT {id}", Body1(i, Vlan(<<"w">>, 2))) : i \in {3, 99}}
    \cup {Http("locations", "PUT {id}", Body1(i, r)) : i \in {1, 2}, r \in {Loc(<<"a">>, "a", 2, <<>>), Loc(<<"x">>, "x", 1, <<>>), Loc(<<"x">>, "x", 0, <<>>)}}
    \cup {Http(r, "PUT {id}", Body1(i, [name |-> <<"n">>])) : r \in {"ip-groups", "host-groups"}, i \in {8, 10}}
    \cup {Http("ip-groups/{id}/members", "PUT {mid}", Body1(i, [group |-> 8, value |-> Member(12), seq |-> 3])) : i \in {9, 99}}
    \cup {Http("host-groups/{id}/members", "PUT {mid}", Body1(11, [group |-> 10, device |-> x, seq |-> 3])) : x \in {0, 6}}
    \cup {[Http("system", "PUT dns-config", None) EXCEPT !.role = r] : r \in {"admin", "user"}}
    \cup {Http("host-sync", "PUT settings", [valid |-> v, enabled |-> e]) : v \in BOOLEAN, e \in BOOLEAN}
    \cup {Http("snmp", "PUT", [id |-> i, version |-> v]) : i \in {5, 99}, v \in {2, 9}}
    \cup {Http("arp", "PUT", [threshold |-> x, excluded |-> y]) : x \in {2, 999}, y \in {{}, {6}, {6, 99}}}
    \cup {Http("bmc", "PUT", [id |-> i, ref |-> r, warden |-> w]) : i \in {6, 99}, r \in {"k", "k2", "bad"}, w \in {"ok", "secret_not_found", "warden_unavailable"}}

Removals ==
  {Http(r, "DELETE {id}", [id |-> i, force |-> b]) :
      r \in {"subnets", "ip-addresses", "devices", "vlans", "locations", "ip-groups", "host-groups"}, i \in {1, 2, 3, 4, 5, 6, 7, 8, 10}, b \in BOOLEAN}
    \cup {Http("devices/{id}", "DELETE interfaces/{ifid}", Id(15)), Http("ip-groups/{id}/members", "DELETE {mid}", Id(9)),
          Http("host-groups/{id}/members", "DELETE {mid}", Id(11)), Http("snmp", "DELETE", Id(5)), Http("bmc", "DELETE", Id(6))}

MeshCalls ==
  {Mesh(r, m, Id(i)) : r \in {"Subnet", "IpAddress", "Device", "Vlan", "Location", "IpGroup", "HostGroup", "IpScan"}, m \in {"Get", "List"},
                       i \in {1, 3, 5, 6, 7, 8, 10, 14}}
    \cup {Mesh(r, "Delete", Id(i)) : r \in {"Subnet", "IpAddress", "Device", "Vlan", "Location", "IpGroup", "HostGroup"}, i \in {1, 3, 5, 6, 7, 8, 10}}
    \cup {Mesh("Subnet", m, Body1(5, r)) : m \in {"Create", "Update"}, r \in {Subnet(<<"n">>, 16, 2, 0), Subnet(<<"n">>, 12, 2, 4), Subnet(<<"n">>, 12, 1, 0)}}
    \cup {Mesh("Subnet", m, Id(5)) : m \in {"GetTree", "GetStats", "Scan"}}
    \cup {Mesh("IpAddress", m, Body1(7, Addr(10, 5, 0))) : m \in {"Create", "Update"}}
    \cup {Mesh("IpAddress", "AllocateNext", [subnet |-> 5, stamp |-> s]) : s \in {None, [hostname |-> "h", device |-> 6], [hostname |-> "h", device |-> 99]}}
    \cup {Mesh("IpAddress", m, [subnet |-> 5, id |-> 7]) : m \in {"BulkAllocate", "Find", "Suggest", "Ping"}}
    \cup {Mesh("Device", m, Body1(6, Device(<<"e">>, "", 0))) : m \in {"Create", "Update", "GetAddresses", "GetInterfaces", "ListPackages"}}
    \cup {Mesh("Device", "CreateInterface", Body1(6, Nic("e1", 6, 15))), Mesh("Device", "DeleteInterface", Id(15))}
    \cup {Mesh("Bmc", m, [verb |-> v]) : m \in {"SyncPackages", "Power", "PowerStatus", "StartKvmSession"}, v \in {"on", "bad"}}
    \cup {Mesh("Vlan", m, Body1(3, Vlan(<<"w">>, 2))) : m \in {"Create", "Update", "GetSubnets"}}
    \cup {Mesh("Location", m, Body1(2, Loc(<<"x">>, "x", 1, <<>>))) : m \in {"Create", "Update", "GetTree"}}
    \cup {Mesh("IpGroup", m, Body1(8, [name |-> <<"n">>])) : m \in {"Create", "Update"}}
    \cup {Mesh("IpGroup", "AddMember", [row |-> [group |-> 8, value |-> Member(11), seq |-> 2]])}
    \cup {Mesh("IpMember", m, Body1(i, [group |-> 8, value |-> Member(12), seq |-> 2])) : m \in {"UpdateMember", "RemoveMember", "ListMembers", "CheckIpInGroup"}, i \in {9}}
    \cup {Mesh("HostGroup", m, Body1(10, [name |-> <<"n">>])) : m \in {"Create", "Update"}}
    \cup {Mesh("HostMember", m, [id |-> 10, row |-> [group |-> 10, device |-> 6, seq |-> 2], device |-> x]) :
            m \in {"AddMember", "RemoveMember", "ListMembers", "ListDeviceHostGroups"}, x \in {6, 99}}
    \cup {Mesh("IpScan", "Start", Id(5)), Mesh("IpScan", "Cancel", Id(14))}
    \cup {Mesh("System", m, in) : m \in {"Health", "GetStats", "GetDnsConfig", "UpdateDnsConfig"}, in \in {None, [auth |-> FALSE], [uuid |-> FALSE]}}

\* Writes that touch what another one reads.
Racing ==
  {Http("subnets", "POST", [row |-> Subnet(<<"n">>, 12, 2, 4)]), Http("subnets", "POST", [row |-> Subnet(<<"m">>, 12, 1, 4)]),
   Http("subnets", "POST {id}/split", [id |-> 4, bits |-> 2]), Http("subnets", "POST {id}/scan", Id(5)),
   Http("subnets", "PUT {id}", Body1(5, [Subnet(<<"c">>, 12, 2, 4) EXCEPT !.vlan = 3])),
   Http("ip-addresses", "POST", [row |-> Addr(10, 5, 6)]), Http("ip-addresses", "PUT {id}", Body1(7, Addr(10, 5, 0))),
   Http("devices", "PUT {id}", Body1(6, Device(<<"e">>, "", 0))), Http("bmc", "PUT", Id(6)), Http("bmc", "DELETE", Id(6)),
   Http("power", "POST", Id(6)), Http("devices/{id}", "POST interfaces", Body1(6, Nic("e1", 6, 15))),
   Http("locations", "PUT {id}", Body1(1, Loc(<<"a">>, "a", 2, <<>>))), Http("locations", "PUT {id}", Body1(2, Loc(<<"b">>, "b", 0, <<>>))),
   Http("locations", "POST", [row |-> Loc(<<"c">>, "c", 2, <<>>)]), Http("snmp", "PUT", Id(5)), Http("snmp", "DELETE", Id(5)),
   Http("backup", "POST export", None), Http("host-sync", "PUT settings", [enabled |-> FALSE]), Http("host-sync", "POST resync", None)}
    \cup {Http(k[1], "DELETE {id}", [id |-> k[2], force |-> b]) :
            k \in {<<"subnets", 5>>, <<"ip-addresses", 7>>, <<"devices", 6>>, <<"vlans", 3>>, <<"locations", 2>>}, b \in BOOLEAN}
    \cup {Mesh("IpAddress", "AllocateNext", [subnet |-> 5, stamp |-> [hostname |-> "h", device |-> 6]]), Mesh("HostMember", "RemoveMember", Id(10))}

\* The child subnet has two hosts, one of them taken.
Filling == {Http("ip-addresses", "POST bulk-allocate", [subnet |-> 5, count |-> 2])}

Allocating == Filling \cup {Http("ip-addresses", "POST allocate", [subnet |-> 5])}

Disturbing == {Http("ip-addresses", "DELETE {id}", Id(i)) : i \in {7, 16}} \cup {Mesh("IpAddress", "AllocateNext", [subnet |-> 5])}

Tangled ==
  {Http("locations", "PUT {id}", Body1(16, Loc(<<"c">>, "c", 1, <<>>))), Http("locations", "PUT {id}", Body1(1, Loc(<<"a">>, "a", 0, <<>>))),
   Http("locations", "GET tree", None), Mesh("Location", "GetTree", None)}

\* Locations go one level below what the cycle check walks, and up and down.
Deep ==
  {Http("locations", "POST", [row |-> Loc(<<"d">>, "d", 16, <<>>)])}
    \cup {Http("locations", "PUT {id}", Body1(i, Loc(<<"m">>, "m", p, <<>>))) : i \in {1, 2}, p \in {0, 16, 17}}

Announcing == {Http("ip-addresses", "PUT {id}", Body1(7, Addr(0, 0, 0)))}

(***************************************************************************)
(* Scans.  Two switches, a host that reports itself (22) with interface 26 *)
(* and a guest, credentials on the outer subnet, and due jobs.             *)
(***************************************************************************)
Iface(dev, name, mac, report) == [device |-> dev, name |-> name, mac |-> mac, report |-> report, rdev |-> 0, rport |-> 0, lsrc |-> ""]

Switch(name) == [S!FreshDevice("scan") EXCEPT !.report = ""] @@ [Device(name, "", 0) EXCEPT !.type = "switch"]

Lab(jobs) ==
  [Seed EXCEPT
    !.devices = 20 :> Row("t1", Switch(<<"sw1">>)) @@ 21 :> Row("t1", Switch(<<"sw2">>))
                  @@ 22 :> Row("t1", [os |-> "x"] @@ S!FreshDevice("host_report") @@ Device(<<"h">>, "", 0)) @@ @,
    !.ifaces = 23 :> Row("t1", Iface(20, "p1", "s1", "")) @@ 24 :> Row("t1", Iface(20, "p2", "s2", ""))
                 @@ 25 :> Row("t1", Iface(21, "q1", "s3", "")) @@ 26 :> Row("t1", Iface(22, "e0", "ma", "reported")) @@ @,
    !.guests = 27 :> Row("t1", [device |-> 22, ref |-> "g", mac |-> "mg", guest |-> 0]),
    !.addrs = 17 :> Row("t1", S!FreshAddress @@ [Addr(12, 4, 0) EXCEPT !.mac = "old", !.msrc = "arp"])
                @@ 18 :> Row("t1", S!FreshAddress @@ [Addr(13, 4, 0) EXCEPT !.mac = "set", !.msrc = "manual"]) @@ @,
    !.snmp = 4 :> Row("t1", [subnet |-> 4, version |-> 2]),
    !.arp = "t1" :> Row("t1", [enabled |-> TRUE, threshold |-> 2, excluded |-> {}]),
    !.scans = [j \in DOMAIN jobs |-> Row("t1", [subnet |-> jobs[j], status |-> "pending", later |-> FALSE])] @@ @]

Learned(mac) == <<"snmp_fdb", [sys |-> <<>>, port |-> mac]>>

Neighbour(sys, port) == <<"lldp", [sys |-> sys, port |-> port]>>

Found(name, type, ifaces, arp) == [name |-> name, type |-> type, ifaces |-> ifaces, arp |-> arp]

Port(name, mac, links) == [name |-> name, mac |-> mac, links |-> links]

\* What may answer at 9 and 10: switches, among them an uplink, a host's own agent,
\* one without a name; ARP entries that fill, change, contradict and create, of a
\* proxy, of a switch, outside every subnet.
Tables1 == <<<<9, "m">>, <<10, "ma">>, <<12, "mb">>, <<13, "mb">>, <<14, "mg">>, <<15, "s1">>, <<0, "mb">>, <<40, "mc">>>>

Proxied == <<<<9, "px">>, <<12, "px">>, <<14, "px">>, <<10, "multicast">>, <<14, "mc">>, <<14, "md">>>>

Cabled ==
  9 :> Found(<<"sw1">>, "switch", <<Port("p1", "s1", <<Learned("ma"), Learned("mg")>>), Port("p2", "s2", <<Learned("s3"), Learned("mb")>>)>>, Tables1)
    @@ 10 :> Found(<<"sw2">>, "switch", <<Port("q1", "s3", <<Learned("s2"), Neighbour(<<"h">>, "e0")>>)>>, <<<<12, "mc">>>>)

Recabled ==
  9 :> Found(<<"sw1">>, "switch", <<Port("p1", "s1", <<Learned("m")>>), Port("p2", "s2", <<Neighbour(<<"h">>, "ma"), Neighbour(<<"sw2">>, "q1")>>)>>, Proxied)
    @@ 10 :> Found(<<>>, "router", <<Port("r", "mr", <<>>)>>, Tables1)

OwnAgent ==
  9 :> Found(<<"h">>, "server", <<Port("e0", "ma", <<>>)>>, <<>>)
    @@ 10 :> Found(<<"sw2">>, "switch", <<Port("q1", "s3", <<Learned("ma"), Learned("ma")>>)>>, Tables1)

Answers == {None, Cabled, Recabled, OwnAgent}

NoAnswer == [snmp |-> TRUE, opens |-> TRUE, sweep |-> "ok", alive |-> {9, 10}, revname |-> "", devices |-> None, stale |-> "none",
             last |-> FALSE, target |-> "all", block |-> Block(4, 8, 2)]

Job(kind, name, in) == [t |-> "t1", role |-> "admin", op |-> <<"job", kind, name>>, in |-> in @@ NoAnswer @@ Input]

Scans == {Job("scan", "run", [devices |-> a]) : a \in Answers}

OddScans ==
  {Job("scan", "run", [snmp |-> b, opens |-> FALSE, revname |-> "n"]) : b \in BOOLEAN}
    \cup {Job("scan", "run", [sweep |-> "error", last |-> b]) : b \in BOOLEAN}
    \cup {Job("scan", "run", [devices |-> a, alive |-> {9, 11}, stale |-> x]) : a \in Answers, x \in {"secondary", "all"}}
    \cup {Job("scan", "run", [alive |-> {}])}

Meddling ==
  {Http("ip-addresses", "PUT {id}", Body1(i, [Addr(0, 0, 0) EXCEPT !.mac = "new"])) : i \in {7, 17}}
    \cup {Http("ip-addresses", "DELETE {id}", Id(i)) : i \in {7, 17}}
    \cup {Http("devices", "DELETE {id}", [id |-> i, force |-> TRUE]) : i \in {20, 22}}
    \cup {Http("devices/{id}", "DELETE interfaces/{ifid}", Id(i)) : i \in {23, 26}}
    \cup {Http("subnets", "DELETE {id}", [id |-> i, force |-> TRUE]) : i \in {4, 5}}
    \cup {Http("ip-scans", "POST {id}/cancel", Id(28)), Http("arp", "PUT", [excluded |-> {6}]), Http("arp", "PUT", [enabled |-> FALSE]),
          Http("devices/{id}", "POST interfaces", Body1(22, Nic("e1", 20, 23))),
          Http("ip-addresses", "POST", [row |-> Addr(14, 4, 0)]), Http("snmp", "DELETE", Id(4)), Http("subnets", "POST {id}/scan", Id(5))}

Tasks ==
  {Job("task", "scan-network", [target |-> x, auto |-> b]) : x \in {"all", "bad"}, b \in BOOLEAN}
    \cup {Job("task", "scan-network", [target |-> "id", id |-> i]) : i \in {5, 99}}
    \cup {Job("task", "scan-network", [target |-> "cidr", block |-> Block(4, 8, b)]) : b \in {1, 2}}

MCMenu(name) ==
  CASE name = "every" -> Restoring \cup Gets \cup Posts \cup Puts \cup Removals \cup MeshCalls
    [] name = "writes" -> Posts \cup Puts
    [] name = "racing" -> Racing
    [] name = "filling" -> Filling
    [] name = "allocating" -> Allocating
    [] name = "disturbing" -> Disturbing
    [] name = "restoring" -> Restoring
    [] name = "tangled" -> Tangled
    [] name = "deep" -> Deep
    [] name = "announcing" -> Announcing
    [] name = "scans" -> Scans
    [] name = "odd scans" -> OddScans
    [] name = "one scan" -> {Job("scan", "run", [devices |-> Cabled])}
    [] name = "other scans" -> {Job("scan", "run", [devices |-> a]) : a \in {Recabled, OwnAgent}}
    [] name = "meddling" -> Meddling
    [] name = "tasks" -> Tasks

Scene(d, plan, faults, posts, watchers) ==
  [db |-> d, born |-> 1 + Max(UNION {DOMAIN d[tab] : tab \in IdTables}), plan |-> [c \in Callers |-> IF c \in DOMAIN plan THEN plan[c] ELSE <<>>],
   faults |-> faults, posts |-> posts, conns |-> watchers]

MCAudiences == {Users, {"u1"}}

Tour == Scene(Seed, <<<<"every">>>>, 0, 0, {})

Faulty == Scene(Seed, <<<<"writes">>>>, 1, 0, {})

Race == Scene(Seed, <<<<"racing">>, <<"racing">>>>, 0, 0, {})

Allocation == Scene(Seed, <<<<"filling">>, <<"allocating">>, <<"disturbing">>>>, 0, 0, {})

Watched ==
  {Scene(Seed, <<>>, 0, 3, {"s1"}), Scene(Seed, <<>>, 0, 1, {"s1", "s2"}), Scene(Seed, <<<<"announcing">>>>, 1, 1, {"s1"})}

Tangle == Scene(Knotted, <<<<"tangled">>, <<"tangled">>>>, 0, 0, {})

Deepening == Scene(Nested, <<<<"deep", "deep", "deep">>>>, 0, 0, {})

\* The reported interface was created by a client, with a link to q1 entered by hand.
Patched(d) == [d EXCEPT !.ifaces[26].rdev = 21, !.ifaces[26].rport = 25, !.ifaces[26].lsrc = "manual"]

\* Scans alone, several after one another, two at once, against other writes and
\* with a failing store; tasks.
Scanned ==
  {Scene(Lab(28 :> 5 @@ 29 :> 5), <<<<"scans", "odd scans">>>>, 0, 0, {}), Scene(Lab(28 :> 4), <<<<"odd scans">>>>, 0, 0, {}),
   Scene(Patched(Lab(28 :> 5 @@ 29 :> 5)), <<<<"odd scans", "one scan">>>>, 0, 0, {}),
   Scene(Lab(28 :> 5), <<<<"scans">>, <<"meddling">>>>, 0, 0, {}), Scene(Lab(28 :> 5), <<<<"scans">>>>, 1, 0, {}),
   Scene(Lab(28 :> 5 @@ 29 :> 5), <<<<"one scan">>, <<"other scans">>>>, 0, 0, {})}

Scheduled == {Scene(Lab(None), <<<<"tasks", "tasks">>>>, 1, 0, {}), Scene(Lab(None), <<<<"tasks">>, <<"meddling">>>>, 0, 0, {})}

MCScenes == {Tangle, Deepening, Tour, Faulty, Race, Allocation} \cup Watched \cup Scanned \cup Scheduled

\* The scenes of the two disagreements.
MCRestore == {Scene(Seed, <<<<"restoring">>>>, 0, 0, {})}

MCReplay == {Scene(Seed, <<>>, 0, 3, {"s1"})}

=============================================================================
