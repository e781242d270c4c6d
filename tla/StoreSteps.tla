----------------------------- MODULE StoreSteps -----------------------------
(***************************************************************************)
(* What every call of internal/memstore keeps true of its maps: rows have  *)
(* their tenant and their reference columns, and a reference is null or    *)
(* the id of a row of the same tenant.                                     *)
(***************************************************************************)
EXTENDS MemStore, TLAPS

RowTables == Tables \ {"links", "pkgs"}

\* The references that are a column of a stored row.
Kept == {r \in Refs : r.from \notin {"links", "pkgs", "hostLinks"}}

\* DeleteDevice and DeleteInterface do not look at the link columns of addresses.
Sure(r) == ~DeleteLinked \/ r.col \notin {"mdev", "lswitch", "lport"}

\* Null, or a row of tenant t.
Target(m, tab, t, v) == v = 0 \/ (v \in DOMAIN m[tab] /\ m[tab][v].tenant = t)

Keyed(tab, k, row) ==
  /\ tab \in {"devState", "hardware"} => row.device = k
  /\ tab = "snmp" => row.subnet = k
  /\ tab = "hsSettings" => row.tenant = k
  /\ tab = "hostLinks" => k = <<k[1], k[2]>>
  /\ tab \in IdTables => k \in 1 .. born[tab] + 1

\* The port of an address's link is a port of the switch of the link.
LinkAgrees(m, row) == row.lport # 0 => row.lswitch = m.ifaces[row.lport].device

RowOK(m, tab, k, row) ==
  /\ "tenant" \in DOMAIN row /\ row.tenant \in Tenants
  /\ \A r \in Kept : r.from = tab => r.col \in DOMAIN row /\ (Sure(r) => Target(m, r.to, row.tenant, row[r.col]))
  /\ Keyed(tab, k, row)
  /\ tab = "addrs" /\ ~DeleteLinked => LinkAgrees(m, row)

SlicesOK(m) ==
  /\ DOMAIN m.links \subseteq DOMAIN m.ifaces /\ DOMAIN m.pkgs \subseteq DOMAIN m.devices
  /\ \A tab \in {"links", "pkgs"} : \A k \in DOMAIN m[tab] : \A x \in Range(m[tab][k]) : x.tenant \in Tenants

Good(m) ==
  /\ DOMAIN m = Tables
  /\ \A tab \in RowTables : \A k \in DOMAIN m[tab] : RowOK(m, tab, k, m[tab][k])
  /\ SlicesOK(m)

Referred == {"locs", "vlans", "subnets", "devices", "ifaces", "ipGroups", "hostGroups"}

\* What other rows rely on in a row.
Relied(tab, old, new) ==
  (tab \in Referred => new.tenant = old.tenant) /\ (tab = "ifaces" => new.device = old.device)

(***************************************************************************)
(* The schema, table by table.                                             *)
(***************************************************************************)
LEMMA KeptTables == \A r \in Kept : r.from \in RowTables /\ r.to \in RowTables
BY DEF Kept, Refs, BaseRefs, HostSyncRefs, LinkRefs, Ref, RowTables, Tables

\* The columns of each table that refer to others.
LEMMA RefsFrom ==
  \A r \in Kept :
    /\ r.from = "locs" => r.col = "parent" /\ r.to = "locs"
    /\ r.from = "vlans" => r.col = "location" /\ r.to = "locs"
    /\ r.from = "subnets" => \/ r.col = "vlan" /\ r.to = "vlans"
                             \/ r.col = "parent" /\ r.to = "subnets"
                             \/ r.col = "location" /\ r.to = "locs"
    /\ r.from \in {"snmp", "scans"} => r.col = "subnet" /\ r.to = "subnets"
    /\ r.from = "devices" => (r.col = "location" /\ r.to = "locs") \/ (r.col = "hyper" /\ r.to = "devices")
    /\ r.from \in {"ifaces", "devState", "hardware"} => r.col = "device" /\ r.to = "devices"
    /\ r.from = "guests" => r.col \in {"device", "guest"} /\ r.to = "devices"
    /\ r.from = "ipMembers" => r.col = "group" /\ r.to = "ipGroups"
    /\ r.from = "hostMembers" => (r.col = "group" /\ r.to = "hostGroups") \/ (r.col = "device" /\ r.to = "devices")
    /\ r.from = "addrs" => \/ r.col = "subnet" /\ r.to = "subnets"
                           \/ r.col \in {"device", "mdev", "lswitch"} /\ r.to = "devices"
                           \/ r.col = "lport" /\ r.to = "ifaces"
    /\ r.from \notin {"ipGroups", "hostGroups", "dns", "hsSettings", "arp", "hostLinks"}
<1>1. ASSUME NEW r \in Kept
      PROVE /\ r.from = "locs" => r.col = "parent" /\ r.to = "locs"
            /\ r.from = "vlans" => r.col = "location" /\ r.to = "locs"
            /\ r.from = "subnets" => \/ r.col = "vlan" /\ r.to = "vlans"
                                     \/ r.col = "parent" /\ r.to = "subnets"
                                     \/ r.col = "location" /\ r.to = "locs"
            /\ r.from \in {"snmp", "scans"} => r.col = "subnet" /\ r.to = "subnets"
  BY <1>1 DEF Kept, Refs, BaseRefs, HostSyncRefs, LinkRefs, Ref
<1>2. ASSUME NEW r \in Kept, r.from = "devices"
      PROVE (r.col = "location" /\ r.to = "locs") \/ (r.col = "hyper" /\ r.to = "devices")
  BY <1>2 DEF Kept, Refs, BaseRefs, HostSyncRefs, LinkRefs, Ref
<1>3. ASSUME NEW r \in Kept, r.from \in {"ifaces", "devState", "hardware"}
      PROVE r.col = "device" /\ r.to = "devices"
  BY <1>3 DEF Kept, Refs, BaseRefs, HostSyncRefs, LinkRefs, Ref
<1>5. ASSUME NEW r \in Kept, r.from = "guests"
      PROVE r.col \in {"device", "guest"} /\ r.to = "devices"
  BY <1>5 DEF Kept, Refs, BaseRefs, HostSyncRefs, LinkRefs, Ref
<1>6. ASSUME NEW r \in Kept, r.from = "ipMembers"
      PROVE r.col = "group" /\ r.to = "ipGroups"
  BY <1>6 DEF Kept, Refs, BaseRefs, HostSyncRefs, LinkRefs, Ref
<1>7. ASSUME NEW r \in Kept, r.from = "hostMembers"
      PROVE (r.col = "group" /\ r.to = "hostGroups") \/ (r.col = "device" /\ r.to = "devices")
  BY <1>7 DEF Kept, Refs, BaseRefs, HostSyncRefs, LinkRefs, Ref
<1>8. ASSUME NEW r \in Kept, r.from \in {"ipGroups", "hostGroups", "dns", "hsSettings", "arp", "hostLinks"}
      PROVE FALSE
  BY <1>8 DEF Kept, Refs, BaseRefs, HostSyncRefs, LinkRefs, Ref
<1>4. ASSUME NEW r \in Kept, r.from = "addrs"
      PROVE \/ r.col = "subnet" /\ r.to = "subnets"
            \/ r.col \in {"device", "mdev", "lswitch"} /\ r.to = "devices"
            \/ r.col = "lport" /\ r.to = "ifaces"
  BY <1>4 DEF Kept, Refs, BaseRefs, HostSyncRefs, LinkRefs, Ref
<1> QED BY <1>1, <1>2, <1>3, <1>4, <1>5, <1>6, <1>7, <1>8, ZenonT(30)

\* The tables that refer to each table.
LEMMA RefsTo ==
  \A r \in Kept :
    /\ r.to = "locs" => \/ r.from = "locs" /\ r.col = "parent"
                        \/ r.from \in {"vlans", "subnets", "devices"} /\ r.col = "location"
    /\ r.to = "vlans" => r.from = "subnets" /\ r.col = "vlan"
    /\ r.to = "subnets" => \/ r.from = "subnets" /\ r.col = "parent"
                           \/ r.from \in {"addrs", "scans", "snmp"} /\ r.col = "subnet"
    /\ r.to = "devices" => \/ r.from = "devices" /\ r.col = "hyper"
                           \/ r.from = "addrs" /\ r.col \in {"device", "mdev", "lswitch"}
                           \/ r.from = "guests" /\ r.col \in {"device", "guest"}
                           \/ r.from \in {"ifaces", "devState", "hardware", "hostMembers"} /\ r.col = "device"
    /\ r.to = "ifaces" => r.from = "addrs" /\ r.col = "lport"
    /\ r.to = "ipGroups" => r.from = "ipMembers" /\ r.col = "group"
    /\ r.to = "hostGroups" => r.from = "hostMembers" /\ r.col = "group"
    /\ r.to \in {"locs", "vlans", "subnets", "devices", "ifaces", "ipGroups", "hostGroups"}
<1>1. ASSUME NEW r \in Kept
      PROVE /\ r.to = "locs" => \/ r.from = "locs" /\ r.col = "parent"
                                \/ r.from \in {"vlans", "subnets", "devices"} /\ r.col = "location"
            /\ r.to = "vlans" => r.from = "subnets" /\ r.col = "vlan"
            /\ r.to = "subnets" => \/ r.from = "subnets" /\ r.col = "parent"
                                   \/ r.from \in {"addrs", "scans", "snmp"} /\ r.col = "subnet"
  BY <1>1 DEF Kept, Refs, BaseRefs, HostSyncRefs, LinkRefs, Ref
<1>2. ASSUME NEW r \in Kept, r.to = "devices"
      PROVE \/ r.from = "devices" /\ r.col = "hyper"
            \/ r.from = "addrs" /\ r.col \in {"device", "mdev", "lswitch"}
            \/ r.from = "guests" /\ r.col \in {"device", "guest"}
            \/ r.from \in {"ifaces", "devState", "hardware", "hostMembers"} /\ r.col = "device"
  BY <1>2 DEF Kept, Refs, BaseRefs, HostSyncRefs, LinkRefs, Ref
<1>3. ASSUME NEW r \in Kept
      PROVE /\ r.to = "ifaces" => r.from = "addrs" /\ r.col = "lport"
            /\ r.to = "ipGroups" => r.from = "ipMembers" /\ r.col = "group"
            /\ r.to = "hostGroups" => r.from = "hostMembers" /\ r.col = "group"
            /\ r.to \in {"locs", "vlans", "subnets", "devices", "ifaces", "ipGroups", "hostGroups"}
  BY <1>3 DEF Kept, Refs, BaseRefs, HostSyncRefs, LinkRefs, Ref
<1> QED BY <1>1, <1>2, <1>3, Zenon

LEMMA RowKept ==
  ASSUME NEW m, NEW n, Good(m), NEW tab \in RowTables, NEW k, NEW row, RowOK(m, tab, k, row),
         \A x \in RowTables : \A v \in DOMAIN m[x] : v \in DOMAIN n[x] /\ Relied(x, m[x][v], n[x][v])
  PROVE RowOK(n, tab, k, row)
<1>1. ASSUME NEW r \in Kept, r.from = tab, Sure(r) PROVE Target(n, r.to, row.tenant, row[r.col])
  BY <1>1, KeptTables, RefsTo, Zenon DEF RowOK, Target, Relied, Referred
<1>2. tab = "addrs" /\ ~DeleteLinked => LinkAgrees(n, row)
  <2> SUFFICES ASSUME tab = "addrs", ~DeleteLinked, row.lport # 0 PROVE row.lswitch = n.ifaces[row.lport].device
    BY Zenon DEF LinkAgrees
  <2> DEFINE r == Ref("addrs", "lport", "ifaces", "null")
  <2>1. r \in Kept /\ r.from = "addrs" /\ r.col = "lport" /\ r.to = "ifaces" /\ Sure(r)
    BY Zenon DEF Kept, Refs, LinkRefs, Ref, Sure
  <2> HIDE DEF r
  <2>2. Target(m, "ifaces", row.tenant, row.lport) BY <2>1, Zenon DEF RowOK
  <2>3. row.lport \in DOMAIN m.ifaces BY <2>2, Zenon DEF Target
  <2>4. "ifaces" \in RowTables BY Zenon DEF RowTables, Tables
  <2> QED BY <2>3, <2>4, Zenon DEF RowOK, LinkAgrees, Relied
<1> QED BY <1>1, <1>2, Zenon DEF RowOK

\* A table rewritten row by row, none of its rows gone.
LEMMA Stored ==
  ASSUME NEW m, Good(m), NEW tab \in RowTables, NEW T, DOMAIN m[tab] \subseteq DOMAIN T,
         \A k \in DOMAIN T : (k \in DOMAIN m[tab] /\ T[k] = m[tab][k]) \/ RowOK(m, tab, k, T[k]),
         \A k \in DOMAIN m[tab] : Relied(tab, m[tab][k], T[k])
  PROVE Good([m EXCEPT ![tab] = T])
<1> DEFINE n == [m EXCEPT ![tab] = T]
<1>1. DOMAIN n = Tables /\ n[tab] = T /\ \A x \in Tables \ {tab} : n[x] = m[x]
  BY Zenon DEF Good, RowTables
<1> HIDE DEF n
<1>2. \A x \in RowTables : \A v \in DOMAIN m[x] : v \in DOMAIN n[x] /\ Relied(x, m[x][v], n[x][v])
  BY <1>1, Zenon DEF RowTables, Relied
<1>3. ASSUME NEW x \in RowTables, NEW k \in DOMAIN n[x] PROVE RowOK(m, x, k, n[x][k])
  BY <1>1, <1>3, Zenon DEF Good, RowTables
<1>4. ASSUME NEW x \in RowTables, NEW k \in DOMAIN n[x] PROVE RowOK(n, x, k, n[x][k])
  BY <1>2, <1>3, <1>4, RowKept, Zenon
<1>5. SlicesOK(n)
  <2>1. n["links"] = m["links"] /\ n["pkgs"] = m["pkgs"] BY <1>1, Zenon DEF RowTables, Tables
  <2>2. DOMAIN m["ifaces"] \subseteq DOMAIN n["ifaces"] /\ DOMAIN m["devices"] \subseteq DOMAIN n["devices"]
    BY <1>2, Zenon DEF RowTables, Tables
  <2> QED BY <2>1, <2>2, Zenon DEF Good, SlicesOK
<1>6. Good(n) BY <1>1, <1>4, <1>5, Zenon DEF Good
<1> QED BY <1>6, Zenon DEF n

\* Save: a row that is new, or that keeps what others rely on.
LEMMA SaveOK ==
  ASSUME NEW m, Good(m), NEW tab \in RowTables, NEW i, NEW row, RowOK(m, tab, i, row), NEW c,
         i \in DOMAIN m[tab] => Relied(tab, m[tab][i], row)
  PROVE Good(Save(m, tab, i, row, c).db)
<1> DEFINE T == Put(m[tab], i, row)
<1>0. DOMAIN T = DOMAIN m[tab] \cup {i} /\ \A k \in DOMAIN T : T[k] = IF k = i THEN row ELSE m[tab][k]
  BY Zenon DEF Put
<1> HIDE DEF T
<1>1. /\ DOMAIN m[tab] \subseteq DOMAIN T
      /\ \A k \in DOMAIN T : (k \in DOMAIN m[tab] /\ T[k] = m[tab][k]) \/ RowOK(m, tab, k, T[k])
  BY <1>0, Zenon
<1>2. \A k \in DOMAIN m[tab] : Relied(tab, m[tab][k], T[k])
  BY <1>0, Zenon DEF Relied
<1>3. Good([m EXCEPT ![tab] = T]) BY <1>1, <1>2, Stored, Zenon
<1>4. Save(m, tab, i, row, c).db = m \/ Save(m, tab, i, row, c).db = [m EXCEPT ![tab] = T]
  BY Zenon DEF Save, Err, Ok, Answer, T
<1> QED BY <1>3, <1>4, Zenon

LEMMA CreateOK ==
  ASSUME NEW m, Good(m), NEW tab \in IdTables, NEW i \in 1 .. born[tab] + 1, i \notin DOMAIN m[tab],
         NEW t \in Tenants, NEW row, NEW c, "tenant" \in DOMAIN row, row.tenant = t,
         \A r \in Kept : r.from = tab => r.col \in DOMAIN row /\ Target(m, r.to, t, row[r.col]),
         tab = "addrs" => row.lport = 0
  PROVE Good(Save(m, tab, i, row, c).db)
<1>1. tab \in RowTables /\ tab \notin {"devState", "hardware", "snmp", "hsSettings", "hostLinks"}
  BY Zenon DEF IdTables, RowTables
<1>2. Keyed(tab, i, row) BY <1>1, Zenon DEF Keyed
<1>3. RowOK(m, tab, i, row) BY <1>2, Zenon DEF RowOK, LinkAgrees
<1> QED BY <1>1, <1>3, SaveOK, Zenon

\* Change: columns that others do not rely on, references to the tenant's rows.
LEMMA ChangeOK ==
  ASSUME NEW m, Good(m), NEW tab \in IdTables, NEW i, NEW t, NEW cols, NEW c,
         "tenant" \notin DOMAIN cols, tab = "ifaces" => "device" \notin DOMAIN cols,
         tab = "addrs" => "lswitch" \notin DOMAIN cols /\ "lport" \notin DOMAIN cols,
         \A r \in Kept : r.from = tab /\ r.col \in DOMAIN cols => Target(m, r.to, t, cols[r.col])
  PROVE Good(Change(m, tab, t, i, cols, c).db)
<1>1. CASE ~Own(m, tab, t, i) BY <1>1, Zenon DEF Change, Err, Answer
<1>2. CASE Own(m, tab, t, i)
  <2> DEFINE old == m[tab][i]
             row == cols \uplus old
  <2>1. tab \in RowTables /\ tab \notin {"devState", "hardware", "snmp", "hsSettings", "hostLinks"}
    BY Zenon DEF IdTables, RowTables
  <2>2. RowOK(m, tab, i, old) /\ old.tenant = t /\ i \in DOMAIN m[tab] BY <1>2, <2>1, Zenon DEF Good, Own
  <2>3. DOMAIN row = DOMAIN cols \cup DOMAIN old
        /\ \A x \in DOMAIN row : row[x] = IF x \in DOMAIN cols THEN cols[x] ELSE old[x]
    BY Zenon DEF \uplus
  <2> HIDE DEF row, old
  <2>4. "tenant" \in DOMAIN row /\ row.tenant = t BY <2>2, <2>3, Zenon DEF RowOK
  <2>5. \A r \in Kept : r.from = tab => r.col \in DOMAIN row /\ (Sure(r) => Target(m, r.to, t, row[r.col]))
    BY <2>2, <2>3, Zenon DEF RowOK
  <2>6. Keyed(tab, i, row) BY <2>1, <2>2, Zenon DEF Keyed, RowOK
  <2>7. tab = "addrs" /\ ~DeleteLinked => LinkAgrees(m, row)
    <3> SUFFICES ASSUME tab = "addrs", ~DeleteLinked PROVE LinkAgrees(m, row) OBVIOUS
    <3>1. "lswitch" \in DOMAIN old /\ "lport" \in DOMAIN old
      <4>1. Ref("addrs", "lswitch", "devices", "null") \in Kept /\ Ref("addrs", "lport", "ifaces", "null") \in Kept
        BY Zenon DEF Kept, Refs, LinkRefs, Ref
      <4> QED BY <4>1, <2>2, Zenon DEF RowOK, Ref
    <3>2. row.lswitch = old.lswitch /\ row.lport = old.lport BY <3>1, <2>3, Zenon
    <3> QED BY <3>2, <2>2, Zenon DEF RowOK, LinkAgrees
  <2>8. Relied(tab, old, row)
    <3>1. row.tenant = old.tenant BY <2>2, <2>4, Zenon
    <3>2. ASSUME tab = "ifaces" PROVE row.device = old.device
      <4>1. Ref("ifaces", "device", "devices", "cascade") \in Kept BY Zenon DEF Kept, Refs, BaseRefs, Ref
      <4>2. "device" \in DOMAIN old BY <4>1, <2>2, <3>2, Zenon DEF RowOK, Ref
      <4> QED BY <4>2, <2>3, <3>2, Zenon
    <3> QED BY <3>1, <3>2, Zenon DEF Relied
  <2>9. RowOK(m, tab, i, row) BY <2>2, <2>4, <2>5, <2>6, <2>7, Zenon DEF RowOK
  <2>10. Change(m, tab, t, i, cols, c) = Save(m, tab, i, row, c) BY <1>2, Zenon DEF Change, row, old
  <2> QED BY <2>1, <2>8, <2>9, <2>10, SaveOK, Zenon DEF old
<1> QED BY <1>1, <1>2, Zenon

\* The row keeps its tenant and its references.
Alike(tab, old, new) ==
  /\ "tenant" \in DOMAIN new /\ new.tenant = old.tenant
  /\ \A r \in Kept : r.from = tab => r.col \in DOMAIN new /\ new[r.col] = old[r.col]

LEMMA AlikeRow ==
  ASSUME NEW m, NEW tab, NEW k, NEW old, NEW new, RowOK(m, tab, k, old), Alike(tab, old, new)
  PROVE RowOK(m, tab, k, new) /\ Relied(tab, old, new)
<1>1. /\ Ref("devState", "device", "devices", "cascade") \in Kept /\ Ref("hardware", "device", "devices", "cascade") \in Kept
      /\ Ref("snmp", "subnet", "subnets", "cascade") \in Kept /\ Ref("ifaces", "device", "devices", "cascade") \in Kept
      /\ Ref("addrs", "lswitch", "devices", "null") \in Kept /\ Ref("addrs", "lport", "ifaces", "null") \in Kept
  BY DEF Kept, Refs, BaseRefs, HostSyncRefs, LinkRefs, Ref
<1>2. /\ tab \in {"devState", "hardware", "ifaces"} => new.device = old.device
      /\ tab = "snmp" => new.subnet = old.subnet
      /\ tab = "addrs" => new.lswitch = old.lswitch /\ new.lport = old.lport
  BY <1>1, Zenon DEF Alike, Ref
<1>3. Keyed(tab, k, new) BY <1>2, Zenon DEF Keyed, RowOK, Alike
<1>4. tab = "addrs" /\ ~DeleteLinked => LinkAgrees(m, new) BY <1>2, Zenon DEF RowOK, LinkAgrees
<1>5. Relied(tab, old, new) BY <1>2, Zenon DEF Relied, Alike
<1> QED BY <1>3, <1>4, <1>5, Zenon DEF RowOK, Alike

\* Columns that are no references.
LEMMA AmendOK ==
  ASSUME NEW m, Good(m), NEW tab \in RowTables, NEW T, DOMAIN T = DOMAIN m[tab],
         \A k \in DOMAIN T : T[k] = m[tab][k] \/ Alike(tab, m[tab][k], T[k])
  PROVE Good([m EXCEPT ![tab] = T])
<1>1. \A k \in DOMAIN T : RowOK(m, tab, k, m[tab][k]) BY Zenon DEF Good
<1>2. \A k \in DOMAIN T : T[k] = m[tab][k] \/ (RowOK(m, tab, k, T[k]) /\ Relied(tab, m[tab][k], T[k]))
  BY <1>1, AlikeRow, Zenon
<1>3. \A k \in DOMAIN T : Relied(tab, m[tab][k], T[k]) BY <1>2, Zenon DEF Relied
<1> QED BY <1>2, <1>3, Stored, Zenon

LEMMA PlainColumn ==
  ASSUME NEW m, NEW tab, NEW k, NEW old, RowOK(m, tab, k, old), NEW c, NEW v, c # "tenant",
         \A r \in Kept : r.from = tab => r.col # c
  PROVE Alike(tab, old, [old EXCEPT ![c] = v])
BY Zenon DEF RowOK, Alike

\* The slices of a port and of a device.
LEMMA SlicesSet ==
  ASSUME NEW m, Good(m), NEW tab \in {"links", "pkgs"}, NEW T, NEW n, n = [m EXCEPT ![tab] = T], SlicesOK(n)
  PROVE Good(n)
<1>1. DOMAIN n = Tables /\ \A x \in RowTables : n[x] = m[x] BY Zenon DEF Good, RowTables, Tables
<1>2. \A x \in RowTables : \A v \in DOMAIN m[x] : v \in DOMAIN n[x] /\ Relied(x, m[x][v], n[x][v])
  BY <1>1, Zenon DEF Relied
<1>3. ASSUME NEW x \in RowTables, NEW k \in DOMAIN n[x] PROVE RowOK(n, x, k, n[x][k])
  <2>1. RowOK(m, x, k, n[x][k]) BY <1>1, <1>3, Zenon DEF Good
  <2> QED BY <1>2, <2>1, RowKept, Zenon
<1> QED BY <1>1, <1>3, Zenon DEF Good

LEMMA SliceOK ==
  ASSUME NEW m, Good(m), NEW tab, NEW i, NEW rows,
         (tab = "links" /\ i \in DOMAIN m.ifaces) \/ (tab = "pkgs" /\ i \in DOMAIN m.devices),
         \A x \in Range(rows) : x.tenant \in Tenants
  PROVE Good([m EXCEPT ![tab] = Put(@, i, rows)])
<1> DEFINE P == Put(m[tab], i, rows)
           p == [m EXCEPT ![tab] = P]
<1>1. DOMAIN P = DOMAIN m[tab] \cup {i} /\ \A k \in DOMAIN P : P[k] = IF k = i THEN rows ELSE m[tab][k] BY Zenon DEF Put
<1> HIDE DEF P
<1>2. p[tab] = P /\ \A x \in Tables \ {tab} : p[x] = m[x] BY Zenon DEF Good, Tables
<1> HIDE DEF p
<1>3. SlicesOK(p) BY <1>1, <1>2 DEF SlicesOK, Good, Tables
<1>4. Good(p) BY <1>3, SlicesSet, Zenon DEF p
<1> QED BY <1>4, Zenon DEF p, P

LEMMA DropSliceOK == ASSUME NEW m, Good(m), NEW S PROVE Good([m EXCEPT !.pkgs = Drop(@, S)])
<1> DEFINE D == Drop(m.pkgs, S)
           d == [m EXCEPT !.pkgs = D]
<1>1. DOMAIN D \subseteq DOMAIN m.pkgs /\ \A k \in DOMAIN D : D[k] = m.pkgs[k] BY Zenon DEF Drop
<1> HIDE DEF D
<1>2. d.pkgs = D /\ \A x \in Tables \ {"pkgs"} : d[x] = m[x] BY Zenon DEF Good, Tables
<1> HIDE DEF d
<1>3. SlicesOK(d) BY <1>1, <1>2 DEF SlicesOK, Good, Tables
<1>4. Good(d) BY <1>3, SlicesSet, Zenon DEF d
<1> QED BY <1>4, Zenon DEF d, D

\* Where a delete blanks references instead of deleting rows.
BlankTables == {"locs", "vlans", "subnets", "devices", "addrs", "guests"}

BlankColumns == {"parent", "location", "vlan", "device", "hyper", "guest"}

\* The row as it was, or with one reference blanked.
Lesser(tab, old, new) ==
  \/ new = old
  \/ tab \in BlankTables /\ \E col \in BlankColumns : new = [old EXCEPT ![col] = 0]

Thinner(tab, old, new) == \A k \in DOMAIN new : k \in DOMAIN old /\ Lesser(tab, old[k], new[k])

Thinned(m, n) == DOMAIN n = Tables /\ \A tab \in RowTables : Thinner(tab, m[tab], n[tab])

LEMMA LesserRow ==
  ASSUME NEW tab, NEW old, NEW new, Lesser(tab, old, new)
  PROVE /\ DOMAIN new = DOMAIN old
        /\ \A c \in DOMAIN old : new[c] = old[c] \/ new[c] = 0
        /\ \A c \in {"tenant", "lport", "lswitch"} : c \in DOMAIN old => new[c] = old[c]
        /\ tab \notin BlankTables => new = old
BY Zenon DEF Lesser, BlankColumns

LEMMA LinkColumns ==
  ASSUME NEW m, NEW k, NEW row, RowOK(m, "addrs", k, row)
  PROVE /\ "lswitch" \in DOMAIN row /\ "lport" \in DOMAIN row
        /\ ~DeleteLinked => Target(m, "ifaces", row.tenant, row.lport)
<1>1. Ref("addrs", "lswitch", "devices", "null") \in Kept /\ Ref("addrs", "lport", "ifaces", "null") \in Kept
  BY Zenon DEF Kept, Refs, LinkRefs, Ref
<1>2. ~DeleteLinked => Sure(Ref("addrs", "lport", "ifaces", "null")) BY Zenon DEF Sure
<1> QED BY <1>1, <1>2, Zenon DEF RowOK, Ref

\* Column r of row k still holds what it held, the id of a row of its tenant.
Reaches(m, n, r, k) ==
  LET v == n[r.from][k][r.col]
  IN v # 0 /\ v = m[r.from][k][r.col] /\ v \in DOMAIN m[r.to] /\ m[r.to][v].tenant = m[r.from][k].tenant

\* Rows gone and references to them blanked: what a column still holds must be there.
LEMMA ThinnedOK ==
  ASSUME NEW m, NEW n, Good(m), Thinned(m, n), SlicesOK(n),
         \A r \in Kept : \A k \in DOMAIN n[r.from] :
           Sure(r) /\ Reaches(m, n, r, k) => n[r.from][k][r.col] \in DOMAIN n[r.to]
  PROVE Good(n)
<1> SUFFICES ASSUME NEW tab \in RowTables, NEW k \in DOMAIN n[tab] PROVE RowOK(n, tab, k, n[tab][k])
  BY Zenon DEF Good, Thinned, Thinner
<1> DEFINE old == m[tab][k]
           new == n[tab][k]
<1>1. RowOK(m, tab, k, old) /\ Lesser(tab, old, new) BY Zenon DEF Good, Thinned, Thinner
<1>2. \A x \in RowTables : \A v \in DOMAIN n[x] :
        v \in DOMAIN m[x] /\ n[x][v].tenant = m[x][v].tenant /\ (x = "ifaces" => n[x][v] = m[x][v])
  BY LesserRow DEF Thinned, Thinner, Good, RowOK, BlankTables
<1>3. ASSUME NEW r \in Kept, r.from = tab
      PROVE /\ r.col \in DOMAIN new /\ (Sure(r) => Target(n, r.to, new.tenant, new[r.col]))
            /\ Sure(r) /\ new[r.col] # 0 => new[r.col] \in DOMAIN n[r.to]
  <2>1. r.col \in DOMAIN old /\ (Sure(r) => Target(m, r.to, old.tenant, old[r.col])) /\ new.tenant = old.tenant
    BY <1>1, <1>3, LesserRow, SMTT(30) DEF RowOK
  <2>2. r.col \in DOMAIN new /\ (new[r.col] = old[r.col] \/ new[r.col] = 0) BY <2>1, <1>1, LesserRow
  <2>3. Sure(r) /\ new[r.col] # 0 => new[r.col] \in DOMAIN n[r.to] BY <1>3, <2>1, <2>2, Zenon DEF Reaches, Target
  <2> HIDE DEF new, old
  <2> QED BY <2>1, <2>2, <2>3, <1>2, KeptTables, SMTT(30) DEF Target
<1>4. Keyed(tab, k, new) BY <1>1, LesserRow DEF Keyed, RowOK, BlankTables
<1>5. ASSUME tab = "addrs", ~DeleteLinked PROVE LinkAgrees(n, new)
  <2>1. new.lport = old.lport /\ new.lswitch = old.lswitch /\ LinkAgrees(m, old)
    BY <1>1, <1>5, LinkColumns, LesserRow DEF RowOK
  <2>2. new.lport # 0 => new.lport \in DOMAIN n.ifaces
    <3>1. Ref("addrs", "lport", "ifaces", "null") \in Kept /\ Sure(Ref("addrs", "lport", "ifaces", "null"))
      BY <1>5, Zenon DEF Kept, Refs, LinkRefs, Ref, Sure
    <3> HIDE DEF new
    <3> QED BY <3>1, <1>3, <1>5, Zenon DEF Ref
  <2>3. "ifaces" \in RowTables BY Zenon DEF RowTables, Tables
  <2> HIDE DEF new, old
  <2> QED BY <2>1, <2>2, <2>3, <1>2, Zenon DEF LinkAgrees
<1>6. "tenant" \in DOMAIN new /\ new.tenant = old.tenant /\ old.tenant \in Tenants BY <1>1, LesserRow DEF RowOK
<1> QED BY <1>3, <1>4, <1>5, <1>6, Zenon DEF RowOK

\* No row of tenant t refers to i in this column any more.
Hides(old, new, t, col, i) == \A k \in DOMAIN new : new[k][col] = i => old[k].tenant # t

LEMMA DropRows ==
  ASSUME NEW tab, NEW rows, NEW S, NEW new, new = Drop(rows, S)
  PROVE DOMAIN new = DOMAIN rows \ S /\ Thinner(tab, rows, new) /\ \A k \in DOMAIN rows \ S : new[k] = rows[k]
BY Zenon DEF Drop, Thinner, Lesser

\* Rows dropped, then the tenant's references to i blanked.
LEMMA ClearedRows ==
  ASSUME NEW tab \in BlankTables, NEW col \in BlankColumns,
         NEW rows, NEW kept, NEW t, NEW i, i # 0, DOMAIN kept \subseteq DOMAIN rows,
         \A k \in DOMAIN kept : kept[k] = rows[k] /\ col \in DOMAIN rows[k]
  PROVE /\ DOMAIN Cleared(kept, t, col, i) = DOMAIN kept
        /\ Thinner(tab, rows, Cleared(kept, t, col, i)) /\ Hides(rows, Cleared(kept, t, col, i), t, col, i)
<1> DEFINE new == Cleared(kept, t, col, i)
<1>1. DOMAIN new = DOMAIN kept
      /\ \A k \in DOMAIN kept : new[k] = IF rows[k].tenant = t /\ rows[k][col] = i THEN [rows[k] EXCEPT ![col] = 0] ELSE rows[k]
  BY Zenon DEF Cleared
<1> HIDE DEF new
<1>2. Thinner(tab, rows, new) BY <1>1, Zenon DEF Thinner, Lesser
<1>3. Hides(rows, new, t, col, i) BY <1>1, Zenon DEF Hides
<1> QED BY <1>1, <1>2, <1>3, Zenon DEF new

LEMMA DropClearedRows ==
  ASSUME NEW tab \in BlankTables, NEW rows, NEW t, NEW i, i # 0, \A k \in DOMAIN rows : "parent" \in DOMAIN rows[k],
         NEW new, new = Cleared(Drop(rows, {i}), t, "parent", i)
  PROVE DOMAIN new = DOMAIN rows \ {i} /\ Thinner(tab, rows, new) /\ Hides(rows, new, t, "parent", i)
<1> DEFINE rest == Drop(rows, {i})
<1>0. rest = Drop(rows, {i}) OBVIOUS
<1> HIDE DEF rest
<1>1. DOMAIN rest = DOMAIN rows \ {i} /\ \A k \in DOMAIN rows \ {i} : rest[k] = rows[k] BY <1>0, Zenon DEF Drop
<1>2. DOMAIN rest \subseteq DOMAIN rows /\ \A k \in DOMAIN rest : rest[k] = rows[k] /\ "parent" \in DOMAIN rows[k] BY <1>1, Zenon
<1>3. DOMAIN new = DOMAIN rest /\ Thinner(tab, rows, new) /\ Hides(rows, new, t, "parent", i)
  <2>1. "parent" \in BlankColumns BY Zenon DEF BlankColumns
  <2>2. new = Cleared(rest, t, "parent", i) BY Zenon DEF rest
  <2> QED BY <1>2, <2>1, <2>2, ClearedRows
<1> QED BY <1>1, <1>3, Zenon

LEMMA Blanks == BlankTables = {"locs", "vlans", "subnets", "devices", "addrs", "guests"}
                /\ {"parent", "location", "vlan", "device", "hyper", "guest"} \subseteq BlankColumns
BY Zenon DEF BlankTables, BlankColumns

LEMMA ColumnsOf ==
  ASSUME NEW m, Good(m)
  PROVE /\ \A k \in DOMAIN m.locs : "parent" \in DOMAIN m.locs[k]
        /\ \A k \in DOMAIN m.vlans : "location" \in DOMAIN m.vlans[k]
        /\ \A k \in DOMAIN m.subnets : {"parent", "location", "vlan"} \subseteq DOMAIN m.subnets[k]
        /\ \A k \in DOMAIN m.devices : {"location", "hyper"} \subseteq DOMAIN m.devices[k]
        /\ \A k \in DOMAIN m.addrs : {"subnet", "device", "mdev", "lswitch", "lport"} \subseteq DOMAIN m.addrs[k]
        /\ \A k \in DOMAIN m.guests : {"device", "guest"} \subseteq DOMAIN m.guests[k]
        /\ \A k \in DOMAIN m.ifaces : "device" \in DOMAIN m.ifaces[k]
<1>1. ASSUME NEW r \in Kept PROVE \A k \in DOMAIN m[r.from] : r.col \in DOMAIN m[r.from][k]
  BY KeptTables, Zenon DEF Good, RowOK
<1>2. /\ Ref("locs", "parent", "locs", "null") \in Kept /\ Ref("vlans", "location", "locs", "null") \in Kept
      /\ Ref("subnets", "vlan", "vlans", "null") \in Kept /\ Ref("subnets", "parent", "subnets", "null") \in Kept
      /\ Ref("subnets", "location", "locs", "null") \in Kept /\ Ref("devices", "location", "locs", "null") \in Kept
  BY Zenon DEF Kept, Refs, BaseRefs, Ref
<1>3. /\ Ref("addrs", "subnet", "subnets", "cascade") \in Kept /\ Ref("addrs", "device", "devices", "null") \in Kept
      /\ Ref("ifaces", "device", "devices", "cascade") \in Kept
  BY Zenon DEF Kept, Refs, BaseRefs, Ref
<1>4. /\ Ref("devices", "hyper", "devices", "null") \in Kept /\ Ref("guests", "device", "devices", "cascade") \in Kept
      /\ Ref("guests", "guest", "devices", "null") \in Kept
  BY Zenon DEF Kept, Refs, HostSyncRefs, Ref
<1>5. /\ Ref("addrs", "mdev", "devices", "null") \in Kept /\ Ref("addrs", "lswitch", "devices", "null") \in Kept
      /\ Ref("addrs", "lport", "ifaces", "null") \in Kept
  BY Zenon DEF Kept, Refs, LinkRefs, Ref
<1> QED BY <1>1, <1>2, <1>3, <1>4, <1>5, Zenon DEF Ref

LEMMA DeleteLocationOK ==
  ASSUME NEW m, Good(m), NEW t, NEW i, NEW force, i # 0
  PROVE Good(DeleteLocation(m, t, i, force).db)
<1> DEFINE n == [m EXCEPT !.locs = Cleared(Drop(@, {i}), t, "parent", i), !.devices = Cleared(@, t, "location", i),
                          !.subnets = Cleared(@, t, "location", i), !.vlans = Cleared(@, t, "location", i)]
<1>1. \/ DeleteLocation(m, t, i, force).db = m
      \/ DeleteLocation(m, t, i, force).db = n /\ Own(m, "locs", t, i)
  BY Zenon DEF DeleteLocation, Refused, Err, Ok, Answer
<1> SUFFICES ASSUME Own(m, "locs", t, i) PROVE Good(n)
  BY <1>1, Zenon
<1>2. /\ DOMAIN n = Tables /\ n.locs = Cleared(Drop(m.locs, {i}), t, "parent", i)
      /\ n.devices = Cleared(m.devices, t, "location", i)
      /\ n.subnets = Cleared(m.subnets, t, "location", i) /\ n.vlans = Cleared(m.vlans, t, "location", i)
      /\ \A x \in Tables \ {"locs", "devices", "subnets", "vlans"} : n[x] = m[x]
  BY Zenon DEF Good, Tables
<1> HIDE DEF n
<1>3. DOMAIN n.locs = DOMAIN m.locs \ {i} /\ Thinner("locs", m.locs, n.locs) /\ Hides(m.locs, n.locs, t, "parent", i)
  <2>1. \A k \in DOMAIN m.locs : "parent" \in DOMAIN m.locs[k] BY ColumnsOf, Zenon
  <2>2. "locs" \in BlankTables BY Blanks, Zenon
  <2> QED BY <1>2, <2>1, <2>2, DropClearedRows, Zenon
<1>4. DOMAIN n.devices = DOMAIN m.devices /\ Thinner("devices", m.devices, n.devices) /\ Hides(m.devices, n.devices, t, "location", i)
  BY <1>2, ColumnsOf, Blanks, ClearedRows
<1>5. DOMAIN n.subnets = DOMAIN m.subnets /\ Thinner("subnets", m.subnets, n.subnets) /\ Hides(m.subnets, n.subnets, t, "location", i)
  BY <1>2, ColumnsOf, Blanks, ClearedRows
<1>6. DOMAIN n.vlans = DOMAIN m.vlans /\ Thinner("vlans", m.vlans, n.vlans) /\ Hides(m.vlans, n.vlans, t, "location", i)
  BY <1>2, ColumnsOf, Blanks, ClearedRows
<1>7. Thinned(m, n)
  <2>1. \A x \in Tables \ {"locs", "devices", "subnets", "vlans"} : Thinner(x, m[x], n[x])
    BY <1>2, Zenon DEF Thinner, Lesser
  <2> QED BY <1>2, <1>3, <1>4, <1>5, <1>6, <2>1, Zenon DEF Thinned, RowTables
<1>8. SlicesOK(n) BY <1>2, <1>4, Zenon DEF SlicesOK, Good, Tables
<1>9. ASSUME NEW r \in Kept, NEW k \in DOMAIN n[r.from], Reaches(m, n, r, k) PROVE n[r.from][k][r.col] \in DOMAIN n[r.to]
  <2>1. CASE r.to # "locs" BY <2>1, <1>9, <1>2, <1>4, <1>5, <1>6, KeptTables, Zenon DEF Reaches, RowTables
  <2>2. CASE r.to = "locs"
    <3>1. n[r.from][k][r.col] # i
      BY <2>2, <1>3, <1>4, <1>5, <1>6, <1>9, RefsTo, Zenon DEF Reaches, Own, Hides
    <3> QED BY <2>2, <3>1, <1>3, <1>9, Zenon DEF Reaches
  <2> QED BY <2>1, <2>2, Zenon
<1> QED BY <1>7, <1>8, <1>9, ThinnedOK, Zenon

LEMMA Untouched == ASSUME NEW tab, NEW rows PROVE Thinner(tab, rows, rows)
BY Zenon DEF Thinner, Lesser

LEMMA DeleteVlanOK ==
  ASSUME NEW m, Good(m), NEW t, NEW i, NEW force, i # 0
  PROVE Good(DeleteVlan(m, t, i, force).db)
<1> DEFINE n == [m EXCEPT !.vlans = Drop(@, {i}), !.subnets = Cleared(@, t, "vlan", i)]
<1>1. DeleteVlan(m, t, i, force).db = m \/ (DeleteVlan(m, t, i, force).db = n /\ Own(m, "vlans", t, i))
  BY Zenon DEF DeleteVlan, Refused, Err, Ok, Answer
<1> SUFFICES ASSUME Own(m, "vlans", t, i) PROVE Good(n)
  BY <1>1, Zenon
<1>2. /\ DOMAIN n = Tables /\ n.vlans = Drop(m.vlans, {i}) /\ n.subnets = Cleared(m.subnets, t, "vlan", i)
      /\ \A x \in Tables \ {"vlans", "subnets"} : n[x] = m[x]
  BY Zenon DEF Good, Tables
<1> HIDE DEF n
<1>3. DOMAIN n.vlans = DOMAIN m.vlans \ {i} /\ Thinner("vlans", m.vlans, n.vlans) BY <1>2, DropRows, Zenon
<1>4. DOMAIN n.subnets = DOMAIN m.subnets /\ Thinner("subnets", m.subnets, n.subnets) /\ Hides(m.subnets, n.subnets, t, "vlan", i)
  BY <1>2, ColumnsOf, Blanks, ClearedRows
<1>5. Thinned(m, n) BY <1>2, <1>3, <1>4, Untouched, Zenon DEF Thinned, RowTables
<1>6. SlicesOK(n) BY <1>2, Zenon DEF SlicesOK, Good, Tables
<1>7. ASSUME NEW r \in Kept, NEW k \in DOMAIN n[r.from], Reaches(m, n, r, k) PROVE n[r.from][k][r.col] \in DOMAIN n[r.to]
  <2>1. CASE r.to # "vlans" BY <2>1, <1>7, <1>2, <1>4, KeptTables, Zenon DEF Reaches, RowTables
  <2>2. CASE r.to = "vlans" BY <2>2, <1>3, <1>4, <1>7, RefsTo, Zenon DEF Reaches, Own, Hides
  <2> QED BY <2>1, <2>2, Zenon
<1> QED BY <1>5, <1>6, <1>7, ThinnedOK, Zenon

LEMMA DeleteSubnetOK ==
  ASSUME NEW m, Good(m), NEW t, NEW i, NEW force, i # 0
  PROVE Good(DeleteSubnet(m, t, i, force).db)
<1> DEFINE held == Where(m, "addrs", t, [subnet |-> i])
           jobs == Where(m, "scans", t, [subnet |-> i])
           ends == {<<"address", a>> : a \in held}
           n == [m EXCEPT !.addrs = Drop(@, held), !.hostLinks = Drop(@, ends), !.scans = Drop(@, jobs),
                          !.subnets = Cleared(Drop(@, {i}), t, "parent", i), !.snmp = Drop(@, {i})]
<1>1. DeleteSubnet(m, t, i, force).db = m \/ (DeleteSubnet(m, t, i, force).db = n /\ Own(m, "subnets", t, i))
  BY Zenon DEF DeleteSubnet, Refused, Err, Ok, Answer
<1> SUFFICES ASSUME Own(m, "subnets", t, i) PROVE Good(n)
  BY <1>1, Zenon
<1> HIDE DEF held, jobs, ends
<1>2. /\ DOMAIN n = Tables /\ n.addrs = Drop(m.addrs, held) /\ n.hostLinks = Drop(m.hostLinks, ends)
      /\ n.scans = Drop(m.scans, jobs) /\ n.subnets = Cleared(Drop(m.subnets, {i}), t, "parent", i)
      /\ n.snmp = Drop(m.snmp, {i})
      /\ \A x \in Tables \ {"addrs", "hostLinks", "scans", "subnets", "snmp"} : n[x] = m[x]
  BY Zenon DEF Good, Tables
<1> HIDE DEF n
<1>3. /\ DOMAIN n.addrs = DOMAIN m.addrs \ held /\ Thinner("addrs", m.addrs, n.addrs)
      /\ DOMAIN n.scans = DOMAIN m.scans \ jobs /\ Thinner("scans", m.scans, n.scans)
      /\ DOMAIN n.snmp = DOMAIN m.snmp \ {i} /\ Thinner("snmp", m.snmp, n.snmp)
      /\ Thinner("hostLinks", m.hostLinks, n.hostLinks)
  <2>1. DOMAIN n.addrs = DOMAIN m.addrs \ held /\ Thinner("addrs", m.addrs, n.addrs) BY <1>2, DropRows, Zenon
  <2>2. DOMAIN n.scans = DOMAIN m.scans \ jobs /\ Thinner("scans", m.scans, n.scans) BY <1>2, DropRows, Zenon
  <2>3. DOMAIN n.snmp = DOMAIN m.snmp \ {i} /\ Thinner("snmp", m.snmp, n.snmp) BY <1>2, DropRows, Zenon
  <2>4. Thinner("hostLinks", m.hostLinks, n.hostLinks) BY <1>2, DropRows, Zenon
  <2> QED BY <2>1, <2>2, <2>3, <2>4, Zenon
<1>4. DOMAIN n.subnets = DOMAIN m.subnets \ {i} /\ Thinner("subnets", m.subnets, n.subnets) /\ Hides(m.subnets, n.subnets, t, "parent", i)
  <2>1. \A k \in DOMAIN m.subnets : "parent" \in DOMAIN m.subnets[k] BY ColumnsOf, Zenon
  <2>2. "subnets" \in BlankTables BY Blanks, Zenon
  <2> QED BY <1>2, <2>1, <2>2, DropClearedRows, Zenon
<1>5. Thinned(m, n) BY <1>2, <1>3, <1>4, Untouched, Zenon DEF Thinned, RowTables
<1>6. SlicesOK(n) BY <1>2, Zenon DEF SlicesOK, Good, Tables
<1>7. ASSUME NEW r \in Kept, NEW k \in DOMAIN n[r.from], Reaches(m, n, r, k) PROVE n[r.from][k][r.col] \in DOMAIN n[r.to]
  <2>1. CASE r.to # "subnets" BY <2>1, <1>7, <1>2, RefsTo, ZenonT(30) DEF Reaches, Tables
  <2>2. CASE r.to = "subnets"
    <3>1. k \in DOMAIN m[r.from] /\ m[r.from][k].tenant = m.subnets[n[r.from][k][r.col]].tenant
          /\ n[r.from][k][r.col] = m[r.from][k][r.col] /\ n[r.from][k][r.col] \in DOMAIN m.subnets
      BY <2>2, <1>5, <1>7, KeptTables, Zenon DEF Reaches, Thinned, Thinner
    <3>2. CASE r.from = "subnets" /\ r.col = "parent" BY <2>2, <3>1, <3>2, <1>4, <1>7, Zenon DEF Own, Hides
    <3>3. CASE r.from \in {"addrs", "scans"} /\ r.col = "subnet"
      <4>1. held = {x \in DOMAIN m.addrs : m.addrs[x].tenant = t /\ m.addrs[x].subnet = i} BY DEF held, Where
      <4>2. jobs = {x \in DOMAIN m.scans : m.scans[x].tenant = t /\ m.scans[x].subnet = i} BY DEF jobs, Where
      <4>0. (k \notin held /\ r.from = "addrs") \/ (k \notin jobs /\ r.from = "scans") BY <3>3, <1>3, <1>7, Zenon
      <4>3. n[r.from][k][r.col] # i BY <3>1, <3>3, <4>0, <4>1, <4>2, Zenon DEF Own
      <4>4. n[r.from][k][r.col] \in DOMAIN n.subnets BY <3>1, <4>3, <1>4, Zenon
      <4> QED BY <2>2, <4>4, Zenon
    <3>4. CASE r.from = "snmp" /\ r.col = "subnet"
      <4>1. m.snmp[k].subnet = k BY <3>1, <3>4 DEF Good, RowOK, Keyed, RowTables, Tables
      <4> QED BY <2>2, <3>1, <3>4, <4>1, <1>3, <1>4, <1>7, Zenon
    <3> QED BY <2>2, <3>2, <3>3, <3>4, RefsTo, Zenon
  <2> QED BY <2>1, <2>2, Zenon
<1> QED BY <1>5, <1>6, <1>7, ThinnedOK, Zenon

LEMMA DeleteIPGroupOK == ASSUME NEW m, Good(m), NEW t, NEW i PROVE Good(DeleteIPGroup(m, t, i).db)
<1> DEFINE held == Where(m, "ipMembers", t, [group |-> i])
           n == [m EXCEPT !.ipGroups = Drop(@, {i}), !.ipMembers = Drop(@, held)]
<1>1. DeleteIPGroup(m, t, i).db = m \/ (DeleteIPGroup(m, t, i).db = n /\ Own(m, "ipGroups", t, i))
  BY Zenon DEF DeleteIPGroup, Forget, Err, Ok, Answer, Good, Tables
<1> SUFFICES ASSUME Own(m, "ipGroups", t, i) PROVE Good(n)
  BY <1>1, Zenon
<1>0. held = {x \in DOMAIN m.ipMembers : m.ipMembers[x].tenant = t /\ m.ipMembers[x].group = i} BY DEF Where
<1> HIDE DEF held
<1>2. /\ DOMAIN n = Tables /\ n.ipGroups = Drop(m.ipGroups, {i}) /\ n.ipMembers = Drop(m.ipMembers, held)
      /\ \A x \in Tables \ {"ipGroups", "ipMembers"} : n[x] = m[x]
  BY Zenon DEF Good, Tables
<1> HIDE DEF n
<1>3. DOMAIN n.ipGroups = DOMAIN m.ipGroups \ {i} /\ Thinner("ipGroups", m.ipGroups, n.ipGroups) BY <1>2, DropRows, Zenon
<1>4. DOMAIN n.ipMembers = DOMAIN m.ipMembers \ held /\ Thinner("ipMembers", m.ipMembers, n.ipMembers) BY <1>2, DropRows, Zenon
<1>5. Thinned(m, n) BY <1>2, <1>3, <1>4, Untouched, Zenon DEF Thinned, RowTables
<1>6. SlicesOK(n) BY <1>2, Zenon DEF SlicesOK, Good, Tables
<1>7. ASSUME NEW r \in Kept, NEW k \in DOMAIN n[r.from], Reaches(m, n, r, k) PROVE n[r.from][k][r.col] \in DOMAIN n[r.to]
  <2>1. CASE r.to # "ipGroups" BY <2>1, <1>7, <1>2, RefsTo, Zenon DEF Reaches, Tables
  <2>2. CASE r.to = "ipGroups" BY <2>2, <1>0, <1>3, <1>4, <1>7, RefsTo, Zenon DEF Reaches, Own
  <2> QED BY <2>1, <2>2, Zenon
<1> QED BY <1>5, <1>6, <1>7, ThinnedOK, Zenon

LEMMA DeleteHostGroupOK == ASSUME NEW m, Good(m), NEW t, NEW i PROVE Good(DeleteHostGroup(m, t, i).db)
<1> DEFINE held == Where(m, "hostMembers", t, [group |-> i])
           n == [m EXCEPT !.hostGroups = Drop(@, {i}), !.hostMembers = Drop(@, held)]
<1>1. DeleteHostGroup(m, t, i).db = m \/ (DeleteHostGroup(m, t, i).db = n /\ Own(m, "hostGroups", t, i))
  BY Zenon DEF DeleteHostGroup, Forget, Err, Ok, Answer, Good, Tables
<1> SUFFICES ASSUME Own(m, "hostGroups", t, i) PROVE Good(n)
  BY <1>1, Zenon
<1>0. held = {x \in DOMAIN m.hostMembers : m.hostMembers[x].tenant = t /\ m.hostMembers[x].group = i} BY DEF Where
<1> HIDE DEF held
<1>2. /\ DOMAIN n = Tables /\ n.hostGroups = Drop(m.hostGroups, {i}) /\ n.hostMembers = Drop(m.hostMembers, held)
      /\ \A x \in Tables \ {"hostGroups", "hostMembers"} : n[x] = m[x]
  BY Zenon DEF Good, Tables
<1> HIDE DEF n
<1>3. DOMAIN n.hostGroups = DOMAIN m.hostGroups \ {i} /\ Thinner("hostGroups", m.hostGroups, n.hostGroups) BY <1>2, DropRows, Zenon
<1>4. DOMAIN n.hostMembers = DOMAIN m.hostMembers \ held /\ Thinner("hostMembers", m.hostMembers, n.hostMembers) BY <1>2, DropRows, Zenon
<1>5. Thinned(m, n) BY <1>2, <1>3, <1>4, Untouched, Zenon DEF Thinned, RowTables
<1>6. SlicesOK(n) BY <1>2, Zenon DEF SlicesOK, Good, Tables
<1>7. ASSUME NEW r \in Kept, NEW k \in DOMAIN n[r.from], Reaches(m, n, r, k) PROVE n[r.from][k][r.col] \in DOMAIN n[r.to]
  <2>1. CASE r.to # "hostGroups" BY <2>1, <1>7, <1>2, RefsTo, Zenon DEF Reaches, Tables
  <2>2. CASE r.to = "hostGroups" BY <2>2, <1>0, <1>3, <1>4, <1>7, RefsTo, Zenon DEF Reaches, Own
  <2> QED BY <2>1, <2>2, Zenon
<1> QED BY <1>5, <1>6, <1>7, ThinnedOK, Zenon

\* A row that no other row refers to.
LEMMA ForgetOK ==
  ASSUME NEW m, Good(m), NEW tab \in {"addrs", "ipMembers", "hostMembers", "snmp"}, NEW t, NEW i
  PROVE Good(Forget(m, tab, t, i).db)
<1> DEFINE n == [m EXCEPT ![tab] = Drop(@, {i})]
<1>1. Forget(m, tab, t, i).db = m \/ Forget(m, tab, t, i).db = n BY Zenon DEF Forget, Err, Ok, Answer
<1>2. DOMAIN n = Tables /\ n[tab] = Drop(m[tab], {i}) /\ \A x \in Tables \ {tab} : n[x] = m[x]
  BY Zenon DEF Good, Tables
<1> HIDE DEF n
<1>3. Thinner(tab, m[tab], n[tab]) BY <1>2, DropRows, Zenon
<1>4. Thinned(m, n) BY <1>2, <1>3, Untouched, Zenon DEF Thinned, RowTables
<1>5. SlicesOK(n)
  <2>1. n.links = m.links /\ n.pkgs = m.pkgs /\ n.ifaces = m.ifaces /\ n.devices = m.devices BY <1>2, Zenon DEF Tables
  <2> QED BY <2>1, Zenon DEF SlicesOK, Good
<1>6. ASSUME NEW r \in Kept, NEW k \in DOMAIN n[r.from], Reaches(m, n, r, k) PROVE n[r.from][k][r.col] \in DOMAIN n[r.to]
  BY <1>6, <1>2, RefsTo, ZenonT(30) DEF Reaches, Tables
<1>7. Good(n) BY <1>4, <1>5, <1>6, ThinnedOK, Zenon
<1> QED BY <1>1, <1>7, Zenon

\* The links of a host: nothing in a row refers to them.
LEMMA HostLinksOK ==
  ASSUME NEW m, Good(m), NEW S, NEW n, n = [m EXCEPT !.hostLinks = Drop(@, S)] PROVE Good(n)
<1>1. DOMAIN n = Tables /\ n.hostLinks = Drop(m.hostLinks, S) /\ \A x \in Tables \ {"hostLinks"} : n[x] = m[x]
  BY Zenon DEF Good, Tables
<1>2. Thinner("hostLinks", m.hostLinks, n.hostLinks) BY <1>1, DropRows, Zenon
<1>3. Thinned(m, n) BY <1>1, <1>2, Untouched, Zenon DEF Thinned, RowTables
<1>4. SlicesOK(n)
  <2>1. n.links = m.links /\ n.pkgs = m.pkgs /\ n.ifaces = m.ifaces /\ n.devices = m.devices BY <1>1, Zenon DEF Tables
  <2> QED BY <2>1, Zenon DEF SlicesOK, Good
<1>5. ASSUME NEW r \in Kept, NEW k \in DOMAIN n[r.from], Reaches(m, n, r, k) PROVE n[r.from][k][r.col] \in DOMAIN n[r.to]
  BY <1>5, <1>1, RefsTo, ZenonT(30) DEF Reaches, Tables
<1> QED BY <1>3, <1>4, <1>5, ThinnedOK, Zenon

LEMMA DeleteAddressOK == ASSUME NEW m, Good(m), NEW t, NEW i PROVE Good(DeleteAddress(m, t, i).db)
<1> DEFINE done == Forget(m, "addrs", t, i)
           n == [done.db EXCEPT !.hostLinks = Drop(@, {<<"address", i>>})]
<1>1. DeleteAddress(m, t, i).db = done.db \/ DeleteAddress(m, t, i).db = n
  BY Zenon DEF DeleteAddress, Ok, Answer
<1>2. Good(done.db) BY ForgetOK, Zenon
<1> HIDE DEF done
<1>3. Good(n) BY <1>2, HostLinksOK, Zenon
<1> QED BY <1>1, <1>2, <1>3, Zenon

\* With the port no address is linked to, unless such ports get deleted too.
LEMMA DeleteInterfaceOK ==
  ASSUME NEW m, Good(m), NEW t, NEW i, DeleteLinked \/ \A a \in DOMAIN m.addrs : m.addrs[a].lport # i
  PROVE Good(DeleteInterface(m, t, i).db)
<1> DEFINE ends == {<<"interface", i>>}
           n == [m EXCEPT !.ifaces = Drop(@, {i}), !.links = Drop(@, {i}), !.hostLinks = Drop(@, ends)]
<1>1. DeleteInterface(m, t, i).db = m \/ DeleteInterface(m, t, i).db = n
  BY Zenon DEF DeleteInterface, Forget, Err, Ok, Answer, Good, Tables
<1> SUFFICES Good(n)
  BY <1>1, Zenon
<1> HIDE DEF ends
<1>2. /\ DOMAIN n = Tables /\ n.ifaces = Drop(m.ifaces, {i}) /\ n.links = Drop(m.links, {i}) /\ n.hostLinks = Drop(m.hostLinks, ends)
      /\ \A x \in Tables \ {"ifaces", "links", "hostLinks"} : n[x] = m[x]
  BY Zenon DEF Good, Tables
<1> HIDE DEF n
<1>3. DOMAIN n.ifaces = DOMAIN m.ifaces \ {i} /\ Thinner("ifaces", m.ifaces, n.ifaces)
  <2>1. n.ifaces = Drop(m.ifaces, {i}) BY <1>2, Zenon
  <2>2. DOMAIN n.ifaces = DOMAIN m.ifaces \ {i} BY <2>1, Zenon DEF Drop
  <2>3. Thinner("ifaces", m.ifaces, n.ifaces) BY <2>1, Zenon DEF Drop, Thinner, Lesser
  <2> QED BY <2>2, <2>3, Zenon
<1>4. Thinner("hostLinks", m.hostLinks, n.hostLinks) BY <1>2, DropRows, Zenon
<1>5. Thinned(m, n) BY <1>2, <1>3, <1>4, Untouched, Zenon DEF Thinned, RowTables
<1>6. SlicesOK(n)
  <2>1. n.pkgs = m.pkgs /\ n.devices = m.devices BY <1>2, Zenon DEF Tables
  <2>2. DOMAIN n.links = DOMAIN m.links \ {i} /\ \A k \in DOMAIN n.links : n.links[k] = m.links[k] BY <1>2, Zenon DEF Drop
  <2> QED BY <1>3, <2>1, <2>2, Zenon DEF SlicesOK, Good
<1>7. ASSUME NEW r \in Kept, NEW k \in DOMAIN n[r.from], Sure(r), Reaches(m, n, r, k) PROVE n[r.from][k][r.col] \in DOMAIN n[r.to]
  <2>1. CASE r.to # "ifaces" BY <2>1, <1>7, <1>2, RefsTo, Zenon DEF Reaches, Tables
  <2>2. CASE r.to = "ifaces"
    <3>1. r.from = "addrs" /\ r.col = "lport" /\ ~DeleteLinked BY <2>2, <1>7, RefsTo, Zenon DEF Sure
    <3>2. n.addrs = m.addrs BY <1>2, Zenon DEF Tables
    <3> QED BY <2>2, <3>1, <3>2, <1>3, <1>7, Zenon DEF Reaches
  <2> QED BY <2>1, <2>2, Zenon
<1> QED BY <1>5, <1>6, <1>7, ThinnedOK, Zenon

LEMMA GuestRows ==
  ASSUME NEW old, NEW i, i # 0, \A k \in DOMAIN old : {"device", "guest"} \subseteq DOMAIN old[k],
         NEW new, DOMAIN new = {k \in DOMAIN old : old[k].device # i},
         \A k \in DOMAIN new : new[k] = IF old[k].guest = i THEN [old[k] EXCEPT !.guest = 0] ELSE old[k]
  PROVE Thinner("guests", old, new) /\ \A k \in DOMAIN new : new[k].device # i /\ new[k].guest # i
BY Blanks, Zenon DEF Thinner, Lesser

LEMMA HyperRows ==
  ASSUME NEW old, NEW i, i # 0, \A k \in DOMAIN old : "hyper" \in DOMAIN old[k],
         NEW new, DOMAIN new = DOMAIN old \ {i},
         \A k \in DOMAIN new : new[k] = IF old[k].hyper = i THEN [old[k] EXCEPT !.hyper = 0] ELSE old[k]
  PROVE Thinner("devices", old, new) /\ \A k \in DOMAIN new : new[k].hyper # i
BY Blanks, Zenon DEF Thinner, Lesser

\* With the device no address was learned from or is linked to, unless such devices get deleted too.
LEMMA DeleteDeviceOK ==
  ASSUME NEW m, Good(m), NEW t, NEW i, i # 0, NEW force,
         DeleteLinked \/ \A a \in DOMAIN m.addrs : m.addrs[a].mdev # i /\ m.addrs[a].lswitch # i
  PROVE Good(DeleteDevice(m, t, i, force).db)
<1> DEFINE nics == Where(m, "ifaces", t, [device |-> i])
           ends == {<<"interface", x>> : x \in nics}
           held == Where(m, "hostMembers", t, [device |-> i])
           n == DeleteDevice(m, t, i, force).db
<1>0. /\ nics = {x \in DOMAIN m.ifaces : m.ifaces[x].tenant = t /\ m.ifaces[x].device = i}
      /\ held = {x \in DOMAIN m.hostMembers : m.hostMembers[x].tenant = t /\ m.hostMembers[x].device = i}
  BY DEF Where
<1> DEFINE e == [m EXCEPT !.ifaces = Drop(@, nics), !.links = Drop(@, nics), !.pkgs = Drop(@, {i}), !.hostLinks = Drop(@, ends)]
           f == deleteDeviceHostSyncLocked(e, i)
           full == [f EXCEPT !.addrs = Cleared(@, t, "device", i), !.devices = Drop(@, {i}), !.hostMembers = Drop(@, held)]
<1>1. n = m \/ (n = full /\ Own(m, "devices", t, i))
  BY Zenon DEF DeleteDevice, Refused, Err, Ok, Answer
<1> HIDE DEF nics, ends, held, n
<1>2. /\ DOMAIN e = Tables /\ e.ifaces = Drop(m.ifaces, nics) /\ e.links = Drop(m.links, nics)
      /\ e.pkgs = Drop(m.pkgs, {i}) /\ e.hostLinks = Drop(m.hostLinks, ends)
      /\ \A x \in Tables \ {"ifaces", "links", "pkgs", "hostLinks"} : e[x] = m[x]
  BY Zenon DEF Good, Tables
<1> HIDE DEF e
<1>3. /\ DOMAIN f = Tables /\ f.devState = Drop(e.devState, {i}) /\ f.hardware = Drop(e.hardware, {i})
      /\ f.guests = [g \in {k \in DOMAIN e.guests : e.guests[k].device # i} |->
                      IF e.guests[g].guest = i THEN [e.guests[g] EXCEPT !.guest = 0] ELSE e.guests[g]]
      /\ f.devices = [k \in DOMAIN e.devices |-> IF e.devices[k].hyper = i THEN [e.devices[k] EXCEPT !.hyper = 0] ELSE e.devices[k]]
      /\ \A x \in Tables \ {"devState", "hardware", "guests", "devices"} : f[x] = e[x]
  BY <1>2, Zenon DEF deleteDeviceHostSyncLocked, Tables
<1> HIDE DEF f
<1>4. /\ DOMAIN full = Tables /\ full.addrs = Cleared(f.addrs, t, "device", i)
      /\ full.devices = Drop(f.devices, {i}) /\ full.hostMembers = Drop(f.hostMembers, held)
      /\ \A x \in Tables \ {"addrs", "devices", "hostMembers"} : full[x] = f[x]
  BY <1>3, Zenon DEF Tables
<1> HIDE DEF full
<1> SUFFICES ASSUME Own(m, "devices", t, i) PROVE Good(full)
  BY <1>1, Zenon DEF n
<1>5. /\ full.ifaces = Drop(m.ifaces, nics) /\ full.links = Drop(m.links, nics) /\ full.pkgs = Drop(m.pkgs, {i})
      /\ full.hostLinks = Drop(m.hostLinks, ends) /\ full.devState = Drop(m.devState, {i}) /\ full.hardware = Drop(m.hardware, {i})
      /\ full.addrs = Cleared(m.addrs, t, "device", i) /\ full.hostMembers = Drop(m.hostMembers, held)
      /\ full.guests = f.guests /\ e.guests = m.guests /\ e.devices = m.devices
      /\ \A x \in {"locs", "vlans", "subnets", "ipGroups", "ipMembers", "hostGroups", "scans", "dns", "hsSettings", "snmp", "arp"} :
           full[x] = m[x]
  <2>1. full.ifaces = Drop(m.ifaces, nics) /\ full.links = Drop(m.links, nics) BY <1>2, <1>3, <1>4, Zenon DEF Tables
  <2>2. full.pkgs = Drop(m.pkgs, {i}) /\ full.hostLinks = Drop(m.hostLinks, ends) BY <1>2, <1>3, <1>4, Zenon DEF Tables
  <2>3. e.devState = m.devState /\ e.hardware = m.hardware BY <1>2, Zenon DEF Tables
  <2>4. full.devState = f.devState /\ full.hardware = f.hardware BY <1>4, Zenon DEF Tables
  <2>5. f.addrs = e.addrs /\ f.hostMembers = e.hostMembers BY <1>3, Zenon DEF Tables
  <2>6. e.addrs = m.addrs /\ e.hostMembers = m.hostMembers BY <1>2, Zenon DEF Tables
  <2>7. full.guests = f.guests BY <1>4, Zenon DEF Tables
  <2>8. e.guests = m.guests /\ e.devices = m.devices BY <1>2, Zenon DEF Tables
  <2>9. ASSUME NEW x \in {"locs", "vlans", "subnets", "ipGroups", "ipMembers", "hostGroups", "scans", "dns", "hsSettings",
                         "snmp", "arp"}
        PROVE full[x] = m[x]
    <3>1. x \in Tables \ {"ifaces", "links", "pkgs", "hostLinks", "devState", "hardware", "guests", "devices", "addrs", "hostMembers"}
      BY <2>9, Zenon DEF Tables
    <3> QED BY <3>1, <1>2, <1>3, <1>4, Zenon
  <2>a. full.devState = Drop(m.devState, {i}) /\ full.hardware = Drop(m.hardware, {i}) BY <2>3, <2>4, <1>3, Zenon
  <2>b. full.addrs = Cleared(m.addrs, t, "device", i) /\ full.hostMembers = Drop(m.hostMembers, held) BY <2>5, <2>6, <1>4, Zenon
  <2> QED BY <2>1, <2>2, <2>7, <2>8, <2>9, <2>a, <2>b, Zenon
<1>6. DOMAIN full.ifaces = DOMAIN m.ifaces \ nics /\ Thinner("ifaces", m.ifaces, full.ifaces)
  <2>1. full.ifaces = Drop(m.ifaces, nics) BY <1>5, Zenon
  <2>2. DOMAIN full.ifaces = DOMAIN m.ifaces \ nics BY <2>1, Zenon DEF Drop
  <2>3. Thinner("ifaces", m.ifaces, full.ifaces) BY <2>1, Zenon DEF Drop, Thinner, Lesser
  <2> QED BY <2>2, <2>3, Zenon
<1>7. DOMAIN full.hostMembers = DOMAIN m.hostMembers \ held /\ Thinner("hostMembers", m.hostMembers, full.hostMembers)
  <2>1. full.hostMembers = Drop(m.hostMembers, held) BY <1>5, Zenon
  <2>2. DOMAIN full.hostMembers = DOMAIN m.hostMembers \ held BY <2>1, Zenon DEF Drop
  <2>3. Thinner("hostMembers", m.hostMembers, full.hostMembers) BY <2>1, Zenon DEF Drop, Thinner, Lesser
  <2> QED BY <2>2, <2>3, Zenon
<1>8. /\ DOMAIN full.devState = DOMAIN m.devState \ {i} /\ Thinner("devState", m.devState, full.devState)
      /\ DOMAIN full.hardware = DOMAIN m.hardware \ {i} /\ Thinner("hardware", m.hardware, full.hardware)
      /\ Thinner("hostLinks", m.hostLinks, full.hostLinks)
  <2>1. /\ full.devState = Drop(m.devState, {i}) /\ full.hardware = Drop(m.hardware, {i})
        /\ full.hostLinks = Drop(m.hostLinks, ends)
    BY <1>5, Zenon
  <2>2. DOMAIN full.devState = DOMAIN m.devState \ {i} /\ DOMAIN full.hardware = DOMAIN m.hardware \ {i} BY <2>1, Zenon DEF Drop
  <2>3. Thinner("devState", m.devState, full.devState) BY <2>1, Zenon DEF Drop, Thinner, Lesser
  <2>4. Thinner("hardware", m.hardware, full.hardware) BY <2>1, Zenon DEF Drop, Thinner, Lesser
  <2>5. Thinner("hostLinks", m.hostLinks, full.hostLinks) BY <2>1, Zenon DEF Drop, Thinner, Lesser
  <2> QED BY <2>2, <2>3, <2>4, <2>5, Zenon
<1>9. DOMAIN full.addrs = DOMAIN m.addrs /\ Thinner("addrs", m.addrs, full.addrs) /\ Hides(m.addrs, full.addrs, t, "device", i)
  BY <1>5, ColumnsOf, Blanks, ClearedRows
<1>10. Thinner("guests", m.guests, full.guests) /\ \A k \in DOMAIN full.guests : full.guests[k].device # i /\ full.guests[k].guest # i
  <2>1. \A k \in DOMAIN m.guests : {"device", "guest"} \subseteq DOMAIN m.guests[k] BY ColumnsOf, Zenon
  <2>2. /\ DOMAIN full.guests = {k \in DOMAIN m.guests : m.guests[k].device # i}
        /\ \A k \in DOMAIN full.guests :
             full.guests[k] = IF m.guests[k].guest = i THEN [m.guests[k] EXCEPT !.guest = 0] ELSE m.guests[k]
    BY <1>3, <1>5
  <2> QED BY <2>1, <2>2, GuestRows, ZenonT(30)
<1>11. /\ DOMAIN full.devices = DOMAIN m.devices \ {i} /\ Thinner("devices", m.devices, full.devices)
       /\ \A k \in DOMAIN full.devices : full.devices[k].hyper # i
  <2>1. \A k \in DOMAIN m.devices : "hyper" \in DOMAIN m.devices[k] BY ColumnsOf, Zenon
  <2>2. /\ DOMAIN full.devices = DOMAIN m.devices \ {i}
        /\ \A k \in DOMAIN full.devices :
             full.devices[k] = IF m.devices[k].hyper = i THEN [m.devices[k] EXCEPT !.hyper = 0] ELSE m.devices[k]
    BY <1>3, <1>4, <1>5, SMTT(30) DEF Drop
  <2> QED BY <2>1, <2>2, HyperRows, ZenonT(30)
<1>12. Thinned(m, full)
  BY <1>4, <1>5, <1>6, <1>7, <1>8, <1>9, <1>10, <1>11, Untouched, SMTT(30) DEF Thinned, RowTables, Tables
<1>13. SlicesOK(full)
  <2>1. /\ DOMAIN full.links = DOMAIN m.links \ nics /\ \A k \in DOMAIN full.links : full.links[k] = m.links[k]
        /\ DOMAIN full.pkgs = DOMAIN m.pkgs \ {i} /\ \A k \in DOMAIN full.pkgs : full.pkgs[k] = m.pkgs[k]
    BY <1>5 DEF Drop
  <2> QED BY <1>6, <1>11, <2>1, Zenon DEF SlicesOK, Good
<1>14. ASSUME NEW r \in Kept, NEW k \in DOMAIN full[r.from], Sure(r), Reaches(m, full, r, k)
       PROVE full[r.from][k][r.col] \in DOMAIN full[r.to]
  <2> DEFINE v == full[r.from][k][r.col]
  <2>0. /\ k \in DOMAIN m[r.from] /\ v = m[r.from][k][r.col] /\ v \in DOMAIN m[r.to]
        /\ m[r.to][v].tenant = m[r.from][k].tenant
    BY <1>12, <1>14, KeptTables, Zenon DEF Reaches, Thinned, Thinner
  <2> HIDE DEF v
  <2>1. CASE r.to \notin {"devices", "ifaces"} BY <2>0, <2>1, <1>5, RefsTo, Zenon DEF v
  <2>2. CASE r.to = "devices" /\ r.from \in {"devices", "guests"} BY <2>0, <2>2, <1>10, <1>11, <1>14, RefsTo, Zenon DEF v
  <2>3. CASE r.to = "devices" /\ r.from \in {"devState", "hardware"}
    <3>1. m[r.from][k].device = k BY <2>0, <2>3, Zenon DEF Good, RowOK, Keyed, RowTables, Tables
    <3>2. r.col = "device" BY <2>3, RefsTo, Zenon
    <3> QED BY <2>0, <2>3, <3>1, <3>2, <1>8, <1>11, <1>14, Zenon DEF v
  <2>4. CASE r.to = "devices" /\ r.from \in {"ifaces", "hostMembers"}
    <3>1. r.col = "device" BY <2>4, RefsTo, Zenon
    <3> QED BY <2>0, <2>4, <3>1, <1>0, <1>6, <1>7, <1>11, <1>14, Zenon DEF v, Own
  <2>5. CASE r.to = "devices" /\ r.from = "addrs"
    <3>1. r.col = "device" \/ (r.col \in {"mdev", "lswitch"} /\ ~DeleteLinked) BY <2>5, <1>14, RefsTo, Zenon DEF Sure
    <3>2. v # i BY <2>0, <2>5, <3>1, <1>9, <1>14, Zenon DEF v, Own, Hides
    <3> QED BY <2>0, <2>5, <3>2, <1>11, Zenon DEF v
  <2>6. CASE r.to = "ifaces"
    <3>1. r.from = "addrs" /\ r.col = "lport" /\ ~DeleteLinked BY <2>6, <1>14, RefsTo, Zenon DEF Sure
    <3>2. m.addrs[k].lswitch = m.ifaces[v].device
      <4>1. v # 0 BY <1>14, Zenon DEF Reaches, v
      <4>2. "addrs" \in RowTables BY DEF RowTables, Tables
      <4>3. RowOK(m, "addrs", k, m["addrs"][k]) BY <2>0, <3>1, <4>2, Zenon DEF Good
      <4>4. LinkAgrees(m, m.addrs[k]) BY <3>1, <4>3, Zenon DEF RowOK
      <4>5. m.addrs[k].lport = v BY <2>0, <3>1, Zenon
      <4> QED BY <4>1, <4>4, <4>5, Zenon DEF LinkAgrees
    <3> QED BY <2>0, <2>6, <3>1, <3>2, <1>0, <1>6, Zenon DEF v
  <2> QED BY <2>1, <2>2, <2>3, <2>4, <2>5, <2>6, RefsTo, Zenon
<1> QED BY <1>12, <1>13, <1>14, ThinnedOK, Zenon

(***************************************************************************)
(* The calls on places, groups, devices, ports and addresses.              *)
(***************************************************************************)
\* Ids in use were given out, and none is given out twice.
StoreInv ==
  /\ Good(mem) /\ room \in Rooms
  /\ \A tab \in IdTables : born[tab] \in Nat /\ DOMAIN mem[tab] \subseteq 1 .. born[tab]

LEMMA FreshIds ==
  ASSUME StoreInv, NEW tab \in IdTables, NEW t, NEW i \in Fresh(tab, t)
  PROVE i \in 1 .. born[tab] + 1 /\ i \notin DOMAIN mem[tab]
<1>1. i = born[tab] + 1 BY Zenon DEF Fresh
<1>2. born[tab] \in Nat /\ DOMAIN mem[tab] \subseteq 1 .. born[tab] BY Zenon DEF StoreInv
<1> QED BY <1>1, <1>2

LEMMA IdsOfRows ==
  ASSUME StoreInv, NEW tab \in Tables
  PROVE \A i \in Ids(tab) : i # 0
BY RoomsAssumption DEF Ids, StoreInv

LEMMA RowsExist ==
  ASSUME NEW tab, NEW t
  PROVE /\ \A v \in Rows(tab, t) : Own(mem, tab, t, v) /\ Target(mem, tab, t, v)
        /\ \A v \in Nullable(tab, t) : Target(mem, tab, t, v)
BY Zenon DEF Rows, Nullable, Where, None, Own, Target

\* An audit row changes no table.
LEMMA LoggedDb ==
  ASSUME NEW m, NEW tab, NEW t, NEW i, NEW row, NEW c, NEW n
  PROVE /\ Logged(Save(m, tab, i, row, c), n).db = Save(m, tab, i, row, c).db
        /\ Logged(Change(m, tab, t, i, row, c), n).db = Change(m, tab, t, i, row, c).db
        /\ Logged(Forget(m, tab, t, i), n).db = Forget(m, tab, t, i).db
<1>1. Logged(Save(m, tab, i, row, c), n).db = Save(m, tab, i, row, c).db BY Zenon DEF Logged, Save, Ok, Err, Answer
<1>2. Logged(Change(m, tab, t, i, row, c), n).db = Change(m, tab, t, i, row, c).db
  BY Zenon DEF Logged, Change, Save, Ok, Err, Answer
<1>3. Logged(Forget(m, tab, t, i), n).db = Forget(m, tab, t, i).db BY Zenon DEF Logged, Forget, Ok, Err, Answer
<1> QED BY <1>1, <1>2, <1>3, Zenon

LEMMA PlacesKeep == ASSUME StoreInv, Places PROVE Good(mem')
<1>0. /\ Good(mem) /\ "locs" \in IdTables /\ "vlans" \in IdTables /\ "subnets" \in IdTables
      /\ "locs" \in Tables /\ "vlans" \in Tables /\ "subnets" \in Tables
  BY Zenon DEF StoreInv, IdTables, Tables
<1>1. CASE DoCreateLocation
  <2> SUFFICES ASSUME NEW t \in Tenants, NEW i \in Fresh("locs", t), NEW r \in LocationRows(t)
               PROVE Good(CreateLocation(mem, t, i, r).db)
    BY <1>1, Zenon DEF DoCreateLocation, Do
  <2> DEFINE row == r \uplus [tenant |-> t]
  <2>1. "tenant" \in DOMAIN row /\ row.tenant = t /\ "parent" \in DOMAIN row /\ Target(mem, "locs", t, row.parent)
    BY RowsExist DEF LocationRows, \uplus
  <2> HIDE DEF row
  <2> QED BY <1>0, <2>1, FreshIds, RefsFrom, CreateOK, Zenon DEF CreateLocation, row
<1>2. CASE DoUpdateLocation
  <2> SUFFICES ASSUME NEW t \in Tenants, NEW i \in Ids("locs"), NEW r \in LocationRows(t) PROVE Good(UpdateLocation(mem, t, i, r).db)
    BY <1>2, Zenon DEF DoUpdateLocation, Do
  <2>1. DOMAIN r = {"name", "code", "parent"} /\ Target(mem, "locs", t, r.parent) BY RowsExist DEF LocationRows
  <2> QED BY <1>0, <2>1, RefsFrom, ChangeOK, Zenon DEF UpdateLocation
<1>3. CASE DoDeleteLocation
  <2> SUFFICES ASSUME NEW t \in Tenants, NEW i \in Ids("locs"), NEW force \in BOOLEAN PROVE Good(DeleteLocation(mem, t, i, force).db)
    BY <1>3, Zenon DEF DoDeleteLocation, Do
  <2>1. i # 0 BY <1>0, IdsOfRows, Zenon
  <2> QED BY <1>0, <2>1, DeleteLocationOK, Zenon
<1>4. CASE DoCreateVlan
  <2> SUFFICES ASSUME NEW t \in Tenants, NEW i \in Fresh("vlans", t), NEW r \in VlanRows(t) PROVE Good(CreateVlan(mem, t, i, r).db)
    BY <1>4, Zenon DEF DoCreateVlan, Do
  <2> DEFINE row == r \uplus [tenant |-> t]
  <2>1. "tenant" \in DOMAIN row /\ row.tenant = t /\ "location" \in DOMAIN row /\ Target(mem, "locs", t, row.location)
    BY RowsExist DEF VlanRows, \uplus
  <2> HIDE DEF row
  <2> QED BY <1>0, <2>1, FreshIds, RefsFrom, CreateOK, Zenon DEF CreateVlan, row
<1>5. CASE DoUpdateVlan
  <2> SUFFICES ASSUME NEW t \in Tenants, NEW i \in Ids("vlans"), NEW r \in VlanRows(t) PROVE Good(UpdateVlan(mem, t, i, r).db)
    BY <1>5, Zenon DEF DoUpdateVlan, Do
  <2>1. DOMAIN r = {"name", "num", "location"} /\ Target(mem, "locs", t, r.location) BY RowsExist DEF VlanRows
  <2> QED BY <1>0, <2>1, RefsFrom, ChangeOK, Zenon DEF UpdateVlan
<1>6. CASE DoDeleteVlan
  <2> SUFFICES ASSUME NEW t \in Tenants, NEW i \in Ids("vlans"), NEW force \in BOOLEAN PROVE Good(DeleteVlan(mem, t, i, force).db)
    BY <1>6, Zenon DEF DoDeleteVlan, Do
  <2>1. i # 0 BY <1>0, IdsOfRows, Zenon
  <2> QED BY <1>0, <2>1, DeleteVlanOK, Zenon
<1>7. CASE DoCreateSubnet
  <2> SUFFICES ASSUME NEW t \in Tenants, NEW i \in Fresh("subnets", t), NEW r \in SubnetRows(t) PROVE Good(CreateSubnet(mem, t, i, r).db)
    BY <1>7, Zenon DEF DoCreateSubnet, Do
  <2> DEFINE row == r \uplus [tenant |-> t, origin |-> "manual"]
  <2>1. /\ {"tenant", "vlan", "parent", "location"} \subseteq DOMAIN row /\ row.tenant = t
        /\ Target(mem, "vlans", t, row.vlan) /\ Target(mem, "subnets", t, row.parent) /\ Target(mem, "locs", t, row.location)
    BY RowsExist DEF SubnetRows, \uplus
  <2> HIDE DEF row
  <2> QED BY <1>0, <2>1, FreshIds, RefsFrom, CreateOK, Zenon DEF CreateSubnet, row
<1>8. CASE DoUpdateSubnet
  <2> SUFFICES ASSUME NEW t \in Tenants, NEW i \in Ids("subnets"), NEW r \in SubnetRows(t) PROVE Good(UpdateSubnet(mem, t, i, r).db)
    BY <1>8, Zenon DEF DoUpdateSubnet, Do
  <2>1. /\ DOMAIN r = {"name", "bits", "vlan", "parent", "location"}
        /\ Target(mem, "vlans", t, r.vlan) /\ Target(mem, "subnets", t, r.parent) /\ Target(mem, "locs", t, r.location)
    BY RowsExist DEF SubnetRows
  <2> QED BY <1>0, <2>1, RefsFrom, ChangeOK, Zenon DEF UpdateSubnet
<1>9. CASE DoDeleteSubnet
  <2> SUFFICES ASSUME NEW t \in Tenants, NEW i \in Ids("subnets"), NEW force \in BOOLEAN PROVE Good(DeleteSubnet(mem, t, i, force).db)
    BY <1>9, Zenon DEF DoDeleteSubnet, Do
  <2>1. i # 0 BY <1>0, IdsOfRows, Zenon
  <2> QED BY <1>0, <2>1, DeleteSubnetOK, Zenon
<1>10. CASE DoPutSubnetSNMP
  <2> SUFFICES ASSUME NEW t \in Tenants, NEW i \in Ids("subnets"), NEW version \in {"v2c", "v3"} PROVE Good(PutSubnetSNMP(mem, t, i, version).db)
    BY <1>10, Zenon DEF DoPutSubnetSNMP, Do
  <2>1. CASE ~Own(mem, "subnets", t, i) BY <1>0, <2>1, Zenon DEF PutSubnetSNMP, Err, Answer
  <2>2. CASE Own(mem, "subnets", t, i)
    <3> DEFINE row == [tenant |-> t, subnet |-> i, version |-> version]
    <3>1. "snmp" \in RowTables /\ "snmp" \notin IdTables BY Zenon DEF RowTables, Tables, IdTables
    <3>2. RowOK(mem, "snmp", i, row) BY <2>2, <3>1, RefsFrom DEF RowOK, Own, Target, Keyed
    <3>3. \A old : Relied("snmp", old, row) BY Zenon DEF Relied, Referred
    <3>4. PutSubnetSNMP(mem, t, i, version).db = Save(mem, "snmp", i, row, FALSE).db BY <2>2, LoggedDb, ZenonT(30) DEF PutSubnetSNMP
    <3> HIDE DEF row
    <3> QED BY <1>0, <3>1, <3>2, <3>3, <3>4, SaveOK, Zenon
  <2> QED BY <2>1, <2>2, Zenon
<1>11. CASE DoDeleteSubnetSNMP
  <2> SUFFICES ASSUME NEW t \in Tenants, NEW i \in Ids("subnets") PROVE Good(DeleteSubnetSNMP(mem, t, i).db)
    BY <1>11, Zenon DEF DoDeleteSubnetSNMP, Do
  <2>1. DeleteSubnetSNMP(mem, t, i).db = Forget(mem, "snmp", t, i).db BY LoggedDb, Zenon DEF DeleteSubnetSNMP
  <2> QED BY <1>0, <2>1, ForgetOK, Zenon
<1> QED BY <1>1, <1>2, <1>3, <1>4, <1>5, <1>6, <1>7, <1>8, <1>9, <1>10, <1>11, Zenon DEF Places

LEMMA GroupsKeep == ASSUME StoreInv, Groups PROVE Good(mem')
<1>0. /\ Good(mem) /\ "ipGroups" \in IdTables /\ "ipMembers" \in IdTables /\ "hostGroups" \in IdTables /\ "hostMembers" \in IdTables
  BY Zenon DEF StoreInv, IdTables, Tables
<1>1. CASE DoCreateIPGroup
  <2> SUFFICES ASSUME NEW t \in Tenants, NEW i \in Fresh("ipGroups", t), NEW r \in GroupRows PROVE Good(CreateIPGroup(mem, t, i, r).db)
    BY <1>1, Zenon DEF DoCreateIPGroup, Do
  <2> DEFINE row == r \uplus [tenant |-> t]
  <2>1. "tenant" \in DOMAIN row /\ row.tenant = t BY Zenon DEF GroupRows, \uplus
  <2> HIDE DEF row
  <2> QED BY <1>0, <2>1, FreshIds, RefsFrom, CreateOK, Zenon DEF CreateIPGroup, row
<1>2. CASE DoUpdateIPGroup
  <2> SUFFICES ASSUME NEW t \in Tenants, NEW i \in Ids("ipGroups"), NEW r \in GroupRows PROVE Good(UpdateIPGroup(mem, t, i, r).db)
    BY <1>2, Zenon DEF DoUpdateIPGroup, Do
  <2>1. DOMAIN r = {"name"} BY Zenon DEF GroupRows
  <2> QED BY <1>0, <2>1, RefsFrom, ChangeOK, Zenon DEF UpdateIPGroup
<1>3. CASE DoDeleteIPGroup
  <2> SUFFICES ASSUME NEW t \in Tenants, NEW i \in Ids("ipGroups") PROVE Good(DeleteIPGroup(mem, t, i).db)
    BY <1>3, Zenon DEF DoDeleteIPGroup, Do
  <2> QED BY <1>0, DeleteIPGroupOK, Zenon
<1>4. CASE DoAddIPGroupMember
  <2> SUFFICES ASSUME NEW t \in Tenants, NEW i \in Fresh("ipMembers", t), NEW v \in {"x", "y"}, NEW n \in {1, 2}, NEW g \in Rows("ipGroups", t)
               PROVE Good(AddIPGroupMember(mem, t, i, [group |-> g, value |-> v, seq |-> n]).db)
    BY <1>4 DEF DoAddIPGroupMember, Do
  <2> DEFINE r == [group |-> g, value |-> v, seq |-> n]
             row == r \uplus [tenant |-> t]
  <2>1. "tenant" \in DOMAIN row /\ row.tenant = t /\ "group" \in DOMAIN row /\ Target(mem, "ipGroups", t, row.group)
    BY RowsExist, Zenon DEF \uplus
  <2>2. Own(mem, "ipGroups", t, r.group) BY RowsExist, Zenon
  <2> HIDE DEF row, r
  <2>3. Good(AddIPGroupMember(mem, t, i, r).db) BY <1>0, <2>1, <2>2, FreshIds, RefsFrom, CreateOK DEF AddIPGroupMember, row
  <2> QED BY <2>3, Zenon DEF r
<1>5. CASE DoUpdateIPGroupMember
  <2> SUFFICES ASSUME NEW t \in Tenants, NEW i \in Ids("ipMembers"), NEW v \in {"x", "y"}, NEW n \in {1, 2}
               PROVE Good(UpdateIPGroupMember(mem, t, i, [group |-> 0, value |-> v, seq |-> n]).db)
    BY <1>5 DEF DoUpdateIPGroupMember, Do
  <2> DEFINE r == [group |-> 0, value |-> v, seq |-> n]
             cols == Drop(r, {"group"})
  <2>1. DOMAIN cols = {"value", "seq"} BY Zenon DEF Drop
  <2> HIDE DEF cols, r
  <2>3. Good(UpdateIPGroupMember(mem, t, i, r).db) BY <1>0, <2>1, RefsFrom, ChangeOK, Zenon DEF UpdateIPGroupMember, cols
  <2> QED BY <2>3, Zenon DEF r
<1>6. CASE DoRemoveIPGroupMember
  <2> SUFFICES ASSUME NEW t \in Tenants, NEW i \in Ids("ipMembers") PROVE Good(RemoveIPGroupMember(mem, t, i).db)
    BY <1>6, Zenon DEF DoRemoveIPGroupMember, Do
  <2> QED BY <1>0, ForgetOK, Zenon DEF RemoveIPGroupMember
<1>7. CASE DoCreateHostGroup
  <2> SUFFICES ASSUME NEW t \in Tenants, NEW i \in Fresh("hostGroups", t), NEW r \in GroupRows PROVE Good(CreateHostGroup(mem, t, i, r).db)
    BY <1>7, Zenon DEF DoCreateHostGroup, Do
  <2> DEFINE row == r \uplus [tenant |-> t]
  <2>1. "tenant" \in DOMAIN row /\ row.tenant = t BY Zenon DEF GroupRows, \uplus
  <2> HIDE DEF row
  <2> QED BY <1>0, <2>1, FreshIds, RefsFrom, CreateOK, Zenon DEF CreateHostGroup, row
<1>8. CASE DoUpdateHostGroup
  <2> SUFFICES ASSUME NEW t \in Tenants, NEW i \in Ids("hostGroups"), NEW r \in GroupRows PROVE Good(UpdateHostGroup(mem, t, i, r).db)
    BY <1>8, Zenon DEF DoUpdateHostGroup, Do
  <2>1. DOMAIN r = {"name"} BY Zenon DEF GroupRows
  <2> QED BY <1>0, <2>1, RefsFrom, ChangeOK, Zenon DEF UpdateHostGroup
<1>9. CASE DoDeleteHostGroup
  <2> SUFFICES ASSUME NEW t \in Tenants, NEW i \in Ids("hostGroups") PROVE Good(DeleteHostGroup(mem, t, i).db)
    BY <1>9, Zenon DEF DoDeleteHostGroup, Do
  <2> QED BY <1>0, DeleteHostGroupOK, Zenon
<1>10. CASE DoAddHostGroupMember
  <2> SUFFICES ASSUME NEW t \in Tenants, NEW i \in Fresh("hostMembers", t), NEW n \in {1, 2},
                      NEW g \in Rows("hostGroups", t), NEW dev \in Rows("devices", t)
               PROVE Good(AddHostGroupMember(mem, t, i, [group |-> g, device |-> dev, seq |-> n]).db)
    BY <1>10 DEF DoAddHostGroupMember, Do
  <2> DEFINE r == [group |-> g, device |-> dev, seq |-> n]
             row == r \uplus [tenant |-> t]
  <2>1. /\ {"tenant", "group", "device"} \subseteq DOMAIN row /\ row.tenant = t
        /\ Target(mem, "hostGroups", t, row.group) /\ Target(mem, "devices", t, row.device)
    BY RowsExist, Zenon DEF \uplus
  <2>2. Own(mem, "hostGroups", t, r.group) BY RowsExist, Zenon
  <2> HIDE DEF row, r
  <2>3. Good(AddHostGroupMember(mem, t, i, r).db) BY <1>0, <2>1, <2>2, FreshIds, RefsFrom, CreateOK DEF AddHostGroupMember, row
  <2> QED BY <2>3, Zenon DEF r
<1>11. CASE DoUpdateHostGroupMember
  <2> SUFFICES ASSUME NEW t \in Tenants, NEW i \in Ids("hostMembers"), NEW n \in {1, 2}, NEW dev \in Rows("devices", t)
               PROVE Good(UpdateHostGroupMember(mem, t, i, [group |-> 0, device |-> dev, seq |-> n]).db)
    BY <1>11 DEF DoUpdateHostGroupMember, Do
  <2> DEFINE r == [group |-> 0, device |-> dev, seq |-> n]
             cols == Drop(r, {"group"})
  <2>1. DOMAIN cols = {"device", "seq"} /\ Target(mem, "devices", t, cols.device) BY RowsExist, Zenon DEF Drop
  <2> HIDE DEF cols, r
  <2>3. Good(UpdateHostGroupMember(mem, t, i, r).db) BY <1>0, <2>1, RefsFrom, ChangeOK, Zenon DEF UpdateHostGroupMember, cols
  <2> QED BY <2>3, Zenon DEF r
<1>12. CASE DoRemoveHostGroupMember
  <2> SUFFICES ASSUME NEW t \in Tenants, NEW i \in Ids("hostMembers") PROVE Good(RemoveHostGroupMember(mem, t, i).db)
    BY <1>12, Zenon DEF DoRemoveHostGroupMember, Do
  <2> QED BY <1>0, ForgetOK, Zenon DEF RemoveHostGroupMember
<1> QED BY <1>1, <1>2, <1>3, <1>4, <1>5, <1>6, <1>7, <1>8, <1>9, <1>10, <1>11, <1>12, Zenon DEF Groups

LEMMA HostLinksSet ==
  ASSUME NEW m, Good(m), NEW t \in Tenants, NEW kind, NEW host, NEW links
  PROVE Good(setHostLinksLocked(m, t, kind, host, links))
<1> DEFINE k == <<kind, host>>
           row == [tenant |-> t, links |-> links]
<1>1. CASE links = {} BY <1>1, HostLinksOK, Zenon DEF setHostLinksLocked
<1>2. CASE links # {}
  <2>1. "hostLinks" \in RowTables /\ "hostLinks" \notin IdTables BY Zenon DEF RowTables, Tables, IdTables
  <2>2. RowOK(m, "hostLinks", k, row) BY <2>1, RefsFrom, Zenon DEF RowOK, Keyed
  <2>3. \A old : Relied("hostLinks", old, row) BY Zenon DEF Relied, Referred
  <2>4. Good(Save(m, "hostLinks", k, row, FALSE).db) BY <2>1, <2>2, <2>3, SaveOK, Zenon
  <2> QED BY <1>2, <2>4, Zenon DEF setHostLinksLocked, Save, Ok, Answer
<1> QED BY <1>1, <1>2, Zenon

LEMMA DeviceRowColumns ==
  ASSUME NEW t, NEW r \in DeviceRows(t)
  PROVE /\ DOMAIN r = {"name", "location", "type", "os", "bmc", "source", "host", "hyper", "report"}
        /\ Target(mem, "locs", t, r.location)
BY RowsExist DEF DeviceRows

LEMMA UpsertDeviceKeeps ==
  ASSUME StoreInv, NEW t \in Tenants, NEW i \in Fresh("devices", t), NEW r \in DeviceRows(t)
  PROVE Good(UpsertDeviceByName(mem, t, i, r).db)
<1> DEFINE found == Where(mem, "devices", t, [name |-> r.name])
           key == IF found = {} THEN i ELSE CHOOSE x \in found : TRUE
           old == mem.devices[key]
           merged == IF old.source = "host_report" THEN FillEmptyDevice(old, r) ELSE mergeDevice(old, r)
           new == keepDeviceServerFields(r, "scan") \uplus [tenant |-> t]
           row == IF found = {} THEN new ELSE merged \uplus old
<1>0. Good(mem) /\ "devices" \in IdTables /\ "devices" \in RowTables BY Zenon DEF StoreInv, IdTables, RowTables, Tables
<1>1. UpsertDeviceByName(mem, t, i, r).db = Save(mem, "devices", key, row, FALSE).db
  BY Zenon DEF UpsertDeviceByName, Save, Ok, Answer
<1>2. CASE found = {}
  <2>1. {"tenant", "location", "hyper"} \subseteq DOMAIN new /\ new.tenant = t /\ Target(mem, "locs", t, new.location) /\ new.hyper = 0
    BY DeviceRowColumns, Zenon DEF keepDeviceServerFields, \uplus
  <2>2. key = i /\ row = new BY <1>2, Zenon
  <2> HIDE DEF new, key, row
  <2>3. \A x \in Kept : x.from = "devices" => x.col \in DOMAIN new /\ Target(mem, x.to, t, new[x.col])
    BY <2>1, RefsFrom, Zenon DEF Target
  <2> QED BY <1>0, <1>1, <2>1, <2>2, <2>3, FreshIds, CreateOK, Zenon
<1>3. CASE found # {}
  <2>1. key \in found /\ Own(mem, "devices", t, key) BY <1>3, Zenon DEF Where, Own
  <2>2. Save(mem, "devices", key, row, FALSE) = Change(mem, "devices", t, key, merged, FALSE) BY <1>3, <2>1, Zenon DEF Change
  <2>3. RowOK(mem, "devices", key, old) /\ old.tenant = t BY <1>0, <2>1, Zenon DEF Good, Own
  <2>4. Target(mem, "locs", t, old.location)
    <3>1. Ref("devices", "location", "locs", "null") \in Kept BY Zenon DEF Kept, Refs, BaseRefs, Ref
    <3> QED BY <2>3, <3>1, Zenon DEF RowOK, Sure, Ref
  <2> HIDE DEF old, key, found
  <2>5. DOMAIN merged \subseteq {"location", "type", "os", "bmc"}
        /\ ("location" \in DOMAIN merged => Target(mem, "locs", t, merged.location))
    BY <2>4, DeviceRowColumns, Zenon DEF FillEmptyDevice, mergeDevice, deviceServerFields
  <2> HIDE DEF merged, row
  <2>6. Good(Change(mem, "devices", t, key, merged, FALSE).db) BY <1>0, <2>5, RefsFrom, ChangeOK, Zenon
  <2> QED BY <1>1, <2>2, <2>6, Zenon
<1> QED BY <1>2, <1>3, Zenon

LEMMA InterfaceCreated ==
  ASSUME StoreInv, NEW t \in Tenants, NEW i \in Fresh("ifaces", t), NEW r \in InterfaceRows(t)
  PROVE Good(CreateInterface(mem, t, i, r).db)
<1> DEFINE row == r \uplus [tenant |-> t, report |-> NoText]
<1>1. {"tenant", "device"} \subseteq DOMAIN row /\ row.tenant = t /\ Target(mem, "devices", t, row.device)
  BY RowsExist DEF InterfaceRows, \uplus
<1>2. Good(mem) /\ "ifaces" \in IdTables BY Zenon DEF StoreInv, IdTables, Tables
<1> HIDE DEF row
<1> QED BY <1>1, <1>2, FreshIds, RefsFrom, CreateOK, Zenon DEF CreateInterface, row

LEMMA DevicesAndPortsKeep == ASSUME StoreInv, DevicesAndPorts PROVE Good(mem')
<1>0. /\ Good(mem) /\ "devices" \in IdTables /\ "ifaces" \in IdTables /\ "devices" \in Tables /\ "ifaces" \in Tables
      /\ "devices" \in RowTables /\ "ifaces" \in RowTables
  BY Zenon DEF StoreInv, IdTables, RowTables, Tables
<1>1. CASE DoCreateDevice
  <2> SUFFICES ASSUME NEW t \in Tenants, NEW i \in Fresh("devices", t), NEW r \in DeviceRows(t) PROVE Good(CreateDevice(mem, t, i, r).db)
    BY <1>1, Zenon DEF DoCreateDevice, Do
  <2> DEFINE row == keepDeviceServerFields(r, "manual") \uplus [tenant |-> t]
  <2>1. {"tenant", "location", "hyper"} \subseteq DOMAIN row /\ row.tenant = t /\ Target(mem, "locs", t, row.location) /\ row.hyper = 0
    BY DeviceRowColumns, Zenon DEF keepDeviceServerFields, \uplus
  <2> HIDE DEF row
  <2>2. \A x \in Kept : x.from = "devices" => x.col \in DOMAIN row /\ Target(mem, x.to, t, row[x.col])
    BY <2>1, RefsFrom, Zenon DEF Target
  <2> QED BY <1>0, <2>1, <2>2, FreshIds, CreateOK, Zenon DEF CreateDevice, row
<1>2. CASE DoUpdateDevice
  <2> SUFFICES ASSUME NEW t \in Tenants, NEW i \in Ids("devices"), NEW r \in DeviceRows(t) PROVE Good(UpdateDevice(mem, t, i, r).db)
    BY <1>2, Zenon DEF DoUpdateDevice, Do
  <2> DEFINE cols == Drop(r, deviceServerFields)
  <2>1. DOMAIN cols = {"name", "location", "type", "os", "bmc"} /\ Target(mem, "locs", t, cols.location)
    BY DeviceRowColumns, Zenon DEF Drop, deviceServerFields
  <2> HIDE DEF cols
  <2> QED BY <1>0, <2>1, RefsFrom, ChangeOK, Zenon DEF UpdateDevice, cols
<1>3. CASE DoDeleteDevice
  <2> SUFFICES ASSUME NEW t \in Tenants, NEW i \in Ids("devices"), NEW force \in BOOLEAN, DeleteLinked \/ ~LinkedTo(i, {})
               PROVE Good(DeleteDevice(mem, t, i, force).db)
    BY <1>3, Zenon DEF DoDeleteDevice, Do
  <2>1. i # 0 BY <1>0, IdsOfRows, Zenon
  <2>2. DeleteLinked \/ \A a \in DOMAIN mem.addrs : mem.addrs[a].mdev # i /\ mem.addrs[a].lswitch # i BY Zenon DEF LinkedTo
  <2> QED BY <1>0, <2>1, <2>2, DeleteDeviceOK, Zenon
<1>4. CASE DoUpsertDeviceByName BY <1>4, UpsertDeviceKeeps, Zenon DEF DoUpsertDeviceByName, Do
<1>5. CASE DoSetDeviceBMCRef
  <2> SUFFICES ASSUME NEW t \in Tenants, NEW i \in Ids("devices"), NEW ref \in {NoText, "w"}
               PROVE Good(SetDeviceBMCRef(mem, t, i, ref).db)
    BY <1>5, Zenon DEF DoSetDeviceBMCRef, Do
  <2> SUFFICES ASSUME Own(mem, "devices", t, i) PROVE Good([mem EXCEPT !.devices[i].bmc = ref])
    BY <1>0, Zenon DEF SetDeviceBMCRef, Err, Answer
  <2> DEFINE T == [mem.devices EXCEPT ![i] = [@ EXCEPT !.bmc = ref]]
  <2>1. [mem EXCEPT !.devices[i].bmc = ref] = [mem EXCEPT !.devices = T] BY Zenon
  <2>2. Alike("devices", mem.devices[i], [mem.devices[i] EXCEPT !.bmc = ref])
    BY <1>0, RefsFrom, PlainColumn, Zenon DEF Good, Own
  <2>3. DOMAIN T = DOMAIN mem.devices /\ \A k \in DOMAIN T : T[k] = mem.devices[k] \/ Alike("devices", mem.devices[k], T[k]) BY <2>2, Zenon
  <2> HIDE DEF T
  <2> QED BY <1>0, <2>1, <2>3, AmendOK, Zenon
<1>6. CASE DoCreateInterface
  <2> SUFFICES ASSUME NEW t \in Tenants, NEW i \in Fresh("ifaces", t), NEW r \in InterfaceRows(t) PROVE Good(CreateInterface(mem, t, i, r).db)
    BY <1>6, Zenon DEF DoCreateInterface, Do
  <2> QED BY InterfaceCreated, Zenon
<1>7. CASE DoUpsertInterfaceByName
  <2> SUFFICES ASSUME NEW t \in Tenants, NEW i \in Fresh("ifaces", t), NEW r \in InterfaceRows(t) PROVE Good(UpsertInterfaceByName(mem, t, i, r).db)
    BY <1>7, Zenon DEF DoUpsertInterfaceByName, Do
  <2> DEFINE found == {k \in DOMAIN mem.ifaces : mem.ifaces[k].device = r.device /\ mem.ifaces[k].name = r.name}
             k == CHOOSE x \in found : TRUE
             row == r \uplus [tenant |-> t, report |-> mem.ifaces[k].report]
             T == [mem.ifaces EXCEPT ![k] = row]
  <2>1. CASE found = {} BY <2>1, InterfaceCreated, Zenon DEF UpsertInterfaceByName
  <2>2. CASE found # {}
    <3>1. k \in DOMAIN mem.ifaces /\ mem.ifaces[k].device = r.device BY <2>2, Zenon
    <3>2. UpsertInterfaceByName(mem, t, i, r).db = [mem EXCEPT !.ifaces = T] BY <2>2, Zenon DEF UpsertInterfaceByName, Ok, Answer
    <3> HIDE DEF k
    <3>3. {"tenant", "device"} \subseteq DOMAIN row /\ row.tenant = t /\ row.device = r.device /\ Own(mem, "devices", t, r.device)
      BY RowsExist DEF InterfaceRows, \uplus
    <3>4. RowOK(mem, "ifaces", k, mem.ifaces[k]) BY <1>0, <3>1, Zenon DEF Good
    <3>5. Target(mem, "devices", mem.ifaces[k].tenant, mem.ifaces[k].device)
      <4>1. Ref("ifaces", "device", "devices", "cascade") \in Kept BY Zenon DEF Kept, Refs, BaseRefs, Ref
      <4> QED BY <3>4, <4>1, Zenon DEF RowOK, Sure, Ref
    <3>6. r.device # 0
      <4>1. DOMAIN mem.devices \subseteq 1 .. born["devices"] BY <1>0, Zenon DEF StoreInv
      <4> QED BY <3>3, <4>1 DEF Own
    <3>7. mem.ifaces[k].tenant = t BY <3>1, <3>3, <3>5, <3>6, Zenon DEF Target, Own
    <3> HIDE DEF row
    <3>8. Alike("ifaces", mem.ifaces[k], row) BY <3>1, <3>3, <3>7, RefsFrom, Zenon DEF Alike
    <3>9. DOMAIN T = DOMAIN mem.ifaces /\ \A x \in DOMAIN T : T[x] = mem.ifaces[x] \/ Alike("ifaces", mem.ifaces[x], T[x]) BY <3>8, Zenon
    <3> HIDE DEF T
    <3>10. Good([mem EXCEPT !.ifaces = T]) BY <1>0, <3>9, AmendOK, Zenon
    <3> QED BY <3>2, <3>10, Zenon
  <2> QED BY <2>1, <2>2, Zenon
<1>8. CASE DoDeleteInterface
  <2> SUFFICES ASSUME NEW t \in Tenants, NEW i \in Ids("ifaces"), DeleteLinked \/ ~LinkedTo(-1, {i})
               PROVE Good(DeleteInterface(mem, t, i).db)
    BY <1>8, Zenon DEF DoDeleteInterface, Do
  <2>1. DeleteLinked \/ \A a \in DOMAIN mem.addrs : mem.addrs[a].lport # i BY Zenon DEF LinkedTo
  <2> QED BY <1>0, <2>1, DeleteInterfaceOK, Zenon
<1>9. CASE DoReplaceInterfaceLinks
  <2> DEFINE seqs == {<<>>, <<<<"lldp", 9>>>>, <<<<"lldp", 9>>, <<"lldp", 9>>>>}
  <2> SUFFICES ASSUME NEW t \in Tenants, NEW i \in Ids("ifaces"), NEW seq \in seqs PROVE Good(ReplaceInterfaceLinks(mem, t, i, seq).db)
    BY <1>9, Zenon DEF DoReplaceInterfaceLinks, Do
  <2> HIDE DEF seqs
  <2> DEFINE rows == [n \in DOMAIN seq |-> [tenant |-> t, src |-> seq[n][1], remote |-> seq[n][2]]]
  <2>1. \A x \in Range(rows) : x.tenant \in Tenants BY DEF Range
  <2>2. \/ ReplaceInterfaceLinks(mem, t, i, seq).db = mem
        \/ i \in DOMAIN mem.ifaces /\ ReplaceInterfaceLinks(mem, t, i, seq).db = [mem EXCEPT !.links = Put(@, i, rows)]
    BY Zenon DEF ReplaceInterfaceLinks, Own, Err, Ok, Answer
  <2> HIDE DEF rows
  <2>3. ASSUME i \in DOMAIN mem.ifaces PROVE Good([mem EXCEPT !.links = Put(@, i, rows)]) BY <1>0, <2>1, <2>3, SliceOK, Zenon
  <2> QED BY <1>0, <2>2, <2>3, Zenon
<1>10. CASE DoSetInterfaceLinks
  <2> SUFFICES ASSUME NEW t \in Tenants, NEW i \in Ids("ifaces"), NEW links \in LinkSets(t)
               PROVE Good(SetInterfaceLinks(mem, t, i, Primary(links)[1], Primary(links)[2], LinkSource(links), links).db)
    BY <1>10, Zenon DEF DoSetInterfaceLinks, Do
  <2> DEFINE d == setHostLinksLocked(mem, t, "interface", i, links)
             sw == Primary(links)[1]
             port == Primary(links)[2]
             src == LinkSource(links)
             one == [d.ifaces[i] EXCEPT !.rdev = sw]
             two == [one EXCEPT !.rport = port]
             row == [two EXCEPT !.lsrc = src]
             T == [d.ifaces EXCEPT ![i] = row]
  <2>1. Good(d) BY <1>0, HostLinksSet, Zenon
  <2>2. d.ifaces = mem.ifaces BY <1>0, Zenon DEF setHostLinksLocked, Good, Tables
  <2> HIDE DEF d, sw, port, src
  <2> SUFFICES ASSUME Own(mem, "ifaces", t, i) PROVE Good([d EXCEPT !.ifaces[i].rdev = sw, !.ifaces[i].rport = port, !.ifaces[i].lsrc = src])
    BY <1>0, Zenon DEF SetInterfaceLinks, Err, Answer, d, sw, port, src
  <2>3. [d EXCEPT !.ifaces[i].rdev = sw, !.ifaces[i].rport = port, !.ifaces[i].lsrc = src] = [d EXCEPT !.ifaces = T]
    BY <1>0, <2>1, <2>2, Zenon DEF Own, Good
  <2>4. RowOK(d, "ifaces", i, d.ifaces[i]) BY <1>0, <2>1, <2>2, Zenon DEF Good, Own
  <2>5. Alike("ifaces", d.ifaces[i], one) BY <2>4, RefsFrom, PlainColumn, Zenon
  <2>6. RowOK(d, "ifaces", i, one) BY <2>4, <2>5, AlikeRow, Zenon
  <2> HIDE DEF one
  <2>7. Alike("ifaces", one, two) BY <2>6, RefsFrom, PlainColumn, Zenon
  <2>8. RowOK(d, "ifaces", i, two) BY <2>6, <2>7, AlikeRow, Zenon
  <2> HIDE DEF two
  <2>9. Alike("ifaces", two, row) BY <2>8, RefsFrom, PlainColumn, Zenon
  <2>10. Alike("ifaces", d.ifaces[i], row) BY <2>5, <2>7, <2>9, Zenon DEF Alike
  <2> HIDE DEF row
  <2>11. DOMAIN T = DOMAIN d.ifaces /\ \A x \in DOMAIN T : T[x] = d.ifaces[x] \/ Alike("ifaces", d.ifaces[x], T[x]) BY <2>10, Zenon
  <2> HIDE DEF T
  <2>12. Good([d EXCEPT !.ifaces = T]) BY <1>0, <2>1, <2>11, AmendOK, Zenon
  <2> QED BY <2>3, <2>12, Zenon
<1>11. CASE DoReplaceDevicePackages
  <2> SUFFICES ASSUME NEW t \in Tenants, NEW i \in Rows("devices", t), NEW seq PROVE Good(ReplaceDevicePackages(mem, t, i, seq).db)
    BY <1>11 DEF DoReplaceDevicePackages, Do
  <2>1. \A x \in Range(PackageSlice(t, seq)) : x.tenant \in Tenants BY DEF Range, PackageSlice
  <2>2. i \in DOMAIN mem.devices BY RowsExist, Zenon DEF Own
  <2>3. \/ ReplaceDevicePackages(mem, t, i, seq).db = mem
        \/ ReplaceDevicePackages(mem, t, i, seq).db = [mem EXCEPT !.pkgs = Put(@, i, PackageSlice(t, seq))]
    BY Zenon DEF ReplaceDevicePackages, Err, Ok, Answer
  <2> DEFINE rows == PackageSlice(t, seq)
  <2> HIDE DEF rows
  <2>4. Good([mem EXCEPT !.pkgs = Put(@, i, rows)]) BY <1>0, <2>1, <2>2, SliceOK, Zenon DEF rows
  <2> QED BY <1>0, <2>3, <2>4, Zenon DEF rows
<1>12. CASE DoDeleteDevicePackages
  <2> SUFFICES ASSUME NEW t \in Tenants, NEW i \in Rows("devices", t) PROVE Good(DeleteDevicePackages(mem, t, i).db)
    BY <1>12, Zenon DEF DoDeleteDevicePackages, Do
  <2> QED BY <1>0, DropSliceOK, Zenon DEF DeleteDevicePackages, Ok, Answer
<1> QED
  BY <1>1, <1>2, <1>3, <1>4, <1>5, <1>6, <1>7, <1>8, <1>9, <1>10, <1>11, <1>12, Zenon DEF DevicesAndPorts

AddressColumns == {"addr", "subnet", "device", "hostname", "mac", "status", "msrc", "mdev", "mconf",
                   "report", "prev", "conflict", "origin", "lswitch", "lport"}

LEMMA AddressRowColumns ==
  ASSUME NEW t, NEW r \in AddressRows(t)
  PROVE /\ DOMAIN r = AddressColumns /\ Target(mem, "subnets", t, r.subnet) /\ Target(mem, "devices", t, r.device)
        /\ Target(mem, "devices", t, 0) /\ r.mdev = 0
BY RowsExist DEF AddressRows, AddressColumns, Target

LEMMA AddressCreated ==
  ASSUME StoreInv, NEW t \in Tenants, NEW i \in Fresh("addrs", t), NEW r, DOMAIN r = AddressColumns,
         Target(mem, "subnets", t, r.subnet), Target(mem, "devices", t, r.device), r.mdev = 0
  PROVE Good(CreateAddress(mem, t, i, r).db)
<1> DEFINE row == clearAddrServerFields \uplus r \uplus [tenant |-> t]
<1>1. /\ {"tenant", "subnet", "device", "mdev", "lswitch", "lport"} \subseteq DOMAIN row
      /\ row.tenant = t /\ row.subnet = r.subnet /\ row.device = r.device /\ row.mdev = 0 /\ row.lswitch = 0 /\ row.lport = 0
  BY Zenon DEF clearAddrServerFields, \uplus, AddressColumns
<1> HIDE DEF row
<1>2. Good(mem) /\ "addrs" \in IdTables BY Zenon DEF StoreInv, IdTables, Tables
<1>3. \A x \in Kept : x.from = "addrs" => x.col \in DOMAIN row /\ Target(mem, x.to, t, row[x.col])
  BY <1>1, RefsFrom DEF Target
<1> QED BY <1>1, <1>2, <1>3, FreshIds, CreateOK, Zenon DEF CreateAddress, row

LEMMA ARPOpKeeps ==
  ASSUME NEW m, Good(m), NEW t \in Tenants, NEW o, Target(m, "devices", t, o.dev),
         o.kind = "create" => o.id \in 1 .. born["addrs"] + 1
  PROVE Good(applyARPOpLocked(m, t, o).db) /\ applyARPOpLocked(m, t, o).db.devices = m.devices
<1> DEFINE set(cols) == Answer("ok", [m EXCEPT !.addrs[o.id] = cols \uplus @], 1, 0)
           new == [tenant |-> t, addr |-> o.addr, subnet |-> o.subnet, device |-> 0, hostname |-> NoText,
                   mac |-> o.mac, status |-> "active", msrc |-> "arp", mdev |-> o.dev, mconf |-> NoText,
                   origin |-> "arp"] \uplus clearAddrServerFields
           fill == [mac |-> o.mac, msrc |-> "arp", mdev |-> o.dev, mconf |-> NoText]
           free == /\ Own(m, "subnets", t, o.subnet) /\ Where(m, "addrs", t, [addr |-> o.addr]) = {}
                   /\ o.id \notin DOMAIN m.addrs
           held == Own(m, "addrs", t, o.id)
           row == m.addrs[o.id]
           touch == IF row.msrc = "arp" THEN [mdev |-> o.dev] ELSE None
           made == Logged(Save(m, "addrs", o.id, new, FALSE), 1)
           a == applyARPOpLocked(m, t, o)
<1>1. a = CASE o.kind = "create" /\ free -> made
            [] o.kind = "fill" /\ held /\ arpOwned(row) -> set(fill)
            [] o.kind = "conflict" /\ held /\ ~arpOwned(row) -> set([mconf |-> o.mac])
            [] o.kind = "clear" /\ held -> set([mconf |-> NoText])
            [] o.kind = "touch" /\ held -> set(touch)
            [] OTHER -> Ok(m)
  BY Zenon DEF applyARPOpLocked
<1>0. "addrs" \in IdTables /\ "addrs" \in Tables /\ DOMAIN m = Tables BY Zenon DEF Good, IdTables, Tables
<1>2. ASSUME o.kind = "create", Own(m, "subnets", t, o.subnet), o.id \notin DOMAIN m.addrs
      PROVE Good(Save(m, "addrs", o.id, new, FALSE).db)
  <2>1. /\ {"tenant", "subnet", "device", "mdev", "lswitch", "lport"} \subseteq DOMAIN new
        /\ new.tenant = t /\ new.subnet = o.subnet /\ new.device = 0 /\ new.mdev = o.dev /\ new.lswitch = 0 /\ new.lport = 0
    BY Zenon DEF clearAddrServerFields, \uplus
  <2> HIDE DEF new
  <2>2. \A x \in Kept : x.from = "addrs" => x.col \in DOMAIN new /\ Target(m, x.to, t, new[x.col])
    BY <1>2, <2>1, RefsFrom DEF Target, Own
  <2> QED BY <1>0, <1>2, <2>1, <2>2, CreateOK, Zenon
<1>3. ASSUME Own(m, "addrs", t, o.id), NEW cols \in {fill, [mconf |-> o.mac], [mconf |-> NoText], [mdev |-> o.dev], None}
      PROVE Good(set(cols).db) /\ set(cols).db.devices = m.devices
  <2>1. DOMAIN cols \subseteq {"mac", "msrc", "mdev", "mconf"} /\ ("mdev" \in DOMAIN cols => cols.mdev = o.dev) BY <1>3 DEF None
  <2>2. Good(Change(m, "addrs", t, o.id, cols, FALSE).db)
    BY <1>0, <2>1, RefsFrom, ChangeOK, ZenonT(30)
  <2>3. Change(m, "addrs", t, o.id, cols, FALSE).db = [m EXCEPT !.addrs = Put(@, o.id, cols \uplus m.addrs[o.id])]
    BY <1>3, Zenon DEF Change, Save, Ok, Answer
  <2> DEFINE put == cols \uplus m.addrs[o.id]
  <2> HIDE DEF put
  <2>4. [m EXCEPT !.addrs[o.id] = put] = [m EXCEPT !.addrs = Put(@, o.id, put)]
    <3>1. [m.addrs EXCEPT ![o.id] = put] = Put(m.addrs, o.id, put) BY <1>3, Zenon DEF Put, Own
    <3> QED BY <3>1, Zenon
  <2>5. set(cols).db = [m EXCEPT !.addrs[o.id] = put] /\ set(cols).db.devices = m.devices BY <1>0, Zenon DEF Answer, put, Tables
  <2> QED BY <2>2, <2>3, <2>4, <2>5, Zenon DEF put
<1>4. touch \in {fill, [mconf |-> o.mac], [mconf |-> NoText], [mdev |-> o.dev], None} OBVIOUS
<1> HIDE DEF set, new, fill, touch, held, row
<1>5. Save(m, "addrs", o.id, new, FALSE).db.devices = m.devices BY <1>0, Zenon DEF Save, Ok, Answer, Tables
<1>6. CASE o.kind = "create" /\ free
  <2>1. a = made
    <3>1. o.kind = "create" /\ free BY <1>6, Zenon
    <3> HIDE DEF a, free, made
    <3> QED BY <1>1, <3>1, Zenon
  <2>2. made.db = Save(m, "addrs", o.id, new, FALSE).db BY Zenon DEF Logged, Save, Ok, Answer
  <2>3. Own(m, "subnets", t, o.subnet) /\ o.id \notin DOMAIN m.addrs /\ o.kind = "create" BY <1>6, Zenon
  <2> QED BY <2>1, <2>2, <2>3, <1>2, <1>5, Zenon
<1>7. CASE held /\ a \in {set(fill), set([mconf |-> o.mac]), set([mconf |-> NoText]), set(touch)}
  BY <1>3, <1>4, <1>7, Zenon DEF held
<1>8. CASE a = Ok(m) BY <1>8 DEF Ok, Answer
<1>9. \/ o.kind = "create" /\ free
      \/ held /\ a \in {set(fill), set([mconf |-> o.mac]), set([mconf |-> NoText]), set(touch)}
      \/ a = Ok(m)
  <2> HIDE DEF a, free, made
  <2> QED BY <1>1, Zenon
<1> QED BY <1>6, <1>7, <1>8, <1>9, Zenon

\* ApplyARP over the sequences of operations that DoApplyARP gives it.
LEMMA ARPRun ==
  ASSUME NEW m, NEW t, NEW a, NEW b, NEW one, one = afterARPOp(Answer("ok", m, 1, 0), t, a)
  PROVE ApplyARP(m, t, <<a>>) = one /\ ApplyARP(m, t, <<a, b>>) = afterARPOp(one, t, b)
<1> DEFINE start == Answer("ok", m, 1, 0)
           two == afterARPOp(one, t, b)
<1>1. ASSUME NEW ops, ops \in {<<a>>, <<a, b>>} PROVE ApplyARP(m, t, ops) = IF ops = <<a>> THEN one ELSE two
  <2> DEFINE P(f) == f = [n \in 0 .. Len(ops) |-> IF n = 0 THEN start ELSE afterARPOp(f[n - 1], t, ops[n])]
             g == [n \in 0 .. Len(ops) |-> IF n = 0 THEN start ELSE IF n = 1 THEN one ELSE two]
             c == CHOOSE f : P(f)
  <2>1. /\ ops[1] = a /\ (ops = <<a>> => Len(ops) = 1) /\ (ops # <<a>> => Len(ops) = 2 /\ ops[2] = b)
    BY <1>1
  <2> HIDE DEF start
  <2>2. one = afterARPOp(start, t, a) /\ two = afterARPOp(one, t, b) BY Zenon DEF start
  <2> HIDE DEF two
  <2>3. \A n \in 0 .. Len(ops) : g[n] = IF n = 0 THEN start ELSE afterARPOp(g[n - 1], t, ops[n]) BY <2>1, <2>2
  <2>4. P(g) BY <2>3, Zenon
  <2>5. P(c)
    <3> HIDE DEF P, g
    <3> QED BY <2>4, Zenon
  <2>6. ApplyARP(m, t, ops) = c[Len(ops)] BY Zenon DEF ApplyARP, start
  <2> HIDE DEF c
  <2>7. \A n \in 0 .. Len(ops) : c[n] = IF n = 0 THEN start ELSE afterARPOp(c[n - 1], t, ops[n]) BY <2>5, Zenon
  <2>8. c[0] = start /\ c[1] = afterARPOp(c[0], t, a) /\ (Len(ops) = 2 => c[2] = afterARPOp(c[1], t, b)) BY <2>1, <2>7
  <2> QED BY <2>1, <2>2, <2>6, <2>8, Zenon
<1>2. <<a>> # <<a, b>> OBVIOUS
<1> HIDE DEF two
<1>3. \A ops \in {<<a>>, <<a, b>>} : ApplyARP(m, t, ops) = IF ops = <<a>> THEN one ELSE two BY <1>1, Zenon
<1>4. ApplyARP(m, t, <<a>>) = one BY <1>3, Zenon
<1>5. ApplyARP(m, t, <<a, b>>) = two BY <1>2, <1>3, Zenon
<1> QED BY <1>4, <1>5, Zenon DEF two

LEMMA ARPKeeps ==
  ASSUME NEW m, Good(m), NEW t \in Tenants, NEW a, NEW b, Target(m, "devices", t, a.dev), b.dev = a.dev, b.kind # "create",
         a.kind = "create" => a.id \in 1 .. born["addrs"] + 1
  PROVE Good(ApplyARP(m, t, <<a>>).db) /\ Good(ApplyARP(m, t, <<a, b>>).db)
<1> DEFINE d == applyARPOpLocked(m, t, a).db
           e == applyARPOpLocked(d, t, b).db
<1>1. Good(d) /\ d.devices = m.devices BY ARPOpKeeps, Zenon
<1>5. ApplyARP(m, t, <<a>>).db = d /\ ApplyARP(m, t, <<a, b>>).db = e
  <2> DEFINE one == afterARPOp(Answer("ok", m, 1, 0), t, a)
  <2>1. one.db = d /\ afterARPOp(one, t, b).db = e BY Zenon DEF afterARPOp, Answer
  <2>2. one = afterARPOp(Answer("ok", m, 1, 0), t, a) OBVIOUS
  <2> HIDE DEF d, e, one
  <2>3. ApplyARP(m, t, <<a>>) = one /\ ApplyARP(m, t, <<a, b>>) = afterARPOp(one, t, b) BY <2>2, ARPRun
  <2> QED BY <2>1, <2>3, Zenon
<1> HIDE DEF d
<1>3. Target(d, "devices", t, b.dev) BY <1>1, Zenon DEF Target
<1>4. Good(e) BY <1>1, <1>3, ARPOpKeeps, Zenon
<1> QED BY <1>1, <1>5, <1>4, Zenon

\* The link the correlation calls primary is a port of the tenant and the switch it is on.
LEMMA PrimaryLink ==
  ASSUME StoreInv, NEW t \in Tenants, NEW links \in LinkSets(t)
  PROVE /\ Target(mem, "devices", t, Primary(links)[1]) /\ Target(mem, "ifaces", t, Primary(links)[2])
        /\ Primary(links)[2] # 0 => Primary(links)[1] = mem.ifaces[Primary(links)[2]].device
<1>1. CASE links = {} BY <1>1, Zenon DEF Primary, Target
<1>2. CASE links # {}
  <2>1. Primary(links) \in links BY <1>2, Zenon DEF Primary
  <2>2. PICK S \in SUBSET Rows("ifaces", t) : links = {<<mem.ifaces[p].device, p>> : p \in S} BY Zenon DEF LinkSets
  <2>3. PICK q \in S : Primary(links) = <<mem.ifaces[q].device, q>> BY <2>1, <2>2, Zenon
  <2>4. Own(mem, "ifaces", t, q) BY <2>2, <2>3, RowsExist, Zenon
  <2>5. RowOK(mem, "ifaces", q, mem.ifaces[q]) /\ mem.ifaces[q].tenant = t
    BY <2>4, Zenon DEF StoreInv, Good, Own, RowTables, Tables
  <2>6. Ref("ifaces", "device", "devices", "cascade") \in Kept BY Zenon DEF Kept, Refs, BaseRefs, Ref
  <2>7. Target(mem, "devices", t, mem.ifaces[q].device) BY <2>5, <2>6, Zenon DEF RowOK, Sure, Ref
  <2>8. Primary(links)[1] = mem.ifaces[q].device /\ Primary(links)[2] = q BY <2>3
  <2> QED BY <2>4, <2>7, <2>8, Zenon DEF Target, Own
<1> QED BY <1>1, <1>2, Zenon

LEMMA SetAddressLinksKeeps ==
  ASSUME StoreInv, NEW t \in Tenants, NEW i, NEW links \in LinkSets(t)
  PROVE Good(SetAddressLinks(mem, t, i, Primary(links)[1], Primary(links)[2], links).db)
<1> DEFINE d == setHostLinksLocked(mem, t, "address", i, links)
           sw == Primary(links)[1]
           port == Primary(links)[2]
           row == [[mem.addrs[i] EXCEPT !.lswitch = sw] EXCEPT !.lport = port]
           T == [d.addrs EXCEPT ![i] = row]
<1>0. Good(mem) /\ "addrs" \in RowTables BY Zenon DEF StoreInv, RowTables, Tables
<1>1. Good(d) BY <1>0, HostLinksSet, Zenon
<1>2. d.addrs = mem.addrs /\ d.ifaces = mem.ifaces /\ d.devices = mem.devices /\ DOMAIN d = Tables
  BY <1>0, Zenon DEF setHostLinksLocked, Good, Tables
<1>3. /\ Target(mem, "devices", t, sw) /\ Target(mem, "ifaces", t, port)
      /\ port # 0 => sw = mem.ifaces[port].device
  BY PrimaryLink, Zenon
<1> HIDE DEF d, sw, port
<1> SUFFICES ASSUME Own(mem, "addrs", t, i) PROVE Good([d EXCEPT !.addrs[i].lswitch = sw, !.addrs[i].lport = port])
  BY <1>0, Zenon DEF SetAddressLinks, Err, Answer, d, sw, port
<1>4. [d EXCEPT !.addrs[i].lswitch = sw, !.addrs[i].lport = port] = [d EXCEPT !.addrs = T] BY <1>2, Zenon DEF Own, Tables
<1>5. RowOK(d, "addrs", i, d.addrs[i]) BY <1>0, <1>1, <1>2, Zenon DEF Good, Own
<1>6. {"lswitch", "lport"} \subseteq DOMAIN mem.addrs[i] BY <1>2, <1>5, LinkColumns, Zenon
<1>7. /\ DOMAIN row = DOMAIN mem.addrs[i] /\ row.lswitch = sw /\ row.lport = port
      /\ \A c \in DOMAIN row \ {"lswitch", "lport"} : row[c] = mem.addrs[i][c]
  BY <1>6, Zenon
<1>8. T[i] = row /\ DOMAIN T = DOMAIN d.addrs /\ \A k \in DOMAIN T \ {i} : T[k] = d.addrs[k] BY <1>2, Zenon DEF Own
<1> HIDE DEF row, T
<1>9. RowOK(d, "addrs", i, row)
  <2>1. "tenant" \in DOMAIN row /\ row.tenant = t BY <1>5, <1>2, <1>7, Zenon DEF RowOK, Own
  <2>2. ASSUME NEW r \in Kept, r.from = "addrs"
        PROVE r.col \in DOMAIN row /\ (Sure(r) => Target(d, r.to, row.tenant, row[r.col]))
    <3>1. r.col \in DOMAIN d.addrs[i] /\ (Sure(r) => Target(d, r.to, d.addrs[i].tenant, d.addrs[i][r.col])) BY <1>5, <2>2, Zenon DEF RowOK
    <3>2. CASE r.col = "lswitch"
      <4>1. r.to = "devices" BY <2>2, <3>2, RefsFrom, Zenon
      <4> QED BY <1>2, <1>3, <1>6, <1>7, <2>1, <3>2, <4>1, Zenon DEF Target
    <3>3. CASE r.col = "lport"
      <4>1. r.to = "ifaces" BY <2>2, <3>3, RefsFrom, Zenon
      <4> QED BY <1>2, <1>3, <1>6, <1>7, <2>1, <3>3, <4>1, Zenon DEF Target
    <3>4. CASE r.col \notin {"lswitch", "lport"}
      <4>1. row[r.col] = d.addrs[i][r.col] /\ d.addrs[i].tenant = t /\ r.col \in DOMAIN row BY <1>2, <1>7, <3>1, <3>4, Zenon DEF Own
      <4> QED BY <2>1, <3>1, <4>1, Zenon
    <3> QED BY <3>2, <3>3, <3>4, Zenon
  <2>3. Keyed("addrs", i, row) BY <1>5, Zenon DEF RowOK, Keyed
  <2>4. LinkAgrees(d, row) BY <1>2, <1>3, <1>7, Zenon DEF LinkAgrees
  <2> QED BY <2>1, <2>2, <2>3, <2>4, Zenon DEF RowOK
<1>10. \A k \in DOMAIN T : (k \in DOMAIN d.addrs /\ T[k] = d.addrs[k]) \/ RowOK(d, "addrs", k, T[k]) BY <1>8, <1>9, Zenon
<1>11. \A k \in DOMAIN d.addrs : Relied("addrs", d.addrs[k], T[k]) BY Zenon DEF Relied, Referred
<1>12. Good([d EXCEPT !.addrs = T]) BY <1>0, <1>1, <1>8, <1>10, <1>11, Stored, Zenon
<1> QED BY <1>4, <1>12, Zenon

LEMMA UpsertAddressKeeps ==
  ASSUME StoreInv, NEW t \in Tenants, NEW i \in Fresh("addrs", t), NEW r, DOMAIN r = AddressColumns,
         Target(mem, "subnets", t, r.subnet), r.device = 0, r.mdev = 0
  PROVE Good(UpsertAddressByAddress(mem, t, i, r).db)
<1> DEFINE found == Where(mem, "addrs", t, [addr |-> r.addr])
           k == CHOOSE x \in found : TRUE
           old == mem.addrs[k]
           seen(c) == IF r[c] # NoText /\ old.report # "reported" THEN r[c] ELSE old[c]
           cols == [hostname |-> seen("hostname"), mac |-> seen("mac"),
                    status |-> IF old.status = "offline" /\ r.status # NoText THEN r.status ELSE old.status]
<1>0. Good(mem) /\ "addrs" \in IdTables BY Zenon DEF StoreInv, IdTables, Tables
<1>1. CASE found = {}
  <2>1. Target(mem, "devices", t, r.device) BY Zenon DEF Target
  <2>2. Good(CreateAddress(mem, t, i, r).db) BY <2>1, AddressCreated, Zenon
  <2>3. UpsertAddressByAddress(mem, t, i, r) = [CreateAddress(mem, t, i, r) EXCEPT !.val = "created"]
    BY <1>1, Zenon DEF UpsertAddressByAddress
  <2>4. [CreateAddress(mem, t, i, r) EXCEPT !.val = "created"].db = CreateAddress(mem, t, i, r).db
    BY Zenon DEF CreateAddress, Save, Ok, Err, Answer
  <2> QED BY <2>2, <2>3, <2>4, Zenon
<1>2. CASE found # {}
  <2>1. UpsertAddressByAddress(mem, t, i, r) = Change(mem, "addrs", t, k, cols, FALSE) BY <1>2, Zenon DEF UpsertAddressByAddress
  <2>2. DOMAIN cols = {"hostname", "mac", "status"} OBVIOUS
  <2> HIDE DEF cols, k
  <2>3. Good(Change(mem, "addrs", t, k, cols, FALSE).db) BY <1>0, <2>2, RefsFrom, ChangeOK, Zenon
  <2> QED BY <2>1, <2>3, Zenon
<1> QED BY <1>1, <1>2, Zenon

LEMMA AddressingKeep == ASSUME StoreInv, Addressing PROVE Good(mem')
<1>0. Good(mem) /\ "addrs" \in IdTables BY Zenon DEF StoreInv, IdTables, Tables
<1>1. CASE DoCreateAddress
  <2> SUFFICES ASSUME NEW t \in Tenants, NEW i \in Fresh("addrs", t), NEW r \in AddressRows(t) PROVE Good(CreateAddress(mem, t, i, r).db)
    BY <1>1, Zenon DEF DoCreateAddress, Do
  <2> QED BY AddressRowColumns, AddressCreated, Zenon
<1>2. CASE DoUpdateAddress
  <2> SUFFICES ASSUME NEW t \in Tenants, NEW i \in Ids("addrs"), NEW r \in AddressRows(t) PROVE Good(UpdateAddress(mem, t, i, r).db)
    BY <1>2, Zenon DEF DoUpdateAddress, Do
  <2> DEFINE cols == Drop(r, DOMAIN clearAddrServerFields)
  <2>1. /\ DOMAIN cols = {"addr", "subnet", "device", "hostname", "mac", "status", "msrc", "mdev", "mconf"}
        /\ Target(mem, "subnets", t, cols.subnet) /\ Target(mem, "devices", t, cols.device) /\ cols.mdev = 0
    BY AddressRowColumns, Zenon DEF Drop, clearAddrServerFields, AddressColumns
  <2> HIDE DEF cols
  <2>2. \A x \in Kept : x.from = "addrs" /\ x.col \in DOMAIN cols => Target(mem, x.to, t, cols[x.col])
    BY <2>1, RefsFrom DEF Target
  <2> QED BY <1>0, <2>1, <2>2, ChangeOK, Zenon DEF UpdateAddress, cols
<1>3. CASE DoDeleteAddress
  <2> SUFFICES ASSUME NEW t \in Tenants, NEW i \in Ids("addrs") PROVE Good(DeleteAddress(mem, t, i).db)
    BY <1>3, Zenon DEF DoDeleteAddress, Do
  <2> QED BY <1>0, DeleteAddressOK, Zenon
<1>4. CASE DoUpsertAddressByAddress
  <2> DEFINE seen(r) == [r EXCEPT !.hostname = IF r.addr = "y" THEN NoText ELSE "ptr", !.status = "active", !.msrc = NoText,
                                  !.device = 0]
  <2> SUFFICES ASSUME NEW t \in Tenants, NEW i \in Fresh("addrs", t), NEW r \in AddressRows(t)
               PROVE Good(UpsertAddressByAddress(mem, t, i, seen(r)).db)
    BY <1>4, ZenonT(30) DEF DoUpsertAddressByAddress, Do
  <2>1. DOMAIN seen(r) = AddressColumns /\ Target(mem, "subnets", t, seen(r).subnet) /\ seen(r).device = 0 /\ seen(r).mdev = 0
    BY AddressRowColumns, Zenon DEF AddressColumns
  <2> HIDE DEF seen
  <2> QED BY <2>1, UpsertAddressKeeps, ZenonT(30)
<1>5. CASE DoApplyARP
  <2> SUFFICES ASSUME NEW t \in Tenants, NEW o \in ARPOps(t),
                      NEW ops \in {<<o>>, <<o, [o EXCEPT !.kind = "conflict"]>>}
               PROVE Good(ApplyARP(mem, t, ops).db)
    BY <1>5, Zenon DEF DoApplyARP, Do
  <2> DEFINE b == [o EXCEPT !.kind = "conflict"]
  <2>2. /\ Target(mem, "devices", t, o.dev) /\ (o.kind = "create" => o.id \in Fresh("addrs", t))
        /\ b.dev = o.dev /\ b.kind # "create"
    BY RowsExist, Zenon DEF ARPOps
  <2>3. o.kind = "create" => o.id \in 1 .. born["addrs"] + 1 BY <1>0, <2>2, FreshIds, Zenon
  <2>4. ops = <<o>> \/ ops = <<o, b>> BY Zenon
  <2> HIDE DEF b
  <2>5. Good(ApplyARP(mem, t, <<o>>).db) /\ Good(ApplyARP(mem, t, <<o, b>>).db) BY <1>0, <2>2, <2>3, ARPKeeps, Zenon
  <2> QED BY <2>4, <2>5, Zenon
<1>6. CASE DoPutARPSettings
  <2> SUFFICES ASSUME NEW t \in Tenants, NEW cfg, DOMAIN cfg = {"enabled", "threshold", "excluded"}
               PROVE Good(PutARPSettings(mem, t, cfg).db)
    BY <1>6, RoomsAssumption DEF DoPutARPSettings, Do, DefaultARPSettings, StoreInv
  <2> DEFINE row == cfg \uplus [tenant |-> t]
  <2>1. "tenant" \in DOMAIN row /\ row.tenant = t BY Zenon DEF \uplus
  <2>2. "arp" \in RowTables /\ "arp" \notin IdTables BY Zenon DEF RowTables, Tables, IdTables
  <2> HIDE DEF row
  <2>3. RowOK(mem, "arp", t, row) BY <2>1, <2>2, RefsFrom, Zenon DEF RowOK, Keyed
  <2>4. \A old : Relied("arp", old, row) BY Zenon DEF Relied, Referred
  <2>5. PutARPSettings(mem, t, cfg).db = Save(mem, "arp", t, row, FALSE).db BY LoggedDb, ZenonT(30) DEF PutARPSettings, row
  <2> QED BY <1>0, <2>2, <2>3, <2>4, <2>5, SaveOK, Zenon
<1>7. CASE DoSetAddressLinks
  <2> SUFFICES ASSUME NEW t \in Tenants, NEW i \in Ids("addrs"), NEW links \in LinkSets(t)
               PROVE Good(SetAddressLinks(mem, t, i, Primary(links)[1], Primary(links)[2], links).db)
    BY <1>7, ZenonT(30) DEF DoSetAddressLinks, Do
  <2> QED BY SetAddressLinksKeeps, Zenon
<1>8. CASE DoClearAddressConflict
  <2> SUFFICES ASSUME NEW t \in Tenants, NEW i \in Ids("addrs") PROVE Good(ClearAddressConflict(mem, t, i).db)
    BY <1>8, Zenon DEF DoClearAddressConflict, Do
  <2> DEFINE cols == [conflict |-> FALSE]
  <2>1. DOMAIN cols = {"conflict"} OBVIOUS
  <2>2. ClearAddressConflict(mem, t, i).db = Change(mem, "addrs", t, i, cols, FALSE).db 
    BY Zenon DEF ClearAddressConflict, Logged, Change, Save, Ok, Err, Answer
  <2> HIDE DEF cols
  <2>3. Good(Change(mem, "addrs", t, i, cols, FALSE).db) BY <1>0, <2>1, RefsFrom, ChangeOK, Zenon
  <2> QED BY <2>2, <2>3, Zenon
<1> QED BY <1>1, <1>2, <1>3, <1>4, <1>5, <1>6, <1>7, <1>8, ZenonT(30) DEF Addressing

=============================================================================
