----------------------------- MODULE StoreRows -----------------------------
(***************************************************************************)
(* The vocabulary the two implementations of repo.Store share: tables are  *)
(* functions from keys to rows, rows are records with a "tenant" column,   *)
(* 0 is a null reference and "" a blank text column.                       *)
(***************************************************************************)
EXTENDS Integers, Sequences, FiniteSets, Functions

CONSTANT Tenants

Tables == {"locs", "vlans", "subnets", "addrs", "devices", "ifaces", "links", "pkgs",
           "ipGroups", "ipMembers", "hostGroups", "hostMembers", "scans", "dns", "guests",
           "hsSettings", "devState", "snmp", "arp", "hostLinks", "hardware"}

None == [x \in {} |-> x]

\* A blank text column.
NoText == ""

Put(f, k, v) == [x \in DOMAIN f \cup {k} |-> IF x = k THEN v ELSE f[x]]

\* The columns of f, and those of g that f does not have: @@ in a form the prover expands.
f \uplus g == [c \in DOMAIN f \cup DOMAIN g |-> IF c \in DOMAIN f THEN f[c] ELSE g[c]]

Drop(f, ks) == [k \in DOMAIN f \ ks |-> f[k]]

\* The rows of tab that tenant t may see and that satisfy every equality of the filter.
Where(d, tab, t, filter) ==
  {k \in DOMAIN d[tab] : /\ d[tab][k].tenant = t
                         /\ \A c \in DOMAIN filter : d[tab][k][c] = filter[c]}

Own(d, tab, t, i) == i \in DOMAIN d[tab] /\ d[tab][i].tenant = t

Count(d, tab, t, filter) == Cardinality(Where(d, tab, t, filter))

\* What a repository call answers: the error class, the tables afterwards, the
\* audit rows written and the value returned.
Answer(e, d, n, v) == [err |-> e, db |-> d, log |-> n, val |-> v]

Ok(d) == Answer("ok", d, 0, 0)

Err(e, d) == Answer(e, d, 0, 0)

Logged(a, n) == [a EXCEPT !.log = IF a.err = "ok" THEN n ELSE 0]

\* A text column that is blank, or a null reference or address.
Blank(col, v) == IF col \in {"location", "mgmt"} THEN v = 0 ELSE v = NoText

\* Its interfaces' MACs are never a host's.
IsNetworkDevice(type) == type \in {"router", "switch", "firewall", "load_balancer"}

\* The settings of a tenant that has stored none.
DefaultARPSettings == [enabled |-> TRUE, threshold |-> 8, excluded |-> {}]

Columns(f, names) == [c \in names |-> f[c]]

(***************************************************************************)
(* The schema of internal/store/migrations as data.                        *)
(***************************************************************************)
Ref(from, col, to, act) == [from |-> from, col |-> col, to |-> to, act |-> act]

BaseRefs ==
  {Ref("locs", "parent", "locs", "null"), Ref("vlans", "location", "locs", "null"),
   Ref("subnets", "vlan", "vlans", "null"), Ref("subnets", "parent", "subnets", "null"),
   Ref("subnets", "location", "locs", "null"), Ref("devices", "location", "locs", "null"),
   Ref("addrs", "subnet", "subnets", "cascade"), Ref("addrs", "device", "devices", "null"),
   Ref("ifaces", "device", "devices", "cascade"), Ref("links", "iface", "ifaces", "cascade"),
   Ref("pkgs", "device", "devices", "cascade"), Ref("ipMembers", "group", "ipGroups", "cascade"),
   Ref("hostMembers", "group", "hostGroups", "cascade"),
   Ref("hostMembers", "device", "devices", "cascade"),
   Ref("scans", "subnet", "subnets", "cascade")}

HostSyncRefs ==
  {Ref("devices", "hyper", "devices", "null"), Ref("guests", "device", "devices", "cascade"),
   Ref("guests", "guest", "devices", "null"), Ref("devState", "device", "devices", "cascade")}

LinkRefs ==
  {Ref("addrs", "mdev", "devices", "null"), Ref("addrs", "lswitch", "devices", "null"),
   Ref("addrs", "lport", "ifaces", "null"), Ref("hostLinks", "switch", "devices", "cascade"),
   Ref("hostLinks", "port", "ifaces", "cascade"), Ref("snmp", "subnet", "subnets", "cascade"),
   Ref("hardware", "device", "devices", "cascade")}

Refs == BaseRefs \cup HostSyncRefs \cup LinkRefs

\* Unique indexes; the tables keyed by their unique columns need no entry.
Unique ==
  [tab \in Tables |->
    CASE tab = "locs" -> {{"tenant", "name"}, {"tenant", "code"}}
      [] tab = "vlans" -> {{"tenant", "name"}, {"tenant", "num"}}
      [] tab = "devices" -> {{"tenant", "name"}, {"tenant", "host"}}
      [] tab \in {"subnets", "ipGroups", "hostGroups"} -> {{"tenant", "name"}}
      [] tab = "addrs" -> {{"tenant", "addr"}}
      [] tab = "ifaces" -> {{"device", "name"}}
      [] tab = "ipMembers" -> {{"group", "value"}}
      [] tab = "hostMembers" -> {{"group", "device"}}
      [] tab = "guests" -> {{"device", "ref"}}
      [] OTHER -> {}]

\* Partial indexes skip a blank value of these columns.
Sparse == {"code", "host"}

=============================================================================
