-------------------------- MODULE NetworkServices --------------------------
(***************************************************************************)
(* The services over locations, VLANs and subnets: internal/locations,     *)
(* internal/vlans, internal/subnets and the inheritance of                 *)
(* internal/snmpcred.  Every operation is a function of a frame; see       *)
(* Frames.  A row's name is a sequence, <<>> when blank.                   *)
(***************************************************************************)
EXTENDS Frames

CONSTANTS MaxHops,       \* guardCycle's 256
          MaxDepth,      \* snmpcred.MaxDepth, 64
          MaxSubdivide,  \* ipnet.MaxSubdivide, 1024
          PageLimit      \* the 500 rows GetTree reads at a time

(***************************************************************************)
(* Locations.                                                              *)
(***************************************************************************)
validateLocation(r, id) == r.name # <<>> /\ (r.parent = 0 \/ r.parent # id)

\* The materialised path below the parent just read; a missing parent is a
\* validation error.
computePath(f, d, at) ==
  LET r == f.in.row
      a == S!GetLocation(d, f.t, r.parent)
  IN IF r.parent = 0 THEN Go(f, d, at, [path |-> r.name])
     ELSE IF a.err = "ok" THEN Go(f, d, at, [path |-> a.val.path \o r.name])
     ELSE Refuse(f, d, "validation")

LocationsCreate(f, d, n) ==
  CASE f.at = "begin" -> IF validateLocation(f.in.row, f.in.id) THEN computePath(f, d, "insert")
                         ELSE Refuse(f, d, "validation")
    [] f.at = "insert" -> Then(f, S!CreateLocation(d, f.t, n, [path |-> f.x.path] @@ f.in.row), "reread", [id |-> n])
    [] f.at = "reread" -> Reread(f, S!GetLocation(d, f.t, f.x.id), "locs")

\* Mutants of guardCycle: no hop limit; a limit that is one hop short.
guardCycleUnbounded(f, d) ==
  LET a == S!GetLocation(d, f.t, f.x.cur)
  IN IF f.x.cur = 0 THEN computePath(f, d, "write")
     ELSE IF f.x.cur = f.in.id THEN Refuse(f, d, "validation")
     ELSE Go(f, d, "guard", [cur |-> IF a.err = "ok" THEN a.val.parent ELSE 0])

guardCycleShort(f, d) ==
  LET a == S!GetLocation(d, f.t, f.x.cur)
  IN IF f.x.cur = 0 \/ f.x.hops = MaxHops - 1 THEN computePath(f, d, "write")
     ELSE IF f.x.cur = f.in.id THEN Refuse(f, d, "validation")
     ELSE Go(f, d, "guard", [cur |-> IF a.err = "ok" THEN a.val.parent ELSE 0, hops |-> f.x.hops + 1])

\* One hop of the walk up from the new parent: reaching the location itself is a
\* cycle; a vanished ancestor, the root or the hop limit ends the walk, and the move
\* is let through.
guardCycle(f, d) ==
  LET a == S!GetLocation(d, f.t, f.x.cur)
  IN IF f.x.cur = 0 \/ f.x.hops = MaxHops THEN computePath(f, d, "write")
     ELSE IF f.x.cur = f.in.id THEN Refuse(f, d, "validation")
     ELSE IF a.err = "ok" THEN Go(f, d, "guard", [cur |-> a.val.parent, hops |-> f.x.hops + 1])
     ELSE Go(f, d, "guard", [cur |-> 0])

LocationsUpdate(f, d, n) ==
  LET r == f.in.row
      ex == S!GetLocation(d, f.t, f.in.id)
  IN CASE f.at = "begin" ->
            IF ~validateLocation(r, f.in.id) THEN Refuse(f, d, "validation")
            ELSE IF ex.err # "ok" THEN Refuse(f, d, ex.err)
            ELSE IF r.parent # ex.val.parent \/ r.name # ex.val.name
              THEN Go(f, d, "guard", [cur |-> r.parent, hops |-> 0])
            ELSE Go(f, d, "write", [path |-> ex.val.path])
       [] f.at = "guard" -> guardCycle(f, d)
       [] f.at = "write" -> Then(f, S!UpdateLocation(d, f.t, f.in.id, [path |-> f.x.path] @@ r), "reread", [id |-> f.in.id])
       [] f.at = "reread" -> Reread(f, S!GetLocation(d, f.t, f.x.id), "locs")

LocationsDelete(f, d, n) ==
  LET l == S!GetLocation(d, f.t, f.in.id)
  IN IF f.at = "begin" /\ ~f.in.force
       THEN IF l.err = "ok" /\ l.val.children > 0 THEN Refuse(f, d, "notempty") ELSE Then(f, l, "delete", None)
     ELSE Reply(f, S!DeleteLocation(d, f.t, f.in.id, f.in.force), {})

\* The rows a forest shows: those that reach a root, where a parent that is not
\* among the rows makes a root.  A cycle of parents hides its members.
RECURSIVE Shown(_, _)
Shown(parents, found) ==
  LET more == {i \in DOMAIN parents \ found : parents[i] \in found \/ parents[i] \notin DOMAIN parents}
  IN IF more = {} THEN found ELSE Shown(parents, found \cup more)

\* Pages newest first; a full page asks for the next one.
LocationsGetTree(f, d, n) ==
  LET got == IF f.at = "begin" THEN None ELSE f.x.got
      cursor == IF f.at = "begin" THEN 0 ELSE Min(DOMAIN got)
      page == S!ListLocations(d, f.t, None, cursor, PageLimit)
      all == [i \in Range(page) |-> d.locs[i].parent] @@ got
  IN IF Len(page) = PageLimit THEN Go(f, d, "page", [got |-> all])
     ELSE Read(f, d, "locs", Shown(all, {}))

LocationsGet(f, d, n) == GetOne(f, d, "locs", S!GetLocation(d, f.t, f.in.id))

LocationsList(f, d, n) == ListAll(f, d, "locs", f.in.filter)

(***************************************************************************)
(* VLANs.                                                                  *)
(***************************************************************************)
MaxVlanID == 4094

validateVlan(r) == r.num \in 1 .. MaxVlanID /\ r.name # <<>>

\* Mutant of VlansCreate: inserted first, checked afterwards.
VlansCreateUnchecked(f, d, n) ==
  CASE f.at = "begin" -> Then(f, S!CreateVlan(d, f.t, n, f.in.row), "reread", [id |-> n])
    [] f.at = "reread" ->
         IF ~validateVlan(f.in.row) THEN Refuse(f, d, "validation")
         ELSE Reread(f, S!GetVlan(d, f.t, f.x.id), "vlans")

VlansCreate(f, d, n) ==
  CASE f.at = "begin" ->
         IF ~validateVlan(f.in.row) THEN Refuse(f, d, "validation")
         ELSE Then(f, S!CreateVlan(d, f.t, n, f.in.row), "reread", [id |-> n])
    [] f.at = "reread" -> Reread(f, S!GetVlan(d, f.t, f.x.id), "vlans")

VlansUpdate(f, d, n) ==
  CASE f.at = "begin" ->
         IF ~validateVlan(f.in.row) THEN Refuse(f, d, "validation")
         ELSE Then(f, S!GetVlan(d, f.t, f.in.id), "write", [id |-> f.in.id])
    [] f.at = "write" -> Then(f, S!UpdateVlan(d, f.t, f.in.id, f.in.row), "reread", None)
    [] f.at = "reread" -> Reread(f, S!GetVlan(d, f.t, f.x.id), "vlans")

VlansDelete(f, d, n) ==
  IF f.at = "begin" /\ ~f.in.force
    THEN IF DOMAIN S!SubnetsForVlan(d, f.t, f.in.id) # {} THEN Refuse(f, d, "notempty") ELSE Go(f, d, "delete", None)
  ELSE Reply(f, S!DeleteVlan(d, f.t, f.in.id, f.in.force), {})

VlansGet(f, d, n) == GetOne(f, d, "vlans", S!GetVlan(d, f.t, f.in.id))

VlansList(f, d, n) == ListAll(f, d, "vlans", f.in.filter)

VlansPage(f, d, n) == ListAll(f, d, "vlans", f.in.filter)

VlansGetSubnets(f, d, n) == Read(f, d, "subnets", DOMAIN S!SubnetsForVlan(d, f.t, f.in.id))

(***************************************************************************)
(* Subnets.                                                                *)
(***************************************************************************)
cidrOf(r) == Block(r.v, r.base, r.bits)

\* v = 0 stands for a CIDR that does not parse, gw = 0 for no gateway.
deriveCIDR(r) == r.v \in {4, 6}

checkGateway(r) == r.gw = 0 \/ GatewayInRange(cidrOf(r), r.gw)

\* id and the subnets above it in the snapshot, cycles cut.
RECURSIVE above(_, _, _)
above(subs, id, seen) ==
  IF id = 0 \/ id \in seen THEN seen
  ELSE above(subs, IF id \in DOMAIN subs THEN subs[id].parent ELSE 0, seen \cup {id})

\* What a block may overlap: its parent, all above that, and all below itself.
nestedWith(subs, self, parent) ==
  above(subs, parent, {}) \cup {i \in DOMAIN subs : self # 0 /\ self \in above(subs, subs[i].parent, {})}

\* Mutant of checkOverlap: only blocks that contain the new one count.
checkOverlapOutward(subs, r, self) ==
  /\ r.parent # 0 => r.parent \in DOMAIN subs /\ Within(cidrOf(r), cidrOf(subs[r.parent]))
  /\ \A i \in DOMAIN subs \ ({self} \cup nestedWith(subs, self, r.parent)) : ~Within(cidrOf(r), cidrOf(subs[i]))

checkOverlap(subs, r, self) ==
  /\ r.parent # 0 => r.parent \in DOMAIN subs /\ Within(cidrOf(r), cidrOf(subs[r.parent]))
  /\ \A i \in DOMAIN subs \ ({self} \cup nestedWith(subs, self, r.parent)) : ~Overlaps(cidrOf(r), cidrOf(subs[i]))

SubnetsCreate(f, d, n) ==
  LET r == f.in.row
      insert == Then(f, S!CreateSubnet(d, f.t, n, r), "reread", [id |-> n])
  IN CASE f.at = "begin" ->
            IF ~(r.name # <<>> /\ deriveCIDR(r) /\ checkGateway(r)) THEN Refuse(f, d, "validation")
            ELSE IF f.in.allowOverlap THEN insert
            ELSE IF checkOverlap(S!AllSubnetCIDRs(d, f.t), r, 0) THEN Go(f, d, "insert", None)
                 ELSE Refuse(f, d, "validation")
       [] f.at = "insert" -> insert
       [] f.at = "reread" -> Reread(f, S!GetSubnet(d, f.t, f.x.id), "subnets")

\* A blank name or CIDR is inherited from the row read first.
SubnetsUpdate(f, d, n) ==
  LET ex == S!GetSubnet(d, f.t, f.in.id)
      r == f.x.row
      keepName == IF f.in.row.name = <<>> THEN [name |-> ex.val.name] ELSE None
      keepCIDR == IF f.in.row.v = 0 THEN Columns(ex.val, {"v", "base", "bits"}) ELSE None
      write == Then(f, S!UpdateSubnet(d, f.t, f.in.id, r), "reread", [id |-> f.in.id])
  IN CASE f.at = "begin" -> IF ex.err = "ok" THEN Go(f, d, "check", [row |-> keepName @@ keepCIDR @@ f.in.row])
                            ELSE Refuse(f, d, ex.err)
       [] f.at = "check" ->
            IF ~(deriveCIDR(r) /\ checkGateway(r)) THEN Refuse(f, d, "validation")
            ELSE IF f.in.allowOverlap THEN write
            ELSE IF checkOverlap(S!AllSubnetCIDRs(d, f.t), r, f.in.id) THEN Go(f, d, "write", None)
                 ELSE Refuse(f, d, "validation")
       [] f.at = "write" -> write
       [] f.at = "reread" -> Reread(f, S!GetSubnet(d, f.t, f.x.id), "subnets")

SubnetsDelete(f, d, n) ==
  IF f.at = "begin" /\ ~f.in.force
    THEN IF S!CountAddressesInSubnet(d, f.t, f.in.id) > 0 THEN Refuse(f, d, "notempty") ELSE Go(f, d, "delete", None)
  ELSE Reply(f, S!DeleteSubnet(d, f.t, f.in.id, f.in.force), {})

overlapsAny(block, parent, existing) ==
  \E i \in DOMAIN existing \ {parent} : Overlaps(block, cidrOf(existing[i]))

\* The blocks not yet looked at that collide with nothing known; blocks in between
\* are skipped.  A child is named after its parent and its block.
Split(f, d, n) ==
  LET a == S!GetSubnet(d, f.t, f.in.id)
      p == f.x.parent
      free == SelectSeq(f.x.todo, LAMBDA b : ~overlapsAny(b, f.in.id, f.x.existing))
      child == [name |-> Append(p.name, Head(free).base), v |-> p.v, base |-> Head(free).base, bits |-> f.in.bits,
                gw |-> 0, parent |-> f.in.id, vlan |-> p.vlan, location |-> p.location]
  IN CASE f.at = "begin" ->
            IF a.err # "ok" THEN Refuse(f, d, a.err)
            ELSE IF ~CanSubdivide(cidrOf(a.val), f.in.bits, MaxSubdivide) THEN Refuse(f, d, "validation")
            ELSE Go(f, d, "snapshot", [parent |-> a.val, todo |-> Subdivide(cidrOf(a.val), f.in.bits), made |-> {}])
       [] f.at = "snapshot" -> Go(f, d, "blocks", [existing |-> S!AllSubnetCIDRs(d, f.t)])
       [] f.at = "blocks" ->
            IF free = <<>> THEN Return(f, d, IF f.x.made = {} THEN "validation" ELSE "ok", Rows("subnets", f.x.made))
            ELSE IF f.in.dryRun THEN Return(f, d, "ok", {})
            ELSE Then(f, S!CreateSubnet(d, f.t, n, child), "reread", [id |-> n, todo |-> Tail(free)])
       [] f.at = "reread" ->
            Then(f, S!GetSubnet(d, f.t, f.x.id), "blocks",
                 [made |-> f.x.made \cup {f.x.id},
                  existing |-> Put(f.x.existing, f.x.id, d.subnets[f.x.id])])

SubnetsGet(f, d, n) == GetOne(f, d, "subnets", S!GetSubnet(d, f.t, f.in.id))

SubnetsList(f, d, n) == ListAll(f, d, "subnets", f.in.filter)

SubnetsPage(f, d, n) == ListAll(f, d, "subnets", f.in.filter)

SubnetsGetTree(f, d, n) ==
  Read(f, d, "subnets", Shown([i \in Where(d, "subnets", f.t, None) |-> d.subnets[i].parent], {}))

\* The subnets, one count per subnet and the reserved addresses.
GetStats(f, d, n) ==
  Return(f, d, "ok", Rows("subnets", Where(d, "subnets", f.t, None))
                       \cup Rows("addrs", Where(d, "addrs", f.t, "status" :> "reserved")))

(***************************************************************************)
(* SNMP credentials of a subnet and their inheritance.                     *)
(***************************************************************************)
\* The nearest subnet at or above id with credentials of its own, 0 when there is
\* none before an unknown id, a cycle or the depth limit.
RECURSIVE Resolve(_, _, _, _, _)
Resolve(subs, own, id, seen, step) ==
  IF step > MaxDepth \/ id = 0 \/ id \in seen \/ id \notin DOMAIN subs THEN 0
  ELSE IF id \in own THEN id ELSE Resolve(subs, own, subs[id].parent, seen \cup {id}, step + 1)

Effective(d, t, id) == Resolve(S!AllSubnetCIDRs(d, t), Range(S!ListSubnetSNMP(d, t)), id, {}, 0)

\* Answers the subnet whose credentials apply.
GetSNMP(f, d, n) ==
  LET a == S!GetSubnet(d, f.t, f.in.id)
  IN IF f.at # "index" THEN Then(f, a, "index", None)
     ELSE Return(f, d, "ok", Rows("snmp", {Effective(d, f.t, f.in.id)} \ {0}))

SetSNMP(f, d, n) ==
  CASE f.at = "begin" ->
         IF f.in.version \notin {2, 3} THEN Refuse(f, d, "validation")
         ELSE Then(f, S!GetSubnet(d, f.t, f.in.id), "prev", None)
    [] f.at = "prev" -> Go(f, d, "put", [event |-> IF f.in.id \in DOMAIN d.snmp THEN "replaced" ELSE "set"])
    [] f.at = "put" -> Audited(Then(f, S!PutSubnetSNMP(d, f.t, f.in.id, f.in.version), "status", None), f.x.event, f.in.id)
    [] OTHER -> GetSNMP(f, d, n)

ClearSNMP(f, d, n) ==
  LET a == S!DeleteSubnetSNMP(d, f.t, f.in.id)
  IN CASE f.at = "begin" -> Then(f, S!GetSubnet(d, f.t, f.in.id), "prev", None)
       [] f.at = "prev" -> IF Own(d, "snmp", f.t, f.in.id) THEN Go(f, d, "delete", None) ELSE Return(f, d, "ok", {})
       [] f.at = "delete" -> IF a.err = "notfound" THEN Return(f, d, "ok", {})
                             ELSE Audited(Reply(f, a, {}), "cleared", f.in.id)

=============================================================================
