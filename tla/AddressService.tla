--------------------------- MODULE AddressService ---------------------------
(***************************************************************************)
(* internal/addresses: the address rows, the allocation of free hosts and  *)
(* the events published for them.                                          *)
(***************************************************************************)
EXTENDS Frames

CONSTANTS MaxAllocTries,        \* maxAllocTries, 20
          SkipFirst, SkipLast   \* the carve-outs New takes

Event(what, id, addr) == [kind |-> "publish", what |-> what, id |-> id, addr |-> addr]

\* The last step of a write: the event, then the answer.
Publish(f, d, what, val) ==
  [Return(f, d, "ok", val) EXCEPT !.fx = <<Event(what, f.x.id, f.x.addr)>>]

\* A new MAC is manual, an unchanged one keeps its provenance, a blank one has none.
manualMAC(r, ex) ==
  (CASE r.mac = "" -> [msrc |-> "", mdev |-> 0, mconf |-> ""]
     [] r.mac # "" /\ r.mac = ex.mac -> Columns(ex, {"msrc", "mdev", "mconf"})
     [] OTHER -> [msrc |-> "manual", mdev |-> 0, mconf |-> ""]) @@ r

NoAddress == [mac |-> ""]

AddressesCreate(f, d, n) ==
  LET r == manualMAC([status |-> IF f.in.row.status = "" THEN "active" ELSE f.in.row.status] @@ f.in.row, NoAddress)
  IN CASE f.at = "begin" -> Then(f, S!CreateAddress(d, f.t, n, r), "reread", [id |-> n, addr |-> r.addr])
       [] f.at = "reread" -> Then(f, S!GetAddress(d, f.t, f.x.id), "publish", None)
       [] f.at = "publish" -> Publish(f, d, "created", Rows("addrs", {f.x.id}))

\* A blank address, subnet or status is inherited from the row read first.
AddressesUpdate(f, d, n) ==
  LET r == f.in.row
      ex == S!GetAddress(d, f.t, f.in.id)
      inherit == [addr |-> IF r.addr = 0 THEN ex.val.addr ELSE r.addr,
                  subnet |-> IF r.subnet = 0 THEN ex.val.subnet ELSE r.subnet,
                  status |-> IF r.status = "" THEN ex.val.status ELSE r.status] @@ r
  IN CASE f.at = "begin" -> IF ex.err = "ok" THEN Go(f, d, "write", [row |-> manualMAC(inherit, ex.val)])
                            ELSE Refuse(f, d, ex.err)
       [] f.at = "write" -> Then(f, S!UpdateAddress(d, f.t, f.in.id, f.x.row), "reread", [id |-> f.in.id])
       [] f.at = "reread" -> IF ex.err = "ok" THEN Go(f, d, "publish", [addr |-> ex.val.addr]) ELSE Refuse(f, d, ex.err)
       [] f.at = "publish" -> Publish(f, d, "updated", Rows("addrs", {f.x.id}))

\* Mutant of AddressesDelete: the event goes out before the row is deleted.
AddressesDeleteEarly(f, d, n) ==
  LET a == S!GetAddress(d, f.t, f.in.id)
      b == S!DeleteAddress(d, f.t, f.in.id)
  IN CASE f.at = "begin" -> IF a.err = "ok" THEN Go(f, d, "publish", [id |-> f.in.id, addr |-> a.val.addr])
                            ELSE Refuse(f, d, a.err)
       [] f.at = "publish" -> [Go(f, d, "delete", None) EXCEPT !.fx = <<Event("deleted", f.x.id, f.x.addr)>>]
       [] f.at = "delete" -> IF b.err = "ok" THEN Return(f, b.db, "ok", {}) ELSE Refuse(f, d, b.err)

AddressesDelete(f, d, n) ==
  LET a == S!GetAddress(d, f.t, f.in.id)
  IN CASE f.at = "begin" -> IF a.err = "ok" THEN Go(f, d, "delete", [id |-> f.in.id, addr |-> a.val.addr])
                            ELSE Refuse(f, d, a.err)
       [] f.at = "delete" -> Then(f, S!DeleteAddress(d, f.t, f.in.id), "publish", None)
       [] f.at = "publish" -> Publish(f, d, "deleted", {})

AddressesGet(f, d, n) == GetOne(f, d, "addrs", S!GetAddress(d, f.t, f.in.id))

AddressesList(f, d, n) == ListAll(f, d, "addrs", f.in.filter)

AddressesPage(f, d, n) == ListAll(f, d, "addrs", f.in.filter)

Find(f, d, n) == Reply(f, S!FindAddress(d, f.t, f.in.addr), Rows("addrs", Where(d, "addrs", f.t, "addr" :> f.in.addr)))

(***************************************************************************)
(* Allocation.  The exclude set is read once, from this subnet's rows; a   *)
(* host somebody else holds shows up as a conflict of the insert.          *)
(***************************************************************************)
allocatedSet(d, t, subnet, extra) == S!ListAllocated(d, t, subnet) \cup extra

FreeIn(sub, exclude) == Free(Block(sub.v, sub.base, sub.bits), exclude, sub.gw, SkipFirst, SkipLast)

HostRow(sub, addr, hostname) ==
  [addr |-> addr, subnet |-> sub, device |-> 0, hostname |-> hostname, iface |-> "", mac |-> "", status |-> "active",
   msrc |-> "", mdev |-> 0, mconf |-> ""]

\* One round of allocInto: the lowest free host is inserted; a conflict excludes it,
\* and the last conflict allowed gives up.
insertLowest(f, d, n, free, hostname) ==
  LET ip == Min(free)
      a == S!CreateAddress(d, f.t, n, HostRow(f.in.subnet, ip, hostname))
  IN CASE free = {} -> Return(f, d, "noavailable", f.x.made)
       [] free # {} /\ a.err = "conflict" ->
            IF f.x.conflicts + 1 >= MaxAllocTries THEN Return(f, d, "conflict", f.x.made)
            ELSE Go(f, d, "claim", [exclude |-> f.x.exclude \cup {ip}, conflicts |-> f.x.conflicts + 1])
       [] free # {} /\ a.err = "ok" -> Go(f, a.db, "find", [exclude |-> f.x.exclude \cup {ip}, addr |-> ip])
       [] OTHER -> Return(f, d, a.err, f.x.made)

\* Mutants of Claim: startFrom itself is left out; a conflicting row is answered as if allocated.
ClaimAfter(f, d, n, startFrom, hostname) ==
  insertLowest(f, d, n, {a \in FreeIn(f.x.sub, f.x.exclude) : startFrom < a}, hostname)

ClaimAdopting(f, d, n, startFrom, hostname) ==
  LET free == {a \in FreeIn(f.x.sub, f.x.exclude) : startFrom <= a}
      there == IF free = {} THEN {} ELSE Where(d, "addrs", f.t, "addr" :> Min(free))
  IN IF there = {} THEN insertLowest(f, d, n, free, hostname)
     ELSE IF "id" \in DOMAIN f.x /\ f.x.id \in there THEN Return(f, d, "ok", f.x.made \cup Rows("addrs", there))
     ELSE LET i == CHOOSE k \in there : TRUE IN Go(f, d, "claim", [id |-> i, got |-> d.addrs[i]])

\* Hosts at or above startFrom.
Claim(f, d, n, startFrom, hostname) ==
  insertLowest(f, d, n, {a \in FreeIn(f.x.sub, f.x.exclude) : startFrom <= a}, hostname)

\* The row is read back by its address, not by its id.
FindClaimed(f, d) ==
  LET a == S!FindAddress(d, f.t, f.x.addr)
      id == CHOOSE i \in Where(d, "addrs", f.t, "addr" :> f.x.addr) : TRUE
  IN IF a.err = "ok" THEN Go(f, d, "publish", [id |-> id, got |-> d.addrs[id]]) ELSE Return(f, d, a.err, f.x.made)

\* GetSubnet, then the exclude set.
StartAllocation(f, d, extra) ==
  LET a == S!GetSubnet(d, f.t, f.in.subnet)
  IN IF f.at = "begin" THEN IF a.err = "ok" THEN Go(f, d, "exclude", [sub |-> a.val, made |-> {}])
                            ELSE Refuse(f, d, a.err)
     ELSE Go(f, d, "claim", [exclude |-> allocatedSet(d, f.t, f.in.subnet, extra), conflicts |-> 0])

AllocateNext(f, d, n) ==
  CASE f.at \in {"begin", "exclude"} -> StartAllocation(f, d, f.in.skip)
    [] f.at = "claim" -> Claim(f, d, n, f.in.startFrom, "")
    [] f.at = "find" -> FindClaimed(f, d)
    [] f.at = "publish" -> Publish(f, d, "created", Rows("addrs", {f.x.id}))

\* One exclude set for all rounds, a conflict count per round; what was allocated
\* before an error is answered with it.
BulkAllocate(f, d, n) ==
  LET made == f.x.made \cup Rows("addrs", {f.x.id})
      done == Publish(f, d, "created", made)
  IN CASE f.at = "begin" -> IF f.in.count <= 0 THEN Return(f, d, "ok", {}) ELSE StartAllocation(f, d, {})
       [] f.at = "exclude" -> StartAllocation(f, d, {})
       [] f.at = "claim" -> Claim(f, d, n, 0, f.in.prefix)
       [] f.at = "find" -> FindClaimed(f, d)
       [] f.at = "publish" ->
            IF Cardinality(f.x.made) + 1 = f.in.count THEN done
            ELSE [Go(f, d, "claim", [made |-> made, conflicts |-> 0]) EXCEPT !.fx = done.fx]

\* Free candidates, four times as many as asked for when they are probed; a
\* candidate that answers is dropped.  Answers addresses, which are not rows yet.
Suggest(f, d, n) ==
  LET a == S!GetSubnet(d, f.t, f.in.subnet)
      lowest(set, k) == {x \in set : Cardinality({y \in set : y < x}) < k}
      cands == lowest(FreeIn(f.x.sub, allocatedSet(d, f.t, f.in.subnet, f.in.skip)), 4 * f.in.count)
  IN CASE f.at = "begin" ->
            IF f.in.count <= 0 THEN Return(f, d, "ok", {})
            ELSE IF a.err = "ok" THEN Go(f, d, "free", [sub |-> a.val]) ELSE Refuse(f, d, a.err)
       [] f.at = "free" -> Return(f, d, "ok", Rows("free", lowest(cands \ f.in.alive, f.in.count)))

\* One ping of a stored address: f.in.alive is what the network answers.
PingAddress(f, d, n) ==
  LET a == S!GetAddress(d, f.t, f.in.id)
  IN IF f.at = "begin" THEN Then(f, a, "ping", None) ELSE Return(f, d, f.in.ping, Rows("addrs", {f.in.id}))

=============================================================================
