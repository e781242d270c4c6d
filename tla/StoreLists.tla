----------------------------- MODULE StoreLists -----------------------------
(***************************************************************************)
(* The order of what reads return, the same in the database and in memory. *)
(***************************************************************************)
EXTENDS StoreRows, FiniteSetsExt, SequencesExt

Ascending(S) == SetToSortSeq(S, <)

\* Newest first, strictly before the cursor, at most limit rows (0: no limit).
Keyset(S, cursor, limit) ==
  LET ids == SetToSortSeq({k \in S : cursor = 0 \/ k < cursor}, >)
  IN IF limit > 0 /\ limit < Len(ids) THEN SubSeq(ids, 1, limit) ELSE ids

(***************************************************************************)
(* The paged lists of the HTTP API: the sortable fields of store/lists.go, *)
(* and ordering and windowing as package listquery does them.              *)
(***************************************************************************)
Lists ==
  [subnets |-> [fields |-> {"cidr", "name", "vlan", "location"}, default |-> "cidr", down |-> {}],
   addrs |-> [fields |-> {"address", "hostname", "mac", "status"}, default |-> "address", down |-> {}],
   devices |-> [fields |-> {"name", "device_type", "location", "created_at"}, default |-> "name", down |-> {"created_at"}],
   vlans |-> [fields |-> {"vlan_id", "name"}, default |-> "vlan_id", down |-> {}],
   scans |-> [fields |-> {"created_at", "status", "subnet"}, default |-> "created_at", down |-> {"created_at"}],
   ipMembers |-> [fields |-> {"sequence", "name"}, default |-> "sequence", down |-> {}],
   hostMembers |-> [fields |-> {"sequence", "name"}, default |-> "sequence", down |-> {}],
   ifaces |-> [fields |-> {"name"}, default |-> "name", down |-> {}],
   pkgs |-> [fields |-> {"name"}, default |-> "name", down |-> {}],
   guests |-> [fields |-> {"name"}, default |-> "name", down |-> {}]]

\* An unknown sort field falls back to the defaults entirely.
ListRequest(req, spec) ==
  LET sort == IF req.sort = "" THEN spec.default ELSE req.sort
  IN IF sort \notin spec.fields THEN [sort |-> spec.default, desc |-> spec.default \in spec.down, page |-> 1, size |-> 25]
     ELSE [sort |-> sort, desc |-> IF req.order = "" THEN sort \in spec.down ELSE req.order = "desc",
           page |-> req.page, size |-> req.size]

\* Sort keys: numbers, texts by their place in this list, and nulls.
Texts == <<"", "a", "active", "b", "e0", "e1", "failed", "m", "n", "offline", "p", "pending", "ptr", "q", "r",
           "scanning", "server", "switch", "x", "y">>

Num(n) == [nil |-> FALSE, n |-> n]

Text(s) == Num(CHOOSE n \in DOMAIN Texts : Texts[n] = s)

Optional(n) == [nil |-> n = 0, n |-> n]

\* Nulls last in either direction, ties by ascending id.
InKeyOrder(S, key(_), desc) ==
  SetToSortSeq(S, LAMBDA x, y :
    LET a == key(x)
        b == key(y)
    IN IF a.nil # b.nil THEN b.nil
       ELSE IF a.n = b.n THEN x < y ELSE IF desc THEN a.n > b.n ELSE a.n < b.n)

\* A page past the end is the last page.
Window(rows, req) ==
  LET last == (Len(rows) + req.size - 1) \div req.size
      page == IF req.page > last THEN Max({last, 1}) ELSE req.page
      from == (page - 1) * req.size
  IN [rows |-> SubSeq(rows, from + 1, Min({from + req.size, Len(rows)})), total |-> Len(rows), page |-> page]

=============================================================================
