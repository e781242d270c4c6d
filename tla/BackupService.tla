--------------------------- MODULE BackupService ---------------------------
(***************************************************************************)
(* internal/backup.  A backup is a sequence of items [tab, id, row,        *)
(* members] in the order Import takes them; within a table newest first,   *)
(* as the exporting lists return them.  Every table is read by a call of   *)
(* its own, every item is imported by up to three.                         *)
(***************************************************************************)
EXTENDS Frames

CONSTANT ExportPage   \* pageSize

ExportOrder == <<"subnets", "addrs", "devices", "vlans", "locs", "ipGroups", "hostGroups">>

ImportOrder == <<"locs", "vlans", "subnets", "devices", "addrs", "ipGroups", "hostGroups">>

MemberTable(tab) == CASE tab = "ipGroups" -> "ipMembers" [] tab = "hostGroups" -> "hostMembers"

\* The row as the file carries it: no tenant, no BMC reference.
sanitize(tab, row) == IF tab = "devices" THEN [bmc |-> ""] @@ Drop(row, {"tenant"}) ELSE Drop(row, {"tenant"})

Item(d, tab, i, members) == [tab |-> tab, id |-> i, row |-> sanitize(tab, d[tab][i]), members |-> members]

MembersOf(d, tab, g) ==
  LET mt == MemberTable(tab)
  IN [m \in {k \in DOMAIN d[mt] : d[mt][k].group = g} |-> Drop(d[mt][m], {"tenant"})]

\* One page of one table; the subnets and the IP groups come whole.
ExportPageOf(d, t, tab, cursor) ==
  Keyset(Where(d, tab, t, None), cursor, IF tab \in {"subnets", "ipGroups"} THEN 0 ELSE ExportPage)

\* A full page is followed by the next one; the members of a page's host groups are
\* read one group at a time before that.
ExportTable(f, d) ==
  LET tab == ExportOrder[f.x.k]
      page == ExportPageOf(d, f.t, tab, f.x.cursor)
      members(i) == IF tab = "ipGroups" THEN MembersOf(d, tab, i) ELSE None
      full == tab \notin {"subnets", "ipGroups"} /\ Len(page) = ExportPage
  IN Go(f, d, IF tab = "hostGroups" THEN "members" ELSE "table",
        [got |-> [f.x.got EXCEPT ![tab] = @ \o [n \in DOMAIN page |-> Item(d, tab, page[n], members(page[n]))]],
         cursor |-> IF full THEN Last(page) ELSE 0,
         k |-> IF full THEN f.x.k ELSE f.x.k + 1])

Assemble(got) == FoldLeft(LAMBDA acc, tab : acc \o got[tab], <<>>, ImportOrder)

Export(f, d, n) ==
  LET groups == f.x.got["hostGroups"]
      g == f.x.grouped + 1
      begun == [k |-> 1, cursor |-> 0, grouped |-> 0, got |-> [tab \in Range(ExportOrder) |-> <<>>]]
  IN CASE f.at = "begin" -> ExportTable([f EXCEPT !.x = begun], d)
       [] f.at = "table" -> ExportTable(f, d)
       [] f.at = "members" ->
            IF g <= Len(groups)
              THEN Go(f, d, "members", [grouped |-> g, got |-> [f.x.got EXCEPT !["hostGroups"][g].members = MembersOf(d, "hostGroups", groups[g].id)]])
            ELSE IF f.x.k <= Len(ExportOrder) THEN ExportTable(f, d)
            ELSE Return(f, d, "ok", {<<b.tab, b.id>> : b \in Range(Assemble(f.x.got))})

\* The backup a caller gets who exports tenant t of d alone.
RECURSIVE ExportAlone(_, _)
ExportAlone(f, d) ==
  LET o == Export(f, d, 0)
  IN IF Finished(o.f) THEN Assemble(f.x.got) ELSE ExportAlone(o.f, d)

BackupOf(d, t) == ExportAlone(Frame(t, "user", "Export", None), d)

CreateItem(d, t, it) ==
  LET r == Drop(it.row, {"origin"})
  IN CASE it.tab = "locs" -> S!CreateLocation(d, t, it.id, r)
       [] it.tab = "vlans" -> S!CreateVlan(d, t, it.id, r)
       [] it.tab = "subnets" -> S!CreateSubnet(d, t, it.id, r)
       [] it.tab = "devices" -> S!CreateDevice(d, t, it.id, r)
       [] it.tab = "addrs" -> S!CreateAddress(d, t, it.id, r)
       [] it.tab = "ipGroups" -> S!CreateIPGroup(d, t, it.id, r)
       [] it.tab = "hostGroups" -> S!CreateHostGroup(d, t, it.id, r)

AddMember(d, t, it, m) ==
  LET r == [group |-> it.id] @@ it.members[m]
  IN IF it.tab = "ipGroups" THEN S!AddIPGroupMember(d, t, m, r) ELSE S!AddHostGroupMember(d, t, m, r)

\* The next item, or the end of the import.
Advance(f, d, did) ==
  LET x == [todo |-> Tail(f.x.todo), made |-> f.x.made \cup did]
  IN IF x.todo = <<>> THEN Return(f, d, "ok", x.made) ELSE Go(f, d, "look", x)

\* exists? then skip it, or delete it by force and create it again; an overwritten
\* device keeps the BMC reference it has.  The first error ends the import, with
\* everything before it committed.
ImportItem(f, d, it) ==
  LET here == Own(d, it.tab, f.t, it.id)
      keep == IF it.tab = "devices" THEN [it EXCEPT !.row.bmc = IF here THEN d.devices[it.id].bmc ELSE ""] ELSE it
      a == CreateItem(d, f.t, f.x.item)
      left == f.x.members
      m == Min(left)
      b == AddMember(d, f.t, it, m)
  IN CASE f.at = "look" ->
            IF here /\ f.in.mode = "skip" THEN Advance(f, d, {})
            ELSE Go(f, d, IF here THEN "delete" ELSE "create", [item |-> keep])
       [] f.at = "delete" -> Then(f, S!DeleteUnless(d, it.tab, f.t, it.id, TRUE, 0), "create", None)
       [] f.at = "create" ->
            IF a.err # "ok" THEN Return(f, d, a.err, f.x.made)
            ELSE IF it.members = None THEN Advance(f, a.db, {<<it.tab, it.id>>})
            ELSE Go(f, a.db, "member", [members |-> DOMAIN it.members])
       [] f.at = "member" ->
            IF b.err # "ok" THEN Return(f, d, b.err, f.x.made)
            ELSE IF left = {m} THEN Advance(f, b.db, {<<it.tab, it.id>>})
            ELSE Go(f, b.db, "member", [members |-> left \ {m}])

Import(f, d, n) ==
  LET g == [f EXCEPT !.at = "look", !.x = [todo |-> f.in.backup, made |-> {}]]
  IN CASE f.at = "begin" ->
            IF ~f.in.schema THEN Refuse(f, d, "badschema")
            ELSE IF f.in.backup = <<>> THEN Return(f, d, "ok", {})
            ELSE ImportItem(g, d, Head(f.in.backup))
       [] OTHER -> ImportItem(f, d, Head(f.x.todo))

=============================================================================
