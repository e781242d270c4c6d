-------------------------------- MODULE Api --------------------------------
(***************************************************************************)
(* The service as its clients meet it: callers of the HTTP and the mesh    *)
(* API run concurrently over one database, and the events their writes     *)
(* publish reach the connected browsers through the hub.  One step of a    *)
(* caller is one repository or outside call of its handler.  The scan      *)
(* worker and the scheduler's task are callers too, their operations begin *)
(* with "job".                                                             *)
(*                                                                         *)
(* A scene says where a behaviour starts and what may happen in it: the    *)
(* database, per caller the menus it picks its requests from one after the *)
(* other, how many store or bus calls may fail, the connections that may   *)
(* open and how many entries other publishers may add to the streams.      *)
(***************************************************************************)
EXTENDS HttpApi, GrpcApi, Discovery, EventHub

CONSTANTS Callers, Scenes,
          Menu(_),     \* sets of requests, by name
          Audiences    \* the recipients other publishers address

VARIABLES
  db,
  born,    \* the id the next new row gets
  proc,    \* the call each caller has in progress, or made last
  left,    \* what is left of the scene's plan and budgets
  given,   \* history: the address rows handed out, with the call that got them
  gone     \* history: the rows that were deleted, and the addresses that were renumbered

apiVars == <<db, born, proc, left, given, gone>>
vars == <<apiVars, hubVars>>

\* A call with its history: what it wrote (table, id, kind), what it did outside the
\* tables, whether no other call wrote since it began, the addresses others deleted or
\* renumbered since, and whether a call of it failed.
Process(f) == [f |-> f, wrote |-> {}, fx |-> <<>>, alone |-> TRUE, lost |-> {}, hurt |-> FALSE]

Waiting == Process([Frame("", "", <<"http", "", "">>, None) EXCEPT !.at = "done"])

Init ==
  \E s \in Scenes :
    /\ db = s.db
    /\ born = s.born
    /\ proc = [c \in Callers |-> Waiting]
    /\ left = [plan |-> s.plan, faults |-> s.faults, posts |-> s.posts, conns |-> s.conns]
    /\ given = {}
    /\ gone = {}
    /\ HubInit

(***************************************************************************)
(* Callers.                                                                *)
(***************************************************************************)
IsJob(f) == f.op[1] = "job"

Step(f, d, n) == IF IsJob(f) THEN Work(f, d, n) ELSE IF f.op[1] = "http" THEN Handle(f, d, n) ELSE Call(f, d, n)

Busy(c) == ~Finished(proc[c].f)

Begin(c) ==
  /\ ~Busy(c) /\ left.plan[c] # <<>>
  /\ \E r \in Menu(Head(left.plan[c])) : proc' = [proc EXCEPT ![c] = Process(Frame(r.t, r.role, r.op, r.in))]
  /\ left' = [left EXCEPT !.plan[c] = Tail(@)]
  /\ UNCHANGED <<db, born, given, gone, hubVars>>

\* The tables keyed by one row id.
IdTables == Tables \ {"dns", "hsSettings", "arp", "links", "pkgs", "guests", "hostLinks"}

Changes(d, e) ==
  UNION {   {<<tab, i, "created">> : i \in DOMAIN e[tab] \ DOMAIN d[tab]}
       \cup {<<tab, i, "deleted">> : i \in DOMAIN d[tab] \ DOMAIN e[tab]}
       \cup {<<tab, i, "updated">> : i \in {k \in DOMAIN d[tab] \cap DOMAIN e[tab] : d[tab][k] # e[tab][k]}} : tab \in Tables}

Renumbered(e, w) == w[1] = "addrs" /\ w[3] = "updated" /\ db.addrs[w[2]].addr # e.addrs[w[2]].addr

Allocations == {<<"http", "ip-addresses", "POST allocate">>, <<"http", "ip-addresses", "POST bulk-allocate">>,
                <<"grpc", "IpAddress", "AllocateNext">>, <<"grpc", "IpAddress", "BulkAllocate">>}

\* Caller c's call goes on as outcome o says.
Takes(c, o, failed) ==
  \E done \in {Changes(db, o.db)} : \E lossy \in {{<<w[1], w[2]>> : w \in {v \in done : v[3] = "deleted" \/ Renumbered(o.db, v)}}} :
     /\ db' = o.db
     /\ born' = Max({born} \cup {w[2] + 1 : w \in {v \in done : v[1] \in IdTables /\ v[3] = "created"}})
     /\ proc' = [k \in Callers |->
                  IF k = c THEN [proc[c] EXCEPT !.f = o.f, !.wrote = @ \cup done, !.fx = @ \o o.fx, !.hurt = @ \/ failed]
                  ELSE IF Busy(k) /\ done # {}
                    THEN [proc[k] EXCEPT !.alone = FALSE, !.lost = @ \cup {x[2] : x \in {y \in lossy : y[1] = "addrs"}}]
                  ELSE proc[k]]
     /\ given' = IF o.f.op \in Allocations /\ Finished(o.f) /\ o.f.err = "ok"
                   THEN given \cup {<<c, Len(left.plan[c]), w[2]>> : w \in o.f.val} ELSE given
     /\ gone' = gone \cup lossy

Publishes(o) == o.fx # <<>> /\ Head(o.fx).kind = "publish"

ServiceStep(c) ==
  /\ Busy(c)
  /\ \E o \in {Step(proc[c].f, db, born)} :
       /\ Takes(c, o, FALSE)
       /\ IF Publishes(o) THEN PublishID(proc[c].f.t, Users) ELSE UNCHANGED hubVars
  /\ UNCHANGED left

\* The points of a call that make no store call, or whose failure is not reported.
NoStore == {"publish", "contact", "audit", "lookup", "ping", "probe", "creds", "meta", "index", "prev"}

\* Creating or moving a location to the top reads no parent.
NoParentRead(f) ==
  /\ f.op[2] \in {"locations", "Location"} /\ f.in.row # None /\ f.in.row.parent = 0
  /\ f.at = "guard" \/ (f.at = "begin" /\ f.op[3] \in {"POST", "Create"})

StoreFails(c) ==
  /\ Busy(c) /\ left.faults > 0
  /\ \/ /\ ~IsJob(proc[c].f) /\ proc[c].f.at \notin NoStore /\ ~NoParentRead(proc[c].f)
        /\ Step(proc[c].f, db, born).f.err \in {"", "ok", "notfound", "conflict"}
        /\ Takes(c, Refuse(proc[c].f, db, "error"), TRUE)
     \/ IsJob(proc[c].f) /\ ~Offline(proc[c].f) /\ Takes(c, Fails(proc[c].f, db), TRUE)
  /\ left' = [left EXCEPT !.faults = @ - 1]
  /\ UNCHANGED hubVars

\* The bus cannot be reached: the event is lost, the caller does not notice.
PublishFails(c) ==
  /\ Busy(c) /\ left.faults > 0
  /\ \E o \in {Step(proc[c].f, db, born)} : Publishes(o) /\ Takes(c, o, FALSE)
  /\ left' = [left EXCEPT !.faults = @ - 1]
  /\ UNCHANGED hubVars

(***************************************************************************)
(* The hub and the other publishers.                                       *)
(***************************************************************************)
OtherPublisher(t, to) ==
  /\ left.posts > 0
  /\ left' = [left EXCEPT !.posts = @ - 1]
  /\ PublishID(t, to)
  /\ UNCHANGED <<db, born, proc, given, gone>>

Watching == left.conns # {}

HubStep ==
  /\ Watching
  /\ \/ \E t \in Streams : Age(t) \/ LoopStep(t)
     \/ \E s \in left.conns, t \in Streams, u \in Users : Open(s, t, u)
     \/ \E s \in left.conns : ConnStep(s)
     \/ HubClose
  /\ UNCHANGED apiVars

AllAnswered == \A c \in Callers : ~Busy(c) /\ left.plan[c] = <<>>

Next ==
  \/ \E c \in Callers : Begin(c) \/ ServiceStep(c) \/ StoreFails(c) \/ PublishFails(c)
  \/ \E t \in Streams, to \in Audiences : OtherPublisher(t, to)
  \/ HubStep
  \/ AllAnswered /\ UNCHANGED vars

Moves(c) == Busy(c) /\ proc[c].f # proc'[c].f

\* A handler's goroutine keeps running: its next step is always possible, so this is
\* weak fairness of its steps with the enabling condition written out.
Runs(c) == []<>~Busy(c) \/ []<><<Moves(c)>>_vars

Spec == Init /\ [][Next]_vars /\ \A c \in Callers : Runs(c)

(***************************************************************************)
(* Properties.                                                             *)
(***************************************************************************)
\* The shape of every variable.  Ids are given out once: no row has an id that is
\* still to be given (the uuids of the repository).
TypeOK ==
  /\ HubTypeOK
  /\ DOMAIN db = Tables
  /\ \A tab \in IdTables : DOMAIN db[tab] \subseteq 1 .. born - 1
  /\ \A c \in Callers : proc[c].alone \in BOOLEAN /\ proc[c].hurt \in BOOLEAN
  /\ left.faults \in Nat /\ left.posts \in Nat /\ left.conns \subseteq Conns

\* Every request is answered in the end, whatever the other callers do meanwhile:
\* the walk up the locations (guardCycle), the rounds of an allocation and the pages
\* of a tree all stop.
EveryRequestAnswered == \A c \in Callers : Busy(c) ~> ~Busy(c)

Lost(tab) == \E x \in gone : x[1] = tab

\* No two allocations hand out the same address row, however they interleave, as
\* long as no address is deleted or renumbered under them (allocInto's insert, then
\* its look-up by address).
HandedOutOnce == \A g, h \in given : (g[3] = h[3] /\ g # h) => Lost("addrs")

Asked(f, a) == f.op[3] = "POST allocate" => (f.in.startFrom <= a /\ a \notin f.in.skip)

\* An allocation says there is no address left only when every usable host of the
\* subnet it read, gateway and carve-outs aside, is taken at that moment
\* (ErrNoAvailable), unless addresses were freed meanwhile.
ExhaustedMeansFull ==
  [][\A c \in Callers :
       LET f == proc[c].f
       IN (f.at = "claim" /\ Finished(proc'[c].f) /\ proc'[c].f.err = "noavailable" /\ ~Lost("addrs"))
            => \A a \in FreeIn(f.x.sub, {}) : Asked(f, a) => Where(db, "addrs", f.t, "addr" :> a) # {}]_vars

Piecemeal == {<<"http", "ip-addresses", "POST bulk-allocate">>, <<"grpc", "IpAddress", "BulkAllocate">>,
              <<"grpc", "IpAddress", "AllocateNext">>, <<"http", "subnets", "POST {id}/split">>, <<"http", "backup", "POST import">>}

Refused(c) == Finished(proc[c].f) /\ proc[c].f.err \notin {"", "ok"}

\* A refused call has left nothing behind, apart from the settings row host sync
\* creates on first sight: its checks come before its write.  The exceptions are the
\* calls that write row by row (scans too), a store that failed after the write, and a row that
\* somebody else deleted before it was read back.
RefusedWritesNothing ==
  \A c \in Callers :
    (Refused(c) /\ ~IsJob(proc[c].f) /\ ~proc[c].hurt /\ proc[c].f.op \notin Piecemeal)
      => \A w \in proc[c].wrote : w[1] = "hsSettings" \/ (w[3] # "deleted" /\ <<w[1], w[2]>> \in gone)

Events(c) == {<<proc[c].fx[k].id, proc[c].fx[k].what>> : k \in {j \in DOMAIN proc[c].fx : proc[c].fx[j].kind = "publish"}}

AddressWrites(c) == {<<w[2], w[3]>> : w \in {v \in proc[c].wrote : v[1] = "addrs"}}

\* The calls of the address API publish what they did: after a success one event of
\* its kind for every row created, changed or deleted, and never an event for a row
\* the call did not write (the row of an update saved unchanged aside).  The one
\* exception is an allocation whose new row somebody else deletes or renumbers before
\* it is looked up by address: it announces the row it finds there instead.
EventsMatchWrites ==
  \A c \in Callers :
    LET f == proc[c].f
        robbed == {w \in AddressWrites(c) : w[2] = "created" /\ w[1] \in proc[c].lost}
    IN (Finished(f) /\ f.op[2] \in {"ip-addresses", "IpAddress"})
         => /\ f.err = "ok" => AddressWrites(c) \ robbed \subseteq Events(c)
            /\ \A e \in Events(c) \ AddressWrites(c) : e = <<f.in.id, "updated">> \/ (f.op \in Allocations /\ robbed # {})

BmcCalls == {<<"http", "power", "POST">>, <<"http", "kvm-session", "POST">>}

Contacts(c) == SelectSeq(proc[c].fx, LAMBDA e : e.kind = "bmc")

Audits(c) == SelectSeq(proc[c].fx, LAMBDA e : e.kind = "audit")

\* A power command or console start contacts the BMC at most once, only for a caller
\* IsPlatformAdmin lets pass (a tenant's admin is one), and tells the caller what the
\* BMC answered, whether or not that could be recorded.  It leaves at most one audit
\* row, with the outcome the caller is told, and does leave it when the BMC was
\* contacted or the decision names a reason, provided the row could be stored
\* (AuditAction drops that error).
BmcAudited ==
  \A c \in Callers :
    LET f == proc[c].f
    IN (Finished(f) /\ f.op \in BmcCalls)
         => /\ Len(Contacts(c)) <= 1
            /\ Contacts(c) # <<>> => (IsPlatformAdmin(f) /\ f.err = f.in.bmc)
            /\ Len(Audits(c)) <= 1 /\ \A k \in DOMAIN Audits(c) : Audits(c)[k].what = f.err
            /\ (f.in.audit /\ (Contacts(c) # <<>> \/ Reason(f.err) # "")) => Audits(c) # <<>>

Forest(d) ==
  LET parents == [i \in DOMAIN d.locs |-> d.locs[i].parent] IN Shown(parents, {}) = DOMAIN parents

\* No location of a forest has more than MaxHops locations on its way to the top,
\* itself included: what guardCycle walks to the end.
Shallow(d) ==
  LET depth[i \in DOMAIN d.locs \cup {0}] == IF i = 0 THEN 0 ELSE 1 + depth[d.locs[i].parent]
  IN \A i \in DOMAIN d.locs : depth[i] <= MaxHops

\* No call that runs alone makes a cycle of locations, as long as no location lies
\* deeper than guardCycle walks, the deepest ones it still reaches included.  Below a
\* deeper one a single move can close a cycle, and so can two overlapping moves at any
\* depth (guardCycle reads one ancestor at a time).
AloneKeepsForest ==
  [][\A c \in Callers : (Moves(c) /\ proc[c].alone /\ Forest(db) /\ Shallow(db)) => Forest(db')]_vars

Disjoint(d) ==
  \A t \in Tenants :
    LET subs == S!AllSubnetCIDRs(d, t)
    IN \A i, j \in DOMAIN subs :
         (i # j /\ Overlaps(cidrOf(subs[i]), cidrOf(subs[j]))) => (i \in above(subs, j, {}) \/ j \in above(subs, i, {}))

Creates(f) == f.op \in {<<"http", "subnets", "POST">>, <<"http", "subnets", "POST {id}/split">>, <<"grpc", "Subnet", "Create">>}

\* A created or split subnet overlaps only the subnets it is nested in, unless the
\* request allows it or other writes ran during the call (checkOverlap, overlapsAny).
AloneKeepsDisjoint ==
  [][\A c \in Callers :
       (Moves(c) /\ proc[c].alone /\ Creates(proc[c].f) /\ ~proc[c].f.in.allowOverlap /\ Disjoint(db)) => Disjoint(db')]_vars

Deletes(f, resource, server) == f.op \in {<<"http", resource, "DELETE {id}">>, <<"grpc", server, "Delete">>}

Cut(tab, col) == \E i \in DOMAIN db[tab] : i \notin DOMAIN db'[tab] \/ db'[tab][i][col] # db[tab][i][col]

\* A delete without force takes nothing with it, even when a dependent row appears
\* after the service has looked: no address of the subnet, no address's device, no
\* subnet's VLAN, no child's parent location.
UnforcedDeleteKeeps ==
  [][\A c \in Callers :
       LET f == proc[c].f
       IN (Moves(c) /\ ~f.in.force)
            => /\ Deletes(f, "subnets", "Subnet") => ~Cut("addrs", "subnet")
               /\ Deletes(f, "devices", "Device") => ~Cut("addrs", "device")
               /\ Deletes(f, "vlans", "Vlan") => ~Cut("subnets", "vlan")
               /\ Deletes(f, "locations", "Location") => \A i \in DOMAIN db'.locs : db'.locs[i].parent = db.locs[i].parent]_vars

ServerFault(f) == IF f.op[1] = "http" THEN HttpStatus(f.op, f.err) = 500 ELSE grpcError(f.err) = "Unavailable"

RowIds == {i \in 1 .. born - 1 : \E tab \in IdTables : i \in DOMAIN db[tab]}

RefColumns == {"parent", "vlan", "location", "subnet", "device"}

Named(row) == {row[k] : k \in DOMAIN row \cap RefColumns}

References(f) ==
  {f.in.id, f.in.subnet} \cup (IF f.in.stamp = None THEN {} ELSE {f.in.stamp.device})
    \cup {f.in.row[k] : k \in DOMAIN f.in.row \cap (RefColumns \cup {"group"})}
    \cup UNION {Named(it.row) \cup UNION {Named(it.members[m]) : m \in DOMAIN it.members} : it \in Range(f.in.backup)}

\* A call ends with an internal error only when a store call or the network failed,
\* or when the request, or the file to import, names a row that does not exist (any
\* more): no error of the services is left without an answer of its own (failSvc,
\* grpcError and the others).
FailureExplained ==
  \A c \in Callers :
    LET f == proc[c].f
    IN (Refused(c) /\ ~IsJob(f) /\ ~proc[c].hurt /\ ServerFault(f))
         => f.err = "error" /\ ("error" \in {f.in.ping, f.in.bmc} \/ References(f) \ (RowIds \cup {0}) # {})

Known(row) == row.mac # "" /\ row.msrc # "arp"

\* A scan never replaces a MAC that a user or an agent set, not even one set after
\* the scan read the addresses for its plan (the guards of the ARP statements).
ScanKeepsKnownMACs ==
  [][\A c \in Callers :
       (Moves(c) /\ IsJob(proc[c].f))
         => \A i \in DOMAIN db.addrs \cap DOMAIN db'.addrs : Known(db.addrs[i]) => Columns(db'.addrs[i], {"mac", "msrc"}) = Columns(db.addrs[i], {"mac", "msrc"})]_vars

\* A scan that ran alone has nothing left to change: planned again from the same ARP
\* tables every operation only confirms, and correlated again every host keeps the
\* links just written (arpplan.Build, portlink.Rank and mergeSet).
ScanSettles ==
  [][\A c \in Callers :
       LET f == proc[c].f
           plan == Build(f.x.obs, S!AllSubnetCIDRs(db', f.t), db'.addrs, S!NetworkMACs(db', f.t), f.x.cfg, born')
           again == Correlation(db', f.t, "none")
           links(kind, i) == {<<l.switch, l.port>> : l \in S!hostLinks(db', f.t, kind, i)}
           kept(w, kind, i, flat) == w.flat = flat /\ w.links = links(kind, i)
       IN (Moves(c) /\ IsJob(f) /\ proc[c].alone /\ ~proc'[c].hurt)
            => /\ f.at = "arpApply" => \A o \in Range(plan) : o.kind = "touch"
               /\ f.at = "linkAddrs" =>
                    /\ \A i \in DOMAIN again.nics : kept(again.nics[i], "interface", i, <<db'.ifaces[i].rdev, db'.ifaces[i].rport>>)
                    /\ \A a \in DOMAIN again.addrs : kept(again.addrs[a], "address", a, <<db'.addrs[a].lswitch, db'.addrs[a].lport>>)]_vars

Listed(kind, i, port) ==
  port \in DOMAIN db.ifaces => \E k \in DOMAIN db.hostLinks : k[1] = kind /\ k[2] = i /\ db.hostLinks[k].port = port

\* The link a correlation shows with an interface or an address is one of its
\* per-switch links, as long as the port exists: both are written together (Correlate,
\* SetInterfaceLinks, SetAddressLinks), from data another scan may have overtaken.
\* Only the link an interface was created with (CreateInterface stores it and no
\* per-switch link) may be missing there, until a correlation replaces it.
PrimaryInSet ==
  [][/\ \A i \in DOMAIN db.ifaces \cap DOMAIN db'.ifaces :
          \/ Listed("interface", i, db.ifaces[i].rport)'
          \/ ~Listed("interface", i, db.ifaces[i].rport) /\ db'.ifaces[i].rport = db.ifaces[i].rport
     /\ \A a \in DOMAIN db'.addrs : Listed("address", a, db.addrs[a].lport)']_vars

OneActive(d) ==
  \A i, j \in DOMAIN d.scans :
    (d.scans[i].subnet = d.scans[j].subnet /\ {d.scans[i].status, d.scans[j].status} \subseteq {"pending", "scanning"}) => i = j

\* No call that runs alone makes a second active scan of a subnet: a request, a
\* task (again after a failed attempt), a cancel and a scan's own retry (StartScan).
AloneOneActiveScan == [][\A c \in Callers : (Moves(c) /\ proc[c].alone /\ OneActive(db)) => OneActive(db')]_vars

\* What an import restored still points where the file says when the import ends
\* ("Entity ids are preserved on import so cross-references ... stay valid").
ImportKeepsReferences ==
  [][\A c \in Callers :
       LET f == proc[c].f
       IN (Moves(c) /\ f.op = <<"http", "backup", "POST import">> /\ proc[c].alone /\ proc'[c].f.err = "ok")
            => \A it \in Range(f.in.backup) :
                 <<it.tab, it.id>> \in proc'[c].f.val
                   => \A col \in DOMAIN it.row \cap RefColumns : db'[it.tab][it.id][col] = it.row[col]]_vars

=============================================================================
