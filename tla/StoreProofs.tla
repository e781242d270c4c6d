---------------------------- MODULE StoreProofs -----------------------------
(***************************************************************************)
(* The in-memory store never loses a reference, whatever the calls and the *)
(* tenants, and however many rows there are.                               *)
(***************************************************************************)
EXTENDS StoreSteps

(***************************************************************************)
(* The calls on jobs and settings, and host reports.                       *)
(***************************************************************************)
\* The settings row of a tenant is made on first use.
LEMMA SettingsEnsured ==
  ASSUME NEW m, Good(m), NEW t \in Tenants, NEW e, e = ensureSettingsLocked(m, t)
  PROVE Good(e) /\ t \in DOMAIN e.hsSettings
<1>1. CASE t \in DOMAIN m.hsSettings BY <1>1, Zenon DEF ensureSettingsLocked
<1>2. CASE t \notin DOMAIN m.hsSettings
  <2> DEFINE row == defaultSettings(t)
  <2>1. "tenant" \in DOMAIN row /\ row.tenant = t BY Zenon DEF defaultSettings
  <2>2. "hsSettings" \in RowTables /\ "hsSettings" \notin IdTables BY Zenon DEF RowTables, Tables, IdTables
  <2> HIDE DEF row
  <2>3. RowOK(m, "hsSettings", t, row) BY <2>1, <2>2, RefsFrom, Zenon DEF RowOK, Keyed
  <2>4. \A old : Relied("hsSettings", old, row) BY Zenon DEF Relied, Referred
  <2>5. Good(Save(m, "hsSettings", t, row, FALSE).db) BY <2>2, <2>3, <2>4, SaveOK, Zenon
  <2>6. e = Save(m, "hsSettings", t, row, FALSE).db BY <1>2, Zenon DEF ensureSettingsLocked, Save, Ok, Answer, row
  <2>7. e = [m EXCEPT !.hsSettings = Put(@, t, row)] BY <1>2, Zenon DEF ensureSettingsLocked, row
  <2>8. t \in DOMAIN e.hsSettings BY <2>7 DEF Good, Tables, Put
  <2> QED BY <2>5, <2>6, <2>8, Zenon
<1> QED BY <1>1, <1>2, Zenon

LEMMA SettingsChanged ==
  ASSUME NEW m, Good(m), NEW t, t \in DOMAIN m.hsSettings, NEW row, DOMAIN row = DOMAIN m.hsSettings[t],
         row.tenant = m.hsSettings[t].tenant
  PROVE Good([m EXCEPT !.hsSettings[t] = row])
<1> DEFINE T == [m.hsSettings EXCEPT ![t] = row]
<1>0. "hsSettings" \in RowTables BY Zenon DEF RowTables, Tables
<1>1. RowOK(m, "hsSettings", t, m.hsSettings[t]) BY <1>0, Zenon DEF Good
<1>2. Alike("hsSettings", m.hsSettings[t], row) BY <1>1, RefsFrom, Zenon DEF Alike, RowOK
<1>3. DOMAIN T = DOMAIN m.hsSettings /\ \A k \in DOMAIN T : T[k] = m.hsSettings[k] \/ Alike("hsSettings", m.hsSettings[k], T[k]) BY <1>2, Zenon
<1>4. [m EXCEPT !.hsSettings[t] = row] = [m EXCEPT !.hsSettings = T] BY Zenon
<1> HIDE DEF T
<1>5. Good([m EXCEPT !.hsSettings = T]) BY <1>0, <1>3, AmendOK, Zenon
<1> QED BY <1>4, <1>5, Zenon

\* Claiming sets the status column of the claimed jobs.
LEMMA ClaimKeeps == ASSUME NEW m, Good(m), NEW limit PROVE Good(ClaimDueScanJobs(m, limit).db)
<1> DEFINE due == {k \in DOMAIN m.scans : m.scans[k].status = "pending" /\ ~m.scans[k].later}
           took == {k \in due : limit > 0 => Cardinality({x \in due : x < k}) < limit}
           T == [k \in took |-> [m.scans[k] EXCEPT !.status = "scanning"]] \uplus m.scans
<1>0. "scans" \in RowTables BY Zenon DEF RowTables, Tables
<1>1. ClaimDueScanJobs(m, limit).db = [m EXCEPT !.scans = T] BY Zenon DEF ClaimDueScanJobs, Answer
<1>2. took \subseteq DOMAIN m.scans OBVIOUS
<1> HIDE DEF took
<1>3. \A k \in DOMAIN m.scans : Alike("scans", m.scans[k], [m.scans[k] EXCEPT !.status = "scanning"])
  <2> SUFFICES ASSUME NEW k \in DOMAIN m.scans PROVE Alike("scans", m.scans[k], [m.scans[k] EXCEPT !.status = "scanning"])
    OBVIOUS
  <2>1. RowOK(m, "scans", k, m.scans[k]) BY <1>0, Zenon DEF Good
  <2> QED BY <2>1, RefsFrom, PlainColumn, Zenon
<1>4. DOMAIN T = DOMAIN m.scans /\ \A k \in DOMAIN T : T[k] = m.scans[k] \/ T[k] = [m.scans[k] EXCEPT !.status = "scanning"]
  BY <1>2, Zenon DEF \uplus
<1>5. \A k \in DOMAIN T : T[k] = m.scans[k] \/ Alike("scans", m.scans[k], T[k]) BY <1>3, <1>4, Zenon
<1> HIDE DEF T
<1>6. Good([m EXCEPT !.scans = T]) BY <1>0, <1>4, <1>5, AmendOK, Zenon
<1> QED BY <1>1, <1>6, Zenon

\* Only tables that the transaction copied differ.
Framed(m, n) == \A tab \in Tables \ Snapshotted : n[tab] = m[tab]

LEMMA WritesFramed ==
  ASSUME NEW m, Good(m), NEW tab \in Snapshotted, NEW t, NEW i, NEW row, NEW c
  PROVE Framed(m, Save(m, tab, i, row, c).db) /\ Framed(m, Change(m, tab, t, i, row, c).db)
<1>1. \A T : Framed(m, [m EXCEPT ![tab] = T]) BY Zenon DEF Framed, Good
<1>2. Framed(m, m) BY Zenon DEF Framed
<1>3. Framed(m, Save(m, tab, i, row, c).db) BY <1>1, <1>2, Zenon DEF Save, Err, Ok, Answer
<1>4. Framed(m, Change(m, tab, t, i, row, c).db) BY <1>1, <1>2, Zenon DEF Change, Save, Err, Ok, Answer
<1> QED BY <1>3, <1>4, Zenon

\* A host that stopped reporting: three tables, the report column.
LEMMA MarkKeeps ==
  ASSUME NEW m, Good(m), NEW t, NEW i, NEW n, n = MarkDeviceNotReported(m, t, i).db
  PROVE Good(n) /\ Framed(m, n)
<1> DEFINE reported(tab) == {k \in DOMAIN m[tab] : m[tab][k].device = i /\ m[tab][k].report = "reported"}
           mark(tab, S) == [k \in S |-> [m[tab][k] EXCEPT !.report = "not_reported"]] \uplus m[tab]
           devs == mark("devices", {i})
           nics == mark("ifaces", reported("ifaces"))
           held == mark("addrs", {k \in reported("addrs") : m.addrs[k].tenant = t})
<1>1. CASE ~Own(m, "devices", t, i) BY <1>1, Zenon DEF MarkDeviceNotReported, Err, Answer, Framed
<1>2. CASE Own(m, "devices", t, i)
  <2>0. /\ "devices" \in RowTables /\ "ifaces" \in RowTables /\ "addrs" \in RowTables /\ DOMAIN m = Tables
        /\ "devices" \in Tables /\ "ifaces" \in Tables /\ "addrs" \in Tables
    BY Zenon DEF RowTables, Tables, Good
  <2>1. ASSUME NEW tab \in {"devices", "ifaces", "addrs"}, NEW S, S \subseteq DOMAIN m[tab]
        PROVE DOMAIN mark(tab, S) = DOMAIN m[tab]
              /\ \A k \in DOMAIN m[tab] : mark(tab, S)[k] = m[tab][k] \/ Alike(tab, m[tab][k], mark(tab, S)[k])
    <3>1. \A k \in DOMAIN m[tab] : Alike(tab, m[tab][k], [m[tab][k] EXCEPT !.report = "not_reported"])
      <4> SUFFICES ASSUME NEW k \in DOMAIN m[tab] PROVE Alike(tab, m[tab][k], [m[tab][k] EXCEPT !.report = "not_reported"])
        OBVIOUS
      <4>1. RowOK(m, tab, k, m[tab][k]) BY <2>0, Zenon DEF Good
      <4>2. \A r \in Kept : r.from = tab => r.col # "report" BY RefsFrom, Zenon
      <4> QED BY <4>1, <4>2, PlainColumn, Zenon
    <3>2. DOMAIN mark(tab, S) = DOMAIN m[tab] BY <2>1, Zenon DEF \uplus
    <3>3. \A k \in DOMAIN m[tab] : mark(tab, S)[k] = m[tab][k] \/ mark(tab, S)[k] = [m[tab][k] EXCEPT !.report = "not_reported"]
      BY <2>1, Zenon DEF \uplus
    <3> HIDE DEF mark
    <3> QED BY <3>1, <3>2, <3>3, Zenon
  <2>2. n = [m EXCEPT !.devices = devs, !.ifaces = nics, !.addrs = held] BY <1>2, Zenon DEF MarkDeviceNotReported, Ok, Answer
  <2>3. /\ {i} \subseteq DOMAIN m.devices /\ reported("ifaces") \subseteq DOMAIN m.ifaces
        /\ {k \in reported("addrs") : m.addrs[k].tenant = t} \subseteq DOMAIN m.addrs
    BY <1>2, Zenon DEF Own
  <2> HIDE DEF mark, reported
  <2>4. DOMAIN devs = DOMAIN m.devices /\ \A k \in DOMAIN m.devices : devs[k] = m.devices[k] \/ Alike("devices", m.devices[k], devs[k])
    BY <2>1, <2>3, Zenon
  <2>5. DOMAIN nics = DOMAIN m.ifaces /\ \A k \in DOMAIN m.ifaces : nics[k] = m.ifaces[k] \/ Alike("ifaces", m.ifaces[k], nics[k])
    BY <2>1, <2>3, Zenon
  <2>6. DOMAIN held = DOMAIN m.addrs /\ \A k \in DOMAIN m.addrs : held[k] = m.addrs[k] \/ Alike("addrs", m.addrs[k], held[k])
    BY <2>1, <2>3, Zenon
  <2> DEFINE a == [m EXCEPT !.devices = devs]
             b == [a EXCEPT !.ifaces = nics]
  <2> HIDE DEF devs, nics, held
  <2>7. n = [b EXCEPT !.addrs = held] /\ a.ifaces = m.ifaces /\ b.addrs = m.addrs BY <2>0, <2>2, Zenon
  <2>8. Good(a) BY <2>0, <2>4, AmendOK, Zenon
  <2> HIDE DEF a
  <2>9. Good(b)
    <3>1. DOMAIN nics = DOMAIN a.ifaces /\ \A k \in DOMAIN nics : nics[k] = a.ifaces[k] \/ Alike("ifaces", a.ifaces[k], nics[k])
      BY <2>5, <2>7, Zenon
    <3> QED BY <2>0, <2>8, <3>1, AmendOK, Zenon
  <2> HIDE DEF b
  <2>10. Good(n)
    <3>1. DOMAIN held = DOMAIN b.addrs /\ \A k \in DOMAIN held : held[k] = b.addrs[k] \/ Alike("addrs", b.addrs[k], held[k])
      BY <2>6, <2>7, Zenon
    <3>2. Good([b EXCEPT !.addrs = held]) BY <2>0, <2>9, <3>1, AmendOK, Zenon
    <3> QED BY <2>7, <3>2, Zenon
  <2>11. Framed(m, n) BY <2>0, <2>2, Zenon DEF Framed, Snapshotted
  <2> QED BY <2>10, <2>11, Zenon
<1> QED BY <1>1, <1>2, Zenon

\* What a statement of tenant t's report leaves behind.
Settled(t, o) == Good(TxStep(mem, t, o).db) /\ Framed(mem, TxStep(mem, t, o).db)

LEMMA DeviceStatementsKeep ==
  ASSUME StoreInv, NEW t \in Tenants, NEW o \in DeviceStatements(t) PROVE Settled(t, o)
<1>0. /\ Good(mem) /\ "devices" \in IdTables /\ "devices" \in Tables
      /\ "devices" \in Snapshotted /\ "devState" \in Snapshotted /\ "hardware" \in Snapshotted
  BY Zenon DEF StoreInv, IdTables, Tables, Snapshotted
<1>1. ASSUME NEW i \in Fresh("devices", t), NEW r \in DeviceReports(t) PROVE Settled(t, <<"InsertDevice", i, r>>)
  <2> DEFINE row == r \uplus [tenant |-> t, hyper |-> 0]
             c == DeviceTaken(mem, t, i, r) \/ (r.host # NoText /\ Taken(mem, "devices", t, i, "host", r.host))
  <2>1. {"tenant", "location", "hyper"} \subseteq DOMAIN row /\ row.tenant = t /\ row.location = 0 /\ row.hyper = 0
    BY Zenon DEF DeviceReports, \uplus
  <2>2. TxStep(mem, t, <<"InsertDevice", i, r>>) = Save(mem, "devices", i, row, c)
    <3>1. TxStep(mem, t, <<"InsertDevice", i, r>>) = InsertDevice(mem, t, i, r) BY Zenon DEF TxStep
    <3> QED BY <3>1, Zenon DEF InsertDevice
  <2> HIDE DEF row, c
  <2>3. \A x \in Kept : x.from = "devices" => x.col \in DOMAIN row /\ Target(mem, x.to, t, row[x.col])
    BY <2>1, RefsFrom, Zenon DEF Target
  <2>4. Good(Save(mem, "devices", i, row, c).db) BY <1>0, <1>1, <2>1, <2>3, FreshIds, CreateOK, Zenon
  <2> QED BY <1>0, <2>2, <2>4, WritesFramed, ZenonT(30) DEF Settled
<1>2. ASSUME NEW i, NEW r PROVE Settled(t, <<"UpdateDeviceReported", i, r>>)
  <2> DEFINE cols == Columns(r, {"name", "type", "os", "source", "host", "report"})
             c == DeviceTaken(mem, t, i, r)
  <2>1. DOMAIN cols = {"name", "type", "os", "source", "host", "report"} BY Zenon DEF Columns
  <2>2. TxStep(mem, t, <<"UpdateDeviceReported", i, r>>) = Change(mem, "devices", t, i, cols, c)
    <3>1. TxStep(mem, t, <<"UpdateDeviceReported", i, r>>) = UpdateDeviceReported(mem, t, i, r) BY Zenon DEF TxStep
    <3> QED BY <3>1, Zenon DEF UpdateDeviceReported
  <2> HIDE DEF cols, c
  <2>3. Good(Change(mem, "devices", t, i, cols, c).db) BY <1>0, <2>1, RefsFrom, ChangeOK, Zenon
  <2> QED BY <1>0, <2>2, <2>3, WritesFramed, Zenon DEF Settled
<1>3. ASSUME NEW i, NEW h \in Nullable("devices", t), i # h PROVE Settled(t, <<"SetHypervisor", i, h>>)
  <2> DEFINE cols == [hyper |-> h]
  <2>1. DOMAIN cols = {"hyper"} /\ Target(mem, "devices", t, cols.hyper) BY <1>3, RowsExist, Zenon
  <2>2. TxStep(mem, t, <<"SetHypervisor", i, h>>) = Change(mem, "devices", t, i, cols, FALSE)
    <3>1. TxStep(mem, t, <<"SetHypervisor", i, h>>) = SetHypervisor(mem, t, i, h) BY Zenon DEF TxStep
    <3> QED BY <1>3, <3>1, Zenon DEF SetHypervisor
  <2> HIDE DEF cols
  <2>3. Good(Change(mem, "devices", t, i, cols, FALSE).db) BY <1>0, <2>1, RefsFrom, ChangeOK, Zenon
  <2> QED BY <1>0, <2>2, <2>3, WritesFramed, Zenon DEF Settled
<1>4. ASSUME NEW i PROVE Settled(t, <<"MarkDeviceNotReported", i>>)
  <2>1. TxStep(mem, t, <<"MarkDeviceNotReported", i>>) = MarkDeviceNotReported(mem, t, i) BY Zenon DEF TxStep
  <2> QED BY <1>0, <2>1, MarkKeeps, Zenon DEF Settled
<1>5. ASSUME NEW i \in Rows("devices", t), NEW n PROVE Settled(t, <<"SaveDeviceState", i, n>>)
  <2> DEFINE row == [tenant |-> t, device |-> i, changes |-> n]
  <2>1. "devState" \in RowTables /\ "devState" \notin IdTables BY Zenon DEF RowTables, Tables, IdTables
  <2>2. Target(mem, "devices", t, i) BY <1>5, RowsExist, Zenon
  <2>3. RowOK(mem, "devState", i, row) BY <2>1, <2>2, RefsFrom DEF RowOK, Keyed
  <2>4. \A old : Relied("devState", old, row) BY Zenon DEF Relied, Referred
  <2>5. TxStep(mem, t, <<"SaveDeviceState", i, n>>) = Save(mem, "devState", i, row, FALSE)
    <3>1. TxStep(mem, t, <<"SaveDeviceState", i, n>>) = SaveDeviceState(mem, t, i, n) BY Zenon DEF TxStep
    <3> QED BY <3>1, Zenon DEF SaveDeviceState
  <2> HIDE DEF row
  <2>6. Good(Save(mem, "devState", i, row, FALSE).db) BY <1>0, <2>1, <2>3, <2>4, SaveOK, Zenon
  <2> QED BY <1>0, <2>5, <2>6, WritesFramed, Zenon DEF Settled
<1>6. ASSUME NEW i, NEW v PROVE Settled(t, <<"ReplaceHardware", i, v>>)
  <2>1. CASE ~Own(mem, "devices", t, i)
    <3>1. TxStep(mem, t, <<"ReplaceHardware", i, v>>) = Err("notfound", mem)
      <4>1. TxStep(mem, t, <<"ReplaceHardware", i, v>>) = ReplaceHardware(mem, t, i, v) BY Zenon DEF TxStep
      <4> QED BY <2>1, <4>1, Zenon DEF ReplaceHardware
    <3> QED BY <1>0, <3>1 DEF Settled, Err, Answer, Framed
  <2>2. CASE Own(mem, "devices", t, i)
    <3> DEFINE row == [tenant |-> t, device |-> i, value |-> v]
    <3>1. "hardware" \in RowTables /\ "hardware" \notin IdTables BY Zenon DEF RowTables, Tables, IdTables
    <3>2. RowOK(mem, "hardware", i, row) BY <2>2, <3>1, RefsFrom DEF RowOK, Keyed, Target, Own
    <3>3. \A old : Relied("hardware", old, row) BY Zenon DEF Relied, Referred
    <3>4. TxStep(mem, t, <<"ReplaceHardware", i, v>>) = Save(mem, "hardware", i, row, FALSE)
      <4>1. TxStep(mem, t, <<"ReplaceHardware", i, v>>) = ReplaceHardware(mem, t, i, v) BY Zenon DEF TxStep
      <4> QED BY <2>2, <4>1, Zenon DEF ReplaceHardware
    <3> HIDE DEF row
    <3>5. Good(Save(mem, "hardware", i, row, FALSE).db) BY <1>0, <3>1, <3>2, <3>3, SaveOK, Zenon
    <3> QED BY <1>0, <3>4, <3>5, WritesFramed, Zenon DEF Settled
  <2> QED BY <2>1, <2>2, Zenon
<1> DEFINE Goal == Settled(t, o)
<1> HIDE DEF Goal
<1>7. ASSUME NEW i \in Fresh("devices", t), NEW r \in DeviceReports(t), o = <<"InsertDevice", i, r>> PROVE Goal BY <1>1, <1>7, Zenon DEF Goal
<1>8. ASSUME NEW i, NEW r, o = <<"UpdateDeviceReported", i, r>> PROVE Goal BY <1>2, <1>8, Zenon DEF Goal
<1>9. ASSUME NEW i, NEW h \in Nullable("devices", t), i # h, o = <<"SetHypervisor", i, h>> PROVE Goal BY <1>3, <1>9, Zenon DEF Goal
<1>10. ASSUME NEW i, o = <<"MarkDeviceNotReported", i>> PROVE Goal BY <1>4, <1>10, Zenon DEF Goal
<1>11. ASSUME NEW i \in Rows("devices", t), NEW n, o = <<"SaveDeviceState", i, n>> PROVE Goal BY <1>5, <1>11, Zenon DEF Goal
<1>12. ASSUME NEW i, NEW v, o = <<"ReplaceHardware", i, v>> PROVE Goal BY <1>6, <1>12 DEF Goal
<1>13. Goal BY <1>7, <1>8, <1>9, <1>10, <1>11, <1>12 DEF DeviceStatements
<1> QED BY <1>13, Zenon DEF Goal

\* Nothing in a row refers to a guest.
LEMMA GuestsDropped ==
  ASSUME NEW m, Good(m), NEW S, NEW n, n = [m EXCEPT !.guests = Drop(@, S)] PROVE Good(n)
<1>1. DOMAIN n = Tables /\ n.guests = Drop(m.guests, S) /\ \A x \in Tables \ {"guests"} : n[x] = m[x]
  BY Zenon DEF Good, Tables
<1>2. Thinner("guests", m.guests, n.guests) BY <1>1, DropRows, Zenon
<1>3. Thinned(m, n) BY <1>1, <1>2, Untouched, Zenon DEF Thinned, RowTables
<1>4. SlicesOK(n)
  <2>1. n.links = m.links /\ n.pkgs = m.pkgs /\ n.ifaces = m.ifaces /\ n.devices = m.devices BY <1>1, Zenon DEF Tables
  <2> QED BY <2>1, Zenon DEF SlicesOK, Good
<1>5. ASSUME NEW r \in Kept, NEW k \in DOMAIN n[r.from], Reaches(m, n, r, k) PROVE n[r.from][k][r.col] \in DOMAIN n[r.to]
  BY <1>5, <1>1, RefsTo, ZenonT(30) DEF Reaches, Tables
<1> QED BY <1>3, <1>4, <1>5, ThinnedOK, Zenon

\* The guests of host i are replaced by at most one new row.
LEMMA ReplaceGuestsKeeps ==
  ASSUME StoreInv, NEW t \in Tenants, NEW i \in Rows("devices", t), NEW rows,
         \/ rows = None
         \/ \E k \in Fresh("guests", t) : rows = [x \in {k} |-> [ref |-> "r", mac |-> "m", guest |-> 0]]
  PROVE Good(ReplaceGuests(mem, t, i, rows).db) /\ Framed(mem, ReplaceGuests(mem, t, i, rows).db)
<1> DEFINE gone == Where(mem, "guests", t, [device |-> i])
           left == Drop(mem.guests, gone)
           d == [mem EXCEPT !.guests = left]
           new == [k \in DOMAIN rows |-> rows[k] \uplus [tenant |-> t, device |-> i]]
           n == [mem EXCEPT !.guests = new \uplus left]
<1>0. Good(mem) /\ "guests" \in IdTables /\ "guests" \in Tables /\ DOMAIN mem = Tables BY Zenon DEF StoreInv, IdTables, Tables, Good
<1>1. ReplaceGuests(mem, t, i, rows).db = n BY Zenon DEF ReplaceGuests, Ok, Answer
<1>2. d = [mem EXCEPT !.guests = Drop(@, gone)] BY Zenon
<1>3. Good(d) BY <1>0, <1>2, GuestsDropped, Zenon
<1>4. d.guests = left /\ d.devices = mem.devices BY <1>0, Zenon DEF Tables
<1>5. DOMAIN left \subseteq DOMAIN mem.guests BY Zenon DEF Drop
<1>6. Framed(mem, n) BY <1>0, Zenon DEF Framed, Snapshotted
<1> HIDE DEF left
<1>7. CASE rows = None
  <2>1. new \uplus left = left
    <3>1. DOMAIN new = {} BY <1>7, Zenon DEF None
    <3>2. \E S, T : left = [x \in S |-> T[x]] BY Zenon DEF left, Drop
    <3> HIDE DEF new
    <3> QED BY <3>1, <3>2, Zenon DEF \uplus
  <2> QED BY <1>1, <1>3, <1>6, <2>1, Zenon
<1>8. ASSUME NEW k \in Fresh("guests", t), rows = [x \in {k} |-> [ref |-> "r", mac |-> "m", guest |-> 0]] PROVE Good(n)
  <2> DEFINE row == [ref |-> "r", mac |-> "m", guest |-> 0] \uplus [tenant |-> t, device |-> i]
  <2>1. /\ {"tenant", "device", "guest"} \subseteq DOMAIN row /\ row.tenant = t /\ row.device = i /\ row.guest = 0
    BY Zenon DEF \uplus
  <2>2. DOMAIN new = {k} /\ new[k] = row BY <1>8, Zenon
  <2> HIDE DEF row, new
  <2>3. new \uplus left = Put(left, k, row) BY <2>2, Zenon DEF \uplus, Put
  <2>4. k \in 1 .. born["guests"] + 1 /\ k \notin DOMAIN d.guests BY <1>0, <1>4, <1>5, <1>8, FreshIds, Zenon
  <2>5. Target(d, "devices", t, i) BY <1>4, RowsExist DEF Target
  <2> HIDE DEF d
  <2>6. \A x \in Kept : x.from = "guests" => x.col \in DOMAIN row /\ Target(d, x.to, t, row[x.col])
    BY <2>1, <2>5, RefsFrom, Zenon DEF Target
  <2>7. Good(Save(d, "guests", k, row, FALSE).db) BY <1>0, <1>3, <2>1, <2>4, <2>6, CreateOK, Zenon
  <2>8. Save(d, "guests", k, row, FALSE).db = [d EXCEPT !.guests = Put(left, k, row)] BY <1>4, Zenon DEF Save, Ok, Answer
  <2>9. [d EXCEPT !.guests = Put(left, k, row)] = n BY <2>3, Zenon DEF d
  <2> QED BY <2>7, <2>8, <2>9, Zenon
<1>9. Good(n) \/ rows = None BY <1>8, Zenon
<1> QED BY <1>1, <1>6, <1>7, <1>9, Zenon

LEMMA GuestStatementsKeep ==
  ASSUME StoreInv, NEW t \in Tenants, NEW o \in GuestStatements(t) PROVE Settled(t, o)
<1>0. Good(mem) /\ "guests" \in IdTables /\ "guests" \in Snapshotted BY Zenon DEF StoreInv, IdTables, Tables, Snapshotted
<1> DEFINE Goal == Settled(t, o)
<1>1. ASSUME NEW i \in Rows("devices", t), NEW rows \in GuestReports(t), o = <<"ReplaceGuests", i, rows>> PROVE Goal
  <2>1. TxStep(mem, t, <<"ReplaceGuests", i, rows>>) = ReplaceGuests(mem, t, i, rows) BY Zenon DEF TxStep
  <2>2. rows = None \/ \E k \in Fresh("guests", t) : rows = [x \in {k} |-> [ref |-> "r", mac |-> "m", guest |-> 0]] BY <1>1, Zenon DEF GuestReports
  <2>3. Good(ReplaceGuests(mem, t, i, rows).db) /\ Framed(mem, ReplaceGuests(mem, t, i, rows).db)
    BY <1>1, <2>2, ReplaceGuestsKeeps, Zenon
  <2> QED BY <1>1, <2>1, <2>3, Zenon DEF Settled
<1>2. ASSUME NEW i, NEW dev \in Nullable("devices", t), o = <<"SetGuestDevice", i, dev>> PROVE Goal
  <2> DEFINE cols == [guest |-> dev]
  <2>1. DOMAIN cols = {"guest"} /\ Target(mem, "devices", t, cols.guest) BY <1>2, RowsExist, Zenon
  <2>2. TxStep(mem, t, <<"SetGuestDevice", i, dev>>) = Change(mem, "guests", t, i, cols, FALSE)
    <3>1. TxStep(mem, t, <<"SetGuestDevice", i, dev>>) = SetGuestDevice(mem, t, i, dev) BY Zenon DEF TxStep
    <3> QED BY <3>1, Zenon DEF SetGuestDevice
  <2> HIDE DEF cols
  <2>3. Good(Change(mem, "guests", t, i, cols, FALSE).db) BY <1>0, <2>1, RefsFrom, ChangeOK, Zenon
  <2> QED BY <1>0, <1>2, <2>2, <2>3, WritesFramed, Zenon DEF Settled
<1>3. ASSUME NEW i \in Rows("devices", t), NEW seq, o = <<"ReplacePendingPackages", i, seq>> PROVE Goal
  <2> DEFINE rows == PackageSlice(t, seq)
             n == [mem EXCEPT !.pkgs = Put(@, i, rows)]
  <2>1. TxStep(mem, t, <<"ReplacePendingPackages", i, seq>>) = ReplacePendingPackages(mem, t, i, seq) BY Zenon DEF TxStep
  <2>2. ReplacePendingPackages(mem, t, i, seq).db = n BY Zenon DEF ReplacePendingPackages, Ok, Answer
  <2>3. \A x \in Range(rows) : x.tenant \in Tenants BY DEF Range, PackageSlice
  <2>4. i \in DOMAIN mem.devices BY <1>3, RowsExist, Zenon DEF Own
  <2> HIDE DEF rows
  <2>5. Good(n) BY <1>0, <2>3, <2>4, SliceOK, Zenon
  <2>6. Framed(mem, n) BY <1>0, Zenon DEF Framed, Snapshotted, Good
  <2> QED BY <1>3, <2>1, <2>2, <2>5, <2>6, Zenon DEF Settled
<1> HIDE DEF Goal
<1>4. \/ \E i \in Rows("devices", t), rows \in GuestReports(t) : o = <<"ReplaceGuests", i, rows>>
      \/ \E i \in Ids("guests"), dev \in Nullable("devices", t) : o = <<"SetGuestDevice", i, dev>>
      \/ \E i \in Rows("devices", t), seq \in PackageReports : o = <<"ReplacePendingPackages", i, seq>>
  BY DEF GuestStatements
<1>5. Goal BY <1>1, <1>2, <1>3, <1>4, Zenon
<1> QED BY <1>5, Zenon DEF Goal

LEMMA AddressReportColumns ==
  ASSUME NEW t, NEW r \in AddressReports(t)
  PROVE /\ DOMAIN r = {"addr", "subnet", "device", "hostname", "mac", "status", "report", "prev", "conflict"}
        /\ Target(mem, "subnets", t, r.subnet) /\ Target(mem, "devices", t, r.device)
BY RowsExist DEF AddressReports

LEMMA NetworkStatementsKeep ==
  ASSUME StoreInv, NEW t \in Tenants, NEW o \in NetworkStatements(t) PROVE Settled(t, o)
<1>0. /\ Good(mem) /\ "ifaces" \in IdTables /\ "subnets" \in IdTables /\ "addrs" \in IdTables
      /\ "ifaces" \in Snapshotted /\ "subnets" \in Snapshotted /\ "addrs" \in Snapshotted
  BY Zenon DEF StoreInv, IdTables, Tables, Snapshotted
<1> DEFINE Goal == Settled(t, o)
<1>1. ASSUME NEW i \in Fresh("ifaces", t), NEW r \in PortReports(t), o = <<"UpsertInterfaceReported", i, r, TRUE>> PROVE Goal
  <2> DEFINE row == r \uplus [tenant |-> t]
             c == IfaceTaken(mem, i, r)
  <2>1. {"tenant", "device"} \subseteq DOMAIN row /\ row.tenant = t /\ Target(mem, "devices", t, row.device)
    BY <1>1, RowsExist DEF InterfaceRows, PortReports, Columns, \uplus
  <2>3. TxStep(mem, t, o) = Save(mem, "ifaces", i, row, c)
    <3>1. TxStep(mem, t, o) = UpsertInterfaceReported(mem, t, i, r, TRUE) BY <1>1, Zenon DEF TxStep
    <3> QED BY <3>1, Zenon DEF UpsertInterfaceReported
  <2> HIDE DEF row, c
  <2>4. Good(Save(mem, "ifaces", i, row, c).db) BY <1>0, <1>1, <2>1, RefsFrom, FreshIds, CreateOK
  <2> QED BY <1>0, <2>3, <2>4, WritesFramed, Zenon DEF Settled
<1>2. ASSUME NEW i, o = <<"UpsertInterfaceReported", i, PortGone, FALSE>> PROVE Goal
  <2> DEFINE cols == [mac |-> PortGone.mac, report |-> PortGone.report]
  <2>1. DOMAIN cols = {"mac", "report"} OBVIOUS
  <2>2. TxStep(mem, t, o) = Change(mem, "ifaces", t, i, cols, FALSE)
    <3>1. TxStep(mem, t, o) = UpsertInterfaceReported(mem, t, i, PortGone, FALSE) BY <1>2, Zenon DEF TxStep
    <3> QED BY <3>1, Zenon DEF UpsertInterfaceReported
  <2> HIDE DEF cols
  <2>3. Good(Change(mem, "ifaces", t, i, cols, FALSE).db) BY <1>0, <2>1, RefsFrom, ChangeOK, Zenon
  <2> QED BY <1>0, <2>2, <2>3, WritesFramed, Zenon DEF Settled
<1>3. ASSUME NEW i \in Fresh("subnets", t), NEW r \in AutoSubnets, o = <<"CreateSubnetAuto", i, r>> PROVE Goal
  <2> DEFINE row == r \uplus [tenant |-> t, origin |-> "auto"]
             c == Taken(mem, "subnets", t, i, "name", r.name)
  <2>1. /\ {"tenant", "vlan", "parent", "location"} \subseteq DOMAIN row /\ row.tenant = t
        /\ row.vlan = 0 /\ row.parent = 0 /\ row.location = 0
    BY <1>3, Zenon DEF AutoSubnets, \uplus
  <2>2. TxStep(mem, t, o) = Save(mem, "subnets", i, row, c)
    <3>1. TxStep(mem, t, o) = CreateSubnetAuto(mem, t, i, r) BY <1>3, Zenon DEF TxStep
    <3> QED BY <3>1, Zenon DEF CreateSubnetAuto
  <2> HIDE DEF row, c
  <2>3. \A x \in Kept : x.from = "subnets" => x.col \in DOMAIN row /\ Target(mem, x.to, t, row[x.col])
    BY <2>1, RefsFrom, Zenon DEF Target
  <2>4. Good(Save(mem, "subnets", i, row, c).db) BY <1>0, <1>3, <2>1, <2>3, FreshIds, CreateOK, Zenon
  <2> QED BY <1>0, <2>2, <2>4, WritesFramed, ZenonT(30) DEF Settled
<1>4. ASSUME NEW i \in Fresh("addrs", t), NEW r \in AddressReports(t), o = <<"InsertAddressReported", i, r>> PROVE Goal
  <2> DEFINE row == AgentMAC(r.mac) \uplus [tenant |-> t, mconf |-> NoText, origin |-> NoText, lswitch |-> 0, lport |-> 0] \uplus r
                    \uplus clearAddrServerFields
             c == AddressTaken(mem, t, i, r.addr)
  <2>1. /\ {"tenant", "subnet", "device", "mdev", "lswitch", "lport"} \subseteq DOMAIN row
        /\ row.tenant = t /\ row.subnet = r.subnet /\ row.device = r.device /\ row.mdev = 0 /\ row.lswitch = 0 /\ row.lport = 0
    BY <1>4, AddressReportColumns, ZenonT(30) DEF AgentMAC, clearAddrServerFields, \uplus
  <2>2. TxStep(mem, t, o) = Save(mem, "addrs", i, row, c)
    <3>1. TxStep(mem, t, o) = InsertAddressReported(mem, t, i, r) BY <1>4, Zenon DEF TxStep
    <3> QED BY <3>1, Zenon DEF InsertAddressReported
  <2> HIDE DEF row, c
  <2>3. \A x \in Kept : x.from = "addrs" => x.col \in DOMAIN row /\ Target(mem, x.to, t, row[x.col])
    <3>1. /\ Target(mem, "subnets", t, row.subnet) /\ Target(mem, "devices", t, row.device) /\ Target(mem, "devices", t, row.mdev)
          /\ Target(mem, "devices", t, row.lswitch) /\ Target(mem, "ifaces", t, row.lport)
      BY <1>4, <2>1, AddressReportColumns DEF Target
    <3> QED BY <2>1, <3>1, RefsFrom
  <2>4. Good(Save(mem, "addrs", i, row, c).db) BY <1>0, <1>4, <2>1, <2>3, FreshIds, CreateOK, Zenon
  <2> QED BY <1>0, <2>2, <2>4, WritesFramed, ZenonT(30) DEF Settled
<1>5. ASSUME NEW i, NEW r \in AddressReports(t), o = <<"UpdateAddressReported", i, r>> PROVE Goal
  <2> DEFINE cols == [device |-> r.device, mac |-> r.mac, hostname |-> r.hostname, report |-> r.report,
                      prev |-> r.prev, conflict |-> r.conflict]
                     \uplus IF r.report = "reported" THEN AgentMAC(r.mac) ELSE None
  <2>1. /\ DOMAIN cols \subseteq {"device", "mac", "hostname", "report", "prev", "conflict", "msrc", "mdev"}
        /\ cols.device = r.device /\ ("mdev" \in DOMAIN cols => cols.mdev = 0)
    BY Zenon DEF AgentMAC, None, \uplus
  <2>2. TxStep(mem, t, o) = Change(mem, "addrs", t, i, cols, FALSE)
    <3>1. TxStep(mem, t, o) = UpdateAddressReported(mem, t, i, r) BY <1>5, Zenon DEF TxStep
    <3> QED BY <3>1, Zenon DEF UpdateAddressReported
  <2> HIDE DEF cols
  <2>3. \A x \in Kept : x.from = "addrs" /\ x.col \in DOMAIN cols => Target(mem, x.to, t, cols[x.col])
    BY <1>5, <2>1, RefsFrom, AddressReportColumns DEF Target
  <2>4. Good(Change(mem, "addrs", t, i, cols, FALSE).db) BY <1>0, <2>1, <2>3, ChangeOK, Zenon
  <2> QED BY <1>0, <2>2, <2>4, WritesFramed, ZenonT(30) DEF Settled
<1> HIDE DEF Goal
<1>6. \/ \E p \in Fresh("ifaces", t) \X PortReports(t) : o = <<"UpsertInterfaceReported", p[1], p[2], TRUE>>
      \/ \E i \in Ids("ifaces") : o = <<"UpsertInterfaceReported", i, PortGone, FALSE>>
      \/ \E p \in Fresh("subnets", t) \X AutoSubnets : o = <<"CreateSubnetAuto", p[1], p[2]>>
      \/ \E p \in Fresh("addrs", t) \X AddressReports(t) : o = <<"InsertAddressReported", p[1], p[2]>>
      \/ \E p \in Ids("addrs") \X AddressReports(t) : o = <<"UpdateAddressReported", p[1], p[2]>>
  BY Zenon DEF NetworkStatements
<1>7. \A S, T : \A p \in S \X T : p[1] \in S /\ p[2] \in T OBVIOUS
<1>8. (\E p \in Fresh("ifaces", t) \X PortReports(t) : o = <<"UpsertInterfaceReported", p[1], p[2], TRUE>>) => Goal
  BY <1>1, <1>7, Zenon
<1>9. (\E i \in Ids("ifaces") : o = <<"UpsertInterfaceReported", i, PortGone, FALSE>>) => Goal BY <1>2, Zenon
<1>10. (\E p \in Fresh("subnets", t) \X AutoSubnets : o = <<"CreateSubnetAuto", p[1], p[2]>>) => Goal BY <1>3, <1>7, Zenon
<1>11. (\E p \in Fresh("addrs", t) \X AddressReports(t) : o = <<"InsertAddressReported", p[1], p[2]>>) => Goal
  BY <1>4, <1>7, Zenon
<1>12. (\E p \in Ids("addrs") \X AddressReports(t) : o = <<"UpdateAddressReported", p[1], p[2]>>) => Goal BY <1>5, <1>7, Zenon
<1> QED BY <1>6, <1>8, <1>9, <1>10, <1>11, <1>12, Zenon DEF Goal

\* runTx over the scripts of two and of three statements.
LEMMA TxRun ==
  ASSUME NEW m, NEW t, NEW a, NEW b, NEW c, NEW two, two = afterTxStep(afterTxStep(Ok(m), t, a), t, b)
  PROVE runTx(m, t, <<a, b>>) = two /\ runTx(m, t, <<a, b, c>>) = afterTxStep(two, t, c)
<1> DEFINE start == Ok(m)
           one == afterTxStep(start, t, a)
           three == afterTxStep(two, t, c)
<1>1. ASSUME NEW s, s \in {<<a, b>>, <<a, b, c>>} PROVE runTx(m, t, s) = IF s = <<a, b>> THEN two ELSE three
  <2> DEFINE P(f) == f = [n \in 0 .. Len(s) |-> IF n = 0 THEN start ELSE afterTxStep(f[n - 1], t, s[n])]
             g == [n \in 0 .. Len(s) |-> IF n = 0 THEN start ELSE IF n = 1 THEN one ELSE IF n = 2 THEN two ELSE three]
             run == CHOOSE f : P(f)
  <2>1. /\ s[1] = a /\ s[2] = b /\ (s = <<a, b>> => Len(s) = 2) /\ (s # <<a, b>> => Len(s) = 3 /\ s[3] = c)
    BY <1>1
  <2>2. one = afterTxStep(start, t, a) /\ two = afterTxStep(one, t, b) /\ three = afterTxStep(two, t, c) BY Zenon
  <2> HIDE DEF start, one, three
  <2>3. \A n \in 0 .. Len(s) : g[n] = IF n = 0 THEN start ELSE afterTxStep(g[n - 1], t, s[n]) BY <2>1, <2>2
  <2>4. P(g) BY <2>3, Zenon
  <2>5. P(run)
    <3> HIDE DEF P, g
    <3> QED BY <2>4, Zenon
  <2>6. runTx(m, t, s) = run[Len(s)] BY Zenon DEF runTx, start
  <2> HIDE DEF run
  <2>7. \A n \in 0 .. Len(s) : run[n] = IF n = 0 THEN start ELSE afterTxStep(run[n - 1], t, s[n]) BY <2>5, Zenon
  <2>8. /\ run[0] = start /\ run[1] = afterTxStep(run[0], t, a) /\ run[2] = afterTxStep(run[1], t, b)
        /\ Len(s) = 3 => run[3] = afterTxStep(run[2], t, c)
    BY <2>1, <2>7
  <2> QED BY <2>1, <2>2, <2>6, <2>8, Zenon
<1>2. <<a, b>> # <<a, b, c>> OBVIOUS
<1> HIDE DEF three
<1>3. \A s \in {<<a, b>>, <<a, b, c>>} : runTx(m, t, s) = IF s = <<a, b>> THEN two ELSE three BY <1>1, Zenon
<1>4. runTx(m, t, <<a, b>>) = two BY <1>3, Zenon
<1>5. runTx(m, t, <<a, b, c>>) = three BY <1>2, <1>3, Zenon
<1> QED BY <1>4, <1>5, Zenon DEF three

\* The statements a report is made of.
StatementKinds ==
  {"InsertDevice", "UpdateDeviceReported", "UpsertInterfaceReported", "CreateSubnetAuto", "InsertAddressReported",
   "UpdateAddressReported", "ReplacePendingPackages", "ReplaceGuests", "SetHypervisor", "SetGuestDevice",
   "MarkDeviceNotReported", "SaveDeviceState", "ReplaceHardware"}

LEMMA ReportKinds ==
  ASSUME NEW t, NEW o \in DeviceStatements(t) \cup GuestStatements(t) \cup NetworkStatements(t)
  PROVE o[1] \in StatementKinds
<1>1. CASE o \in DeviceStatements(t)
  <2>1. o[1] \in {"InsertDevice", "UpdateDeviceReported", "SetHypervisor", "MarkDeviceNotReported", "SaveDeviceState",
                  "ReplaceHardware"}
    BY <1>1 DEF DeviceStatements
  <2> QED BY <2>1 DEF StatementKinds
<1>2. CASE o \in GuestStatements(t) BY <1>2 DEF GuestStatements, StatementKinds
<1>3. CASE o \in NetworkStatements(t)
  <2>1. \/ \E p \in Fresh("ifaces", t) \X PortReports(t) : o = <<"UpsertInterfaceReported", p[1], p[2], TRUE>>
        \/ \E i \in Ids("ifaces") : o = <<"UpsertInterfaceReported", i, PortGone, FALSE>>
        \/ \E p \in Fresh("subnets", t) \X AutoSubnets : o = <<"CreateSubnetAuto", p[1], p[2]>>
        \/ \E p \in Fresh("addrs", t) \X AddressReports(t) : o = <<"InsertAddressReported", p[1], p[2]>>
        \/ \E p \in Ids("addrs") \X AddressReports(t) : o = <<"UpdateAddressReported", p[1], p[2]>>
    BY <1>3, Zenon DEF NetworkStatements
  <2>2. /\ \A x, y, z, w : <<x, y, z, w>>[1] = x
        /\ \A x, y, z : <<x, y, z>>[1] = x
    OBVIOUS
  <2>3. o[1] \in {"UpsertInterfaceReported", "CreateSubnetAuto", "InsertAddressReported", "UpdateAddressReported"}
    <3>1. ASSUME NEW p, o = <<"UpsertInterfaceReported", p[1], p[2], TRUE>> PROVE o[1] = "UpsertInterfaceReported"
      BY <2>2, <3>1, Zenon
    <3>2. ASSUME NEW i, o = <<"UpsertInterfaceReported", i, PortGone, FALSE>> PROVE o[1] = "UpsertInterfaceReported"
      BY <2>2, <3>2, Zenon
    <3>3. ASSUME NEW p, o = <<"CreateSubnetAuto", p[1], p[2]>> PROVE o[1] = "CreateSubnetAuto" BY <2>2, <3>3, Zenon
    <3>4. ASSUME NEW p, o = <<"InsertAddressReported", p[1], p[2]>> PROVE o[1] = "InsertAddressReported" BY <2>2, <3>4, Zenon
    <3>5. ASSUME NEW p, o = <<"UpdateAddressReported", p[1], p[2]>> PROVE o[1] = "UpdateAddressReported" BY <2>2, <3>5, Zenon
    <3> QED BY <2>1, <3>1, <3>2, <3>3, <3>4, <3>5, Zenon
  <2> QED BY <2>3, Zenon DEF StatementKinds
<1> QED BY <1>1, <1>2, <1>3

\* Every statement answers with an error and a database.
LEMMA StatementAnswers ==
  ASSUME NEW m, NEW t, NEW o, o[1] \in StatementKinds PROVE {"err", "db", "log"} \subseteq DOMAIN TxStep(m, t, o)
<1> DEFINE Full(a) == {"err", "db", "log"} \subseteq DOMAIN a
<1>1. \A n : Full(Ok(n)) BY Zenon DEF Ok, Answer
<1>2. \A e, n : Full(Err(e, n)) BY Zenon DEF Err, Answer
<1> HIDE DEF Full
<1>3. \A tab, i, row, c : Full(Save(m, tab, i, row, c)) BY <1>1, <1>2, Zenon DEF Save
<1>4. \A tab, i, cols, c : Full(Change(m, tab, t, i, cols, c)) BY <1>2, <1>3, Zenon DEF Change
<1>5. \A i, r : Full(InsertDevice(m, t, i, r)) BY <1>3, Zenon DEF InsertDevice
<1>6. \A i, r : Full(UpdateDeviceReported(m, t, i, r)) BY <1>4, Zenon DEF UpdateDeviceReported
<1>7. \A i, r, c : Full(UpsertInterfaceReported(m, t, i, r, c)) BY <1>3, <1>4, Zenon DEF UpsertInterfaceReported
<1>8. \A i, r : Full(CreateSubnetAuto(m, t, i, r)) BY <1>3, Zenon DEF CreateSubnetAuto
<1>9. \A i, r : Full(InsertAddressReported(m, t, i, r)) BY <1>3, Zenon DEF InsertAddressReported
<1>10. \A i, r : Full(UpdateAddressReported(m, t, i, r)) BY <1>4, Zenon DEF UpdateAddressReported
<1>11. \A i, seq : Full(ReplacePendingPackages(m, t, i, seq)) BY <1>1, Zenon DEF ReplacePendingPackages
<1>12. \A i, rows : Full(ReplaceGuests(m, t, i, rows)) BY <1>1, Zenon DEF ReplaceGuests
<1>13. \A i, h : Full(SetHypervisor(m, t, i, h)) BY <1>2, <1>4, Zenon DEF SetHypervisor
<1>14. \A i, dev : Full(SetGuestDevice(m, t, i, dev)) BY <1>4, Zenon DEF SetGuestDevice
<1>15. \A i : Full(MarkDeviceNotReported(m, t, i)) BY <1>1, <1>2, Zenon DEF MarkDeviceNotReported
<1>16. \A i, n : Full(SaveDeviceState(m, t, i, n)) BY <1>3, Zenon DEF SaveDeviceState
<1>17. \A i, v : Full(ReplaceHardware(m, t, i, v)) BY <1>2, <1>3, Zenon DEF ReplaceHardware
<1>18. Full(TxStep(m, t, o))
  BY <1>5, <1>6, <1>7, <1>8, <1>9, <1>10, <1>11, <1>12, <1>13, <1>14, <1>15, <1>16, <1>17, SMTT(30) DEF TxStep, StatementKinds
<1> QED BY <1>18, Zenon DEF Full

LEMMA StatementsKeep ==
  ASSUME StoreInv, NEW t \in Tenants, NEW o \in DeviceStatements(t) \cup GuestStatements(t) \cup NetworkStatements(t)
  PROVE Settled(t, o)
BY DeviceStatementsKeep, GuestStatementsKeep, NetworkStatementsKeep, Zenon

\* Good looks at a database one table at a time.
LEMMA SameTables ==
  ASSUME NEW m, Good(m), NEW n, DOMAIN n = Tables, \A tab \in Tables : n[tab] = m[tab]
  PROVE Good(n)
<1>1. \A tab \in RowTables : n[tab] = m[tab] BY Zenon DEF RowTables
<1>2. n.ifaces = m.ifaces /\ n.devices = m.devices /\ n.links = m.links /\ n.pkgs = m.pkgs BY Zenon DEF Tables
<1>3. ASSUME NEW tab \in RowTables, NEW k \in DOMAIN n[tab] PROVE RowOK(n, tab, k, n[tab][k])
  <2>1. n[tab] = m[tab] /\ RowOK(m, tab, k, m[tab][k]) BY <1>1, <1>3, Zenon DEF Good
  <2> DEFINE row == m[tab][k]
  <2> HIDE DEF row
  <2>2. RowOK(m, tab, k, row) BY <2>1, Zenon DEF row
  <2>3. \A r \in Kept : Target(m, r.to, row.tenant, row[r.col]) => Target(n, r.to, row.tenant, row[r.col])
    BY <1>1, KeptTables, Zenon DEF Target
  <2>4. RowOK(n, tab, k, row) BY <1>2, <2>2, <2>3, Zenon DEF RowOK, LinkAgrees
  <2> QED BY <2>1, <2>4, Zenon DEF row
<1>4. SlicesOK(n) BY <1>2, Zenon DEF Good, SlicesOK
<1> QED BY <1>3, <1>4, Zenon DEF Good

\* An error puts back the tables the statements may have written.
LEMMA Restored ==
  ASSUME Good(mem), NEW n, Framed(mem, n) PROVE Good(restoreLocked(n, mem))
<1>1. \A tab \in Tables : restoreLocked(n, mem)[tab] = mem[tab] BY Zenon DEF restoreLocked, Framed
<1>2. DOMAIN restoreLocked(n, mem) = Tables BY Zenon DEF restoreLocked
<1> QED BY <1>1, <1>2, SameTables, Zenon

\* A transaction keeps what its one effective statement leaves, or nothing.
LEMMA ScriptsKeep ==
  ASSUME StoreInv, NEW t \in Tenants, NEW o \in DeviceStatements(t) \cup GuestStatements(t) \cup NetworkStatements(t),
         NEW script, script \in {<<<<"AppendAudit">>, o>>, <<<<"AppendAudit">>, o, <<"MarkDeviceNotReported", 0>>>>}
  PROVE runTx(mem, t, script).db = TxStep(mem, t, o).db
<1> DEFINE first == afterTxStep(Ok(mem), t, <<"AppendAudit">>)
           two == afterTxStep(first, t, o)
           bad == <<"MarkDeviceNotReported", 0>>
           a == TxStep(mem, t, o)
<1>1. first.err = "ok" /\ first.db = mem BY Zenon DEF afterTxStep, TxStep, Logged, Ok, Answer
<1>2. {"err", "db", "log"} \subseteq DOMAIN a BY ReportKinds, StatementAnswers, Zenon
<1> HIDE DEF first
<1>3. two = [a EXCEPT !.log = first.log + @] BY <1>1, Zenon DEF afterTxStep
<1> HIDE DEF a
<1>4. two.db = a.db /\ two.err = a.err BY <1>2, <1>3, Zenon
<1>5. runTx(mem, t, script) = two \/ runTx(mem, t, script) = afterTxStep(two, t, bad)
  <2>1. runTx(mem, t, <<<<"AppendAudit">>, o>>) = two /\ runTx(mem, t, <<<<"AppendAudit">>, o, bad>>) = afterTxStep(two, t, bad)
    <3>1. two = afterTxStep(afterTxStep(Ok(mem), t, <<"AppendAudit">>), t, o) BY Zenon DEF first
    <3> HIDE DEF bad, two
    <3> QED BY <3>1, TxRun, SMT
  <2> QED BY <2>1, Zenon
<1>6. ~Own(a.db, "devices", t, 0)
  <2>1. Good(a.db) BY StatementsKeep, Zenon DEF Settled, a
  <2>2. "devices" \in RowTables /\ "devices" \in IdTables BY Zenon DEF RowTables, Tables, IdTables
  <2>3. \A k \in DOMAIN a.db.devices : k \in 1 .. born["devices"] + 1 BY <2>1, <2>2, Zenon DEF Good, RowOK, Keyed
  <2> QED BY <2>3 DEF Own
<1> HIDE DEF two
<1>7. TxStep(a.db, t, bad) = Err("notfound", a.db)
  <2>1. TxStep(a.db, t, bad) = MarkDeviceNotReported(a.db, t, 0) BY Zenon DEF TxStep
  <2> QED BY <1>6, <2>1, Zenon DEF MarkDeviceNotReported
<1>8. afterTxStep(two, t, bad).db = a.db
  <2>1. Err("notfound", a.db).db = a.db /\ {"err", "db", "log"} \subseteq DOMAIN Err("notfound", a.db) BY Zenon DEF Err, Answer
  <2>2. CASE two.err # "ok" BY <1>4, <2>2, Zenon DEF afterTxStep
  <2>3. CASE two.err = "ok"
    <3> HIDE DEF bad
    <3>1. afterTxStep(two, t, bad) = [TxStep(a.db, t, bad) EXCEPT !.log = two.log + @] BY <1>4, <2>3, Zenon DEF afterTxStep
    <3> QED BY <1>7, <2>1, <3>1, Zenon
  <2> QED BY <2>2, <2>3, Zenon
<1> QED BY <1>4, <1>5, <1>8, Zenon DEF a

LEMMA ApplyKeeps ==
  ASSUME StoreInv, NEW t \in DOMAIN mem.hsSettings, NEW script \in Scripts(t)
  PROVE Good(ApplyHostReport(mem, t, script).db)
<1> DEFINE done == runTx(mem, t, script)
<1>1. Good(mem) BY Zenon DEF StoreInv
<1>2. t \in Tenants
  <2>1. "hsSettings" \in RowTables BY Zenon DEF RowTables, Tables
  <2> QED BY <1>1, <2>1 DEF Good, RowOK, Keyed
<1>3. PICK o \in DeviceStatements(t) \cup GuestStatements(t) \cup NetworkStatements(t) :
        script \in {<<<<"AppendAudit">>, o>>, <<<<"AppendAudit">>, o, <<"MarkDeviceNotReported", 0>>>>}
  BY Zenon DEF Scripts
<1>4. done.db = TxStep(mem, t, o).db BY <1>2, <1>3, ScriptsKeep, Zenon
<1>5. Good(done.db) /\ Framed(mem, done.db) BY <1>2, <1>3, <1>4, StatementsKeep, Zenon DEF Settled
<1>6. ensureSettingsLocked(mem, t) = mem BY Zenon DEF ensureSettingsLocked
<1>7. Good(restoreLocked(done.db, mem)) BY <1>1, <1>5, Restored, Zenon
<1>8. \/ ApplyHostReport(mem, t, script) = Err("disabled", mem)
      \/ ApplyHostReport(mem, t, script) = done
      \/ ApplyHostReport(mem, t, script) = Err(done.err, restoreLocked(done.db, mem))
  BY <1>6, Zenon DEF ApplyHostReport
<1>9. \A e, n : Err(e, n).db = n BY Zenon DEF Err, Answer
<1> HIDE DEF done
<1> QED BY <1>1, <1>5, <1>7, <1>8, <1>9, ZenonT(30)

\* The changes of a tenant's host sync settings.
LEMMA SettingsKeep ==
  ASSUME StoreInv, NEW t \in room.who
  PROVE /\ Good(EnsureHostSyncSettings(mem, t).db)
        /\ \A on : Good(UpdateHostSyncSettings(mem, t, on).db)
        /\ Good(RequestReconcile(mem, t).db)
        /\ \A status, since, clear : Good(SaveHostSyncState(mem, t, status, since, clear).db)
<1> DEFINE e == ensureSettingsLocked(mem, t)
           old == e.hsSettings[t]
<1>1. t \in Tenants BY RoomsAssumption, Zenon DEF StoreInv
<1>2. Good(e) /\ t \in DOMAIN e.hsSettings BY <1>1, SettingsEnsured, Zenon DEF StoreInv
<1>3. EnsureHostSyncSettings(mem, t).db = e BY Zenon DEF EnsureHostSyncSettings, Answer
<1>4. ASSUME NEW on PROVE Good(UpdateHostSyncSettings(mem, t, on).db)
  <2> DEFINE row == [old EXCEPT !.requested = @ \/ (on /\ ~old.enabled), !.enabled = on,
                                !.status = IF ~on THEN "disabled" ELSE IF @ = "disabled" THEN "ok" ELSE @]
  <2>1. UpdateHostSyncSettings(mem, t, on) = Answer("ok", [e EXCEPT !.hsSettings[t] = row], 1, 0)
    BY Zenon DEF UpdateHostSyncSettings
  <2> HIDE DEF e, old
  <2>2. DOMAIN row = DOMAIN old /\ row.tenant = old.tenant
    <3>1. "tenant" \in DOMAIN old BY <1>2, Zenon DEF Good, RowOK, RowTables, Tables, old
    <3> QED BY <3>1, Zenon
  <2> HIDE DEF row
  <2>3. Good([e EXCEPT !.hsSettings[t] = row]) BY <1>2, <2>2, SettingsChanged, Zenon DEF old
  <2> QED BY <2>1, <2>3 DEF Answer
<1>5. Good(RequestReconcile(mem, t).db)
  <2> DEFINE row == [old EXCEPT !.requested = TRUE]
  <2>1. RequestReconcile(mem, t) = Answer("ok", [e EXCEPT !.hsSettings[t].requested = TRUE], 1, 0)
    BY Zenon DEF RequestReconcile
  <2> HIDE DEF e
  <2>2. [e EXCEPT !.hsSettings[t].requested = TRUE] = [e EXCEPT !.hsSettings[t] = row] OBVIOUS
  <2> HIDE DEF old
  <2>3. DOMAIN row = DOMAIN old /\ row.tenant = old.tenant
    <3>1. "tenant" \in DOMAIN old BY <1>2, Zenon DEF Good, RowOK, RowTables, Tables, old
    <3> QED BY <3>1, Zenon
  <2> HIDE DEF row
  <2>4. Good([e EXCEPT !.hsSettings[t] = row]) BY <1>2, <2>3, SettingsChanged, Zenon DEF old
  <2> QED BY <2>1, <2>2, <2>4 DEF Answer
<1>6. ASSUME NEW status, NEW since, NEW clear PROVE Good(SaveHostSyncState(mem, t, status, since, clear).db)
  <2> DEFINE row == [old EXCEPT !.status = status, !.since = IF since # 0 THEN since ELSE @,
                                !.requested = IF clear THEN FALSE ELSE @]
  <2>1. SaveHostSyncState(mem, t, status, since, clear) = Ok([e EXCEPT !.hsSettings[t] = row])
    BY Zenon DEF SaveHostSyncState
  <2> HIDE DEF e, old
  <2>2. DOMAIN row = DOMAIN old /\ row.tenant = old.tenant
    <3>1. "tenant" \in DOMAIN old BY <1>2, Zenon DEF Good, RowOK, RowTables, Tables, old
    <3> QED BY <3>1, Zenon
  <2> HIDE DEF row
  <2>3. Good([e EXCEPT !.hsSettings[t] = row]) BY <1>2, <2>2, SettingsChanged, Zenon DEF old
  <2> QED BY <2>1, <2>3 DEF Ok, Answer
<1> QED BY <1>2, <1>3, <1>4, <1>5, <1>6, Zenon

LEMMA JobsKeep == ASSUME StoreInv, Jobs PROVE Good(mem')
<1>0. Good(mem) /\ "scans" \in IdTables /\ room.who \subseteq Tenants BY RoomsAssumption, Zenon DEF StoreInv, IdTables, Tables
<1>1. CASE DoCreateScanJob
  <2> SUFFICES ASSUME NEW t \in Tenants, NEW i \in Fresh("scans", t), NEW s \in Rows("subnets", t)
               PROVE Good(CreateScanJob(mem, t, i, [subnet |-> s, status |-> "pending", later |-> FALSE]).db)
    BY <1>1, Zenon DEF DoCreateScanJob, Do
  <2> DEFINE row == [subnet |-> s, status |-> "pending", later |-> FALSE] \uplus [tenant |-> t]
  <2>1. "tenant" \in DOMAIN row /\ row.tenant = t /\ "subnet" \in DOMAIN row /\ Target(mem, "subnets", t, row.subnet)
    BY RowsExist, Zenon DEF \uplus
  <2> HIDE DEF row
  <2>2. CreateScanJob(mem, t, i, [subnet |-> s, status |-> "pending", later |-> FALSE]) = Save(mem, "scans", i, row, FALSE)
    BY Zenon DEF CreateScanJob, row
  <2>3. i \in 1 .. born["scans"] + 1 /\ i \notin DOMAIN mem["scans"] BY <1>0, FreshIds, Zenon
  <2>4. Good(Save(mem, "scans", i, row, FALSE).db) BY <1>0, <2>1, <2>3, RefsFrom, CreateOK, Zenon
  <2> QED BY <2>2, <2>4, Zenon
<1>2. CASE DoUpdateScanJob
  <2> DEFINE changes == [status : {"pending"}, later : BOOLEAN] \cup [status : {"failed"}, later : {FALSE}]
  <2>1. ASSUME NEW t, NEW i, NEW r \in changes PROVE Good(UpdateScanJob(mem, t, i, r).db)
    <3>1. DOMAIN r = {"status", "later"} BY ZenonT(30)
    <3> HIDE DEF changes
    <3> QED BY <1>0, <3>1, RefsFrom, ChangeOK, Zenon DEF UpdateScanJob
  <2>2. \E t \in Tenants, i \in Ids("scans"), r \in changes : mem' = UpdateScanJob(mem, t, i, r).db
    BY <1>2, Zenon DEF DoUpdateScanJob, Do
  <2> HIDE DEF changes
  <2> QED BY <2>1, <2>2, Zenon
<1>3. CASE DoClaimDueScanJobs
  <2> SUFFICES ASSUME NEW limit \in 1 .. 2 PROVE Good(ClaimDueScanJobs(mem, limit).db)
    BY <1>3, Zenon DEF DoClaimDueScanJobs, Do
  <2> QED BY <1>0, ClaimKeeps, Zenon
<1>4. CASE DoUpsertDNSConfig
  <2> SUFFICES ASSUME NEW t \in room.who, NEW servers PROVE Good(UpsertDNSConfig(mem, t, servers).db)
    BY <1>4, Zenon DEF DoUpsertDNSConfig, Do
  <2> DEFINE row == [tenant |-> t, servers |-> servers]
  <2>1. "dns" \in RowTables /\ "dns" \notin IdTables BY Zenon DEF RowTables, Tables, IdTables
  <2>2. RowOK(mem, "dns", t, row) BY <1>0, <2>1, RefsFrom, Zenon DEF RowOK, Keyed
  <2>3. \A old : Relied("dns", old, row) BY Zenon DEF Relied, Referred
  <2>4. UpsertDNSConfig(mem, t, servers) = Save(mem, "dns", t, row, FALSE) BY Zenon DEF UpsertDNSConfig
  <2> HIDE DEF row
  <2> QED BY <1>0, <2>1, <2>2, <2>3, <2>4, SaveOK, Zenon
<1>5. CASE DoAppendAudit BY <1>0, <1>5, Zenon DEF DoAppendAudit, Do, AppendAudit, Logged, Ok, Answer
<1>6. CASE DoEnsureHostSyncSettings BY <1>6, SettingsKeep, Zenon DEF DoEnsureHostSyncSettings, Do
<1>7. CASE DoUpdateHostSyncSettings BY <1>7, SettingsKeep, Zenon DEF DoUpdateHostSyncSettings, Do
<1>8. CASE DoRequestReconcile BY <1>8, SettingsKeep, Zenon DEF DoRequestReconcile, Do
<1>9. CASE DoSaveHostSyncState
  <2>1. PICK t \in room.who, since \in {0, 1}, clear \in BOOLEAN : mem' = SaveHostSyncState(mem, t, "error", since, clear).db
    BY <1>9, Zenon DEF DoSaveHostSyncState, Do
  <2>2. Good(SaveHostSyncState(mem, t, "error", since, clear).db) BY SettingsKeep, Zenon
  <2> QED BY <2>1, <2>2, Zenon
<1>10. CASE DoApplyHostReport BY <1>10, ApplyKeeps, Zenon DEF DoApplyHostReport, Do
<1> QED BY <1>1, <1>2, <1>3, <1>4, <1>5, <1>6, <1>7, <1>8, <1>9, <1>10, Zenon DEF Jobs

\* Every call moves the last ids on as the rows it adds need.
LEMMA IdsMove ==
  ASSUME Next
  PROVE /\ born' = [tab \in Tables |-> IF tab \in IdTables /\ born[tab] + 1 \in DOMAIN mem'[tab] THEN born[tab] + 1
                                       ELSE born[tab]]
        /\ room' = room
<1> DEFINE Moved ==
      /\ born' = [tab \in Tables |-> IF tab \in IdTables /\ born[tab] + 1 \in DOMAIN mem'[tab] THEN born[tab] + 1
                                     ELSE born[tab]]
      /\ room' = room
<1>1. \A c, a : Do(c, a) => Moved BY Zenon DEF Do
<1> HIDE DEF Moved
<1>2. ASSUME Places PROVE Moved
  <2>1. ASSUME DoCreateLocation PROVE Moved BY <1>1, <2>1, Zenon DEF DoCreateLocation
  <2>2. ASSUME DoUpdateLocation PROVE Moved BY <1>1, <2>2, Zenon DEF DoUpdateLocation
  <2>3. ASSUME DoDeleteLocation PROVE Moved BY <1>1, <2>3, Zenon DEF DoDeleteLocation
  <2>4. ASSUME DoCreateVlan PROVE Moved BY <1>1, <2>4, Zenon DEF DoCreateVlan
  <2>5. ASSUME DoUpdateVlan PROVE Moved BY <1>1, <2>5, Zenon DEF DoUpdateVlan
  <2>6. ASSUME DoDeleteVlan PROVE Moved BY <1>1, <2>6, Zenon DEF DoDeleteVlan
  <2>7. ASSUME DoCreateSubnet PROVE Moved BY <1>1, <2>7, Zenon DEF DoCreateSubnet
  <2>8. ASSUME DoUpdateSubnet PROVE Moved BY <1>1, <2>8, Zenon DEF DoUpdateSubnet
  <2>9. ASSUME DoDeleteSubnet PROVE Moved BY <1>1, <2>9, Zenon DEF DoDeleteSubnet
  <2>10. ASSUME DoPutSubnetSNMP PROVE Moved BY <1>1, <2>10, Zenon DEF DoPutSubnetSNMP
  <2>11. ASSUME DoDeleteSubnetSNMP PROVE Moved BY <1>1, <2>11, Zenon DEF DoDeleteSubnetSNMP
  <2> QED BY <1>2, <2>1, <2>2, <2>3, <2>4, <2>5, <2>6, <2>7, <2>8, <2>9, <2>10, <2>11, Zenon DEF Places
<1>3. ASSUME Addressing PROVE Moved
  <2>1. ASSUME DoCreateAddress PROVE Moved BY <1>1, <2>1, Zenon DEF DoCreateAddress
  <2>2. ASSUME DoUpdateAddress PROVE Moved BY <1>1, <2>2, Zenon DEF DoUpdateAddress
  <2>3. ASSUME DoDeleteAddress PROVE Moved BY <1>1, <2>3, Zenon DEF DoDeleteAddress
  <2>4. ASSUME DoUpsertAddressByAddress PROVE Moved BY <1>1, <2>4, Zenon DEF DoUpsertAddressByAddress
  <2>5. ASSUME DoApplyARP PROVE Moved BY <1>1, <2>5, Zenon DEF DoApplyARP
  <2>6. ASSUME DoPutARPSettings PROVE Moved BY <1>1, <2>6, Zenon DEF DoPutARPSettings
  <2>7. ASSUME DoSetAddressLinks PROVE Moved BY <1>1, <2>7, Zenon DEF DoSetAddressLinks
  <2>8. ASSUME DoClearAddressConflict PROVE Moved BY <1>1, <2>8, Zenon DEF DoClearAddressConflict
  <2> QED BY <1>3, <2>1, <2>2, <2>3, <2>4, <2>5, <2>6, <2>7, <2>8, Zenon DEF Addressing
<1>4. ASSUME DevicesAndPorts PROVE Moved
  <2>1. ASSUME DoCreateDevice PROVE Moved BY <1>1, <2>1, Zenon DEF DoCreateDevice
  <2>2. ASSUME DoUpdateDevice PROVE Moved BY <1>1, <2>2, Zenon DEF DoUpdateDevice
  <2>3. ASSUME DoDeleteDevice PROVE Moved BY <1>1, <2>3, Zenon DEF DoDeleteDevice
  <2>4. ASSUME DoUpsertDeviceByName PROVE Moved BY <1>1, <2>4, Zenon DEF DoUpsertDeviceByName
  <2>5. ASSUME DoSetDeviceBMCRef PROVE Moved BY <1>1, <2>5, Zenon DEF DoSetDeviceBMCRef
  <2>6. ASSUME DoCreateInterface PROVE Moved BY <1>1, <2>6, Zenon DEF DoCreateInterface
  <2>7. ASSUME DoUpsertInterfaceByName PROVE Moved BY <1>1, <2>7, Zenon DEF DoUpsertInterfaceByName
  <2>8. ASSUME DoDeleteInterface PROVE Moved BY <1>1, <2>8, Zenon DEF DoDeleteInterface
  <2>9. ASSUME DoReplaceInterfaceLinks PROVE Moved BY <1>1, <2>9, Zenon DEF DoReplaceInterfaceLinks
  <2>10. ASSUME DoSetInterfaceLinks PROVE Moved BY <1>1, <2>10, Zenon DEF DoSetInterfaceLinks
  <2>11. ASSUME DoReplaceDevicePackages PROVE Moved BY <1>1, <2>11, Zenon DEF DoReplaceDevicePackages
  <2>12. ASSUME DoDeleteDevicePackages PROVE Moved BY <1>1, <2>12, Zenon DEF DoDeleteDevicePackages
  <2> QED BY <1>4, <2>1, <2>2, <2>3, <2>4, <2>5, <2>6, <2>7, <2>8, <2>9, <2>10, <2>11, <2>12, Zenon DEF DevicesAndPorts
<1>5. ASSUME Groups PROVE Moved
  <2>1. ASSUME DoCreateIPGroup PROVE Moved BY <1>1, <2>1, Zenon DEF DoCreateIPGroup
  <2>2. ASSUME DoUpdateIPGroup PROVE Moved BY <1>1, <2>2, Zenon DEF DoUpdateIPGroup
  <2>3. ASSUME DoDeleteIPGroup PROVE Moved BY <1>1, <2>3, Zenon DEF DoDeleteIPGroup
  <2>4. ASSUME DoAddIPGroupMember PROVE Moved BY <1>1, <2>4, Zenon DEF DoAddIPGroupMember
  <2>5. ASSUME DoUpdateIPGroupMember PROVE Moved BY <1>1, <2>5, Zenon DEF DoUpdateIPGroupMember
  <2>6. ASSUME DoRemoveIPGroupMember PROVE Moved BY <1>1, <2>6, Zenon DEF DoRemoveIPGroupMember
  <2>7. ASSUME DoCreateHostGroup PROVE Moved BY <1>1, <2>7, Zenon DEF DoCreateHostGroup
  <2>8. ASSUME DoUpdateHostGroup PROVE Moved BY <1>1, <2>8, Zenon DEF DoUpdateHostGroup
  <2>9. ASSUME DoDeleteHostGroup PROVE Moved BY <1>1, <2>9, Zenon DEF DoDeleteHostGroup
  <2>10. ASSUME DoAddHostGroupMember PROVE Moved BY <1>1, <2>10, Zenon DEF DoAddHostGroupMember
  <2>11. ASSUME DoUpdateHostGroupMember PROVE Moved BY <1>1, <2>11, Zenon DEF DoUpdateHostGroupMember
  <2>12. ASSUME DoRemoveHostGroupMember PROVE Moved BY <1>1, <2>12, Zenon DEF DoRemoveHostGroupMember
  <2> QED BY <1>5, <2>1, <2>2, <2>3, <2>4, <2>5, <2>6, <2>7, <2>8, <2>9, <2>10, <2>11, <2>12, Zenon DEF Groups
<1>6. ASSUME Jobs PROVE Moved
  <2>1. ASSUME DoCreateScanJob PROVE Moved BY <1>1, <2>1, Zenon DEF DoCreateScanJob
  <2>2. ASSUME DoUpdateScanJob PROVE Moved BY <1>1, <2>2, Zenon DEF DoUpdateScanJob
  <2>3. ASSUME DoClaimDueScanJobs PROVE Moved BY <1>1, <2>3, Zenon DEF DoClaimDueScanJobs
  <2>4. ASSUME DoUpsertDNSConfig PROVE Moved BY <1>1, <2>4, Zenon DEF DoUpsertDNSConfig
  <2>5. ASSUME DoAppendAudit PROVE Moved BY <1>1, <2>5, Zenon DEF DoAppendAudit
  <2>6. ASSUME DoEnsureHostSyncSettings PROVE Moved BY <1>1, <2>6, Zenon DEF DoEnsureHostSyncSettings
  <2>7. ASSUME DoUpdateHostSyncSettings PROVE Moved BY <1>1, <2>7, Zenon DEF DoUpdateHostSyncSettings
  <2>8. ASSUME DoRequestReconcile PROVE Moved BY <1>1, <2>8, Zenon DEF DoRequestReconcile
  <2>9. ASSUME DoSaveHostSyncState PROVE Moved BY <1>1, <2>9, Zenon DEF DoSaveHostSyncState
  <2>10. ASSUME DoApplyHostReport PROVE Moved BY <1>1, <2>10, Zenon DEF DoApplyHostReport
  <2> QED BY <1>6, <2>1, <2>2, <2>3, <2>4, <2>5, <2>6, <2>7, <2>8, <2>9, <2>10, Zenon DEF Jobs
<1>7. Moved BY <1>2, <1>3, <1>4, <1>5, <1>6, Zenon DEF Next
<1> QED BY <1>7, Zenon DEF Moved

LEMMA StoreStep == ASSUME StoreInv, Next PROVE StoreInv'
<1>1. Good(mem') BY PlacesKeep, AddressingKeep, DevicesAndPortsKeep, GroupsKeep, JobsKeep, Zenon DEF Next
<1>2. IdTables \subseteq Tables /\ IdTables \subseteq RowTables BY Zenon DEF IdTables, RowTables
<1>3. ASSUME NEW tab \in IdTables
      PROVE born'[tab] \in Nat /\ born[tab] <= born'[tab] /\ DOMAIN mem'[tab] \subseteq 1 .. born'[tab]
  <2>1. born[tab] \in Nat BY Zenon DEF StoreInv
  <2>2. \A k \in DOMAIN mem'[tab] : k \in 1 .. born[tab] + 1 BY <1>1, <1>2, Zenon DEF Good, RowOK, Keyed
  <2>3. born'[tab] = IF born[tab] + 1 \in DOMAIN mem'[tab] THEN born[tab] + 1 ELSE born[tab] BY <1>2, IdsMove, Zenon
  <2> QED BY <2>1, <2>2, <2>3
<1>4. room' \in Rooms BY IdsMove, Zenon DEF StoreInv
<1>5. ASSUME NEW tab \in RowTables, NEW k \in DOMAIN mem'[tab] PROVE RowOK(mem, tab, k, mem[tab][k])'
  <2>1. RowOK(mem', tab, k, mem'[tab][k]) BY <1>1, <1>5, Zenon DEF Good
  <2>2. Keyed(tab, k, mem[tab][k])'
    <3>1. tab \in IdTables => k \in 1 .. born'[tab] + 1 BY <1>3
    <3> QED BY <2>1, <3>1, Zenon DEF RowOK, Keyed
  <2> QED BY <2>1, <2>2, Zenon DEF RowOK, Target, LinkAgrees
<1>6. Good(mem)' BY <1>1, <1>5, Zenon DEF Good, SlicesOK
<1> QED BY <1>3, <1>4, <1>6, Zenon DEF StoreInv

LEMMA StoreStart == ASSUME Init PROVE StoreInv
<1>1. DOMAIN mem = Tables /\ \A tab \in Tables : DOMAIN mem[tab] = {} BY Zenon DEF Init, None
<1>2. {"links", "pkgs"} \subseteq Tables /\ IdTables \subseteq Tables /\ RowTables \subseteq Tables
  BY Zenon DEF Tables, IdTables, RowTables
<1>3. Good(mem) BY <1>1, <1>2, Zenon DEF Good, SlicesOK
<1>4. \A tab \in IdTables : born[tab] = 0 BY <1>2, Zenon DEF Init
<1> QED BY <1>1, <1>2, <1>3, <1>4, Zenon DEF StoreInv, Init

LEMMA StoreInvariant == Spec => []StoreInv
<1>1. Init => StoreInv BY StoreStart, Zenon
<1>2. StoreInv /\ [Next]_memVars => StoreInv'
  <2>1. ASSUME StoreInv, Next PROVE StoreInv' BY <2>1, StoreStep, Zenon
  <2>2. ASSUME StoreInv, UNCHANGED memVars PROVE StoreInv'
    <3>1. mem' = mem /\ born' = born /\ room' = room BY <2>2, Zenon DEF memVars
    <3>2. ASSUME NEW tab, NEW k, RowOK(mem, tab, k, mem[tab][k]) PROVE RowOK(mem, tab, k, mem[tab][k])'
      BY <3>1, <3>2, Zenon DEF RowOK, Keyed, Target, LinkAgrees
    <3>3. Good(mem)' BY <2>2, <3>1, <3>2, Zenon DEF StoreInv, Good, SlicesOK
    <3> QED BY <2>2, <3>1, <3>3, Zenon DEF StoreInv
  <2> QED BY <2>1, <2>2, Zenon
<1> QED BY <1>1, <1>2, PTL DEF Spec

(***************************************************************************)
(* What the maps stand for.                                                *)
(***************************************************************************)
\* The links that reads return are on ports that exist.
LEMMA LiveLinks ==
  ASSUME StoreInv, NEW t, NEW kind, NEW host, NEW l \in hostLinksLocked(mem, t, kind, host)
  PROVE l.port \in DOMAIN mem.ifaces /\ l.switch \in DOMAIN mem.devices \cup {0}
<1> DEFINE set == IF Own(mem, "hostLinks", t, <<kind, host>>) THEN mem.hostLinks[<<kind, host>>].links ELSE {}
           live == {x \in set : Own(mem, "ifaces", t, x[2]) /\ mem.ifaces[x[2]].device = x[1]}
<1>1. hostLinksLocked(mem, t, kind, host) = {[switch |-> x[1], port |-> x[2], name |-> mem.devices[x[1]].name] : x \in live}
  BY Zenon DEF hostLinksLocked
<1> HIDE DEF set
<1>2. PICK x \in live : l = [switch |-> x[1], port |-> x[2], name |-> mem.devices[x[1]].name] BY <1>1, Zenon
<1>3. x[2] \in DOMAIN mem.ifaces /\ mem.ifaces[x[2]].device = x[1] BY <1>2, Zenon DEF Own
<1>4. Target(mem, "devices", mem.ifaces[x[2]].tenant, mem.ifaces[x[2]].device)
  <2>1. Ref("ifaces", "device", "devices", "cascade") \in Kept BY Zenon DEF Kept, Refs, BaseRefs, Ref
  <2>2. Sure(Ref("ifaces", "device", "devices", "cascade")) BY Zenon DEF Sure, Ref
  <2>3. "ifaces" \in RowTables BY Zenon DEF RowTables, Tables
  <2>4. RowOK(mem, "ifaces", x[2], mem.ifaces[x[2]]) BY <1>3, <2>3, Zenon DEF StoreInv, Good
  <2> QED BY <2>1, <2>2, <2>4, Zenon DEF RowOK, Ref
<1> QED BY <1>2, <1>3, <1>4, Zenon DEF Target

LEMMA SlicesLive ==
  ASSUME StoreInv
  PROVE /\ \A k \in DOMAIN AbsLinks(mem) : AbsLinks(mem)[k].iface \in DOMAIN mem.ifaces
        /\ \A k \in DOMAIN AbsPkgs(mem) : AbsPkgs(mem)[k].device \in DOMAIN mem.devices
<1>1. ASSUME NEW k \in DOMAIN AbsLinks(mem) PROVE AbsLinks(mem)[k].iface \in DOMAIN mem.ifaces
  <2>1. k \in UNION {{<<i, l.src, l.remote>> : l \in Range(mem.links[i])} : i \in DOMAIN mem.links} BY <1>1, Zenon DEF AbsLinks
  <2>2. PICK i \in DOMAIN mem.links : k \in {<<i, l.src, l.remote>> : l \in Range(mem.links[i])} BY <2>1, Zenon
  <2>3. PICK l \in Range(mem.links[i]) : k = <<i, l.src, l.remote>> BY <2>2, Zenon
  <2>4. AbsLinks(mem)[k].iface = k[1] BY <1>1, Zenon DEF AbsLinks
  <2> QED BY <2>3, <2>4, Zenon DEF StoreInv, Good, SlicesOK
<1>2. ASSUME NEW k \in DOMAIN AbsPkgs(mem) PROVE AbsPkgs(mem)[k].device \in DOMAIN mem.devices
  <2>1. k \in UNION {{<<i, p.name>> : p \in Range(mem.pkgs[i])} : i \in DOMAIN mem.pkgs} BY <1>2, Zenon DEF AbsPkgs
  <2>2. PICK i \in DOMAIN mem.pkgs : k \in {<<i, p.name>> : p \in Range(mem.pkgs[i])} BY <2>1, Zenon
  <2>3. PICK p \in Range(mem.pkgs[i]) : k = <<i, p.name>> BY <2>2, Zenon
  <2>4. AbsPkgs(mem)[k].device = k[1] BY <1>2, Zenon DEF AbsPkgs
  <2> QED BY <2>3, <2>4, Zenon DEF StoreInv, Good, SlicesOK
<1> QED BY <1>1, <1>2, Zenon

LEMMA HostLinksLive ==
  ASSUME StoreInv, NEW k \in DOMAIN AbsHostLinks(mem)
  PROVE AbsHostLinks(mem)[k].port \in DOMAIN mem.ifaces /\ AbsHostLinks(mem)[k].switch \in DOMAIN mem.devices \cup {0}
<1> DEFINE live(h) == hostLinksLocked(mem, mem.hostLinks[h].tenant, h[1], h[2])
           one == CHOOSE l \in live(<<k[1], k[2]>>) : l.switch = k[3]
<1>1. k \in UNION {{<<h[1], h[2], l.switch>> : l \in live(h)} : h \in DOMAIN mem.hostLinks} BY Zenon DEF AbsHostLinks
<1>2. AbsHostLinks(mem)[k].switch = k[3] /\ AbsHostLinks(mem)[k].port = one.port BY <1>1, Zenon DEF AbsHostLinks
<1> HIDE DEF live
<1>3. PICK h \in DOMAIN mem.hostLinks : k \in {<<h[1], h[2], l.switch>> : l \in live(h)} BY <1>1, Zenon
<1>4. PICK l \in live(h) : k = <<h[1], h[2], l.switch>> BY <1>3, Zenon
<1>5. h = <<h[1], h[2]>>
  <2>1. "hostLinks" \in RowTables BY Zenon DEF RowTables, Tables
  <2> QED BY <2>1, Zenon DEF StoreInv, Good, RowOK, Keyed
<1>6. k[1] = h[1] /\ k[2] = h[2] /\ k[3] = l.switch BY <1>4, Zenon
<1>7. l \in live(<<k[1], k[2]>>) BY <1>4, <1>5, <1>6, Zenon
<1>8. one \in live(<<k[1], k[2]>>) /\ one.switch = k[3] BY <1>6, <1>7, Zenon
<1> HIDE DEF one
<1>9. one.port \in DOMAIN mem.ifaces /\ one.switch \in DOMAIN mem.devices \cup {0} BY <1>8, LiveLinks, Zenon DEF live
<1> QED BY <1>2, <1>8, <1>9, Zenon

LEMMA RefLive ==
  ASSUME StoreInv, NEW r \in Refs, Sure(r), NEW k \in DOMAIN Abs(mem)[r.from]
  PROVE Abs(mem)[r.from][k][r.col] \in DOMAIN Abs(mem)[r.to] \cup {0}
<1> DEFINE d == Abs(mem)
<1>1. DOMAIN mem = Tables BY Zenon DEF StoreInv, Good
<1>2. /\ \A tab \in Tables \ {"links", "pkgs", "hostLinks"} : d[tab] = mem[tab]
      /\ d.links = AbsLinks(mem) /\ d.pkgs = AbsPkgs(mem) /\ d.hostLinks = AbsHostLinks(mem)
  BY <1>1, Zenon DEF Abs, Tables
<1>3. r.to \in Tables \ {"links", "pkgs", "hostLinks"}
  BY DEF Refs, BaseRefs, HostSyncRefs, LinkRefs, Ref, Tables
<1>4. /\ r.from = "links" => r.col = "iface" /\ r.to = "ifaces"
      /\ r.from = "pkgs" => r.col = "device" /\ r.to = "devices"
      /\ r.from = "hostLinks" => (r.col = "switch" /\ r.to = "devices") \/ (r.col = "port" /\ r.to = "ifaces")
  BY DEF Refs, BaseRefs, HostSyncRefs, LinkRefs, Ref
<1>5. r.from \in Tables BY DEF Refs, BaseRefs, HostSyncRefs, LinkRefs, Ref, Tables
<1> HIDE DEF d
<1>6. k \in DOMAIN d[r.from] BY Zenon DEF d
<1>7. d[r.from][k][r.col] \in DOMAIN d[r.to] \cup {0}
  <2>1. CASE r.from = "links" BY <1>2, <1>3, <1>4, <1>6, <2>1, SlicesLive, Zenon
  <2>2. CASE r.from = "pkgs" BY <1>2, <1>3, <1>4, <1>6, <2>2, SlicesLive, Zenon
  <2>3. CASE r.from = "hostLinks" BY <1>2, <1>3, <1>4, <1>6, <2>3, HostLinksLive, Zenon
  <2>4. CASE r.from \notin {"links", "pkgs", "hostLinks"}
    <3>1. r \in Kept BY <2>4, Zenon DEF Kept
    <3>2. d[r.from] = mem[r.from] /\ d[r.to] = mem[r.to] /\ r.from \in RowTables BY <1>2, <1>3, <1>5, <2>4, Zenon DEF RowTables
    <3>3. RowOK(mem, r.from, k, mem[r.from][k]) BY <1>6, <3>2, Zenon DEF StoreInv, Good
    <3>4. Target(mem, r.to, mem[r.from][k].tenant, mem[r.from][k][r.col]) BY <3>1, <3>3, Zenon DEF RowOK
    <3> QED BY <3>2, <3>4, Zenon DEF Target
  <2> QED BY <2>1, <2>2, <2>3, <2>4, Zenon
<1> QED BY <1>7, Zenon DEF d

(***************************************************************************)
(* The theorems.                                                           *)
(***************************************************************************)
\* Every map of Mem keeps its rows under the tenant that wrote them, whatever
\* the calls: no method of internal/memstore stores a row without one.
THEOREM StoreTypeCorrect == Spec => []TypeOK
<1>1. StoreInv => TypeOK BY Zenon DEF StoreInv, Good, RowOK, SlicesOK, RowTables, TypeOK
<1> QED BY <1>1, StoreInvariant, PTL

\* As long as no device or port is deleted that an address is linked to, no
\* row of the store points at a row that is gone: each delete of
\* internal/memstore finds every row that refers to what it deletes, and no
\* write puts in a reference to a row that is not there.
THEOREM NoDanglingReference ==
  ASSUME ~DeleteLinked PROVE Spec => []ReferencesLive
<1>1. StoreInv => ReferencesLive
  <2> SUFFICES ASSUME StoreInv PROVE ReferencesLive OBVIOUS
  <2>1. \A r \in Refs : Sure(r) BY Zenon DEF Sure
  <2> QED BY <2>1, RefLive, Zenon DEF ReferencesLive
<1> QED BY <1>1, StoreInvariant, PTL

\* The references of the schema other than the link columns of addresses.
OtherReferencesLive ==
  LET d == Abs(mem)
  IN \A r \in {x \in Refs : x.col \notin {"mdev", "lswitch", "lport"}} :
       \A k \in DOMAIN d[r.from] : d[r.from][k][r.col] \in DOMAIN d[r.to] \cup {0}

\* Deleting devices and ports that addresses are linked to leaves dangling the
\* three link columns of addresses and nothing else: every other reference of
\* the schema is live after any sequence of calls.
THEOREM OnlyAddressLinksDangle == Spec => []OtherReferencesLive
<1>1. StoreInv => OtherReferencesLive
  <2> SUFFICES ASSUME StoreInv PROVE OtherReferencesLive OBVIOUS
  <2>1. \A r \in {x \in Refs : x.col \notin {"mdev", "lswitch", "lport"}} : r \in Refs /\ Sure(r) BY Zenon DEF Sure
  <2> QED BY <2>1, RefLive, Zenon DEF OtherReferencesLive
<1> QED BY <1>1, StoreInvariant, PTL

\* Every reference column of a row that is set, the link columns of addresses
\* apart, holds the id of a row of the same tenant.
ReferencesInTenant ==
  \A r \in Kept : \A k \in DOMAIN mem[r.from] :
    LET row == mem[r.from][k]
    IN r.col \notin {"mdev", "lswitch", "lport"} /\ row[r.col] # 0 => Own(mem, r.to, row.tenant, row[r.col])

\* References never cross tenants: when every call names rows of its own
\* tenant, no sequence of creates, updates, upserts, host reports and deletes
\* of several tenants leaves a row that refers to another tenant's row, or to
\* an id that another tenant's row got since.
THEOREM TenantsKeptApart == Spec => []ReferencesInTenant
<1>1. StoreInv => ReferencesInTenant
  <2> SUFFICES ASSUME StoreInv, NEW r \in Kept, NEW k \in DOMAIN mem[r.from], r.col \notin {"mdev", "lswitch", "lport"},
                      mem[r.from][k][r.col] # 0
               PROVE Own(mem, r.to, mem[r.from][k].tenant, mem[r.from][k][r.col])
    BY Zenon DEF ReferencesInTenant
  <2>1. r.from \in RowTables BY KeptTables, Zenon
  <2>2. RowOK(mem, r.from, k, mem[r.from][k]) BY <2>1, Zenon DEF StoreInv, Good
  <2>3. Sure(r) BY Zenon DEF Sure
  <2>4. Target(mem, r.to, mem[r.from][k].tenant, mem[r.from][k][r.col]) BY <2>2, <2>3, Zenon DEF RowOK
  <2> QED BY <2>4, Zenon DEF Target, Own
<1> QED BY <1>1, StoreInvariant, PTL

=============================================================================
