--------------------------- MODULE HostSyncSteps ----------------------------
(***************************************************************************)
(* The inductive invariant of HostSync, the proof that every step          *)
(* preserves the types, and what the steps of a replica and of Apply       *)
(* change.                                                                 *)
(***************************************************************************)
EXTENDS HostSync, TLAPS

ApplyPCs == {"apply", "mark", "applytx", "marktx"}

\* Whoever is in an apply transaction holds the lock and found the tenant
\* enabled, and it stays so: an UPDATE of the settings row waits.
LockInv == \A p \in Procs : InTx(p) => lock = p /\ enabled

\* An apply has a report; runners and re-syncs keep to their own steps.
RowInv ==
    /\ \A p \in Procs : pc[p] \in ApplyPCs \cup {"fresh"} => row[p] \in Report
    /\ \A r \in Runners : /\ pc[r] # "fresh" /\ mode[r] # "resync"
                          /\ pc[r] \in ApplyPCs => mode[r] # "none"
    /\ \A a \in Admins : /\ pc[a] \in ApplyPCs \cup {"idle", "fresh"}
                         /\ pc[a] \in ApplyPCs => mode[a] = "resync"

\* A reported device has a digest, also as deviceDigests read it.
DeviceInv ==
    /\ \A h \in reported : digest[h] # 0
    /\ \A r \in Runners : \A h \in live[r] : known[r][h] # 0

\* Change times are distinct.
ChangeInv == \A g, h \in Hosts : at[g] # 0 /\ at[g] = at[h] => g = h

\* Every report that changed up to t is handled (is in H), or is a row of S.
CoveredIn(A, H, t, S) ==
    \A h \in Hosts : A[h] # 0 /\ A[h] <= t =>
        \/ <<h, A[h]>> \in H
        \/ \E x \in S : x.host = h /\ x.at = A[h]

Covered(t, S) == CoveredIn(at, handled, t, S)

MarkInv == Covered(since, {}) /\ \A r \in Runners : Covered(mark[r], {})

PollApply(r) == pc[r] \in ApplyPCs /\ mode[r] = "poll"
Polling(r)   == pc[r] \in {"digests", "list", "rows"} \/ PollApply(r)

\* The rows of the current page that a poll has not finished with.
Pending(r) == page[r] \cup (IF PollApply(r) THEN {row[r]} ELSE {})

\* A poll without failures has handled everything up to its cursor but the
\* pending rows, which it takes in the order of their change.
PollOK(r) ==
    /\ Polling(r) =>
         /\ r \notin failed => Covered(cursor[r], Pending(r))
         /\ \A x \in Pending(r) : x.at <= cursor[r]
         /\ \A x, y \in Pending(r) : x.at = y.at => x = y
    /\ PollApply(r) => \A y \in page[r] : row[r].at <= y.at
    /\ pc[r] \in {"idle", "begin", "digests", "list", "save"} => page[r] = {}

PollInv == \A r \in Runners : PollOK(r)

\* The inductive invariant.
IndInv == TypeOK /\ LockInv /\ RowInv /\ DeviceInv /\ ChangeInv /\ MarkInv /\ PollInv

-----------------------------------------------------------------------------
\* Types, one group of variables at a time.

InventoryTypes == clock \in Nat /\ at \in [Hosts -> Times] /\ retired \subseteq Hosts
SettingsTypes ==
    /\ enabled \in BOOLEAN /\ requested \in BOOLEAN /\ fresh \in BOOLEAN
    /\ since \in Times
DeviceTypes ==
    /\ digest \in [Hosts -> Times] /\ reported \subseteq Hosts
    /\ handled \subseteq Hosts \X Times
ProcessTypes ==
    /\ lock \in Procs \cup {NoProc}
    /\ pc \in [Procs -> PCs] /\ mode \in [Procs -> Modes]
    /\ row \in [Procs -> Report \cup {<<>>}]
PollTypes ==
    /\ page \in [Runners -> SUBSET Report]
    /\ more \subseteq Runners /\ due \subseteq Runners
    /\ cursor \in [Runners -> Times]
    /\ known \in [Runners -> [Hosts -> Times]]
    /\ live \in [Runners -> SUBSET Hosts] /\ seen \in [Runners -> SUBSET Hosts]
OutcomeTypes ==
    mark \in [Runners -> Times] /\ failed \subseteq Runners /\ result \in [Runners -> Results]
MemoryTypes ==
    /\ retry \subseteq Runners /\ backoff \subseteq Runners
    /\ global \in [Runners -> Times] /\ newest \in [Runners -> Times]

LEMMA TypeGroups ==
    TypeOK <=> /\ InventoryTypes /\ SettingsTypes /\ DeviceTypes /\ ProcessTypes
               /\ PollTypes /\ OutcomeTypes /\ MemoryTypes /\ events \in 0 .. MaxEvents
BY Zenon DEF TypeOK, InventoryTypes, SettingsTypes, DeviceTypes, ProcessTypes, PollTypes,
       OutcomeTypes, MemoryTypes

LEMMA TimesFacts ==
    ASSUME TypeOK
    PROVE  /\ 0 \in Times /\ clock \in Times /\ Times \subseteq Nat
           /\ \A x \in Report : x.host \in Hosts /\ x.at \in Times /\ x.at # 0
           /\ \A h \in Hosts : at[h] \in Times
           /\ \A h \in Hosts : at[h] # 0 => Latest(h) \in Report
           /\ \A h \in Hosts : Latest(h).host = h /\ Latest(h).at = at[h]
BY DEF TypeOK, Times, Report, Latest, Status

\* The steps of a replica outside ApplyHostReport: its polls, and its
\* reconciles, saves and faults.
PollAct(r) ==
    \/ Cycle(r) \/ BackoffEnds(r) \/ RunTenant(r)
    \/ deviceDigests(r) \/ ListHostReports(r) \/ handlePolled(r) \/ PageDone(r)

ReconcileAct(r, ok) ==
    \/ reconcileDigests(r) \/ reconcileList(r) \/ reconcileRow(r) \/ reconcileListed(r)
    \/ reconcileAbsent(r) \/ reconcileDone(r)
    \/ Save(r, ok) \/ RunnerFails(r) \/ Restart(r)

RunnerAct(r, ok) == PollAct(r) \/ ReconcileAct(r, ok)

ApplyAct(p) == ApplyBegin(p) \/ ApplyCommit(p) \/ ApplyFails(p)

LEMMA NextSplit ==
    ASSUME Next
    PROVE  \/ \E h \in Hosts : ReportChanges(h) \/ HostRetired(h) \/ HostDeleted(h)
           \/ \E on \in BOOLEAN : UpdateSettings(on)
           \/ ResyncAll \/ IntervalPasses
           \/ \E r \in Runners, ok \in BOOLEAN : RunnerAct(r, ok)
           \/ \E p \in Procs : ApplyAct(p)
           \/ \E a \in Admins : freshReport(a) \/ \E h \in Hosts : ResyncDevice(a, h)
BY Zenon DEF Next, Progress, Disturbance, RunnerStep, ApplyStep, RunnerAct,
            PollAct, ReconcileAct, ApplyAct

\* What a replica's step leaves alone.
Frame(r) ==
    /\ UNCHANGED inventory /\ UNCHANGED <<enabled, digest, reported>>
    /\ handled \subseteq handled'
    /\ lock' = lock \/ (lock = r /\ lock' = NoProc)
    /\ \A p \in Procs \ {r} : pc'[p] = pc[p] /\ mode'[p] = mode[p] /\ row'[p] = row[p]
    /\ \A q \in Runners \ {r} :
         /\ page'[q] = page[q] /\ cursor'[q] = cursor[q] /\ mark'[q] = mark[q]
         /\ known'[q] = known[q] /\ live'[q] = live[q]
         /\ q \in failed' <=> q \in failed

LEMMA RunnerFrame ==
    ASSUME NEW r \in Runners, NEW ok \in BOOLEAN, TypeOK, RunnerAct(r, ok)
    PROVE  Frame(r)
<1> /\ pc \in [Procs -> PCs] /\ mode \in [Procs -> Modes] /\ row \in [Procs -> Report \cup {<<>>}]
    /\ page \in [Runners -> SUBSET Report] /\ cursor \in [Runners -> Times]
    /\ mark \in [Runners -> Times] /\ known \in [Runners -> [Hosts -> Times]]
    /\ live \in [Runners -> SUBSET Hosts]
  BY Zenon DEF TypeOK
<1>1. CASE Cycle(r)
  BY <1>1, Zenon DEF Frame, Cycle, GoTo, inventory, settings, devices, scan, outcome, poll
<1>2. CASE BackoffEnds(r)
  BY <1>2, Zenon DEF Frame, BackoffEnds, inventory, settings, devices, scan, outcome, poll
<1>3. CASE RunTenant(r)
  BY <1>3, Zenon DEF Frame, RunTenant, GoTo, EndCycle, inventory, settings, devices, scan, outcome,
     poll
<1>4. CASE deviceDigests(r)
  BY <1>4, Zenon DEF Frame, deviceDigests, GoTo, ReadDigests, inventory, settings, devices, scan,
     outcome, poll
<1>5. CASE ListHostReports(r)
  BY <1>5, Zenon DEF Frame, ListHostReports, GoTo, inventory, settings, devices, scan, outcome,
     poll
<1>6. CASE handlePolled(r)
  BY <1>6 DEF Frame, handlePolled, GoTo, CallApply, Handled, inventory, settings, devices,
     scan, outcome, poll
<1>7. CASE PageDone(r)
  BY <1>7, Zenon DEF Frame, PageDone, GoTo, EndRun, Forget, inventory, settings, devices, scan,
     outcome, poll
<1>8. CASE reconcileDigests(r)
  BY <1>8, Zenon DEF Frame, reconcileDigests, GoTo, ReadDigests, inventory, settings, devices,
     scan, outcome, poll
<1>9. CASE reconcileList(r)
  BY <1>9, Zenon DEF Frame, reconcileList, GoTo, inventory, settings, devices, scan, outcome, poll
<1>10. CASE reconcileRow(r)
  BY <1>10 DEF Frame, reconcileRow, GoTo, HandleFetched, CallApply, Handled, inventory,
     settings, devices, scan, outcome, poll
<1>11. CASE reconcileListed(r)
  BY <1>11, Zenon DEF Frame, reconcileListed, GoTo, inventory, settings, devices, scan, outcome,
     poll
<1>12. CASE reconcileAbsent(r)
  BY <1>12 DEF Frame, reconcileAbsent, GoTo, HandleFetched, CallApply, Handled, inventory,
     settings, devices, scan, outcome, poll
<1>13. CASE reconcileDone(r)
  BY <1>13, Zenon DEF Frame, reconcileDone, GoTo, EndRun, Forget, inventory, settings, devices,
     scan, outcome, poll
<1>14. CASE Save(r, ok)
  BY <1>14, Zenon DEF Frame, Save, SaveState, GoTo, EndCycle, inventory, settings, devices, scan, outcome,
     poll
<1>15. CASE RunnerFails(r)
  BY <1>15, Zenon DEF Frame, RunnerFails, CallFails, GoTo, EndRun, Forget, EndCycle, inventory,
     settings, devices, scan, outcome, poll
<1>16. CASE Restart(r)
  BY <1>16, Zenon DEF Frame, Restart, GoTo, Return, Forget, inventory, settings, devices, scan,
     outcome, poll
<1> QED
  BY <1>1, <1>2, <1>3, <1>4, <1>5, <1>6, <1>7, <1>8, <1>9, <1>10, <1>11, <1>12, <1>13,
     <1>14, <1>15, <1>16, Zenon DEF RunnerAct, PollAct, ReconcileAct

\* How a replica's step moves the replica itself.
Proceeds(r) ==
    /\ pc'[r] \in {"applytx", "marktx"} => pc'[r] = pc[r] /\ lock' = lock
    /\ pc'[r] = "fresh" => pc[r] = "fresh"
    /\ mode'[r] = "resync" => mode[r] = "resync"
    /\ pc'[r] \in ApplyPCs => \/ row'[r] \in Report /\ mode'[r] # "none"
                              \/ pc'[r] = pc[r] /\ row'[r] = row[r] /\ mode'[r] = mode[r]

LEMMA RunnerProceeds ==
    ASSUME NEW r \in Runners, NEW ok \in BOOLEAN, TypeOK, DeviceInv, RunnerAct(r, ok)
    PROVE  Proceeds(r)
<1> r \in Procs
  BY Zenon DEF Procs
<1> /\ pc \in [Procs -> PCs] /\ mode \in [Procs -> Modes]
    /\ row \in [Procs -> Report \cup {<<>>}] /\ page \in [Runners -> SUBSET Report]
    /\ known \in [Runners -> [Hosts -> Times]] /\ live \in [Runners -> SUBSET Hosts]
  BY Zenon DEF TypeOK
<1>1. CASE Cycle(r)
  BY <1>1, Zenon DEF Proceeds, Cycle, GoTo, ApplyPCs
<1>2. CASE BackoffEnds(r)
  BY <1>2, Zenon DEF Proceeds, BackoffEnds, ApplyPCs
<1>3. CASE RunTenant(r)
  BY <1>3, Zenon DEF Proceeds, RunTenant, GoTo, EndCycle, ApplyPCs
<1>4. CASE deviceDigests(r)
  BY <1>4, Zenon DEF Proceeds, deviceDigests, GoTo, ReadDigests, ApplyPCs
<1>5. CASE ListHostReports(r)
  BY <1>5, Zenon DEF Proceeds, ListHostReports, GoTo, ApplyPCs
<1>6. CASE handlePolled(r)
  <2>1. PICK x \in page[r] : UNCHANGED <<pc, mode, row>> \/ CallApply(r, "poll", x)
    BY <1>6, Zenon DEF handlePolled, Oldest
  <2>2. x \in Report /\ lock' = lock
    BY <1>6, <2>1, Zenon DEF handlePolled
  <2> QED
    BY <2>1, <2>2, Zenon DEF CallApply, GoTo, Proceeds
<1>7. CASE PageDone(r)
  BY <1>7, Zenon DEF Proceeds, PageDone, GoTo, EndRun, ApplyPCs
<1>8. CASE reconcileDigests(r)
  BY <1>8, Zenon DEF Proceeds, reconcileDigests, GoTo, ReadDigests, ApplyPCs
<1>9. CASE reconcileList(r)
  BY <1>9, Zenon DEF Proceeds, reconcileList, GoTo, ApplyPCs
<1>10. CASE reconcileRow(r)
  <2>1. PICK x \in page[r] :
          \/ UNCHANGED <<pc, mode, row>>
          \/ CallApply(r, "retired", x)
          \/ at[x.host] # 0 /\ CallApply(r, "reconcile", Latest(x.host))
    BY <1>10, Zenon DEF reconcileRow, Oldest, HandleFetched
  <2>2. x \in Report /\ lock' = lock
    BY <1>10, <2>1, Zenon DEF reconcileRow
  <2>3. at[x.host] # 0 => Latest(x.host) \in Report
    BY <2>2, TimesFacts, Zenon
  <2> QED
    BY <2>1, <2>2, <2>3, Zenon DEF CallApply, GoTo, Proceeds
<1>11. CASE reconcileListed(r)
  BY <1>11, Zenon DEF Proceeds, reconcileListed, GoTo, ApplyPCs
<1>12. CASE reconcileAbsent(r)
  <2>1. PICK h \in live[r] :
          \/ UNCHANGED <<pc, mode, row>>
          \/ CallApply(r, "deleted", [host |-> h, at |-> known[r][h], status |-> "retired"])
          \/ at[h] # 0 /\ CallApply(r, "absent", Latest(h))
    BY <1>12, Zenon DEF reconcileAbsent, Missing, HandleFetched
  <2>2. h \in Hosts /\ known[r][h] \in Times /\ known[r][h] # 0 /\ lock' = lock
    BY <1>12, <2>1, Zenon DEF reconcileAbsent, DeviceInv
  <2>3. /\ at[h] # 0 => Latest(h) \in Report
        /\ [host |-> h, at |-> known[r][h], status |-> "retired"] \in Report
    BY <2>2, TimesFacts, Zenon DEF Report
  <2> QED
    BY <2>1, <2>2, <2>3, Zenon DEF CallApply, GoTo, Proceeds
<1>13. CASE reconcileDone(r)
  BY <1>13, Zenon DEF Proceeds, reconcileDone, GoTo, EndRun, ApplyPCs
<1>14. CASE Save(r, ok)
  BY <1>14, Zenon DEF Proceeds, Save, GoTo, EndCycle, ApplyPCs
<1>15. CASE RunnerFails(r)
  BY <1>15, Zenon DEF Proceeds, RunnerFails, CallFails, GoTo, EndRun, EndCycle, ApplyPCs
<1>16. CASE Restart(r)
  BY <1>16, Zenon DEF Proceeds, Restart, GoTo, Return, ApplyPCs
<1> QED
  BY <1>1, <1>2, <1>3, <1>4, <1>5, <1>6, <1>7, <1>8, <1>9, <1>10, <1>11, <1>12, <1>13,
     <1>14, <1>15, <1>16, Zenon DEF RunnerAct, PollAct, ReconcileAct

LEMMA ForgetTypes ==
    ASSUME NEW r \in Runners, TypeOK, clock' = clock, Forget(r)
    PROVE  PollTypes'
<1> Times' = Times /\ Report' = Report
  BY Zenon DEF Times, Report
<1> QED
  BY TypeGroups, TimesFacts, Zenon DEF PollTypes, Forget

LEMMA CallApplyTypes ==
    ASSUME NEW p \in Procs, NEW m \in Modes, NEW x \in Report, TypeOK, clock' = clock,
           CallApply(p, m, x), lock' = lock
    PROVE  ProcessTypes'
<1> Times' = Times /\ Report' = Report
  BY SMTT(30) DEF Times, Report
<1> QED
  BY TypeGroups, Zenon DEF ProcessTypes, CallApply, GoTo, PCs

LEMMA PollingTypes ==
    ASSUME NEW r \in Runners, TypeOK, RowInv, DeviceInv, PollAct(r)
    PROVE  /\ InventoryTypes' /\ SettingsTypes' /\ DeviceTypes' /\ ProcessTypes'
           /\ PollTypes' /\ OutcomeTypes' /\ MemoryTypes'
<1> clock' = clock
  BY RunnerFrame, Zenon DEF RunnerAct, Frame, inventory
<1> Times' = Times /\ Report' = Report
  BY Zenon DEF Times, Report
<1> r \in Procs
  BY Zenon DEF Procs
<1> /\ InventoryTypes /\ SettingsTypes /\ DeviceTypes /\ ProcessTypes
    /\ PollTypes /\ OutcomeTypes /\ MemoryTypes
  BY TypeGroups, Zenon
<1>1. CASE Cycle(r)
  <2>1. InventoryTypes' /\ SettingsTypes' /\ DeviceTypes' /\ PollTypes' /\ OutcomeTypes'
    BY <1>1, TimesFacts, Zenon DEF InventoryTypes, SettingsTypes, DeviceTypes, PollTypes,
       OutcomeTypes, Cycle, GoTo, Results, inventory, settings, devices, scan, outcome,
       poll, memory
  <2>2. ProcessTypes'
    BY <1>1, TimesFacts, Zenon DEF ProcessTypes, Cycle, GoTo, PCs, Modes, inventory, settings,
       devices, scan, outcome, poll, memory
  <2>3. MemoryTypes'
    BY <1>1, TimesFacts, Zenon DEF MemoryTypes, Cycle, GoTo, inventory, settings, devices, scan,
       outcome, poll, memory
  <2> QED
    BY <2>1, <2>2, <2>3, Zenon
<1>2. CASE BackoffEnds(r)
  <2>1. /\ InventoryTypes' /\ SettingsTypes' /\ DeviceTypes' /\ ProcessTypes'
        /\ PollTypes' /\ OutcomeTypes' /\ MemoryTypes'
    BY <1>2, TimesFacts, Zenon DEF InventoryTypes, SettingsTypes, DeviceTypes, ProcessTypes,
       PollTypes, OutcomeTypes, MemoryTypes, BackoffEnds, PCs, Modes, Results, inventory,
       settings, devices, scan, outcome, poll, memory
  <2> QED
    BY <2>1, Zenon
<1>3. CASE RunTenant(r)
  <2>1. InventoryTypes' /\ SettingsTypes' /\ DeviceTypes' /\ OutcomeTypes'
    BY <1>3, TimesFacts, Zenon DEF InventoryTypes, SettingsTypes, DeviceTypes, OutcomeTypes,
       RunTenant, GoTo, EndCycle, Results, inventory, settings, devices, scan, outcome,
       poll, memory
  <2>2. ProcessTypes'
    BY <1>3, TimesFacts, Zenon DEF ProcessTypes, RunTenant, GoTo, EndCycle, PCs, Modes, inventory,
       settings, devices, scan, outcome, poll, memory
  <2>3. PollTypes'
    BY <1>3, Zenon DEF RunTenant, PollTypes, SettingsTypes, GoTo, poll, scan
  <2>4. MemoryTypes'
    BY <1>3, TimesFacts DEF MemoryTypes, RunTenant, GoTo, EndCycle, inventory, settings,
       devices, scan, outcome, poll, memory
  <2> QED
    BY <2>1, <2>2, <2>3, <2>4, Zenon
<1>4. CASE deviceDigests(r)
  <2>1. InventoryTypes' /\ SettingsTypes' /\ DeviceTypes' /\ OutcomeTypes' /\ MemoryTypes'
    BY <1>4, TimesFacts, Zenon DEF InventoryTypes, SettingsTypes, DeviceTypes, OutcomeTypes,
       MemoryTypes, deviceDigests, GoTo, ReadDigests, Results, inventory, settings, devices,
       scan, outcome, poll, memory
  <2>2. ProcessTypes'
    BY <1>4, TimesFacts, Zenon DEF ProcessTypes, deviceDigests, GoTo, ReadDigests, PCs, Modes,
       inventory, settings, devices, scan, outcome, poll, memory
  <2>3. PollTypes'
    BY <1>4, Zenon DEF deviceDigests, ReadDigests, PollTypes, DeviceTypes
  <2> QED
    BY <2>1, <2>2, <2>3, Zenon
<1>5. CASE ListHostReports(r)
  <2>1. InventoryTypes' /\ SettingsTypes' /\ DeviceTypes' /\ OutcomeTypes' /\ MemoryTypes'
    BY <1>5, TimesFacts, Zenon DEF InventoryTypes, SettingsTypes, DeviceTypes, OutcomeTypes,
       MemoryTypes, ListHostReports, GoTo, Results, inventory, settings, devices, scan,
       outcome, poll, memory
  <2>2. ProcessTypes'
    BY <1>5, TimesFacts, Zenon DEF ProcessTypes, ListHostReports, GoTo, PCs, Modes, inventory,
       settings, devices, scan, outcome, poll, memory
  <2>3. PollTypes'
    <3>1. CASE UNCHANGED <<page, cursor>>
      BY <1>5, <3>1, Zenon DEF ListHostReports, PollTypes
    <3>2. ASSUME NEW last \in Listed(cursor[r]),
                 LET hs == {h \in Listed(cursor[r]) : at[h] <= at[last]}
                 IN  /\ page' = [page EXCEPT ![r] = {Latest(h) : h \in hs}]
                     /\ cursor' = [cursor EXCEPT ![r] = at[last]]
          PROVE  PollTypes'
      <4> DEFINE hs == {h \in Listed(cursor[r]) : at[h] <= at[last]}
                 rows == {Latest(h) : h \in hs}
      <4>1. cursor[r] \in Nat /\ \A h \in Hosts : at[h] \in Nat
        BY TimesFacts, Zenon DEF PollTypes
      <4>2. rows \subseteq Report /\ last \in Hosts
        BY <4>1, TimesFacts DEF Listed
      <4>3. page' = [page EXCEPT ![r] = rows]
        BY <3>2, Zenon
      <4>4. UNCHANGED <<known, live, seen, due>> /\ more' \subseteq Runners
        BY <1>5, Zenon DEF ListHostReports, PollTypes
      <4> QED
        BY <3>2, <4>2, <4>3, <4>4, TimesFacts DEF PollTypes
    <3> QED
      BY <1>5, <3>1, <3>2, Zenon DEF ListHostReports
  <2> QED
    BY <2>1, <2>2, <2>3, Zenon
<1>6. CASE handlePolled(r)
  <2>1. InventoryTypes' /\ SettingsTypes' /\ MemoryTypes'
    BY <1>6, TimesFacts, Zenon DEF InventoryTypes, SettingsTypes, MemoryTypes, handlePolled,
       inventory, settings, devices, scan, outcome, poll, memory
  <2>2. DeviceTypes' /\ ProcessTypes' /\ PollTypes' /\ OutcomeTypes'
    <3>1. PICK x \in page[r] :
            /\ page' = [page EXCEPT ![r] = @ \ {x}]
            /\ \/ /\ mark' = [mark EXCEPT ![r] = Advanced(r, x)]
                  /\ handled' = handled \cup {<<x.host, x.at>>}
                  /\ UNCHANGED <<pc, mode, row>>
               \/ CallApply(r, "poll", x) /\ UNCHANGED <<mark, handled>>
      BY <1>6, Zenon DEF handlePolled, Oldest, Handled
    <3>2. x \in Report /\ x.host \in Hosts /\ x.at \in Times
      BY <3>1, TimesFacts, Zenon DEF PollTypes
    <3>3. DeviceTypes'
      <4>1. /\ UNCHANGED <<digest, reported>>
            /\ (handled' = handled \/ handled' = handled \cup {<<x.host, x.at>>})
        BY <1>6, <3>1, Zenon DEF handlePolled
      <4> QED
        BY <3>2, <4>1 DEF DeviceTypes
    <3>4. ProcessTypes'
      BY <1>6, <3>1, <3>2, CallApplyTypes, Zenon DEF handlePolled, ProcessTypes, Modes
    <3>5. PollTypes'
      BY <1>6, <3>1, Zenon DEF handlePolled, PollTypes
    <3>6. OutcomeTypes'
      BY <1>6, <3>1, <3>2, Zenon DEF handlePolled, OutcomeTypes, Advanced
    <3> QED
      BY <3>3, <3>4, <3>5, <3>6, Zenon
  <2> QED
    BY <2>1, <2>2, Zenon
<1>7. CASE PageDone(r)
  <2>1. InventoryTypes' /\ SettingsTypes' /\ DeviceTypes' /\ MemoryTypes'
    BY <1>7, TimesFacts, Zenon DEF InventoryTypes, SettingsTypes, DeviceTypes, MemoryTypes,
       PageDone, GoTo, EndRun, inventory, settings, devices, scan, outcome, poll, memory
  <2>2. ProcessTypes'
    BY <1>7, TimesFacts, Zenon DEF ProcessTypes, PageDone, GoTo, EndRun, PCs, Modes, inventory,
       settings, devices, scan, outcome, poll, memory
  <2>3. PollTypes'
    BY <1>7, ForgetTypes, Zenon DEF PageDone, EndRun, scan, PollTypes
  <2>4. OutcomeTypes'
    BY <1>7, TimesFacts, Zenon DEF OutcomeTypes, PageDone, GoTo, EndRun, Results, inventory,
       settings, devices, scan, outcome, poll, memory
  <2> QED
    BY <2>1, <2>2, <2>3, <2>4, Zenon
<1> QED
  BY <1>1, <1>2, <1>3, <1>4, <1>5, <1>6, <1>7, Zenon DEF PollAct

-----------------------------------------------------------------------------
\* Types, for the steps that are not a poll's.

LEMMA ReconcilingTypes ==
    ASSUME NEW r \in Runners, NEW ok \in BOOLEAN, TypeOK, RowInv, DeviceInv, ReconcileAct(r, ok)
    PROVE  /\ InventoryTypes' /\ SettingsTypes' /\ DeviceTypes' /\ ProcessTypes'
           /\ PollTypes' /\ OutcomeTypes' /\ MemoryTypes'
<1> clock' = clock
  BY RunnerFrame, Zenon DEF RunnerAct, Frame, inventory
<1> Times' = Times /\ Report' = Report
  BY Zenon DEF Times, Report
<1> r \in Procs
  BY Zenon DEF Procs
<1> /\ InventoryTypes /\ SettingsTypes /\ DeviceTypes /\ ProcessTypes
    /\ PollTypes /\ OutcomeTypes /\ MemoryTypes
  BY TypeGroups, Zenon
<1>8. CASE reconcileDigests(r)
  <2>1. InventoryTypes' /\ SettingsTypes' /\ DeviceTypes' /\ OutcomeTypes' /\ MemoryTypes'
    BY <1>8, TimesFacts, Zenon DEF InventoryTypes, SettingsTypes, DeviceTypes, OutcomeTypes,
       MemoryTypes, reconcileDigests, GoTo, ReadDigests, Results, inventory, settings,
       devices, scan, outcome, poll, memory
  <2>2. ProcessTypes'
    BY <1>8, TimesFacts, Zenon DEF ProcessTypes, reconcileDigests, GoTo, ReadDigests, PCs, Modes,
       inventory, settings, devices, scan, outcome, poll, memory
  <2>3. PollTypes'
    BY <1>8, Zenon DEF reconcileDigests, ReadDigests, PollTypes, DeviceTypes
  <2> QED
    BY <2>1, <2>2, <2>3, Zenon
<1>9. CASE reconcileList(r)
  <2>1. InventoryTypes' /\ SettingsTypes' /\ DeviceTypes' /\ OutcomeTypes' /\ MemoryTypes'
    BY <1>9, TimesFacts, Zenon DEF InventoryTypes, SettingsTypes, DeviceTypes, OutcomeTypes,
       MemoryTypes, reconcileList, GoTo, Results, inventory, settings, devices, scan,
       outcome, poll, memory
  <2>2. ProcessTypes'
    BY <1>9, TimesFacts, Zenon DEF ProcessTypes, reconcileList, GoTo, PCs, Modes, inventory,
       settings, devices, scan, outcome, poll, memory
  <2>3. PollTypes'
    <3> DEFINE rows == {Latest(h) : h \in Listed(0)}
    <3>0. \A h \in Listed(0) : h \in Hosts /\ at[h] # 0
      BY TimesFacts DEF Listed
    <3>1. rows \subseteq Report /\ Listed(0) \subseteq Hosts
      BY <3>0, TimesFacts, Zenon
    <3>2. page' = [page EXCEPT ![r] = rows]
      BY <1>9, Zenon DEF reconcileList
    <3> QED
      BY <1>9, <3>1, <3>2 DEF reconcileList, PollTypes
  <2> QED
    BY <2>1, <2>2, <2>3, Zenon
<1>10. CASE reconcileRow(r)
  <2>1. InventoryTypes' /\ SettingsTypes' /\ OutcomeTypes' /\ MemoryTypes'
    BY <1>10, TimesFacts, Zenon DEF InventoryTypes, SettingsTypes, OutcomeTypes, MemoryTypes,
       reconcileRow, Results, inventory, settings, devices, scan, outcome, poll, memory
  <2>2. DeviceTypes' /\ ProcessTypes' /\ PollTypes'
    <3>1. PICK x \in page[r] :
            /\ page' = [page EXCEPT ![r] = @ \ {x}]
            /\ \/ CallApply(r, "retired", x) /\ UNCHANGED handled
               \/ UNCHANGED <<pc, mode, row, handled>>
               \/ at[x.host] # 0 /\ HandleFetched(r, "reconcile", x.host)
      BY <1>10, Zenon DEF reconcileRow, Oldest
    <3>2. x \in Report /\ x.host \in Hosts
      BY <3>1, TimesFacts, Zenon DEF PollTypes
    <3>3. DeviceTypes'
      <4>1. /\ UNCHANGED <<digest, reported>>
            /\ (handled' = handled \/ handled' = handled \cup {<<x.host, at[x.host]>>})
        BY <1>10, <3>1, <3>2, TimesFacts, Zenon DEF reconcileRow, HandleFetched, Handled
      <4> QED
        BY <3>2, <4>1, TimesFacts DEF DeviceTypes
    <3>4. ProcessTypes'
      BY <1>10, <3>1, <3>2, CallApplyTypes, TimesFacts, Zenon
         DEF reconcileRow, ProcessTypes, HandleFetched, Modes
    <3>5. PollTypes'
      BY <1>10, <3>1, Zenon DEF reconcileRow, PollTypes
    <3> QED
      BY <3>3, <3>4, <3>5, Zenon
  <2> QED
    BY <2>1, <2>2, Zenon
<1>11. CASE reconcileListed(r)
  <2>1. /\ InventoryTypes' /\ SettingsTypes' /\ DeviceTypes'
        /\ PollTypes' /\ OutcomeTypes' /\ MemoryTypes'
    BY <1>11, TimesFacts, Zenon DEF InventoryTypes, SettingsTypes, DeviceTypes, PollTypes,
       OutcomeTypes, MemoryTypes, reconcileListed, GoTo, Results, inventory, settings,
       devices, scan, outcome, poll, memory
  <2>2. ProcessTypes'
    BY <1>11, TimesFacts, Zenon DEF ProcessTypes, reconcileListed, GoTo, PCs, Modes, inventory,
       settings, devices, scan, outcome, poll, memory
  <2> QED
    BY <2>1, <2>2, Zenon
<1>12. CASE reconcileAbsent(r)
  <2>1. InventoryTypes' /\ SettingsTypes' /\ OutcomeTypes' /\ MemoryTypes'
    BY <1>12, TimesFacts, Zenon DEF InventoryTypes, SettingsTypes, OutcomeTypes, MemoryTypes,
       reconcileAbsent, Results, inventory, settings, devices, scan, outcome, poll, memory
  <2>2. DeviceTypes' /\ ProcessTypes' /\ PollTypes'
    <3>1. PICK h \in live[r] :
            /\ seen' = [seen EXCEPT ![r] = @ \cup {h}]
            /\ \/ /\ CallApply(r, "deleted", [host |-> h, at |-> known[r][h], status |-> "retired"])
                  /\ UNCHANGED handled
               \/ at[h] # 0 /\ HandleFetched(r, "absent", h)
      BY <1>12, Zenon DEF reconcileAbsent, Missing
    <3>2. h \in Hosts /\ known[r][h] \in Times /\ known[r][h] # 0
      BY <3>1, Zenon DEF PollTypes, DeviceInv
    <3>3. [host |-> h, at |-> known[r][h], status |-> "retired"] \in Report
      BY <3>2, Zenon DEF Report
    <3>4. DeviceTypes'
      <4>1. /\ UNCHANGED <<digest, reported>>
            /\ (handled' = handled \/ handled' = handled \cup {<<h, at[h]>>})
        BY <1>12, <3>1, <3>2, TimesFacts, Zenon DEF reconcileAbsent, HandleFetched, Handled
      <4> QED
        BY <3>2, <4>1, TimesFacts DEF DeviceTypes
    <3>5. ProcessTypes'
      BY <1>12, <3>1, <3>2, <3>3, CallApplyTypes, TimesFacts, Zenon
         DEF reconcileAbsent, ProcessTypes, HandleFetched, Modes
    <3>6. PollTypes'
      BY <1>12, <3>1, <3>2 DEF reconcileAbsent, PollTypes
    <3> QED
      BY <3>4, <3>5, <3>6, Zenon
  <2> QED
    BY <2>1, <2>2, Zenon
<1>13. CASE reconcileDone(r)
  <2>1. InventoryTypes' /\ SettingsTypes' /\ DeviceTypes' /\ MemoryTypes'
    BY <1>13, TimesFacts, Zenon DEF InventoryTypes, SettingsTypes, DeviceTypes, MemoryTypes,
       reconcileDone, GoTo, EndRun, inventory, settings, devices, scan, outcome, poll,
       memory
  <2>2. ProcessTypes'
    BY <1>13, TimesFacts, Zenon DEF ProcessTypes, reconcileDone, GoTo, EndRun, PCs, Modes,
       inventory, settings, devices, scan, outcome, poll, memory
  <2>3. PollTypes'
    BY <1>13, ForgetTypes, Zenon DEF reconcileDone, EndRun
  <2>4. OutcomeTypes'
    BY <1>13, TimesFacts, Zenon DEF OutcomeTypes, reconcileDone, GoTo, EndRun, Results, inventory,
       settings, devices, scan, outcome, poll, memory
  <2> QED
    BY <2>1, <2>2, <2>3, <2>4, Zenon
<1>14. CASE Save(r, ok)
  <2>1. InventoryTypes' /\ DeviceTypes'
    BY <1>14, TimesFacts, Zenon DEF InventoryTypes, DeviceTypes, Save, GoTo, EndCycle, inventory,
       settings, devices, scan, outcome, poll, memory
  <2>2. SettingsTypes'
    <3>1. requested' \in BOOLEAN
      BY <1>14, Zenon DEF Save, SaveState, SettingsTypes, settings
    <3>2. fresh' \in BOOLEAN
      BY <1>14, ZenonT(30) DEF Save, SaveState, SettingsTypes, settings
    <3> QED
      BY <1>14, <3>1, <3>2, Zenon DEF Save, SaveState, SettingsTypes, OutcomeTypes, settings
  <2>3. ProcessTypes'
    BY <1>14, TimesFacts, Zenon DEF ProcessTypes, Save, GoTo, EndCycle, PCs, Modes, inventory,
       settings, devices, scan, outcome, poll, memory
  <2>4. PollTypes'
    BY <1>14, TimesFacts, Zenon DEF PollTypes, Save, GoTo, EndCycle, inventory, settings, devices,
       scan, outcome, poll, memory
  <2>5. OutcomeTypes'
    BY <1>14, TimesFacts, Zenon DEF OutcomeTypes, Save, GoTo, EndCycle, Results, inventory,
       settings, devices, scan, outcome, poll, memory
  <2>6. MemoryTypes'
    BY <1>14, TimesFacts DEF MemoryTypes, Save, GoTo, EndCycle, inventory, settings,
       devices, scan, outcome, poll, memory
  <2> QED
    BY <2>1, <2>2, <2>3, <2>4, <2>5, <2>6, Zenon
<1>15. CASE RunnerFails(r)
  <2>1. InventoryTypes' /\ SettingsTypes' /\ DeviceTypes'
    BY <1>15, TimesFacts, Zenon DEF InventoryTypes, SettingsTypes, DeviceTypes, RunnerFails,
       CallFails, GoTo, EndRun, EndCycle, inventory, settings, devices, scan, outcome, poll,
       memory
  <2>2. ProcessTypes'
    BY <1>15, TimesFacts, Zenon DEF ProcessTypes, RunnerFails, CallFails, GoTo, EndRun, EndCycle,
       PCs, Modes, inventory, settings, devices, scan, outcome, poll, memory
  <2>3. PollTypes'
    BY <1>15, ForgetTypes, Zenon DEF RunnerFails, CallFails, EndRun, poll, scan, PollTypes
  <2>4. OutcomeTypes'
    BY <1>15, TimesFacts, Zenon DEF OutcomeTypes, RunnerFails, CallFails, GoTo, EndRun, EndCycle,
       Results, inventory, settings, devices, scan, outcome, poll, memory
  <2>5. MemoryTypes'
    <3>1. /\ retry' = retry
          /\ backoff' = backoff \/ backoff' = backoff \cup {r}
          /\ global' = global \/ global' = [global EXCEPT ![r] = newest[r]]
          /\ newest' = newest \/ newest' = [newest EXCEPT ![r] = 0]
      BY <1>15, Zenon DEF RunnerFails, CallFails, EndCycle, memory
    <3> QED
      BY <3>1, TimesFacts DEF MemoryTypes
  <2> QED
    BY <2>1, <2>2, <2>3, <2>4, <2>5, Zenon
<1>16. CASE Restart(r)
  <2>1. InventoryTypes' /\ SettingsTypes' /\ DeviceTypes'
    BY <1>16, TimesFacts, Zenon DEF InventoryTypes, SettingsTypes, DeviceTypes, Restart, GoTo,
       Return, inventory, settings, devices, scan, outcome, poll, memory
  <2>2. ProcessTypes'
    BY <1>16, TimesFacts, Zenon DEF ProcessTypes, Restart, GoTo, Return, PCs, Modes, inventory,
       settings, devices, scan, outcome, poll, memory
  <2>3. PollTypes'
    BY <1>16, ForgetTypes, Zenon DEF Restart
  <2>4. OutcomeTypes'
    BY <1>16, TimesFacts, Zenon DEF OutcomeTypes, Restart, GoTo, Return, Results, inventory,
       settings, devices, scan, outcome, poll, memory
  <2>5. MemoryTypes'
    BY <1>16, TimesFacts, Zenon DEF MemoryTypes, Restart, GoTo, Return, inventory, settings,
       devices, scan, outcome, poll, memory
  <2> QED
    BY <2>1, <2>2, <2>3, <2>4, <2>5, Zenon
<1> QED
  BY <1>8, <1>9, <1>10, <1>11, <1>12, <1>13, <1>14, <1>15, <1>16, Zenon DEF ReconcileAct

LEMMA RunnerTypes ==
    ASSUME NEW r \in Runners, NEW ok \in BOOLEAN, TypeOK, RowInv, DeviceInv, RunnerAct(r, ok)
    PROVE  /\ InventoryTypes' /\ SettingsTypes' /\ DeviceTypes' /\ ProcessTypes'
           /\ PollTypes' /\ OutcomeTypes' /\ MemoryTypes'
BY PollingTypes, ReconcilingTypes, Zenon DEF RunnerAct

LEMMA ApplyTypes ==
    ASSUME NEW p \in Procs, TypeOK, RowInv, ApplyAct(p)
    PROVE  /\ InventoryTypes' /\ SettingsTypes' /\ DeviceTypes' /\ ProcessTypes'
           /\ PollTypes' /\ OutcomeTypes' /\ MemoryTypes'
<1> clock' = clock
  BY Zenon DEF ApplyAct, ApplyBegin, ApplyCommit, ApplyFails, inventory
<1> Times' = Times /\ Report' = Report
  BY Zenon DEF Times, Report
<1> /\ InventoryTypes /\ SettingsTypes /\ DeviceTypes /\ ProcessTypes
    /\ PollTypes /\ OutcomeTypes /\ MemoryTypes
  BY TypeGroups, Zenon
<1> Resume(p) \in PCs
  BY Zenon DEF Resume, PCs
<1>1. CASE ApplyBegin(p)
  <2>1. InventoryTypes' /\ SettingsTypes' /\ DeviceTypes' /\ MemoryTypes'
    BY <1>1, Zenon DEF ApplyBegin, inventory, settings, devices, memory, InventoryTypes,
                SettingsTypes, DeviceTypes, MemoryTypes
  <2>2. ProcessTypes'
    BY <1>1, Zenon DEF ApplyBegin, ProcessTypes, Return, EndRun, GoTo, PCs, Modes
  <2>3. PollTypes'
    BY <1>1, ForgetTypes, Zenon DEF ApplyBegin, EndRun, scan, PollTypes
  <2>4. OutcomeTypes'
    BY <1>1, Zenon DEF ApplyBegin, EndRun, OutcomeTypes, Results
  <2> QED
    BY <2>1, <2>2, <2>3, <2>4, Zenon
<1>2. CASE ApplyCommit(p)
  <2>1. row[p].host \in Hosts /\ row[p].at \in Times
    BY <1>2, TimesFacts, Zenon DEF ApplyCommit, InTx, RowInv, ApplyPCs
  <2>2. InventoryTypes' /\ SettingsTypes' /\ PollTypes' /\ MemoryTypes'
    BY <1>2, Zenon DEF ApplyCommit, inventory, settings, scan, memory, InventoryTypes,
                SettingsTypes, PollTypes, MemoryTypes
  <2>3. digest' \in [Hosts -> Times] /\ reported' \subseteq Hosts
    BY <1>2, <2>1, Zenon DEF ApplyCommit, DeviceTypes
  <2>4. handled' \subseteq Hosts \X Times
    <3>1. handled' = handled \cup {<<row[p].host, row[p].at>>}
      BY <1>2, Zenon DEF ApplyCommit, Handled
    <3> QED
      BY <2>1, <3>1 DEF DeviceTypes
  <2>5. ProcessTypes'
    BY <1>2, Zenon DEF ApplyCommit, ProcessTypes, Return, GoTo, Modes
  <2>6. OutcomeTypes'
    BY <1>2, <2>1, Zenon DEF ApplyCommit, OutcomeTypes, Advanced
  <2> QED
    BY <2>2, <2>3, <2>4, <2>5, <2>6, Zenon DEF DeviceTypes
<1>3. CASE ApplyFails(p)
  <2>1. InventoryTypes' /\ SettingsTypes' /\ DeviceTypes' /\ MemoryTypes'
    BY <1>3, Zenon DEF ApplyFails, inventory, settings, devices, memory, InventoryTypes,
                SettingsTypes, DeviceTypes, MemoryTypes
  <2>2. ProcessTypes'
    BY <1>3 DEF ApplyFails, ProcessTypes, Return, EndRun, GoTo, PCs, Modes
  <2>3. p \in Runners \/ mode[p] = "resync"
    BY <1>3, Zenon DEF ApplyFails, InTx, RowInv, ApplyPCs, Procs
  <2>4. PollTypes'
    BY <1>3, <2>3, ForgetTypes, Zenon DEF ApplyFails, EndRun, scan, PollTypes
  <2>5. OutcomeTypes'
    BY <1>3, Zenon DEF ApplyFails, EndRun, OutcomeTypes, Results
  <2> QED
    BY <2>1, <2>2, <2>4, <2>5, Zenon
<1> QED
  BY <1>1, <1>2, <1>3, Zenon DEF ApplyAct

\* A re-sync holds a report of its device's host.
LEMMA ResyncRow ==
    ASSUME NEW a \in Admins, TypeOK, RowInv,
           freshReport(a) \/ \E h \in Hosts : ResyncDevice(a, h)
    PROVE  row'[a] \in Report
<1> a \in Procs /\ row \in [Procs -> Report \cup {<<>>}]
  BY SMTT(30) DEF Procs, TypeOK
<1>1. CASE \E h \in Hosts : ResyncDevice(a, h)
  BY <1>1, TimesFacts, Zenon DEF ResyncDevice
<1>2. CASE freshReport(a)
  <2>1. row[a] \in Report /\ row[a].host \in Hosts /\ row[a].at \in Nat
    BY <1>2, TimesFacts, Zenon DEF freshReport, RowInv
  <2>2. PICK x \in {row[a]} \cup {Latest(i) : i \in {row[a].host} \cap Listed(row[a].at)} :
           CallApply(a, "resync", x)
    BY <1>2, Zenon DEF freshReport
  <2>3. ASSUME x # row[a]
        PROVE  x \in Report
    <3>1. PICK i \in {row[a].host} \cap Listed(row[a].at) : x = Latest(i)
      BY <2>2, <2>3, Zenon
    <3>2. i \in Hosts /\ at[i] > row[a].at /\ at[i] \in Nat
      BY <2>1, <3>1, TimesFacts, Zenon DEF Listed
    <3> QED
      BY <2>1, <3>1, <3>2, TimesFacts
  <2> QED
    BY <2>1, <2>2, <2>3, Zenon DEF CallApply
<1> QED
  BY <1>1, <1>2, Zenon

LEMMA TypeStep ==
    ASSUME IndInv, [Next]_vars
    PROVE  TypeOK'
<1> USE DEF IndInv
<1> /\ InventoryTypes /\ SettingsTypes /\ DeviceTypes /\ ProcessTypes
    /\ PollTypes /\ OutcomeTypes /\ MemoryTypes /\ events \in 0 .. MaxEvents
  BY TypeGroups, Zenon
<1> DEFINE Others == /\ SettingsTypes' /\ DeviceTypes' /\ PollTypes' /\ OutcomeTypes'
                     /\ MemoryTypes'
           Goal   == InventoryTypes' /\ ProcessTypes' /\ Others
<1>1. CASE UNCHANGED vars
  BY <1>1, Zenon DEF vars, inventory, settings, devices, scan, outcome, poll, memory, TypeOK,
              Times, Report
<1>2. CASE Next
  <2>1. events' \in 0 .. MaxEvents
    BY <1>2, HostSyncConstantsOK DEF Next
  <2>2. ASSUME NEW h \in Hosts, ReportChanges(h)
        PROVE  Goal
    <3>1. clock \in Nat /\ clock' = clock + 1
      BY <2>2, Zenon DEF ReportChanges, InventoryTypes
    <3>2. Times \subseteq Times' /\ clock' \in Times' /\ Report \subseteq Report'
      BY <3>1 DEF Times, Report
    <3>3. InventoryTypes'
      <4>1. at' = [at EXCEPT ![h] = clock'] /\ retired' = retired
        BY <2>2, <3>1, Zenon DEF ReportChanges
      <4>2. at' \in [Hosts -> Times']
        BY <3>2, <4>1, Zenon DEF InventoryTypes
      <4> QED
        BY <3>1, <4>1, <4>2 DEF InventoryTypes
    <3>4. ProcessTypes'
      BY <2>2, <3>2, Zenon DEF ReportChanges, ProcessTypes
    <3>5. SettingsTypes' /\ DeviceTypes' /\ OutcomeTypes' /\ MemoryTypes'
      BY <2>2, <3>2, Zenon DEF ReportChanges, SettingsTypes, DeviceTypes, OutcomeTypes, MemoryTypes,
                        settings, devices, poll, outcome, memory
    <3>6. PollTypes'
      BY <2>2, <3>2, Zenon DEF ReportChanges, PollTypes, poll, scan
    <3> QED
      BY <3>3, <3>4, <3>5, <3>6, Zenon
  <2>3. ASSUME clock' = clock,
               \/ \E h \in Hosts : HostRetired(h) \/ HostDeleted(h)
               \/ \E on \in BOOLEAN : UpdateSettings(on)
               \/ ResyncAll \/ IntervalPasses
        PROVE  Goal
    <3> Times' = Times /\ Report' = Report
      BY <2>3, Zenon DEF Times, Report
    <3>1. InventoryTypes'
      BY <2>3, TimesFacts DEF HostRetired, HostDeleted, UpdateSettings, ResyncAll,
                              IntervalPasses, InventoryTypes, inventory
    <3>2. SettingsTypes'
      BY <2>3, Zenon DEF HostRetired, HostDeleted, UpdateSettings, ResyncAll, IntervalPasses,
                  AskReconcile, SettingsTypes, settings
    <3>3. DeviceTypes' /\ ProcessTypes' /\ PollTypes' /\ OutcomeTypes' /\ MemoryTypes'
      BY <2>3, Zenon DEF HostRetired, HostDeleted, UpdateSettings, ResyncAll, IntervalPasses,
                  DeviceTypes, ProcessTypes, PollTypes, OutcomeTypes, MemoryTypes, devices,
                  poll, scan, outcome, memory
    <3> QED
      BY <3>1, <3>2, <3>3, Zenon
  <2>4. ASSUME NEW a \in Admins,
               freshReport(a) \/ \E h \in Hosts : ResyncDevice(a, h)
        PROVE  Goal
    <3>1. UNCHANGED <<inventory, settings, devices, lock, poll, memory>>
      BY <2>4, Zenon DEF freshReport, ResyncDevice
    <3> Times' = Times /\ Report' = Report
      BY <3>1, Zenon DEF Times, Report, inventory
    <3>2. InventoryTypes' /\ Others
      BY <3>1, Zenon DEF inventory, settings, devices, poll, scan, outcome, memory, InventoryTypes,
                  SettingsTypes, DeviceTypes, PollTypes, OutcomeTypes, MemoryTypes
    <3>3. a \in Procs
      BY Zenon DEF Procs
    <3>4. row'[a] \in Report
      BY <2>4, ResyncRow, Zenon
    <3>5. ProcessTypes'
      BY <2>4, <3>1, <3>3, <3>4, Zenon DEF freshReport, ResyncDevice, CallApply, ProcessTypes, GoTo,
         PCs, Modes
    <3> QED
      BY <3>2, <3>5, Zenon
  <2>5. ASSUME NEW r \in Runners, NEW ok \in BOOLEAN, RunnerAct(r, ok)
        PROVE  Goal
    BY <2>5, RunnerTypes, Zenon
  <2>6. ASSUME NEW p \in Procs, ApplyAct(p)
        PROVE  Goal
    BY <2>6, ApplyTypes, Zenon
  <2>7. Goal
    <3>1. ASSUME \/ \E h \in Hosts : HostRetired(h) \/ HostDeleted(h)
                 \/ \E on \in BOOLEAN : UpdateSettings(on)
                 \/ ResyncAll \/ IntervalPasses
          PROVE  clock' = clock
      BY <3>1, Zenon DEF HostRetired, HostDeleted, UpdateSettings, ResyncAll, IntervalPasses, inventory
    <3> QED
      BY <1>2, <2>2, <2>3, <2>4, <2>5, <2>6, <3>1, NextSplit, Zenon
  <2> QED
    BY <2>1, <2>7, Zenon DEF TypeOK, InventoryTypes, SettingsTypes, DeviceTypes, ProcessTypes,
                      PollTypes, OutcomeTypes, MemoryTypes
<1> QED
  BY <1>1, <1>2, Zenon

-----------------------------------------------------------------------------
\* The other parts of the invariant.

LEMMA ApplyFrame ==
    ASSUME NEW p \in Procs, TypeOK, RowInv, ApplyAct(p)
    PROVE  /\ UNCHANGED inventory /\ UNCHANGED <<enabled, since>>
           /\ handled \subseteq handled'
           /\ \A q \in Procs \ {p} : pc'[q] = pc[q] /\ mode'[q] = mode[q] /\ row'[q] = row[q]
           /\ \A q \in Runners \ {p} :
                /\ page'[q] = page[q] /\ cursor'[q] = cursor[q] /\ mark'[q] = mark[q]
                /\ known'[q] = known[q] /\ live'[q] = live[q]
                /\ q \in failed' <=> q \in failed
<1> /\ pc \in [Procs -> PCs] /\ mode \in [Procs -> Modes] /\ row \in [Procs -> Report \cup {<<>>}]
    /\ page \in [Runners -> SUBSET Report] /\ cursor \in [Runners -> Times]
    /\ mark \in [Runners -> Times] /\ known \in [Runners -> [Hosts -> Times]]
    /\ live \in [Runners -> SUBSET Hosts]
  BY Zenon DEF TypeOK
<1>1. CASE ApplyBegin(p)
  BY <1>1, Zenon DEF ApplyBegin, Return, EndRun, Forget, GoTo, inventory, settings, devices, scan
<1>2. CASE ApplyCommit(p)
  BY <1>2, Zenon DEF ApplyCommit, Return, GoTo, Handled, inventory, settings, scan
<1>3. CASE ApplyFails(p)
  BY <1>3, Zenon DEF ApplyFails, Return, EndRun, Forget, GoTo, inventory, settings, devices, scan
<1> QED
  BY <1>1, <1>2, <1>3, Zenon DEF ApplyAct

LEMMA LockStep ==
    ASSUME IndInv, [Next]_vars
    PROVE  LockInv'
<1> USE DEF IndInv
<1> /\ pc \in [Procs -> PCs] /\ lock \in Procs \cup {NoProc} /\ NoProc \notin Procs
  BY HostSyncConstantsOK, Zenon DEF TypeOK, Procs
<1>1. CASE UNCHANGED <<pc, lock, enabled>>
  BY <1>1, Zenon DEF LockInv, InTx
<1>2. ASSUME NEW on \in BOOLEAN, UpdateSettings(on)
      PROVE  LockInv'
  BY <1>2, Zenon DEF UpdateSettings, SettingsUpdatable, LockInv, InTx
<1>3. ASSUME NEW r \in Runners, NEW ok \in BOOLEAN, RunnerAct(r, ok)
      PROVE  LockInv'
  <2>1. Frame(r) /\ Proceeds(r)
    BY <1>3, RunnerFrame, RunnerProceeds, Zenon
  <2>2. r \in Procs
    BY Zenon DEF Procs
  <2> QED
    BY <2>1, <2>2 DEF LockInv, InTx, Frame, Proceeds
<1>4. ASSUME NEW p \in Procs, ApplyAct(p)
      PROVE  LockInv'
  <2>1. CASE ApplyBegin(p)
    BY <2>1, Zenon DEF ApplyBegin, Return, EndRun, GoTo, settings, LockInv, InTx
  <2>2. CASE ApplyCommit(p)
    <3>1. pc' = [pc EXCEPT ![p] = Resume(p)] /\ Resume(p) \notin {"applytx", "marktx"}
      BY <2>2, Zenon DEF ApplyCommit, GoTo, Resume
    <3> QED
      BY <2>2, <3>1, Zenon DEF ApplyCommit, LockInv, InTx
  <2>3. CASE ApplyFails(p)
    <3>1. PICK l \in PCs \ {"applytx", "marktx"} : pc' = [pc EXCEPT ![p] = l]
      BY <2>3, Zenon DEF ApplyFails, EndRun, GoTo, Resume, PCs
    <3> QED
      BY <2>3, <3>1, Zenon DEF ApplyFails, LockInv, InTx
  <2> QED
    BY <1>4, <2>1, <2>2, <2>3, Zenon DEF ApplyAct
<1>5. ASSUME NEW a \in Admins, freshReport(a) \/ \E h \in Hosts : ResyncDevice(a, h)
      PROVE  LockInv'
  <2>1. /\ UNCHANGED <<lock, enabled>>
        /\ \E l \in {"fresh", "mark", "apply"} : pc' = [pc EXCEPT ![a] = l]
    BY <1>5, Zenon DEF freshReport, ResyncDevice, CallApply, GoTo, settings
  <2> QED
    BY <2>1, Zenon DEF LockInv, InTx
<1>6. ASSUME NEW h \in Hosts, ReportChanges(h) \/ HostRetired(h) \/ HostDeleted(h)
      PROVE  LockInv'
  BY <1>1, <1>6, Zenon DEF ReportChanges, HostRetired, HostDeleted, settings
<1>7. CASE ResyncAll \/ IntervalPasses
  BY <1>1, <1>7, Zenon DEF ResyncAll, IntervalPasses
<1>8. CASE UNCHANGED vars
  BY <1>1, <1>8, Zenon DEF vars, settings
<1> QED
  BY <1>2, <1>3, <1>4, <1>5, <1>6, <1>7, <1>8, NextSplit, Zenon

LEMMA RowStep ==
    ASSUME IndInv, [Next]_vars
    PROVE  RowInv'
<1> USE DEF IndInv
<1> /\ pc \in [Procs -> PCs] /\ mode \in [Procs -> Modes] /\ row \in [Procs -> Report \cup {<<>>}]
  BY Zenon DEF TypeOK
<1> Runners \subseteq Procs /\ Admins \subseteq Procs /\ Runners \cap Admins = {}
  BY HostSyncConstantsOK, Zenon DEF Procs
<1>0. Report \subseteq Report'
  <2>1. clock \in Nat /\ (clock' = clock \/ clock' = clock + 1)
    <3>1. ASSUME NEW r \in Runners, NEW ok \in BOOLEAN, RunnerAct(r, ok)
          PROVE  clock' = clock
      BY <3>1, RunnerFrame, Zenon DEF Frame, inventory
    <3>2. ASSUME NEW p \in Procs, ApplyAct(p)
          PROVE  clock' = clock
      BY <3>2, ApplyFrame, Zenon DEF inventory
    <3>3. ASSUME ~ \E h \in Hosts : ReportChanges(h),
                 ~ \E r \in Runners, ok \in BOOLEAN : RunnerAct(r, ok),
                 ~ \E p \in Procs : ApplyAct(p)
          PROVE  clock' = clock
      BY <3>3, NextSplit, Zenon DEF HostRetired, HostDeleted, UpdateSettings, ResyncAll,
         IntervalPasses, freshReport, ResyncDevice, vars, inventory
    <3> QED
      BY <3>1, <3>2, <3>3, Zenon DEF ReportChanges, TypeOK
  <2> QED
    BY <2>1 DEF Report, Times
<1>1. CASE UNCHANGED <<pc, mode, row>>
  BY <1>0, <1>1, Zenon DEF RowInv
<1>2. ASSUME NEW r \in Runners, NEW ok \in BOOLEAN, RunnerAct(r, ok)
      PROVE  RowInv'
  <2>1. Frame(r) /\ Proceeds(r)
    BY <1>2, RunnerFrame, RunnerProceeds, Zenon
  <2> QED
    BY <1>0, <2>1 DEF RowInv, Frame, Proceeds
<1>3. ASSUME NEW p \in Procs, ApplyAct(p)
      PROVE  RowInv'
  <2>1. /\ \A q \in Procs \ {p} : pc'[q] = pc[q] /\ mode'[q] = mode[q] /\ row'[q] = row[q]
    BY <1>3, ApplyFrame, Zenon
  <2>2. \/ /\ pc[p] \in ApplyPCs /\ pc'[p] \in ApplyPCs
           /\ mode'[p] = mode[p] /\ row'[p] = row[p]
        \/ /\ pc'[p] \notin ApplyPCs \cup {"fresh"} /\ mode'[p] = "none"
           /\ p \in Admins => pc'[p] = "idle"
    <3>1. pc[p] \in ApplyPCs /\ (p \in Admins => mode[p] = "resync")
      BY <1>3, Zenon DEF ApplyAct, ApplyBegin, ApplyCommit, ApplyFails, InTx, ApplyPCs, RowInv
    <3>2. CASE ApplyBegin(p)
      BY <3>1, <3>2 DEF ApplyBegin, Return, EndRun, GoTo, ApplyPCs
    <3>3. CASE ApplyCommit(p)
      BY <3>1, <3>3, Zenon DEF ApplyCommit, Return, GoTo, Resume, ApplyPCs
    <3>4. CASE ApplyFails(p)
      BY <3>1, <3>4, Zenon DEF ApplyFails, Return, EndRun, GoTo, Resume, ApplyPCs
    <3> QED
      BY <1>3, <3>2, <3>3, <3>4, Zenon DEF ApplyAct
  <2>3. \A q \in Procs : pc'[q] \in ApplyPCs \cup {"fresh"} => row'[q] \in Report'
    BY <1>0, <2>1, <2>2, Zenon DEF RowInv
  <2>4. \A r \in Runners : /\ pc'[r] # "fresh" /\ mode'[r] # "resync"
                           /\ pc'[r] \in ApplyPCs => mode'[r] # "none"
    BY <2>1, <2>2 DEF RowInv, ApplyPCs
  <2>5. \A a \in Admins : /\ pc'[a] \in ApplyPCs \cup {"idle", "fresh"}
                          /\ pc'[a] \in ApplyPCs => mode'[a] = "resync"
    BY <2>1, <2>2, Zenon DEF RowInv
  <2> QED
    BY <2>3, <2>4, <2>5, Zenon DEF RowInv
<1>4. ASSUME NEW a \in Admins, freshReport(a) \/ \E h \in Hosts : ResyncDevice(a, h)
      PROVE  RowInv'
  <2>1. \A q \in Procs \ {a} : pc'[q] = pc[q] /\ mode'[q] = mode[q] /\ row'[q] = row[q]
    BY <1>4, Zenon DEF freshReport, ResyncDevice, CallApply, GoTo
  <2>2. row'[a] \in Report
    BY <1>4, ResyncRow, Zenon
  <2>3. pc'[a] \in {"fresh", "mark", "apply"} /\ (pc'[a] = "fresh" \/ mode'[a] = "resync")
    BY <1>4, Zenon DEF freshReport, ResyncDevice, CallApply, GoTo
  <2> QED
    BY <1>0, <2>1, <2>2, <2>3, Zenon DEF RowInv, ApplyPCs
<1>5. ASSUME NEW h \in Hosts, ReportChanges(h) \/ HostRetired(h) \/ HostDeleted(h)
      PROVE  RowInv'
  BY <1>1, <1>5, Zenon DEF ReportChanges, HostRetired, HostDeleted
<1>6. CASE ResyncAll \/ IntervalPasses \/ \E on \in BOOLEAN : UpdateSettings(on)
  BY <1>1, <1>6, Zenon DEF ResyncAll, IntervalPasses, UpdateSettings
<1>7. CASE UNCHANGED vars
  BY <1>1, <1>7, Zenon DEF vars
<1> QED
  BY <1>2, <1>3, <1>4, <1>5, <1>6, <1>7, NextSplit, Zenon

LEMMA DeviceStep ==
    ASSUME IndInv, [Next]_vars
    PROVE  DeviceInv'
<1> USE DEF IndInv
<1> /\ digest \in [Hosts -> Times] /\ reported \subseteq Hosts
    /\ known \in [Runners -> [Hosts -> Times]] /\ live \in [Runners -> SUBSET Hosts]
  BY Zenon DEF TypeOK
<1>1. CASE UNCHANGED <<digest, reported, known, live>>
  BY <1>1, Zenon DEF DeviceInv
<1>2. ASSUME NEW r \in Runners, NEW ok \in BOOLEAN, RunnerAct(r, ok)
      PROVE  DeviceInv'
  <2>1. Frame(r)
    BY <1>2, RunnerFrame, Zenon
  <2>2. \/ known'[r] = known[r] /\ live'[r] = live[r]
        \/ known'[r] = digest /\ live'[r] = reported
        \/ live'[r] = {}
    <3>1. CASE deviceDigests(r) \/ reconcileDigests(r)
      BY <3>1, Zenon DEF deviceDigests, reconcileDigests, ReadDigests
    <3>2. CASE PageDone(r) \/ reconcileDone(r)
      BY <3>2, Zenon DEF PageDone, reconcileDone, EndRun, Forget, poll, scan
    <3>5. CASE RunnerFails(r)
      BY <3>5, Zenon DEF RunnerFails, CallFails, EndRun, Forget, poll, scan
    <3>6. CASE Restart(r)
      BY <3>6, Zenon DEF Restart, Forget
    <3>3. CASE \/ Cycle(r) \/ BackoffEnds(r) \/ RunTenant(r) \/ ListHostReports(r)
               \/ reconcileList(r) \/ reconcileListed(r) \/ Save(r, ok)
      BY <3>3, Zenon DEF Cycle, BackoffEnds, RunTenant, ListHostReports, reconcileList,
                  reconcileListed, Save, poll, scan
    <3>4. CASE handlePolled(r) \/ reconcileRow(r) \/ reconcileAbsent(r)
      BY <3>4, Zenon DEF handlePolled, reconcileRow, reconcileAbsent
    <3> QED
      BY <1>2, <3>1, <3>2, <3>3, <3>4, <3>5, <3>6, Zenon DEF RunnerAct, PollAct, ReconcileAct
  <2>3. \A h \in reported' : digest'[h] # 0
    BY <2>1, Zenon DEF DeviceInv, Frame
  <2>4. \A h \in live'[r] : known'[r][h] # 0
    BY <2>2, Zenon DEF DeviceInv
  <2>5. \A q \in Runners \ {r} : known'[q] = known[q] /\ live'[q] = live[q]
    BY <2>1, Zenon DEF Frame
  <2> QED
    BY <2>3, <2>4, <2>5 DEF DeviceInv
<1>3. ASSUME NEW p \in Procs, ApplyAct(p)
      PROVE  DeviceInv'
  <2>1. CASE ApplyBegin(p) \/ ApplyFails(p)
    <3>1. UNCHANGED <<digest, reported>>
      BY <2>1, Zenon DEF ApplyBegin, ApplyFails, devices
    <3>2. \A q \in Runners : \/ known'[q] = known[q] /\ live'[q] = live[q]
                             \/ live'[q] = {}
      BY <2>1, Zenon DEF ApplyBegin, ApplyFails, EndRun, Forget, scan
    <3> QED
      BY <3>1, <3>2, Zenon DEF DeviceInv
  <2>2. CASE ApplyCommit(p)
    <3>1. row[p].host \in Hosts /\ row[p].at # 0
      BY <2>2, TimesFacts, Zenon DEF ApplyCommit, InTx, RowInv, ApplyPCs
    <3>2. \/ /\ digest' = [digest EXCEPT ![row[p].host] = row[p].at]
             /\ reported' = reported \cup {row[p].host}
          \/ digest' = digest /\ reported' \subseteq reported
      BY <2>2, Zenon DEF ApplyCommit
    <3>3. UNCHANGED <<known, live>>
      BY <2>2, Zenon DEF ApplyCommit, scan
    <3> QED
      BY <3>1, <3>2, <3>3 DEF DeviceInv
  <2> QED
    BY <1>3, <2>1, <2>2, Zenon DEF ApplyAct
<1>4. ASSUME NEW a \in Admins, freshReport(a) \/ \E h \in Hosts : ResyncDevice(a, h)
      PROVE  DeviceInv'
  BY <1>1, <1>4, Zenon DEF freshReport, ResyncDevice, devices, poll, scan
<1>5. ASSUME NEW h \in Hosts, ReportChanges(h) \/ HostRetired(h) \/ HostDeleted(h)
      PROVE  DeviceInv'
  BY <1>1, <1>5, Zenon DEF ReportChanges, HostRetired, HostDeleted, devices, poll, scan
<1>6. CASE ResyncAll \/ IntervalPasses \/ \E on \in BOOLEAN : UpdateSettings(on)
  BY <1>1, <1>6, Zenon DEF ResyncAll, IntervalPasses, UpdateSettings, devices, poll, scan
<1>7. CASE UNCHANGED vars
  BY <1>1, <1>7, Zenon DEF vars, devices, poll, scan
<1> QED
  BY <1>2, <1>3, <1>4, <1>5, <1>6, <1>7, NextSplit, Zenon

\* Only the inventory changes at: a report changes at a new time, or goes.
LEMMA ChangeStep ==
    ASSUME IndInv, [Next]_vars
    PROVE  /\ ChangeInv'
           /\ \A h \in Hosts : at'[h] = at[h] \/ at'[h] = 0 \/ at'[h] = clock + 1
<1> USE DEF IndInv
<1> clock \in Nat /\ at \in [Hosts -> 0 .. clock]
  BY Zenon DEF TypeOK, Times
<1>1. CASE UNCHANGED at
  BY <1>1, Zenon DEF ChangeInv
<1>2. ASSUME NEW h \in Hosts, ReportChanges(h)
      PROVE  /\ ChangeInv'
             /\ \A g \in Hosts : at'[g] = at[g] \/ at'[g] = 0 \/ at'[g] = clock + 1
  <2>1. at' = [at EXCEPT ![h] = clock + 1]
    BY <1>2, Zenon DEF ReportChanges
  <2>2. \A g \in Hosts : at[g] # clock + 1
    OBVIOUS
  <2> QED
    BY <2>1, <2>2, Zenon DEF ChangeInv
<1>3. ASSUME NEW h \in Hosts, HostDeleted(h)
      PROVE  /\ ChangeInv'
             /\ \A g \in Hosts : at'[g] = at[g] \/ at'[g] = 0 \/ at'[g] = clock + 1
  BY <1>3, Zenon DEF HostDeleted, ChangeInv
<1>4. ASSUME NEW r \in Runners, NEW ok \in BOOLEAN, RunnerAct(r, ok)
      PROVE  UNCHANGED at
  BY <1>4, RunnerFrame, Zenon DEF Frame, inventory
<1>5. ASSUME NEW p \in Procs, ApplyAct(p)
      PROVE  UNCHANGED at
  BY <1>5, ApplyFrame, Zenon DEF inventory
<1>6. ASSUME NEW a \in Admins, freshReport(a) \/ \E h \in Hosts : ResyncDevice(a, h)
      PROVE  UNCHANGED at
  BY <1>6, Zenon DEF freshReport, ResyncDevice, inventory
<1>7. ASSUME NEW h \in Hosts, HostRetired(h)
      PROVE  UNCHANGED at
  BY <1>7, Zenon DEF HostRetired
<1>8. ASSUME \/ ResyncAll \/ IntervalPasses \/ UNCHANGED vars
             \/ \E on \in BOOLEAN : UpdateSettings(on)
      PROVE  UNCHANGED at
  BY <1>8, Zenon DEF ResyncAll, IntervalPasses, UpdateSettings, inventory, vars
<1> QED
  BY <1>1, <1>2, <1>3, <1>4, <1>5, <1>6, <1>7, <1>8, NextSplit, Zenon
=============================================================================
