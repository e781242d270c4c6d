--------------------------- MODULE HostSyncProofs ---------------------------
(***************************************************************************)
(* The steps of HostSync preserve its transaction lock, the rows handed to *)
(* Apply and the known devices, keep every watermark covered and keep a    *)
(* replica's poll in order; and the theorems: any number of hosts,         *)
(* replicas, re-syncs, report changes and disturbances.                    *)
(***************************************************************************)
EXTENDS HostSyncSteps

LEMMA CoveredStays ==
    ASSUME NEW A, NEW B, NEW H, NEW K, NEW t \in Nat, NEW c \in Nat, NEW S,
           t <= c, H \subseteq K, CoveredIn(A, H, t, S),
           \A h \in Hosts : B[h] = A[h] \/ B[h] = 0 \/ B[h] = c + 1
    PROVE  CoveredIn(B, K, t, S)
BY DEF CoveredIn

\* Handling the oldest of the rows covers everything up to its change.
LEMMA OldestHandled ==
    ASSUME NEW A, NEW H, NEW t \in Nat, NEW S, NEW x \in S,
           \A y \in S : y.at \in Nat /\ x.at <= y.at,
           \A y \in S : y.at = x.at => y = x,
           \A h \in Hosts : A[h] \in Nat,
           x.at <= t, CoveredIn(A, H, t, S)
    PROVE  /\ CoveredIn(A, H \cup {<<x.host, x.at>>}, x.at, {})
           /\ CoveredIn(A, H \cup {<<x.host, x.at>>}, t, S \ {x})
<1>1. ASSUME NEW h \in Hosts, A[h] # 0, A[h] <= x.at, <<h, A[h]>> \notin H
      PROVE  <<h, A[h]>> = <<x.host, x.at>>
  <2>1. A[h] <= t
    BY <1>1
  <2>2. PICK y \in S : y.host = h /\ y.at = A[h]
    BY <1>1, <2>1, Zenon DEF CoveredIn
  <2>3. y.at = x.at
    BY <1>1, <2>2
  <2> QED
    BY <2>2, <2>3, Zenon
<1>2. ASSUME NEW h \in Hosts, A[h] # 0, A[h] <= t, <<h, A[h]>> \notin H
      PROVE  \/ <<h, A[h]>> = <<x.host, x.at>>
             \/ \E y \in S \ {x} : y.host = h /\ y.at = A[h]
  <2>1. PICK y \in S : y.host = h /\ y.at = A[h]
    BY <1>2, Zenon DEF CoveredIn
  <2> QED
    BY <2>1, Zenon
<1> QED
  BY <1>1, <1>2, Zenon DEF CoveredIn

LEMMA HandledGrows ==
    ASSUME IndInv, [Next]_vars
    PROVE  handled \subseteq handled'
<1> USE DEF IndInv
<1>1. ASSUME NEW r \in Runners, NEW ok \in BOOLEAN, RunnerAct(r, ok)
      PROVE  handled \subseteq handled'
  BY <1>1, RunnerFrame, Zenon DEF Frame
<1>2. ASSUME NEW p \in Procs, ApplyAct(p)
      PROVE  handled \subseteq handled'
  BY <1>2, ApplyFrame, Zenon
<1>3. ASSUME ~ \E r \in Runners, ok \in BOOLEAN : RunnerAct(r, ok),
             ~ \E p \in Procs : ApplyAct(p)
      PROVE  UNCHANGED handled
  BY <1>3, NextSplit, Zenon DEF ReportChanges, HostRetired, HostDeleted, UpdateSettings, ResyncAll,
     IntervalPasses, freshReport, ResyncDevice, vars, devices
<1> QED
  BY <1>1, <1>2, <1>3, Zenon

\* The rows a poll has not finished with, as facts.
LEMMA PendingFacts ==
    ASSUME NEW r \in Runners, IndInv, Polling(r)
    PROVE  /\ Pending(r) \subseteq Report /\ cursor[r] \in Nat
           /\ \A x \in Pending(r) : x.at \in Nat /\ x.host \in Hosts /\ x.at <= cursor[r]
           /\ \A x, y \in Pending(r) : x.at = y.at => x = y
           /\ r \notin failed => CoveredIn(at, handled, cursor[r], Pending(r))
<1> USE DEF IndInv
<1>1. page[r] \subseteq Report /\ cursor[r] \in Nat
  BY TimesFacts, Zenon DEF TypeOK
<1>2. PollApply(r) => row[r] \in Report
  BY Zenon DEF PollApply, RowInv, Procs
<1>3. Pending(r) \subseteq Report
  BY <1>1, <1>2, Zenon DEF Pending
<1>4. PollOK(r)
  BY Zenon DEF PollInv
<1> QED
  BY <1>1, <1>3, <1>4, TimesFacts, Zenon DEF PollOK, Covered

\* A poll that handles its oldest row may advance its watermark to it.
LEMMA AdvancedCovered ==
    ASSUME NEW r \in Runners, IndInv, Polling(r), NEW x \in Pending(r),
           \A y \in Pending(r) : x.at <= y.at,
           handled' = handled \cup {<<x.host, x.at>>}
    PROVE  CoveredIn(at, handled', Advanced(r, x), {})
<1> USE DEF IndInv
<1>1. \A h \in Hosts : at[h] \in Nat
  BY TimesFacts, Zenon
<1>2. CASE Advanced(r, x) = mark[r]
  <2>1. CoveredIn(at, handled, mark[r], {})
    BY Zenon DEF MarkInv, Covered
  <2> QED
    BY <1>2, <2>1, Zenon DEF CoveredIn
<1>3. CASE r \notin failed /\ Advanced(r, x) = x.at
  <2>1. /\ cursor[r] \in Nat /\ x.at <= cursor[r]
        /\ \A y \in Pending(r) : y.at \in Nat /\ x.at <= y.at
        /\ \A y \in Pending(r) : y.at = x.at => y = x
        /\ CoveredIn(at, handled, cursor[r], Pending(r))
    BY <1>3, PendingFacts, Zenon
  <2>2. CoveredIn(at, handled \cup {<<x.host, x.at>>}, x.at, {})
    BY <1>1, <2>1, OldestHandled, Zenon
  <2> QED
    BY <1>3, <2>2, Zenon
<1> QED
  BY <1>2, <1>3, Zenon DEF Advanced

LEMMA AtMostItself == \A n \in Nat : n <= n
OBVIOUS

LEMMA MarkStep ==
    ASSUME IndInv, [Next]_vars
    PROVE  MarkInv'
<1> USE DEF IndInv
<1> since \in Times /\ mark \in [Runners -> Times]
  BY Zenon DEF TypeOK
<1>0. ASSUME NEW t \in Times, Covered(t, {})
      PROVE  CoveredIn(at', handled', t, {})
  <2>1. t \in Nat /\ clock \in Nat /\ t <= clock
    BY DEF Times, TypeOK
  <2> QED
    BY <1>0, <2>1, ChangeStep, HandledGrows, CoveredStays, Zenon DEF Covered
<1>1. ASSUME \/ since' = since
             \/ \E r \in Runners : since' = mark[r],
             \A q \in Runners : \/ mark'[q] = mark[q]
                                \/ mark'[q] = 0
                                \/ CoveredIn(at', handled', mark'[q], {})
      PROVE  MarkInv'
  <2>1. CoveredIn(at', handled', since', {})
    BY <1>0, <1>1, Zenon DEF MarkInv
  <2>2. ASSUME NEW q \in Runners
        PROVE  CoveredIn(at', handled', mark'[q], {})
    <3>1. CASE mark'[q] = mark[q]
      BY <1>0, <3>1, Zenon DEF MarkInv
    <3>2. CASE mark'[q] = 0
      <4>1. \A h \in Hosts : at'[h] \in Nat
        <5>1. TypeOK'
          BY TypeStep, Zenon
        <5> QED
          BY <5>1 DEF TypeOK, Times
      <4> QED
        BY <3>2, <4>1 DEF CoveredIn
    <3> QED
      BY <1>1, <3>1, <3>2, Zenon
  <2> QED
    BY <2>1, <2>2, Zenon DEF MarkInv, Covered
<1>2. ASSUME NEW r \in Runners, handlePolled(r)
      PROVE  MarkInv'
  <2>1. PICK x \in page[r] :
          /\ \A y \in page[r] : x.at <= y.at
          /\ \/ /\ mark' = [mark EXCEPT ![r] = Advanced(r, x)]
                /\ handled' = handled \cup {<<x.host, x.at>>}
             \/ UNCHANGED mark
    BY <1>2, Zenon DEF handlePolled, Oldest, Handled
  <2>2. pc[r] = "rows" /\ UNCHANGED <<since, at>>
    BY <1>2, Zenon DEF handlePolled, settings, inventory
  <2>3. Polling(r) /\ Pending(r) = page[r]
    BY <2>2, Zenon DEF Polling, Pending, PollApply, ApplyPCs
  <2>4. CASE UNCHANGED mark
    BY <1>1, <2>2, <2>4, Zenon
  <2>5. CASE /\ mark' = [mark EXCEPT ![r] = Advanced(r, x)]
             /\ handled' = handled \cup {<<x.host, x.at>>}
    <3>1. CoveredIn(at', handled', mark'[r], {})
      BY <2>1, <2>2, <2>3, <2>5, AdvancedCovered, Zenon
    <3> QED
      BY <1>1, <2>2, <2>5, <3>1, Zenon
  <2> QED
    BY <2>1, <2>4, <2>5, Zenon
<1>3. ASSUME NEW r \in Runners, NEW ok \in BOOLEAN, RunnerAct(r, ok), ~ handlePolled(r)
      PROVE  MarkInv'
  <2>1. \A q \in Runners \ {r} : mark'[q] = mark[q]
    BY <1>3, RunnerFrame, Zenon DEF Frame
  <2>2. /\ mark'[r] \in {mark[r], 0}
        /\ since' = since \/ since' = mark[r]
    <3>1. CASE Save(r, ok) \/ Restart(r)
      BY <3>1, Zenon DEF Save, SaveState, Restart, settings
    <3>2. CASE Cycle(r) \/ BackoffEnds(r) \/ RunTenant(r) \/ PageDone(r)
      BY <3>2, Zenon DEF Cycle, BackoffEnds, RunTenant, PageDone, settings, poll, outcome
    <3>3. CASE \/ deviceDigests(r) \/ ListHostReports(r) \/ reconcileDigests(r)
               \/ reconcileList(r) \/ reconcileListed(r)
      BY <3>3, Zenon DEF deviceDigests, ListHostReports, reconcileDigests, ReadDigests,
                  reconcileList, reconcileListed, settings, poll, outcome
    <3>4. CASE reconcileRow(r) \/ reconcileAbsent(r) \/ reconcileDone(r) \/ RunnerFails(r)
      BY <3>4, Zenon DEF reconcileRow, reconcileAbsent, reconcileDone, RunnerFails, CallFails,
                  settings, poll, outcome
    <3> QED
      BY <1>3, <3>1, <3>2, <3>3, <3>4, Zenon DEF RunnerAct, PollAct, ReconcileAct
  <2> QED
    BY <1>1, <2>1, <2>2, Zenon
<1>4. ASSUME NEW p \in Procs, ApplyAct(p)
      PROVE  MarkInv'
  <2>1. /\ \A q \in Runners \ {p} : mark'[q] = mark[q]
        /\ since' = since /\ at' = at
    BY <1>4, ApplyFrame, Zenon DEF inventory
  <2>2. CASE UNCHANGED mark
    BY <1>1, <2>1, <2>2, Zenon
  <2>3. CASE ApplyCommit(p) /\ mode[p] = "poll" /\ p \in Runners
    <3>1. PollApply(p)
      BY <2>3, Zenon DEF PollApply, ApplyCommit, InTx, ApplyPCs
    <3>2. Polling(p) /\ Pending(p) = page[p] \cup {row[p]} /\ \A y \in page[p] : row[p].at <= y.at
      BY <3>1, <2>3, Zenon DEF Polling, Pending, PollInv, PollOK
    <3>3. /\ handled' = handled \cup {<<row[p].host, row[p].at>>}
          /\ mark' = [mark EXCEPT ![p] = Advanced(p, row[p])]
      BY <2>3, Zenon DEF ApplyCommit, Handled
    <3>4. \A y \in Pending(p) : row[p].at <= y.at
      <4>1. row[p].at \in Nat
        BY <2>3, <3>2, PendingFacts, Zenon
      <4>2. row[p].at <= row[p].at
        BY <4>1, AtMostItself, Zenon
      <4> QED
        BY <3>2, <4>2, Zenon
    <3>5. CoveredIn(at', handled', mark'[p], {})
      BY <2>1, <2>3, <3>2, <3>3, <3>4, AdvancedCovered, Zenon
    <3> QED
      BY <1>1, <2>1, <3>5, Zenon
  <2>4. ApplyCommit(p) /\ mode[p] = "poll" => p \in Runners
    BY Zenon DEF ApplyCommit, InTx, RowInv, ApplyPCs, Procs
  <2> QED
    BY <1>4, <2>2, <2>3, <2>4, Zenon DEF ApplyAct, ApplyBegin, ApplyCommit, ApplyFails
<1>5. ASSUME NEW a \in Admins, freshReport(a) \/ \E h \in Hosts : ResyncDevice(a, h)
      PROVE  MarkInv'
  BY <1>1, <1>5, Zenon DEF freshReport, ResyncDevice, settings, poll, outcome
<1>6. ASSUME NEW h \in Hosts, ReportChanges(h) \/ HostRetired(h) \/ HostDeleted(h)
      PROVE  MarkInv'
  BY <1>1, <1>6, Zenon DEF ReportChanges, HostRetired, HostDeleted, settings, poll, outcome
<1>7. CASE ResyncAll \/ IntervalPasses \/ \E on \in BOOLEAN : UpdateSettings(on)
  BY <1>1, <1>7, Zenon DEF ResyncAll, IntervalPasses, UpdateSettings, poll, outcome
<1>8. CASE UNCHANGED vars
  BY <1>1, <1>8, Zenon DEF vars, settings, poll, outcome
<1> QED
  BY <1>2, <1>3, <1>4, <1>5, <1>6, <1>7, <1>8, NextSplit, Zenon

\* A process whose own state does not change keeps its poll in order.
LEMMA PollKept ==
    ASSUME NEW q \in Runners, IndInv, [Next]_vars,
           pc'[q] = pc[q], mode'[q] = mode[q], row'[q] = row[q], page'[q] = page[q],
           cursor'[q] = cursor[q], q \in failed => q \in failed'
    PROVE  PollOK(q)'
<1> USE DEF IndInv
<1>1. /\ PollApply(q)' <=> PollApply(q)
      /\ Polling(q)' <=> Polling(q)
      /\ Pending(q)' = Pending(q)
  BY Zenon DEF PollApply, Polling, Pending
<1>2. PollOK(q)
  BY Zenon DEF PollInv
<1>3. cursor[q] \in Nat /\ clock \in Nat /\ cursor[q] <= clock
  BY DEF TypeOK, Times
<1>4. ASSUME CoveredIn(at, handled, cursor[q], Pending(q))
      PROVE  CoveredIn(at', handled', cursor'[q], Pending(q)')
  <2>1. CoveredIn(at', handled', cursor[q], Pending(q))
    BY <1>3, <1>4, ChangeStep, HandledGrows, CoveredStays, Zenon
  <2> QED
    BY <1>1, <2>1, Zenon
<1> QED
  BY <1>1, <1>2, <1>4, Zenon DEF PollOK, Covered

\* Outside a poll there is nothing to show but the empty page.
LEMMA NotPolling ==
    ASSUME NEW r \in Runners,
           pc'[r] \notin {"digests", "list", "rows"},
           pc'[r] \in ApplyPCs => mode'[r] # "poll",
           pc'[r] \in {"idle", "begin", "save"} => page'[r] = {}
    PROVE  PollOK(r)'
BY Zenon DEF PollOK, Polling, PollApply

\* A poll with no row in hand: it is at a listing, or between two rows.
LEMMA BetweenRows ==
    ASSUME NEW r \in Runners,
           pc'[r] \in {"digests", "list", "rows"},
           pc'[r] # "rows" => page'[r] = {},
           r \notin failed' => CoveredIn(at', handled', cursor'[r], page'[r]),
           \A x \in page'[r] : x.at <= cursor'[r],
           \A x, y \in page'[r] : x.at = y.at => x = y
    PROVE  PollOK(r)'
<1>1. ~ PollApply(r)' /\ Pending(r)' = page'[r]
  BY Zenon DEF PollApply, Pending, ApplyPCs
<1> QED
  BY <1>1, Zenon DEF PollOK, Covered

LEMMA PollApplies ==
    ASSUME NEW r \in Runners, IndInv, [Next]_vars, ApplyAct(r)
    PROVE  PollOK(r)'
<1> USE DEF IndInv
<1> r \in Procs
  BY Zenon DEF Procs
<1> /\ pc \in [Procs -> PCs] /\ mode \in [Procs -> Modes]
    /\ row \in [Procs -> Report \cup {<<>>}] /\ page \in [Runners -> SUBSET Report]
  BY Zenon DEF TypeOK
<1> PollOK(r)
  BY SMTT(30) DEF PollInv
<1>0. UNCHANGED at /\ pc[r] \in ApplyPCs
  BY ApplyFrame, Zenon DEF inventory, ApplyAct, ApplyBegin, ApplyCommit, ApplyFails, InTx, ApplyPCs
<1>1. CASE ApplyBegin(r)
  <2>1. CASE enabled
    <3>1. /\ pc'[r] \in ApplyPCs
          /\ UNCHANGED <<mode, row, page, cursor, handled, failed>>
      BY <1>1, <2>1, Zenon DEF ApplyBegin, GoTo, ApplyPCs, scan, devices
    <3>2. /\ PollApply(r)' <=> PollApply(r)
          /\ Polling(r)' <=> Polling(r)
          /\ Pending(r)' = Pending(r)
      BY <1>0, <3>1, Zenon DEF PollApply, Polling, Pending, ApplyPCs
    <3> QED
      BY <1>0, <3>1, <3>2, Zenon DEF PollOK, Covered, ApplyPCs
  <2>2. CASE ~ enabled
    <3>1. pc'[r] = "save" /\ page'[r] = {}
      BY <1>1, <2>2, Zenon DEF ApplyBegin, EndRun, Forget, GoTo
    <3> QED
      BY <3>1, NotPolling, Zenon DEF ApplyPCs
  <2> QED
    BY <2>1, <2>2, Zenon
<1>2. CASE mode[r] = "poll" /\ (ApplyCommit(r) \/ ApplyFails(r))
  <2>1. pc'[r] = "rows" /\ UNCHANGED <<page, cursor>>
    BY <1>2, Zenon DEF ApplyCommit, ApplyFails, Resume, GoTo, scan
  <2>2. PollApply(r) /\ Polling(r) /\ Pending(r) = page[r] \cup {row[r]}
    BY <1>0, <1>2, Zenon DEF PollApply, Polling, Pending
  <2>3. /\ cursor[r] \in Nat
        /\ \A y \in page[r] \cup {row[r]} : y.at \in Nat /\ y.at <= cursor[r]
        /\ \A y, z \in page[r] \cup {row[r]} : y.at = z.at => y = z
        /\ r \notin failed => CoveredIn(at, handled, cursor[r], page[r] \cup {row[r]})
    BY <2>2, PendingFacts, Zenon
  <2>4. CASE ApplyCommit(r)
    <3>1. handled' = handled \cup {<<row[r].host, row[r].at>>} /\ failed' = failed
      BY <2>4, Zenon DEF ApplyCommit, Handled
    <3>2. \A y \in page[r] \cup {row[r]} : row[r].at <= y.at
      <4>1. \A y \in page[r] : row[r].at <= y.at
        BY <2>2, Zenon DEF PollOK
      <4>2. row[r].at <= row[r].at
        BY <2>3
      <4> QED
        BY <4>1, <4>2, Zenon
    <3>3. \A h \in Hosts : at[h] \in Nat
      BY TimesFacts, Zenon
    <3> DEFINE rest == (page[r] \cup {row[r]}) \ {row[r]}
    <3>4. ASSUME r \notin failed
          PROVE  CoveredIn(at, handled', cursor[r], rest)
      <4>1. \A y \in page[r] \cup {row[r]} : y.at = row[r].at => y = row[r]
        BY <2>3, Zenon
      <4> QED
        BY <2>3, <3>1, <3>2, <3>3, <3>4, <4>1, OldestHandled, Zenon
    <3>5. rest \subseteq page[r]
      OBVIOUS
    <3>6. r \notin failed' => CoveredIn(at', handled', cursor'[r], page'[r])
      BY <1>0, <2>1, <3>1, <3>4, <3>5, Zenon DEF CoveredIn
    <3> QED
      BY <2>1, <2>3, <3>6, BetweenRows, Zenon
  <2>5. CASE ApplyFails(r)
    <3>1. r \in failed'
      BY <1>2, <2>5, Zenon DEF ApplyFails
    <3> QED
      BY <2>1, <2>3, <3>1, BetweenRows, Zenon
  <2> QED
    BY <1>2, <2>4, <2>5, Zenon
<1>3. CASE mode[r] # "poll" /\ (ApplyCommit(r) \/ ApplyFails(r))
  <2>1. mode[r] \in {"reconcile", "retired", "absent", "deleted"}
    BY <1>0, <1>3, Zenon DEF RowInv, Modes
  <2>2. pc'[r] \in {"recrows", "absent"} \/ (pc'[r] = "save" /\ page'[r] = {})
    BY <1>3, <2>1, Zenon DEF ApplyCommit, ApplyFails, Resume, EndRun, Forget, GoTo
  <2> QED
    BY <2>2, NotPolling, Zenon DEF ApplyPCs
<1> QED
  BY <1>1, <1>2, <1>3, Zenon DEF ApplyAct

LEMMA PollRunner ==
    ASSUME NEW r \in Runners, NEW ok \in BOOLEAN, IndInv, [Next]_vars, RunnerAct(r, ok)
    PROVE  PollOK(r)'
<1> USE DEF IndInv
<1> r \in Procs
  BY Zenon DEF Procs
<1> /\ pc \in [Procs -> PCs] /\ mode \in [Procs -> Modes]
    /\ row \in [Procs -> Report \cup {<<>>}] /\ page \in [Runners -> SUBSET Report]
    /\ cursor \in [Runners -> Times] /\ since \in Times /\ clock \in Nat
  BY Zenon DEF TypeOK
<1> PollOK(r)
  BY Zenon DEF PollInv
<1>1. CASE Cycle(r)
  <2>1. pc[r] = "idle" /\ pc'[r] \in {"idle", "begin"} /\ page' = page
    BY <1>1, Zenon DEF Cycle, GoTo, poll, scan
  <2> QED
    BY <2>1, NotPolling, Zenon DEF PollOK, ApplyPCs
<1>2. CASE BackoffEnds(r)
  BY <1>2, PollKept, Zenon DEF BackoffEnds, poll, scan, outcome
<1>3. CASE RunTenant(r)
  <2>1. pc[r] = "begin" /\ page' = page /\ page[r] = {}
    BY <1>3, Zenon DEF RunTenant, poll, scan, PollOK
  <2>2. CASE enabled
    <3>1. pc'[r] = "digests" /\ cursor'[r] = since /\ UNCHANGED <<at, handled>>
      BY <1>3, <2>2, Zenon DEF RunTenant, GoTo, inventory, devices
    <3>2. CoveredIn(at', handled', cursor'[r], page'[r])
      BY <2>1, <3>1, Zenon DEF MarkInv, Covered
    <3> QED
      BY <2>1, <3>1, <3>2, BetweenRows, Zenon
  <2>3. CASE ~ enabled
    <3>1. pc'[r] = "idle"
      BY <1>3, <2>3, Zenon DEF RunTenant, EndCycle, GoTo
    <3> QED
      BY <2>1, <3>1, NotPolling, Zenon DEF ApplyPCs
  <2> QED
    BY <2>2, <2>3, Zenon
<1>4. CASE deviceDigests(r)
  <2>1. pc[r] = "digests" /\ pc'[r] = "list" /\ UNCHANGED <<page, cursor, at, handled, failed>>
    BY <1>4, Zenon DEF deviceDigests, ReadDigests, GoTo, inventory, devices
  <2>2. Polling(r) /\ page[r] = {} /\ Pending(r) = {}
    BY <2>1, Zenon DEF Polling, Pending, PollApply, ApplyPCs, PollOK
  <2>3. r \notin failed' => CoveredIn(at', handled', cursor'[r], page'[r])
    BY <2>1, <2>2, PendingFacts, Zenon
  <2> QED
    BY <2>1, <2>2, <2>3, BetweenRows, Zenon
<1>5. CASE ListHostReports(r)
  <2>1. /\ pc[r] = "list" /\ pc'[r] = "rows"
        /\ UNCHANGED <<at, handled, failed>>
    BY <1>5, Zenon DEF ListHostReports, GoTo, inventory, devices
  <2>2. Polling(r) /\ page[r] = {} /\ Pending(r) = {}
    BY <2>1, Zenon DEF Polling, Pending, PollApply, ApplyPCs, PollOK
  <2>3. cursor[r] \in Nat /\ \A h \in Hosts : at[h] \in Nat
    BY TimesFacts, Zenon
  <2>4. CASE UNCHANGED <<page, cursor>>
    <3>1. r \notin failed' => CoveredIn(at', handled', cursor'[r], page'[r])
      BY <2>1, <2>2, <2>4, PendingFacts, Zenon
    <3> QED
      BY <2>1, <2>2, <2>4, <3>1, BetweenRows, Zenon
  <2>5. ASSUME NEW last \in Listed(cursor[r]),
               LET hs == {h \in Listed(cursor[r]) : at[h] <= at[last]}
               IN  /\ page' = [page EXCEPT ![r] = {Latest(h) : h \in hs}]
                   /\ cursor' = [cursor EXCEPT ![r] = at[last]]
        PROVE  PollOK(r)'
    <3> DEFINE hs == {h \in Hosts : at[h] > cursor[r] /\ at[h] <= at[last]}
    <3>1. /\ page'[r] = {Latest(h) : h \in hs} /\ cursor'[r] = at[last]
          /\ last \in Hosts /\ at[last] > cursor[r]
      BY <2>5, Zenon DEF Listed
    <3> HIDE DEF hs
    <3>2. \A x \in page'[r] : \E h \in hs : x = Latest(h) /\ x.host = h /\ x.at = at[h]
      BY <3>1, TimesFacts DEF hs
    <3>3. \A x \in page'[r] : x.at <= cursor'[r]
      BY <3>1, <3>2, Zenon DEF hs
    <3>4. \A x, y \in page'[r] : x.at = y.at => x = y
      <4>1. ASSUME NEW g \in hs, NEW h \in hs, at[g] = at[h]
            PROVE  g = h
        BY <2>3, <4>1 DEF hs, ChangeInv
      <4> QED
        BY <3>2, <4>1
    <3>5. ASSUME r \notin failed, NEW h \in Hosts, at[h] # 0, at[h] <= at[last],
                 <<h, at[h]>> \notin handled
          PROVE  \E x \in page'[r] : x.host = h /\ x.at = at[h]
      <4>1. CoveredIn(at, handled, cursor[r], {})
        BY <2>2, <3>5, PendingFacts, Zenon
      <4>2. at[h] > cursor[r]
        BY <2>3, <3>5, <4>1 DEF CoveredIn
      <4>3. h \in hs
        BY <3>5, <4>2, Zenon DEF hs
      <4>4. Latest(h) \in page'[r] /\ Latest(h).host = h /\ Latest(h).at = at[h]
        BY <3>1, <4>3, TimesFacts, Zenon
      <4> QED
        BY <4>4, Zenon
    <3>6. r \notin failed' => CoveredIn(at', handled', cursor'[r], page'[r])
      BY <2>1, <3>1, <3>5, Zenon DEF CoveredIn
    <3> QED
      BY <2>1, <3>3, <3>4, <3>6, BetweenRows, Zenon
  <2> QED
    BY <1>5, <2>4, <2>5, Zenon DEF ListHostReports
<1>6. CASE handlePolled(r)
  <2>1. PICK x \in page[r] :
          /\ \A y \in page[r] : x.at <= y.at
          /\ page' = [page EXCEPT ![r] = @ \ {x}]
          /\ \/ UNCHANGED <<pc, mode, row>> /\ handled' = handled \cup {<<x.host, x.at>>}
             \/ CallApply(r, "poll", x) /\ UNCHANGED handled
    BY <1>6, Zenon DEF handlePolled, Oldest, Handled
  <2>2. pc[r] = "rows" /\ UNCHANGED <<at, cursor, failed>>
    BY <1>6, Zenon DEF handlePolled, inventory
  <2>3. Polling(r) /\ Pending(r) = page[r]
    BY <2>2, Zenon DEF Polling, Pending, PollApply, ApplyPCs
  <2>4. /\ cursor[r] \in Nat
        /\ \A y \in page[r] : y.at \in Nat /\ y.at <= cursor[r]
        /\ \A y, z \in page[r] : y.at = z.at => y = z
        /\ r \notin failed => CoveredIn(at, handled, cursor[r], page[r])
    BY <2>3, PendingFacts
  <2>5. page'[r] = page[r] \ {x}
    BY <2>1, Zenon
  <2>6. CASE UNCHANGED <<pc, mode, row>> /\ handled' = handled \cup {<<x.host, x.at>>}
    <3>1. \A h \in Hosts : at[h] \in Nat
      BY TimesFacts, Zenon
    <3>2. r \notin failed =>
             CoveredIn(at, handled \cup {<<x.host, x.at>>}, cursor[r], page[r] \ {x})
      BY <2>1, <2>4, <3>1, OldestHandled, Zenon
    <3>3. r \notin failed' => CoveredIn(at', handled', cursor'[r], page'[r])
      BY <2>2, <2>5, <2>6, <3>2, Zenon
    <3> QED
      BY <2>2, <2>4, <2>5, <2>6, <3>3, BetweenRows, Zenon
  <2>7. CASE CallApply(r, "poll", x) /\ UNCHANGED handled
    <3>1. pc'[r] \in {"apply", "mark"} /\ mode'[r] = "poll" /\ row'[r] = x
      BY <2>7, Zenon DEF CallApply, GoTo
    <3>2. PollApply(r)' /\ Pending(r)' = page[r]
      BY <2>1, <2>5, <3>1, Zenon DEF PollApply, Pending, ApplyPCs
    <3> QED
      BY <2>1, <2>2, <2>4, <2>5, <2>7, <3>1, <3>2 DEF PollOK, Covered
  <2> QED
    BY <2>1, <2>6, <2>7, Zenon
<1>7. CASE PageDone(r)
  <2>1. /\ pc[r] = "rows" /\ page[r] = {} /\ UNCHANGED <<at, handled, failed>>
    BY <1>7, Zenon DEF PageDone, inventory, devices
  <2>2. Polling(r) /\ Pending(r) = {}
    BY <2>1, Zenon DEF Polling, Pending, PollApply, ApplyPCs
  <2>3. CASE pc'[r] = "list" /\ UNCHANGED <<page, cursor>>
    <3>1. r \notin failed' => CoveredIn(at', handled', cursor'[r], page'[r])
      BY <2>1, <2>2, <2>3, PendingFacts, Zenon
    <3> QED
      BY <2>1, <2>3, <3>1, BetweenRows, Zenon
  <2>4. CASE pc'[r] = "recdigests" \/ (pc'[r] = "save" /\ page'[r] = {})
    BY <2>4, NotPolling, Zenon DEF ApplyPCs
  <2> QED
    BY <1>7, <2>3, <2>4, Zenon DEF PageDone, EndRun, Forget, GoTo, scan
<1>8. CASE reconcileDigests(r) \/ reconcileList(r) \/ reconcileListed(r)
  <2>1. pc'[r] \in {"reclist", "recrows", "absent"}
    BY <1>8, Zenon DEF reconcileDigests, reconcileList, reconcileListed, GoTo
  <2> QED
    BY <2>1, NotPolling, Zenon DEF ApplyPCs
<1>9. CASE reconcileRow(r) \/ reconcileAbsent(r)
  <2>1. \/ pc'[r] \in {"recrows", "absent"}
        \/ /\ pc'[r] \in {"apply", "mark"}
           /\ mode'[r] \in {"retired", "reconcile", "deleted", "absent"}
    BY <1>9, Zenon DEF reconcileRow, reconcileAbsent, HandleFetched, CallApply, GoTo
  <2> QED
    BY <2>1, NotPolling, Zenon DEF ApplyPCs
<1>10. CASE reconcileDone(r) \/ Save(r, ok) \/ Restart(r)
  <2>1. pc'[r] \in {"idle", "save"} /\ page'[r] = {}
    BY <1>10, Zenon DEF reconcileDone, Save, Restart, EndCycle, EndRun, Forget, GoTo, scan, PollOK
  <2> QED
    BY <2>1, NotPolling, Zenon DEF ApplyPCs
<1>11. CASE RunnerFails(r)
  <2>1. pc'[r] \in {"idle", "save"} /\ page'[r] = {}
    BY <1>11, Zenon DEF RunnerFails, CallFails, EndCycle, EndRun, Forget, GoTo, poll, scan, PollOK
  <2> QED
    BY <2>1, NotPolling, Zenon DEF ApplyPCs
<1> QED
  BY <1>1, <1>2, <1>3, <1>4, <1>5, <1>6, <1>7, <1>8, <1>9, <1>10, <1>11, Zenon DEF RunnerAct, PollAct, ReconcileAct

LEMMA PollStep ==
    ASSUME IndInv, [Next]_vars
    PROVE  PollInv'
<1> SUFFICES ASSUME NEW q \in Runners
             PROVE  PollOK(q)'
  BY Zenon DEF PollInv
<1> USE DEF IndInv
<1> q \in Procs
  BY Zenon DEF Procs
<1>1. ASSUME NEW r \in Runners, NEW ok \in BOOLEAN, RunnerAct(r, ok)
      PROVE  PollOK(q)'
  <2>1. CASE q = r
    BY <1>1, <2>1, PollRunner, Zenon
  <2>2. CASE q # r
    <3>1. Frame(r)
      BY <1>1, RunnerFrame, Zenon
    <3> QED
      BY <2>2, <3>1, PollKept, Zenon DEF Frame
  <2> QED
    BY <2>1, <2>2, Zenon
<1>2. ASSUME NEW p \in Procs, ApplyAct(p)
      PROVE  PollOK(q)'
  <2>1. CASE q = p
    BY <1>2, <2>1, PollApplies, Zenon
  <2>2. CASE q # p
    BY <1>2, <2>2, ApplyFrame, PollKept, Zenon
  <2> QED
    BY <2>1, <2>2, Zenon
<1>3. CASE UNCHANGED <<pc, mode, row, poll>>
  BY <1>3, PollKept, Zenon DEF poll, scan, outcome
<1>4. ASSUME NEW a \in Admins, freshReport(a) \/ \E h \in Hosts : ResyncDevice(a, h)
      PROVE  PollOK(q)'
  <2>1. pc'[q] = pc[q] /\ mode'[q] = mode[q] /\ row'[q] = row[q] /\ UNCHANGED poll
    <3>1. q # a /\ a \in Procs
      BY HostSyncConstantsOK, Zenon DEF Procs
    <3>2. /\ pc \in [Procs -> PCs] /\ mode \in [Procs -> Modes]
          /\ row \in [Procs -> Report \cup {<<>>}]
      BY Zenon DEF TypeOK
    <3> QED
      BY <1>4, <3>1, <3>2, Zenon DEF freshReport, ResyncDevice, CallApply, GoTo
  <2> QED
    BY <2>1, PollKept, Zenon DEF poll, scan, outcome
<1>5. ASSUME NEW h \in Hosts, ReportChanges(h) \/ HostRetired(h) \/ HostDeleted(h)
      PROVE  PollOK(q)'
  BY <1>3, <1>5, Zenon DEF ReportChanges, HostRetired, HostDeleted
<1>6. CASE ResyncAll \/ IntervalPasses \/ \E on \in BOOLEAN : UpdateSettings(on)
  BY <1>3, <1>6, Zenon DEF ResyncAll, IntervalPasses, UpdateSettings
<1>7. CASE UNCHANGED vars
  BY <1>3, <1>7, Zenon DEF vars
<1> QED
  BY <1>1, <1>2, <1>4, <1>5, <1>6, <1>7, NextSplit, Zenon

-----------------------------------------------------------------------------
\* Whatever replicas, re-syncs, administrators, the inventory and faults do,
\* the invariant holds in every reachable state.
THEOREM HostSyncInvariance == Spec => []IndInv
<1>1. Init => IndInv
  <2> SUFFICES ASSUME Init
               PROVE  IndInv
    OBVIOUS
  <2>1. TypeOK
    <3>1. clock = 0 /\ 0 \in Times
      BY DEF Init, Times
    <3>2. InventoryTypes /\ MemoryTypes
      BY <3>1 DEF Init, InventoryTypes, MemoryTypes
    <3>6. SettingsTypes
      BY <3>1, Zenon DEF Init, SettingsTypes
    <3>3. DeviceTypes /\ ProcessTypes /\ OutcomeTypes
      BY <3>1, Zenon DEF Init, DeviceTypes, ProcessTypes, OutcomeTypes, PCs, Modes, Results
    <3>4. PollTypes
      BY <3>1, Zenon DEF Init, PollTypes
    <3>5. events \in 0 .. MaxEvents
      BY HostSyncConstantsOK DEF Init
    <3> QED
      BY <3>2, <3>3, <3>4, <3>5, <3>6, TypeGroups, Zenon
  <2>2. LockInv /\ RowInv /\ DeviceInv /\ ChangeInv
    BY Zenon DEF Init, LockInv, InTx, RowInv, ApplyPCs, DeviceInv, ChangeInv, Procs
  <2>3. MarkInv
    BY Zenon DEF Init, MarkInv, Covered, CoveredIn
  <2>4. PollInv
    BY Zenon DEF Init, PollInv, PollOK, Polling, PollApply, ApplyPCs, Procs
  <2> QED
    BY <2>1, <2>2, <2>3, <2>4, Zenon DEF IndInv
<1>2. IndInv /\ [Next]_vars => IndInv'
  BY TypeStep, LockStep, RowStep, DeviceStep, ChangeStep, MarkStep, PollStep, Zenon DEF IndInv
<1> QED
  BY <1>1, <1>2, PTL DEF Spec

\* Every variable keeps its type.
THEOREM HostSyncTypeCorrect == Spec => []TypeOK
<1>1. IndInv => TypeOK
  BY Zenon DEF IndInv
<1> QED
  BY <1>1, HostSyncInvariance, PTL

\* The watermark of a tenant never hides a report that nobody handled: poll
\* takes rows in the order of their change and stops advancing at the first
\* failure, a restart loses only what was not saved, and replicas that save
\* over each other save watermarks that are each safe.
THEOREM WatermarkIsSafe == Spec => []WatermarkSafe
<1>1. IndInv => WatermarkSafe
  BY Zenon DEF IndInv, MarkInv, Covered, CoveredIn, WatermarkSafe
<1> QED
  BY <1>1, HostSyncInvariance, PTL

\* No device row changes once the tenant is disabled: every change is made in
\* a transaction that found enabled set and holds the settings row FOR SHARE.
THEOREM NothingAfterDisable == Spec => NoChangeAfterDisable
<1>1. IndInv /\ [Next]_vars => [<<digest, reported>>' # <<digest, reported>> => enabled]_vars
  <2> SUFFICES ASSUME IndInv, [Next]_vars, <<digest, reported>>' # <<digest, reported>>
               PROVE  enabled
    OBVIOUS
  <2>1. ASSUME NEW r \in Runners, NEW ok \in BOOLEAN, RunnerAct(r, ok)
        PROVE  FALSE
    BY <2>1, RunnerFrame, Zenon DEF Frame, IndInv
  <2>2. ASSUME NEW p \in Procs, ApplyAct(p)
        PROVE  enabled
    <3>1. ApplyCommit(p)
      BY <2>2, Zenon DEF ApplyAct, ApplyBegin, ApplyFails, devices
    <3> QED
      BY <3>1, Zenon DEF ApplyCommit, LockInv, IndInv
  <2>3. ASSUME ~ \E r \in Runners, ok \in BOOLEAN : RunnerAct(r, ok),
               ~ \E p \in Procs : ApplyAct(p)
        PROVE  FALSE
    BY <2>3, NextSplit, Zenon DEF ReportChanges, HostRetired, HostDeleted, UpdateSettings, ResyncAll,
       IntervalPasses, freshReport, ResyncDevice, vars, devices
  <2> QED
    BY <2>1, <2>2, <2>3, Zenon
<1> QED
  BY <1>1, HostSyncInvariance, PTL DEF Spec, NoChangeAfterDisable
=============================================================================
