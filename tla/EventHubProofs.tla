--------------------------- MODULE EventHubProofs ---------------------------
(***************************************************************************)
(* The counters, and the theorems about EventHub: any tenants, users,      *)
(* connections and limits, any number of events and any interleaving of    *)
(* publishers, loops, replays and writers.                                 *)
(***************************************************************************)
EXTENDS EventHubSteps, FiniteSetTheorems

\* Registering and unregistering count exactly.
LEMMA CountersKept ==
    ASSUME RegTypeOK, CountersExact, NEW s \in Conns, NEW a \in Streams, NEW c \in Users
    PROVE  /\ (s \notin conns /\ conns' = conns \cup {s} /\ who' = [who EXCEPT ![s] = <<a, c>>]
                  /\ byUser' = [byUser EXCEPT ![a][c] = @ + 1]) => CountersExact'
           /\ (s \in conns /\ who[s] = <<a, c>> /\ conns' = conns \ {s} /\ who' = who
                  /\ byUser' = [byUser EXCEPT ![a][c] = @ - 1]) => CountersExact'
<1>1. \A t \in Streams, u \in Users :
        IsFiniteSet(Holders(t, u)) /\ byUser[t][u] = Cardinality(Holders(t, u)) /\ Cardinality(Holders(t, u)) \in Nat
  <2> SUFFICES ASSUME NEW t \in Streams, NEW u \in Users
               PROVE IsFiniteSet(Holders(t, u)) /\ byUser[t][u] = Cardinality(Holders(t, u)) /\ Cardinality(Holders(t, u)) \in Nat
      OBVIOUS
  <2>1. Holders(t, u) \subseteq Conns
      BY Zenon DEF Holders, RegTypeOK
  <2>2. IsFiniteSet(Holders(t, u))
      BY <2>1, HubAssumption, FS_Subset, Zenon DEF HubAssumption
  <2>3. QED
      BY <2>2, FS_CardinalityType, Zenon DEF CountersExact, Holders
<1>2. ASSUME s \notin conns, conns' = conns \cup {s}, who' = [who EXCEPT ![s] = <<a, c>>], byUser' = [byUser EXCEPT ![a][c] = @ + 1]
      PROVE CountersExact'
  <2> SUFFICES ASSUME NEW t \in Streams, NEW u \in Users
               PROVE byUser'[t][u] = Cardinality(Holders(t, u)')
      BY Zenon DEF CountersExact, Holders
  <2>1. CASE t = a /\ u = c
    <3>1. Holders(t, u)' = Holders(t, u) \cup {s} /\ s \notin Holders(t, u)
        BY <1>2, <2>1, Zenon DEF Holders, RegTypeOK
    <3>2. Cardinality(Holders(t, u)') = Cardinality(Holders(t, u)) + 1
        BY <1>1, <3>1, FS_AddElement, Zenon
    <3>3. byUser'[t][u] = byUser[t][u] + 1
        BY <1>2, <2>1, Zenon DEF RegTypeOK
    <3>4. QED
        BY <1>1, <3>2, <3>3, Zenon
  <2>2. CASE ~(t = a /\ u = c)
    <3>1. Holders(t, u)' = Holders(t, u)
        BY <1>2, <2>2, Zenon DEF Holders, RegTypeOK
    <3>2. byUser'[t][u] = byUser[t][u]
        BY <1>2, <2>2, Zenon DEF RegTypeOK
    <3>3. QED
        BY <1>1, <3>1, <3>2, Zenon
  <2>3. QED
      BY <2>1, <2>2, Zenon
<1>3. ASSUME s \in conns, who[s] = <<a, c>>, conns' = conns \ {s}, who' = who, byUser' = [byUser EXCEPT ![a][c] = @ - 1]
      PROVE CountersExact'
  <2> SUFFICES ASSUME NEW t \in Streams, NEW u \in Users
               PROVE byUser'[t][u] = Cardinality(Holders(t, u)')
      BY Zenon DEF CountersExact, Holders
  <2>1. CASE t = a /\ u = c
    <3>1. Holders(t, u)' = Holders(t, u) \ {s} /\ s \in Holders(t, u)
        BY <1>3, <2>1, Zenon DEF Holders, RegTypeOK
    <3>2. Cardinality(Holders(t, u)') = Cardinality(Holders(t, u)) - 1
        BY <1>1, <3>1, FS_RemoveElement, Zenon
    <3>3. byUser'[t][u] = byUser[t][u] - 1
        BY <1>3, <2>1, Zenon DEF RegTypeOK
    <3>4. QED
        BY <1>1, <3>2, <3>3, Zenon
  <2>2. CASE ~(t = a /\ u = c)
    <3>1. Holders(t, u)' = Holders(t, u)
        BY <1>3, <2>2 DEF Holders, RegTypeOK
    <3>2. byUser'[t][u] = byUser[t][u]
        BY <1>3, <2>2, Zenon DEF RegTypeOK
    <3>3. QED
        BY <1>1, <3>1, <3>2, Zenon
  <2>3. QED
      BY <2>1, <2>2, Zenon
<1>4. QED
    BY <1>2, <1>3, Zenon

\* Every step keeps the counters exact.
LEMMA CountersStep ==
    LoopTypeOK /\ RegTypeOK /\ ConnTypeOK /\ StreamTypeOK /\ Wired /\ CountersExact /\ [HubNext]_hubVars => CountersExact'
<1> SUFFICES ASSUME LoopTypeOK, RegTypeOK, ConnTypeOK, StreamTypeOK, Wired, CountersExact, [HubNext]_hubVars PROVE CountersExact'
    OBVIOUS
<1>1. ASSUME NEW t \in Streams, NEW to \in SUBSET Users, PublishID(t, to) PROVE CountersExact'
  <2>1. UNCHANGED <<conns, byUser, who>>
      BY <1>1, Zenon DEF PublishID, regVars
  <2>2. QED
      BY <2>1, Zenon DEF CountersExact
<1>2. ASSUME NEW t \in Streams, Age(t) PROVE CountersExact'
  <2>1. UNCHANGED <<conns, byUser, who>>
      BY <1>2, Zenon DEF Age, regVars
  <2>2. QED
      BY <2>1, Zenon DEF CountersExact
<1>3. ASSUME NEW t \in Streams, Trim(t) PROVE CountersExact'
  <2>1. UNCHANGED <<conns, byUser, who>>
      BY <1>3, Zenon DEF Trim, regVars
  <2>2. QED
      BY <2>1, Zenon DEF CountersExact
<1>4. ASSUME NEW t \in Streams, XRead(t) PROVE CountersExact'
  <2>1. UNCHANGED <<conns, byUser, who>>
      BY <1>4, Zenon DEF XRead, regVars
  <2>2. QED
      BY <2>1, Zenon DEF CountersExact
<1>5. ASSUME NEW t \in Streams, Collect(t) PROVE CountersExact'
  <2>1. UNCHANGED <<conns, byUser, who>>
      BY <1>5, Zenon DEF Collect, regVars
  <2>2. QED
      BY <2>1, Zenon DEF CountersExact
<1>6. ASSUME NEW t \in Streams, NEW s \in fan[t], PushLive(t, s) PROVE CountersExact'
  <2>1. UNCHANGED <<conns, byUser, who>>
      BY <1>6, Zenon DEF PushLive, regVars
  <2>2. QED
      BY <2>1, Zenon DEF CountersExact
<1>7. ASSUME NEW s \in Conns, NEW t \in Streams, NEW u \in Users, NEW id \in 0 .. Len(log[t]), Subscribe(s, t, u, id) PROVE CountersExact'
  <2>1. s \notin conns
      BY <1>7, Zenon DEF Subscribe, Wired
  <2>2. conns' = conns \cup {s} /\ who' = [who EXCEPT ![s] = <<t, u>>] /\ byUser' = [byUser EXCEPT ![t][u] = @ + 1]
      BY <1>7, Zenon DEF Subscribe
  <2>3. QED
      BY <2>1, <2>2, CountersKept, Zenon
<1>8. ASSUME NEW s \in Conns, NEW t \in Streams, NEW u \in Users, SubscribeRefused(s, t, u) PROVE CountersExact'
  <2>1. UNCHANGED <<conns, byUser, who>>
      BY <1>8, Zenon DEF SubscribeRefused, regVars
  <2>2. QED
      BY <2>1, Zenon DEF CountersExact
<1>9. ASSUME NEW s \in Conns, ReplayReset(s) PROVE CountersExact'
  <2>1. UNCHANGED <<conns, byUser, who>>
      BY <1>9, Zenon DEF ReplayReset, regVars
  <2>2. QED
      BY <2>1, Zenon DEF CountersExact
<1>10. ASSUME NEW s \in Conns, ReplayRead(s) PROVE CountersExact'
  <2>1. UNCHANGED <<conns, byUser, who>>
      BY <1>10, Zenon DEF ReplayRead, regVars
  <2>2. QED
      BY <2>1, Zenon DEF CountersExact
<1>11. ASSUME NEW s \in Conns, ReplayPush(s) PROVE CountersExact'
  <2>1. UNCHANGED <<conns, byUser, who>>
      BY <1>11, Zenon DEF ReplayPush, regVars
  <2>2. QED
      BY <2>1, Zenon DEF CountersExact
<1>12. ASSUME NEW s \in Conns, ReplayDone(s) PROVE CountersExact'
  <2>1. UNCHANGED <<conns, byUser, who>>
      BY <1>12, Zenon DEF ReplayDone, regVars
  <2>2. QED
      BY <2>1, Zenon DEF CountersExact
<1>13. ASSUME NEW s \in Conns, Deliver(s) PROVE CountersExact'
  <2>1. UNCHANGED <<conns, byUser, who>>
      BY <1>13, Zenon DEF Deliver, regVars
  <2>2. QED
      BY <2>1, Zenon DEF CountersExact
<1>14. ASSUME NEW s \in Conns, Leave(s) PROVE CountersExact'
  <2>1. Close(s) /\ UNCHANGED who
      BY <1>14, Zenon DEF Leave
  <2>2. CASE s \notin conns
    <3>1. UNCHANGED <<conns, byUser, who>>
        BY <2>1, <2>2, Zenon DEF Close
    <3>2. QED
        BY <3>1, Zenon DEF CountersExact
  <2>3. CASE s \in conns
    <3>1. PICK a \in Streams, c \in Users : who[s] = <<a, c>>
        BY <2>3 DEF Wired
    <3>2. conns' = conns \ {s} /\ byUser' = [byUser EXCEPT ![a][c] = @ - 1]
        BY <2>1, <2>3, <3>1 DEF Close
    <3>3. QED
        BY <2>1, <2>3, <3>1, <3>2, CountersKept, Zenon
  <2>4. QED
      BY <2>2, <2>3, Zenon
<1>15. ASSUME NEW s \in Conns, CloseOne(s) PROVE CountersExact'
  <2>1. Close(s) /\ UNCHANGED who
      BY <1>15 DEF CloseOne
  <2>2. CASE s \notin conns
    <3>1. UNCHANGED <<conns, byUser, who>>
        BY <2>1, <2>2, Zenon DEF Close
    <3>2. QED
        BY <3>1, Zenon DEF CountersExact
  <2>3. CASE s \in conns
    <3>1. PICK a \in Streams, c \in Users : who[s] = <<a, c>>
        BY <2>3 DEF Wired
    <3>2. conns' = conns \ {s} /\ byUser' = [byUser EXCEPT ![a][c] = @ - 1]
        BY <2>1, <2>3, <3>1 DEF Close
    <3>3. QED
        BY <2>1, <2>3, <3>1, <3>2, CountersKept, Zenon
  <2>4. QED
      BY <2>2, <2>3, Zenon
<1>16. ASSUME NEW s \in Conns, CloseStalled(s) PROVE CountersExact'
  <2>1. Close(s) /\ UNCHANGED who
      BY <1>16 DEF CloseStalled
  <2>2. CASE s \notin conns
    <3>1. UNCHANGED <<conns, byUser, who>>
        BY <2>1, <2>2, Zenon DEF Close
    <3>2. QED
        BY <3>1, Zenon DEF CountersExact
  <2>3. CASE s \in conns
    <3>1. PICK a \in Streams, c \in Users : who[s] = <<a, c>>
        BY <2>3 DEF Wired
    <3>2. conns' = conns \ {s} /\ byUser' = [byUser EXCEPT ![a][c] = @ - 1]
        BY <2>1, <2>3, <3>1 DEF Close
    <3>3. QED
        BY <2>1, <2>3, <3>1, <3>2, CountersKept, Zenon
  <2>4. QED
      BY <2>2, <2>3, Zenon
<1>17. ASSUME HubClose PROVE CountersExact'
  <2>1. UNCHANGED <<conns, byUser, who>>
      BY <1>17, Zenon DEF HubClose, regVars
  <2>2. QED
      BY <2>1, Zenon DEF CountersExact
<1>18. ASSUME UNCHANGED hubVars PROVE CountersExact'
    BY <1>18, Zenon DEF streamVars, loopVars, regVars, connVars, hubVars, CountersExact
<1>q. QED
    BY <1>1, <1>2, <1>3, <1>4, <1>5, <1>6, <1>7, <1>8, <1>9, <1>10, <1>11, <1>12, <1>13, <1>14, <1>15, <1>16, <1>17, <1>18, Zenon DEF HubNext, ConnStep, LoopStep, Open

\* The inductive invariant: the types, the wiring of connections to tenants, the bounds
\* of every position, the loop's account of its stream, and per connection its order,
\* its counters and what it has been given.
HubInv ==
  /\ StreamTypeOK /\ LoopTypeOK /\ RegTypeOK /\ ConnTypeOK /\ Wired
  /\ SentUpToLast /\ InOrder /\ CountersExact /\ Bounds /\ LoopInv /\ Tracked

\* The hub starts in the invariant.
LEMMA HubInvInit == HubInit => HubInv
<1> SUFFICES ASSUME HubInit PROVE HubInv
    OBVIOUS
<1>1. StreamTypeOK /\ LoopTypeOK /\ RegTypeOK /\ ConnTypeOK
  <2>1. StreamTypeOK
      BY DEF HubInit, StreamTypeOK
  <2>2. LoopTypeOK
      BY DEF HubInit, LoopTypeOK
  <2>3. RegTypeOK
    <3>1. byUser \in [Streams -> [Users -> Int]]
        BY DEF HubInit
    <3>2. who \in [Conns -> (Streams \X Users) \cup {<<>>}]
        BY Zenon DEF HubInit
    <3>3. conns \subseteq Conns /\ shut \in BOOLEAN
        BY Zenon DEF HubInit
    <3>4. from \in [Conns -> Nat]
        BY Zenon DEF HubInit
    <3>5. QED
        BY <3>1, <3>2, <3>3, <3>4, Zenon DEF RegTypeOK
  <2>4. ConnTypeOK
      BY DEF HubInit, ConnTypeOK
  <2>5. QED
      BY <2>1, <2>2, <2>3, <2>4, Zenon
<1>2. Wired /\ SentUpToLast /\ InOrder
    BY DEF HubInit, Wired, SentUpToLast, InOrder
<1>3. CountersExact
  <2> SUFFICES ASSUME NEW t \in Streams, NEW u \in Users PROVE byUser[t][u] = Cardinality({s \in conns : who[s] = <<t, u>>})
      BY Zenon DEF CountersExact
  <2>1. {s \in conns : who[s] = <<t, u>>} = {} /\ byUser[t][u] = 0
      BY Zenon DEF HubInit
  <2>2. QED
      BY <2>1, FS_EmptySet, Zenon
<1>4. Bounds
    BY DEF HubInit, Bounds, StreamBounds, ConnBounds
<1>5. LoopInv
    BY DEF HubInit, LoopInv, LoopOk
<1>6. Tracked
    BY Zenon DEF HubInit, Tracked, FollowsOk, MissOk
<1>7. QED
    BY <1>1, <1>2, <1>3, <1>4, <1>5, <1>6, Zenon DEF HubInv

\* Every step of the hub keeps the invariant.
LEMMA HubInvStep == HubInv /\ [HubNext]_hubVars => HubInv'
<1> SUFFICES ASSUME HubInv, [HubNext]_hubVars PROVE HubInv'
    OBVIOUS
<1>0. StreamTypeOK /\ LoopTypeOK /\ RegTypeOK /\ ConnTypeOK /\ Wired /\ SentUpToLast /\ InOrder /\ CountersExact /\ Bounds /\ LoopInv /\ Tracked
    BY Zenon DEF HubInv
<1>1. StreamTypeOK' /\ LoopTypeOK' /\ RegTypeOK' /\ ConnTypeOK' /\ Wired'
    BY <1>0, StreamTypeStep, LoopTypeStep, RegTypeStep, ConnTypeStep, WiredStep, Zenon
<1>2. SentUpToLast' /\ InOrder' /\ CountersExact'
    BY <1>0, OrderStep, CountersStep, Zenon
<1>3. (\A t \in Streams : StreamBounds(t))' /\ (\A s \in Conns : ConnBounds(s))' /\ (\A t \in Streams : LoopOk(t))'
    BY <1>0, StreamBoundsStep, ConnBoundsStep, LoopInvStep, Zenon
<1>4. (\A s \in Conns : FollowsOk(s))' /\ (\A s \in Conns : MissOk(s))'
    BY <1>0, FollowsStep, MissStep, Zenon
<1>5. Bounds' /\ LoopInv' /\ Tracked'
    BY <1>3, <1>4, Zenon DEF Bounds, LoopInv, Tracked
<1>6. QED
    BY <1>1, <1>2, <1>5, Zenon DEF HubInv

\* The invariant says what each property says.
LEMMA HubInvImplies == HubInv => HubTypeOK /\ InOrder /\ CountersExact /\ NothingMissed
<1> SUFFICES ASSUME HubInv PROVE HubTypeOK /\ InOrder /\ CountersExact /\ NothingMissed
    OBVIOUS
<1>1. HubTypeOK /\ InOrder /\ CountersExact
    BY Zenon DEF HubInv, HubTypeOK
<1>2. NothingMissed
  <2> SUFFICES ASSUME NEW s \in conns \ doomed, phase[s] = "open", NEW id \in since[s] + 1 .. pos[who[s][1]]
               PROVE  \/ id \in lost[who[s][1]] \/ ~targets(log[who[s][1]][id], who[s][2])
                      \/ cur[who[s][1]] = id /\ s \in fan[who[s][1]]
                      \/ \E k \in DOMAIN sent[s] : sent[s][k] = id
      BY Zenon DEF NothingMissed
  <2>1. s \in Conns /\ MissOk(s)
      BY Zenon DEF HubInv, RegTypeOK, Tracked
  <2>2. QED
      BY <2>1, Zenon DEF MissOk, Got
<1>3. QED
    BY <1>1, <1>2, Zenon

\* The invariant holds throughout.
THEOREM HubInvHolds == HubSpec => []HubInv
<1>1. QED
    BY HubInvInit, HubInvStep, PTL DEF HubSpec

\* The hub's variables keep their types.
THEOREM HubTypes == HubSpec => []HubTypeOK
<1>1. QED
    BY HubInvHolds, HubInvImplies, PTL

\* Every connection is sent events in stream order without repetition, for any number
\* of connections, users, tenants and events (Subscription.push and its last).
THEOREM DeliveriesInOrder == HubSpec => []InOrder
<1>1. QED
    BY HubInvHolds, HubInvImplies, PTL

\* The per-user counters behind StreamsPerUser equal the open subscriptions, whoever
\* closes a subscription and how often (Subscription.Close).
THEOREM CountersMatch == HubSpec => []CountersExact
<1>1. QED
    BY HubInvHolds, HubInvImplies, PTL

\* Nothing published after Subscribe has returned is skipped on a connection that stays
\* open, whatever the buffer size, the limits and the interleaving of the loop with
\* replays (Hub.Subscribe, Hub.dispatch).
THEOREM LiveEventsArrive == HubSpec => []NothingMissed
<1>1. QED
    BY HubInvHolds, HubInvImplies, PTL
=============================================================================
