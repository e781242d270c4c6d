--------------------------- MODULE EventHubSteps ----------------------------
(***************************************************************************)
(* The parts of EventHub's inductive invariant, and for each of its types, *)
(* the wiring, the order, the bounds and the positions that every step     *)
(* keeps it.                                                               *)
(***************************************************************************)
EXTENDS EventHub, TLAPS

\* A connection that is, or is being, subscribed knows its tenant and user; a
\* fan-out goes to connections of its tenant.
Wired ==
  /\ \A s \in Conns : phase[s] = "idle" => s \notin conns
  /\ \A s \in Conns : s \in conns \/ phase[s] \in {"replay", "pushing", "open"} => who[s] \in Streams \X Users
  /\ \A t \in Streams : \A s \in fan[t] : who[s] \in Streams \X Users /\ who[s][1] = t /\ phase[s] # "idle"

\* Nothing was sent beyond last.
SentUpToLast == \A s \in Conns : \A k \in DOMAIN sent[s] : sent[s][k] <= last[s]

\* Every position lies within its stream.
StreamBounds(t) ==
  /\ aged[t] <= Len(log[t]) /\ low[t] <= Len(log[t]) /\ pos[t] <= Len(log[t])
  /\ \A k \in batch[t] : pos[t] < k /\ k <= Len(log[t])

ConnBounds(s) ==
  /\ phase[s] = "idle" => last[s] = 0 /\ since[s] = 0 /\ todo[s] = {}
  /\ who[s] \in Streams \X Users =>
       /\ last[s] <= Len(log[who[s][1]]) /\ since[s] <= Len(log[who[s][1]])
       /\ \A k \in todo[s] : k <= Len(log[who[s][1]])

Bounds == (\A t \in Streams : StreamBounds(t)) /\ (\A s \in Conns : ConnBounds(s))

\* A tenant with connections has a loop; the loop has passed over, or has in hand,
\* everything up to its batch that was not trimmed away before it.
LoopOk(t) ==
  /\ pos[t] < 0 => (batch[t] = {} /\ cur[t] = 0 /\ fan[t] = {})
  /\ cur[t] = 0 => fan[t] = {}
  /\ cur[t] # 0 => cur[t] = pos[t]
  /\ \A s \in conns : who[s][1] = t => pos[t] >= 0
  /\ pos[t] >= 0 => \A id \in Nat : (pos[t] < id /\ (id <= low[t] \/ \E k \in batch[t] : id < k)) => id \in batch[t] \cup lost[t]

LoopInv == \A t \in Streams : LoopOk(t)

\* On an opened connection last is where the replay or the loop has been; what the
\* loop is about to push is new to it.
FollowsOk(s) ==
  (s \in conns /\ phase[s] = "open") =>
    /\ last[s] <= since[s] \/ last[s] <= pos[who[s][1]]
    /\ s \in fan[who[s][1]] => (cur[who[s][1]] <= since[s] \/ last[s] < cur[who[s][1]])

\* NothingMissed for one connection.
Got(s, id) == \E k \in DOMAIN sent[s] : sent[s][k] = id

MissOk(s) ==
  (s \in conns /\ s \notin doomed /\ phase[s] = "open") =>
    \A id \in since[s] + 1 .. pos[who[s][1]] :
      \/ id \in lost[who[s][1]] \/ ~targets(log[who[s][1]][id], who[s][2])
      \/ cur[who[s][1]] = id /\ s \in fan[who[s][1]]
      \/ Got(s, id)

Tracked == \A s \in Conns : FollowsOk(s) /\ MissOk(s)

\* What one push does to its connection: nothing, or last moves to the id and the id
\* is queued unless the channel is full.
LEMMA PushEffect ==
    ASSUME ConnTypeOK, NEW s \in Conns, NEW id \in Nat, Push(s, id)
    PROVE  /\ last' \in [Conns -> Nat] /\ sent' \in [Conns -> Seq(Nat)]
           /\ \A z \in Conns : z # s => last'[z] = last[z] /\ sent'[z] = sent[z]
           /\ Skips(s, id) => last'[s] = last[s] /\ sent'[s] = sent[s]
           /\ ~Skips(s, id) => /\ last'[s] = IF id = 0 THEN last[s] ELSE id
                               /\ sent'[s] = IF Full(s) THEN sent[s] ELSE Append(sent[s], id)
<1>1. CASE Skips(s, id)
    BY <1>1, Zenon DEF Push, ConnTypeOK
<1>2. CASE ~Skips(s, id)
  <2>1. last' \in [Conns -> Nat] /\ last'[s] = (IF id = 0 THEN last[s] ELSE id) /\ \A z \in Conns : z # s => last'[z] = last[z]
      BY <1>2, Zenon DEF Push, ConnTypeOK
  <2>2. Append(sent[s], id) \in Seq(Nat)
      BY DEF ConnTypeOK
  <2>3. sent' = IF Full(s) THEN sent ELSE [sent EXCEPT ![s] = Append(@, id)]
      BY <1>2, Zenon DEF Push
  <2>4. sent' \in [Conns -> Seq(Nat)] /\ sent'[s] = (IF Full(s) THEN sent[s] ELSE Append(sent[s], id))
                                      /\ \A z \in Conns : z # s => sent'[z] = sent[z]
      BY <2>2, <2>3, Zenon DEF ConnTypeOK
  <2>5. QED
      BY <1>2, <2>1, <2>4, Zenon
<1>3. QED
    BY <1>1, <1>2, Zenon

\* What closing a connection does: it is unregistered once, and the loop of the tenant
\* stops with its last connection.
LEMMA CloseEffect ==
    ASSUME LoopTypeOK, RegTypeOK, Wired, NEW s \in Conns, Close(s)
    PROVE  /\ conns' = conns \ {s}
           /\ pos' \in [Streams -> Int] /\ batch' \in [Streams -> SUBSET (Nat \ {0})] /\ cur' \in [Streams -> Nat]
           /\ fan' \in [Streams -> SUBSET Conns] /\ byUser' \in [Streams -> [Users -> Int]]
           /\ \A t \in Streams :
                \/ pos'[t] = pos[t] /\ batch'[t] = batch[t] /\ cur'[t] = cur[t] /\ fan'[t] = fan[t]
                \/ pos'[t] = -1 /\ batch'[t] = {} /\ cur'[t] = 0 /\ fan'[t] = {} /\ \A z \in conns' : who[z][1] # t
           /\ s \notin conns => byUser' = byUser
           /\ s \in conns => byUser' = [byUser EXCEPT ![who[s][1]][who[s][2]] = @ - 1]
<1>1. CASE s \notin conns
    BY <1>1, Zenon DEF Close, LoopTypeOK, RegTypeOK
<1>2. CASE s \in conns
  <2> DEFINE t == who[s][1]
             g == Of(t) = {s}
  <2>1. who[s] \in Streams \X Users /\ t \in Streams /\ who[s][2] \in Users
      BY <1>2, Zenon DEF Wired
  <2>2. /\ conns' = conns \ {s}
        /\ byUser' = [byUser EXCEPT ![t][who[s][2]] = @ - 1]
        /\ pos' = IF g THEN [pos EXCEPT ![t] = -1] ELSE pos
        /\ batch' = IF g THEN [batch EXCEPT ![t] = {}] ELSE batch
        /\ cur' = IF g THEN [cur EXCEPT ![t] = 0] ELSE cur
        /\ fan' = IF g THEN [fan EXCEPT ![t] = {}] ELSE fan
      BY <1>2, Zenon DEF Close
  <2>3. g => \A z \in conns \ {s} : who[z][1] # t
      BY Zenon DEF Of
  <2>4. byUser' \in [Streams -> [Users -> Int]]
      BY <2>1, <2>2 DEF RegTypeOK
  <2> HIDE DEF g, t
  <2>5. CASE g
      BY <1>2, <2>1, <2>2, <2>3, <2>4, <2>5 DEF LoopTypeOK, t
  <2>6. CASE ~g
      BY <1>2, <2>1, <2>2, <2>4, <2>6, Zenon DEF LoopTypeOK, t
  <2>7. QED
      BY <2>5, <2>6, Zenon
<1>3. QED
    BY <1>1, <1>2, Zenon

\* Every step keeps the types of this group of variables.
LEMMA StreamTypeStep ==
    StreamTypeOK /\ LoopTypeOK /\ RegTypeOK /\ ConnTypeOK /\ Wired /\ [HubNext]_hubVars => StreamTypeOK'
<1> SUFFICES ASSUME StreamTypeOK, LoopTypeOK, RegTypeOK, ConnTypeOK, Wired, [HubNext]_hubVars PROVE StreamTypeOK'
    OBVIOUS
<1> USE DEF StreamTypeOK
<1>1. ASSUME NEW t \in Streams, NEW to \in SUBSET Users, PublishID(t, to) PROVE StreamTypeOK'
  <2>1. log' = [log EXCEPT ![t] = Append(@, to)] /\ aged' = aged
      BY <1>1, Zenon DEF PublishID, Append1
  <2>2. log' \in [Streams -> Seq(SUBSET Users)]
      BY <2>1
  <2>3. Len(log[t]) + 1 - MaxLen \in Int
      BY HubAssumption
  <2>4. low' \in [Streams -> Nat] /\ lost' \in [Streams -> SUBSET Int]
      BY <1>1, <2>3 DEF PublishID, Append1, TrimTo, larger, LoopTypeOK
  <2>5. QED
      BY <2>1, <2>2, <2>4, Zenon
<1>2. ASSUME NEW t \in Streams, Age(t) PROVE StreamTypeOK'
    BY <1>2 DEF Age, loopVars, regVars, connVars
<1>3. ASSUME NEW t \in Streams, Trim(t) PROVE StreamTypeOK'
    BY <1>3 DEF Trim, Idle, TrimTo, larger, loopVars, regVars, connVars
<1>4. ASSUME NEW t \in Streams, XRead(t) PROVE StreamTypeOK'
    BY <1>4, Zenon DEF XRead, Idle, larger, streamVars, regVars, connVars
<1>5. ASSUME NEW t \in Streams, Collect(t) PROVE StreamTypeOK'
    BY <1>5, Zenon DEF Collect, First, Of, targets, streamVars, regVars, connVars
<1>6. ASSUME NEW t \in Streams, NEW s \in fan[t], PushLive(t, s) PROVE StreamTypeOK'
    BY <1>6, Zenon DEF PushLive, Push, Skips, Full, streamVars, regVars
<1>7. ASSUME NEW s \in Conns, NEW t \in Streams, NEW u \in Users, NEW id \in 0 .. Len(log[t]), Subscribe(s, t, u, id) PROVE StreamTypeOK'
    BY <1>7, Zenon DEF Subscribe, Of, streamVars
<1>8. ASSUME NEW s \in Conns, NEW t \in Streams, NEW u \in Users, SubscribeRefused(s, t, u) PROVE StreamTypeOK'
    BY <1>8, Zenon DEF SubscribeRefused, streamVars, loopVars, regVars
<1>9. ASSUME NEW s \in Conns, ReplayReset(s) PROVE StreamTypeOK'
    BY <1>9, Zenon DEF ReplayReset, Push, Skips, Full, Returned, streamVars, loopVars, regVars
<1>10. ASSUME NEW s \in Conns, ReplayRead(s) PROVE StreamTypeOK'
    BY <1>10, Zenon DEF ReplayRead, Missed, targets, streamVars, loopVars, regVars
<1>11. ASSUME NEW s \in Conns, ReplayPush(s) PROVE StreamTypeOK'
    BY <1>11, Zenon DEF ReplayPush, First, Push, Skips, Full, streamVars, loopVars, regVars
<1>12. ASSUME NEW s \in Conns, ReplayDone(s) PROVE StreamTypeOK'
    BY <1>12, Zenon DEF ReplayDone, Returned, streamVars, loopVars, regVars
<1>13. ASSUME NEW s \in Conns, Deliver(s) PROVE StreamTypeOK'
    BY <1>13, Zenon DEF Deliver, streamVars, loopVars, regVars
<1>14. ASSUME NEW s \in Conns, Leave(s) PROVE StreamTypeOK'
    BY <1>14, Zenon DEF Leave, Close, Of, streamVars
<1>15. ASSUME NEW s \in Conns, CloseOne(s) PROVE StreamTypeOK'
    BY <1>15, Zenon DEF CloseOne, Close, Of, streamVars, connVars
<1>16. ASSUME NEW s \in Conns, CloseStalled(s) PROVE StreamTypeOK'
    BY <1>16, Zenon DEF CloseStalled, Close, Of, streamVars, connVars
<1>17. ASSUME HubClose PROVE StreamTypeOK'
    BY <1>17, Zenon DEF HubClose, streamVars, loopVars, connVars
<1>18. ASSUME UNCHANGED hubVars PROVE StreamTypeOK'
    BY <1>18, Zenon DEF streamVars, loopVars, regVars, connVars, hubVars
<1>q. QED
    BY <1>1, <1>2, <1>3, <1>4, <1>5, <1>6, <1>7, <1>8, <1>9, <1>10, <1>11, <1>12, <1>13, <1>14, <1>15, <1>16, <1>17, <1>18, Zenon DEF HubNext, ConnStep, LoopStep, Open

\* Every step keeps the types of this group of variables.
LEMMA LoopTypeStep ==
    StreamTypeOK /\ LoopTypeOK /\ RegTypeOK /\ ConnTypeOK /\ Wired /\ [HubNext]_hubVars => LoopTypeOK'
<1> SUFFICES ASSUME StreamTypeOK, LoopTypeOK, RegTypeOK, ConnTypeOK, Wired, [HubNext]_hubVars PROVE LoopTypeOK'
    OBVIOUS
<1> USE DEF LoopTypeOK, StreamTypeOK
<1>1. ASSUME NEW t \in Streams, NEW to \in SUBSET Users, PublishID(t, to) PROVE LoopTypeOK'
    BY <1>1, Zenon DEF PublishID, Append1, TrimTo, larger, loopVars, regVars, connVars
<1>2. ASSUME NEW t \in Streams, Age(t) PROVE LoopTypeOK'
    BY <1>2, Zenon DEF Age, loopVars, regVars, connVars
<1>3. ASSUME NEW t \in Streams, Trim(t) PROVE LoopTypeOK'
    BY <1>3, Zenon DEF Trim, Idle, TrimTo, larger, loopVars, regVars, connVars
<1>4. ASSUME NEW t \in Streams, XRead(t) PROVE LoopTypeOK'
    BY <1>4 DEF XRead, Idle, larger, streamVars, regVars, connVars
<1>5. ASSUME NEW t \in Streams, Collect(t) PROVE LoopTypeOK'
  <2>1. PICK id \in batch[t] :
          /\ pos' = [pos EXCEPT ![t] = id] /\ batch' = [batch EXCEPT ![t] = @ \ {id}] /\ UNCHANGED doomed
          /\ fan' = [fan EXCEPT ![t] = {s \in Of(t) : targets(log[t][id], who[s][2])}]
          /\ cur' = [cur EXCEPT ![t] = IF {s \in Of(t) : targets(log[t][id], who[s][2])} = {} THEN 0 ELSE id]
      BY <1>5, Zenon DEF Collect
  <2>2. {s \in Of(t) : targets(log[t][id], who[s][2])} \subseteq Conns
      BY Zenon DEF Of, RegTypeOK
  <2>3. id \in Nat \ {0} /\ id \in Int
      BY <2>1
  <2>4. fan' \in [Streams -> SUBSET Conns]
      BY <2>1, <2>2, Zenon
  <2>5. QED
      BY <2>1, <2>3, <2>4, Zenon
<1>6. ASSUME NEW t \in Streams, NEW s \in fan[t], PushLive(t, s) PROVE LoopTypeOK'
    BY <1>6, Zenon DEF PushLive, Push, Skips, Full, streamVars, regVars
<1>7. ASSUME NEW s \in Conns, NEW t \in Streams, NEW u \in Users, NEW id \in 0 .. Len(log[t]), Subscribe(s, t, u, id) PROVE LoopTypeOK'
    BY <1>7 DEF Subscribe, Of, streamVars
<1>8. ASSUME NEW s \in Conns, NEW t \in Streams, NEW u \in Users, SubscribeRefused(s, t, u) PROVE LoopTypeOK'
    BY <1>8, Zenon DEF SubscribeRefused, streamVars, loopVars, regVars
<1>9. ASSUME NEW s \in Conns, ReplayReset(s) PROVE LoopTypeOK'
    BY <1>9, Zenon DEF ReplayReset, Push, Skips, Full, Returned, streamVars, loopVars, regVars
<1>10. ASSUME NEW s \in Conns, ReplayRead(s) PROVE LoopTypeOK'
    BY <1>10, Zenon DEF ReplayRead, Missed, targets, streamVars, loopVars, regVars
<1>11. ASSUME NEW s \in Conns, ReplayPush(s) PROVE LoopTypeOK'
    BY <1>11, Zenon DEF ReplayPush, First, Push, Skips, Full, streamVars, loopVars, regVars
<1>12. ASSUME NEW s \in Conns, ReplayDone(s) PROVE LoopTypeOK'
    BY <1>12, Zenon DEF ReplayDone, Returned, streamVars, loopVars, regVars
<1>13. ASSUME NEW s \in Conns, Deliver(s) PROVE LoopTypeOK'
    BY <1>13, Zenon DEF Deliver, streamVars, loopVars, regVars
<1>14. ASSUME NEW s \in Conns, Leave(s) PROVE LoopTypeOK'
  <2>1. Close(s) /\ UNCHANGED doomed
      BY <1>14, Zenon DEF Leave, streamVars
  <2>2. QED
      BY <2>1, CloseEffect, Zenon
<1>15. ASSUME NEW s \in Conns, CloseOne(s) PROVE LoopTypeOK'
  <2>1. Close(s) /\ UNCHANGED doomed
      BY <1>15, Zenon DEF CloseOne, streamVars
  <2>2. QED
      BY <2>1, CloseEffect, Zenon
<1>16. ASSUME NEW s \in Conns, CloseStalled(s) PROVE LoopTypeOK'
  <2>1. Close(s) /\ doomed' = doomed \ {s}
      BY <1>16, Zenon DEF CloseStalled
  <2>2. QED
      BY <2>1, CloseEffect, Zenon
<1>17. ASSUME HubClose PROVE LoopTypeOK'
    BY <1>17, Zenon DEF HubClose, streamVars, loopVars, connVars
<1>18. ASSUME UNCHANGED hubVars PROVE LoopTypeOK'
    BY <1>18, Zenon DEF streamVars, loopVars, regVars, connVars, hubVars
<1>q. QED
    BY <1>1, <1>2, <1>3, <1>4, <1>5, <1>6, <1>7, <1>8, <1>9, <1>10, <1>11, <1>12, <1>13, <1>14, <1>15, <1>16, <1>17, <1>18, Zenon DEF HubNext, ConnStep, LoopStep, Open

\* Every step keeps the types of this group of variables.
LEMMA RegTypeStep ==
    StreamTypeOK /\ LoopTypeOK /\ RegTypeOK /\ ConnTypeOK /\ Wired /\ [HubNext]_hubVars => RegTypeOK'
<1> SUFFICES ASSUME StreamTypeOK, LoopTypeOK, RegTypeOK, ConnTypeOK, Wired, [HubNext]_hubVars PROVE RegTypeOK'
    OBVIOUS
<1> USE DEF RegTypeOK, StreamTypeOK
<1>1. ASSUME NEW t \in Streams, NEW to \in SUBSET Users, PublishID(t, to) PROVE RegTypeOK'
    BY <1>1, Zenon DEF PublishID, Append1, TrimTo, larger, loopVars, regVars, connVars
<1>2. ASSUME NEW t \in Streams, Age(t) PROVE RegTypeOK'
    BY <1>2, Zenon DEF Age, loopVars, regVars, connVars
<1>3. ASSUME NEW t \in Streams, Trim(t) PROVE RegTypeOK'
    BY <1>3, Zenon DEF Trim, Idle, TrimTo, larger, loopVars, regVars, connVars
<1>4. ASSUME NEW t \in Streams, XRead(t) PROVE RegTypeOK'
    BY <1>4, Zenon DEF XRead, Idle, larger, streamVars, regVars, connVars
<1>5. ASSUME NEW t \in Streams, Collect(t) PROVE RegTypeOK'
    BY <1>5, Zenon DEF Collect, First, Of, targets, streamVars, regVars, connVars
<1>6. ASSUME NEW t \in Streams, NEW s \in fan[t], PushLive(t, s) PROVE RegTypeOK'
    BY <1>6, Zenon DEF PushLive, Push, Skips, Full, streamVars, regVars
<1>7. ASSUME NEW s \in Conns, NEW t \in Streams, NEW u \in Users, NEW id \in 0 .. Len(log[t]), Subscribe(s, t, u, id) PROVE RegTypeOK'
    BY <1>7 DEF Subscribe, Of, streamVars
<1>8. ASSUME NEW s \in Conns, NEW t \in Streams, NEW u \in Users, SubscribeRefused(s, t, u) PROVE RegTypeOK'
    BY <1>8, Zenon DEF SubscribeRefused, streamVars, loopVars, regVars
<1>9. ASSUME NEW s \in Conns, ReplayReset(s) PROVE RegTypeOK'
    BY <1>9, Zenon DEF ReplayReset, Push, Skips, Full, Returned, streamVars, loopVars, regVars
<1>10. ASSUME NEW s \in Conns, ReplayRead(s) PROVE RegTypeOK'
    BY <1>10, Zenon DEF ReplayRead, Missed, targets, streamVars, loopVars, regVars
<1>11. ASSUME NEW s \in Conns, ReplayPush(s) PROVE RegTypeOK'
    BY <1>11, Zenon DEF ReplayPush, First, Push, Skips, Full, streamVars, loopVars, regVars
<1>12. ASSUME NEW s \in Conns, ReplayDone(s) PROVE RegTypeOK'
    BY <1>12, Zenon DEF ReplayDone, Returned, streamVars, loopVars, regVars
<1>13. ASSUME NEW s \in Conns, Deliver(s) PROVE RegTypeOK'
    BY <1>13, Zenon DEF Deliver, streamVars, loopVars, regVars
<1>14. ASSUME NEW s \in Conns, Leave(s) PROVE RegTypeOK'
  <2>1. Close(s) /\ UNCHANGED <<who, from, shut>>
      BY <1>14, Zenon DEF Leave
  <2>2. QED
      BY <2>1, CloseEffect, Zenon
<1>15. ASSUME NEW s \in Conns, CloseOne(s) PROVE RegTypeOK'
  <2>1. Close(s) /\ UNCHANGED <<who, from, shut>>
      BY <1>15, Zenon DEF CloseOne
  <2>2. QED
      BY <2>1, CloseEffect, Zenon
<1>16. ASSUME NEW s \in Conns, CloseStalled(s) PROVE RegTypeOK'
  <2>1. Close(s) /\ UNCHANGED <<who, from, shut>>
      BY <1>16, Zenon DEF CloseStalled
  <2>2. QED
      BY <2>1, CloseEffect, Zenon
<1>17. ASSUME HubClose PROVE RegTypeOK'
    BY <1>17, Zenon DEF HubClose, streamVars, loopVars, connVars
<1>18. ASSUME UNCHANGED hubVars PROVE RegTypeOK'
    BY <1>18, Zenon DEF streamVars, loopVars, regVars, connVars, hubVars
<1>q. QED
    BY <1>1, <1>2, <1>3, <1>4, <1>5, <1>6, <1>7, <1>8, <1>9, <1>10, <1>11, <1>12, <1>13, <1>14, <1>15, <1>16, <1>17, <1>18, Zenon DEF HubNext, ConnStep, LoopStep, Open

\* Every step keeps the types of this group of variables.
LEMMA ConnTypeStep ==
    StreamTypeOK /\ LoopTypeOK /\ RegTypeOK /\ ConnTypeOK /\ Wired /\ [HubNext]_hubVars => ConnTypeOK'
<1> SUFFICES ASSUME StreamTypeOK, LoopTypeOK, RegTypeOK, ConnTypeOK, Wired, [HubNext]_hubVars PROVE ConnTypeOK'
    OBVIOUS
<1> USE DEF ConnTypeOK, StreamTypeOK, LoopTypeOK, Wired
<1>1. ASSUME NEW t \in Streams, NEW to \in SUBSET Users, PublishID(t, to) PROVE ConnTypeOK'
    BY <1>1, Zenon DEF PublishID, Append1, TrimTo, larger, loopVars, regVars, connVars
<1>2. ASSUME NEW t \in Streams, Age(t) PROVE ConnTypeOK'
    BY <1>2, Zenon DEF Age, loopVars, regVars, connVars
<1>3. ASSUME NEW t \in Streams, Trim(t) PROVE ConnTypeOK'
    BY <1>3, Zenon DEF Trim, Idle, TrimTo, larger, loopVars, regVars, connVars
<1>4. ASSUME NEW t \in Streams, XRead(t) PROVE ConnTypeOK'
    BY <1>4, Zenon DEF XRead, Idle, larger, streamVars, regVars, connVars
<1>5. ASSUME NEW t \in Streams, Collect(t) PROVE ConnTypeOK'
    BY <1>5, Zenon DEF Collect, First, Of, targets, streamVars, regVars, connVars
<1>6. ASSUME NEW t \in Streams, NEW s \in fan[t], PushLive(t, s) PROVE ConnTypeOK'
  <2>1. Push(s, cur[t]) /\ s \in Conns /\ cur[t] \in Nat /\ UNCHANGED <<phase, todo, taken, since, want>>
      BY <1>6, Zenon DEF PushLive
  <2>2. QED
      BY <2>1, PushEffect, Zenon
<1>7. ASSUME NEW s \in Conns, NEW t \in Streams, NEW u \in Users, NEW id \in 0 .. Len(log[t]), Subscribe(s, t, u, id) PROVE ConnTypeOK'
    BY <1>7 DEF Subscribe, Of, streamVars
<1>8. ASSUME NEW s \in Conns, NEW t \in Streams, NEW u \in Users, SubscribeRefused(s, t, u) PROVE ConnTypeOK'
    BY <1>8, Zenon DEF SubscribeRefused, streamVars, loopVars, regVars
<1>9. ASSUME NEW s \in Conns, ReplayReset(s) PROVE ConnTypeOK'
  <2>1. Push(s, 0) /\ UNCHANGED <<todo, taken, want>> /\ phase' = [phase EXCEPT ![s] = "open"]
        /\ since' = [since EXCEPT ![s] = Len(log[who[s][1]])]
      BY <1>9, Zenon DEF ReplayReset, Returned
  <2>2. who[s][1] \in Streams
      BY <1>9, Zenon DEF ReplayReset
  <2>3. since' \in [Conns -> Nat]
      BY <2>1, <2>2
  <2>4. QED
      BY <2>1, <2>3, PushEffect, Zenon
<1>10. ASSUME NEW s \in Conns, ReplayRead(s) PROVE ConnTypeOK'
    BY <1>10, SMTT(30) DEF ReplayRead, Missed, targets, streamVars, loopVars, regVars
<1>11. ASSUME NEW s \in Conns, ReplayPush(s) PROVE ConnTypeOK'
  <2>1. PICK id \in todo[s] : Push(s, id) /\ todo' = [todo EXCEPT ![s] = @ \ {id}]
      BY <1>11, Zenon DEF ReplayPush
  <2>2. id \in Nat /\ UNCHANGED <<phase, taken, since, want>>
      BY <1>11, <2>1, Zenon DEF ReplayPush
  <2>3. QED
      BY <2>1, <2>2, PushEffect, SMTT(30)
<1>12. ASSUME NEW s \in Conns, ReplayDone(s) PROVE ConnTypeOK'
  <2>1. UNCHANGED <<todo, last, sent, taken, want>> /\ phase' = [phase EXCEPT ![s] = "open"]
        /\ since' = [since EXCEPT ![s] = Len(log[who[s][1]])]
      BY <1>12, Zenon DEF ReplayDone, Returned
  <2>2. who[s][1] \in Streams
      BY <1>12, Zenon DEF ReplayDone
  <2>3. since' \in [Conns -> Nat]
      BY <2>1, <2>2
  <2>4. QED
      BY <2>1, <2>3, Zenon
<1>13. ASSUME NEW s \in Conns, Deliver(s) PROVE ConnTypeOK'
    BY <1>13 DEF Deliver, streamVars, loopVars, regVars
<1>14. ASSUME NEW s \in Conns, Leave(s) PROVE ConnTypeOK'
    BY <1>14, Zenon DEF Leave, Close, Of, streamVars
<1>15. ASSUME NEW s \in Conns, CloseOne(s) PROVE ConnTypeOK'
    BY <1>15, Zenon DEF CloseOne, Close, Of, streamVars, connVars
<1>16. ASSUME NEW s \in Conns, CloseStalled(s) PROVE ConnTypeOK'
    BY <1>16, Zenon DEF CloseStalled, Close, Of, streamVars, connVars
<1>17. ASSUME HubClose PROVE ConnTypeOK'
    BY <1>17, Zenon DEF HubClose, streamVars, loopVars, connVars
<1>18. ASSUME UNCHANGED hubVars PROVE ConnTypeOK'
    BY <1>18, Zenon DEF streamVars, loopVars, regVars, connVars, hubVars
<1>q. QED
    BY <1>1, <1>2, <1>3, <1>4, <1>5, <1>6, <1>7, <1>8, <1>9, <1>10, <1>11, <1>12, <1>13, <1>14, <1>15, <1>16, <1>17, <1>18, Zenon DEF HubNext, ConnStep, LoopStep, Open

\* Every step keeps connections wired.
LEMMA WiredStep ==
    LoopTypeOK /\ RegTypeOK /\ ConnTypeOK /\ StreamTypeOK /\ Wired /\ [HubNext]_hubVars => Wired'
<1> SUFFICES ASSUME LoopTypeOK, RegTypeOK, ConnTypeOK, StreamTypeOK, Wired, [HubNext]_hubVars PROVE Wired'
    OBVIOUS
<1> USE DEF LoopTypeOK, RegTypeOK, ConnTypeOK, Wired
<1>1. ASSUME NEW t \in Streams, NEW to \in SUBSET Users, PublishID(t, to) PROVE Wired'
    BY <1>1, Zenon DEF PublishID, Append1, TrimTo, larger, loopVars, regVars, connVars
<1>2. ASSUME NEW t \in Streams, Age(t) PROVE Wired'
    BY <1>2, Zenon DEF Age, loopVars, regVars, connVars
<1>3. ASSUME NEW t \in Streams, Trim(t) PROVE Wired'
    BY <1>3, Zenon DEF Trim, Idle, TrimTo, larger, loopVars, regVars, connVars
<1>4. ASSUME NEW t \in Streams, XRead(t) PROVE Wired'
    BY <1>4, Zenon DEF XRead, Idle, larger, streamVars, regVars, connVars
<1>5. ASSUME NEW t \in Streams, Collect(t) PROVE Wired'
    BY <1>5 DEF Collect, First, Of, targets, streamVars, regVars, connVars
<1>6. ASSUME NEW t \in Streams, NEW s \in fan[t], PushLive(t, s) PROVE Wired'
    BY <1>6, Zenon DEF PushLive, Push, Skips, Full, streamVars, regVars
<1>7. ASSUME NEW s \in Conns, NEW t \in Streams, NEW u \in Users, NEW id \in 0 .. Len(log[t]), Subscribe(s, t, u, id) PROVE Wired'
    BY <1>7, ZenonT(30) DEF Subscribe, Of, streamVars
<1>8. ASSUME NEW s \in Conns, NEW t \in Streams, NEW u \in Users, SubscribeRefused(s, t, u) PROVE Wired'
    BY <1>8 DEF SubscribeRefused, streamVars, loopVars, regVars
<1>9. ASSUME NEW s \in Conns, ReplayReset(s) PROVE Wired'
    BY <1>9 DEF ReplayReset, Push, Skips, Full, Returned, streamVars, loopVars, regVars
<1>10. ASSUME NEW s \in Conns, ReplayRead(s) PROVE Wired'
    BY <1>10 DEF ReplayRead, Missed, targets, streamVars, loopVars, regVars
<1>11. ASSUME NEW s \in Conns, ReplayPush(s) PROVE Wired'
    BY <1>11, Zenon DEF ReplayPush, First, Push, Skips, Full, streamVars, loopVars, regVars
<1>12. ASSUME NEW s \in Conns, ReplayDone(s) PROVE Wired'
    BY <1>12 DEF ReplayDone, Returned, streamVars, loopVars, regVars
<1>13. ASSUME NEW s \in Conns, Deliver(s) PROVE Wired'
    BY <1>13, Zenon DEF Deliver, streamVars, loopVars, regVars
<1>14. ASSUME NEW s \in Conns, Leave(s) PROVE Wired'
  <2>1. Close(s) /\ UNCHANGED who /\ (UNCHANGED phase \/ phase' = [phase EXCEPT ![s] = "ended"])
      BY <1>14, Zenon DEF Leave, connVars
  <2>2. conns' = conns \ {s} /\ \A t \in Streams : fan'[t] \subseteq fan[t]
      BY <2>1, CloseEffect, Zenon
  <2>3. QED
      BY <2>1, <2>2 DEF Wired, ConnTypeOK, LoopTypeOK
<1>15. ASSUME NEW s \in Conns, CloseOne(s) PROVE Wired'
  <2>1. Close(s) /\ UNCHANGED who /\ (UNCHANGED phase \/ phase' = [phase EXCEPT ![s] = "ended"])
      BY <1>15, Zenon DEF CloseOne, connVars
  <2>2. conns' = conns \ {s} /\ \A t \in Streams : fan'[t] \subseteq fan[t]
      BY <2>1, CloseEffect, Zenon
  <2>3. QED
      BY <2>1, <2>2 DEF Wired, ConnTypeOK, LoopTypeOK
<1>16. ASSUME NEW s \in Conns, CloseStalled(s) PROVE Wired'
  <2>1. Close(s) /\ UNCHANGED who /\ (UNCHANGED phase \/ phase' = [phase EXCEPT ![s] = "ended"])
      BY <1>16, Zenon DEF CloseStalled, connVars
  <2>2. conns' = conns \ {s} /\ \A t \in Streams : fan'[t] \subseteq fan[t]
      BY <2>1, CloseEffect, Zenon
  <2>3. QED
      BY <2>1, <2>2 DEF Wired, ConnTypeOK, LoopTypeOK
<1>17. ASSUME HubClose PROVE Wired'
    BY <1>17, Zenon DEF HubClose, streamVars, loopVars, connVars
<1>18. ASSUME UNCHANGED hubVars PROVE Wired'
    BY <1>18, Zenon DEF streamVars, loopVars, regVars, connVars, hubVars
<1>q. QED
    BY <1>1, <1>2, <1>3, <1>4, <1>5, <1>6, <1>7, <1>8, <1>9, <1>10, <1>11, <1>12, <1>13, <1>14, <1>15, <1>16, <1>17, <1>18, Zenon DEF HubNext, ConnStep, LoopStep, Open

\* A push keeps what a connection is sent in order, and within last.
LEMMA PushOrder ==
    ASSUME ConnTypeOK, SentUpToLast, InOrder, RegTypeOK, NEW s \in Conns, NEW id \in Nat, Push(s, id)
    PROVE  SentUpToLast' /\ InOrder'
<1>1. \A z \in Conns : z # s => last'[z] = last[z] /\ sent'[z] = sent[z]
    BY PushEffect, Zenon
<1>2. sent[s] \in Seq(Nat) /\ last[s] \in Nat
    BY Zenon DEF ConnTypeOK
<1>3. CASE sent'[s] = sent[s] /\ last'[s] >= last[s]
  <2>1. last'[s] \in Nat
      BY PushEffect, Zenon
  <2>2. \A k \in DOMAIN sent[s] : sent[s][k] \in Nat /\ sent[s][k] <= last[s]
      BY <1>2 DEF SentUpToLast
  <2>3. \A k \in DOMAIN sent'[s] : sent'[s][k] <= last'[s]
      BY <1>2, <1>3, <2>1, <2>2
  <2>4. SentUpToLast'
      BY <1>1, <2>3, Zenon DEF SentUpToLast
  <2>5. \A z \in Conns : sent'[z] = sent[z]
      BY <1>1, <1>3, Zenon
  <2>6. QED
      BY <2>4, <2>5, Zenon DEF InOrder
<1>4. CASE sent'[s] = Append(sent[s], id) /\ last'[s] = (IF id = 0 THEN last[s] ELSE id) /\ (id # 0 => id > last[s])
  <2>1. /\ DOMAIN sent'[s] = 1 .. Len(sent[s]) + 1 /\ Len(sent[s]) \in Nat
        /\ DOMAIN sent[s] = 1 .. Len(sent[s])
        /\ \A k \in 1 .. Len(sent[s]) : sent'[s][k] = sent[s][k] /\ sent[s][k] \in Nat
        /\ sent'[s][Len(sent[s]) + 1] = id
      BY <1>2, <1>4
  <2>2. \A k \in 1 .. Len(sent[s]) : sent[s][k] <= last[s]
      BY <2>1, Zenon DEF SentUpToLast
  <2>3. \A k \in DOMAIN sent'[s] : sent'[s][k] <= last'[s]
      BY <1>2, <1>4, <2>1, <2>2
  <2>4. \A i, j \in DOMAIN sent'[s] : (i < j /\ sent'[s][i] # 0 /\ sent'[s][j] # 0) => sent'[s][i] < sent'[s][j]
    <3>1. \A i, j \in 1 .. Len(sent[s]) : (i < j /\ sent[s][i] # 0 /\ sent[s][j] # 0) => sent[s][i] < sent[s][j]
        BY <2>1, Zenon DEF InOrder
    <3>2. SUFFICES ASSUME NEW i \in DOMAIN sent'[s], NEW j \in DOMAIN sent'[s], i < j, sent'[s][i] # 0, sent'[s][j] # 0
                   PROVE  sent'[s][i] < sent'[s][j]
        OBVIOUS
    <3>3. CASE j = Len(sent[s]) + 1
        BY <1>2, <1>4, <2>1, <2>2, <3>2, <3>3
    <3>4. CASE j # Len(sent[s]) + 1
      <4>1. i \in 1 .. Len(sent[s]) /\ j \in 1 .. Len(sent[s])
          BY <2>1, <3>2, <3>4
      <4>2. sent'[s][i] = sent[s][i] /\ sent'[s][j] = sent[s][j]
          BY <2>1, <4>1, Zenon
      <4>3. QED
          BY <3>1, <3>2, <4>1, <4>2, Zenon
    <3>5. QED
        BY <3>3, <3>4, Zenon
  <2>5. QED
      BY <1>1, <2>3, <2>4, Zenon DEF SentUpToLast, InOrder
<1>5. CASE Skips(s, id)
    BY <1>2, <1>3, <1>5, PushEffect
<1>6. CASE ~Skips(s, id)
  <2>1. id # 0 => id > last[s]
      BY <1>2, <1>6 DEF Skips
  <2>2. last'[s] = (IF id = 0 THEN last[s] ELSE id) /\ sent'[s] = (IF Full(s) THEN sent[s] ELSE Append(sent[s], id))
      BY <1>6, PushEffect, Zenon
  <2>3. QED
      BY <1>2, <1>3, <1>4, <2>1, <2>2
<1>7. QED
    BY <1>5, <1>6, Zenon

\* Every step keeps the deliveries in order.
LEMMA OrderStep ==
    LoopTypeOK /\ RegTypeOK /\ ConnTypeOK /\ StreamTypeOK /\ Wired /\ SentUpToLast /\ InOrder /\ [HubNext]_hubVars => (SentUpToLast /\ InOrder)'
<1> SUFFICES ASSUME LoopTypeOK, RegTypeOK, ConnTypeOK, StreamTypeOK, Wired, SentUpToLast, InOrder, [HubNext]_hubVars PROVE (SentUpToLast /\ InOrder)'
    OBVIOUS
<1>1. ASSUME NEW t \in Streams, NEW to \in SUBSET Users, PublishID(t, to) PROVE (SentUpToLast /\ InOrder)'
  <2>1. UNCHANGED <<last, sent>>
      BY <1>1, Zenon DEF PublishID, connVars, hubVars
  <2>2. QED
      BY <2>1, Zenon DEF SentUpToLast, InOrder
<1>2. ASSUME NEW t \in Streams, Age(t) PROVE (SentUpToLast /\ InOrder)'
  <2>1. UNCHANGED <<last, sent>>
      BY <1>2, Zenon DEF Age, connVars, hubVars
  <2>2. QED
      BY <2>1, Zenon DEF SentUpToLast, InOrder
<1>3. ASSUME NEW t \in Streams, Trim(t) PROVE (SentUpToLast /\ InOrder)'
  <2>1. UNCHANGED <<last, sent>>
      BY <1>3, Zenon DEF Trim, connVars, hubVars
  <2>2. QED
      BY <2>1, Zenon DEF SentUpToLast, InOrder
<1>4. ASSUME NEW t \in Streams, XRead(t) PROVE (SentUpToLast /\ InOrder)'
  <2>1. UNCHANGED <<last, sent>>
      BY <1>4, Zenon DEF XRead, connVars, hubVars
  <2>2. QED
      BY <2>1, Zenon DEF SentUpToLast, InOrder
<1>5. ASSUME NEW t \in Streams, Collect(t) PROVE (SentUpToLast /\ InOrder)'
  <2>1. UNCHANGED <<last, sent>>
      BY <1>5, Zenon DEF Collect, connVars, hubVars
  <2>2. QED
      BY <2>1, Zenon DEF SentUpToLast, InOrder
<1>6. ASSUME NEW t \in Streams, NEW s \in fan[t], PushLive(t, s) PROVE (SentUpToLast /\ InOrder)'
  <2>1. Push(s, cur[t]) /\ s \in Conns /\ cur[t] \in Nat
      BY <1>6, Zenon DEF PushLive, LoopTypeOK
  <2>2. QED
      BY <2>1, PushOrder, Zenon
<1>7. ASSUME NEW s \in Conns, NEW t \in Streams, NEW u \in Users, NEW id \in 0 .. Len(log[t]), Subscribe(s, t, u, id) PROVE (SentUpToLast /\ InOrder)'
  <2>1. UNCHANGED <<last, sent>>
      BY <1>7, Zenon DEF Subscribe, connVars, hubVars
  <2>2. QED
      BY <2>1, Zenon DEF SentUpToLast, InOrder
<1>8. ASSUME NEW s \in Conns, NEW t \in Streams, NEW u \in Users, SubscribeRefused(s, t, u) PROVE (SentUpToLast /\ InOrder)'
  <2>1. UNCHANGED <<last, sent>>
      BY <1>8, Zenon DEF SubscribeRefused, connVars, hubVars
  <2>2. QED
      BY <2>1, Zenon DEF SentUpToLast, InOrder
<1>9. ASSUME NEW s \in Conns, ReplayReset(s) PROVE (SentUpToLast /\ InOrder)'
  <2>1. Push(s, 0)
      BY <1>9, Zenon DEF ReplayReset
  <2>2. QED
      BY <2>1, PushOrder, Zenon
<1>10. ASSUME NEW s \in Conns, ReplayRead(s) PROVE (SentUpToLast /\ InOrder)'
  <2>1. UNCHANGED <<last, sent>>
      BY <1>10, Zenon DEF ReplayRead, connVars, hubVars
  <2>2. QED
      BY <2>1, Zenon DEF SentUpToLast, InOrder
<1>11. ASSUME NEW s \in Conns, ReplayPush(s) PROVE (SentUpToLast /\ InOrder)'
  <2>1. PICK id \in todo[s] : Push(s, id)
      BY <1>11, Zenon DEF ReplayPush
  <2>2. id \in Nat
      BY <2>1, Zenon DEF ConnTypeOK
  <2>3. QED
      BY <2>1, <2>2, PushOrder, Zenon
<1>12. ASSUME NEW s \in Conns, ReplayDone(s) PROVE (SentUpToLast /\ InOrder)'
  <2>1. UNCHANGED <<last, sent>>
      BY <1>12, Zenon DEF ReplayDone, connVars, hubVars
  <2>2. QED
      BY <2>1, Zenon DEF SentUpToLast, InOrder
<1>13. ASSUME NEW s \in Conns, Deliver(s) PROVE (SentUpToLast /\ InOrder)'
  <2>1. UNCHANGED <<last, sent>>
      BY <1>13, Zenon DEF Deliver, connVars, hubVars
  <2>2. QED
      BY <2>1, Zenon DEF SentUpToLast, InOrder
<1>14. ASSUME NEW s \in Conns, Leave(s) PROVE (SentUpToLast /\ InOrder)'
  <2>1. UNCHANGED <<last, sent>>
      BY <1>14, Zenon DEF Leave, connVars, hubVars
  <2>2. QED
      BY <2>1, Zenon DEF SentUpToLast, InOrder
<1>15. ASSUME NEW s \in Conns, CloseOne(s) PROVE (SentUpToLast /\ InOrder)'
  <2>1. UNCHANGED <<last, sent>>
      BY <1>15, Zenon DEF CloseOne, connVars, hubVars
  <2>2. QED
      BY <2>1, Zenon DEF SentUpToLast, InOrder
<1>16. ASSUME NEW s \in Conns, CloseStalled(s) PROVE (SentUpToLast /\ InOrder)'
  <2>1. UNCHANGED <<last, sent>>
      BY <1>16, Zenon DEF CloseStalled, connVars, hubVars
  <2>2. QED
      BY <2>1, Zenon DEF SentUpToLast, InOrder
<1>17. ASSUME HubClose PROVE (SentUpToLast /\ InOrder)'
  <2>1. UNCHANGED <<last, sent>>
      BY <1>17, Zenon DEF HubClose, connVars, hubVars
  <2>2. QED
      BY <2>1, Zenon DEF SentUpToLast, InOrder
<1>18. ASSUME UNCHANGED hubVars PROVE (SentUpToLast /\ InOrder)'
    BY <1>18, Zenon DEF streamVars, loopVars, regVars, connVars, hubVars, SentUpToLast, InOrder
<1>q. QED
    BY <1>1, <1>2, <1>3, <1>4, <1>5, <1>6, <1>7, <1>8, <1>9, <1>10, <1>11, <1>12, <1>13, <1>14, <1>15, <1>16, <1>17, <1>18, Zenon DEF HubNext, ConnStep, LoopStep, Open

Holders(t, u) == {s \in conns : who[s] = <<t, u>>}

\* Every step keeps the positions of a stream within it.
LEMMA StreamBoundsStep ==
    LoopTypeOK /\ RegTypeOK /\ ConnTypeOK /\ StreamTypeOK /\ Wired /\ Bounds /\ LoopInv /\ [HubNext]_hubVars => (\A x \in Streams : StreamBounds(x))'
<1> SUFFICES ASSUME LoopTypeOK, RegTypeOK, ConnTypeOK, StreamTypeOK, Wired, Bounds, LoopInv, [HubNext]_hubVars, NEW x \in Streams PROVE StreamBounds(x)'
    OBVIOUS
<1>t. log[x] \in Seq(SUBSET Users) /\ Len(log[x]) \in Nat /\ low[x] \in Nat /\ aged[x] \in Nat /\ pos[x] \in Int /\ batch[x] \subseteq Nat /\ cur[x] \in Nat
    BY DEF StreamTypeOK, LoopTypeOK
<1>h. StreamBounds(x)
    BY Zenon DEF Bounds
<1>u. ASSUME UNCHANGED <<aged, log, low, pos, batch>> PROVE StreamBounds(x)'
    BY <1>h, <1>u, Zenon DEF StreamBounds
<1>1. ASSUME NEW t \in Streams, NEW to \in SUBSET Users, PublishID(t, to) PROVE StreamBounds(x)'
  <2>1. log' = [log EXCEPT ![t] = Append(@, to)] /\ UNCHANGED <<aged, pos, batch>>
      BY <1>1, Zenon DEF PublishID, Append1, loopVars
  <2>2. low' = [low EXCEPT ![t] = larger(@, Len(log[t]) + 1 - MaxLen)] /\ MaxLen \in Nat
      BY <1>1, HubAssumption, Zenon DEF PublishID, Append1, TrimTo
  <2>3. CASE x = t
    <3>1. Len(log'[x]) = Len(log[x]) + 1
        BY <1>t, <2>1, <2>3 DEF StreamTypeOK
    <3>2. low'[x] = low[x] \/ low'[x] = Len(log[x]) + 1 - MaxLen
        BY <2>2, <2>3, Zenon DEF larger, StreamTypeOK
    <3>3. QED
        BY <1>t, <1>h, <2>1, <2>2, <3>1, <3>2 DEF StreamBounds
  <2>4. CASE x # t
      BY <1>h, <2>1, <2>2, <2>4, Zenon DEF StreamBounds, StreamTypeOK
  <2>5. QED
      BY <2>3, <2>4, Zenon
<1>2. ASSUME NEW t \in Streams, Age(t) PROVE StreamBounds(x)'
    BY <1>t, <1>h, <1>2 DEF StreamBounds, Age, loopVars, regVars, connVars, StreamTypeOK, LoopTypeOK
<1>3. ASSUME NEW t \in Streams, Trim(t) PROVE StreamBounds(x)'
    BY <1>t, <1>h, <1>3, Zenon DEF StreamBounds, Trim, Idle, TrimTo, larger, loopVars, regVars, connVars, StreamTypeOK, LoopTypeOK
<1>4. ASSUME NEW t \in Streams, XRead(t) PROVE StreamBounds(x)'
    BY <1>t, <1>h, <1>4 DEF StreamBounds, XRead, Idle, larger, streamVars, regVars, connVars, StreamTypeOK, LoopTypeOK
<1>5. ASSUME NEW t \in Streams, Collect(t) PROVE StreamBounds(x)'
    BY <1>t, <1>h, <1>5 DEF StreamBounds, Collect, First, Of, targets, streamVars, regVars, connVars, StreamTypeOK, LoopTypeOK
<1>6. ASSUME NEW t \in Streams, NEW s \in fan[t], PushLive(t, s) PROVE StreamBounds(x)'
    BY <1>6, <1>u, Zenon DEF PushLive, streamVars, regVars
<1>7. ASSUME NEW s \in Conns, NEW t \in Streams, NEW u \in Users, NEW id \in 0 .. Len(log[t]), Subscribe(s, t, u, id) PROVE StreamBounds(x)'
  <2>1. UNCHANGED <<log, low, aged, batch>> /\ pos' = IF pos[t] < 0 THEN [pos EXCEPT ![t] = Len(log[t])] ELSE pos
      BY <1>7, Zenon DEF Subscribe, streamVars
  <2>2. pos[x] < 0 => batch[x] = {}
      BY Zenon DEF LoopInv, LoopOk
  <2>3. pos'[x] = pos[x] \/ (pos[x] < 0 /\ pos'[x] = Len(log[x]))
      BY <2>1, Zenon DEF LoopTypeOK
  <2>4. QED
      BY <1>t, <1>h, <2>1, <2>2, <2>3 DEF StreamBounds
<1>8. ASSUME NEW s \in Conns, NEW t \in Streams, NEW u \in Users, SubscribeRefused(s, t, u) PROVE StreamBounds(x)'
    BY <1>8, <1>u, Zenon DEF SubscribeRefused, streamVars, loopVars, regVars
<1>9. ASSUME NEW s \in Conns, ReplayReset(s) PROVE StreamBounds(x)'
    BY <1>9, <1>u, Zenon DEF ReplayReset, streamVars, loopVars, regVars
<1>10. ASSUME NEW s \in Conns, ReplayRead(s) PROVE StreamBounds(x)'
    BY <1>10, <1>u, Zenon DEF ReplayRead, streamVars, loopVars, regVars
<1>11. ASSUME NEW s \in Conns, ReplayPush(s) PROVE StreamBounds(x)'
    BY <1>11, <1>u, Zenon DEF ReplayPush, streamVars, loopVars, regVars
<1>12. ASSUME NEW s \in Conns, ReplayDone(s) PROVE StreamBounds(x)'
    BY <1>12, <1>u, Zenon DEF ReplayDone, streamVars, loopVars, regVars
<1>13. ASSUME NEW s \in Conns, Deliver(s) PROVE StreamBounds(x)'
    BY <1>13, <1>u, Zenon DEF Deliver, streamVars, loopVars, regVars
<1>c. ASSUME NEW s \in Conns, Close(s) /\ UNCHANGED <<log, low, aged>> PROVE StreamBounds(x)'
  <2>1. (pos'[x] = pos[x] /\ batch'[x] = batch[x]) \/ (pos'[x] = -1 /\ batch'[x] = {})
      BY <1>c, CloseEffect, Zenon
  <2>2. QED
      BY <1>t, <1>h, <1>c, <2>1 DEF StreamBounds
<1>14. ASSUME NEW s \in Conns, Leave(s) PROVE StreamBounds(x)'
    BY <1>14, <1>c, Zenon DEF Leave, streamVars
<1>15. ASSUME NEW s \in Conns, CloseOne(s) PROVE StreamBounds(x)'
    BY <1>15, <1>c, Zenon DEF CloseOne, streamVars, connVars
<1>16. ASSUME NEW s \in Conns, CloseStalled(s) PROVE StreamBounds(x)'
    BY <1>16, <1>c, Zenon DEF CloseStalled, streamVars, connVars
<1>17. ASSUME HubClose PROVE StreamBounds(x)'
    BY <1>17, <1>u, Zenon DEF HubClose, streamVars, loopVars, connVars
<1>18. ASSUME UNCHANGED hubVars PROVE StreamBounds(x)'
    BY <1>18, <1>u, Zenon DEF hubVars, streamVars, loopVars, regVars, connVars
<1>q. QED
    BY <1>1, <1>2, <1>3, <1>4, <1>5, <1>6, <1>7, <1>8, <1>9, <1>10, <1>11, <1>12, <1>13, <1>14, <1>15, <1>16, <1>17, <1>18 DEF HubNext, ConnStep, LoopStep, Open

\* Every step keeps the positions of a connection within its stream.
LEMMA ConnBoundsStep ==
    LoopTypeOK /\ RegTypeOK /\ ConnTypeOK /\ StreamTypeOK /\ Wired /\ Bounds /\ LoopInv /\ [HubNext]_hubVars => (\A z \in Conns : ConnBounds(z))'
<1> SUFFICES ASSUME LoopTypeOK, RegTypeOK, ConnTypeOK, StreamTypeOK, Wired, Bounds, LoopInv, [HubNext]_hubVars, NEW z \in Conns PROVE ConnBounds(z)'
    OBVIOUS
<1>t. last[z] \in Nat /\ since[z] \in Nat /\ todo[z] \subseteq Nat /\ \A t \in Streams : Len(log[t]) \in Nat
    BY DEF StreamTypeOK, ConnTypeOK
<1>h. ConnBounds(z)
    BY Zenon DEF Bounds
<1>u. ASSUME UNCHANGED <<phase, last, since, todo, who, log>> PROVE ConnBounds(z)'
    BY <1>h, <1>u, Zenon DEF ConnBounds
<1>1. ASSUME NEW t \in Streams, NEW to \in SUBSET Users, PublishID(t, to) PROVE ConnBounds(z)'
  <2>1. log' = [log EXCEPT ![t] = Append(@, to)] /\ UNCHANGED <<phase, last, since, todo, who>>
      BY <1>1, Zenon DEF PublishID, Append1, regVars, connVars
  <2>2. \A y \in Streams : Len(log'[y]) \in Nat /\ Len(log[y]) <= Len(log'[y])
      BY <1>t, <2>1 DEF StreamTypeOK
  <2>3. QED
      BY <1>t, <1>h, <2>1, <2>2 DEF ConnBounds
<1>2. ASSUME NEW t \in Streams, Age(t) PROVE ConnBounds(z)'
    BY <1>2, <1>u, Zenon DEF Age, loopVars, regVars, connVars
<1>3. ASSUME NEW t \in Streams, Trim(t) PROVE ConnBounds(z)'
    BY <1>3, <1>u, Zenon DEF Trim, loopVars, regVars, connVars
<1>4. ASSUME NEW t \in Streams, XRead(t) PROVE ConnBounds(z)'
    BY <1>4, <1>u, Zenon DEF XRead, streamVars, regVars, connVars
<1>5. ASSUME NEW t \in Streams, Collect(t) PROVE ConnBounds(z)'
    BY <1>5, <1>u, Zenon DEF Collect, streamVars, regVars, connVars
<1>6. ASSUME NEW t \in Streams, NEW s \in fan[t], PushLive(t, s) PROVE ConnBounds(z)'
  <2>1. Push(s, cur[t]) /\ s \in Conns /\ cur[t] \in Nat /\ UNCHANGED <<log, who, phase, since, todo>>
      BY <1>6, Zenon DEF PushLive, LoopTypeOK, streamVars, regVars
  <2>2. last'[z] = last[z] \/ (z = s /\ last'[z] = cur[t])
      BY <2>1, PushEffect, Zenon
  <2>3. LoopOk(t) /\ StreamBounds(t)
      BY Zenon DEF LoopInv, Bounds
  <2>4. cur[t] # 0 /\ cur[t] = pos[t] /\ cur[t] <= Len(log[t])
      BY <2>3, Zenon DEF LoopOk, StreamBounds
  <2>5. who[s][1] = t /\ phase[s] # "idle"
      BY Zenon DEF Wired
  <2>6. QED
      BY <1>t, <1>h, <2>1, <2>2, <2>4, <2>5, Zenon DEF ConnBounds
<1>7. ASSUME NEW s \in Conns, NEW t \in Streams, NEW u \in Users, NEW id \in 0 .. Len(log[t]), Subscribe(s, t, u, id) PROVE ConnBounds(z)'
  <2>1. UNCHANGED <<log, todo, last>> /\ phase[s] = "idle" /\ who' = [who EXCEPT ![s] = <<t, u>>]
        /\ phase' = [phase EXCEPT ![s] = IF id = 0 THEN "open" ELSE "replay"] /\ since' = [since EXCEPT ![s] = Len(log[t])]
      BY <1>7, Zenon DEF Subscribe, streamVars
  <2>2. CASE z = s
    <3>1. last'[z] = 0 /\ todo'[z] = {} /\ since'[z] = Len(log[t]) /\ who'[z] = <<t, u>> /\ phase'[z] # "idle" /\ log' = log
        BY <1>h, <2>1, <2>2, Zenon DEF ConnBounds, ConnTypeOK, RegTypeOK
    <3>2. QED
        BY <1>t, <3>1 DEF ConnBounds
  <2>3. CASE z # s
      BY <1>h, <2>1, <2>3, Zenon DEF ConnBounds, ConnTypeOK, RegTypeOK
  <2>4. QED
      BY <2>2, <2>3, Zenon
<1>8. ASSUME NEW s \in Conns, NEW t \in Streams, NEW u \in Users, SubscribeRefused(s, t, u) PROVE ConnBounds(z)'
    BY <1>t, <1>h, <1>8, Zenon DEF ConnBounds, SubscribeRefused, streamVars, loopVars, regVars, ConnTypeOK
<1>9. ASSUME NEW s \in Conns, ReplayReset(s) PROVE ConnBounds(z)'
  <2>1. Push(s, 0) /\ phase[s] \in {"replay", "pushing"} /\ UNCHANGED <<log, who, todo>>
        /\ phase' = [phase EXCEPT ![s] = "open"] /\ since' = [since EXCEPT ![s] = Len(log[who[s][1]])]
      BY <1>9, Zenon DEF ReplayReset, Returned, streamVars, regVars
  <2>2. last'[z] = last[z]
      BY <2>1, PushEffect, Zenon
  <2>3. phase'[z] = "idle" => phase[z] = "idle" /\ z # s
      BY <2>1, Zenon DEF ConnTypeOK
  <2>4. since'[z] = since[z] \/ (z = s /\ since'[z] = Len(log[who[z][1]]))
      BY <2>1, Zenon DEF ConnTypeOK
  <2>5. z # s => since'[z] = since[z]
      BY <2>1, Zenon DEF ConnTypeOK
  <2>6. QED
      BY <1>t, <1>h, <2>1, <2>2, <2>3, <2>4, <2>5 DEF ConnBounds
<1>10. ASSUME NEW s \in Conns, ReplayRead(s) PROVE ConnBounds(z)'
  <2>1. UNCHANGED <<log, who, last, since>> /\ phase[s] = "replay" /\ phase' = [phase EXCEPT ![s] = "pushing"]
        /\ todo' = [todo EXCEPT ![s] = Missed(s)]
      BY <1>10, Zenon DEF ReplayRead, streamVars, regVars
  <2>2. \A k \in Missed(s) : k <= Len(log[who[s][1]])
      BY DEF Missed
  <2>3. phase'[z] = "idle" => phase[z] = "idle" /\ z # s
      BY <2>1, Zenon DEF ConnTypeOK
  <2>4. (z = s /\ todo'[z] = Missed(s)) \/ (z # s /\ todo'[z] = todo[z])
      BY <2>1, Zenon DEF ConnTypeOK
  <2>5. QED
      BY <1>t, <1>h, <2>1, <2>2, <2>3, <2>4, Zenon DEF ConnBounds
<1>11. ASSUME NEW s \in Conns, ReplayPush(s) PROVE ConnBounds(z)'
  <2>1. PICK id \in todo[s] : Push(s, id) /\ todo' = [todo EXCEPT ![s] = @ \ {id}]
      BY <1>11, Zenon DEF ReplayPush
  <2>2. id \in Nat /\ phase[s] = "pushing" /\ UNCHANGED <<log, who, phase, since>>
      BY <1>11, <2>1, Zenon DEF ReplayPush, ConnTypeOK, streamVars, regVars
  <2>3. last'[z] = last[z] \/ (z = s /\ last'[z] = id)
      BY <2>1, <2>2, PushEffect, Zenon
  <2>4. todo'[z] \subseteq todo[z]
      BY <2>1, Zenon DEF ConnTypeOK
  <2>5. QED
      BY <1>t, <1>h, <2>1, <2>2, <2>3, <2>4, Zenon DEF ConnBounds
<1>12. ASSUME NEW s \in Conns, ReplayDone(s) PROVE ConnBounds(z)'
  <2>1. phase[s] \in {"replay", "pushing"} /\ UNCHANGED <<log, who, todo>>
        /\ phase' = [phase EXCEPT ![s] = "open"] /\ since' = [since EXCEPT ![s] = Len(log[who[s][1]])]
      BY <1>12, Zenon DEF ReplayDone, Returned, streamVars, regVars
  <2>2. last'[z] = last[z]
      BY <1>12, Zenon DEF ReplayDone
  <2>3. phase'[z] = "idle" => phase[z] = "idle" /\ z # s
      BY <2>1, Zenon DEF ConnTypeOK
  <2>4. since'[z] = since[z] \/ (z = s /\ since'[z] = Len(log[who[z][1]]))
      BY <2>1, Zenon DEF ConnTypeOK
  <2>5. z # s => since'[z] = since[z]
      BY <2>1, Zenon DEF ConnTypeOK
  <2>6. QED
      BY <1>t, <1>h, <2>1, <2>2, <2>3, <2>4, <2>5 DEF ConnBounds
<1>13. ASSUME NEW s \in Conns, Deliver(s) PROVE ConnBounds(z)'
    BY <1>13, <1>u, Zenon DEF Deliver, streamVars, loopVars, regVars
<1>c. ASSUME NEW s \in Conns, UNCHANGED <<log, who, last, since, todo>> /\ (UNCHANGED phase \/ phase' = [phase EXCEPT ![s] = "ended"]) PROVE ConnBounds(z)'
    BY <1>h, <1>c, Zenon DEF ConnBounds, ConnTypeOK
<1>14. ASSUME NEW s \in Conns, Leave(s) PROVE ConnBounds(z)'
    BY <1>14, <1>c, Zenon DEF Leave, streamVars
<1>15. ASSUME NEW s \in Conns, CloseOne(s) PROVE ConnBounds(z)'
    BY <1>15, <1>c, Zenon DEF CloseOne, streamVars, connVars
<1>16. ASSUME NEW s \in Conns, CloseStalled(s) PROVE ConnBounds(z)'
    BY <1>16, <1>c, Zenon DEF CloseStalled, streamVars, connVars
<1>17. ASSUME HubClose PROVE ConnBounds(z)'
    BY <1>17, <1>u, Zenon DEF HubClose, streamVars, loopVars, connVars
<1>18. ASSUME UNCHANGED hubVars PROVE ConnBounds(z)'
    BY <1>18, <1>u, Zenon DEF hubVars, streamVars, loopVars, regVars, connVars
<1>q. QED
    BY <1>1, <1>2, <1>3, <1>4, <1>5, <1>6, <1>7, <1>8, <1>9, <1>10, <1>11, <1>12, <1>13, <1>14, <1>15, <1>16, <1>17, <1>18, Zenon DEF HubNext, ConnStep, LoopStep, Open

\* Trimming keeps the loop's account: what it drops unread is lost.
LEMMA TrimKeeps ==
    ASSUME StreamTypeOK, LoopTypeOK, NEW t \in Streams, NEW n \in Int, TrimTo(t, n), NEW x \in Streams, LoopOk(x),
           UNCHANGED <<pos, batch, cur, fan, conns, who>>
    PROVE  LoopOk(x)'
<1>1. CASE x # t
  <2>1. low'[x] = low[x] /\ lost'[x] = lost[x]
      BY <1>1, Zenon DEF TrimTo, StreamTypeOK
  <2>2. QED
      BY <2>1, Zenon DEF LoopOk
<1>2. CASE x = t
  <2>1. low'[x] = larger(low[x], n)
      BY <1>2, Zenon DEF TrimTo, StreamTypeOK
  <2>2. pos[x] >= 0 => lost'[x] = lost[x] \cup ((pos[x] + 1 .. n) \ batch[x])
      BY <1>2 DEF TrimTo, StreamTypeOK, LoopTypeOK
  <2>3. ASSUME pos[x] >= 0, NEW id \in Nat, pos[x] < id, id <= low'[x] \/ \E k \in batch[x] : id < k
        PROVE  id \in batch[x] \cup lost'[x]
    <3>1. pos[x] \in Int /\ low[x] \in Nat
        BY Zenon DEF LoopTypeOK, StreamTypeOK
    <3>2. CASE id <= low[x] \/ \E k \in batch[x] : id < k
        BY <2>2, <2>3, <3>2, Zenon DEF LoopOk
    <3>3. CASE id <= n
      <4>1. id \in pos[x] + 1 .. n
          BY <2>3, <3>1, <3>3
      <4>2. QED
          BY <2>2, <2>3, <4>1, Zenon
    <3>4. QED
        BY <2>1, <2>3, <3>1, <3>2, <3>3, Zenon DEF larger
  <2>4. QED
      BY <2>3, Zenon DEF LoopOk
<1>3. QED
    BY <1>1, <1>2, Zenon

\* Every step keeps the loop's account of its stream.
LEMMA LoopInvStep ==
    LoopTypeOK /\ RegTypeOK /\ ConnTypeOK /\ StreamTypeOK /\ Wired /\ Bounds /\ LoopInv /\ [HubNext]_hubVars => (\A x \in Streams : LoopOk(x))'
<1> SUFFICES ASSUME LoopTypeOK, RegTypeOK, ConnTypeOK, StreamTypeOK, Wired, Bounds, LoopInv, [HubNext]_hubVars, NEW x \in Streams PROVE LoopOk(x)'
    OBVIOUS
<1>t. log[x] \in Seq(SUBSET Users) /\ Len(log[x]) \in Nat /\ low[x] \in Nat /\ aged[x] \in Nat /\ pos[x] \in Int /\ batch[x] \subseteq Nat /\ cur[x] \in Nat
    BY DEF StreamTypeOK, LoopTypeOK
<1>h. LoopOk(x)
    BY Zenon DEF LoopInv
<1>u. ASSUME UNCHANGED <<low, lost, pos, batch, cur, fan, conns, who>> PROVE LoopOk(x)'
    BY <1>h, <1>u, Zenon DEF LoopOk
<1>1. ASSUME NEW t \in Streams, NEW to \in SUBSET Users, PublishID(t, to) PROVE LoopOk(x)'
  <2>1. TrimTo(t, Len(log[t]) + 1 - MaxLen) /\ UNCHANGED <<pos, batch, cur, fan, conns, who>>
      BY <1>1, Zenon DEF PublishID, Append1, loopVars, regVars
  <2>2. Len(log[t]) + 1 - MaxLen \in Int
      BY HubAssumption DEF StreamTypeOK
  <2>3. QED
      BY <1>h, <2>1, <2>2, TrimKeeps, Zenon
<1>2. ASSUME NEW t \in Streams, Age(t) PROVE LoopOk(x)'
    BY <1>2, <1>u, Zenon DEF Age, loopVars, regVars, connVars
<1>3. ASSUME NEW t \in Streams, Trim(t) PROVE LoopOk(x)'
  <2>1. TrimTo(t, aged[t]) /\ UNCHANGED <<pos, batch, cur, fan, conns, who>>
      BY <1>3, Zenon DEF Trim, loopVars, regVars
  <2>2. aged[t] \in Int
      BY DEF StreamTypeOK
  <2>3. QED
      BY <1>h, <2>1, <2>2, TrimKeeps, Zenon
<1>4. ASSUME NEW t \in Streams, XRead(t) PROVE LoopOk(x)'
  <2>1. UNCHANGED <<low, lost, pos, cur, fan, conns, who>> /\ batch[t] = {} /\ pos[t] >= 0
        /\ batch' = [batch EXCEPT ![t] = larger(pos[t], low[t]) + 1 .. Len(log[t])]
      BY <1>4, Zenon DEF XRead, Idle, streamVars, regVars
  <2>2. CASE x # t
      BY <1>h, <2>1, <2>2, Zenon DEF LoopOk, LoopTypeOK
  <2>3. CASE x = t
    <3>1. batch'[x] = larger(pos[x], low[x]) + 1 .. Len(log[x])
        BY <2>1, <2>3, Zenon DEF LoopTypeOK
    <3>2. ASSUME NEW id \in Nat, pos[x] < id, id <= low[x] \/ \E k \in batch'[x] : id < k PROVE id \in batch'[x] \cup lost[x]
      <4>1. CASE id <= low[x]
          BY <1>h, <2>1, <2>3, <3>2, <4>1, Zenon DEF LoopOk
      <4>2. CASE ~(id <= low[x])
          BY <1>t, <3>1, <3>2, <4>2 DEF larger
      <4>3. QED
          BY <4>1, <4>2, Zenon
    <3>3. QED
        BY <1>t, <1>h, <2>1, <2>3, <3>2 DEF LoopOk
  <2>4. QED
      BY <2>2, <2>3, Zenon
<1>5. ASSUME NEW t \in Streams, Collect(t) PROVE LoopOk(x)'
  <2>1. PICK id \in batch[t] :
          /\ First(id, batch[t]) /\ pos' = [pos EXCEPT ![t] = id] /\ batch' = [batch EXCEPT ![t] = @ \ {id}]
          /\ fan' = [fan EXCEPT ![t] = {s \in Of(t) : targets(log[t][id], who[s][2])}]
          /\ cur' = [cur EXCEPT ![t] = IF {s \in Of(t) : targets(log[t][id], who[s][2])} = {} THEN 0 ELSE id]
      BY <1>5, Zenon DEF Collect
  <2>2. UNCHANGED <<low, lost, conns, who>>
      BY <1>5, Zenon DEF Collect, streamVars, regVars
  <2>3. CASE x # t
      BY <1>h, <2>1, <2>2, <2>3, Zenon DEF LoopOk, LoopTypeOK
  <2>4. CASE x = t
    <3>1. id \in Nat /\ id # 0 /\ pos'[x] = id /\ batch'[x] = batch[x] \ {id} /\ \A k \in batch[x] : id <= k
        BY <2>1, <2>4, Zenon DEF First, LoopTypeOK
    <3>2. pos[x] >= 0 /\ pos[x] < id
        BY <1>t, <1>h, <2>1, <2>4 DEF LoopOk, Bounds, StreamBounds
    <3>3. (cur'[x] = 0 => fan'[x] = {}) /\ (cur'[x] # 0 => cur'[x] = pos'[x])
        BY <2>1, <2>4, <3>1, Zenon DEF LoopTypeOK
    <3>4. ASSUME NEW j \in Nat, id < j, j <= low[x] \/ \E k \in batch'[x] : j < k PROVE j \in batch'[x] \cup lost[x]
        BY <1>t, <1>h, <3>1, <3>2, <3>4 DEF LoopOk
    <3>5. QED
        BY <2>2, <3>1, <3>3, <3>4 DEF LoopOk
  <2>5. QED
      BY <2>3, <2>4, Zenon
<1>6. ASSUME NEW t \in Streams, NEW s \in fan[t], PushLive(t, s) PROVE LoopOk(x)'
  <2>1. UNCHANGED <<low, lost, pos, batch, conns, who>> /\ fan' = [fan EXCEPT ![t] = @ \ {s}]
        /\ cur' = IF fan[t] = {s} THEN [cur EXCEPT ![t] = 0] ELSE cur
      BY <1>6, Zenon DEF PushLive, streamVars, regVars
  <2>2. CASE x # t
      BY <1>h, <2>1, <2>2, Zenon DEF LoopOk, LoopTypeOK
  <2>3. CASE x = t
    <3>1. fan'[x] = fan[x] \ {s} /\ cur'[x] = IF fan[x] = {s} THEN 0 ELSE cur[x]
        BY <2>1, <2>3, Zenon DEF LoopTypeOK
    <3>2. cur[x] # 0 /\ s \in fan[x]
        BY <1>h, <2>3, Zenon DEF LoopOk
    <3>3. QED
        BY <1>h, <2>1, <3>1, <3>2, Zenon DEF LoopOk
  <2>4. QED
      BY <2>2, <2>3, Zenon
<1>7. ASSUME NEW s \in Conns, NEW t \in Streams, NEW u \in Users, NEW id \in 0 .. Len(log[t]), Subscribe(s, t, u, id) PROVE LoopOk(x)'
  <2>1. UNCHANGED <<low, lost, batch, cur, fan>> /\ pos' = IF pos[t] < 0 THEN [pos EXCEPT ![t] = Len(log[t])] ELSE pos
      BY <1>7, Zenon DEF Subscribe, streamVars
  <2>2. conns' = conns \cup {s} /\ who' = [who EXCEPT ![s] = <<t, u>>] /\ s \notin conns
      BY <1>7, Zenon DEF Subscribe, Wired
  <2>3. pos'[x] = pos[x] \/ (pos[x] < 0 /\ pos'[x] = Len(log[x]))
      BY <2>1, Zenon DEF LoopTypeOK
  <2>4. x = t => pos'[x] >= 0
      BY <1>t, <2>1 DEF LoopTypeOK
  <2>5. \A z \in conns' : who'[z][1] = x => pos'[x] >= 0
      BY <1>t, <1>h, <2>2, <2>3, <2>4 DEF LoopOk, RegTypeOK
  <2>6. low[x] <= Len(log[x])
      BY Zenon DEF Bounds, StreamBounds
  <2>7. CASE pos'[x] = pos[x]
      BY <1>h, <2>1, <2>5, <2>7, Zenon DEF LoopOk
  <2>8. CASE pos[x] < 0 /\ pos'[x] = Len(log[x])
      BY <1>t, <1>h, <2>1, <2>5, <2>6, <2>8 DEF LoopOk
  <2>9. QED
      BY <2>3, <2>7, <2>8, Zenon
<1>8. ASSUME NEW s \in Conns, NEW t \in Streams, NEW u \in Users, SubscribeRefused(s, t, u) PROVE LoopOk(x)'
    BY <1>8, <1>u, Zenon DEF SubscribeRefused, streamVars, loopVars, regVars
<1>9. ASSUME NEW s \in Conns, ReplayReset(s) PROVE LoopOk(x)'
    BY <1>9, <1>u, Zenon DEF ReplayReset, streamVars, loopVars, regVars
<1>10. ASSUME NEW s \in Conns, ReplayRead(s) PROVE LoopOk(x)'
    BY <1>10, <1>u, Zenon DEF ReplayRead, streamVars, loopVars, regVars
<1>11. ASSUME NEW s \in Conns, ReplayPush(s) PROVE LoopOk(x)'
    BY <1>11, <1>u, Zenon DEF ReplayPush, streamVars, loopVars, regVars
<1>12. ASSUME NEW s \in Conns, ReplayDone(s) PROVE LoopOk(x)'
    BY <1>12, <1>u, Zenon DEF ReplayDone, streamVars, loopVars, regVars
<1>13. ASSUME NEW s \in Conns, Deliver(s) PROVE LoopOk(x)'
    BY <1>13, <1>u, Zenon DEF Deliver, streamVars, loopVars, regVars
<1>c. ASSUME NEW s \in Conns, Close(s) /\ UNCHANGED <<low, lost, who>> PROVE LoopOk(x)'
  <2>1. conns' = conns \ {s}
      BY <1>c, CloseEffect, Zenon
  <2>2. \/ pos'[x] = pos[x] /\ batch'[x] = batch[x] /\ cur'[x] = cur[x] /\ fan'[x] = fan[x]
        \/ pos'[x] = -1 /\ batch'[x] = {} /\ cur'[x] = 0 /\ fan'[x] = {} /\ \A z \in conns' : who[z][1] # x
      BY <1>c, CloseEffect, Zenon
  <2>3. QED
      BY <1>h, <1>c, <2>1, <2>2 DEF LoopOk
<1>14. ASSUME NEW s \in Conns, Leave(s) PROVE LoopOk(x)'
    BY <1>14, <1>c, Zenon DEF Leave, streamVars
<1>15. ASSUME NEW s \in Conns, CloseOne(s) PROVE LoopOk(x)'
    BY <1>15, <1>c, Zenon DEF CloseOne, streamVars, connVars
<1>16. ASSUME NEW s \in Conns, CloseStalled(s) PROVE LoopOk(x)'
    BY <1>16, <1>c, Zenon DEF CloseStalled, streamVars, connVars
<1>17. ASSUME HubClose PROVE LoopOk(x)'
    BY <1>17, <1>u, Zenon DEF HubClose, streamVars, loopVars, connVars
<1>18. ASSUME UNCHANGED hubVars PROVE LoopOk(x)'
    BY <1>18, <1>u, Zenon DEF hubVars, streamVars, loopVars, regVars, connVars
<1>q. QED
    BY <1>1, <1>2, <1>3, <1>4, <1>5, <1>6, <1>7, <1>8, <1>9, <1>10, <1>11, <1>12, <1>13, <1>14, <1>15, <1>16, <1>17, <1>18, Zenon DEF HubNext, ConnStep, LoopStep, Open

\* Every step keeps last behind the loop on an opened connection.
LEMMA FollowsStep ==
    LoopTypeOK /\ RegTypeOK /\ ConnTypeOK /\ StreamTypeOK /\ Wired /\ Bounds /\ LoopInv /\ Tracked /\ [HubNext]_hubVars => (\A z \in Conns : FollowsOk(z))'
<1> SUFFICES ASSUME LoopTypeOK, RegTypeOK, ConnTypeOK, StreamTypeOK, Wired, Bounds, LoopInv, Tracked, [HubNext]_hubVars, NEW z \in Conns PROVE FollowsOk(z)'
    OBVIOUS
<1>t. /\ last[z] \in Nat /\ since[z] \in Nat /\ \A t \in Streams : pos[t] \in Int /\ cur[t] \in Nat /\ Len(log[t]) \in Nat
      /\ z \in conns => who[z] \in Streams \X Users /\ who[z][1] \in Streams
    BY DEF StreamTypeOK, LoopTypeOK, RegTypeOK, ConnTypeOK, Wired
<1>h. FollowsOk(z)
    BY Zenon DEF Tracked
<1>u. ASSUME UNCHANGED <<conns, phase, last, since, pos, who, fan, cur>> PROVE FollowsOk(z)'
    BY <1>h, <1>u, Zenon DEF FollowsOk
<1>1. ASSUME NEW t \in Streams, NEW to \in SUBSET Users, PublishID(t, to) PROVE FollowsOk(z)'
    BY <1>1, <1>u, Zenon DEF PublishID, Append1, loopVars, regVars, connVars
<1>2. ASSUME NEW t \in Streams, Age(t) PROVE FollowsOk(z)'
    BY <1>2, <1>u, Zenon DEF Age, loopVars, regVars, connVars
<1>3. ASSUME NEW t \in Streams, Trim(t) PROVE FollowsOk(z)'
    BY <1>3, <1>u, Zenon DEF Trim, loopVars, regVars, connVars
<1>4. ASSUME NEW t \in Streams, XRead(t) PROVE FollowsOk(z)'
    BY <1>4, <1>u, Zenon DEF XRead, streamVars, regVars, connVars
<1>5. ASSUME NEW t \in Streams, Collect(t) PROVE FollowsOk(z)'
  <2>1. PICK id \in batch[t] :
          /\ pos' = [pos EXCEPT ![t] = id] /\ fan' = [fan EXCEPT ![t] = {s \in Of(t) : targets(log[t][id], who[s][2])}]
          /\ cur' = [cur EXCEPT ![t] = IF {s \in Of(t) : targets(log[t][id], who[s][2])} = {} THEN 0 ELSE id]
      BY <1>5, Zenon DEF Collect
  <2>2. UNCHANGED <<conns, who, phase, last, since>>
      BY <1>5, Zenon DEF Collect, regVars, connVars
  <2>3. CASE z \in conns /\ who[z][1] = t
    <3>1. pos'[t] = id /\ pos[t] < id /\ id \in Nat /\ (cur'[t] = 0 \/ cur'[t] = id)
        BY <2>1, Zenon DEF LoopTypeOK, Bounds, StreamBounds
    <3>2. QED
        BY <1>t, <1>h, <2>2, <2>3, <3>1 DEF FollowsOk
  <2>4. CASE z \in conns /\ who[z][1] # t
      BY <1>t, <1>h, <2>1, <2>2, <2>4, Zenon DEF FollowsOk, LoopTypeOK
  <2>5. QED
      BY <2>2, <2>3, <2>4, Zenon DEF FollowsOk
<1>6. ASSUME NEW t \in Streams, NEW s \in fan[t], PushLive(t, s) PROVE FollowsOk(z)'
  <2>1. Push(s, cur[t]) /\ s \in Conns /\ cur[t] \in Nat /\ UNCHANGED <<pos, conns, who, phase, since>>
      BY <1>6, Zenon DEF PushLive, LoopTypeOK, regVars
  <2>2. fan' = [fan EXCEPT ![t] = @ \ {s}] /\ (cur'[t] = cur[t] \/ cur'[t] = 0) /\ \A x \in Streams : x # t => cur'[x] = cur[x]
      BY <1>6, Zenon DEF PushLive, LoopTypeOK
  <2>3. cur[t] # 0 /\ cur[t] = pos[t] /\ who[s][1] = t
      BY Zenon DEF LoopInv, LoopOk, Wired
  <2>4. CASE z = s
    <3>1. z \notin fan'[t]
        BY <2>2, <2>4, Zenon DEF LoopTypeOK
    <3>2. last'[z] = last[z] \/ last'[z] = pos[t]
        BY <2>1, <2>3, <2>4, PushEffect, Zenon
    <3>3. QED
        BY <1>t, <1>h, <2>1, <2>3, <2>4, <3>1, <3>2 DEF FollowsOk
  <2>5. CASE z # s
    <3>1. last'[z] = last[z]
        BY <2>1, <2>5, PushEffect, Zenon
    <3>2. \A x \in Streams : z \in fan'[x] => z \in fan[x]
        BY <2>2, Zenon DEF LoopTypeOK
    <3>3. \A x \in Streams : cur'[x] = cur[x] \/ cur'[x] = 0
        BY <2>2, Zenon
    <3>4. QED
        BY <1>t, <1>h, <2>1, <3>1, <3>2, <3>3 DEF FollowsOk
  <2>6. QED
      BY <2>4, <2>5, Zenon
<1>7. ASSUME NEW s \in Conns, NEW t \in Streams, NEW u \in Users, NEW id \in 0 .. Len(log[t]), Subscribe(s, t, u, id) PROVE FollowsOk(z)'
  <2>1. /\ UNCHANGED <<cur, fan, last>> /\ conns' = conns \cup {s} /\ s \notin conns /\ phase[s] = "idle"
        /\ pos' = (IF pos[t] < 0 THEN [pos EXCEPT ![t] = Len(log[t])] ELSE pos) /\ who' = [who EXCEPT ![s] = <<t, u>>]
        /\ since' = [since EXCEPT ![s] = Len(log[t])] /\ \A y \in Conns : y # s => phase'[y] = phase[y]
      BY <1>7, Zenon DEF Subscribe, Wired, ConnTypeOK
  <2>2. CASE z = s
    <3>1. last'[z] = 0 /\ since'[z] = Len(log[t]) /\ who'[z] = <<t, u>>
        BY <2>1, <2>2, Zenon DEF Bounds, ConnBounds, ConnTypeOK, RegTypeOK
    <3>2. cur[t] <= Len(log[t])
        BY <1>t DEF LoopInv, LoopOk, Bounds, StreamBounds
    <3>3. QED
        BY <1>t, <2>1, <3>1, <3>2 DEF FollowsOk
  <2>3. CASE z # s
    <3>1. since'[z] = since[z] /\ who'[z] = who[z] /\ (z \in conns' => z \in conns)
        BY <2>1, <2>3, Zenon DEF ConnTypeOK, RegTypeOK
    <3>2. z \in conns => pos[who[z][1]] >= 0 /\ pos'[who[z][1]] = pos[who[z][1]]
        BY <1>t, <2>1 DEF LoopInv, LoopOk, LoopTypeOK
    <3>3. QED
        BY <1>t, <1>h, <2>1, <2>3, <3>1, <3>2, Zenon DEF FollowsOk
  <2>4. QED
      BY <2>2, <2>3, Zenon
<1>8. ASSUME NEW s \in Conns, NEW t \in Streams, NEW u \in Users, SubscribeRefused(s, t, u) PROVE FollowsOk(z)'
    BY <1>t, <1>h, <1>8, Zenon DEF FollowsOk, SubscribeRefused, streamVars, loopVars, regVars, ConnTypeOK
<1>9. ASSUME NEW s \in Conns, ReplayReset(s) PROVE FollowsOk(z)'
  <2>1. Push(s, 0) /\ phase[s] \in {"replay", "pushing"} /\ UNCHANGED <<conns, who, pos, cur, fan>>
        /\ phase' = [phase EXCEPT ![s] = "open"] /\ since' = [since EXCEPT ![s] = Len(log[who[s][1]])]
      BY <1>9, Zenon DEF ReplayReset, Returned, loopVars, regVars
  <2>2. last'[z] = last[z]
      BY <2>1, PushEffect, Zenon
  <2>3. CASE z = s
    <3>1. since'[z] = Len(log[who[z][1]])
        BY <2>1, <2>3, Zenon DEF ConnTypeOK
    <3>2. z \in conns => last[z] <= Len(log[who[z][1]]) /\ cur[who[z][1]] <= Len(log[who[z][1]])
        BY <1>t DEF Bounds, ConnBounds, StreamBounds, LoopInv, LoopOk
    <3>3. QED
        BY <2>1, <2>2, <3>1, <3>2, Zenon DEF FollowsOk
  <2>4. CASE z # s
    <3>1. since'[z] = since[z] /\ phase'[z] = phase[z]
        BY <2>1, <2>4, Zenon DEF ConnTypeOK
    <3>2. QED
        BY <1>h, <2>1, <2>2, <3>1, Zenon DEF FollowsOk
  <2>5. QED
      BY <2>3, <2>4, Zenon
<1>10. ASSUME NEW s \in Conns, ReplayRead(s) PROVE FollowsOk(z)'
    BY <1>t, <1>h, <1>10, Zenon DEF FollowsOk, ReplayRead, Missed, targets, streamVars, loopVars, regVars, ConnTypeOK
<1>11. ASSUME NEW s \in Conns, ReplayPush(s) PROVE FollowsOk(z)'
  <2>1. PICK id \in todo[s] : Push(s, id)
      BY <1>11, Zenon DEF ReplayPush
  <2>2. id \in Nat /\ phase[s] = "pushing" /\ UNCHANGED <<conns, who, pos, cur, fan, phase, since>>
      BY <1>11, <2>1, Zenon DEF ReplayPush, ConnTypeOK, loopVars, regVars
  <2>3. z # s => last'[z] = last[z]
      BY <2>1, <2>2, PushEffect, Zenon
  <2>4. QED
      BY <1>h, <2>2, <2>3, Zenon DEF FollowsOk
<1>12. ASSUME NEW s \in Conns, ReplayDone(s) PROVE FollowsOk(z)'
  <2>1. phase[s] \in {"replay", "pushing"} /\ UNCHANGED <<conns, who, pos, cur, fan>>
        /\ phase' = [phase EXCEPT ![s] = "open"] /\ since' = [since EXCEPT ![s] = Len(log[who[s][1]])]
      BY <1>12, Zenon DEF ReplayDone, Returned, loopVars, regVars
  <2>2. last'[z] = last[z]
      BY <1>12, Zenon DEF ReplayDone
  <2>3. CASE z = s
    <3>1. since'[z] = Len(log[who[z][1]])
        BY <2>1, <2>3, Zenon DEF ConnTypeOK
    <3>2. z \in conns => last[z] <= Len(log[who[z][1]]) /\ cur[who[z][1]] <= Len(log[who[z][1]])
        BY <1>t DEF Bounds, ConnBounds, StreamBounds, LoopInv, LoopOk
    <3>3. QED
        BY <2>1, <2>2, <3>1, <3>2, Zenon DEF FollowsOk
  <2>4. CASE z # s
    <3>1. since'[z] = since[z] /\ phase'[z] = phase[z]
        BY <2>1, <2>4, Zenon DEF ConnTypeOK
    <3>2. QED
        BY <1>h, <2>1, <2>2, <3>1, Zenon DEF FollowsOk
  <2>5. QED
      BY <2>3, <2>4, Zenon
<1>13. ASSUME NEW s \in Conns, Deliver(s) PROVE FollowsOk(z)'
    BY <1>13, <1>u, Zenon DEF Deliver, streamVars, loopVars, regVars
<1>c. ASSUME NEW s \in Conns, Close(s) /\ UNCHANGED <<who, last, since>> /\ (UNCHANGED phase \/ phase' = [phase EXCEPT ![s] = "ended"]) PROVE FollowsOk(z)'
  <2>1. conns' = conns \ {s}
      BY <1>c, CloseEffect, Zenon
  <2>2. ASSUME z \in conns' PROVE pos'[who[z][1]] = pos[who[z][1]] /\ cur'[who[z][1]] = cur[who[z][1]] /\ fan'[who[z][1]] = fan[who[z][1]]
      BY <1>t, <1>c, <2>1, <2>2, CloseEffect, Zenon
  <2>3. z \in conns' => phase'[z] = phase[z]
      BY <1>c, <2>1, Zenon DEF ConnTypeOK
  <2>4. QED
      BY <1>h, <1>c, <2>1, <2>2, <2>3, Zenon DEF FollowsOk
<1>14. ASSUME NEW s \in Conns, Leave(s) PROVE FollowsOk(z)'
    BY <1>14, <1>c, Zenon DEF Leave, streamVars
<1>15. ASSUME NEW s \in Conns, CloseOne(s) PROVE FollowsOk(z)'
    BY <1>15, <1>c, Zenon DEF CloseOne, streamVars, connVars
<1>16. ASSUME NEW s \in Conns, CloseStalled(s) PROVE FollowsOk(z)'
    BY <1>16, <1>c, Zenon DEF CloseStalled, streamVars, connVars
<1>17. ASSUME HubClose PROVE FollowsOk(z)'
    BY <1>17, <1>u, Zenon DEF HubClose, streamVars, loopVars, connVars
<1>18. ASSUME UNCHANGED hubVars PROVE FollowsOk(z)'
    BY <1>18, <1>u, Zenon DEF hubVars, streamVars, loopVars, regVars, connVars
<1>q. QED
    BY <1>1, <1>2, <1>3, <1>4, <1>5, <1>6, <1>7, <1>8, <1>9, <1>10, <1>11, <1>12, <1>13, <1>14, <1>15, <1>16, <1>17, <1>18 DEF HubNext, ConnStep, LoopStep, Open

\* Every step keeps account of everything an opened connection must get.
LEMMA MissStep ==
    LoopTypeOK /\ RegTypeOK /\ ConnTypeOK /\ StreamTypeOK /\ Wired /\ Bounds /\ LoopInv /\ Tracked /\ [HubNext]_hubVars => (\A z \in Conns : MissOk(z))'
<1> SUFFICES ASSUME LoopTypeOK, RegTypeOK, ConnTypeOK, StreamTypeOK, Wired, Bounds, LoopInv, Tracked, [HubNext]_hubVars, NEW z \in Conns PROVE MissOk(z)'
    OBVIOUS
<1>t. /\ last[z] \in Nat /\ since[z] \in Nat /\ \A t \in Streams : pos[t] \in Int /\ cur[t] \in Nat /\ Len(log[t]) \in Nat
      /\ z \in conns => who[z] \in Streams \X Users /\ who[z][1] \in Streams
    BY DEF StreamTypeOK, LoopTypeOK, RegTypeOK, ConnTypeOK, Wired
<1>h. MissOk(z)
    BY Zenon DEF Tracked
<1>u. ASSUME UNCHANGED <<log, lost, pos, cur, fan, doomed, conns, who, phase, since, sent>> PROVE MissOk(z)'
    BY <1>h, <1>u, Zenon DEF MissOk, Got
<1>1. ASSUME NEW t \in Streams, NEW to \in SUBSET Users, PublishID(t, to) PROVE MissOk(z)'
  <2>1. log' = [log EXCEPT ![t] = Append(@, to)] /\ UNCHANGED <<pos, cur, fan, doomed, conns, who, phase, since, sent>>
      BY <1>1, Zenon DEF PublishID, Append1, loopVars, regVars, connVars
  <2>2. \A x \in Streams : lost[x] \subseteq lost'[x]
      BY <1>1, Zenon DEF PublishID, Append1, TrimTo, StreamTypeOK
  <2>3. \A x \in Streams : \A k \in 1 .. Len(log[x]) : log'[x][k] = log[x][k]
      BY <2>1 DEF StreamTypeOK
  <2>4. z \in conns => pos[who[z][1]] <= Len(log[who[z][1]])
      BY <1>t, Zenon DEF Bounds, StreamBounds
  <2>5. SUFFICES ASSUME z \in conns, z \notin doomed, phase[z] = "open", NEW id \in since[z] + 1 .. pos[who[z][1]]
                 PROVE  id \in lost'[who[z][1]] \/ ~targets(log'[who[z][1]][id], who[z][2])
                          \/ (cur[who[z][1]] = id /\ z \in fan[who[z][1]]) \/ Got(z, id)
      BY <2>1, Zenon DEF MissOk, Got
  <2>6. id \in 1 .. Len(log[who[z][1]])
      BY <1>t, <2>4, <2>5
  <2>7. log'[who[z][1]][id] = log[who[z][1]][id]
      BY <1>t, <2>3, <2>5, <2>6, Zenon
  <2>8. QED
      BY <1>t, <1>h, <2>2, <2>5, <2>7, Zenon DEF MissOk
<1>2. ASSUME NEW t \in Streams, Age(t) PROVE MissOk(z)'
    BY <1>2, <1>u, Zenon DEF Age, loopVars, regVars, connVars
<1>3. ASSUME NEW t \in Streams, Trim(t) PROVE MissOk(z)'
  <2>1. UNCHANGED <<log, pos, cur, fan, doomed, conns, who, phase, since, sent>>
      BY <1>3, Zenon DEF Trim, loopVars, regVars, connVars
  <2>2. \A x \in Streams : lost[x] \subseteq lost'[x]
      BY <1>3, Zenon DEF Trim, TrimTo, StreamTypeOK
  <2>3. QED
      BY <1>t, <1>h, <2>1, <2>2, Zenon DEF MissOk, Got
<1>4. ASSUME NEW t \in Streams, XRead(t) PROVE MissOk(z)'
    BY <1>4, <1>u, Zenon DEF XRead, streamVars, regVars, connVars
<1>5. ASSUME NEW t \in Streams, Collect(t) PROVE MissOk(z)'
  <2> DEFINE subs(id) == {s \in Of(t) : targets(log[t][id], who[s][2])}
  <2>1. PICK id \in batch[t] :
          /\ First(id, batch[t]) /\ pos' = [pos EXCEPT ![t] = id] /\ fan' = [fan EXCEPT ![t] = subs(id)]
          /\ cur' = [cur EXCEPT ![t] = IF subs(id) = {} THEN 0 ELSE id]
      BY <1>5, Zenon DEF Collect
  <2>2. cur[t] = 0 /\ UNCHANGED <<log, lost, conns, doomed, who, phase, since, sent>>
      BY <1>5, Zenon DEF Collect, streamVars, regVars, connVars
  <2>3. CASE z \in conns /\ who[z][1] = t
    <3>1. pos'[t] = id /\ id \in Nat /\ id # 0 /\ fan'[t] = subs(id) /\ cur'[t] = IF subs(id) = {} THEN 0 ELSE id
        BY <2>1, Zenon DEF LoopTypeOK
    <3>2. SUFFICES ASSUME z \notin doomed, phase[z] = "open", NEW j \in since[z] + 1 .. id
                   PROVE  j \in lost[t] \/ ~targets(log[t][j], who[z][2]) \/ (cur'[t] = j /\ z \in fan'[t]) \/ Got(z, j)
        BY <2>2, <2>3, <3>1, Zenon DEF MissOk, Got
    <3>3. LoopOk(t) /\ StreamBounds(t)
        BY Zenon DEF LoopInv, Bounds
    <3>4. pos[t] >= 0 /\ pos[t] < id /\ j \in Nat /\ j > 0
        BY <1>t, <2>3, <3>1, <3>2, <3>3 DEF LoopOk, StreamBounds
    <3>5. CASE j <= pos[t]
      <4>1. j \in since[z] + 1 .. pos[t]
          BY <1>t, <3>2, <3>5
      <4>2. cur[t] # j
          BY <2>2, <3>4
      <4>3. QED
          BY <1>h, <2>3, <3>2, <4>1, <4>2, Zenon DEF MissOk
    <3>6. CASE pos[t] < j /\ j < id
      <4>1. j \notin batch[t]
          BY <2>1, <3>1, <3>4, <3>6 DEF First, LoopTypeOK
      <4>2. j \in batch[t] \cup lost[t]
          BY <2>1, <3>3, <3>4, <3>6, Zenon DEF LoopOk
      <4>3. QED
          BY <4>1, <4>2, Zenon
    <3>7. CASE j = id
      <4>1. z \in subs(id) \/ ~targets(log[t][id], who[z][2])
          BY <2>3, Zenon DEF Of
      <4>2. QED
          BY <3>1, <3>7, <4>1, Zenon
    <3>8. QED
        BY <1>t, <3>1, <3>2, <3>4, <3>5, <3>6, <3>7
  <2>4. CASE z \in conns /\ who[z][1] # t
    <3>1. pos'[who[z][1]] = pos[who[z][1]] /\ cur'[who[z][1]] = cur[who[z][1]] /\ fan'[who[z][1]] = fan[who[z][1]]
        BY <1>t, <2>1, <2>4, Zenon DEF LoopTypeOK
    <3>2. QED
        BY <1>h, <2>2, <3>1, Zenon DEF MissOk, Got
  <2>5. QED
      BY <2>2, <2>3, <2>4, Zenon DEF MissOk
<1>6. ASSUME NEW t \in Streams, NEW s \in fan[t], PushLive(t, s) PROVE MissOk(z)'
  <2>1. Push(s, cur[t]) /\ s \in Conns /\ cur[t] \in Nat /\ UNCHANGED <<log, lost, pos, conns, who, phase, since>>
      BY <1>6, Zenon DEF PushLive, LoopTypeOK, streamVars, regVars
  <2>2. /\ fan' = [fan EXCEPT ![t] = @ \ {s}] /\ cur' = IF fan[t] = {s} THEN [cur EXCEPT ![t] = 0] ELSE cur
        /\ doomed' = IF ~Skips(s, cur[t]) /\ Full(s) THEN doomed \cup {s} ELSE doomed
      BY <1>6, Zenon DEF PushLive
  <2>3. cur[t] # 0 /\ cur[t] = pos[t] /\ who[s][1] = t
      BY Zenon DEF LoopInv, LoopOk, Wired
  <2>4. \A id : Got(z, id) => Got(z, id)'
    <3>1. sent[z] \in Seq(Nat) /\ (sent'[z] = sent[z] \/ sent'[z] = Append(sent[z], cur[t]))
        BY <2>1, PushEffect, Zenon DEF ConnTypeOK
    <3>2. SUFFICES ASSUME NEW id, NEW k \in DOMAIN sent[z], sent[z][k] = id PROVE k \in DOMAIN sent'[z] /\ sent'[z][k] = id
        BY Zenon DEF Got
    <3>3. CASE sent'[z] = sent[z]
        BY <3>2, <3>3, Zenon
    <3>4. CASE sent'[z] = Append(sent[z], cur[t])
      <4>1. k \in 1 .. Len(sent[z]) /\ Len(sent[z]) \in Nat
          BY <3>1, <3>2
      <4>2. DOMAIN sent'[z] = 1 .. Len(sent[z]) + 1 /\ sent'[z][k] = sent[z][k]
          BY <2>1, <3>1, <3>4, <4>1
      <4>3. QED
          BY <3>2, <4>1, <4>2
    <3>5. QED
        BY <3>1, <3>3, <3>4, Zenon
  <2>5. CASE z = s
    <3>1. SUFFICES ASSUME z \in conns, z \notin doomed', phase[z] = "open", NEW id \in since[z] + 1 .. pos[t]
                   PROVE  id \in lost[t] \/ ~targets(log[t][id], who[z][2]) \/ Got(z, id)'
        BY <2>1, <2>3, <2>5, Zenon DEF MissOk
    <3>2. z \notin doomed
        BY <2>2, <3>1, Zenon
    <3>3. id \in lost[t] \/ ~targets(log[t][id], who[z][2]) \/ (cur[t] = id /\ z \in fan[t]) \/ Got(z, id)
        BY <1>h, <2>3, <2>5, <3>1, <3>2, Zenon DEF MissOk
    <3>4. ASSUME cur[t] = id PROVE Got(z, id)'
      <4>1. FollowsOk(z)
          BY Zenon DEF Tracked
      <4>2. ~Skips(s, cur[t])
          BY <1>t, <2>3, <2>5, <3>1, <3>4, <4>1 DEF FollowsOk, Skips
      <4>3. ~Full(s)
          BY <2>2, <2>5, <3>1, <4>2, Zenon
      <4>4. sent'[s] = Append(sent[s], cur[t]) /\ sent[s] \in Seq(Nat)
          BY <2>1, <4>2, <4>3, PushEffect, Zenon DEF ConnTypeOK
      <4>5. QED
          BY <2>1, <2>5, <3>4, <4>4 DEF Got
    <3>5. QED
        BY <2>4, <3>3, <3>4, Zenon
  <2>6. CASE z # s
    <3>1. \A x \in Streams : z \in fan[x] => z \in fan'[x] /\ cur'[x] = cur[x]
        BY <2>2, <2>6, Zenon DEF LoopTypeOK
    <3>2. z \notin doomed' => z \notin doomed
        BY <2>2, Zenon
    <3>3. QED
        BY <1>t, <1>h, <2>1, <2>4, <3>1, <3>2, Zenon DEF MissOk
  <2>7. QED
      BY <2>5, <2>6, Zenon
<1>7. ASSUME NEW s \in Conns, NEW t \in Streams, NEW u \in Users, NEW id \in 0 .. Len(log[t]), Subscribe(s, t, u, id) PROVE MissOk(z)'
  <2>1. /\ UNCHANGED <<log, lost, cur, fan, doomed, sent>> /\ conns' = conns \cup {s} /\ s \notin conns
        /\ pos' = (IF pos[t] < 0 THEN [pos EXCEPT ![t] = Len(log[t])] ELSE pos) /\ who' = [who EXCEPT ![s] = <<t, u>>]
        /\ since' = [since EXCEPT ![s] = Len(log[t])] /\ \A y \in Conns : y # s => phase'[y] = phase[y]
      BY <1>7, Zenon DEF Subscribe, Wired, ConnTypeOK, streamVars
  <2>2. CASE z = s
    <3>1. since'[z] = Len(log[t]) /\ who'[z] = <<t, u>>
        BY <2>1, <2>2, Zenon DEF ConnTypeOK, RegTypeOK
    <3>2. pos'[t] \in Int /\ pos'[t] <= Len(log[t])
        BY <1>t, <2>1 DEF Bounds, StreamBounds, LoopTypeOK
    <3>3. QED
        BY <1>t, <3>1, <3>2 DEF MissOk
  <2>3. CASE z # s
    <3>1. since'[z] = since[z] /\ who'[z] = who[z] /\ (z \in conns' => z \in conns)
        BY <2>1, <2>3, Zenon DEF ConnTypeOK, RegTypeOK
    <3>2. z \in conns => pos'[who[z][1]] = pos[who[z][1]]
        BY <1>t, <2>1 DEF LoopInv, LoopOk, LoopTypeOK
    <3>3. QED
        BY <1>t, <1>h, <2>1, <2>3, <3>1, <3>2, Zenon DEF MissOk, Got
  <2>4. QED
      BY <2>2, <2>3, Zenon
<1>8. ASSUME NEW s \in Conns, NEW t \in Streams, NEW u \in Users, SubscribeRefused(s, t, u) PROVE MissOk(z)'
    BY <1>t, <1>h, <1>8, Zenon DEF MissOk, SubscribeRefused, streamVars, loopVars, regVars, ConnTypeOK, Got
<1>9. ASSUME NEW s \in Conns, ReplayReset(s) PROVE MissOk(z)'
  <2>1. Push(s, 0) /\ phase[s] \in {"replay", "pushing"} /\ UNCHANGED <<log, lost, conns, doomed, who, pos, cur, fan>>
        /\ phase' = [phase EXCEPT ![s] = "open"] /\ since' = [since EXCEPT ![s] = Len(log[who[s][1]])]
      BY <1>9, Zenon DEF ReplayReset, Returned, streamVars, loopVars, regVars
  <2>2. z # s => sent'[z] = sent[z]
      BY <2>1, PushEffect, Zenon
  <2>3. CASE z = s
    <3>1. since'[z] = Len(log[who[z][1]])
        BY <2>1, <2>3, Zenon DEF ConnTypeOK
    <3>2. z \in conns => pos[who[z][1]] <= Len(log[who[z][1]])
        BY <1>t, Zenon DEF Bounds, StreamBounds
    <3>3. QED
        BY <1>t, <2>1, <3>1, <3>2 DEF MissOk
  <2>4. CASE z # s
    <3>1. since'[z] = since[z] /\ phase'[z] = phase[z]
        BY <2>1, <2>4, Zenon DEF ConnTypeOK
    <3>2. QED
        BY <1>h, <2>1, <2>2, <2>4, <3>1 DEF MissOk, Got
  <2>5. QED
      BY <2>3, <2>4, Zenon
<1>10. ASSUME NEW s \in Conns, ReplayRead(s) PROVE MissOk(z)'
    BY <1>t, <1>h, <1>10, Zenon DEF MissOk, ReplayRead, Missed, targets, streamVars, loopVars, regVars, ConnTypeOK, Got
<1>11. ASSUME NEW s \in Conns, ReplayPush(s) PROVE MissOk(z)'
  <2>1. PICK id \in todo[s] : Push(s, id)
      BY <1>11, Zenon DEF ReplayPush
  <2>2. id \in Nat /\ phase[s] = "pushing" /\ UNCHANGED <<log, lost, conns, doomed, who, pos, cur, fan, phase, since>>
      BY <1>11, <2>1, Zenon DEF ReplayPush, ConnTypeOK, streamVars, loopVars, regVars
  <2>3. z # s => sent'[z] = sent[z]
      BY <2>1, <2>2, PushEffect, Zenon
  <2>4. QED
      BY <1>h, <2>2, <2>3, Zenon DEF MissOk, Got
<1>12. ASSUME NEW s \in Conns, ReplayDone(s) PROVE MissOk(z)'
  <2>1. phase[s] \in {"replay", "pushing"} /\ UNCHANGED <<log, lost, conns, doomed, who, pos, cur, fan>>
        /\ phase' = [phase EXCEPT ![s] = "open"] /\ since' = [since EXCEPT ![s] = Len(log[who[s][1]])]
      BY <1>12, Zenon DEF ReplayDone, Returned, streamVars, loopVars, regVars
  <2>2. z # s => sent'[z] = sent[z]
      BY <1>12, Zenon DEF ReplayDone
  <2>3. CASE z = s
    <3>1. since'[z] = Len(log[who[z][1]])
        BY <2>1, <2>3, Zenon DEF ConnTypeOK
    <3>2. z \in conns => pos[who[z][1]] <= Len(log[who[z][1]])
        BY <1>t, Zenon DEF Bounds, StreamBounds
    <3>3. QED
        BY <1>t, <2>1, <3>1, <3>2 DEF MissOk
  <2>4. CASE z # s
    <3>1. since'[z] = since[z] /\ phase'[z] = phase[z]
        BY <2>1, <2>4, Zenon DEF ConnTypeOK
    <3>2. QED
        BY <1>h, <2>1, <2>2, <2>4, <3>1 DEF MissOk, Got
  <2>5. QED
      BY <2>3, <2>4, Zenon
<1>13. ASSUME NEW s \in Conns, Deliver(s) PROVE MissOk(z)'
    BY <1>13, <1>u, Zenon DEF Deliver, streamVars, loopVars, regVars
<1>c. ASSUME NEW s \in Conns, Close(s) /\ UNCHANGED <<log, lost, who, sent, since>> /\ doomed \ {s} \subseteq doomed' /\ (UNCHANGED phase \/ phase' = [phase EXCEPT ![s] = "ended"]) PROVE MissOk(z)'
  <2>1. conns' = conns \ {s}
      BY <1>c, CloseEffect, Zenon
  <2>2. ASSUME z \in conns' PROVE pos'[who[z][1]] = pos[who[z][1]] /\ cur'[who[z][1]] = cur[who[z][1]] /\ fan'[who[z][1]] = fan[who[z][1]]
      BY <1>t, <1>c, <2>1, <2>2, CloseEffect, Zenon
  <2>3. z \in conns' => phase'[z] = phase[z] /\ z # s
      BY <1>c, <2>1, Zenon DEF ConnTypeOK
  <2>4. QED
      BY <1>h, <1>c, <2>1, <2>2, <2>3, Zenon DEF MissOk, Got
<1>14. ASSUME NEW s \in Conns, Leave(s) PROVE MissOk(z)'
    BY <1>14, <1>c, Zenon DEF Leave, streamVars
<1>15. ASSUME NEW s \in Conns, CloseOne(s) PROVE MissOk(z)'
    BY <1>15, <1>c, Zenon DEF CloseOne, streamVars, connVars
<1>16. ASSUME NEW s \in Conns, CloseStalled(s) PROVE MissOk(z)'
    BY <1>16, <1>c, Zenon DEF CloseStalled, streamVars, connVars
<1>17. ASSUME HubClose PROVE MissOk(z)'
    BY <1>17, <1>u, Zenon DEF HubClose, streamVars, loopVars, connVars
<1>18. ASSUME UNCHANGED hubVars PROVE MissOk(z)'
    BY <1>18, <1>u, Zenon DEF hubVars, streamVars, loopVars, regVars, connVars
<1>q. QED
    BY <1>1, <1>2, <1>3, <1>4, <1>5, <1>6, <1>7, <1>8, <1>9, <1>10, <1>11, <1>12, <1>13, <1>14, <1>15, <1>16, <1>17, <1>18, Zenon DEF HubNext, ConnStep, LoopStep, Open
=============================================================================
