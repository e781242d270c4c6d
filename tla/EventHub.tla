------------------------------ MODULE EventHub ------------------------------
(***************************************************************************)
(* internal/stream: one Valkey stream of events per tenant, and the hub of *)
(* one service instance that fans it out to SSE connections.               *)
(*                                                                         *)
(* Entries are numbered from 1 in stream order; 0 stands for "no id", the  *)
(* id a reset event carries.  Every action is one critical section of a    *)
(* goroutine: Subscribe's registration, its replay one push at a time, the *)
(* tenant's read loop, the SSE writer of a connection, Hub.Close.          *)
(***************************************************************************)
EXTENDS Integers, Sequences, FiniteSets

CONSTANTS Streams,     \* tenants
          Users,
          Conns,       \* connections that may be opened
          Buffer,      \* connBuffer, 32
          MaxLen,      \* Config.MaxLen
          PerUser,     \* Config.StreamsPerUser
          PerTenant    \* Config.StreamsPerTenant

ASSUME HubAssumption ==
  /\ Buffer \in Nat \ {0} /\ MaxLen \in Nat \ {0} /\ PerUser \in Nat \ {0} /\ PerTenant \in Nat \ {0}
  /\ IsFiniteSet(Conns)

VARIABLES
  log,      \* what was ever appended to a stream: each entry is its set of recipients
  low,      \* entries up to here are trimmed
  aged,     \* entries up to here are older than the replay window
  pos,      \* the loop's last, or -1 when the tenant has no loop
  batch,    \* read and not yet dispatched
  cur,      \* the entry being fanned out, 0 for none
  fan,      \* the subscriptions it has still to be pushed to
  conns,    \* registered in tenantSub.conns, not closed
  byUser,   \* tenantSub.byUser
  phase,    \* of a connection: idle, replay, pushing, open, ended
  who,      \* its tenant and user
  from,     \* the Last-Event-ID it brought
  todo,     \* what its replay has still to push
  last,     \* Subscription.last
  sent,     \* the ids ever put into its channel
  taken,    \* how many of them the SSE writer has taken out
  doomed,   \* pushes to these failed; the loop is about to close them
  shut,     \* Hub.Close was called
  since,    \* history: the stream's length when Subscribe returned
  want,     \* history: the entries the replay read
  lost      \* history: the entries trimmed before the loop read them

streamVars == <<log, low, aged, lost>>
loopVars == <<pos, batch, cur, fan, doomed>>
regVars == <<conns, byUser, who, from, shut>>
connVars == <<phase, todo, last, sent, taken, since, want>>
hubVars == <<streamVars, loopVars, regVars, connVars>>

larger(a, b) == IF a < b THEN b ELSE a

HubInit ==
  /\ log = [t \in Streams |-> <<>>]
  /\ low = [t \in Streams |-> 0]
  /\ aged = [t \in Streams |-> 0]
  /\ lost = [t \in Streams |-> {}]
  /\ pos = [t \in Streams |-> -1]
  /\ batch = [t \in Streams |-> {}]
  /\ cur = [t \in Streams |-> 0]
  /\ fan = [t \in Streams |-> {}]
  /\ doomed = {}
  /\ conns = {}
  /\ byUser = [t \in Streams |-> [u \in Users |-> 0]]
  /\ who = [s \in Conns |-> <<>>]
  /\ from = [s \in Conns |-> 0]
  /\ shut = FALSE
  /\ phase = [s \in Conns |-> "idle"]
  /\ todo = [s \in Conns |-> {}]
  /\ last = [s \in Conns |-> 0]
  /\ sent = [s \in Conns |-> <<>>]
  /\ taken = [s \in Conns |-> 0]
  /\ since = [s \in Conns |-> 0]
  /\ want = [s \in Conns |-> {}]

Of(t) == {s \in conns : who[s][1] = t}

targets(to, user) == user \in to

(***************************************************************************)
(* The stream.                                                             *)
(***************************************************************************)
\* Everything up to n is gone; what the loop had not read is lost to it.
TrimTo(t, n) ==
  /\ low' = [low EXCEPT ![t] = larger(@, n)]
  /\ lost' = IF pos[t] < 0 THEN lost ELSE [lost EXCEPT ![t] = @ \cup ((pos[t] + 1 .. n) \ batch[t])]

\* XADD with its MAXLEN.
Append1(t, to) ==
  /\ log' = [log EXCEPT ![t] = Append(@, to)]
  /\ TrimTo(t, Len(log[t]) + 1 - MaxLen)
  /\ aged' = aged

PublishID(t, to) == Append1(t, to) /\ UNCHANGED <<loopVars, regVars, connVars>>

\* Time passes: one more entry leaves the replay window.
Age(t) ==
  /\ aged[t] < Len(log[t])
  /\ aged' = [aged EXCEPT ![t] = @ + 1]
  /\ UNCHANGED <<log, low, lost, loopVars, regVars, connVars>>

(***************************************************************************)
(* Subscribing.                                                            *)
(***************************************************************************)
\* Under Hub.mu.  The first subscription of a tenant starts the loop after the tail.
Subscribe(s, t, u, id) ==
  /\ phase[s] = "idle" /\ ~shut
  /\ byUser[t][u] < PerUser /\ Cardinality(Of(t)) < PerTenant
  /\ pos' = IF pos[t] < 0 THEN [pos EXCEPT ![t] = Len(log[t])] ELSE pos
  /\ conns' = conns \cup {s}
  /\ byUser' = [byUser EXCEPT ![t][u] = @ + 1]
  /\ who' = [who EXCEPT ![s] = <<t, u>>]
  /\ from' = [from EXCEPT ![s] = id]
  /\ phase' = [phase EXCEPT ![s] = IF id = 0 THEN "open" ELSE "replay"]
  /\ since' = [since EXCEPT ![s] = Len(log[t])]
  /\ UNCHANGED <<streamVars, batch, cur, fan, doomed, shut, todo, last, sent, taken, want>>

\* ErrTooMany, the hub is closed, or the stream's tail cannot be read to start a loop.
SubscribeRefused(s, t, u) ==
  /\ phase[s] = "idle"
  /\ shut \/ pos[t] < 0 \/ byUser[t][u] >= PerUser \/ Cardinality(Of(t)) >= PerTenant
  /\ phase' = [phase EXCEPT ![s] = "ended"]
  /\ UNCHANGED <<streamVars, loopVars, regVars, todo, last, sent, taken, since, want>>

Full(s) == Len(sent[s]) - taken[s] >= Buffer

\* Already delivered, or the subscription is closed.
Skips(s, id) == s \notin conns \/ (id # 0 /\ id <= last[s])

\* Mutant of Push: last is not consulted.
PushAgain(s, id) ==
  /\ last' = IF id = 0 THEN last ELSE [last EXCEPT ![s] = id]
  /\ sent' = IF Full(s) THEN sent ELSE [sent EXCEPT ![s] = Append(@, id)]

\* Subscription.push: last moves even when the channel is full.
Push(s, id) ==
  IF Skips(s, id) THEN UNCHANGED <<last, sent>>
  ELSE /\ last' = IF id = 0 THEN last ELSE [last EXCEPT ![s] = id]
       /\ sent' = IF Full(s) THEN sent ELSE [sent EXCEPT ![s] = Append(@, id)]

\* Subscribe returns: the SSE writer starts.
Returned(s) ==
  /\ phase' = [phase EXCEPT ![s] = "open"]
  /\ since' = [since EXCEPT ![s] = Len(log[who[s][1]])]

\* The id is older than the window, or the stream cannot be read.
ReplayReset(s) ==
  /\ phase[s] = "replay"
  /\ Push(s, 0)
  /\ Returned(s)
  /\ UNCHANGED <<streamVars, loopVars, regVars, todo, taken, want>>

\* What the stream still has after the id, for this user.
Missed(s) ==
  LET t == who[s][1]
  IN {k \in 1 .. Len(log[t]) : low[t] < k /\ from[s] < k /\ targets(log[t][k], who[s][2])}

ReplayRead(s) ==
  /\ phase[s] = "replay" /\ from[s] > aged[who[s][1]]
  /\ phase' = [phase EXCEPT ![s] = "pushing"]
  /\ todo' = [todo EXCEPT ![s] = Missed(s)]
  /\ want' = [want EXCEPT ![s] = Missed(s)]
  /\ UNCHANGED <<streamVars, loopVars, regVars, last, sent, taken, since>>

First(id, ids) == id \in ids /\ \A k \in ids : id <= k

\* One push of the replay, in stream order; its result is not looked at.
ReplayPush(s) ==
  /\ phase[s] = "pushing"
  /\ \E id \in todo[s] :
       First(id, todo[s]) /\ Push(s, id) /\ todo' = [todo EXCEPT ![s] = @ \ {id}]
  /\ UNCHANGED <<streamVars, loopVars, regVars, phase, taken, since, want>>

ReplayDone(s) ==
  /\ phase[s] = "pushing" /\ todo[s] = {}
  /\ Returned(s)
  /\ UNCHANGED <<streamVars, loopVars, regVars, todo, last, sent, taken, want>>

(***************************************************************************)
(* Closing.                                                                *)
(***************************************************************************)
\* Mutant of Close: it runs as often as it is called.
CloseAgain(s) ==
  /\ conns' = conns \ {s}
  /\ byUser' = [byUser EXCEPT ![who[s][1]][who[s][2]] = @ - 1]
  /\ UNCHANGED <<pos, batch, cur, fan>>

\* Subscription.Close, which runs once: the tenant's last subscription stops its loop.
Close(s) ==
  LET t == who[s][1]
      gone == Of(t) = {s}
  IN IF s \notin conns THEN UNCHANGED <<conns, byUser, pos, batch, cur, fan>>
     ELSE /\ conns' = conns \ {s}
          /\ byUser' = [byUser EXCEPT ![t][who[s][2]] = @ - 1]
          /\ pos' = IF gone THEN [pos EXCEPT ![t] = -1] ELSE pos
          /\ batch' = IF gone THEN [batch EXCEPT ![t] = {}] ELSE batch
          /\ cur' = IF gone THEN [cur EXCEPT ![t] = 0] ELSE cur
          /\ fan' = IF gone THEN [fan EXCEPT ![t] = {}] ELSE fan

\* ServeSSE takes one event out of the channel; a closed channel is drained first.
Deliver(s) ==
  /\ phase[s] = "open" /\ taken[s] < Len(sent[s])
  /\ taken' = [taken EXCEPT ![s] = @ + 1]
  /\ UNCHANGED <<streamVars, loopVars, regVars, phase, todo, last, sent, since, want>>

\* The client leaves, the connection's age ends, or its closed channel is empty.
Leave(s) ==
  /\ phase[s] = "open"
  /\ phase' = [phase EXCEPT ![s] = "ended"]
  /\ Close(s)
  /\ UNCHANGED <<streamVars, doomed, who, from, shut, todo, last, sent, taken, since, want>>

HubClose ==
  /\ ~shut
  /\ shut' = TRUE
  /\ UNCHANGED <<streamVars, loopVars, conns, byUser, who, from, connVars>>

\* Hub.Close closes the subscriptions one by one.
CloseOne(s) ==
  /\ shut /\ s \in conns
  /\ Close(s)
  /\ UNCHANGED <<streamVars, doomed, who, from, shut, connVars>>

(***************************************************************************)
(* The loop of a tenant.                                                   *)
(***************************************************************************)
Idle(t) == pos[t] >= 0 /\ batch[t] = {} /\ cur[t] = 0 /\ doomed \cap Of(t) = {}

\* The ticker: XTRIM MINID drops what is older than the window.
Trim(t) ==
  /\ Idle(t) /\ ~shut /\ low[t] < aged[t]
  /\ TrimTo(t, aged[t])
  /\ UNCHANGED <<log, aged, loopVars, regVars, connVars>>

\* Mutant of XRead: it reads from the loop's last on, that entry included.
XReadFrom(t) ==
  /\ Idle(t) /\ ~shut /\ larger(pos[t], low[t]) < Len(log[t])
  /\ batch' = [batch EXCEPT ![t] = larger(pos[t], low[t]) .. Len(log[t])]
  /\ UNCHANGED <<streamVars, pos, cur, fan, doomed, regVars, connVars>>

\* XREAD after last; a read that fails is tried again.
XRead(t) ==
  /\ Idle(t) /\ ~shut /\ larger(pos[t], low[t]) < Len(log[t])
  /\ batch' = [batch EXCEPT ![t] = larger(pos[t], low[t]) + 1 .. Len(log[t])]
  /\ UNCHANGED <<streamVars, pos, cur, fan, doomed, regVars, connVars>>

\* dispatch's first half, under Hub.mu: who gets the next entry.
Collect(t) ==
  /\ cur[t] = 0 /\ doomed \cap Of(t) = {}
  /\ \E id \in batch[t] :
       LET subs == {s \in Of(t) : targets(log[t][id], who[s][2])}
       IN /\ First(id, batch[t])
          /\ pos' = [pos EXCEPT ![t] = id]
          /\ batch' = [batch EXCEPT ![t] = @ \ {id}]
          /\ fan' = [fan EXCEPT ![t] = subs]
          /\ cur' = [cur EXCEPT ![t] = IF subs = {} THEN 0 ELSE id]
  /\ UNCHANGED <<streamVars, doomed, regVars, connVars>>

\* Mutant of PushLive: a full channel goes unnoticed.
PushLiveDropping(t, s) ==
  /\ s \in fan[t] /\ doomed \cap Of(t) = {}
  /\ Push(s, cur[t])
  /\ fan' = [fan EXCEPT ![t] = @ \ {s}]
  /\ cur' = IF fan[t] = {s} THEN [cur EXCEPT ![t] = 0] ELSE cur
  /\ UNCHANGED <<streamVars, pos, batch, doomed, regVars, phase, todo, taken, since, want>>

\* dispatch's second half: a push that finds the channel full dooms the subscription.
PushLive(t, s) ==
  /\ s \in fan[t] /\ doomed \cap Of(t) = {}
  /\ Push(s, cur[t])
  /\ doomed' = IF ~Skips(s, cur[t]) /\ Full(s) THEN doomed \cup {s} ELSE doomed
  /\ fan' = [fan EXCEPT ![t] = @ \ {s}]
  /\ cur' = IF fan[t] = {s} THEN [cur EXCEPT ![t] = 0] ELSE cur
  /\ UNCHANGED <<streamVars, pos, batch, regVars, phase, todo, taken, since, want>>

CloseStalled(s) ==
  /\ s \in doomed
  /\ Close(s)
  /\ doomed' = doomed \ {s}
  /\ UNCHANGED <<streamVars, who, from, shut, connVars>>

(***************************************************************************)
(* The hub alone, with publishers that may address any users.              *)
(***************************************************************************)
ConnStep(s) ==
  ReplayReset(s) \/ ReplayRead(s) \/ ReplayPush(s) \/ ReplayDone(s) \/ Deliver(s) \/ Leave(s) \/ CloseOne(s) \/ CloseStalled(s)

LoopStep(t) == Trim(t) \/ XRead(t) \/ Collect(t) \/ \E s \in fan[t] : PushLive(t, s)

Open(s, t, u) == (\E id \in 0 .. Len(log[t]) : Subscribe(s, t, u, id)) \/ SubscribeRefused(s, t, u)

HubNext ==
  \/ \E t \in Streams, to \in SUBSET Users : PublishID(t, to)
  \/ \E t \in Streams : Age(t) \/ LoopStep(t)
  \/ \E s \in Conns, t \in Streams, u \in Users : Open(s, t, u)
  \/ \E s \in Conns : ConnStep(s)
  \/ HubClose

HubSpec == HubInit /\ [][HubNext]_hubVars

(***************************************************************************)
(* Properties.                                                             *)
(***************************************************************************)
StreamTypeOK ==
  /\ log \in [Streams -> Seq(SUBSET Users)] /\ low \in [Streams -> Nat] /\ aged \in [Streams -> Nat]
  /\ lost \in [Streams -> SUBSET Int]

LoopTypeOK ==
  /\ pos \in [Streams -> Int] /\ batch \in [Streams -> SUBSET (Nat \ {0})] /\ cur \in [Streams -> Nat]
  /\ fan \in [Streams -> SUBSET Conns] /\ doomed \subseteq Conns

RegTypeOK ==
  /\ conns \subseteq Conns /\ byUser \in [Streams -> [Users -> Int]] /\ shut \in BOOLEAN
  /\ who \in [Conns -> (Streams \X Users) \cup {<<>>}] /\ from \in [Conns -> Nat]

ConnTypeOK ==
  /\ phase \in [Conns -> {"idle", "replay", "pushing", "open", "ended"}] /\ todo \in [Conns -> SUBSET (Nat \ {0})]
  /\ last \in [Conns -> Nat] /\ sent \in [Conns -> Seq(Nat)] /\ taken \in [Conns -> Nat]
  /\ since \in [Conns -> Nat] /\ want \in [Conns -> SUBSET Nat]

\* The shape of the hub's variables.
HubTypeOK == StreamTypeOK /\ LoopTypeOK /\ RegTypeOK /\ ConnTypeOK

\* What a connection is sent is in stream order and without repetition, although its
\* replay and the tenant's loop push to it concurrently (Subscription.last).
InOrder ==
  \A s \in Conns : \A i, j \in DOMAIN sent[s] : (i < j /\ sent[s][i] # 0 /\ sent[s][j] # 0) => sent[s][i] < sent[s][j]

\* The per-user counters equal the open subscriptions, so the limits neither leak
\* slots nor let more in, however often and by whom a subscription is closed.
CountersExact ==
  \A t \in Streams, u \in Users : byUser[t][u] = Cardinality({s \in conns : who[s] = <<t, u>>})

\* Nothing published once Subscribe has returned is missed: when the loop is past an
\* entry for the user, the entry is in the connection's channel or was, or the
\* connection is closed or about to be.  Entries trimmed before the loop could read
\* them are out of its reach.
NothingMissed ==
  \A s \in conns \ doomed :
    LET t == who[s][1]
    IN phase[s] = "open" =>
         \A id \in since[s] + 1 .. pos[t] :
           \/ id \in lost[t] \/ ~targets(log[t][id], who[s][2])
           \/ cur[t] = id /\ s \in fan[t]
           \/ \E k \in DOMAIN sent[s] : sent[s][k] = id

\* A Subscribe that returned with a replay has queued every event the replay read
\* ("lastID replays the missed events inside the window").
ReplayComplete ==
  \A s \in conns : phase[s] = "open" => \A id \in want[s] : \E k \in DOMAIN sent[s] : sent[s][k] = id

=============================================================================
