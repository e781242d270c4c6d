------------------------- MODULE KvmSessionsProofs -------------------------
(***************************************************************************)
(* Proofs about KvmSessions, for any number of BMCs, session objects,      *)
(* logins, tokens and requests.                                            *)
(***************************************************************************)
EXTENDS KvmSessions, FiniteSetTheorems, TLAPS

InMap(s) == \E k \in Keys : current[k] = s

LoggingIn == {"login", "relogin"}

\* A StartSession call runs exactly while its token is "starting"; whatever
\* uses a session uses an allocated one.
ThreadInv ==
    /\ \A t \in Tokens :
         /\ pc[t] \in {"idle", "auth", "login", "have", "failed"}
         /\ pc[t] # "idle" <=> entry[t] = "starting"
         /\ entry[t] \in Holding => target[t] \in made
    /\ \A r \in Requests : pc[r] # "failed" /\ (pc[r] # "idle" => target[r] \in made)

\* Sessions in the map are allocated, unclosed and not on their way out, each
\* under one key; Close empties the map for good.
MapInv ==
    /\ \A k \in Keys : current[k] # NoSession =>
         /\ current[k] \in made
         /\ current[k] \notin closed \cup dead \cup retiring
         /\ shut = "serving"
    /\ \A k, i \in Keys : current[k] # NoSession /\ current[k] = current[i] => k = i

\* An allocated session is in the map, on its way out, or closed.
PlaceInv ==
    \A s \in Sessions :
        /\ s \in made => InMap(s) \/ s \in closed \cup dead \cup retiring
        /\ s \notin made => /\ auth[s] = NoLogin /\ refs[s] = 0
                            /\ s \notin closed \cup dead \cup retiring

HoldInv ==
    shut = "serving" => \A t \in Tokens : entry[t] \in Holding => InMap(target[t])

\* Who is logging in does so for an unclosed session without a login.
LoginInv ==
    \A x \in Threads : pc[x] \in LoggingIn => target[x] \notin closed /\ auth[target[x]] = NoLogin

\* A session's login is open, not being ended, and the session's alone.
AuthInv ==
    /\ \A s \in Sessions : auth[s] # NoLogin =>
         s \notin closed /\ auth[s] \in open \ (dropped \cup loggingOut)
    /\ \A s, z \in Sessions : auth[s] # NoLogin /\ auth[s] = auth[z] => s = z

\* Open logins belong to a session or are being ended, by one goroutine.
OutInv ==
    /\ dropped \cap loggingOut = {}
    /\ dropped \cup loggingOut \subseteq open
    /\ \A l \in open \ (dropped \cup loggingOut) : \E s \in Sessions : auth[s] = l

MapsInv   == ThreadInv /\ MapInv /\ PlaceInv /\ HoldInv /\ RefsExact
LoginsInv == LoginInv /\ OneLoginAtATime /\ AuthInv /\ OutInv

\* The inductive invariant.
IndInv == TypeOK /\ MapsInv /\ LoginsInv

(***************************************************************************)
(* Counting                                                                *)
(***************************************************************************)
\* Removing some holders of a session lowers their number by as many.
LEMMA CountRemoved ==
    ASSUME NEW S, IsFiniteSet(S), NEW T \in SUBSET S
    PROVE  /\ IsFiniteSet(S \ T)
           /\ Cardinality(S \ T) = Cardinality(S) - Cardinality(T)
           /\ Cardinality(S) \in Nat /\ Cardinality(T) \in Nat
           /\ Cardinality(T) > 0 <=> T # {}
           /\ Cardinality(S) <= Cardinality(T) => S = T
<1>1. IsFiniteSet(T) /\ Cardinality(T) <= Cardinality(S) /\ (Cardinality(S) = Cardinality(T) => S = T)
  BY FS_Subset, Zenon
<1>2. IsFiniteSet(S \ T)
  BY FS_Subset, S \ T \in SUBSET S, Zenon
<1>3. Cardinality(S) \in Nat /\ Cardinality(T) \in Nat /\ Cardinality(S \ T) \in Nat
  BY <1>1, <1>2, FS_CardinalityType, Zenon
<1>4. Cardinality((S \ T) \cup T) = Cardinality(S \ T) + Cardinality(T) - Cardinality((S \ T) \cap T)
  BY <1>1, <1>2, FS_Union, Zenon
<1>5. (S \ T) \cup T = S /\ (S \ T) \cap T = {}
  OBVIOUS
<1>6. Cardinality({}) = 0 /\ (Cardinality(T) = 0 <=> T = {})
  BY <1>1, FS_EmptySet, Zenon
<1>7. Cardinality(S) = Cardinality(S \ T) + Cardinality(T)
  <2>1. Cardinality((S \ T) \cup T) = Cardinality(S)
    BY <1>5, Zenon
  <2>2. Cardinality((S \ T) \cap T) = 0
    BY <1>5, <1>6, Zenon
  <2> QED
    BY <1>3, <1>4, <2>1, <2>2
<1>8. Cardinality(S \ T) = Cardinality(S) - Cardinality(T)
  BY <1>3, <1>7
<1>9. Cardinality(T) > 0 <=> T # {}
  BY <1>3, <1>6
<1>10. Cardinality(S) <= Cardinality(T) => S = T
  BY <1>1, <1>3
<1> QED
  BY <1>2, <1>3, <1>8, <1>9, <1>10, Zenon

\* The holders of a session are finitely many.
LEMMA HoldersFinite ==
    ASSUME NEW s
    PROVE  IsFiniteSet(Holders(s)) /\ Cardinality(Holders(s)) \in Nat
<1>1. Holders(s) \in SUBSET Tokens
  BY Zenon DEF Holders
<1> QED
  BY <1>1, KvmConstantsOK, FS_Subset, FS_CardinalityType, Zenon

\* releaseLocked for tokens that hold references keeps the map's part of the
\* invariant: a session leaves the map exactly when its last holder does.
LEMMA ReleaseKeeps ==
    ASSUME IndInv, NEW gone \in SUBSET {t \in Tokens : entry[t] \in Holding},
           releaseLocked(gone),
           \A t \in Tokens : target'[t] = target[t]
                          /\ (entry'[t] \in Holding <=> entry[t] \in Holding /\ t \notin gone),
           UNCHANGED <<made, auth, closed, retiring, shut>>
    PROVE  /\ current' \in [Keys -> Sessions \cup {NoSession}]
           /\ refs' \in [Sessions -> Int]
           /\ dead' \subseteq Sessions
           /\ MapInv' /\ PlaceInv' /\ HoldInv' /\ RefsExact'
<1> DEFINE G(s) == {t \in gone : target[t] = s}
<1> USE DEF IndInv, MapsInv
<1>1. ASSUME NEW s \in Sessions
      PROVE  /\ G(s) \in SUBSET Holders(s)
             /\ Holders(s)' = Holders(s) \ G(s)
             /\ Releases(gone, s) = Cardinality(G(s))
             /\ Releases(gone, s) \in Nat
             /\ Releases(gone, s) > 0 <=> G(s) # {}
             /\ Cardinality(Holders(s)) \in Nat
             /\ Cardinality(Holders(s)') = Cardinality(Holders(s)) - Releases(gone, s)
             /\ Cardinality(Holders(s)) <= Releases(gone, s) => Holders(s) = G(s)
  <2>1. G(s) \in SUBSET Holders(s) /\ Holders(s)' = Holders(s) \ G(s)
    BY Zenon DEF Holders
  <2>2. Releases(gone, s) = Cardinality(G(s))
    BY Zenon DEF Releases
  <2>3. IsFiniteSet(Holders(s)) /\ Cardinality(Holders(s)) \in Nat
    BY HoldersFinite, Zenon
  <2>4. /\ Cardinality(Holders(s) \ G(s)) = Cardinality(Holders(s)) - Cardinality(G(s))
        /\ Cardinality(G(s)) \in Nat
        /\ Cardinality(G(s)) > 0 <=> G(s) # {}
        /\ Cardinality(Holders(s)) <= Cardinality(G(s)) => Holders(s) = G(s)
    BY <2>1, <2>3, CountRemoved, Zenon
  <2>5. Cardinality(Holders(s)') = Cardinality(Holders(s) \ G(s))
    BY <2>1, Zenon
  <2> HIDE DEF G
  <2> QED
    BY <2>1, <2>2, <2>3, <2>4, <2>5, Zenon
<1> HIDE DEF G
<1>2. refs' \in [Sessions -> Int] /\ \A s \in Sessions : refs'[s] = refs[s] - Releases(gone, s)
  <2>1. \A s \in Sessions : Releases(gone, s) \in Nat
    BY <1>1, Zenon
  <2>2. refs' = [s \in Sessions |-> refs[s] - Releases(gone, s)]
    BY Zenon DEF releaseLocked
  <2>3. ASSUME NEW s \in Sessions PROVE refs[s] - Releases(gone, s) \in Int
    <3>1. refs[s] \in Int
      BY Zenon DEF TypeOK
    <3> QED
      BY <2>1, <3>1
  <2> QED
    BY <2>2, <2>3, Zenon
<1>3. /\ current' \in [Keys -> Sessions \cup {NoSession}] /\ dead' \subseteq Sessions
      /\ \A k \in Keys : current'[k] = IF current[k] \in Released(gone) THEN NoSession ELSE current[k]
      /\ dead' = dead \cup Released(gone)
      /\ Released(gone) \subseteq Sessions
  BY Zenon DEF releaseLocked, Released, TypeOK
<1>4. \A s \in Sessions : s \in Released(gone) <=> Releases(gone, s) > 0 /\ refs[s] <= Releases(gone, s)
  BY Zenon DEF Released
<1>5. \A s \in Released(gone) : s \in made
  <2> SUFFICES ASSUME NEW s \in Sessions, Releases(gone, s) > 0 PROVE s \in made
    BY <1>4, Zenon DEF Released
  <2>1. PICK t \in Holders(s) : TRUE
    BY <1>1, Zenon
  <2> QED
    BY <2>1, Zenon DEF ThreadInv, Holders
<1>6. MapInv'
  BY <1>3, KvmConstantsOK, Zenon DEF MapInv
<1>7. PlaceInv'
  <2>1. \A s \in Sessions : s \notin made => refs'[s] = 0
    <3> SUFFICES ASSUME NEW s \in Sessions, s \notin made PROVE refs'[s] = 0
      OBVIOUS
    <3>1. Holders(s) = {} /\ refs[s] = 0
      BY Zenon DEF ThreadInv, PlaceInv, Holders
    <3>2. Releases(gone, s) = 0
      BY <1>1, <3>1, Zenon
    <3> QED
      BY <1>2, <3>1, <3>2
  <2>2. \A s \in Sessions : InMap(s) /\ s \notin Released(gone) => InMap(s)'
    BY <1>3, Zenon DEF InMap
  <2> QED
    BY <1>3, <1>5, <2>1, <2>2, Zenon DEF PlaceInv
<1>8. RefsExact'
  <2> SUFFICES ASSUME NEW k \in Keys, current'[k] # NoSession
               PROVE  /\ refs'[current'[k]] = Cardinality(Holders(current[k])')
                      /\ refs'[current'[k]] > 0
    BY Zenon DEF RefsExact
  <2>1. current'[k] = current[k] /\ current[k] \notin Released(gone) /\ current[k] \in Sessions
    BY <1>3, Zenon DEF TypeOK
  <2>2. refs[current[k]] = Cardinality(Holders(current[k])) /\ refs[current[k]] > 0
    BY <2>1, Zenon DEF RefsExact
  <2> DEFINE s == current[k]
  <2>3. /\ Cardinality({t \in Tokens : entry'[t] \in Holding /\ target'[t] = s})
              = Cardinality(Holders(s)) - Releases(gone, s)
        /\ Releases(gone, s) \in Nat
    BY <1>1, <2>1, Zenon DEF Holders
  <2>4. {t \in Tokens : entry'[t] \in Holding /\ target'[t] = s} = Holders(current[k])'
    BY <2>1, Zenon DEF Holders
  <2>5. s \in Sessions /\ s \notin Released(gone) /\ refs[s] \in Int
    BY <2>1, Zenon DEF TypeOK
  <2> HIDE DEF s
  <2>6. refs'[s] = refs[s] - Releases(gone, s)
    BY <1>2, <2>5, Zenon
  <2>7. Releases(gone, s) = 0 \/ refs[s] > Releases(gone, s)
    BY <1>4, <2>3, <2>5
  <2>8. refs[s] = Cardinality(Holders(s)) /\ refs[s] > 0
    BY <2>2, Zenon DEF s
  <2>9. refs'[s] = Cardinality({t \in Tokens : entry'[t] \in Holding /\ target'[t] = s}) /\ refs'[s] > 0
    BY <2>3, <2>5, <2>6, <2>7, <2>8
  <2> QED
    BY <2>1, <2>4, <2>9, Zenon DEF s
<1>9. HoldInv'
  <2> SUFFICES ASSUME shut = "serving", NEW t \in Tokens, entry'[t] \in Holding PROVE InMap(target[t])'
    BY Zenon DEF HoldInv, InMap
  <2>1. entry[t] \in Holding /\ t \notin gone /\ target[t] \in Sessions
    BY Zenon DEF TypeOK, Threads
  <2>2. PICK k \in Keys : current[k] = target[t]
    BY <2>1, Zenon DEF HoldInv, InMap
  <2>3. t \in Holders(target[t]) /\ t \notin G(target[t])
    BY <2>1, Zenon DEF Holders, G
  <2>4. refs[target[t]] = Cardinality(Holders(target[t]))
    BY <2>1, <2>2, KvmConstantsOK, Zenon DEF RefsExact
  <2>5. target[t] \notin Released(gone)
    BY <1>1, <1>4, <2>1, <2>3, <2>4, Zenon
  <2>6. current'[k] = target[t]
    BY <1>3, <2>2, <2>5, Zenon
  <2> QED
    BY <2>6, Zenon DEF InMap
<1> QED
  BY <1>2, <1>3, <1>6, <1>7, <1>8, <1>9, Zenon

(***************************************************************************)
(* Frames                                                                  *)
(***************************************************************************)
\* The login part is kept by a step that touches no login and starts none.
LEMMA LoginsFrame ==
    ASSUME IndInv, UNCHANGED <<auth, closed, open, dropped, loggingOut>>,
           \A x \in Threads : pc'[x] \in LoggingIn =>
               pc[x] \in LoggingIn /\ target'[x] = target[x]
    PROVE  LoginsInv'
<1> USE DEF IndInv, LoginsInv
<1>1. LoginInv'
  BY Zenon DEF LoginInv
<1>2. OneLoginAtATime'
  BY Zenon DEF OneLoginAtATime, LoggingIn
<1>3. AuthInv' /\ OutInv'
  BY Zenon DEF AuthInv, OutInv
<1> QED
  BY <1>1, <1>2, <1>3, Zenon

\* The map's part is kept by a step that touches neither map nor queues.
LEMMA MapsFrame ==
    ASSUME IndInv, UNCHANGED <<current, made, refs, entry, closed, dead, retiring, shut>>,
           \A t \in Tokens : target'[t] = target[t],
           \A s \in Sessions : s \notin made => auth'[s] = NoLogin
    PROVE  MapInv' /\ PlaceInv' /\ HoldInv' /\ RefsExact'
<1> USE DEF IndInv, MapsInv
<1>1. MapInv'
  BY Zenon DEF MapInv
<1>2. PlaceInv'
  BY Zenon DEF PlaceInv, InMap
<1>3. HoldInv'
  BY Zenon DEF HoldInv, InMap
<1>4. \A s : Holders(s)' = Holders(s)
  BY Zenon DEF Holders
<1>5. RefsExact'
  BY <1>4, Zenon DEF RefsExact
<1> QED
  BY <1>1, <1>2, <1>3, <1>5, Zenon

\* Tokens are threads whose target is a session.
LEMMA ThreadTypes ==
    ASSUME TypeOK
    PROVE  /\ \A x \in Threads : pc[x] \in PCs /\ target[x] \in Sessions
           /\ Tokens \subseteq Threads /\ Requests \subseteq Threads
           /\ \A t \in Tokens, r \in Requests : t # r
BY KvmConstantsOK, Zenon DEF TypeOK, Threads

(***************************************************************************)
(* The initial state and every action                                      *)
(***************************************************************************)
\* The initial state satisfies the inductive invariant.
LEMMA InitIndInv == Init => IndInv
<1> SUFFICES ASSUME Init PROVE IndInv
  OBVIOUS
<1> USE KvmConstantsOK DEF Init
<1>1. TypeOK
  BY DEF TypeOK, PCs, Holding, Listed
<1>2. ThreadInv
  BY Zenon DEF ThreadInv, Holding, Listed, Threads
<1>3. MapInv /\ PlaceInv /\ HoldInv /\ RefsExact
  BY Zenon DEF MapInv, PlaceInv, HoldInv, RefsExact, Holding, Listed
<1>4. LoginsInv
  BY Zenon DEF LoginsInv, LoginInv, OneLoginAtATime, AuthInv, OutInv, LoggingIn
<1> QED
  BY <1>1, <1>2, <1>3, <1>4, Zenon DEF IndInv, MapsInv

\* A sessionAuth that does not succeed by a new login changes only its thread.
LEMMA SessionAuthKeeps ==
    ASSUME IndInv, NEW x \in Threads, sessionAuth(x)
    PROVE  IndInv'
<1> USE DEF IndInv, MapsInv
<1>1. pc[x] \in {"auth", "reauth"} /\ ~Locked(target[x]) /\ target[x] \in Sessions
  BY ThreadTypes, Zenon DEF sessionAuth
<1>2. UNCHANGED <<current, made, refs, entry, target, auth, closed, open, used, dead, retiring,
                  dropped, loggingOut, expired, aged, shut>>
  BY Zenon DEF sessionAuth, maps, logins, retirees, clock
<1>3. PICK p : /\ pc' = [pc EXCEPT ![x] = p]
               /\ p \in {"failed", "idle", "have", "login", "relogin"}
               /\ p = "failed" => x \in Tokens
               /\ p = "idle" => x \in Requests \/ pc[x] = "reauth"
               /\ p = "relogin" => pc[x] = "reauth"
               /\ p \in LoggingIn => target[x] \notin closed /\ auth[target[x]] = NoLogin
  BY <1>1 DEF sessionAuth, AfterFail, AfterAuth, Ended, Threads, LoggingIn
<1>4. held' \in [Threads -> Logins \cup {NoLogin}]
  BY <1>1, Zenon DEF sessionAuth, TypeOK
<1>5. TypeOK'
  BY <1>2, <1>3, <1>4, Zenon DEF TypeOK, PCs
<1>6. ThreadInv'
  BY <1>1, <1>2, <1>3, ThreadTypes, Zenon DEF ThreadInv, TypeOK
<1>7. MapInv' /\ PlaceInv' /\ HoldInv' /\ RefsExact'
  BY <1>2, MapsFrame, Zenon DEF PlaceInv
<1>8. LoginsInv'
  <2>1. \A y \in Threads : y # x => pc'[y] = pc[y]
    BY <1>3, Zenon DEF TypeOK
  <2>2. pc'[x] = p
    BY <1>3, Zenon DEF TypeOK
  <2>3. LoginInv'
    BY <1>2, <1>3, <2>1, <2>2, Zenon DEF LoginInv, LoginsInv
  <2>4. OneLoginAtATime'
    BY <1>1, <1>2, <2>1 DEF OneLoginAtATime, LoginsInv, Locked
  <2>5. AuthInv' /\ OutInv'
    BY <1>2, Zenon DEF AuthInv, OutInv, LoginsInv
  <2> QED
    BY <2>3, <2>4, <2>5, Zenon DEF LoginsInv
<1> QED
  BY <1>5, <1>6, <1>7, <1>8, Zenon

\* A new login goes to the one session being logged in, which is not closed.
LEMMA LoginSucceedsKeeps ==
    ASSUME IndInv, NEW x \in Threads, LoginSucceeds(x)
    PROVE  IndInv'
<1> USE DEF IndInv, MapsInv
<1>1. pc[x] \in LoggingIn /\ target[x] \in Sessions /\ target[x] \in made
  BY ThreadTypes, Zenon DEF LoginSucceeds, LoggingIn, ThreadInv, Holding, Threads
<1>2. PICK l \in Logins \ used :
        /\ auth' = [auth EXCEPT ![target[x]] = l]
        /\ held' = [held EXCEPT ![x] = l]
        /\ open' = open \cup {l}
        /\ used' = used \cup {l}
  BY Zenon DEF LoginSucceeds
<1>3. UNCHANGED <<current, made, refs, entry, target, closed, dead, retiring,
                  dropped, loggingOut, expired, aged, shut>>
  BY Zenon DEF LoginSucceeds, maps, retirees, clock
<1>4. /\ pc' = [pc EXCEPT ![x] = AfterAuth(x)]
      /\ AfterAuth(x) \in {"have", "idle"}
      /\ AfterAuth(x) = "idle" => pc[x] = "relogin"
  BY <1>1, Zenon DEF LoginSucceeds, AfterAuth, LoggingIn
<1>5. TypeOK'
  BY <1>1, <1>2, <1>3, <1>4, Zenon DEF TypeOK, PCs
<1>6. ThreadInv'
  BY <1>1, <1>3, <1>4, ThreadTypes, Zenon DEF ThreadInv, TypeOK, LoggingIn
<1>7. MapInv' /\ PlaceInv' /\ HoldInv' /\ RefsExact'
  <2>1. \A s \in Sessions : s \notin made => auth'[s] = NoLogin
    BY <1>1, <1>2, Zenon DEF PlaceInv, TypeOK
  <2> QED
    BY <1>3, <2>1, MapsFrame, Zenon
<1>8. LoginsInv'
  <2> USE DEF LoginsInv
  <2>1. \A y \in Threads : y # x => pc'[y] = pc[y]
    BY <1>4, Zenon DEF TypeOK
  <2>2. pc'[x] \notin LoggingIn
    BY <1>4, Zenon DEF TypeOK, LoggingIn
  <2>3. \A s \in Sessions : auth'[s] = IF s = target[x] THEN l ELSE auth[s]
    BY <1>2, Zenon DEF TypeOK
  <2>4. \A y \in Threads : pc'[y] \in LoggingIn => pc[y] \in LoggingIn /\ target[y] # target[x]
    BY <1>1, <2>1, <2>2, SMTT(30) DEF OneLoginAtATime, LoggingIn
  <2>5. LoginInv'
    BY <1>3, <2>3, <2>4, ThreadTypes, Zenon DEF LoginInv
  <2>6. OneLoginAtATime'
    BY <1>3, <2>4, <2>1, Zenon DEF OneLoginAtATime, LoggingIn
  <2>7. l \notin open /\ l \notin dropped \cup loggingOut /\ \A s \in Sessions : auth[s] # l
    <3>1. l \notin used /\ l # NoLogin
      BY <1>2, KvmConstantsOK, Zenon
    <3>2. l \notin open
      BY <3>1, Zenon DEF TypeOK
    <3> QED
      BY <3>1, <3>2, Zenon DEF AuthInv, OutInv
  <2>8. AuthInv'
    BY <1>1, <1>2, <1>3, <2>3, <2>7, SMTT(30) DEF AuthInv, LoginInv
  <2>9. OutInv'
    <3>1. \A s \in Sessions : auth[s] # NoLogin => auth'[s] = auth[s]
      BY <1>1, <2>3, Zenon DEF LoginInv
    <3>2. \A k \in Logins : k # NoLogin
      BY KvmConstantsOK, Zenon
    <3>3. dropped' \cap loggingOut' = {} /\ dropped' \cup loggingOut' \subseteq open'
      BY <1>2, <1>3, Zenon DEF OutInv
    <3>4. ASSUME NEW m \in open' \ (dropped' \cup loggingOut') PROVE \E s \in Sessions : auth'[s] = m
      <4>1. CASE m = l
        BY <1>1, <2>3, <4>1, Zenon
      <4>2. CASE m # l
        <5>1. m \in open \ (dropped \cup loggingOut) /\ m \in Logins
          BY <1>2, <1>3, <4>2, Zenon DEF TypeOK
        <5>2. PICK s \in Sessions : auth[s] = m
          BY <5>1, Zenon DEF OutInv
        <5> QED
          BY <3>1, <3>2, <5>1, <5>2, Zenon
      <4> QED
        BY <4>1, <4>2, Zenon
    <3> QED
      BY <3>3, <3>4, SMTT(30) DEF OutInv
  <2> QED
    BY <2>5, <2>6, <2>8, <2>9, Zenon
<1> QED
  BY <1>5, <1>6, <1>7, <1>8, Zenon

\* A failed login changes only its thread.
LEMMA LoginFailsKeeps ==
    ASSUME IndInv, NEW x \in Threads, LoginFails(x)
    PROVE  IndInv'
<1> USE DEF IndInv, MapsInv
<1>1. pc[x] \in LoggingIn
  BY Zenon DEF LoginFails, LoggingIn
<1>2. UNCHANGED <<current, made, refs, entry, target, held, auth, closed, open, used, dead,
                  retiring, dropped, loggingOut, expired, aged, shut>>
  BY Zenon DEF LoginFails, maps, logins, retirees, clock
<1>3. /\ pc' = [pc EXCEPT ![x] = AfterFail(x)]
      /\ AfterFail(x) = IF x \in Tokens THEN "failed" ELSE "idle"
  BY Zenon DEF LoginFails, AfterFail
<1>4. TypeOK'
  BY <1>2, <1>3, Zenon DEF TypeOK, PCs
<1>5. ThreadInv'
  BY <1>1, <1>2, <1>3, ThreadTypes, Zenon DEF ThreadInv, TypeOK, LoggingIn
<1>6. MapInv' /\ PlaceInv' /\ HoldInv' /\ RefsExact'
  BY <1>2, MapsFrame, SMTT(30) DEF PlaceInv
<1>7. LoginsInv'
  <2>1. \A y \in Threads : pc'[y] \in LoggingIn => pc[y] \in LoggingIn
    BY <1>3, Zenon DEF TypeOK, LoggingIn
  <2> QED
    BY <1>2, <2>1, LoginsFrame, Zenon
<1> QED
  BY <1>4, <1>5, <1>6, <1>7, Zenon

\* A request that begins, from a console cookie, changes only its thread.
LEMMA ConsoleKeeps ==
    ASSUME IndInv, NEW r \in Requests, NEW t \in Tokens, Console(r, t)
    PROVE  IndInv'
<1> USE DEF IndInv, MapsInv
<1>1. UNCHANGED <<current, made, refs, entry, held, auth, closed, open, used, dead,
                  retiring, dropped, loggingOut, expired, aged, shut>>
  BY Zenon DEF Console, maps, logins, retirees, clock
<1>2. /\ pc' = [pc EXCEPT ![r] = "auth"]
      /\ target' = [target EXCEPT ![r] = target[t]]
      /\ target[t] \in made /\ target[t] \in Sessions
  BY ThreadTypes, Zenon DEF Console, ThreadInv, Holding, Listed
<1>3. \A u \in Tokens : target'[u] = target[u]
  BY <1>2, ThreadTypes, Zenon DEF TypeOK
<1>4. TypeOK'
  BY <1>1, <1>2, Zenon DEF TypeOK, PCs
<1>5. ThreadInv'
  BY <1>1, <1>2, ThreadTypes, Zenon DEF ThreadInv, TypeOK
<1>6. MapInv' /\ PlaceInv' /\ HoldInv' /\ RefsExact'
  BY <1>1, <1>3, MapsFrame, Zenon DEF PlaceInv
<1>7. LoginsInv'
  <2>1. \A y \in Threads : pc'[y] \in LoggingIn => pc[y] \in LoggingIn /\ target'[y] = target[y]
    BY <1>2, Zenon DEF TypeOK, LoggingIn
  <2> QED
    BY <1>1, <2>1, LoginsFrame, Zenon
<1> QED
  BY <1>4, <1>5, <1>6, <1>7, Zenon

\* A request that ends changes only its thread.
LEMMA AnsweredKeeps ==
    ASSUME IndInv, NEW r \in Requests, Answered(r)
    PROVE  IndInv'
<1> USE DEF IndInv, MapsInv
<1>1. UNCHANGED <<current, made, refs, entry, target, held, auth, closed, open, used, dead,
                  retiring, dropped, loggingOut, expired, aged, shut>>
  BY Zenon DEF Answered, maps, logins, retirees, clock
<1>2. pc' = [pc EXCEPT ![r] = "idle"]
  BY Zenon DEF Answered
<1>3. TypeOK'
  BY <1>1, <1>2, Zenon DEF TypeOK, PCs
<1>4. ThreadInv'
  BY <1>1, <1>2, ThreadTypes, Zenon DEF ThreadInv, TypeOK
<1>5. MapInv' /\ PlaceInv' /\ HoldInv' /\ RefsExact'
  BY <1>1, MapsFrame, Zenon DEF PlaceInv
<1>6. LoginsInv'
  <2>1. \A y \in Threads : pc'[y] \in LoggingIn => pc[y] \in LoggingIn
    BY <1>2, Zenon DEF TypeOK, LoggingIn
  <2> QED
    BY <1>1, <2>1, LoginsFrame, Zenon
<1> QED
  BY <1>3, <1>4, <1>5, <1>6, Zenon

\* acquireLocked: one more holder and one more reference of the key's session.
LEMMA StartSessionKeeps ==
    ASSUME IndInv, NEW t \in Tokens, NEW k \in Keys, StartSession(t, k)
    PROVE  IndInv'
<1> USE DEF IndInv, MapsInv
<1>1. PICK s \in Sessions :
         /\ current[k] = s \/ (current[k] = NoSession /\ s \notin made)
         /\ current' = [current EXCEPT ![k] = s]
         /\ made' = made \cup {s}
         /\ refs' = [refs EXCEPT ![s] = @ + 1]
         /\ target' = [target EXCEPT ![t] = s]
  BY Zenon DEF StartSession
<1>2. /\ entry[t] = "unused" /\ shut = "serving"
      /\ entry' = [entry EXCEPT ![t] = "starting"]
      /\ pc' = [pc EXCEPT ![t] = "auth"]
      /\ UNCHANGED <<held, auth, closed, open, used, dead, retiring, dropped, loggingOut,
                     expired, aged, shut>>
  BY Zenon DEF StartSession, logins, retirees, clock
<1>3. t \in Threads /\ pc[t] = "idle" /\ s # NoSession
  BY <1>2, ThreadTypes, KvmConstantsOK, Zenon DEF ThreadInv
<1>4. /\ \A u \in Tokens : entry'[u] = IF u = t THEN "starting" ELSE entry[u]
      /\ \A x \in Threads : /\ target'[x] = IF x = t THEN s ELSE target[x]
                            /\ pc'[x] = IF x = t THEN "auth" ELSE pc[x]
      /\ \A i \in Keys : current'[i] = IF i = k THEN s ELSE current[i]
      /\ \A z \in Sessions : refs'[z] = IF z = s THEN refs[z] + 1 ELSE refs[z]
  BY <1>1, <1>2, <1>3, Zenon DEF TypeOK
<1>5. TypeOK'
  BY <1>1, <1>2, <1>3 DEF TypeOK, PCs, Holding
<1>6. ThreadInv'
  BY <1>1, <1>2, <1>4, ThreadTypes, SMTT(30) DEF ThreadInv, Holding, Listed
<1>7. MapInv'
  BY <1>1, <1>2, <1>4, KvmConstantsOK DEF MapInv, PlaceInv
<1>8. \A z \in Sessions : InMap(z)' <=> InMap(z) \/ z = s
  <2>1. ASSUME NEW z \in Sessions, NEW i \in Keys, current[i] = z, z # s PROVE current'[i] = z
    BY <1>1, <1>4, <2>1, KvmConstantsOK
  <2> QED
    BY <1>4, <2>1, ZenonT(30) DEF InMap
<1>9. PlaceInv'
  BY <1>1, <1>2, <1>4, <1>8, Zenon DEF PlaceInv
<1>10. HoldInv'
  BY <1>2, <1>4, <1>8, ThreadTypes, ZenonT(30) DEF HoldInv
<1>11. RefsExact'
  <2>1. "starting" \in Holding /\ "unused" \notin Holding
    BY Zenon DEF Holding, Listed
  <2>2. Holders(s)' = Holders(s) \cup {t} /\ t \notin Holders(s)
    <3>1. /\ entry'[t] = "starting" /\ target'[t] = s
          /\ \A u \in Tokens : u # t => entry'[u] = entry[u] /\ target'[u] = target[u]
      BY <1>3, <1>4, ThreadTypes, Zenon
    <3>2. \A u \in Tokens : (entry'[u] \in Holding /\ target'[u] = s)
                           <=> ((entry[u] \in Holding /\ target[u] = s) \/ u = t)
      BY <2>1, <3>1, Zenon
    <3> QED
      BY <1>2, <2>1, <3>2, Zenon DEF Holders
  <2>3. refs[s] = Cardinality(Holders(s)) /\ Cardinality(Holders(s)) \in Nat
    <3>1. CASE current[k] = s
      BY <1>3, <3>1, HoldersFinite, Zenon DEF RefsExact
    <3>2. CASE s \notin made
      <4>1. Holders(s) = {} /\ refs[s] = 0
        BY <3>2, Zenon DEF ThreadInv, PlaceInv, Holders
      <4> QED
        BY <4>1, FS_EmptySet
    <3> QED
      BY <1>1, <3>1, <3>2, SMTT(30)
  <2>4. Cardinality(Holders(s) \cup {t}) = Cardinality(Holders(s)) + 1
    BY <2>2, HoldersFinite, FS_AddElement, SMTT(30)
  <2>5. Cardinality(Holders(s)') = Cardinality(Holders(s) \cup {t})
    BY <2>2, Zenon
  <2>6. refs'[s] = Cardinality(Holders(s)') /\ refs'[s] > 0
    <3>1. refs'[s] = refs[s] + 1
      BY <1>4, Zenon
    <3> QED
      BY <2>3, <2>4, <2>5, <3>1
  <2>7. ASSUME NEW i \in Keys, current'[i] # NoSession
        PROVE  refs'[current'[i]] = Cardinality(Holders(current[i])') /\ refs'[current'[i]] > 0
    <3>1. CASE current'[i] = s
      <4>1. Holders(current[i])' = Holders(s)'
        BY <3>1, SMTT(30) DEF Holders
      <4> QED
        BY <2>6, <3>1, <4>1, Zenon
    <3>2. CASE current'[i] # s
      <4>1. i # k /\ current'[i] = current[i] /\ current[i] \in Sessions /\ current[i] # NoSession
        BY <1>4, <2>7, <3>2, ZenonT(30) DEF TypeOK
      <4>2. Holders(current[i])' = Holders(current[i])
        <5>1. \A u \in Tokens : u # t => entry'[u] = entry[u] /\ target'[u] = target[u]
          BY <1>4, ThreadTypes, Zenon
        <5>2. entry[t] \notin Holding /\ target'[t] # current'[i]
          BY <1>2, <1>3, <1>4, <2>1, <3>2, Zenon
        <5>3. \A u \in Tokens : (entry'[u] \in Holding /\ target'[u] = current'[i])
                               <=> (entry[u] \in Holding /\ target[u] = current[i])
          BY <4>1, <5>1, <5>2, Zenon
        <5> QED
          BY <5>3, Zenon DEF Holders
      <4>3. Cardinality(Holders(current[i])') = Cardinality(Holders(current[i]))
        BY <4>2, Zenon
      <4>4. refs'[current'[i]] = refs[current[i]]
        BY <1>4, <3>2, <4>1, Zenon
      <4> QED
        BY <4>1, <4>3, <4>4, Zenon DEF RefsExact
    <3> QED
      BY <3>1, <3>2, Zenon
  <2> QED
    BY <2>7, Zenon DEF RefsExact
<1>12. LoginsInv'
  <2>1. \A y \in Threads : pc'[y] \in LoggingIn => pc[y] \in LoggingIn /\ target'[y] = target[y]
    BY <1>4, Zenon DEF LoggingIn
  <2> QED
    BY <1>2, <2>1, LoginsFrame, Zenon
<1> QED
  BY <1>5, <1>6, <1>7, <1>9, <1>10, <1>11, <1>12, Zenon

\* The tokens gcLocked drops hold references and run no StartSession call.
LEMMA DueFacts ==
    ASSUME IndInv
    PROVE  /\ Due \in SUBSET {t \in Tokens : entry[t] \in Holding}
           /\ \A t \in Due : entry[t] # "starting"
BY Zenon DEF Due, IndInv, TypeOK, Holding, Listed

\* A token is stored and gcLocked runs, for StartSession and for exchange: the
\* token keeps the reference it had.
LEMMA GcAfterKeeps ==
    ASSUME IndInv, NEW t \in Tokens, NEW what \in Listed, gcAfter(t, what),
           entry[t] \in Holding, t \notin Due,
           \A u \in Tokens : target'[u] = target[u],
           UNCHANGED <<made, auth, closed, retiring, shut>>
    PROVE  /\ current' \in [Keys -> Sessions \cup {NoSession}]
           /\ refs' \in [Sessions -> Int]
           /\ dead' \subseteq Sessions
           /\ entry' \in [Tokens -> Holding \cup {"unused", "gone"}]
           /\ \A u \in Tokens : entry'[u] = IF u = t THEN what ELSE IF u \in Due THEN "gone" ELSE entry[u]
           /\ MapInv' /\ PlaceInv' /\ HoldInv' /\ RefsExact'
<1>1. \A u \in Tokens : entry'[u] = IF u = t THEN what ELSE IF u \in Due THEN "gone" ELSE entry[u]
  BY Zenon DEF gcAfter
<1>2. entry' \in [Tokens -> Holding \cup {"unused", "gone"}]
  BY Zenon DEF gcAfter, IndInv, TypeOK, Holding
<1>3. \A u \in Tokens : entry'[u] \in Holding <=> entry[u] \in Holding /\ u \notin Due
  BY <1>1, Zenon DEF Holding, Listed
<1>4. releaseLocked(Due)
  BY Zenon DEF gcAfter
<1> QED
  BY <1>1, <1>2, <1>3, <1>4, DueFacts, ReleaseKeeps, Zenon

\* StartSession stores its token.
LEMMA MintTokenKeeps ==
    ASSUME IndInv, NEW t \in Tokens, MintToken(t)
    PROVE  IndInv'
<1> USE DEF IndInv, MapsInv
<1>1. /\ pc[t] = "have" /\ gcAfter(t, "token")
      /\ pc' = [pc EXCEPT ![t] = "idle"]
      /\ UNCHANGED <<made, target, held, auth, closed, open, used, retiring, dropped,
                     loggingOut, expired, aged, shut>>
  BY Zenon DEF MintToken, logins, clock
<1>2. entry[t] = "starting" /\ t \notin Due /\ "token" \in Listed /\ "starting" \in Holding
  BY <1>1, DueFacts, Zenon DEF ThreadInv, Listed, Holding
<1>3. /\ current' \in [Keys -> Sessions \cup {NoSession}]
      /\ refs' \in [Sessions -> Int]
      /\ dead' \subseteq Sessions
      /\ entry' \in [Tokens -> Holding \cup {"unused", "gone"}]
      /\ \A u \in Tokens : entry'[u] = IF u = t THEN "token" ELSE IF u \in Due THEN "gone" ELSE entry[u]
      /\ MapInv' /\ PlaceInv' /\ HoldInv' /\ RefsExact'
  BY <1>1, <1>2, GcAfterKeeps, Zenon
<1>4. TypeOK'
  BY <1>1, <1>3, Zenon DEF TypeOK, PCs
<1>5. ThreadInv'
  BY <1>1, <1>2, <1>3, DueFacts, ThreadTypes, Zenon DEF ThreadInv, TypeOK, Holding, Listed
<1>6. LoginsInv'
  <2>1. \A y \in Threads : pc'[y] \in LoggingIn => pc[y] \in LoggingIn
    BY <1>1, Zenon DEF TypeOK, LoggingIn
  <2> QED
    BY <1>1, <2>1, LoginsFrame, Zenon
<1> QED
  BY <1>3, <1>4, <1>5, <1>6, Zenon

\* exchange turns a start token into a console.
LEMMA ExchangeKeeps ==
    ASSUME IndInv, NEW r \in Requests, NEW t \in Tokens, Exchange(r, t)
    PROVE  IndInv'
<1> USE DEF IndInv, MapsInv
<1>1. /\ entry[t] = "token" /\ t \notin expired /\ gcAfter(t, "console")
      /\ pc' = [pc EXCEPT ![r] = "auth"]
      /\ target' = [target EXCEPT ![r] = target[t]]
      /\ UNCHANGED <<made, held, auth, closed, open, used, retiring, dropped,
                     loggingOut, expired, aged, shut>>
  BY Zenon DEF Exchange, logins, clock
<1>2. /\ t \notin Due /\ "console" \in Listed /\ entry[t] \in Holding
      /\ target[t] \in made /\ target[t] \in Sessions
  BY <1>1, ThreadTypes, Zenon DEF ThreadInv, Listed, Holding, Due
<1>3. \A u \in Tokens : target'[u] = target[u]
  BY <1>1, ThreadTypes, Zenon DEF TypeOK
<1>4. /\ current' \in [Keys -> Sessions \cup {NoSession}]
      /\ refs' \in [Sessions -> Int]
      /\ dead' \subseteq Sessions
      /\ entry' \in [Tokens -> Holding \cup {"unused", "gone"}]
      /\ \A u \in Tokens : entry'[u] = IF u = t THEN "console" ELSE IF u \in Due THEN "gone" ELSE entry[u]
      /\ MapInv' /\ PlaceInv' /\ HoldInv' /\ RefsExact'
  BY <1>1, <1>2, <1>3, GcAfterKeeps, Zenon
<1>5. TypeOK'
  BY <1>1, <1>2, <1>4, Zenon DEF TypeOK, PCs
<1>6. ThreadInv'
  <2>1. \A u \in Tokens : pc'[u] = pc[u]
    BY <1>1, ThreadTypes, Zenon DEF TypeOK
  <2>2. \A u \in Tokens : entry'[u] = "starting" <=> entry[u] = "starting"
    BY <1>1, <1>4, DueFacts, Zenon
  <2>3. \A u \in Tokens : entry'[u] \in Holding => entry[u] \in Holding
    BY <1>2, <1>4, Zenon DEF Holding, Listed
  <2>4. \A q \in Requests : pc'[q] = (IF q = r THEN "auth" ELSE pc[q])
                        /\ target'[q] = (IF q = r THEN target[t] ELSE target[q])
    BY <1>1, ThreadTypes, Zenon DEF TypeOK
  <2> QED
    BY <1>1, <1>2, <1>3, <2>1, <2>2, <2>3, <2>4 DEF ThreadInv
<1>7. LoginsInv'
  <2>1. \A y \in Threads : pc'[y] \in LoggingIn => pc[y] \in LoggingIn /\ target'[y] = target[y]
    BY <1>1, Zenon DEF TypeOK, LoggingIn
  <2> QED
    BY <1>1, <2>1, LoginsFrame, Zenon
<1> QED
  BY <1>4, <1>5, <1>6, <1>7, Zenon

\* The janitor's gc.
LEMMA GcKeeps ==
    ASSUME IndInv, gc
    PROVE  IndInv'
<1> USE DEF IndInv, MapsInv
<1>1. /\ releaseLocked(Due)
      /\ entry' = [u \in Tokens |-> IF u \in Due THEN "gone" ELSE entry[u]]
      /\ UNCHANGED <<made, pc, target, held, auth, closed, open, used, retiring, dropped,
                     loggingOut, expired, aged, shut>>
  BY Zenon DEF gc, threads, logins, clock
<1>2. \A u \in Tokens : entry'[u] \in Holding <=> entry[u] \in Holding /\ u \notin Due
  BY <1>1, SMTT(30) DEF Holding, Listed
<1>3. /\ current' \in [Keys -> Sessions \cup {NoSession}]
      /\ refs' \in [Sessions -> Int]
      /\ dead' \subseteq Sessions
      /\ MapInv' /\ PlaceInv' /\ HoldInv' /\ RefsExact'
  BY <1>1, <1>2, DueFacts, ReleaseKeeps, Zenon
<1>4. TypeOK'
  BY <1>1, <1>3, Zenon DEF TypeOK
<1>5. ThreadInv'
  BY <1>1, <1>2, DueFacts, Zenon DEF ThreadInv
<1>6. LoginsInv'
  BY <1>1, LoginsFrame, Zenon
<1> QED
  BY <1>3, <1>4, <1>5, <1>6, Zenon

\* A failed StartSession gives its reference back.
LEMMA FailStartKeeps ==
    ASSUME IndInv, NEW t \in Tokens, FailStart(t)
    PROVE  IndInv'
<1> USE DEF IndInv, MapsInv
<1>1. /\ pc[t] = "failed" /\ releaseLocked({t})
      /\ entry' = [entry EXCEPT ![t] = "gone"]
      /\ pc' = [pc EXCEPT ![t] = "idle"]
      /\ UNCHANGED <<made, target, held, auth, closed, open, used, retiring, dropped,
                     loggingOut, expired, aged, shut>>
  BY Zenon DEF FailStart, logins, clock
<1>2. entry[t] = "starting" /\ {t} \in SUBSET {u \in Tokens : entry[u] \in Holding}
  BY <1>1, Zenon DEF ThreadInv, Holding
<1>3. \A u \in Tokens : entry'[u] \in Holding <=> entry[u] \in Holding /\ u \notin {t}
  BY <1>1, Zenon DEF TypeOK, Holding, Listed
<1>4. /\ current' \in [Keys -> Sessions \cup {NoSession}]
      /\ refs' \in [Sessions -> Int]
      /\ dead' \subseteq Sessions
      /\ MapInv' /\ PlaceInv' /\ HoldInv' /\ RefsExact'
  BY <1>1, <1>2, <1>3, ReleaseKeeps, Zenon
<1>5. TypeOK'
  BY <1>1, <1>4, Zenon DEF TypeOK, PCs, Holding
<1>6. ThreadInv'
  BY <1>1, <1>2, <1>3, ThreadTypes, Zenon DEF ThreadInv, TypeOK, Holding
<1>7. LoginsInv'
  <2>1. \A y \in Threads : pc'[y] \in LoggingIn => pc[y] \in LoggingIn
    BY <1>1, Zenon DEF TypeOK, LoggingIn
  <2> QED
    BY <1>1, <2>1, LoginsFrame, Zenon
<1> QED
  BY <1>4, <1>5, <1>6, <1>7, Zenon

\* A 401: the blamed login leaves its session and waits to be logged out.
LEMMA RefusedKeeps ==
    ASSUME IndInv, NEW r \in Requests, Refused(r)
    PROVE  IndInv'
<1> USE DEF IndInv, MapsInv
<1> DEFINE s == target[r]
           l == held[r]
<1>1. /\ pc[r] = "have" /\ ~Locked(s) /\ auth[s] = l /\ l \in aged
      /\ auth' = [auth EXCEPT ![s] = NoLogin]
      /\ dropped' = dropped \cup {l}
      /\ UNCHANGED <<current, made, refs, entry, target, held, closed, open, used, dead,
                     retiring, loggingOut, expired, aged, shut>>
  BY Zenon DEF Refused, Blamed, maps, clock
<1>2. PICK p \in {"idle", "reauth"} : pc' = [pc EXCEPT ![r] = p]
  BY Zenon DEF Refused
<1>3. s \in Sessions /\ l \in Logins /\ l # NoLogin
  BY <1>1, ThreadTypes, KvmConstantsOK, Zenon DEF TypeOK
<1> HIDE DEF s, l
<1>4. \A z \in Sessions : auth'[z] = IF z = s THEN NoLogin ELSE auth[z]
  BY <1>1, Zenon DEF TypeOK
<1>5. TypeOK'
  BY <1>1, <1>2, <1>3, Zenon DEF TypeOK, PCs
<1>6. ThreadInv'
  BY <1>1, <1>2, ThreadTypes, Zenon DEF ThreadInv, TypeOK
<1>7. MapInv' /\ PlaceInv' /\ HoldInv' /\ RefsExact'
  BY <1>1, <1>4, MapsFrame, Zenon DEF PlaceInv
<1>8. LoginsInv'
  <2> USE DEF LoginsInv
  <2>1. \A y \in Threads : pc'[y] \in LoggingIn => pc[y] \in LoggingIn
    BY <1>2, Zenon DEF TypeOK, LoggingIn
  <2>2. LoginInv'
    BY <1>1, <1>4, <2>1, ThreadTypes, Zenon DEF LoginInv
  <2>3. OneLoginAtATime'
    BY <1>1, <2>1, Zenon DEF OneLoginAtATime, LoggingIn
  <2>4. l \in open \ (dropped \cup loggingOut)
    BY <1>1, <1>3, Zenon DEF AuthInv
  <2>5. AuthInv'
    BY <1>1, <1>3, <1>4 DEF AuthInv
  <2>6. OutInv'
    BY <1>1, <1>4, <2>4 DEF OutInv
  <2> QED
    BY <2>2, <2>3, <2>5, <2>6, Zenon
<1> QED
  BY <1>5, <1>6, <1>7, <1>8, Zenon

\* The retiring goroutine closes its session and takes over the login.
LEMMA RetireKeeps ==
    ASSUME IndInv, NEW s \in Sessions, Retire(s)
    PROVE  IndInv'
<1> USE DEF IndInv, MapsInv
<1>1. /\ s \in retiring /\ ~Locked(s)
      /\ retiring' = retiring \ {s}
      /\ loggingOut' = loggingOut \cup Taken(s)
      /\ auth' = [auth EXCEPT ![s] = NoLogin]
      /\ closed' = closed \cup {s}
      /\ UNCHANGED <<current, made, refs, entry, pc, target, held, open, used, dead,
                     dropped, expired, aged, shut>>
  BY Zenon DEF Retire, maps, threads, clock
<1>2. \A z \in Sessions : auth'[z] = IF z = s THEN NoLogin ELSE auth[z]
  BY <1>1, Zenon DEF TypeOK
<1>3. \A l : l \in Taken(s) <=> l = auth[s] /\ auth[s] # NoLogin
  BY Zenon DEF Taken
<1>4. TypeOK'
  <2>1. auth[s] \in Logins \cup {NoLogin}
    BY Zenon DEF TypeOK
  <2>2. Taken(s) \subseteq Logins
    BY <2>1, Zenon DEF Taken
  <2> QED
    BY <1>1, <2>2, Zenon DEF TypeOK
<1>5. ThreadInv'
  BY <1>1, ZenonT(30) DEF ThreadInv
<1>6. s \in made /\ ~InMap(s)
  BY <1>1, KvmConstantsOK, Zenon DEF PlaceInv, MapInv, InMap
<1>7. MapInv'
  BY <1>1, <1>6, SMTT(30) DEF MapInv, InMap
<1>8. PlaceInv'
  BY <1>1, <1>2, <1>6, SMTT(30) DEF PlaceInv, InMap
<1>9. HoldInv'
  BY <1>1, SMTT(30) DEF HoldInv, InMap
<1>10. RefsExact'
  <2>1. \A z : Holders(z)' = Holders(z)
    BY <1>1, Zenon DEF Holders
  <2> QED
    BY <1>1, <2>1, SMTT(30) DEF RefsExact
<1>11. LoginsInv'
  <2> USE DEF LoginsInv
  <2>1. LoginInv'
    BY <1>1, <1>2, ThreadTypes, SMTT(30) DEF LoginInv, Locked, LoggingIn
  <2>2. OneLoginAtATime'
    BY <1>1, SMTT(30) DEF OneLoginAtATime
  <2>3. AuthInv'
    BY <1>1, <1>2, <1>3 DEF AuthInv
  <2>4. \A l \in Taken(s) : l \in open \ (dropped \cup loggingOut)
    BY <1>3 DEF AuthInv
  <2>5. OutInv'
    <3>1. \A l \in open \ (dropped \cup loggingOut') : l \in Logins /\ l # NoLogin
      BY KvmConstantsOK, Zenon DEF TypeOK
    <3> QED
      BY <1>1, <1>2, <1>3, <2>4, <3>1 DEF OutInv
  <2> QED
    BY <2>1, <2>2, <2>3, <2>5, SMTT(30)
<1> QED
  BY <1>4, <1>5, <1>7, <1>8, <1>9, <1>10, <1>11, SMTT(30)

\* Starting the goroutine that retires a released session.
LEMMA SpawnRetireKeeps ==
    ASSUME IndInv, NEW s \in Sessions, SpawnRetire(s)
    PROVE  IndInv'
<1> USE DEF IndInv, MapsInv
<1>1. /\ s \in dead /\ dead' = dead \ {s} /\ retiring' = retiring \cup {s}
      /\ UNCHANGED <<current, made, refs, entry, pc, target, held, auth, closed, open, used,
                     dropped, loggingOut, expired, aged, shut>>
  BY Zenon DEF SpawnRetire, maps, threads, logins, clock
<1>2. TypeOK'
  BY <1>1, Zenon DEF TypeOK
<1>3. ThreadInv' /\ HoldInv'
  BY <1>1, SMTT(30) DEF ThreadInv, HoldInv, InMap
<1>4. MapInv' /\ PlaceInv'
  BY <1>1, SMTT(30) DEF MapInv, PlaceInv, InMap
<1>5. RefsExact'
  <2>1. \A z : Holders(z)' = Holders(z)
    BY <1>1, Zenon DEF Holders
  <2> QED
    BY <1>1, <2>1, Zenon DEF RefsExact
<1>6. LoginsInv'
  BY <1>1, LoginsFrame, Zenon
<1> QED
  BY <1>2, <1>3, <1>4, <1>5, <1>6, Zenon

\* Starting the goroutine that ends a dropped login, and ending a login.
LEMMA LogoutKeeps ==
    ASSUME IndInv, NEW l \in Logins, SpawnLogout(l) \/ Logout(l)
    PROVE  IndInv'
<1> USE DEF IndInv, MapsInv
<1>1. UNCHANGED <<current, made, refs, entry, pc, target, held, auth, closed, used, dead,
                  retiring, expired, aged, shut>>
  BY Zenon DEF SpawnLogout, Logout, maps, threads, logins, clock
<1>2. \/ l \in dropped /\ dropped' = dropped \ {l} /\ loggingOut' = loggingOut \cup {l} /\ open' = open
      \/ l \in loggingOut /\ loggingOut' = loggingOut \ {l} /\ open' = open \ {l} /\ dropped' = dropped
  BY Zenon DEF SpawnLogout, Logout, logins
<1>3. TypeOK'
  BY <1>1, <1>2, Zenon DEF TypeOK
<1>4. ThreadInv'
  BY <1>1, SMTT(30) DEF ThreadInv
<1>5. MapInv' /\ PlaceInv' /\ HoldInv' /\ RefsExact'
  BY <1>1, MapsFrame, Zenon DEF PlaceInv
<1>6. LoginsInv'
  <2> USE DEF LoginsInv
  <2>1. LoginInv' /\ OneLoginAtATime'
    BY <1>1, Zenon DEF LoginInv, OneLoginAtATime
  <2>2. AuthInv'
    BY <1>1, <1>2, ZenonT(30) DEF AuthInv
  <2>3. OutInv'
    BY <1>1, <1>2, Zenon DEF OutInv
  <2> QED
    BY <2>1, <2>2, <2>3, SMTT(30)
<1> QED
  BY <1>3, <1>4, <1>5, <1>6, SMTT(30)

\* Time passing.
LEMMA ClockKeeps ==
    ASSUME IndInv, (\E t \in Tokens : Expire(t)) \/ (\E l \in Logins : Age(l))
    PROVE  IndInv'
<1> USE DEF IndInv, MapsInv
<1>1. UNCHANGED <<current, made, refs, entry, pc, target, held, auth, closed, open, used, dead,
                  retiring, dropped, loggingOut, shut>>
  BY Zenon DEF Expire, Age, maps, threads, logins, retirees
<1>2. expired' \subseteq Tokens /\ aged' \subseteq used
  BY Zenon DEF Expire, Age, TypeOK
<1>3. TypeOK'
  BY <1>1, <1>2, Zenon DEF TypeOK
<1>4. ThreadInv'
  BY <1>1, Zenon DEF ThreadInv
<1>5. MapInv' /\ PlaceInv' /\ HoldInv' /\ RefsExact'
  BY <1>1, MapsFrame, Zenon DEF PlaceInv
<1>6. LoginsInv'
  BY <1>1, LoginsFrame, Zenon
<1> QED
  BY <1>3, <1>4, <1>5, <1>6, Zenon

\* Close empties the maps and queues every session that was in one.
LEMMA CloseKeeps ==
    ASSUME IndInv, Close
    PROVE  IndInv'
<1> USE DEF IndInv, MapsInv
<1>1. /\ retiring' = retiring \cup {s \in Sessions : \E k \in Keys : current[k] = s}
      /\ current' = [k \in Keys |-> NoSession]
      /\ entry' = [t \in Tokens |-> IF entry[t] \in Listed THEN "gone" ELSE entry[t]]
      /\ shut' = "closing"
      /\ UNCHANGED <<made, refs, pc, target, held, auth, closed, open, used, dead, dropped,
                     loggingOut, expired, aged>>
  BY Zenon DEF Close, threads, logins, clock
<1>2. TypeOK'
  BY <1>1, Zenon DEF TypeOK
<1>3. ThreadInv'
  BY <1>1, SMTT(30) DEF ThreadInv, Holding, Listed
<1>4. MapInv' /\ HoldInv' /\ RefsExact'
  BY <1>1, Zenon DEF MapInv, HoldInv, RefsExact
<1>5. PlaceInv'
  <2>1. \A s \in Sessions : InMap(s) => s \in made
    BY KvmConstantsOK, Zenon DEF MapInv, InMap
  <2> QED
    BY <1>1, <2>1, Zenon DEF PlaceInv, InMap
<1>6. LoginsInv'
  BY <1>1, LoginsFrame, Zenon
<1> QED
  BY <1>2, <1>3, <1>4, <1>5, <1>6, Zenon

\* Close returning, and stuttering.
LEMMA RestKeeps ==
    ASSUME IndInv, CloseReturns \/ UNCHANGED vars
    PROVE  IndInv'
<1> USE DEF IndInv, MapsInv
<1>1. /\ UNCHANGED <<current, made, refs, entry, pc, target, held, auth, closed, open, used, dead,
                     retiring, dropped, loggingOut, expired, aged>>
      /\ shut' = shut \/ (shut # "serving" /\ shut' \in {"drained", "gave up"})
  BY Zenon DEF CloseReturns, vars, maps, threads, logins, retirees, clock
<1>2. TypeOK'
  BY <1>1, Zenon DEF TypeOK
<1>3. ThreadInv' /\ HoldInv'
  BY <1>1, Zenon DEF ThreadInv, HoldInv, InMap
<1>4. MapInv' /\ PlaceInv'
  BY <1>1, Zenon DEF MapInv, PlaceInv, InMap
<1>5. RefsExact'
  <2>1. \A z : Holders(z)' = Holders(z)
    BY <1>1, Zenon DEF Holders
  <2> QED
    BY <1>1, <2>1, Zenon DEF RefsExact
<1>6. LoginsInv'
  BY <1>1, LoginsFrame, Zenon
<1> QED
  BY <1>2, <1>3, <1>4, <1>5, <1>6, Zenon

\* Every step keeps the inductive invariant.
LEMMA NextIndInv ==
    ASSUME IndInv, [Next]_vars
    PROVE  IndInv'
<1>1. ASSUME NEW x \in Threads, ThreadStep(x) PROVE IndInv'
  BY <1>1, SessionAuthKeeps, LoginSucceedsKeeps, LoginFailsKeeps, Zenon DEF ThreadStep
<1>2. ASSUME NEW t \in Tokens, StartStep(t) \/ \E k \in Keys : StartSession(t, k) PROVE IndInv'
  BY <1>2, MintTokenKeeps, FailStartKeeps, StartSessionKeeps, Zenon DEF StartStep
<1>3. ASSUME NEW r \in Requests, ProxyStep(r) \/ \E t \in Tokens : Exchange(r, t) \/ Console(r, t)
      PROVE  IndInv'
  BY <1>3, AnsweredKeeps, RefusedKeeps, ExchangeKeeps, ConsoleKeeps, Zenon DEF ProxyStep
<1>4. ASSUME NEW s \in Sessions, SpawnRetire(s) \/ Retire(s) PROVE IndInv'
  BY <1>4, SpawnRetireKeeps, RetireKeeps, Zenon
<1> QED
  BY <1>1, <1>2, <1>3, <1>4, LogoutKeeps, ClockKeeps, GcKeeps, CloseKeeps, RestKeeps, Zenon DEF Next

\* The inductive invariant holds throughout.
THEOREM KvmInvariance == Spec => []IndInv
  BY InitIndInv, NextIndInv, PTL DEF Spec

\* Every variable keeps its type, for any number of sessions and threads.
THEOREM KvmTypeCorrect == Spec => []TypeOK
<1>1. IndInv => TypeOK
  BY Zenon DEF IndInv
<1> QED
  BY <1>1, KvmInvariance, PTL

\* The reference count of a session in the map is the number of StartSession
\* calls, tokens and consoles that use it (acquireLocked, releaseLocked,
\* gcLocked, exchange).
THEOREM RefsAreHolders == Spec => []RefsExact
<1>1. IndInv => RefsExact
  BY Zenon DEF IndInv, MapsInv
<1> QED
  BY <1>1, KvmInvariance, PTL

\* Until Close, whoever holds a session finds it in the map and nobody is
\* logging it out.
THEOREM HeldSessionsServe == Spec => []HeldSessionKept
<1>1. IndInv => HeldSessionKept
  <2> SUFFICES ASSUME IndInv, shut = "serving", NEW t \in Tokens, entry[t] \in Holding
      PROVE  /\ \E k \in Keys : current[k] = target[t]
             /\ target[t] \notin closed \cup dead \cup retiring
    BY Zenon DEF HeldSessionKept
  <2>1. PICK k \in Keys : current[k] = target[t]
    BY Zenon DEF IndInv, MapsInv, HoldInv, InMap
  <2>2. target[t] # NoSession
    BY ThreadTypes, KvmConstantsOK, Zenon DEF IndInv
  <2> QED
    BY <2>1, <2>2, Zenon DEF IndInv, MapsInv, MapInv
<1> QED
  BY <1>1, KvmInvariance, PTL

\* No BMC login is ever forgotten: what sessionAuth opened is held by a session
\* that will be retired, or is already being logged out.
THEOREM LoginsAccountedFor == Spec => []NoLeakedLogin
<1>1. IndInv => NoLeakedLogin
  <2> SUFFICES ASSUME IndInv, NEW l \in open \ (dropped \cup loggingOut)
      PROVE  \E s \in Sessions \ closed :
               /\ auth[s] = l
               /\ s \in dead \cup retiring \/ \E k \in Keys : current[k] = s
    BY Zenon DEF NoLeakedLogin
  <2>1. PICK s \in Sessions : auth[s] = l
    BY Zenon DEF IndInv, LoginsInv, OutInv
  <2>2. l # NoLogin
    BY KvmConstantsOK, Zenon DEF IndInv, TypeOK
  <2>3. s \notin closed
    BY <2>1, <2>2, Zenon DEF IndInv, LoginsInv, AuthInv
  <2>4. s \in dead \cup retiring \/ \E k \in Keys : current[k] = s
    BY <2>1, <2>2, <2>3, Zenon DEF IndInv, MapsInv, PlaceInv, InMap
  <2> QED
    BY <2>1, <2>3, <2>4, Zenon
<1> QED
  BY <1>1, KvmInvariance, PTL

\* A login is logged out once, and only after no session hands it out.
THEOREM LogoutsUnused == Spec => []LogoutUnused
<1>1. IndInv => LogoutUnused
  <2> SUFFICES ASSUME IndInv PROVE LogoutUnused
    OBVIOUS
  <2>1. dropped \cap loggingOut = {} /\ \A l \in dropped \cup loggingOut : l \in open
    BY Zenon DEF IndInv, LoginsInv, OutInv
  <2>2. \A l \in dropped \cup loggingOut : l # NoLogin
    BY KvmConstantsOK, Zenon DEF IndInv, TypeOK
  <2>3. \A l \in dropped \cup loggingOut, s \in Sessions : auth[s] # l
    BY <2>2, Zenon DEF IndInv, LoginsInv, AuthInv
  <2> QED
    BY <2>1, <2>3, Zenon DEF LogoutUnused
<1> QED
  BY <1>1, KvmInvariance, PTL

\* bmcSession.mu serialises the logins of a session.
THEOREM LoginsSerialised == Spec => []OneLoginAtATime
<1>1. IndInv => OneLoginAtATime
  BY Zenon DEF IndInv, LoginsInv
<1> QED
  BY <1>1, KvmInvariance, PTL

\* When Close stops waiting because the WaitGroup is empty, only a login whose
\* wg.Add is still to come is open.
THEOREM CloseWaitsForLogouts == Spec => CloseWaits
<1> DEFINE Step == (shut' = "drained" /\ shut # "drained") =>
                     \A l \in open : l \in dropped \/ \E s \in dead : auth[s] = l
<1>1. ASSUME IndInv, [Next]_vars PROVE [Step]_vars
  <2> SUFFICES ASSUME Next, shut' = "drained", shut # "drained", NEW l \in open, l \notin dropped
               PROVE  \E s \in dead : auth[s] = l
    BY <1>1, Zenon
  <2> USE <1>1
  <2>1. CloseReturns
    BY Zenon DEF Next, ThreadStep, sessionAuth, LoginSucceeds, LoginFails, StartStep, MintToken, FailStart,
           Expire, StartSession, ProxyStep, Answered, Refused, Exchange, Console, gc, SpawnRetire,
           Retire, SpawnLogout, Logout, Age, Close
  <2>2. shut = "closing" /\ retiring = {} /\ loggingOut = {}
    BY <2>1, Zenon DEF CloseReturns, Drained
  <2>3. PICK s \in Sessions : auth[s] = l
    BY <2>2, Zenon DEF IndInv, LoginsInv, OutInv
  <2>4. l # NoLogin
    BY KvmConstantsOK, Zenon DEF IndInv, TypeOK
  <2>5. s \notin closed /\ s \in made
    BY <2>3, <2>4, Zenon DEF IndInv, LoginsInv, AuthInv, MapsInv, PlaceInv
  <2>6. ~InMap(s)
    BY <2>2, KvmConstantsOK, Zenon DEF IndInv, MapsInv, MapInv, InMap
  <2> QED
    BY <2>2, <2>3, <2>5, <2>6, Zenon DEF IndInv, MapsInv, PlaceInv
<1> QED
  BY <1>1, KvmInvariance, PTL DEF Spec, CloseWaits
=============================================================================
