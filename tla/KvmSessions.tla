---------------------------- MODULE KvmSessions ----------------------------
(***************************************************************************)
(* The KVM console manager (internal/kvm/kvm.go): BMC web sessions shared  *)
(* by reference count, single-use start tokens, console sessions, proxied  *)
(* requests that log in again after a 401, and the background goroutines   *)
(* that log released sessions out of the BMC.                              *)
(*                                                                         *)
(* What Manager.mu protects is one atomic step.  A bmcSession's own mutex  *)
(* is held across the network login, so it is visible here: it is taken by *)
(* the thread whose pc is at a login.  A StartSession call is identified   *)
(* by the token it draws before it does anything else.  Time appears as    *)
(* two facts: a token or console has expired, a login is old enough        *)
(* (reloginAfter) to be blamed for a 401.                                  *)
(***************************************************************************)
EXTENDS Integers, FiniteSets

CONSTANTS
    Keys,       \* (BMC host, user) pairs
    Sessions,   \* bmcSession objects
    Logins,     \* logins a BMC can hand out
    Tokens,     \* start tokens; each names the StartSession call that draws it
    Requests,   \* proxied HTTP or WebSocket requests
    NoSession,
    NoLogin

ASSUME KvmConstantsOK ==
    /\ NoSession \notin Sessions /\ NoLogin \notin Logins
    /\ Tokens \cap Requests = {}
    /\ IsFiniteSet(Tokens)
    /\ Sessions # {}

VARIABLES
    current,     \* Manager.sessions
    made,        \* bmcSession objects allocated so far
    refs,        \* bmcSession.refs
    auth,        \* bmcSession.auth
    closed,      \* sessions with bmcSession.closed set
    entry,       \* where a token is: drawn, in Manager.tokens, in .consoles, gone
    expired,     \* tokens and consoles whose expiry has passed
    pc,          \* per thread (StartSession call or request)
    target,      \* per thread: the session it uses (tokenEntry.sess)
    held,        \* per request: the credentials it sends
    dead,        \* released, m.mu unlocked, wg.Add not yet called
    retiring,    \* goroutine started (counted by wg), login not yet taken
    dropped,     \* invalidated login, s.mu unlocked, wg.Add not yet called
    loggingOut,  \* logins a counted goroutine is about to end
    open,        \* logins opened on a BMC and not ended by the manager
    used,        \* logins ever opened
    aged,        \* logins older than reloginAfter
    shut         \* progress of Close

maps     == <<current, made, refs, entry>>
threads  == <<pc, target, held>>
logins   == <<auth, closed, open, used>>
retirees == <<dead, retiring, dropped, loggingOut>>
clock    == <<expired, aged>>
vars     == <<maps, threads, logins, retirees, clock, shut>>

Threads  == Tokens \cup Requests
Listed   == {"token", "console"}
Holding  == {"starting"} \cup Listed
PCs      == {"idle", "auth", "login", "have", "failed", "reauth", "relogin"}

TypeOK ==
    /\ current \in [Keys -> Sessions \cup {NoSession}]
    /\ made \subseteq Sessions
    /\ refs \in [Sessions -> Int]
    /\ auth \in [Sessions -> Logins \cup {NoLogin}]
    /\ closed \subseteq Sessions
    /\ entry \in [Tokens -> Holding \cup {"unused", "gone"}]
    /\ expired \subseteq Tokens
    /\ pc \in [Threads -> PCs]
    /\ target \in [Threads -> Sessions]
    /\ held \in [Threads -> Logins \cup {NoLogin}]
    /\ dead \subseteq Sessions /\ retiring \subseteq Sessions
    /\ dropped \subseteq Logins /\ loggingOut \subseteq Logins
    /\ open \subseteq used /\ used \subseteq Logins /\ aged \subseteq used
    /\ shut \in {"serving", "closing", "drained", "gave up"}

Init ==
    /\ current = [k \in Keys |-> NoSession]
    /\ made = {} /\ closed = {} /\ expired = {}
    /\ refs = [s \in Sessions |-> 0]
    /\ auth = [s \in Sessions |-> NoLogin]
    /\ entry = [t \in Tokens |-> "unused"]
    /\ pc = [x \in Threads |-> "idle"]
    /\ target = [x \in Threads |-> CHOOSE s \in Sessions : TRUE]
    /\ held = [x \in Threads |-> NoLogin]
    /\ dead = {} /\ retiring = {} /\ dropped = {} /\ loggingOut = {}
    /\ open = {} /\ used = {} /\ aged = {}
    /\ shut = "serving"

(***************************************************************************)
(* Reference counting, under Manager.mu                                    *)
(***************************************************************************)
Holders(s) == {t \in Tokens : entry[t] \in Holding /\ target[t] = s}

\* releaseLocked for every token of gone: the sessions whose last user this
\* was leave the map and are queued for logout.
Releases(gone, s)   == Cardinality({t \in gone : target[t] = s})
ReleasedFirst(gone) == {s \in Sessions : Releases(gone, s) > 0}
ReleasedNever(gone) == {s \in Sessions : Releases(gone, s) > refs[s]}
Released(gone)      == {s \in Sessions : Releases(gone, s) > 0 /\ refs[s] <= Releases(gone, s)}

releaseLocked(gone) ==
    /\ refs' = [s \in Sessions |-> refs[s] - Releases(gone, s)]
    /\ current' = [k \in Keys |-> IF current[k] \in Released(gone) THEN NoSession ELSE current[k]]
    /\ dead' = dead \cup Released(gone)

\* What gcLocked drops.
Due == {t \in expired : entry[t] \in Listed}

\* gcLocked, with token t first entered as what.
gcAfter(t, what) ==
    /\ releaseLocked(Due)
    /\ entry' = [u \in Tokens |-> IF u = t THEN what ELSE IF u \in Due THEN "gone" ELSE entry[u]]

(***************************************************************************)
(* StartSession                                                            *)
(***************************************************************************)
\* acquireLocked: the session of the key, or a new one.
StartSession(t, k) ==
    /\ entry[t] = "unused"
    /\ shut = "serving"
    /\ \E s \in Sessions :
         /\ current[k] = s \/ (current[k] = NoSession /\ s \notin made)
         /\ current' = [current EXCEPT ![k] = s]
         /\ made' = made \cup {s}
         /\ refs' = [refs EXCEPT ![s] = @ + 1]
         /\ target' = [target EXCEPT ![t] = s]
    /\ entry' = [entry EXCEPT ![t] = "starting"]
    /\ pc' = [pc EXCEPT ![t] = "auth"]
    /\ UNCHANGED <<held, logins, retirees, clock, shut>>

\* The login was made: the token is stored, then gcLocked runs.
MintToken(t) ==
    /\ pc[t] = "have"
    /\ gcAfter(t, "token")
    /\ pc' = [pc EXCEPT ![t] = "idle"]
    /\ UNCHANGED <<made, target, held, logins, retiring, dropped, loggingOut, clock, shut>>

\* The login failed: the reference is given back.
FailStart(t) ==
    /\ pc[t] = "failed"
    /\ releaseLocked({t})
    /\ entry' = [entry EXCEPT ![t] = "gone"]
    /\ pc' = [pc EXCEPT ![t] = "idle"]
    /\ UNCHANGED <<made, target, held, logins, retiring, dropped, loggingOut, clock, shut>>

(***************************************************************************)
(* sessionAuth, by a StartSession call or a request                        *)
(***************************************************************************)
\* bmcSession.mu is held for the length of a login.
Locked(s) == \E x \in Threads : pc[x] \in {"login", "relogin"} /\ target[x] = s

\* A request has repeated its call after its second sessionAuth.
AfterAuth(x) == IF pc[x] \in {"auth", "login"} THEN "have" ELSE "idle"
AfterFail(x) == IF x \in Tokens THEN "failed" ELSE "idle"

\* bmcSession.closed, read under its mutex.
NeverEnded(s) == FALSE
Ended(s)      == s \in closed

sessionAuth(x) ==
    /\ pc[x] \in {"auth", "reauth"}
    /\ ~Locked(target[x])
    /\ \/ /\ Ended(target[x])
          /\ pc' = [pc EXCEPT ![x] = AfterFail(x)]
          /\ UNCHANGED held
       \/ /\ ~Ended(target[x])
          /\ auth[target[x]] # NoLogin
          /\ held' = [held EXCEPT ![x] = auth[target[x]]]
          /\ pc' = [pc EXCEPT ![x] = AfterAuth(x)]
       \/ /\ ~Ended(target[x])
          /\ auth[target[x]] = NoLogin
          /\ pc' = [pc EXCEPT ![x] = IF pc[x] = "auth" THEN "login" ELSE "relogin"]
          /\ UNCHANGED held
    /\ UNCHANGED <<maps, target, logins, retirees, clock, shut>>

LoginSucceeds(x) ==
    /\ pc[x] \in {"login", "relogin"}
    /\ \E l \in Logins \ used :
         /\ auth' = [auth EXCEPT ![target[x]] = l]
         /\ held' = [held EXCEPT ![x] = l]
         /\ open' = open \cup {l}
         /\ used' = used \cup {l}
    /\ pc' = [pc EXCEPT ![x] = AfterAuth(x)]
    /\ UNCHANGED <<maps, target, closed, retirees, clock, shut>>

\* Refused, two-factor (ended again by login itself), session limit, unreachable.
LoginFails(x) ==
    /\ pc[x] \in {"login", "relogin"}
    /\ pc' = [pc EXCEPT ![x] = AfterFail(x)]
    /\ UNCHANGED <<maps, target, held, logins, retirees, clock, shut>>

(***************************************************************************)
(* Proxied requests                                                        *)
(***************************************************************************)
\* exchange: the start token becomes a console session with the same binding.
Exchange(r, t) ==
    /\ pc[r] = "idle"
    /\ entry[t] = "token" /\ t \notin expired
    /\ gcAfter(t, "console")
    /\ pc' = [pc EXCEPT ![r] = "auth"]
    /\ target' = [target EXCEPT ![r] = target[t]]
    /\ UNCHANGED <<made, held, logins, retiring, dropped, loggingOut, clock, shut>>

\* console: a request with the cookie of a live console session.
Console(r, t) ==
    /\ pc[r] = "idle"
    /\ entry[t] = "console" /\ t \notin expired
    /\ pc' = [pc EXCEPT ![r] = "auth"]
    /\ target' = [target EXCEPT ![r] = target[t]]
    /\ UNCHANGED <<maps, held, logins, retirees, clock, shut>>

\* The BMC answers (anything but 401) or cannot be reached.
Answered(r) ==
    /\ pc[r] = "have"
    /\ pc' = [pc EXCEPT ![r] = "idle"]
    /\ UNCHANGED <<maps, target, held, logins, retirees, clock, shut>>

\* The login a 401 is blamed on: the one the request used, still in place and
\* at least reloginAfter old.
BlamedUnread(r) == held[r] \in aged
Blamed(r)       == auth[target[r]] = held[r] /\ held[r] \in aged

\* The BMC answers 401.  invalidate drops the login the request used, unless
\* it was replaced or is too fresh; a bodiless request then logs in again.
Refused(r) ==
    /\ pc[r] = "have"
    /\ ~Locked(target[r])
    /\ Blamed(r)
    /\ auth' = [auth EXCEPT ![target[r]] = NoLogin]
    /\ dropped' = dropped \cup {held[r]}
    /\ \E next \in {"idle", "reauth"} : pc' = [pc EXCEPT ![r] = next]
    /\ UNCHANGED <<maps, target, held, closed, open, used, dead, retiring, loggingOut, clock, shut>>


(***************************************************************************)
(* Expiry, retirement and logout                                           *)
(***************************************************************************)
Expire(t) ==
    /\ entry[t] \in Listed
    /\ expired' = expired \cup {t}
    /\ UNCHANGED <<maps, threads, logins, retirees, aged, shut>>

Age(l) ==
    /\ l \in used
    /\ aged' = aged \cup {l}
    /\ UNCHANGED <<maps, threads, logins, retirees, expired, shut>>

\* The janitor (Run) until the service stops.
gc ==
    /\ shut = "serving"
    /\ releaseLocked(Due)
    /\ entry' = [u \in Tokens |-> IF u \in Due THEN "gone" ELSE entry[u]]
    /\ UNCHANGED <<made, threads, logins, retiring, dropped, loggingOut, clock, shut>>

\* unlockAndRetire, after unlocking: wg.Add and the goroutine.
SpawnRetire(s) ==
    /\ s \in dead
    /\ dead' = dead \ {s}
    /\ retiring' = retiring \cup {s}
    /\ UNCHANGED <<maps, threads, logins, dropped, loggingOut, clock, shut>>

\* The goroutine takes the login and closes the session under its mutex.
TakenUnread(s) == {auth[s]}
Taken(s)       == {auth[s]} \ {NoLogin}

Retire(s) ==
    /\ s \in retiring
    /\ ~Locked(s)
    /\ retiring' = retiring \ {s}
    /\ loggingOut' = loggingOut \cup Taken(s)
    /\ auth' = [auth EXCEPT ![s] = NoLogin]
    /\ closed' = closed \cup {s}
    /\ UNCHANGED <<maps, threads, open, used, dead, dropped, clock, shut>>

\* invalidate, after unlocking: wg.Add and the goroutine.
SpawnLogout(l) ==
    /\ l \in dropped
    /\ dropped' = dropped \ {l}
    /\ loggingOut' = loggingOut \cup {l}
    /\ UNCHANGED <<maps, threads, logins, dead, retiring, clock, shut>>

\* logout: best effort, once per login.
Logout(l) ==
    /\ l \in loggingOut
    /\ loggingOut' = loggingOut \ {l}
    /\ open' = open \ {l}
    /\ UNCHANGED <<maps, threads, auth, closed, used, dead, retiring, dropped, clock, shut>>

(***************************************************************************)
(* Close, called once the server has stopped taking new StartSession calls *)
(* (calls and requests already running may go on)                          *)
(***************************************************************************)
Close ==
    /\ shut = "serving"
    /\ retiring' = retiring \cup {s \in Sessions : \E k \in Keys : current[k] = s}
    /\ current' = [k \in Keys |-> NoSession]
    /\ entry' = [t \in Tokens |-> IF entry[t] \in Listed THEN "gone" ELSE entry[t]]
    /\ shut' = "closing"
    /\ UNCHANGED <<made, refs, threads, logins, dead, dropped, loggingOut, clock>>

\* The counter of the WaitGroup is zero.
DrainedTooSoon == retiring = {}
Drained        == retiring = {} /\ loggingOut = {}

\* wg.Wait returned, or the context ended first.
CloseReturns ==
    /\ shut = "closing"
    /\ shut' = IF Drained THEN "drained" ELSE "gave up"
    /\ UNCHANGED <<maps, threads, logins, retirees, clock>>

ThreadStep(x) ==
    \/ sessionAuth(x)
    \/ LoginSucceeds(x) \/ LoginFails(x)

StartStep(t) == MintToken(t) \/ FailStart(t)
ProxyStep(r) == Answered(r) \/ Refused(r)

Next ==
    \/ \E x \in Threads : ThreadStep(x)
    \/ \E t \in Tokens : StartStep(t) \/ Expire(t) \/ \E k \in Keys : StartSession(t, k)
    \/ \E r \in Requests : ProxyStep(r) \/ \E t \in Tokens : Exchange(r, t) \/ Console(r, t)
    \/ gc
    \/ \E s \in Sessions : SpawnRetire(s) \/ Retire(s)
    \/ \E l \in Logins : SpawnLogout(l) \/ Logout(l) \/ Age(l)
    \/ Close
    \/ CloseReturns

Spec == Init /\ [][Next]_vars

\* Started goroutines and handlers run on (network calls have timeouts), the
\* ticker fires, and time passes for every token and console.
Fairness ==
    /\ WF_vars(gc)
    /\ \A t \in Tokens : WF_vars(StartStep(t)) /\ WF_vars(Expire(t))
    /\ \A x \in Threads : SF_vars(ThreadStep(x))
    /\ \A r \in Requests : WF_vars(ProxyStep(r))
    /\ \A s \in Sessions : WF_vars(SpawnRetire(s)) /\ SF_vars(Retire(s))
    /\ \A l \in Logins : WF_vars(SpawnLogout(l)) /\ WF_vars(Logout(l))

FairSpec == Spec /\ Fairness

(***************************************************************************)
(* Properties                                                              *)
(***************************************************************************)
\* The count of a session in Manager.sessions is exactly the number of
\* StartSession calls, tokens and consoles that use it, and never zero.
RefsExact ==
    \A k \in Keys : current[k] # NoSession =>
        /\ refs[current[k]] = Cardinality(Holders(current[k]))
        /\ refs[current[k]] > 0

\* Until Close, a session that a StartSession call, a token or a console uses
\* stays in the map and is neither closed nor queued for logout: nobody's
\* release or expiry ends the login another console is using.
HeldSessionKept ==
    shut = "serving" => \A t \in Tokens : entry[t] \in Holding =>
        /\ \E k \in Keys : current[k] = target[t]
        /\ target[t] \notin closed \cup dead \cup retiring

\* No BMC login is forgotten: each one that was opened and not yet ended is
\* either about to be logged out or belongs to one unclosed session that is
\* still in the map or queued for retirement.  BMCs allow only a few sessions.
NoLeakedLogin ==
    \A l \in open \ (dropped \cup loggingOut) : \E s \in Sessions \ closed :
        /\ auth[s] = l
        /\ s \in dead \cup retiring \/ \E k \in Keys : current[k] = s

\* A login is logged out at most once, and never while a session hands it out:
\* a late 401 or retirement cannot end a login that replaced the one it saw.
LogoutUnused ==
    /\ dropped \cap loggingOut = {}
    /\ \A l \in dropped \cup loggingOut : l \in open /\ \A s \in Sessions : auth[s] # l

\* At most one thread logs in for a session at a time, so a BMC session is not
\* opened twice and overwritten.
OneLoginAtATime ==
    \A x, y \in Threads :
        (x # y /\ {pc[x], pc[y]} \subseteq {"login", "relogin"}) => target[x] # target[y]

\* While the service runs, a login whose session no unexpired token or console
\* and no StartSession call uses is ended, unless a new user takes it over.
Unused(l) ==
    l \in open /\ \A t \in Tokens \ expired : ~(entry[t] \in Holding /\ auth[target[t]] = l)

UnusedLoginEnds == \A l \in Logins : Unused(l) ~> (~Unused(l) \/ shut # "serving")

\* "Close ends every console and logs out of every BMC session, waiting for
\* the logouts until ctx is done" (kvm.go:255-256).  What holds: when Close
\* stops waiting because nothing is left to wait for, the only logins still open are in the gap between an unlock and
\* the wg.Add that follows it in unlockAndRetire or invalidate.
CloseWaits ==
    [][(shut' = "drained" /\ shut # "drained") =>
        \A l \in open : l \in dropped \/ \E s \in dead : auth[s] = l]_vars
=============================================================================
