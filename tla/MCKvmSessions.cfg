SPECIFICATION Spec
CONSTANTS
    Keys = {k1}
    Sessions = {s1, s2}
    Logins = {l1, l2}
    Tokens = {t1, t2}
    Requests = {r1, r2}
    NoSession = NoSession
    NoLogin = NoLogin
SYMMETRY Symmetry
INVARIANT TypeOK
INVARIANT RefsExact
INVARIANT HeldSessionKept
INVARIANT NoLeakedLogin
INVARIANT LogoutUnused
PROPERTY CloseWaits
\* Once Close has returned and every token is used up nothing is left to do.
CHECK_DEADLOCK FALSE
