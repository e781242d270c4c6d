SPECIFICATION FairSpec
CONSTANTS
    Keys = {k1}
    Sessions = {s1, s2}
    Logins = {l1}
    Tokens = {t1, t2}
    Requests = {r1}
    NoSession = NoSession
    NoLogin = NoLogin
PROPERTY UnusedLoginEnds
\* Once Close has returned and every token is used up nothing is left to do.
CHECK_DEADLOCK FALSE
