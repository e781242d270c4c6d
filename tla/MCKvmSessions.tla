--------------------------- MODULE MCKvmSessions ---------------------------
EXTENDS KvmSessions, TLC

\* The sets are model values that no definition tells apart; Init's CHOOSE
\* picks a session only as the meaningless target of an idle thread, so
\* sessions are left out.
Symmetry ==
    Permutations(Keys) \cup Permutations(Logins) \cup Permutations(Tokens)
        \cup Permutations(Requests)
=============================================================================
