------------------------------- MODULE MCPage -------------------------------
EXTENDS Page

\* The API calls of the two tabs.
Calls == [t1 |-> {"r1", "r2"}, t2 |-> {}]
=============================================================================
