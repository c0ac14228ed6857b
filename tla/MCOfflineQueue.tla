--------------------------- MODULE MCOfflineQueue ---------------------------
EXTENDS OfflineQueue

CONSTANTS t1, t2, m1, m2, d1, d2
=============================================================================
