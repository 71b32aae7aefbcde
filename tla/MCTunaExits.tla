----------------------------- MODULE MCTunaExits -----------------------------
EXTENDS TunaExits

CONSTANTS e1, e2, e3, e4, r1, r2
=============================================================================
