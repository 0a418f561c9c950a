----------------------------- MODULE MCKeepWarm -----------------------------
\* A small instance of KeepWarm.
EXTENDS KeepWarm
CONSTANTS c1, c2, e1, e2, m1, m2
=============================================================================
