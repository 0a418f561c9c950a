-------------------------- MODULE MCToolApprovals --------------------------
\* A small instance of ToolApprovals: two runs of one session.
EXTENDS ToolApprovals
CONSTANTS r1, r2, s1
OneSession == [r \in Runs |-> s1]
=============================================================================
