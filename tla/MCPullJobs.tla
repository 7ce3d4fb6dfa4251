----------------------------- MODULE MCPullJobs -----------------------------
\* Instance of PullJobs for TLC.
EXTENDS PullJobs

CONSTANTS r1, r2, c1, p1
MCResumers == {r1, r2}
MCOneResumer == {r1}
MCCancelers == {c1}
MCPausers == {p1}
MCNobody == {}
=============================================================================
