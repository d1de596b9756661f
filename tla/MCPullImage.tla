---------------------------- MODULE MCPullImage ----------------------------
EXTENDS PullImage

CONSTANTS w1, w2

TwoWorkers == {w1, w2}
=============================================================================
