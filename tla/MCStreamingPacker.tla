------------------------- MODULE MCStreamingPacker -------------------------
EXTENDS StreamingPacker

CONSTANTS c1, c2

TwoCallers == {c1, c2}
=============================================================================
