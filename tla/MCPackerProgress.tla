-------------------------- MODULE MCPackerProgress --------------------------
EXTENDS PackerProgress

CONSTANTS c1, c2

TwoCallers == {c1, c2}
=============================================================================
