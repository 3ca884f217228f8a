-------------------------- MODULE MCSubscribeServer --------------------------
EXTENDS SubscribeServer
CONSTANTS r1, r2, r3

TwoRpcs == {r1, r2}
ThreeRpcs == {r1, r2, r3}
=============================================================================
