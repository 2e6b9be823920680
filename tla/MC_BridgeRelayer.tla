-------------------------- MODULE MC_BridgeRelayer --------------------------
EXTENDS BridgeRelayer

CONSTANTS r1, r2, r3

MCRelayers == <<r1, r2, r3>>
=============================================================================
