------------------------- MODULE MC_FreqtradeBridge -------------------------
EXTENDS FreqtradeBridge, TLC

CONSTANTS t1, t2

\* At and just above the default minProfitBps of 10.
MCProfitBps == (t1 :> 11) @@ (t2 :> 10)
=============================================================================
