------------------------------ MODULE MC_PoSA ------------------------------
EXTENDS PoSA

CONSTANTS v1, v2, v3

MCGenesis == <<v1, v2>>
MCGenesisOne == <<v1>>
=============================================================================
