---------------------------- MODULE BridgeEscrow ----------------------------
(***************************************************************************)
(* What a bridge promises its depositors: coin locked under a key on one   *)
(* chain is released on the other at most once per key, never without the  *)
(* deposit, and no coin leaves in any other way.  How much leaves for a    *)
(* key it does not promise: that is for those who release it.              *)
(***************************************************************************)
EXTENDS Integers

CONSTANT Key

VARIABLES
    deposited,  \* the keys under which coin was locked
    released,   \* the keys whose coin was released
    paid        \* the coin released in all

escrowVars == <<deposited, released, paid>>

EscrowInit ==
    /\ deposited = {}
    /\ released = {}
    /\ paid = 0

Lock(k) ==
    /\ deposited' = deposited \cup {k}
    /\ UNCHANGED <<released, paid>>

Release(k) ==
    /\ k \in deposited \ released
    /\ released' = released \cup {k}
    /\ paid' >= paid
    /\ UNCHANGED deposited

EscrowNext == \E k \in Key : Lock(k) \/ Release(k)

EscrowSpec == EscrowInit /\ [][EscrowNext]_escrowVars
=============================================================================
