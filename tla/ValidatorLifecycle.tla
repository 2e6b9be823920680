------------------------- MODULE ValidatorLifecycle -------------------------
(***************************************************************************)
(* What the proof-of-staked-authority contracts promise of one validator,  *)
(* whatever their bookkeeping: it is out, active or jailed; it becomes     *)
(* active by paying a fresh bond or by having served its sentence, and     *)
(* in no other way; the bonds paid in are never paid out again.            *)
(*                                                                         *)
(* They do not promise that whoever serves a sentence ever paid a bond.    *)
(* Missing blocks sends only the active to jail, but a piece of evidence,  *)
(* which anybody may make up, and an order of the authorities are passed   *)
(* on any address, also on one that is out; having served that sentence,   *)
(* it is active.                                                           *)
(***************************************************************************)
EXTENDS Naturals

CONSTANTS
    Validator,
    MinBond,   \* the least bond that buys a place
    Terms,     \* the sentences the authorities may order, in blocks
    Proof      \* the pieces of evidence that may be submitted

VARIABLES
    status,    \* "out", "active" or "jailed", for every validator
    release,   \* the block from which a jailed validator may return
    bonded,    \* the coin paid in so far
    accepted,  \* the pieces of evidence acted on
    now        \* the current block

lifecycleVars == <<status, release, bonded, accepted, now>>

Init ==
    /\ status \in [Validator -> {"out", "active"}]
    /\ release = [v \in Validator |-> 0]
    /\ bonded = 0
    /\ accepted = {}
    /\ now = 1

Admit(v) ==
    /\ status[v] # "active"
    /\ bonded' \in Nat
    /\ bonded' >= bonded + MinBond
    /\ status' = [status EXCEPT ![v] = "active"]
    /\ release' = [release EXCEPT ![v] = 0]
    /\ UNCHANGED <<accepted, now>>

Jail(v) ==
    /\ status' = [status EXCEPT ![v] = "jailed"]
    /\ release'[v] \in Nat
    /\ release'[v] >= now
    /\ release' = [release EXCEPT ![v] = release'[v]]
    /\ UNCHANGED <<bonded, now>>

JailForMisses(v) ==
    /\ status[v] = "active"
    /\ Jail(v)
    /\ UNCHANGED accepted

JailByOrder(v) ==
    /\ \E term \in Terms : release'[v] = now + term
    /\ Jail(v)
    /\ UNCHANGED accepted

JailOnEvidence(v) ==
    /\ \E proof \in Proof \ accepted : accepted' = accepted \cup {proof}
    /\ Jail(v)

Release(v) ==
    /\ status[v] = "jailed"
    /\ now >= release[v]
    /\ status' = [status EXCEPT ![v] = "active"]
    /\ UNCHANGED <<release, bonded, accepted, now>>

Tick ==
    /\ now' = now + 1
    /\ UNCHANGED <<status, release, bonded, accepted>>

Next ==
    \/ Tick
    \/ \E v \in Validator :
          \/ Admit(v) \/ Release(v)
          \/ JailForMisses(v) \/ JailByOrder(v) \/ JailOnEvidence(v)

Spec == Init /\ [][Next]_lifecycleVars
=============================================================================
