------------------------------- MODULE Ballot -------------------------------
(***************************************************************************)
(* What contracts/PISOGovernor.sol promises of a proposal: it is open for  *)
(* a while, then carried or rejected for good, and only a carried one is   *)
(* executed.  Closing is a matter of time, so several proposals may close  *)
(* in one step.                                                            *)
(***************************************************************************)
CONSTANT Proposal

VARIABLE outcome

Moves == {<<"none", "open">>,
          <<"open", "carried">>, <<"open", "rejected">>,
          <<"carried", "executed">>}

Init == outcome = [p \in Proposal |-> "none"]

Next == \A p \in Proposal :
            \/ outcome'[p] = outcome[p]
            \/ <<outcome[p], outcome'[p]>> \in Moves

Spec == Init /\ [][Next]_outcome
=============================================================================
