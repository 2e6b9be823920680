----------------------------- MODULE Governance -----------------------------
(***************************************************************************)
(* The staking contract and the governor beside it, over one native coin:  *)
(* coins that are staked, moved between accounts or taken out again are    *)
(* the votes of the moment, and the account that a contract pays or calls  *)
(* may turn to either of them before it returns.                           *)
(***************************************************************************)
EXTENDS PISOStaking, PISOGovernor

vars == <<coinVars, stakingVars, governorVars>>

Init == CoinInit /\ StakingInit /\ GovernorInit

StakingNext ==
    \E sender \in Account, value \in Amounts :
        \/ RegisterValidator(sender, value)
        \/ \E v \in Account : Delegate(sender, v, value)
        \/ \E v \in Account : Unstake(sender, v, value)

GovernorNext ==
    \/ \E target \in Target : CreateProposal(target)
    \/ \E id \in ProposalId :
          \/ \E voter \in Account, support \in BOOLEAN : CastVote(voter, id, support)
          \/ ExecuteProposal(id)
    \/ ExecutionReturns

Next ==
    \/ (StakingNext \/ UnstakeReturns) /\ UNCHANGED governorVars
    \/ GovernorNext /\ UNCHANGED stakingVars
    \/ /\ \/ \E from, to \in Account, amount \in Amounts : TransferCoins(from, to, amount)
          \/ NextBlock
       /\ UNCHANGED <<stakingVars, governorVars>>

Spec == Init /\ [][Next]_vars

\* Types, and the list of validators: each registered account once.
TypeOK ==
    /\ CoinTypeOK
    /\ StakingTypeOK
    /\ GovernorTypeOK
    /\ \A v \in Account : Cardinality({i \in DOMAIN validatorList : validatorList[i] = v})
                            = IF validators[v].isActive THEN 1 ELSE 0
    /\ locked <=> \E i \in DOMAIN frames : frames[i].call = "unstake"
=============================================================================
