-------------------------- MODULE FreqtradeOracle --------------------------
(***************************************************************************)
(* contracts/PISOFreqtradeOracle.sol: trade proofs recorded on chain, with *)
(* a reward for the profitable ones while the vault lasts.  One worker     *)
(* account, that of the bridge, submits them.  A proof is known by the     *)
(* freqtrade trade it names; the contract keeps as many as are submitted,  *)
(* so proofs[t] and rewards[t] count them.                                 *)
(***************************************************************************)
EXTENDS Integers

CONSTANTS
    Trade,       \* freqtrade's trade ids
    ProfitBps,   \* the profit of each trade, in basis points
    RewardRange, \* what rewardPerProfitableTrade may be set to
    MinBpsRange, \* what minProfitBps may be set to
    MaxVault     \* bound on the vault

ASSUME OracleParameters ==
    /\ ProfitBps \in [Trade -> Int]
    /\ RewardRange \subseteq Nat
    /\ MinBpsRange \subseteq Nat
    /\ MaxVault \in Nat

VARIABLES
    authorized,               \* authorizedWorkers[worker]
    rewardPerProfitableTrade,
    minProfitBps,
    vault,                    \* address(this).balance
    proofs,                   \* the TradeProofs of each trade
    rewards                   \* those of them whose reward was paid

oracleVars ==
    <<authorized, rewardPerProfitableTrade, minProfitBps, vault, proofs, rewards>>

OracleInit ==
    /\ authorized = TRUE
    /\ rewardPerProfitableTrade \in RewardRange
    /\ minProfitBps \in MinBpsRange
    /\ vault = 0
    /\ proofs = [t \in Trade |-> 0]
    /\ rewards = [t \in Trade |-> 0]

Profitable(t) == ProfitBps[t] > minProfitBps

\* An empty vault is no error: the proof is recorded without a reward.
SubmitTradeProof(t) ==
    /\ authorized
    /\ proofs' = [proofs EXCEPT ![t] = @ + 1]
    /\ \/ /\ Profitable(t)
          /\ vault >= rewardPerProfitableTrade
          /\ vault' = vault - rewardPerProfitableTrade
          /\ rewards' = [rewards EXCEPT ![t] = @ + 1]
       \/ /\ ~(Profitable(t) /\ vault >= rewardPerProfitableTrade)
          /\ UNCHANGED <<vault, rewards>>
    /\ UNCHANGED <<authorized, rewardPerProfitableTrade, minProfitBps>>

SetWorkerAuthorization ==
    /\ authorized' = ~authorized
    /\ UNCHANGED <<rewardPerProfitableTrade, minProfitBps, vault, proofs, rewards>>

SetRewardPerProfitableTrade ==
    /\ rewardPerProfitableTrade' \in RewardRange
    /\ UNCHANGED <<authorized, minProfitBps, vault, proofs, rewards>>

SetMinProfitBps ==
    /\ minProfitBps' \in MinBpsRange
    /\ UNCHANGED <<authorized, rewardPerProfitableTrade, vault, proofs, rewards>>

\* depositRewards() and receive().
DepositRewards ==
    /\ vault < MaxVault
    /\ vault' = vault + 1
    /\ UNCHANGED <<authorized, rewardPerProfitableTrade, minProfitBps, proofs, rewards>>

EmergencyWithdraw ==
    /\ vault > 0
    /\ vault' = 0
    /\ UNCHANGED <<authorized, rewardPerProfitableTrade, minProfitBps, proofs, rewards>>

AdminCall ==
    \/ SetWorkerAuthorization
    \/ SetRewardPerProfitableTrade
    \/ SetMinProfitBps
    \/ DepositRewards
    \/ EmergencyWithdraw
=============================================================================
