---------------------------- MODULE PISOStaking ----------------------------
(***************************************************************************)
(* contracts/PISOStaking.sol: validators register with a stake of their    *)
(* own, others delegate to them, and a delegator takes its coins back.     *)
(* Nothing gives back a validator's own stake and nothing deactivates one. *)
(* rewardPool is never touched and maxValidators never read.               *)
(***************************************************************************)
EXTENDS NativeCoin, FiniteSets, Functions

CONSTANTS
    MIN_VALIDATOR_STAKE,
    MIN_DELEGATION

ASSUME StakingParameters ==
    /\ MIN_VALIDATOR_STAKE \in Nat
    /\ MIN_DELEGATION \in Nat

VARIABLES
    validators,     \* totalStake and isActive of each account
    validatorList,
    delegations,    \* delegations[delegator][validator]
    locked,         \* _locked of nonReentrant
    vault           \* the coins of the contract

stakingVars == <<validators, validatorList, delegations, locked, vault>>

StakingInit ==
    /\ validators = [v \in Account |-> [totalStake |-> 0, isActive |-> FALSE]]
    /\ validatorList = <<>>
    /\ delegations = [d \in Account |-> [v \in Account |-> 0]]
    /\ locked = FALSE
    /\ vault = 0

StakingTypeOK ==
    /\ validators \in [Account -> [totalStake : Nat, isActive : BOOLEAN]]
    /\ validatorList \in Seq(Account)
    /\ delegations \in [Account -> [Account -> Nat]]
    /\ locked \in BOOLEAN
    /\ vault \in Nat

\* msg.value moves from the sender to the contract.
Deposit(sender, value) ==
    /\ value <= coins[sender]
    /\ coins' = [coins EXCEPT ![sender] = @ - value]
    /\ vault' = vault + value

\* Mutant: the check that the sender is not registered is missing.
RegisterAgain(sender, value) ==
    /\ value >= MIN_VALIDATOR_STAKE
    /\ Deposit(sender, value)
    /\ validators' = [validators EXCEPT ![sender] = [totalStake |-> value, isActive |-> TRUE]]
    /\ validatorList' = Append(validatorList, sender)
    /\ UNCHANGED <<now, frames, delegations, locked>>

RegisterValidator(sender, value) ==
    /\ value >= MIN_VALIDATOR_STAKE
    /\ ~validators[sender].isActive
    /\ Deposit(sender, value)
    /\ validators' = [validators EXCEPT ![sender] = [totalStake |-> value, isActive |-> TRUE]]
    /\ validatorList' = Append(validatorList, sender)
    /\ UNCHANGED <<now, frames, delegations, locked>>

Delegate(sender, v, value) ==
    /\ validators[v].isActive
    /\ value >= MIN_DELEGATION
    /\ Deposit(sender, value)
    /\ delegations' = [delegations EXCEPT ![sender][v] = @ + value]
    /\ validators' = [validators EXCEPT ![v].totalStake = @ + value]
    /\ UNCHANGED <<now, frames, validatorList, locked>>

\* The books are settled before the coins leave, and the payment is a call.
Unstake(sender, v, amount) ==
    /\ ~locked
    /\ delegations[sender][v] >= amount
    /\ amount <= vault
    /\ delegations' = [delegations EXCEPT ![sender][v] = @ - amount]
    /\ validators' = [validators EXCEPT ![v].totalStake = @ - amount]
    /\ vault' = vault - amount
    /\ coins' = [coins EXCEPT ![sender] = @ + amount]
    /\ locked' = TRUE
    /\ Calls([call |-> "unstake"])
    /\ UNCHANGED <<now, validatorList>>

\* The payment has been accepted and the modifier releases the lock.
UnstakeReturns ==
    /\ frames /= <<>> /\ Head(frames).call = "unstake"
    /\ frames' = Tail(frames)
    /\ locked' = FALSE
    /\ UNCHANGED <<coins, now, validators, validatorList, delegations, vault>>

Delegated(v) == SumFunction([d \in Account |-> delegations[d][v]])

Staked == SumFunction([v \in Account |-> validators[v].totalStake])

(***************************************************************************)
(* The contract holds exactly the stakes in its books, at every point      *)
(* where somebody else runs; behind each validator stand all delegations   *)
(* to it and, on top of them, at least the minimum it registered with.  So *)
(* every delegator can be paid, whatever the others have taken out.        *)
(***************************************************************************)
StakeBacked ==
    /\ vault = Staked
    /\ \A v \in Account :
          Delegated(v) + (IF validators[v].isActive THEN MIN_VALIDATOR_STAKE ELSE 0)
              <= validators[v].totalStake

=============================================================================
