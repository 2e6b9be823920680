--------------------------- MODULE TreasuryEngine ---------------------------
(***************************************************************************)
(* core/treasury_mining.py: the reference engine of treasury mining.  It   *)
(* pays the reward of a block out of the pre-minted treasury, records a    *)
(* snapshot of every payout under the block's number, and takes a payout   *)
(* back when the block is orphaned.                                        *)
(*                                                                         *)
(* The methods are synchronous, so each is one action.  The dictionary     *)
(* `balances' is a function that is 0 where the dictionary has no entry.   *)
(***************************************************************************)
EXTENDS Integers, FiniteSets

CONSTANTS
    TREASURY_ADDRESS,
    Miner,                    \* the addresses that may be paid
    InitialSupplies,          \* the arguments __init__ may get; 60 billion by default
    HALVING_INTERVAL,         \* 5_000_000 blocks in the source
    MAX_HALVINGS,             \* 64 in the source: no reward from there on
    INITIAL_BLOCK_REWARD,     \* 5000 coins in the source
    Fees                      \* the transaction fees a block may carry

Account == Miner \cup {TREASURY_ADDRESS}

ASSUME TreasuryParameters ==
    /\ IsFiniteSet(Miner)
    /\ TREASURY_ADDRESS \notin Miner
    /\ InitialSupplies \subseteq Nat
    /\ HALVING_INTERVAL \in Nat \ {0}
    /\ MAX_HALVINGS \in Nat \ {0}
    /\ INITIAL_BLOCK_REWARD \in Nat
    /\ Fees \subseteq Nat

\* INITIAL_BLOCK_REWARD >> h: each place to the right is the floor of half.
ShiftedReward[h \in Nat] ==
    IF h = 0 THEN INITIAL_BLOCK_REWARD ELSE ShiftedReward[h - 1] \div 2

VARIABLES
    treasury_balance_wei,  \* self.treasury_balance_wei, what it was created with
    balances,              \* self.balances
    block_history,         \* self.block_history, the snapshots by block number
    total_distributed_wei  \* self.total_distributed_wei

engineVars == <<treasury_balance_wei, balances, block_history, total_distributed_wei>>

AtMost(x, y) == IF x <= y THEN x ELSE y

\* Mutant: the schedule is not applied.
UnhalvedReward(block_number, treasury) == AtMost(ShiftedReward[0], treasury)

\* calculate_block_reward, with the treasury balance it reads as a parameter.
CalculateBlockReward(block_number, treasury) ==
    LET halvings == block_number \div HALVING_INTERVAL
    IN  IF halvings >= MAX_HALVINGS \/ treasury = 0 THEN 0
        ELSE AtMost(ShiftedReward[halvings], treasury)

Payout(block_number) ==
    AtMost(CalculateBlockReward(block_number, balances[TREASURY_ADDRESS]),
           balances[TREASURY_ADDRESS])

EngineInit ==
    /\ treasury_balance_wei \in InitialSupplies
    /\ balances = [a \in Account |->
          IF a = TREASURY_ADDRESS THEN treasury_balance_wei ELSE 0]
    /\ block_history = [n \in {} |-> 0]
    /\ total_distributed_wei = 0

\* Mutant: the fees are forgotten in the snapshot.
FinalizeWithoutFeeSnapshot(block_number, miner, tx_fees) ==
    LET payout == Payout(block_number)
    IN  /\ balances' = [balances EXCEPT ![TREASURY_ADDRESS] = @ - payout,
                                        ![miner] = @ + payout + tx_fees]
        /\ total_distributed_wei' = total_distributed_wei + payout
        /\ block_history' = [n \in DOMAIN block_history \cup {block_number} |->
              IF n = block_number
              THEN [miner |-> miner, payout |-> payout, fees |-> 0,
                    remaining |-> balances[TREASURY_ADDRESS] - payout,
                    distributed |-> total_distributed_wei + payout]
              ELSE block_history[n]]
        /\ UNCHANGED treasury_balance_wei

\* finalize_block_reward: nothing is asked about the number; the snapshot of an
\* earlier block of that number is overwritten.
FinalizeBlockReward(block_number, miner, tx_fees) ==
    LET payout == Payout(block_number)
    IN  /\ balances' = [balances EXCEPT ![TREASURY_ADDRESS] = @ - payout,
                                        ![miner] = @ + payout + tx_fees]
        /\ total_distributed_wei' = total_distributed_wei + payout
        /\ block_history' = [n \in DOMAIN block_history \cup {block_number} |->
              IF n = block_number
              THEN [miner |-> miner, payout |-> payout, fees |-> tx_fees,
                    remaining |-> balances[TREASURY_ADDRESS] - payout,
                    distributed |-> total_distributed_wei + payout]
              ELSE block_history[n]]
        /\ UNCHANGED treasury_balance_wei

\* Mutant: the total keeps counting the orphaned payout.
RollbackKeepingTotal(block_number) ==
    /\ block_number \in DOMAIN block_history
    /\ LET snapshot == block_history[block_number]
       IN  balances' = [balances EXCEPT
              ![TREASURY_ADDRESS] = @ + snapshot.payout,
              ![snapshot.miner] = @ - (snapshot.payout + snapshot.fees)]
    /\ block_history' =
          [n \in DOMAIN block_history \ {block_number} |-> block_history[n]]
    /\ UNCHANGED <<total_distributed_wei, treasury_balance_wei>>

\* rollback_block_reorg; an unknown number is an error that changes nothing.
RollbackBlockReorg(block_number) ==
    /\ block_number \in DOMAIN block_history
    /\ LET snapshot == block_history[block_number]
       IN  /\ balances' = [balances EXCEPT
                 ![TREASURY_ADDRESS] = @ + snapshot.payout,
                 ![snapshot.miner] = @ - (snapshot.payout + snapshot.fees)]
           /\ total_distributed_wei' = total_distributed_wei - snapshot.payout
    /\ block_history' =
          [n \in DOMAIN block_history \ {block_number} |-> block_history[n]]
    /\ UNCHANGED treasury_balance_wei

-----------------------------------------------------------------------------
Snapshot ==
    [miner : Miner, payout : Nat, fees : Nat, remaining : Nat, distributed : Nat]

EngineTypeOK ==
    /\ treasury_balance_wei \in InitialSupplies
    /\ balances \in [Account -> Nat]
    /\ DOMAIN block_history \subseteq Nat
    /\ \A n \in DOMAIN block_history : block_history[n] \in Snapshot
    /\ total_distributed_wei \in Nat

\* The pre-minted coin is in the treasury or counted as distributed, also when
\* the payout was capped by what was left and the block is orphaned afterwards.
PreMintedConserved ==
    balances[TREASURY_ADDRESS] + total_distributed_wei = treasury_balance_wei
=============================================================================
