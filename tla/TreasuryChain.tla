--------------------------- MODULE TreasuryChain ---------------------------
(***************************************************************************)
(* Treasury mining on a chain that reorganises.  Three node clients apply  *)
(* the payout to their state when a block is finalised and go back to the  *)
(* state root of the parent when it is orphaned; the reference engine      *)
(* (module TreasuryEngine) is told of the same blocks and undoes them by   *)
(* its snapshots.                                                          *)
(*   "bsc"         consensus/consensus_patch_geth_bsc.go                   *)
(*   "edge"        consensus/consensus_patch_polygon_edge.go               *)
(*   "nethermind"  consensus/Nethermind.PisoChain/PisoTreasuryMiningPlugin *)
(* The Nethermind plugin routes no fees, its host client does.  The        *)
(* contract contracts/PISOMiningTreasury.sol quotes the reward and takes   *)
(* donations, which no other component is told of.                         *)
(***************************************************************************)
EXTENDS TreasuryEngine, Sequences, Functions

CONSTANTS
    Donations,  \* what the transactions of a block may send to the treasury
    MaxBlock    \* bound: the last block explored

ASSUME ChainParameters ==
    /\ Donations \subseteq Nat
    /\ 0 \in Donations
    /\ MaxBlock \in Nat

Client == {"bsc", "edge", "nethermind"}

VARIABLES
    height,  \* the number of the canonical head; genesis is 0
    roots    \* roots[n + 1][client]: the balances after block n

chainVars == <<engineVars, height, roots>>

HeadState == roots[height + 1]

-----------------------------------------------------------------------------
\* CalculateTreasuryBlockReward of the Go patches.
CalculateTreasuryBlockReward(block_number, treasury) ==
    LET halvings == block_number \div HALVING_INTERVAL
    IN  IF treasury <= 0 THEN 0
        ELSE IF halvings >= MAX_HALVINGS THEN 0
        ELSE IF ShiftedReward[halvings] > treasury THEN treasury
        ELSE ShiftedReward[halvings]

\* FinalizePISOTreasuryMiningBlock: SubBalance and AddBalance on the state.
FinalizePISOTreasuryMiningBlock(state, block_number, coinbase, txFees) ==
    LET reward == CalculateTreasuryBlockReward(block_number, state[TREASURY_ADDRESS])
    IN  [state EXCEPT ![TREASURY_ADDRESS] = @ - reward,
                      ![coinbase] = @ + reward + txFees]

\* ProcessPolygonEdgeTreasuryPayout: the same reward function, its own updates.
ProcessPolygonEdgeTreasuryPayout(state, block_number, coinbase, txFees) ==
    LET reward == CalculateTreasuryBlockReward(block_number, state[TREASURY_ADDRESS])
    IN  [state EXCEPT ![TREASURY_ADDRESS] = @ - reward,
                      ![coinbase] = @ + reward + txFees]

\* CalculateBlockReward of the plugin looks at the schedule only.
NethermindReward(block_number) ==
    LET epoch == block_number \div HALVING_INTERVAL
    IN  IF epoch >= MAX_HALVINGS THEN 0 ELSE ShiftedReward[epoch]

\* Mutant: the depletion payout is forgotten.
NethermindAllOrNothing(state, block_number, coinbase) ==
    LET reward == NethermindReward(block_number)
    IN  IF reward > state[TREASURY_ADDRESS] THEN state
        ELSE [state EXCEPT ![TREASURY_ADDRESS] = @ - reward, ![coinbase] = @ + reward]

\* ProcessBlockReward: capped where it is paid ("depletion payout").
ProcessBlockReward(state, block_number, coinbase) ==
    LET reward == AtMost(NethermindReward(block_number), state[TREASURY_ADDRESS])
    IN  [state EXCEPT ![TREASURY_ADDRESS] = @ - reward, ![coinbase] = @ + reward]

\* Mutant: the epoch is that of the parent block.
QuotedForParent(block_number, balance) ==
    LET halvings == (block_number - 1) \div HALVING_INTERVAL
    IN  IF halvings >= MAX_HALVINGS \/ balance = 0 THEN 0
        ELSE IF ShiftedReward[halvings] > balance THEN balance
        ELSE ShiftedReward[halvings]

\* calculateBlockReward of the system contract, on its own balance.
QuotedReward(block_number, balance) ==
    LET halvings == block_number \div HALVING_INTERVAL
    IN  IF halvings >= MAX_HALVINGS \/ balance = 0 THEN 0
        ELSE IF ShiftedReward[halvings] > balance THEN balance
        ELSE ShiftedReward[halvings]

Donated(state, donation) == [state EXCEPT ![TREASURY_ADDRESS] = @ + donation]

-----------------------------------------------------------------------------
ChainInit ==
    /\ EngineInit
    /\ height = 0
    /\ roots = <<[client \in Client |-> balances]>>

\* A block extends the head: its transactions, with the donations among them,
\* then the payout.
ExtendChain(miner, tx_fees, donation) ==
    LET n == height + 1
        before == [client \in Client |-> Donated(HeadState[client], donation)]
        after == [client \in Client |->
            CASE client = "bsc" ->
                   FinalizePISOTreasuryMiningBlock(before[client], n, miner, tx_fees)
              [] client = "edge" ->
                   ProcessPolygonEdgeTreasuryPayout(before[client], n, miner, tx_fees)
              [] client = "nethermind" ->
                   ProcessBlockReward(before[client], n, miner)]
    IN  /\ height < MaxBlock
        /\ FinalizeBlockReward(n, miner, tx_fees)
        /\ height' = n
        /\ roots' = Append(roots, after)

\* The head is orphaned; a deeper reorganisation is several of these.
OrphanHead ==
    /\ height > 0
    /\ RollbackBlockReorg(height)
    /\ height' = height - 1
    /\ roots' = SubSeq(roots, 1, height)

ChainNext ==
    \/ \E miner \in Miner, tx_fees \in Fees, donation \in Donations :
          ExtendChain(miner, tx_fees, donation)
    \/ OrphanHead

ChainSpec == ChainInit /\ [][ChainNext]_chainVars

-----------------------------------------------------------------------------
BlocksOf(miner) == {n \in DOMAIN block_history : block_history[n].miner = miner}

FeesOnChain(miner) == SumFunction([n \in BlocksOf(miner) |-> block_history[n].fees])

\* No transaction of the canonical chain paid the treasury: the state then holds
\* what it began with and the fees.
NoDonations ==
    SumFunction(HeadState["bsc"]) =
        treasury_balance_wei + SumFunction([n \in DOMAIN block_history |-> block_history[n].fees])

\* Undoing blocks by snapshot and going back to an old state root is the same:
\* after any extensions and reorganisations, capped payouts among them, the
\* engine's books are the state of the Go clients at the head.  Donations are
\* left aside, since nobody tells the engine of them.
EngineMatchesStateRoot ==
    NoDonations => /\ balances = HeadState["bsc"]
                   /\ balances = HeadState["edge"]

\* Nodes of three code bases, one of which caps the reward elsewhere, agree on
\* every payout at the end of the treasury, at a halving and past the last one,
\* donations included; otherwise their state roots fork.
ClientsAgree ==
    /\ HeadState["bsc"] = HeadState["edge"]
    /\ HeadState["nethermind"] = [a \in Account |->
          IF a \in Miner THEN HeadState["bsc"][a] - FeesOnChain(a) ELSE HeadState["bsc"][a]]

\* What the contract quotes for the next block is what finalising it pays.
QuoteIsPaid ==
    [][height' = height + 1 =>
          \E donation \in Donations :
             LET treasury == HeadState["bsc"][TREASURY_ADDRESS] + donation
             IN  roots'[height' + 1]["bsc"][TREASURY_ADDRESS]
                    = treasury - QuotedReward(height', treasury)]_chainVars

\* What the snapshots say the blocks of a miner paid it.
PaidByHistory(miner) ==
    SumFunction([n \in BlocksOf(miner) |-> block_history[n].payout + block_history[n].fees])

\* Reorganisations leave nothing behind: a miner holds what the canonical blocks
\* paid it, and the total is what they paid in all.
BooksAreCanonical ==
    /\ DOMAIN block_history = 1..height
    /\ \A miner \in Miner : balances[miner] = PaidByHistory(miner)
    /\ total_distributed_wei =
          SumFunction([n \in DOMAIN block_history |-> block_history[n].payout])

\* The engine, told of every block and every orphan but of no donation, follows
\* the chain: its balances are those of the clients at the head, and its books
\* are those of the canonical blocks.
EngineFollowsChain == EngineMatchesStateRoot /\ BooksAreCanonical

\* The halving series pays out less than twice the first epoch, whatever the
\* reorganisations: a treasury above that is never empty.
AmpleTreasury == treasury_balance_wei > 2 * HALVING_INTERVAL * ShiftedReward[0]
NeverDepleted == AmpleTreasury => balances[TREASURY_ADDRESS] > 0
=============================================================================
