-------------------------- MODULE Governance_proofs --------------------------
(***************************************************************************)
(* Proofs about the governor and the staking contract for any accounts,    *)
(* coins and number of proposals, with transfers, stakes and calls from    *)
(* inside calls moving the coins that votes are counted in.  GInv says of  *)
(* each proposal how its flag, its tally, the clock and its calls agree;   *)
(* SInv is StakeBacked with what the record of an account that never       *)
(* registered holds; LockInv says that the lock is held by one frame.      *)
(***************************************************************************)
EXTENDS Governance, RecursionTheorems

\* Not yet executed, no call; executed, the time is over and the votes carry it.
Settled(id) ==
    IF proposals[id].executed
    THEN /\ now > proposals[id].endTime
         /\ proposals[id].forVotes > proposals[id].againstVotes
         /\ calls[id] <= 1
    ELSE calls[id] = 0

GInv ==
    /\ coins \in [Account -> Nat]
    /\ now \in Nat \ {0}
    /\ GovernorTypeOK
    /\ \A id \in ProposalId : Settled(id)
    /\ \A id \in ProposalId : id > proposalCount => proposals[id] = NoProposal

LEMMA InitGInv == Init => GInv
  BY CoinParameters, GovernorParameters
  DEF Init, CoinInit, StakingInit, GovernorInit, GInv, GovernorTypeOK, Settled,
      Proposals, NoProposal, ProposalId, Target

\* A step that leaves the governor alone, keeps balances and turns no clock back.
LEMMA OthersKeepGInv ==
  ASSUME GInv, UNCHANGED governorVars,
         coins' \in [Account -> Nat], now' \in Nat, now' >= now
  PROVE  GInv'
<1>1. /\ proposals' = proposals /\ proposalCount' = proposalCount
      /\ hasVoted' = hasVoted /\ calls' = calls
  BY DEF governorVars
<1>2. GovernorTypeOK'
  BY <1>1 DEF GInv, GovernorTypeOK
<1>3. now' \in Nat \ {0}
  BY DEF GInv
<1>4. ASSUME NEW id \in ProposalId PROVE Settled(id)'
  <2>1. Settled(id) /\ proposals[id].endTime \in Nat
    BY DEF GInv, GovernorTypeOK, Proposals
  <2> QED
    BY <1>1, <2>1 DEF Settled, GInv
<1> QED
  BY <1>1, <1>2, <1>3, <1>4 DEF GInv

LEMMA StakingKeepsCoins ==
  ASSUME GInv, StakingNext \/ UnstakeReturns
  PROVE  coins' \in [Account -> Nat] /\ now' = now
<1>1. ASSUME NEW sender \in Account, NEW value \in Amounts, Deposit(sender, value)
      PROVE  coins' \in [Account -> Nat]
  <2>1. value \in Nat /\ coins[sender] - value \in Nat
    BY <1>1, CoinParameters DEF GInv, Deposit
  <2> QED
    BY <1>1, <2>1 DEF GInv, Deposit
<1>2. ASSUME NEW sender \in Account, NEW v \in Account, NEW amount \in Amounts,
             Unstake(sender, v, amount)
      PROVE  coins' \in [Account -> Nat]
  <2>1. amount \in Nat /\ coins[sender] + amount \in Nat
    BY CoinParameters DEF GInv
  <2> QED
    BY <1>2, <2>1 DEF GInv, Unstake
<1>3. CASE UnstakeReturns
  BY <1>3 DEF UnstakeReturns, GInv
<1>4. CASE StakingNext
  <2>1. StakingNext => now' = now
    BY DEF StakingNext, RegisterValidator, Delegate, Deposit, Unstake
  <2>2. \/ \E sender \in Account, value \in Amounts : Deposit(sender, value)
        \/ \E sender, v \in Account, amount \in Amounts : Unstake(sender, v, amount)
    BY <1>4 DEF StakingNext, RegisterValidator, Delegate
  <2> QED
    BY <1>1, <1>2, <1>4, <2>1, <2>2
<1> QED
  BY <1>3, <1>4

LEMMA CreateKeepsGInv ==
  ASSUME GInv, NEW target \in Target, CreateProposal(target)
  PROVE  GInv'
<1> DEFINE new == [forVotes |-> 0, againstVotes |-> 0, endTime |-> now + PROPOSAL_DURATION,
                   executed |-> FALSE, target |-> target]
<1>1. /\ new \in Proposals
      /\ ~new.executed
  <2>1. now + PROPOSAL_DURATION \in Nat
    BY GovernorParameters DEF GInv
  <2> QED
    BY <2>1 DEF Proposals
<1>2. /\ proposalCount + 1 \in ProposalId
      /\ proposals' = [proposals EXCEPT ![proposalCount + 1] = new]
      /\ proposalCount' = proposalCount + 1
      /\ UNCHANGED <<coins, now, hasVoted, calls>>
  BY GovernorParameters DEF CreateProposal, ProposalId, GInv, GovernorTypeOK, coinVars
<1>3. GovernorTypeOK'
  BY <1>1, <1>2, GovernorParameters DEF GInv, GovernorTypeOK, ProposalId
<1>4. calls[proposalCount + 1] = 0
  BY <1>2 DEF GInv, Settled, NoProposal, GovernorTypeOK, ProposalId
<1> HIDE DEF new
<1>5. ASSUME NEW id \in ProposalId PROVE Settled(id)'
  <2>1. CASE id = proposalCount + 1
    BY <1>1, <1>2, <1>4, <2>1 DEF Settled, GInv, GovernorTypeOK
  <2>2. CASE id /= proposalCount + 1
    <3>1. proposals'[id] = proposals[id] /\ calls'[id] = calls[id] /\ now' = now
      BY <1>2, <2>2 DEF GInv, GovernorTypeOK
    <3> QED
      BY <3>1 DEF Settled, GInv
  <2> QED
    BY <2>1, <2>2
<1>6. ASSUME NEW id \in ProposalId, id > proposalCount' PROVE proposals'[id] = NoProposal
  BY <1>2, <1>6 DEF GInv, GovernorTypeOK, ProposalId
<1> QED
  BY <1>2, <1>3, <1>5, <1>6 DEF GInv

LEMMA VoteKeepsGInv ==
  ASSUME GInv, NEW voter \in Account, NEW vid \in ProposalId, NEW support \in BOOLEAN,
         CastVote(voter, vid, support)
  PROVE  GInv'
<1>1. /\ proposals' \in [ProposalId -> Proposals]
      /\ \A id \in ProposalId : id /= vid => proposals'[id] = proposals[id]
      /\ proposals'[vid].executed = proposals[vid].executed
      /\ UNCHANGED <<coins, now, proposalCount, calls>>
  BY DEF CastVote, GInv, GovernorTypeOK, Proposals, coinVars
<1>2. hasVoted' \in [ProposalId -> SUBSET Account]
  BY DEF CastVote, GInv, GovernorTypeOK
<1>3. vid <= proposalCount /\ ~proposals[vid].executed
  BY DEF CastVote, GInv, GovernorTypeOK, NoProposal, ProposalId, Settled, Proposals
<1>4. ASSUME NEW id \in ProposalId PROVE Settled(id)'
  BY <1>1, <1>3 DEF Settled, GInv
<1>5. ASSUME NEW id \in ProposalId, id > proposalCount' PROVE proposals'[id] = NoProposal
  BY <1>1, <1>3, <1>5 DEF GInv, GovernorTypeOK, ProposalId
<1> QED
  BY <1>1, <1>2, <1>4, <1>5 DEF GInv, GovernorTypeOK

LEMMA ExecuteKeepsGInv ==
  ASSUME GInv, NEW eid \in ProposalId, ExecuteProposal(eid)
  PROVE  GInv'
<1>1. /\ proposals' = [proposals EXCEPT ![eid].executed = TRUE]
      /\ UNCHANGED <<coins, now, proposalCount, hasVoted>>
      /\ calls' = [calls EXCEPT ![eid] = @ + 1] \/ calls' = calls
  BY DEF ExecuteProposal
<1>2. /\ calls[eid] = 0
      /\ eid <= proposalCount
      /\ now > proposals[eid].endTime
      /\ proposals[eid].forVotes > proposals[eid].againstVotes
  BY DEF ExecuteProposal, Executable, GInv, Settled, GovernorTypeOK, NoProposal, ProposalId
<1>3. GovernorTypeOK'
  <2>1. proposals' \in [ProposalId -> Proposals]
    BY <1>1 DEF GInv, GovernorTypeOK, Proposals
  <2>2. calls' \in [ProposalId -> Nat]
    <3>1. calls[eid] + 1 \in Nat
      BY <1>2
    <3> QED
      BY <1>1, <3>1 DEF GInv, GovernorTypeOK
  <2> QED
    BY <1>1, <2>1, <2>2 DEF GInv, GovernorTypeOK
<1>4. ASSUME NEW id \in ProposalId PROVE Settled(id)'
  <2>1. CASE id = eid
    BY <1>1, <1>2, <2>1 DEF Settled, GInv, GovernorTypeOK, Proposals
  <2>2. CASE id /= eid
    <3>1. proposals'[id] = proposals[id] /\ calls'[id] = calls[id]
      BY <1>1, <2>2 DEF GInv, GovernorTypeOK
    <3> QED
      BY <1>1, <3>1 DEF Settled, GInv
  <2> QED
    BY <2>1, <2>2
<1>5. ASSUME NEW id \in ProposalId, id > proposalCount' PROVE proposals'[id] = NoProposal
  BY <1>1, <1>2, <1>5 DEF GInv, GovernorTypeOK, ProposalId
<1> QED
  BY <1>1, <1>3, <1>4, <1>5 DEF GInv

LEMMA NextKeepsGInv == GInv /\ [Next]_vars => GInv'
<1> SUFFICES ASSUME GInv, [Next]_vars PROVE GInv'
  OBVIOUS
<1>0. \A n \in Nat : n >= n
  OBVIOUS
<1>1. CASE (StakingNext \/ UnstakeReturns) /\ UNCHANGED governorVars
  BY <1>1, StakingKeepsCoins, OthersKeepGInv DEF GInv
<1>2. CASE GovernorNext
  <2>1. CASE ExecutionReturns
    BY <2>1, OthersKeepGInv DEF ExecutionReturns, GInv
  <2> QED
    BY <1>2, <2>1, CreateKeepsGInv, VoteKeepsGInv, ExecuteKeepsGInv DEF GovernorNext
<1>3. ASSUME NEW from \in Account, NEW to \in Account, NEW amount \in Amounts,
             TransferCoins(from, to, amount), UNCHANGED governorVars
      PROVE  GInv'
  <2>1. amount \in Nat /\ coins[from] - amount \in Nat /\ coins[to] + amount \in Nat
    BY <1>3, CoinParameters DEF GInv, TransferCoins
  <2>2. coins' \in [Account -> Nat] /\ now' = now
    BY <1>3, <2>1 DEF GInv, TransferCoins
  <2> QED
    BY <1>3, <2>2, OthersKeepGInv DEF GInv
<1>4. CASE NextBlock /\ UNCHANGED governorVars
  BY <1>4, OthersKeepGInv DEF NextBlock, GInv
<1>5. CASE UNCHANGED vars
  BY <1>5, OthersKeepGInv DEF vars, coinVars, GInv
<1> QED
  BY <1>1, <1>2, <1>3, <1>4, <1>5 DEF Next

LEMMA Invariance == Spec => []GInv
  BY InitGInv, NextKeepsGInv, PTL DEF Spec

(***************************************************************************)
(* However its target calls back and whoever calls executeProposal again,  *)
(* the call of a proposal is made at most once.                            *)
(***************************************************************************)
THEOREM OneCall == Spec => []CalledOnce
<1>1. GInv => CalledOnce
  BY DEF GInv, Settled, CalledOnce
<1> QED
  BY <1>1, Invariance, PTL

(***************************************************************************)
(* At all later times the tally of an executed proposal still carries it.  *)
(***************************************************************************)
THEOREM CarriedByVotes == Spec => []ExecutedByVotes
<1>1. GInv => ExecutedByVotes
  BY DEF GInv, Settled, ExecutedByVotes
<1> QED
  BY <1>1, Invariance, PTL

LEMMA InitBallot == Init => B!Init
  BY DEF Init, CoinInit, GovernorInit, B!Init, outcome, ProposalId

Move(id) == outcome'[id] = outcome[id] \/ <<outcome[id], outcome'[id]>> \in B!Moves

\* A proposal nobody touched: at most its time runs out.
LEMMA UntouchedMoves ==
  ASSUME GInv, NEW id \in ProposalId, proposals'[id] = proposals[id],
         now' \in Nat, now' >= now, proposalCount' = proposalCount
  PROVE  Move(id)
<1>1. /\ proposals[id].endTime \in Nat /\ now \in Nat
      /\ proposals[id].executed \in BOOLEAN /\ proposalCount \in Nat /\ id \in Nat
  BY DEF GInv, GovernorTypeOK, Proposals, ProposalId
<1>2. CASE id > proposalCount
  <2>1. outcome[id] = "none"
    BY <1>1, <1>2 DEF outcome
  <2>2. outcome'[id] = "none"
    BY <1>1, <1>2 DEF outcome
  <2> QED
    BY <2>1, <2>2 DEF Move
<1>3. CASE id <= proposalCount /\ proposals[id].executed
  BY <1>1, <1>3 DEF Move, outcome
<1>4. CASE id <= proposalCount /\ ~proposals[id].executed /\ now <= proposals[id].endTime
  BY <1>1, <1>4 DEF Move, outcome, B!Moves
<1>5. CASE id <= proposalCount /\ ~proposals[id].executed /\ ~(now <= proposals[id].endTime)
  BY <1>1, <1>5 DEF Move, outcome
<1> QED
  BY <1>1, <1>2, <1>3, <1>4, <1>5

LEMMA CreateMoves ==
  ASSUME GInv, NEW target \in Target, CreateProposal(target), NEW id \in ProposalId
  PROVE  Move(id)
<1>1. /\ proposalCount \in Nat /\ id \in Nat /\ now \in Nat
      /\ proposalCount' = proposalCount + 1 /\ now' = now
  BY DEF CreateProposal, GInv, GovernorTypeOK, ProposalId, coinVars
<1>2. CASE id = proposalCount + 1
  <2>1. /\ proposals'[id].endTime = now + PROPOSAL_DURATION
        /\ proposals'[id].executed = FALSE
    BY <1>2 DEF CreateProposal, NoProposal, GInv, GovernorTypeOK
  <2>2. outcome[id] = "none"
    BY <1>1, <1>2 DEF outcome
  <2>3. outcome'[id] = "open"
    BY <1>1, <1>2, <2>1, GovernorParameters DEF outcome
  <2> QED
    BY <2>2, <2>3 DEF Move, B!Moves
<1>3. CASE id /= proposalCount + 1
  <2>1. proposals'[id] = proposals[id]
    BY <1>3 DEF CreateProposal, GInv, GovernorTypeOK
  <2>2. id > proposalCount + 1 <=> id > proposalCount
    BY <1>1, <1>3
  <2>3. id <= proposalCount + 1 <=> id <= proposalCount
    BY <1>1, <1>3
  <2> QED
    BY <1>1, <2>1, <2>2, <2>3 DEF Move, outcome
<1> QED
  BY <1>2, <1>3

LEMMA VoteMoves ==
  ASSUME GInv, NEW voter \in Account, NEW vid \in ProposalId, NEW support \in BOOLEAN,
         CastVote(voter, vid, support), NEW id \in ProposalId
  PROVE  Move(id)
<1>1. now' = now /\ proposalCount' = proposalCount /\ now \in Nat
  BY DEF CastVote, GInv, coinVars
<1>2. CASE id = vid
  <2>1. /\ proposals'[id].endTime = proposals[id].endTime
        /\ proposals'[id].executed = proposals[id].executed
        /\ now <= proposals[id].endTime
    BY <1>2 DEF CastVote, GInv, GovernorTypeOK, Proposals
  <2>2. /\ ~proposals[id].executed /\ id <= proposalCount
        /\ id \in Nat /\ proposalCount \in Nat
    BY <1>2, <2>1 DEF GInv, GovernorTypeOK, NoProposal, ProposalId, Settled, Proposals
  <2>3. outcome[id] = "open"
    BY <2>1, <2>2 DEF outcome
  <2>4. outcome'[id] = "open"
    BY <1>1, <2>1, <2>2 DEF outcome
  <2> QED
    BY <2>3, <2>4 DEF Move
<1>3. CASE id /= vid
  <2>1. proposals'[id] = proposals[id]
    BY <1>3 DEF CastVote, GInv, GovernorTypeOK
  <2> QED
    BY <1>1, <2>1, UntouchedMoves
<1> QED
  BY <1>2, <1>3

LEMMA ExecuteMoves ==
  ASSUME GInv, NEW eid \in ProposalId, ExecuteProposal(eid), NEW id \in ProposalId
  PROVE  Move(id)
<1>1. /\ now' = now /\ proposalCount' = proposalCount /\ now \in Nat
      /\ proposals' = [proposals EXCEPT ![eid].executed = TRUE]
  BY DEF ExecuteProposal, GInv
<1>2. CASE id = eid
  <2>1. /\ ~proposals[id].executed
        /\ now > proposals[id].endTime
        /\ proposals[id].forVotes > proposals[id].againstVotes
        /\ proposals'[id].executed = TRUE
        /\ proposals[id].endTime \in Nat /\ id \in Nat /\ proposalCount \in Nat
    BY <1>1, <1>2 DEF ExecuteProposal, Executable, GInv, GovernorTypeOK, Proposals, ProposalId
  <2>2. id <= proposalCount
    BY <2>1 DEF GInv, NoProposal
  <2>3. outcome[id] = "carried"
    BY <1>1, <2>1, <2>2 DEF outcome
  <2>4. outcome'[id] = "executed"
    BY <1>1, <2>1, <2>2 DEF outcome
  <2> QED
    BY <2>3, <2>4 DEF Move, B!Moves
<1>3. CASE id /= eid
  <2>1. proposals'[id] = proposals[id]
    BY <1>1, <1>3 DEF GInv, GovernorTypeOK
  <2>2. now' \in Nat /\ now' >= now /\ proposalCount' = proposalCount
    BY <1>1
  <2> QED
    BY <2>1, <2>2, UntouchedMoves
<1> QED
  BY <1>2, <1>3

(***************************************************************************)
(* Every step of the governor, of the staking contract and of the chain is *)
(* a step of the ballot or leaves every outcome as it is.                  *)
(***************************************************************************)
THEOREM GovernorIsBallot == Spec => ImplementsBallot
<1>1. Init => B!Init
  BY InitBallot
<1>2. GInv /\ [Next]_vars => [B!Next]_outcome
  <2> SUFFICES ASSUME GInv, [Next]_vars, NEW id \in ProposalId PROVE Move(id)
    BY DEF B!Next, Move
  <2>1. now \in Nat /\ now >= now
    BY DEF GInv
  <2>2. CASE UNCHANGED governorVars /\ now' \in Nat /\ now' >= now
    BY <2>2, UntouchedMoves DEF governorVars
  <2>3. CASE GovernorNext
    <3>1. CASE ExecutionReturns
      BY <2>1, <3>1, <2>2 DEF ExecutionReturns
    <3> QED
      BY <2>3, <3>1, CreateMoves, VoteMoves, ExecuteMoves DEF GovernorNext
  <2>4. CASE (StakingNext \/ UnstakeReturns) /\ UNCHANGED governorVars
    BY <2>1, <2>2, <2>4, StakingKeepsCoins
  <2>5. CASE /\ \/ \E from, to \in Account, amount \in Amounts : TransferCoins(from, to, amount)
                \/ NextBlock
             /\ UNCHANGED governorVars
    BY <2>1, <2>2, <2>5 DEF TransferCoins, NextBlock
  <2>6. CASE UNCHANGED vars
    BY <2>1, <2>2, <2>6 DEF vars, coinVars
  <2> QED
    BY <2>3, <2>4, <2>5, <2>6 DEF Next
<1> QED
  BY <1>1, <1>2, Invariance, PTL DEF Spec, ImplementsBallot, B!Spec
-----------------------------------------------------------------------------
(* The staking contract.                                                   *)

\* The columns that are summed.
Delegators(v) == [d \in Account |-> delegations[d][v]]

Stakes == [v \in Account |-> validators[v].totalStake]

SInv ==
    /\ validators \in [Account -> [totalStake : Nat, isActive : BOOLEAN]]
    /\ delegations \in [Account -> [Account -> Nat]]
    /\ vault \in Nat
    /\ \A v \in Account : ~validators[v].isActive => validators[v].totalStake = 0
    /\ StakeBacked

LEMMA InitSInv == Init => SInv
<1> SUFFICES ASSUME Init PROVE SInv
  OBVIOUS
<1>1. /\ validators \in [Account -> [totalStake : Nat, isActive : BOOLEAN]]
      /\ delegations \in [Account -> [Account -> Nat]]
      /\ vault = 0
      /\ \A v \in Account : validators[v].totalStake = 0 /\ ~validators[v].isActive
      /\ \A d, v \in Account : delegations[d][v] = 0
  BY DEF Init, StakingInit
<1>2. Stakes \in [Account -> Int] /\ \A v \in Account : Stakes[v] = 0
  BY <1>1 DEF Stakes
<1>3. Staked = 0
  BY <1>2, SumZero, CoinParameters DEF Staked, Stakes
<1>4. ASSUME NEW v \in Account PROVE Delegated(v) = 0
  <2>1. Delegators(v) \in [Account -> Int] /\ \A d \in Account : Delegators(v)[d] = 0
    BY <1>1 DEF Delegators
  <2> QED
    BY <2>1, SumZero, CoinParameters DEF Delegated, Delegators
<1> QED
  BY <1>1, <1>3, <1>4 DEF SInv, StakeBacked

\* What an invariant state offers to every action.
LEMMA SInvSums ==
  ASSUME SInv
  PROVE  /\ Stakes \in [Account -> Nat]
         /\ Staked \in Nat
         /\ \A v \in Account : /\ Delegators(v) \in [Account -> Nat]
                               /\ Delegated(v) \in Nat
                               /\ \A d \in Account : delegations[d][v] <= Delegated(v)
<1>1. Stakes \in [Account -> Nat]
  BY DEF SInv, Stakes
<1>2. Staked \in Nat
  BY <1>1, SumNat, CoinParameters DEF Staked, Stakes
<1>3. ASSUME NEW v \in Account
      PROVE  /\ Delegators(v) \in [Account -> Nat]
             /\ Delegated(v) \in Nat
             /\ \A d \in Account : delegations[d][v] <= Delegated(v)
  <2>1. Delegators(v) \in [Account -> Nat]
    BY DEF SInv, Delegators
  <2>2. Delegated(v) = SumFunction(Delegators(v))
    BY DEF Delegated, Delegators
  <2>3. Delegated(v) \in Nat
    BY <2>1, <2>2, SumNat, CoinParameters
  <2>4. \A d \in Account : Delegators(v)[d] <= Delegated(v)
    BY <2>1, <2>2, SumBound, CoinParameters
  <2> QED
    BY <2>1, <2>3, <2>4 DEF Delegators
<1> QED
  BY <1>1, <1>2, <1>3

\* The books of one validator and one delegator move by the same amount as the
\* vault: by what is delegated, or, with change negative, by what is taken out.
LEMMA BooksMove ==
  ASSUME SInv, NEW sender \in Account, NEW v \in Account, NEW change \in Int,
         delegations' = [delegations EXCEPT ![sender][v] = @ + change],
         validators' = [validators EXCEPT ![v].totalStake = @ + change],
         vault' = vault + change,
         delegations[sender][v] + change \in Nat,
         vault + change \in Nat,
         validators[v].isActive \/ validators[v].totalStake + change = 0
  PROVE  SInv'
<1>1. /\ Stakes \in [Account -> Nat] /\ Staked \in Nat
      /\ \A w \in Account : /\ Delegators(w) \in [Account -> Nat]
                            /\ Delegated(w) \in Nat
                            /\ \A d \in Account : delegations[d][w] <= Delegated(w)
  BY SInvSums
<1>2. /\ delegations[sender][v] \in Nat
      /\ validators[v].totalStake \in Nat
      /\ vault \in Nat
      /\ MIN_VALIDATOR_STAKE \in Nat
  BY StakingParameters DEF SInv
<1>3. delegations[sender][v] <= validators[v].totalStake
  BY <1>1, <1>2 DEF SInv, StakeBacked
<1>4. validators[v].totalStake + change \in Nat
  BY <1>2, <1>3
<1>5. validators' \in [Account -> [totalStake : Nat, isActive : BOOLEAN]]
  BY <1>4 DEF SInv
<1>6. delegations' \in [Account -> [Account -> Nat]]
  BY DEF SInv
<1>7. /\ \A w \in Account : validators'[w].isActive = validators[w].isActive
      /\ \A w \in Account \ {v} : validators'[w].totalStake = validators[w].totalStake
      /\ validators'[v].totalStake = validators[v].totalStake + change
  BY DEF SInv
<1>8. /\ \A d \in Account, w \in Account \ {v} : delegations'[d][w] = delegations[d][w]
      /\ \A d \in Account \ {sender} : delegations'[d][v] = delegations[d][v]
      /\ delegations'[sender][v] = delegations[sender][v] + change
  BY DEF SInv
<1>9. Staked' = Staked + change
  <2>1. Stakes \in [Account -> Int] /\ Stakes' \in [Account -> Int]
    BY <1>1, <1>5 DEF Stakes
  <2>2. \A w \in Account \ {v} : Stakes'[w] = Stakes[w]
    BY <1>7 DEF Stakes
  <2>3. SumFunction(Stakes') = SumFunction(Stakes) + Stakes'[v] - Stakes[v]
    BY <2>1, <2>2, SumUpdate, CoinParameters
  <2>4. Stakes'[v] = Stakes[v] + change /\ Stakes[v] \in Int
    BY <1>1, <1>7 DEF Stakes
  <2>5. SumFunction(Stakes) = Staked /\ SumFunction(Stakes') = Staked'
    BY DEF Staked, Stakes
  <2> QED
    BY <1>1, <2>3, <2>4, <2>5
<1>10. Delegated(v)' = Delegated(v) + change
  <2>1. Delegators(v) \in [Account -> Int] /\ Delegators(v)' \in [Account -> Int]
    BY <1>1, <1>6 DEF Delegators
  <2>2. \A d \in Account \ {sender} : Delegators(v)'[d] = Delegators(v)[d]
    BY <1>8 DEF Delegators
  <2>3. SumFunction(Delegators(v)')
          = SumFunction(Delegators(v)) + Delegators(v)'[sender] - Delegators(v)[sender]
    BY <2>1, <2>2, SumUpdate, CoinParameters
  <2>4. Delegators(v)'[sender] = Delegators(v)[sender] + change /\ Delegators(v)[sender] \in Int
    BY <1>1, <1>8 DEF Delegators
  <2>5. SumFunction(Delegators(v)) = Delegated(v) /\ SumFunction(Delegators(v)') = Delegated(v)'
    BY DEF Delegated, Delegators
  <2> QED
    BY <1>1, <2>3, <2>4, <2>5
<1>11. ASSUME NEW w \in Account \ {v} PROVE Delegated(w)' = Delegated(w)
  BY <1>8 DEF Delegated
<1>12. ASSUME NEW w \in Account
       PROVE  Delegated(w)' + (IF validators'[w].isActive THEN MIN_VALIDATOR_STAKE ELSE 0)
                <= validators'[w].totalStake
  <2>1. Delegated(w) + (IF validators[w].isActive THEN MIN_VALIDATOR_STAKE ELSE 0)
          <= validators[w].totalStake
    BY DEF SInv, StakeBacked
  <2>2. Delegated(w) \in Nat
    BY <1>1
  <2>3. CASE w = v
    BY <1>2, <1>7, <1>10, <2>1, <2>2, <2>3
  <2>4. CASE w # v
    BY <1>7, <1>11, <2>1, <2>4
  <2> QED
    BY <2>3, <2>4
<1>13. StakeBacked'
  BY <1>9, <1>12 DEF SInv, StakeBacked
<1>14. \A w \in Account : ~validators'[w].isActive => validators'[w].totalStake = 0
  BY <1>7 DEF SInv
<1> QED
  BY <1>2, <1>5, <1>6, <1>13, <1>14 DEF SInv

\* A registration writes a whole record: nothing was in the one it replaces, and
\* nobody had delegated to it.
LEMMA RegisterKeepsSInv ==
  ASSUME SInv, NEW sender \in Account, NEW value \in Amounts,
         RegisterValidator(sender, value)
  PROVE  SInv'
<1> DEFINE rec == [totalStake |-> value, isActive |-> TRUE]
<1>1. /\ value \in Nat /\ value >= MIN_VALIDATOR_STAKE /\ MIN_VALIDATOR_STAKE \in Nat
      /\ validators' = [validators EXCEPT ![sender] = rec]
      /\ vault' = vault + value /\ vault \in Nat
      /\ delegations' = delegations
  BY CoinParameters, StakingParameters DEF RegisterValidator, Deposit, SInv
<1>2. validators[sender].totalStake = 0
  BY DEF RegisterValidator, SInv
<1>3. /\ Stakes \in [Account -> Nat] /\ Staked \in Nat
      /\ \A w \in Account : Delegated(w) \in Nat
  BY SInvSums
<1>4. /\ validators' \in [Account -> [totalStake : Nat, isActive : BOOLEAN]]
      /\ validators'[sender] = rec
      /\ \A w \in Account \ {sender} : validators'[w] = validators[w]
  BY <1>1 DEF SInv
<1>5. Staked' = Staked + value
  <2>1. Stakes \in [Account -> Int] /\ Stakes' \in [Account -> Int]
    BY <1>3, <1>4 DEF Stakes
  <2>2. \A w \in Account \ {sender} : Stakes'[w] = Stakes[w]
    BY <1>4 DEF Stakes
  <2>3. SumFunction(Stakes') = SumFunction(Stakes) + Stakes'[sender] - Stakes[sender]
    BY <2>1, <2>2, SumUpdate, CoinParameters
  <2>4. Stakes'[sender] = value /\ Stakes[sender] = 0
    BY <1>2, <1>4 DEF Stakes
  <2>5. SumFunction(Stakes) = Staked /\ SumFunction(Stakes') = Staked'
    BY DEF Staked, Stakes
  <2> QED
    BY <1>1, <1>3, <2>3, <2>4, <2>5
<1>6. \A w \in Account : Delegated(w)' = Delegated(w)
  BY <1>1 DEF Delegated
<1>7. Delegated(sender) = 0
  <2>1. Delegated(sender) <= 0
    BY <1>2, <1>3 DEF RegisterValidator, SInv, StakeBacked
  <2> QED
    BY <1>3, <2>1
<1>8. ASSUME NEW w \in Account
      PROVE  Delegated(w)' + (IF validators'[w].isActive THEN MIN_VALIDATOR_STAKE ELSE 0)
               <= validators'[w].totalStake
  <2>1. CASE w = sender
    BY <1>1, <1>4, <1>6, <1>7, <2>1
  <2>2. CASE w # sender
    BY <1>4, <1>6, <2>2 DEF SInv, StakeBacked
  <2> QED
    BY <2>1, <2>2
<1>9. StakeBacked'
  BY <1>1, <1>5, <1>8 DEF SInv, StakeBacked
<1>10. \A w \in Account : ~validators'[w].isActive => validators'[w].totalStake = 0
  BY <1>4 DEF SInv
<1> QED
  BY <1>1, <1>4, <1>9, <1>10 DEF SInv

LEMMA DelegateKeepsSInv ==
  ASSUME SInv, NEW sender \in Account, NEW v \in Account, NEW value \in Amounts,
         Delegate(sender, v, value)
  PROVE  SInv'
<1>1. /\ value \in Nat /\ value \in Int
      /\ delegations[sender][v] + value \in Nat
      /\ vault + value \in Nat
  BY CoinParameters DEF SInv
<1>2. /\ delegations' = [delegations EXCEPT ![sender][v] = @ + value]
      /\ validators' = [validators EXCEPT ![v].totalStake = @ + value]
      /\ vault' = vault + value
      /\ validators[v].isActive
  BY DEF Delegate, Deposit
<1> QED
  BY <1>1, <1>2, BooksMove

LEMMA UnstakeKeepsSInv ==
  ASSUME SInv, NEW sender \in Account, NEW v \in Account, NEW amount \in Amounts,
         Unstake(sender, v, amount)
  PROVE  SInv'
<1> DEFINE change == -amount
<1>1. /\ amount \in Nat /\ change \in Int
      /\ delegations[sender][v] \in Nat /\ delegations[sender][v] >= amount
      /\ validators[v].totalStake \in Nat
      /\ vault \in Nat /\ amount <= vault
  BY CoinParameters DEF SInv, Unstake
<1>2. delegations[sender][v] + change \in Nat /\ vault + change \in Nat
  BY <1>1
<1>3. /\ delegations[sender][v] - amount = delegations[sender][v] + change
      /\ validators[v].totalStake - amount = validators[v].totalStake + change
      /\ vault - amount = vault + change
  BY <1>1
<1>4. /\ delegations' = [delegations EXCEPT ![sender][v] = @ + change]
      /\ validators' = [validators EXCEPT ![v].totalStake = @ + change]
      /\ vault' = vault + change
  BY <1>3 DEF Unstake, SInv
<1>5. CASE ~validators[v].isActive
  <2>1. delegations[sender][v] <= Delegated(v) /\ Delegated(v) \in Nat
    BY SInvSums
  <2>2. Delegated(v) <= 0 /\ validators[v].totalStake = 0
    BY <1>5, <2>1 DEF SInv, StakeBacked
  <2>3. amount = 0
    BY <1>1, <2>1, <2>2
  <2>4. validators[v].totalStake + change = 0
    BY <2>2, <2>3
  <2> HIDE DEF change
  <2> QED
    BY <1>1, <1>2, <1>4, <2>4, BooksMove
<1>6. CASE validators[v].isActive
  <2> HIDE DEF change
  <2> QED
    BY <1>1, <1>2, <1>4, <1>6, BooksMove
<1> QED
  BY <1>5, <1>6

LEMMA NextKeepsSInv == SInv /\ [Next]_vars => SInv'
<1> SUFFICES ASSUME SInv, [Next]_vars PROVE SInv'
  OBVIOUS
<1>1. CASE UNCHANGED <<validators, delegations, vault>>
  BY <1>1 DEF SInv, StakeBacked, Staked, Delegated
<1>2. CASE StakingNext
  BY <1>2, RegisterKeepsSInv, DelegateKeepsSInv, UnstakeKeepsSInv DEF StakingNext
<1>3. CASE UnstakeReturns
  BY <1>1, <1>3 DEF UnstakeReturns
<1>4. CASE UNCHANGED stakingVars
  BY <1>1, <1>4 DEF stakingVars
<1> QED
  BY <1>2, <1>3, <1>4 DEF Next, vars

(***************************************************************************)
(* The vault holds the sum of all stakes and behind each validator stand   *)
(* its delegations and the minimum it registered with, for any number of   *)
(* accounts and however deep calls are made from inside a payment.         *)
(***************************************************************************)
THEOREM StakesAreBacked == Spec => []StakeBacked
<1>1. SInv => StakeBacked
  BY DEF SInv
<1> QED
  BY <1>1, InitSInv, NextKeepsSInv, PTL DEF Spec

-----------------------------------------------------------------------------
(* Types, the list of validators and the lock.                             *)

Frame == [call : {"unstake"}] \cup [call : {"execute"}, id : ProposalId]

Paying(f, i) == i \in DOMAIN f /\ f[i].call = "unstake"

\* The lock is held while a payment is under way, and one at most is.
LockInv ==
    /\ frames \in Seq(Frame) /\ Len(frames) <= MaxDepth
    /\ locked \in BOOLEAN
    /\ locked <=> \E i \in Nat : Paying(frames, i)
    /\ \A i, j \in Nat : Paying(frames, i) /\ Paying(frames, j) => i = j

Listings(list, v) == {i \in DOMAIN list : list[i] = v}

ListInv ==
    /\ validatorList \in Seq(Account)
    /\ \A v \in Account :
          Cardinality(Listings(validatorList, v)) = IF validators[v].isActive THEN 1 ELSE 0

TypeInv == GInv /\ SInv /\ now <= EndOfTime /\ LockInv /\ ListInv

\* A call put in front moves the others back by one place.
LEMMA PayingPushed ==
  ASSUME NEW f \in Seq(Frame), NEW frame \in Frame, NEW i \in Nat
  PROVE  /\ <<frame>> \o f \in Seq(Frame) /\ Len(<<frame>> \o f) = Len(f) + 1
         /\ Paying(<<frame>> \o f, i) <=>
              \/ i = 1 /\ frame.call = "unstake"
              \/ i - 1 \in Nat /\ Paying(f, i - 1)
<1> DEFINE g == <<frame>> \o f
<1>1. g \in Seq(Frame) /\ Len(g) = Len(f) + 1 /\ Len(f) \in Nat
  OBVIOUS
<1>2. DOMAIN g = 1 .. Len(f) + 1 /\ DOMAIN f = 1 .. Len(f)
  BY <1>1
<1>3. g[1] = frame
  OBVIOUS
<1>4. ASSUME i \in 2 .. Len(f) + 1 PROVE g[i] = f[i - 1]
  BY <1>4
<1>5. CASE i = 1
  BY <1>1, <1>2, <1>3, <1>5 DEF Paying
<1>6. CASE i \in 2 .. Len(f) + 1
  <2>1. i - 1 \in DOMAIN f /\ i \in DOMAIN g /\ i # 1 /\ i - 1 \in Nat
    BY <1>1, <1>2, <1>6
  <2> QED
    BY <1>4, <1>6, <2>1 DEF Paying
<1>7. CASE i \notin 1 .. Len(f) + 1
  <2>1. i \notin DOMAIN g /\ i - 1 \notin DOMAIN f /\ i # 1
    BY <1>1, <1>2, <1>7
  <2> QED
    BY <2>1 DEF Paying
<1> QED
  BY <1>1, <1>5, <1>6, <1>7

\* The call that returns was the first.
LEMMA PayingPopped ==
  ASSUME NEW f \in Seq(Frame), f # << >>, NEW i \in Nat
  PROVE  /\ Tail(f) \in Seq(Frame) /\ Len(Tail(f)) = Len(f) - 1
         /\ Paying(Tail(f), i) <=> i # 0 /\ Paying(f, i + 1)
<1>1. Tail(f) \in Seq(Frame) /\ Len(Tail(f)) = Len(f) - 1 /\ Len(f) \in Nat \ {0}
  OBVIOUS
<1>2. DOMAIN Tail(f) = 1 .. Len(f) - 1 /\ DOMAIN f = 1 .. Len(f)
  BY <1>1
<1>3. ASSUME i \in 1 .. Len(f) - 1 PROVE Tail(f)[i] = f[i + 1]
  BY <1>3
<1>4. i \in DOMAIN Tail(f) <=> i # 0 /\ i + 1 \in DOMAIN f
  BY <1>1, <1>2
<1> QED
  BY <1>1, <1>2, <1>3, <1>4 DEF Paying

LEMMA FramesStep ==
  ASSUME LockInv, [Next]_vars
  PROVE  LockInv'
<1>1. CASE UNCHANGED <<frames, locked>>
  BY <1>1 DEF LockInv
<1>2. ASSUME NEW frame \in Frame, Calls(frame),
             \/ frame.call = "execute" /\ locked' = locked
             \/ frame.call = "unstake" /\ ~locked /\ locked' = TRUE
      PROVE  LockInv'
  <2>1. frames' = <<frame>> \o frames /\ Len(frames) < MaxDepth /\ frames \in Seq(Frame)
    BY <1>2 DEF Calls, LockInv
  <2>2. frames' \in Seq(Frame) /\ Len(frames') <= MaxDepth
    <3>1. Len(frames') = Len(frames) + 1 /\ frames' \in Seq(Frame)
      BY <2>1, PayingPushed
    <3> QED
      BY <2>1, <3>1, CoinParameters
  <2>3. \A i \in Nat : Paying(frames', i) <=>
           (i = 1 /\ frame.call = "unstake") \/ (i - 1 \in Nat /\ Paying(frames, i - 1))
    BY <2>1, PayingPushed
  <2>4. ~Paying(frames, 0)
    BY <2>1 DEF Paying
  <2>5. CASE frame.call = "execute" /\ locked' = locked
    <3>1. \A i \in Nat : Paying(frames', i) <=> i - 1 \in Nat /\ Paying(frames, i - 1)
      BY <2>3, <2>5
    <3>2. \A i, j \in Nat : Paying(frames', i) /\ Paying(frames', j) => i = j
      <4> SUFFICES ASSUME NEW i \in Nat, NEW j \in Nat, Paying(frames', i), Paying(frames', j)
                   PROVE  i = j
        OBVIOUS
      <4>1. i - 1 \in Nat /\ j - 1 \in Nat /\ Paying(frames, i - 1) /\ Paying(frames, j - 1)
        BY <3>1
      <4>2. i - 1 = j - 1
        BY <4>1 DEF LockInv
      <4> QED
        BY <4>2
    <3>3. (\E i \in Nat : Paying(frames', i)) <=> \E i \in Nat : Paying(frames, i)
      <4>1. ASSUME NEW i \in Nat, Paying(frames, i) PROVE \E k \in Nat : Paying(frames', k)
        <5>1. i + 1 \in Nat /\ (i + 1) - 1 = i
          OBVIOUS
        <5> QED
          BY <3>1, <4>1, <5>1
      <4> QED
        BY <3>1, <4>1
    <3> QED
      BY <2>2, <2>5, <3>2, <3>3 DEF LockInv
  <2>6. CASE frame.call = "unstake" /\ ~locked /\ locked' = TRUE
    <3>1. \A i \in Nat : ~Paying(frames, i)
      BY <2>6 DEF LockInv
    <3>2. \A i \in Nat : Paying(frames', i) <=> i = 1
      BY <2>3, <2>6, <3>1
    <3> QED
      BY <2>2, <2>6, <3>2 DEF LockInv
  <2> QED
    BY <1>2, <2>5, <2>6
<1>3. ASSUME frames # << >>, frames' = Tail(frames),
             \/ Head(frames).call = "execute" /\ locked' = locked
             \/ Head(frames).call = "unstake" /\ locked' = FALSE
      PROVE  LockInv'
  <2>1. frames \in Seq(Frame) /\ Len(frames) \in Nat /\ Len(frames) <= MaxDepth
    BY DEF LockInv
  <2>2. frames' \in Seq(Frame) /\ Len(frames') <= MaxDepth
    <3>1. Len(frames') = Len(frames) - 1 /\ frames' \in Seq(Frame)
      BY <1>3, <2>1, PayingPopped
    <3> QED
      BY <2>1, <3>1, CoinParameters
  <2>3. \A i \in Nat : Paying(frames', i) <=> i # 0 /\ Paying(frames, i + 1)
    BY <1>3, <2>1, PayingPopped
  <2>4. ~Paying(frames, 0)
    BY <2>1 DEF Paying
  <2>5. Paying(frames, 1) <=> Head(frames).call = "unstake"
    BY <1>3, <2>1 DEF Paying
  <2>6. \A i, j \in Nat : Paying(frames', i) /\ Paying(frames', j) => i = j
    <3> SUFFICES ASSUME NEW i \in Nat, NEW j \in Nat, Paying(frames', i), Paying(frames', j)
                 PROVE  i = j
      OBVIOUS
    <3>1. i + 1 \in Nat /\ j + 1 \in Nat /\ Paying(frames, i + 1) /\ Paying(frames, j + 1)
      BY <2>3
    <3>2. i + 1 = j + 1
      BY <3>1 DEF LockInv
    <3> QED
      BY <3>2
  <2>7. CASE Head(frames).call = "execute" /\ locked' = locked
    <3>1. ASSUME NEW i \in Nat, Paying(frames, i) PROVE \E k \in Nat : Paying(frames', k)
      <4>1. i # 0 /\ i # 1
        BY <2>4, <2>5, <2>7, <3>1
      <4>2. i - 1 \in Nat /\ i - 1 # 0 /\ (i - 1) + 1 = i
        BY <4>1
      <4> QED
        BY <2>3, <3>1, <4>2
    <3>2. (\E i \in Nat : Paying(frames', i)) <=> \E i \in Nat : Paying(frames, i)
      <4>1. \A i \in Nat : i + 1 \in Nat
        OBVIOUS
      <4> QED
        BY <2>3, <3>1, <4>1
    <3> QED
      BY <2>2, <2>6, <2>7, <3>2 DEF LockInv
  <2>8. CASE Head(frames).call = "unstake" /\ locked' = FALSE
    <3>1. \A i \in Nat : ~Paying(frames', i)
      <4> SUFFICES ASSUME NEW i \in Nat, Paying(frames', i) PROVE FALSE
        OBVIOUS
      <4>1. i # 0 /\ Paying(frames, i + 1) /\ i + 1 \in Nat /\ 1 \in Nat
        BY <2>3
      <4>2. i + 1 = 1
        BY <2>5, <2>8, <4>1 DEF LockInv
      <4> QED
        BY <4>1, <4>2
    <3> QED
      BY <2>2, <2>6, <2>8, <3>1 DEF LockInv
  <2> QED
    BY <1>3, <2>7, <2>8
<1>4. CASE StakingNext
  <2>1. ASSUME NEW sender \in Account, NEW v \in Account, NEW amount \in Amounts,
               Unstake(sender, v, amount)
        PROVE  LockInv'
    <3>1. [call |-> "unstake"] \in Frame
      BY DEF Frame
    <3> QED
      BY <1>2, <2>1, <3>1 DEF Unstake
  <2> QED
    BY <1>1, <1>4, <2>1 DEF StakingNext, RegisterValidator, Delegate
<1>5. CASE UnstakeReturns
  BY <1>3, <1>5 DEF UnstakeReturns
<1>6. CASE GovernorNext /\ UNCHANGED stakingVars
  <2>1. locked' = locked
    BY <1>6 DEF stakingVars
  <2>2. CASE \E target \in Target : CreateProposal(target)
    BY <1>1, <2>1, <2>2 DEF CreateProposal, coinVars
  <2>3. ASSUME NEW id \in ProposalId, NEW voter \in Account, NEW support \in BOOLEAN,
               CastVote(voter, id, support)
        PROVE  LockInv'
    BY <1>1, <2>1, <2>3 DEF CastVote, coinVars
  <2>4. ASSUME NEW id \in ProposalId, ExecuteProposal(id) PROVE LockInv'
    <3>1. [call |-> "execute", id |-> id] \in Frame
      BY DEF Frame
    <3>2. CASE Calls([call |-> "execute", id |-> id])
      <4> DEFINE frame == [call |-> "execute", id |-> id]
      <4>1. frame \in Frame /\ Calls(frame) /\ frame.call = "execute"
        BY <3>1, <3>2
      <4> HIDE DEF frame
      <4> QED
        BY <1>2, <2>1, <4>1
    <3>3. CASE UNCHANGED frames
      BY <1>1, <2>1, <3>3
    <3> QED
      BY <2>4, <3>2, <3>3 DEF ExecuteProposal
  <2>5. CASE ExecutionReturns
    <3>1. frames # << >> /\ frames' = Tail(frames) /\ Head(frames).call = "execute"
      BY <2>5 DEF ExecutionReturns
    <3> QED
      BY <1>3, <2>1, <3>1
  <2> QED
    BY <1>6, <2>2, <2>3, <2>4, <2>5 DEF GovernorNext
<1>7. CASE /\ \/ \E from, to \in Account, amount \in Amounts : TransferCoins(from, to, amount)
              \/ NextBlock
           /\ UNCHANGED stakingVars
  BY <1>1, <1>7 DEF TransferCoins, NextBlock, stakingVars
<1>8. CASE UNCHANGED vars
  BY <1>1, <1>8 DEF vars, coinVars, stakingVars
<1> QED
  BY <1>4, <1>5, <1>6, <1>7, <1>8 DEF Next

\* A validator added to the list stands in it once more than before.
LEMMA ListingsAppended ==
  ASSUME NEW list \in Seq(Account), NEW u \in Account, NEW v \in Account
  PROVE  /\ Append(list, u) \in Seq(Account)
         /\ Cardinality(Listings(list, v)) \in Nat
         /\ Cardinality(Listings(Append(list, u), v))
              = Cardinality(Listings(list, v)) + (IF u = v THEN 1 ELSE 0)
<1> DEFINE more == Append(list, u)
<1>1. more \in Seq(Account) /\ Len(more) = Len(list) + 1 /\ Len(list) \in Nat
  OBVIOUS
<1>2. DOMAIN more = 1 .. Len(list) + 1 /\ DOMAIN list = 1 .. Len(list)
  BY <1>1
<1>3. more[Len(list) + 1] = u /\ \A i \in 1 .. Len(list) : more[i] = list[i]
  OBVIOUS
<1>4. IsFiniteSet(Listings(list, v))
  <2>1. IsFiniteSet(1 .. Len(list)) /\ Listings(list, v) \subseteq 1 .. Len(list)
    BY <1>1, <1>2, FS_Interval DEF Listings
  <2> QED
    BY <2>1, FS_Subset
<1>5. Cardinality(Listings(list, v)) \in Nat
  BY <1>4, FS_CardinalityType
<1>6. CASE u = v
  <2>1. Listings(more, v) = Listings(list, v) \cup {Len(list) + 1}
    BY <1>1, <1>2, <1>3, <1>6 DEF Listings
  <2>2. Len(list) + 1 \notin Listings(list, v)
    BY <1>1, <1>2 DEF Listings
  <2>3. Cardinality(Listings(list, v) \cup {Len(list) + 1}) = Cardinality(Listings(list, v)) + 1
    BY <1>4, <2>2, FS_AddElement
  <2> QED
    BY <1>1, <1>5, <1>6, <2>1, <2>3
<1>7. CASE u # v
  <2>1. Listings(more, v) = Listings(list, v)
    BY <1>1, <1>2, <1>3, <1>7 DEF Listings
  <2> QED
    BY <1>1, <1>5, <1>7, <2>1
<1> QED
  BY <1>6, <1>7

LEMMA ListStep ==
  ASSUME SInv, ListInv, [Next]_vars
  PROVE  ListInv'
<1>1. ASSUME validatorList' = validatorList,
             \A v \in Account : validators'[v].isActive = validators[v].isActive
      PROVE  ListInv'
  BY <1>1 DEF ListInv
<1>2. ASSUME NEW sender \in Account, NEW value \in Amounts, RegisterValidator(sender, value)
      PROVE  ListInv'
  <2>1. /\ validatorList' = Append(validatorList, sender)
        /\ ~validators[sender].isActive
        /\ validators'[sender].isActive = TRUE
        /\ \A v \in Account \ {sender} : validators'[v] = validators[v]
    BY <1>2 DEF RegisterValidator, SInv
  <2>2. validatorList \in Seq(Account)
    BY DEF ListInv
  <2>3. ASSUME NEW v \in Account
        PROVE  Cardinality(Listings(validatorList', v))
                 = IF validators'[v].isActive THEN 1 ELSE 0
    <3>1. Cardinality(Listings(validatorList', v))
            = Cardinality(Listings(validatorList, v)) + (IF sender = v THEN 1 ELSE 0)
      BY <2>1, <2>2, ListingsAppended
    <3>2. Cardinality(Listings(validatorList, v)) = IF validators[v].isActive THEN 1 ELSE 0
      BY DEF ListInv
    <3> QED
      BY <2>1, <3>1, <3>2
  <2>4. validatorList' \in Seq(Account)
    BY <2>1, <2>2
  <2> QED
    BY <2>3, <2>4 DEF ListInv
<1>3. ASSUME NEW sender \in Account, NEW v \in Account, NEW value \in Amounts,
             Delegate(sender, v, value) \/ Unstake(sender, v, value)
      PROVE  ListInv'
  <2>1. validatorList' = validatorList
    BY <1>3 DEF Delegate, Unstake
  <2>2. PICK x : validators' = [validators EXCEPT ![v].totalStake = x]
    BY <1>3 DEF Delegate, Unstake
  <2>3. \A w \in Account : validators'[w].isActive = validators[w].isActive
    BY <2>2 DEF SInv
  <2> QED
    BY <1>1, <2>1, <2>3
<1>4. CASE StakingNext
  BY <1>2, <1>3, <1>4 DEF StakingNext
<1>5. CASE UnstakeReturns
  BY <1>1, <1>5 DEF UnstakeReturns
<1>6. CASE UNCHANGED stakingVars
  BY <1>1, <1>6 DEF stakingVars
<1> QED
  BY <1>4, <1>5, <1>6 DEF Next, vars

LEMMA TypeInvInit == Init => TypeInv
<1> SUFFICES ASSUME Init PROVE TypeInv
  OBVIOUS
<1>1. frames = << >> /\ validatorList = << >> /\ locked = FALSE /\ now = 1
  BY DEF Init, CoinInit, StakingInit
<1>2. GInv /\ SInv
  BY InitGInv, InitSInv
<1>3. now <= EndOfTime
  BY <1>1, CoinParameters
<1>4. LockInv
  <2>1. frames \in Seq(Frame) /\ Len(frames) = 0 /\ DOMAIN frames = {}
    BY <1>1
  <2>2. \A i \in Nat : ~Paying(frames, i)
    BY <2>1 DEF Paying
  <2>3. Len(frames) <= MaxDepth
    BY <2>1, CoinParameters
  <2>4. locked = FALSE
    BY <1>1
  <2> QED
    BY <2>1, <2>2, <2>3, <2>4 DEF LockInv
<1>5. ListInv
  <2>1. validatorList \in Seq(Account) /\ DOMAIN validatorList = {}
    BY <1>1
  <2>2. \A v \in Account : Listings(validatorList, v) = {}
    BY <2>1 DEF Listings
  <2>3. \A v \in Account : ~validators[v].isActive
    BY DEF Init, StakingInit
  <2> QED
    BY <2>1, <2>2, <2>3, FS_EmptySet DEF ListInv
<1> QED
  BY <1>2, <1>3, <1>4, <1>5 DEF TypeInv

LEMMA TypeInvStep == TypeInv /\ [Next]_vars => TypeInv'
<1> SUFFICES ASSUME TypeInv, [Next]_vars PROVE TypeInv'
  OBVIOUS
<1>1. GInv' /\ SInv'
  BY NextKeepsGInv, NextKeepsSInv DEF TypeInv
<1>2. now' <= EndOfTime
  <2>1. now' = now \/ NextBlock
    BY DEF Next, vars, coinVars, StakingNext, RegisterValidator, Delegate, Unstake, UnstakeReturns,
       GovernorNext, CreateProposal, CastVote, ExecuteProposal, ExecutionReturns, TransferCoins
  <2> QED
    BY <2>1, CoinParameters DEF TypeInv, GInv, NextBlock
<1> QED
  BY <1>1, <1>2, FramesStep, ListStep DEF TypeInv

(***************************************************************************)
(* Types; every active validator is in the list once and nobody else is;   *)
(* and the lock of nonReentrant is held exactly while a payment of unstake *)
(* is under way, of which there is never more than one, however deep the   *)
(* calls of other functions are nested around it.                          *)
(***************************************************************************)
THEOREM TypeCorrect == Spec => []TypeOK
<1>1. ASSUME TypeInv PROVE TypeOK
  <2>1. CoinTypeOK
    BY <1>1, CoinParameters DEF TypeInv, GInv, LockInv, CoinTypeOK
  <2>2. StakingTypeOK
    BY <1>1 DEF TypeInv, SInv, LockInv, ListInv, StakingTypeOK
  <2>3. GovernorTypeOK
    BY <1>1 DEF TypeInv, GInv
  <2>4. \A v \in Account : Cardinality({i \in DOMAIN validatorList : validatorList[i] = v})
                             = IF validators[v].isActive THEN 1 ELSE 0
    BY <1>1 DEF TypeInv, ListInv, Listings
  <2>5. locked <=> \E i \in DOMAIN frames : frames[i].call = "unstake"
    <3>1. \A i \in DOMAIN frames : i \in Nat
      BY <1>1 DEF TypeInv, LockInv
    <3> QED
      BY <1>1, <3>1 DEF TypeInv, LockInv, Paying
  <2> QED
    BY <2>1, <2>2, <2>3, <2>4, <2>5 DEF TypeOK
<1>2. TypeInv => TypeOK
  BY <1>1
<1> QED
  BY <1>2, TypeInvInit, TypeInvStep, PTL DEF Spec
=============================================================================
