---------------------------- MODULE ProofOfWork ----------------------------
(***************************************************************************)
(* contracts/PISOProofOfWork.sol and the miners that work for it,          *)
(* core/pow.py with scripts/pow_miner.py.  The digests are arbitrary       *)
(* functions; the width of a hash is a parameter.                          *)
(*                                                                         *)
(* submitWork pays with a call after its last change of state and holds    *)
(* the reentrancy guard: what the solver calls from inside is              *)
(* createChallenge or a donation, which could as well come right after.    *)
(***************************************************************************)
EXTENDS Integers, Sequences, FiniteSets, Functions

CONSTANTS
    Miner,
    Nonce,              \* the nonces tried, an interval
    Width,              \* bits of a hash: 256
    MaxUint,            \* type(uint256).max, MAX_UINT256
    Keccak, Sha256,     \* Miner \X Nonce -> hash, for the one challengeHash
    Difficulties,       \* bits asked for by challenges and miners
    Rewards,            \* values of msg.value
    MaxChallenges, MaxDonations     \* bounds

ASSUME PowParameters ==
    /\ Nonce \subseteq Nat
    /\ Width \in Nat
    /\ MaxUint \in Nat
    /\ Keccak \in [Miner \X Nonce -> 0 .. MaxUint]
    /\ Sha256 \in [Miner \X Nonce -> 0 .. MaxUint]
    /\ Difficulties \subseteq 1 .. Width - 1    \* required by the contract
    /\ Rewards \subseteq Nat

ASSUME WidthAssumption == MaxUint = 2 ^ Width - 1

NoNonce == -1
Nobody == "nobody"

ASSUME NobodyAssumption == Nobody \notin Miner

VARIABLES
    challenges,     \* a sequence, in order of id
    balance,        \* the contract's coins
    totalRewardsDistributed,
    donated,        \* history: coins sent to receive()
    solution        \* Miner -> [id, bits, hash, nonce, verified], its last result

powVars == <<challenges, balance, totalRewardsDistributed, donated, solution>>

Idle == [id |-> 0, bits |-> 0, hash |-> "none", nonce |-> NoNonce, verified |-> FALSE]

PowInit ==
    /\ challenges = <<>>
    /\ balance = 0 /\ totalRewardsDistributed = 0 /\ donated = 0
    /\ solution = [m \in Miner |-> Idle]

-----------------------------------------------------------------------------
(* The contract.                                                            *)

createChallenge(bits, value) ==
    /\ Len(challenges) < MaxChallenges
    /\ challenges' = Append(challenges,
          [targetDifficulty |-> bits, rewardAmount |-> value, active |-> TRUE, solver |-> Nobody])
    /\ balance' = balance + value
    /\ UNCHANGED <<totalRewardsDistributed, donated, solution>>

receive ==
    /\ donated < MaxDonations
    /\ balance' = balance + 1 /\ donated' = donated + 1
    /\ UNCHANGED <<challenges, totalRewardsDistributed, solution>>

\* MaxUint >> bits.
Shifted[bits \in Nat] == IF bits = 0 THEN MaxUint ELSE Shifted[bits - 1] \div 2

targetValue(bits) ==
    CASE bits = 0      -> MaxUint
      [] bits >= Width -> 0
      [] OTHER         -> Shifted[bits]

verifyProof(miner, nonce, bits) == Keccak[<<miner, nonce>>] <= targetValue(bits)

\* Mutant: a challenge that was solved stays open.
solvedOpen(id, miner) ==
    challenges' = [challenges EXCEPT ![id].solver = miner]

solved(id, miner) ==
    challenges' = [challenges EXCEPT ![id].solver = miner, ![id].active = FALSE]

\* hasSubmitted adds nothing: a challenge takes one solution.
submitWork(id, miner, nonce) ==
    /\ challenges[id].active
    /\ verifyProof(miner, nonce, challenges[id].targetDifficulty)
    /\ solved(id, miner)
    /\ balance >= challenges[id].rewardAmount
    /\ balance' = balance - challenges[id].rewardAmount
    /\ totalRewardsDistributed' = totalRewardsDistributed + challenges[id].rewardAmount

adjustDifficulty(id, bits) ==
    /\ challenges[id].active
    /\ challenges' = [challenges EXCEPT ![id].targetDifficulty = bits]
    /\ UNCHANGED <<balance, totalRewardsDistributed, donated, solution>>

-----------------------------------------------------------------------------
(* The miners.                                                              *)

\* Mutant: the shift is off by one.
target_off_by_one(bits) == Shifted[bits - 1]

difficulty_to_target(bits) ==
    CASE bits <= 0     -> MaxUint
      [] bits >= Width -> 0
      [] OTHER         -> Shifted[bits]

\* Without web3, and for the algorithm "sha256", the other digest.
compute_hash(hash, miner, nonce) ==
    IF hash = "keccak256" THEN Keccak[<<miner, nonce>>] ELSE Sha256[<<miner, nonce>>]

verify_proof(hash, miner, nonce, bits) ==
    compute_hash(hash, miner, nonce) <= difficulty_to_target(bits)

\* The first nonce that will do, among those tried.
mine(hash, miner, bits) ==
    LET found == {n \in Nonce : verify_proof(hash, miner, n, bits)}
    IN  IF found = {} THEN NoNonce ELSE CHOOSE n \in found : \A k \in found : n <= k

\* main of pow_miner.py for the challenge and difficulty read from the contract.
MineWork(m, id, hash) ==
    /\ challenges[id].active
    /\ LET bits == challenges[id].targetDifficulty
           n    == mine(hash, m, bits)
       IN  solution' = [solution EXCEPT ![m] =
              [id |-> id, bits |-> bits, hash |-> hash, nonce |-> n,
               verified |-> n # NoNonce /\ verify_proof(hash, m, n, bits)]]
    /\ UNCHANGED <<challenges, balance, totalRewardsDistributed, donated>>

\* The solution is sent.  A call that reverts changes nothing: the challenge may
\* be solved or harder by now, or the solver refuse the coins.
Submit(m) ==
    /\ solution[m].verified
    /\ \/ submitWork(solution[m].id, m, solution[m].nonce)
       \/ UNCHANGED <<challenges, balance, totalRewardsDistributed>>
    /\ solution' = [solution EXCEPT ![m] = Idle]
    /\ UNCHANGED donated

PowNext ==
    \/ \E bits \in Difficulties :
          \/ \E value \in Rewards : createChallenge(bits, value)
          \/ \E id \in DOMAIN challenges : adjustDifficulty(id, bits)
    \/ receive
    \/ \E m \in Miner :
          \/ \E id \in DOMAIN challenges, hash \in {"keccak256", "sha256"} : MineWork(m, id, hash)
          \/ Submit(m)

PowSpec == PowInit /\ [][PowNext]_powVars

RewardOf(ids) == SumFunction([i \in ids |-> challenges[i].rewardAmount])

Open == {i \in DOMAIN challenges : challenges[i].active}

Solved == {i \in DOMAIN challenges : challenges[i].solver # Nobody}

\* The coins of the contract are those of the open challenges and the
\* donations; each reward left it once, to the solver of its challenge.
EscrowCovered ==
    /\ balance = RewardOf(Open) + donated
    /\ totalRewardsDistributed = RewardOf(Solved)

\* What the miner's own check passed, the contract accepts, as long as the
\* challenge is open and was not made harder.  It holds for the contract's
\* digest only: a solution under the fallback is checked against itself.
VerifiedIsAccepted ==
    \A m \in Miner :
        LET s == solution[m]
        IN  s.verified /\ s.hash = "keccak256" =>
                LET ch == challenges[s.id]
                IN  \/ ~ch.active
                    \/ ch.targetDifficulty > s.bits
                    \/ /\ verifyProof(m, s.nonce, ch.targetDifficulty)
                       /\ balance >= ch.rewardAmount
=============================================================================
